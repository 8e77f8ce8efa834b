# go_fight: verification development

go_fight is a small game back end in C++: three server processes (gate, game,
data) on one network layer (`src/common/net/go_net.cpp`, libevent and POSIX
threads), with redis and MySQL behind the game and data servers. This directory
holds TLA+ modules of its concurrent core, the TLC runs that check them, and
proofs checked by TLAPS. `PROJECT.json` maps every definition to the lines it
models and lists runs, mutants, hazards and theorems.

Paths below are relative to the repository root; `go_net` is
`src/common/net/go_net.cpp`.

## Inventory

| component | state | operations | talks to |
|---|---|---|---|
| connection lifecycle, `go_net` | `s_conns_map`, `s_connect_conns`, `s_last_thread_id`, per worker `new_connections_` + pipe, `thread_connections_`, `for_delete_connections_`, per connection descriptors, state, close time | `new_connection`, `net_connect`, `push_/give_worker_new_conn`, `create_conn`, `conn_close`, the sweep, `conn_internal_close` | kernel, connector callback |
| message flow, `go_net` | per connection buffers, message deques and event flags; per worker `td_read_msgs_`, `td_write_msgs_` | `data_thread_worker`, `on_read`, `on_write`, `update_event`, `get_net_msgs`, `message_process`, `net_send` | peers, logic layer |
| network start-up, `go_net`, `protocol.cpp` | `s_threads_datas`, `s_init_count`, `s_msg_processers` | `net_init`, `thread_init`, `wait_/register_thread_init`, `protocol_init` | all of the above |
| message framing, `go_net` | read buffer | `message_format` | message flow |
| message registry, `go_net` | `s_msg_processers` | `regist_msg_processer`, `get_msgnode` | start-up, message flow |
| gate server, `src/gate` | `s_game_conn`, `s_init_ok`, `s_recv_msgs` | `connect_to_gs`, `connector_callback`, `regist_to_game`, `logic_update` | network layer, clients, game server |
| game server, `src/game` | `s_connections_to_me`, `s_data_conn` | `connect_to_ds`, `register_server`, handlers | network layer, redis list |
| game redis list, `game_redis.cpp` | `s_redis_list` | `add_redis_data`, `process_redis_list` | redis |
| data server, `src/data` | `s_connections_to_me` | handlers | network layer |
| data write-back, `data_redis.cpp` | the redis set `role_sets`, the MySQL table `role` | `process_redis_list` | redis, MySQL |
| redis and MySQL wrappers, logger, lua binding, utilities, generated classes, tools, vendored libraries | none of interest | | |

### How they interact

*Threads.* One accept thread, `net_thread_num_` workers, one main thread, and in
the servers a connect thread and a redis thread. A connection goes from the
accept thread (or from `net_connect` through `s_connect_conns` and some worker)
to a worker: its `ConnInfo` is queued, a byte is written to the worker's pipe,
and `thread_libevent_process` pops one `ConnInfo` per byte. From then on the
worker owns the connection. Messages cross to the main thread by
`td_read_msgs_` and back by `td_write_msgs_`, each under its own lock;
everything else of a `Connection` but its state is touched without one.

*Callbacks.* `connector_callback` runs on a worker and reads what a connect
thread writes (`s_game_conn` in the gate, `s_data_conn` in the game server) and, in
the gate, what the main thread clears.

*Servers.* A gate dials the game server, registers there and relays clients'
messages; the game server dials the data server and registers there. Records go
from the game server's main thread over `s_redis_list` and its redis thread into
redis, and from there, by the sorted set `role_sets`, through the data server's
redis thread into MySQL.

*Failures.* Every libevent and system call may fail: `accept` and `dup` at the
descriptor limit, `fcntl`, `event_add`, the pipe's `write`. Peers end a
connection in order or reset it. Nothing of the network layer is persisted, so
there is no recovery after a crash to model; the way of a record to MySQL is the
one place where a restart matters, of the game server as of the data server.

### What is hard, and what correct means

* hand-over: no byte without a `ConnInfo`, no connection with two owners, none
  forgotten; the connector hears one verdict, and "ok" exactly when the connection
  was registered;
* descriptors: they are reused at once, so the order in which
  `conn_internal_close` works is what keeps `s_conns_map` truthful, and what is
  swept must be released;
* objects: the logic layer keeps addresses of closed connections, so objects
  live for two minutes more, and not for ever, and no event may outlive the object
  it points to;
* messages: per connection in order, none lost before an orderly end, one
  Shutdown and nothing after it; one-shot edge-triggered events must never leave
  a connection deaf that has a descriptor to be armed on;
* start-up: workers, accept thread and main thread start concurrently and share
  tables without locks;
* gate: three threads race on `s_game_conn`; the game server must hear Regist on
  the right link and each client's messages in order, its end included, and must
  never be sent its own messages back;
* game server: a gate that comes back must be told from one that holds two links;
  `s_data_conn` is an address, and addresses are reused;
* records: two processes pass them on without a common lock or acknowledgement, so
  the last record of a role must always be somewhere, and no store may go back.

The complete list, each at its line, is `hazards` in `PROJECT.json`.

## Modules

| module | models | run by |
|---|---|---|
| `ConnLifecycle` | the life of a connection | `MCConnLifecycle` |
| `LogicFeed` | abstract: what the network promises the logic layer | property `FeedSpec` of `MsgFlow` |
| `MsgFlow` | messages between sockets and handlers | itself |
| `MsgFraming` | cutting a connection's bytes into frames | itself |
| `NetStartup` | starting the network | itself |
| `GateLogic` | the gate on top of the network's promises | part of `GateGame` |
| `GateGame` | gate and game server together | `MCGateGame` |
| `DataLink` | the game server's connection to the data server | itself |
| `WriteBack` | records from the game server over redis to MySQL | itself |
| `ConnLifecycleProofs`, `ConnOwnershipProofs`, `MsgFlowProofs`, `MsgFramingProofs`, `NetStartupProofs`, `GateGameProofs`, `DataLinkProofs`, `WriteBackProofs` | theorems | (TLAPS) |

### ConnLifecycle

An element of `Conns` is a TCP connection with its `ConnInfo` and `Connection`;
`Connectors` are those this process dials. Variables carry the code's names:
`new_connections[w]` is a `ThreadData`'s `ConnQueue`, `notify_pipe[w]` the number
of bytes in its pipe, `s_conns_map[f]` the global table, `sfd`, `sfd_dup`,
`state`, `close_time` the fields of a `Connection`, `object` whether it is
allocated, `callback` the verdicts given, `td` the worker `td_` points to (-1 before the
registration), `read_event` whether `read_event_` was given to a base and not deleted
since. `fd_table` is the kernel's descriptor
table: descriptors are handed out lowest first and reused at once.

A step is what a thread does between two points at which another thread can
see or change something: `GivePick`, `GivePush`, `GiveNotify` for
`give_worker_new_conn`, `ConnectorPick/Push/Notify` for `push_worker_new_conn`
(the lock on `s_connect_conns` is a guard on the other workers),
`CreateCheck/Dup/Register/Fails` for `create_conn`, `CloseErase/Dup/Sfd` for
`conn_internal_close`. `SweepVisit` is one connection of the sweep, `Reap` the
deletion loop with its early `break`. `Faults` selects the calls that may fail.
`CreateFails` keeps the two `event_add` calls apart: when the second one fails the read
event stays in the base, for `create_conn` has no `event_del`.
Descriptor exhaustion is always possible: `accept`, `socket` and `dup` fail when
nothing is free.

`DupClosed` / `SfdClosed` keep the code's test of `sfd_dup_for_write_` in both
places. `ForDeleteWith` keeps the map keyed by close time.

### MsgFlow and LogicFeed

Frames and messages are their numbers, Shutdown is 0. `Dispatch`, `CollectOne`,
`IoRead`/`IoWrite`, `EpollWait`, `EventRead`/`EventWrite`, `Register`,
`SweepVisit` are the stages of one turn of `data_thread_worker`. `OnRead` and
`OnWrite` are the callbacks with all their return paths: end of file, hard
errors, would-block with a re-arm that may fail, a full send buffer that takes
part of the data. Events are one-shot: `read_armed` and `write_armed` are
cleared when an event fires and set by `Rearm`. `Faults` lets the re-arm fail, and
`create_conn`'s `dup`: `event_add` accepts the event on -1 and adds nothing, so such a
connection is registered with `write_armed` false for ever, and `conn_internal_close`
leaves its socket open. A failing `event_add` makes no connection and is left to
`ConnLifecycle`. The main thread visits one
thread's deque per step (`GetNetMsgs`), then handles message by message;
handlers may send to any registered connection or close the one they serve.
Moving a connection to a worker is one step, `Register`: its details are
`ConnLifecycle`'s.

`LogicFeed` says what handlers may rely on: per connection frames 1, 2, 3 ...
and one Shutdown last. `FeedSpec` (`INSTANCE LogicFeed WITH feed <- handled`)
is checked as a property: `MsgFlow` implements it.

### MsgFraming

`message_format` on the bytes reads bring. The stream is positions, not bytes:
frame `i` ends before `ends[i]`, `read_buffer_` holds the positions from `cut` to
`arrived`, and `OnRead` adds any number of those on their way, so a read may end
anywhere in a header or a body. `sum_size` is the code's local variable; `TakeFrame`
is one turn of the loop, `FormatEnd` its returns. `s_msg_processers` is filled
meanwhile without a lock (`ProtocolInitBegins`, `ProtocolInitEnds`): a lookup finds
the entry, misses it, or finds it before `nmd_` is set (`TakeFrameCrashes`).
`MsgFlow` starts from what this module shows of frames with a body: whole, in
order, once.

### NetStartup

`init_config` of the gate as steps of the main thread, which ends the process
when the listening socket or the accept thread cannot be had, against the accept
thread (`CreateWorker`/`PublishWorker` are the two halves of the loop in
`thread_init`, which ends the process too when a pipe, event base or thread cannot be
had, `CreateWorkerFails`; then the condition wait with spurious wake-ups) and the
workers (`RegisterHold`/`RegisterCount`). A worker may find a dialled connection, and a
closed one, as soon as it runs. The registration of Shutdown is two steps
(`RegistEntry`, `RegistFunctions`), as `regist_msg_processer` inserts the entry before it
sets its functions: a worker that sweeps a closed connection (`Sweep`) finds no entry
and tries the same connection again (`SweepAgain`), finds a complete one, or calls an
`nmd_` that is not set, which ends the process (`GetMsgnode`). Shared tables are read and written without a
lock; a lookup that meets no entry is modelled as the NULL `operator[]` returns,
torn tree updates are not modelled.

### GateLogic

The network layer appears by its promises: a link is `unused`, `pushed` (by
`net_connect`), then registered (`live`) or `rejected` with one callback, and
after a loss its messages end with Shutdown. On top of that connect threads,
callback and main thread interleave at every access to `s_game_conn`:
`ConnectLoop` tests it, `ConnectAssign` stores the result of `net_connect` later than
the workers see the connection; `CallbackCompare`, `CallbackSetOk` and
`CallbackRegist` are separate. `ToGs` distinguishes what `net_send` meets: 0, a
registered connection, one without `td_`, one that is no object any more; the last
two end the gate with all its threads (`Crashed`). `MinusOne` is what `net_connect`
returns when `fcntl` fails. A message for a client (`net_send(cli_conn, msg_node)`)
changes nothing in this module.

### GateGame

`GateLogic` composed with the game server: the gate's steps are `GateLogic`'s `Next`,
restricted in one place, the game server answers only clients whose message it has
handled (`GateMoves`). `GameHears` is one turn of `logic_update`: it handles the next
message of a link, in the order `LogicFeed` promises, and `RegisterServer` keeps the
first registration, as `register_server` does. Every gate registers under the id
`GATE_SERVER + 1`, and `disconnect_server` has no caller, so `s_connections_to_me` is
one link or none here, and is never emptied.

### DataLink

`connect_to_ds` (`ConnectOk`, `ConnectFails`, `Assign`) against the one network worker of
the game server, which registers or rejects a connection (`Verdict`), runs
`connector_callback` (`CompareOk`, `CompareRejected`, `Regist`) and deletes the rejected
object (`Delete`). Unlike the gate it dials once per thread, and a rejection starts
another thread. Links have addresses here: a freed object's may be given to the
next, and `s_data_conn` holds addresses. Losing the registered link is left out, for
nothing reads `s_data_conn` after the registration.

### WriteBack

The whole way of a record, which is a pair of a role and a number. Game server:
`AddRedisData` is `add_redis_data`, which may run beside an erase of the last record,
since the redis thread takes no lock: the push may then be lost or break the list.
`TakeBegin`, `Erase` and `SetData` are one turn of its redis thread; a failing SET drops
the record, `GameRestarts` the list. Data server: `Zrange`, `Get`, `Save` and `ZRem`,
each with its failure, are the commands of one pass of `process_redis_list`. `response`
is the code's string with what `redis_cmd` makes of it: left alone by an empty array
or a lost connection, an error's text after an error reply. `value` and `mysql` hold
the numbers of the records in redis and in MySQL. The producer of the set is
external: no code in the repository fills `role_sets`, so a role that was stored is
ranked anywhere in the set afterwards. `Crash` may come at any point, `Restart` runs
`redis_init` again. `quiet`, `displaced` and `dropped` are history: they record which
removals came from a pass that something disturbed, and which records the game
server lost.

## Runs

| run | instance | checks |
|---|---|---|
| `conn` | 2 workers, one accepted and one dialled connection, 4 descriptors, no clock, fairness | `SingleOwner`, `MapNamesOpenFd`, `OwnsDescriptors`, `AcceptedServed`, `GoneIsSwept`, `ConnectorAnswered` |
| `conn_faults` | 1 worker, same connections, 3 descriptors, every fault, 3 seconds | `NotifiedHasConn`, `OneVerdict`, `GraceKept`, `NoStaleEvent`, `LeakOnlyOnSameSecond` |
| `fd_leak` | one connection, one descriptor | `SweptReleasesFds` is violated |
| `flow` | 1 connection, 3 frames in, 3 messages out, send buffer of 1, failing re-arms and `dup`, fairness | `TypeOK`, `EofLosesNothing`, `SendsInOrder`, `NeverDeaf`, `FeedSpec`, `FramesHandled`, `ShutdownTold`, `SendsArrive` |
| `framing` | 3 frames, header of 2, bodies of 0 to 2, every division into reads | `InStep`, `NothingLeftBehind`, `QueuedInOrder`, `FramesCut` |
| `framing_unknown` | 2 frames, bodies of 0 or 1 | `UnknownDisconnects` is violated |
| `gate` | 1 client, 2 links, 2 messages, 1 reply a link, both faults | `CrashOnlyAfterLoss`, `RegistOnItsLink`, `RelayedInOrder`, `RefusedOnlyAfterLoss`, `NothingEchoed`, `EndHeard`, `GateKnown` |
| `gate_redial` | the same without faults and replies | `TdSetBeforeUse` is violated |
| `data_link` | 3 links in 2 places of memory, every failure | `RegistOnDataLink`, `OneDataLink`, `DataRegistered` |
| `write_back` | 3 records of 2 roles, every command may fail, both servers restart | `TypeOK`, `SavedOrOnItsWay`, `NoGoingBack`, `WorkedOff` |
| `startup` | 3 workers, 3 accepted and 2 dialled connections, failing creations | `AcceptAfterReady`, `AcceptLoopEntered`, `SpinEnds` |
| `startup_dial` | 2 workers, 1 dialled connection | `ThreadDataThere` is violated |

The types of `ConnLifecycle`, `MsgFraming`, `NetStartup`, `DataLink`, `GateLogic` and `GateGame` are not
checked by a run: they are proved.

### Bounds

*Two connections, two workers* are enough for every race of the hand-over: the
races are between two threads about one connection or about one descriptor, and
a second connection is what reuses the descriptor. Four descriptors let both
connections be complete; three make `dup` and `accept` fail; one makes `dup` fail
for a lone connection. `DeleteDelay` is 2 * 60 in the code and 0 or 1 here: only
the comparison matters, and `MaxTime` lies past it. *Three frames* let one be read, one
wait in the connection and one in the socket; a *send buffer of one frame* fills
after one message, so partial writes and would-block happen at once. A *header of
two bytes* can be split, complete without its body, or complete with part of it,
which is all `message_format` tells apart of its sixteen; a third frame follows
one that waits behind another. `flow` has one
connection: `MsgFlow`'s promises are per connection, and that what connections share, a
thread's deques, keeps the order of each is proved (`ImplementsFeed`). Two links of the
gate are the first and the one dialled after a loss. *Three data links in two
places* let one link be rejected, another take its place and a third be dialled
because the second was taken for the first. *Three records of two roles* let one role be
ranked, again or below the other, while the other or an older record of itself is
being saved, with a third on the list or being pushed. *Three workers* have a first,
a last and one between, and one may be ahead of another. The run with faults
has one worker because a failing `event_add` closes a descriptor twice (see hazards),
which with two workers disturbs the other one's connection. `conn` needs no clock: time
matters to the deletion of objects only; that a displaced object is of the same worker
is what the theorem adds to the run with one worker.

### Fairness

Weak fairness per thread: the operating system runs every thread that can run.
Nothing is assumed of peers, of the clock, of handlers that close, of losses.
In `framing` the worker goes on while it can. Four assumptions go beyond that and
are stated where they are used:

* `flow`: a peer keeps reading (`WF PeerRecv`), and every connection is
  registered (`SF Register`), which is what `AcceptedServed` of `conn` shows;
* `gate`: a game server that is asked again and again accepts in the end
  (`SF ConnectOk`); without it the gate rightly waits for ever. The game server's main
  loop runs and a link that is not lost delivers (`WF GameHears`);
* `write_back`: redis and MySQL, asked again and again, do a command in the end
  (`SF` of `Zrange`, `Save`, `ZRem`), while the process and its connection last;
* `startup`: a worker that waits for `s_init_lock` gets it in the end
  (`SF RegisterHold`); each holder releases it in a bounded number of steps.

`gate`, `gate_redial`, `data_link`, `startup`, `startup_dial`, `framing` and
`framing_unknown` set
`CHECK_DEADLOCK FALSE`: their clients, dials and frames are bounded, and when they are
used up an idle process, or a crashed one, stops. The polling of idle threads changes no variable of these modules.
`ConnLifecycle`, `MsgFlow` and `WriteBack` model the turns of the loops themselves
and are checked for deadlock.

## What the runs show

The hand-over is sound even when notification writes fail: a lost byte leaves a
`ConnInfo` waiting, it never produces the opposite. Without a failing
`event_add` every connection has one owner and its own descriptors,
and `conn_internal_close` works in the order that reuse needs. Of the connections that
were served and swept, every object that is never deleted was displaced by one of the
same worker closed in the same second; an object that never was registered, because
its connector's notification byte was lost, stays allocated as well and is not the
property's subject. A deleted object leaves no event in a base unless `create_conn`
failed on its write event (`NoStaleEvent`). A connector is told "ok" exactly when its
connection has been registered. Frames survive an orderly end and all orders hold. No
open connection goes deaf for reading; for writing those do, and only those, whose
`dup` failed: they never send anything, stay open, and `SendsArrive` exempts them.

Frames are cut where they end and each once, however reads divide them, with one
exception that the property names: `message_format` asks for more than sixteen
bytes, so a frame without a body stays in the buffer until something follows it,
and is lost when its sender ends there.

A worker that sweeps a closed connection before Shutdown is registered spins, and goes
on once it is; if it looks the entry up between its insertion and the assignment of
`nmd_`, the process ends there, which `SpinEnds` allows for.

The gate is never on two live links, though three threads share `s_game_conn`: when
the game server refuses a registration, one of the two links it chooses between has
been lost (`RefusedOnlyAfterLoss`). It then keeps the dead one, for nothing calls
`disconnect_server`: a gate that dials again is refused, which no line of the
repository promises otherwise. Messages of the game server never return to it as a
client's, and a client's end gets there unless the link is lost first.

The game server is on one data link at most and registers on the one that came up,
even when a new connection gets the address of a rejected one; only two rejections
at one address let `regist_to_data` follow the number of a deleted object, and the
property names that case. It dials once: `DataRegistered` names every way to stay
unregistered (a failed `net_connect`, a callback before the assignment).

The way of a record: no crash, failing MySQL or failing removal of the data server
loses one. Lost are what the game server drops (a failed SET, a push beside an erase,
its own end), a role removed because another was ranked while one was being saved
(the removal is by position), and a role that could not be read: `SavedOrOnItsWay`
holds for all but these. Neither redis nor MySQL ever goes back to an older record.

Four disagreements between the code and what the repository says of it:

* `fd_leak`: `go_net:1265` tests the duplicate's descriptor where it closes the
  connection's own, so a connection whose `dup` failed stays open for ever;
* `gate_redial`: `td_` is read by the main thread before the worker has set it
  when the gate dials again, against `go_net.h:96-97`;
* `startup_dial`: `push_worker_new_conn` may look up a worker that `thread_init`
  has started and not yet published, against the comment at `go_net:136`;
* `framing_unknown`: a frame of an unregistered type is dropped and the connection is
  read on, while the comment at `go_net:303` says that it disconnects; the
  `conn_close` there is commented out. `FramesCut` states what the code does: frames
  behind such a one are cut like any other.

`CrashOnlyAfterLoss` narrows the second one down: the first link of a gate is
never followed too early, in any interleaving, because `s_init_ok` is set by the
callback that runs after `td_`.

## Proofs

All theorems hold for every value of the constants under the named assumptions of the
modules.

### ConnLifecycle

For every number of workers, connections, descriptors, every delay and every set of
faults:

* `TypeCorrect`: `Spec => []TypeOK`;
* `NotificationSafe`: `Spec => []NotifiedHasConn`, no worker ever pops an empty
  `ConnQueue` for a byte it has read.

Neither is inductive alone. `NotifiedHasConn` compares bytes with queue lengths
at rest; between push and notify a queue is one ahead, and the proof has to know
that it is ahead by as many threads as are about to write. The invariant is

    HandoffInv == TypeOK /\ AtHand /\ ConnectLock /\ PipeBacked

* `AtHand`: a thread in the middle of an operation has a connection in hand, not
  `NoConn` (without it the next step would not be well-typed);
* `ConnectLock`: at most one worker is inside the scan of `s_connect_conns`, and
  that list is not empty while it is: the code's `AutoLockMutex`;
* `PipeBacked`: for every worker, bytes in the pipe, plus one if the accept thread
  is about to notify it, plus one if the connector scan is, are no more than its
  queue's length; a pipe reported readable holds a byte until its own worker
  reads it; no worker has crashed.

There is one lemma `<Action>_Inv` per action; each splits `HandoffInv'` into its
parts. The theorems follow with `PTL`. Assumptions used: the named ones of
`ConnLifecycle` (at least one worker, finite `Conns`, natural descriptors, ...).

`ConnOwnershipProofs` goes on from there. With every fault:

* `OneOwner` (`SingleOwner`), from `OwnInv`: a connection comes in by its own way and
  once (`Arrival`), at most one worker claims it and in one place, none while it is still
  upstream (`OneClaim`), and a worker's events and its sweep are about connections it
  serves (`TodoServed`);
* `VerdictOnce` (`OneVerdict`), `GraceHolds` (`GraceKept`) and `LeakOnlyThen`
  (`LeakOnlyOnSameSecond`), from `LifeInv`: nothing is said of a connection or closed before
  it is registered, and "ok" is what was said of exactly those that are or were
  (`Verdicts`), and only what has been swept waits for deletion (`Objects`);
* `EventsDeleted` (`NoStaleEvent`), from `LifeInv` and `Homes`: a connection in a worker's
  tables has that worker as its `td_`, one not yet registered has none, and an event of a
  connection with a `td_` is in the base only while the connection is registered, for
  `conn_internal_close` has deleted it before it leaves the worker's table.
  `LeakOnlyThen` takes from `Homes` that what a table displaces is of the same worker.

Where no `event_add` fails (`"event_add" \notin Faults`, a hypothesis of these two, for with
it they are false: a descriptor is then closed twice):

* `MapNamesOpen` (`MapNamesOpenFd`) and `DescriptorsOwned` (`OwnsDescriptors`), from
  `DescInv`: the kernel's entry for a connection's descriptor, and for its duplicate, is
  that connection's from `accept` or `socket` to the `close` of its worker (`FdsHeld`,
  `DupsHeld`), and an entry of `s_conns_map` is that of a connection whose erase is still
  to come (`MapHeld`): the order of `conn_internal_close` is what keeps this.

### MsgFlow

For any number of connections, workers, frames and messages, any size of the send
buffer, and with every fault: `TypeCorrect`, `NeverSleeps` (`NeverDeaf`),
`SendsKeepOrder` (`SendsInOrder`), `EofKeepsAll` (`EofLosesNothing`) and the refinement
`ImplementsFeed` (`Spec => FeedSpec`). The invariant is

    FlowInv == TypeOK /\ NeverDeaf /\ Homes /\ Fresh /\ OneRead /\ SendsInOrder
               /\ InStream /\ Closing

* `NeverDeaf` (reading: of every open connection, writing: of those with a duplicate
  descriptor) is inductive with the types alone;
* `Homes`: a connection is registered with its own worker, and what a worker has to do
  is about connections registered with it. `Fresh`: before that it is untouched, and
  heard of through no queue but its worker's;
* `SendsInOrder` needs those two: a message waits in the deque of the worker that
  serves the connection, and a connection starts with nothing sent;
* `OneRead`: a connection is polled or armed, never both, and is read once in a turn,
  after what was read before has been collected. Without it a second read could find
  the end of the stream while frames wait in the connection, and the sweep of that turn
  would lose them: this is what `EofLosesNothing` rests on;
* `InStream`: for every connection there are a, b, d, e such that frames 1..a have been
  handled, a+1..b are in the main thread's list, b+1..d in the worker's queue, d+1..e in
  the connection and the rest in the kernel (until a loss); after an orderly end d is
  the number of the last frame sent;
* `Closing`: a registered connection has no Shutdown anywhere, and a Shutdown is the last
  message of its connection, in every queue and over the queues.

A step of `Handle` is then `LogicFeed`'s `Frame` or `End`, and every other step leaves
`handled` alone. `Run` and `Consecutive` describe one queue; their lemmas (`RunAppend`,
`RunTail`, `RunJoin`, `ConsecutiveMove`, ...) say what pushing, popping, appending a
queue and reading k frames do to them.

### MsgFraming

`StaysInStep`, `NothingIsLeftBehind`, `AllQueuedInOrder` and `TypeCorrect`, for every
header size, body length, number of frames and division into reads, from

    IInv == TypeOK /\ Stream /\ InStep /\ NothingLeftBehind /\ Queue

`Stream` says that frames follow one another with a header each; `Queue` that what is
queued has been cut out, and that no frame counts as sent after `protocol_init` before
that has ended. `NextUncut` is the heart of `NothingLeftBehind`: in front of a whole
frame still in the buffer stands one that begins at `cut`, so the loop cannot have
ended unless what remains is a lone header.

### NetStartup

`AcceptsWhenReady` (`AcceptAfterReady`) and `TypeCorrect`, for every number of network
threads, from `IInv == TypeOK /\ StartOrder /\ Counted`: workers are started one after
the other, and `s_init_count` is the number of workers in their loops, so that a full
count means all of them.

### DataLink

`NeverTwoDataLinks` (`OneDataLink`), `RegistersOnDataLink` (`RegistOnDataLink`) and
`TypeCorrect`, for any number of links and addresses. `OneTurn` says that at most one
actor can still bring about a link: a thread about to dial, or a connection not yet
given up. The registration needs more (`LinkInv`): the worker's callback and the stage of
its link go together (`Coupled`, `OneWorker`), a number `net_connect` returned is that of a
link that was made (`NumbersUsed`), and unless two links have been rejected at one address
(`TwiceAtOneAddress`, the case the property names) one thread at a time is in
`connect_to_ds` and will assign the number of the link under way (`InTurn`).

### GateGame

For any number of clients, links, messages and replies, with both faults:

* `TypeCorrect`, inductive as it stands, with one lemma per thread;
* `FirstLinkSafe` (`CrashOnlyAfterLoss`), `RegistersOnce` (`RegistOnItsLink`), `NoEcho`
  (`NothingEchoed`) and `OneLinkAtATime` (`RefusedOnlyAfterLoss`), from
  `SystemInv`: types, `GateInv`, `GameInv` and the two properties about losses. `GateInv`
  says that links are used one after the other: a link is unused, the `Current` one, or
  `Over` for the main thread (`LinkCallback`); only the first connect thread dials, and only
  while `s_game_conn` is 0 (`Dialling`); a link's Shutdown is its last message and waits to
  be taken until `s_game_conn` is cleared for it (`EndLast`); what the main thread holds
  (`InHand`) and where Regist has gone (`SentInv`) follow from that. `GameInv` ties the table
  of the game server to what it has heard;
* `RelayKeepsOrder` (`RelayedInOrder`), from `RelayInv`: a client's messages wait in order
  and the next one is in the main thread's hand (`Waiting`, `Counted`), nothing relayed is
  ahead of those that went past it (`Relayed`), and the last one on a live link is the last
  that did (`UpToDate`), so that the next one relayed there leaves no gap (`Stepwise`).

`RelayedInOrder` speaks of two places of a link's messages with none of that client
between them. A statement over the filtered sequence would say the same and would
need induction over sequences. `ShutdownAssumption` (`Shutdown` is no client) was needed
to tell the two apart in `s_recv_msgs`.

### WriteBack

`TypeCorrect`, `NothingAstray` (`SavedOrOnItsWay`) and `StoresForward` (the action property
`NoGoingBack`), for any number of roles and records, with every failure and with restarts
of both servers at any point. The invariant `WriteBackInv` has, besides the types,
`InOrder` (the list is in the order of the records, after the redis thread's record and
that after whatever redis holds), `Newest` (the last record of a role is on the list, in
hand, dropped, or in redis), `Pass` (what the data server has read is no newer than redis
and no older than MySQL), `Quiet` (in an undisturbed pass the role in hand is still the
lowest of the set, and is what will be removed) and `Delivered` (a role that is not
displaced is to be ranked, ranked, or saved).

### What stays with TLC

Every safety property of a passing run, and the refinement, is stated by a theorem. Only
model-checked are the properties under fairness (`AcceptedServed`, `GoneIsSwept`,
`ConnectorAnswered`, `FramesHandled`, `ShutdownTold`, `SendsArrive`, `FramesCut`, `EndHeard`,
`GateKnown`, `DataRegistered`, `AcceptLoopEntered`, `SpinEnds`, `WorkedOff`): liveness and
`ENABLED` are out of the prover's reach. The four violations are TLC's counterexamples.

## Not modelled

* payload and its parsing; malformed input;
* outside `DataLink` addresses of objects are unique: an address reused by the
  allocator is excluded, as is `GO_NEW` failing;
* torn updates of `std::map`, which the C++ standard leaves undefined; only the
  missing entry, and the entry without its functions, are modelled;
* what libevent does with an event left in a base after its object is gone
  (`NoStaleEvent` says where that happens);
* the gate's answers to clients are assumed to come within the two minutes a
  closed object lives; `LinkReaped` that a running main thread takes a Shutdown
  within them;
* two connections of one process in `MsgFlow` (see Bounds), and two gates at one game
  server: the second is refused, as it has the same id;
* the data server's table of servers: its `register_server` has no caller in the
  repository, which holds no message processor of the data server;
* the limit of 300 records between two sleeps of the game server's redis thread;
* `SIGPIPE`: gate and game ignore it once `init_config` is over; a write to a reset socket is then an error,
  as modelled;
* configuration, logging, statistics that nothing reads (`curr_conns_` is kept
  as the code has it), redis and MySQL
  beyond the commands of `WriteBack`, lua, generated code and vendored libraries.

## Plan

1. `GateLogic` takes a link's stages and its verdict from `ConnLifecycle` and its messages
   from `LogicFeed` in words; the first as a refinement of an abstract life of a
   connection that `ConnLifecycle` implements and that `GateLogic` and `DataLink` refer to.
2. The steps liveness rests on that are safety: what keeps a thread's next action
   possible, as invariants beside the fairness properties.
