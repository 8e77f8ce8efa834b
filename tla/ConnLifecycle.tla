--------------------------- MODULE ConnLifecycle ---------------------------
(***************************************************************************)
(* The life of a connection in common/net/go_net.cpp: its descriptors, its *)
(* hand-over between threads, its entry in the global tables and the       *)
(* lifetime of its Connection object.                                      *)
(*                                                                         *)
(* Four kinds of thread interleave: the accept thread (new_connection),    *)
(* the worker threads (data_thread_worker and the callbacks libevent runs  *)
(* inside it), the main thread (net_connect, conn_close), and the peers at *)
(* the other end of the sockets.  Payload is left to MsgFlow: a read only  *)
(* finds out whether the peer has gone.                                    *)
(*                                                                         *)
(* Every element of Conns stands for one TCP connection together with the  *)
(* ConnInfo and the Connection object made for it.                         *)
(***************************************************************************)
EXTENDS Integers, Sequences, FiniteSets

CONSTANTS
    NetThreadNum,   \* s_net_setting.net_thread_num_
    Conns,          \* connections
    Connectors,     \* the ones this process opens with net_connect
    Fds,            \* descriptors the process may hold
    DeleteDelay,    \* seconds a closed object is kept (2 * 60 in the code)
    MaxTime,        \* bound on the clock
    Faults,         \* calls that may fail: see FaultKinds
    NoConn, NoFd

FaultKinds == {"event_add", "notify", "fcntl", "rearm"}

ASSUME NetThreadNumAssumption == NetThreadNum \in Nat \ {0}
ASSUME ConnsAssumption == /\ IsFiniteSet(Conns)
                          /\ Connectors \subseteq Conns
                          /\ NoConn \notin Conns
ASSUME FdsAssumption == Fds \subseteq Nat /\ NoFd \notin Fds
ASSUME TimeAssumption == DeleteDelay \in Nat /\ MaxTime \in Nat
ASSUME FaultsAssumption == Faults \subseteq FaultKinds

Workers == 0 .. NetThreadNum - 1

\* The notification pipe as an event source beside the connections.
Pipe == NoConn

VARIABLES
    \* kernel and peers
    clock,          \* seconds, util::go_time::get_s_time()
    peer,           \* peer[c]: "idle", "connected" or "down"
    backlog,        \* connections the kernel has queued for accept()
    fd_table,       \* fd_table[f]: the socket descriptor f refers to
    \* accept thread and main thread, one record each: pc, connection at
    \* hand, worker chosen for it
    acceptor, main,
    \* shared between threads
    s_last_thread_id,
    s_connect_conns,    \* opened by net_connect, not yet given to a worker
    s_conns_map,        \* s_conns_map[f]: connection registered under f
    curr_conns,
    new_connections,    \* per worker: ConnQueue of handed-over connections
    notify_pipe,        \* per worker: bytes in its pipe
    \* fields of a Connection / ConnInfo
    sfd, sfd_dup, state, close_time,
    object,             \* "none", "live" or "freed"
    callback,           \* verdicts s_cntor_callback was given, in order
    td,                 \* td_: the worker that registered it, -1 before
    read_event,         \* read_event_ was added to a base, and not deleted
    \* worker threads
    pc, cur, target, now, todo,
    thread_connections, for_delete_connections

kernelVars == <<clock, peer, backlog, fd_table>>
sharedVars == <<s_last_thread_id, s_connect_conns, s_conns_map, curr_conns,
                new_connections, notify_pipe>>
connVars   == <<sfd, sfd_dup, state, close_time, object, callback, td,
                read_event>>
workerVars == <<pc, cur, target, now, todo, thread_connections,
                for_delete_connections>>
vars == <<kernelVars, acceptor, main, sharedVars, connVars, workerVars>>

ConnStates == {"LISTEN", "WAITING", "CONNECT", "CLOSE"}

WorkerPcs == {"connect", "conn_pick", "conn_push", "conn_notify", "epoll",
              "events", "check", "dup", "add", "reject", "sweep", "erase",
              "close_dup", "close_sfd", "crashed"}

KernelOK ==
    /\ clock \in 0 .. MaxTime
    /\ peer \in [Conns -> {"idle", "connected", "down"}]
    /\ backlog \subseteq Conns
    /\ fd_table \in [Fds -> Conns \cup {NoConn}]

ThreadsOK ==
    /\ acceptor \in [pc : {"wait", "accept", "pick", "push", "notify", "deaf"},
                     conn : Conns \cup {NoConn},
                     target : Workers]
    /\ main \in [pc : {"idle", "connect", "push"}, conn : Conns \cup {NoConn}]

SharedOK ==
    /\ s_last_thread_id \in Workers \cup {-1}
    /\ s_connect_conns \in Seq(Conns)
    /\ s_conns_map \in [Fds -> Conns \cup {NoConn}]
    /\ curr_conns \in Int
    /\ new_connections \in [Workers -> Seq(Conns)]
    /\ notify_pipe \in [Workers -> Nat]

ConnOK ==
    /\ sfd \in [Conns -> Fds \cup {NoFd}]
    /\ sfd_dup \in [Conns -> Fds \cup {NoFd}]
    /\ state \in [Conns -> ConnStates]
    /\ close_time \in [Conns -> 0 .. MaxTime]
    /\ object \in [Conns -> {"none", "live", "freed"}]
    /\ callback \in [Conns -> Seq({"ok", "failed"})]
    /\ td \in [Conns -> Workers \cup {-1}]
    /\ read_event \in [Conns -> BOOLEAN]

WorkerOK ==
    /\ pc \in [Workers -> WorkerPcs]
    /\ cur \in [Workers -> Conns \cup {NoConn}]
    /\ target \in [Workers -> Workers]
    /\ now \in [Workers -> 0 .. MaxTime]
    /\ todo \in [Workers -> SUBSET (Conns \cup {Pipe})]
    /\ thread_connections \in [Workers -> SUBSET Conns]
    /\ for_delete_connections \in [Workers -> SUBSET Conns]

TypeOK == KernelOK /\ ThreadsOK /\ SharedOK /\ ConnOK /\ WorkerOK

\* After net_init: the listening Connection exists and is counted, every
\* worker is at the top of its loop (start-up itself is NetStartup).
Init ==
    /\ clock = 0
    /\ peer = [c \in Conns |-> "idle"]
    /\ backlog = {}
    /\ fd_table = [f \in Fds |-> NoConn]
    /\ acceptor = [pc |-> "wait", conn |-> NoConn, target |-> 0]
    /\ main = [pc |-> "idle", conn |-> NoConn]
    /\ s_last_thread_id = -1
    /\ s_connect_conns = <<>>
    /\ s_conns_map = [f \in Fds |-> NoConn]
    /\ curr_conns = 1
    /\ new_connections = [w \in Workers |-> <<>>]
    /\ notify_pipe = [w \in Workers |-> 0]
    /\ sfd = [c \in Conns |-> NoFd]
    /\ sfd_dup = [c \in Conns |-> NoFd]
    /\ state = [c \in Conns |-> "LISTEN"]
    /\ close_time = [c \in Conns |-> 0]
    /\ object = [c \in Conns |-> "none"]
    /\ callback = [c \in Conns |-> <<>>]
    /\ td = [c \in Conns |-> -1]
    /\ read_event = [c \in Conns |-> FALSE]
    /\ pc = [w \in Workers |-> "connect"]
    /\ cur = [w \in Workers |-> NoConn]
    /\ target = [w \in Workers |-> 0]
    /\ now = [w \in Workers |-> 0]
    /\ todo = [w \in Workers |-> {}]
    /\ thread_connections = [w \in Workers |-> {}]
    /\ for_delete_connections = [w \in Workers |-> {}]

-----------------------------------------------------------------------------
(* Helpers *)

FreeFds == {f \in Fds : fd_table[f] = NoConn}

\* The kernel hands out the lowest free descriptor, if there is one.
LowestFree == {f \in FreeFds : \A g \in FreeFds : f <= g}

\* The socket f refers to; -1 and a closed descriptor refer to none.
Socket(f) == IF f \in Fds THEN fd_table[f] ELSE NoConn

\* What dup(f) may return: it fails on a closed descriptor, or when no
\* descriptor is left.
Dup(f) == IF Socket(f) = NoConn \/ FreeFds = {} THEN {NoFd} ELSE LowestFree

\* close(f): whatever f refers to now is closed; close(-1) does nothing.
Closed(table, f) == [g \in Fds |-> IF g = f THEN NoConn ELSE table[g]]

\* The worker the next connection goes to.
NextThread == (s_last_thread_id + 1) % NetThreadNum

\* s_connect_conns_lock is held while a worker is inside its connector loop.
ConnectLockFree ==
    \A w \in Workers : pc[w] \notin {"conn_pick", "conn_push", "conn_notify"}

\* One byte into a worker's pipe, one byte out of it.
NotifyLost(w) == notify_pipe                                     \* mutation
Notified(w) == [notify_pipe EXCEPT ![w] = @ + 1]

TakenNone(w) == notify_pipe                                      \* mutation
Taken(w) == [notify_pipe EXCEPT ![w] = @ - 1]

\* The connectors left once the first has been handed over.
NoneHandedOver == s_connect_conns                                \* mutation
OtherConnectors == Tail(s_connect_conns)

\* s_cntor_callback(pre_new, verdict) concerns connectors only.
Told(c, verdict) == [callback EXCEPT ![c] =
                  IF c \in Connectors THEN Append(@, verdict) ELSE @]

\* What it is told of a connection no worker could register.
RejectedTellsOk == "ok"                                          \* mutation
Rejected == "failed"

\* conn_close: conn_set_state(conn, CS_CLOSE) stamps the time on the first
\* close only.
ConnCloseIgnored(c) == UNCHANGED <<state, close_time>>           \* mutation
ConnClose(c) ==
    /\ state' = [state EXCEPT ![c] = "CLOSE"]
    /\ close_time' = [close_time EXCEPT ![c] =
                        IF state[c] = "CLOSE" THEN @ ELSE clock]

\* The parts of conn_internal_close: the entry of s_conns_map, the events, the
\* duplicate descriptor, and sfd_, closed under a test of the duplicate.
StillMapped(c) == s_conns_map                                    \* mutation
Unmapped(c) == [s_conns_map EXCEPT ![sfd[c]] = NoConn]

EventKept(c) == read_event                                       \* mutation
EventDeleted(c) == [read_event EXCEPT ![c] = FALSE]

DupAndSfdClosed(c) ==                                            \* mutation
    Closed(Closed(fd_table, sfd_dup[c]), sfd[c])
DupClosed(c) == Closed(fd_table, sfd_dup[c])

SfdClosed(c) == IF sfd_dup[c] # NoFd THEN Closed(fd_table, sfd[c])
                                     ELSE fd_table

\* for_delete_connections_ is a map keyed by the second of the close: an
\* object already under that key is displaced.
DisplacesAll(w, c) == {c}                                        \* mutation
ForDeleteWith(w, c) ==
    {d \in for_delete_connections[w] : close_time[d] # close_time[c]} \cup {c}

\* The objects closed longer than the grace period before the loop began.
ExpiredEarly(w) == {c \in for_delete_connections[w] :            \* mutation
                      now[w] - close_time[c] >= DeleteDelay}
Expired(w) == {c \in for_delete_connections[w] :
                 now[w] - close_time[c] > DeleteDelay}

Goto(w, label) == pc' = [pc EXCEPT ![w] = label]

\* Done with the connection at hand.
Leave(w, label) == Goto(w, label) /\ cur' = [cur EXCEPT ![w] = NoConn]

-----------------------------------------------------------------------------
(* Peers and time (external) *)

PeerConnect(c) ==
    /\ c \notin Connectors
    /\ peer[c] = "idle"
    /\ peer' = [peer EXCEPT ![c] = "connected"]
    /\ backlog' = backlog \cup {c}
    /\ UNCHANGED <<clock, fd_table, acceptor, main, sharedVars, connVars,
                   workerVars>>

PeerDown(c) ==
    /\ peer[c] = "connected"
    /\ peer' = [peer EXCEPT ![c] = "down"]
    /\ UNCHANGED <<clock, backlog, fd_table, acceptor, main, sharedVars,
                   connVars, workerVars>>

Tick ==
    /\ clock < MaxTime
    /\ clock' = clock + 1
    /\ UNCHANGED <<peer, backlog, fd_table, acceptor, main, sharedVars,
                   connVars, workerVars>>

-----------------------------------------------------------------------------
(* Accept thread: new_connection and give_worker_new_conn *)

\* The one-shot event on the listening socket fires.
ListenReady ==
    /\ acceptor.pc = "wait"
    /\ backlog # {}
    /\ acceptor' = [acceptor EXCEPT !.pc = "accept"]
    /\ UNCHANGED <<kernelVars, main, sharedVars, connVars, workerVars>>

\* accept() returns a descriptor and fcntl makes it non-blocking.
Accept(c) ==
    /\ acceptor.pc = "accept"
    /\ c \in backlog
    /\ backlog' = backlog \ {c}
    /\ \E f \in LowestFree : /\ fd_table' = [fd_table EXCEPT ![f] = c]
                             /\ sfd' = [sfd EXCEPT ![c] = f]
    /\ acceptor' = [acceptor EXCEPT !.pc = "pick", !.conn = c]
    /\ UNCHANGED <<clock, peer, main, sharedVars, sfd_dup, state, close_time,
                   object, callback, td, read_event, workerVars>>

\* fcntl fails: the descriptor is closed at once and the loop goes on.
AcceptFcntlFails(c) ==
    /\ "fcntl" \in Faults
    /\ acceptor.pc = "accept"
    /\ c \in backlog
    /\ FreeFds # {}
    /\ backlog' = backlog \ {c}
    /\ UNCHANGED <<clock, peer, fd_table, acceptor, main, sharedVars, connVars,
                   workerVars>>

\* accept() fails, because the backlog is empty or no descriptor is left;
\* update_event re-arms the listening event, and its result is ignored.
AcceptLoopEnds ==
    /\ acceptor.pc = "accept"
    /\ backlog = {} \/ FreeFds = {}
    /\ \/ acceptor' = [acceptor EXCEPT !.pc = "wait", !.conn = NoConn]
       \/ /\ "rearm" \in Faults
          /\ acceptor' = [acceptor EXCEPT !.pc = "deaf", !.conn = NoConn]
    /\ UNCHANGED <<kernelVars, main, sharedVars, connVars, workerVars>>

\* s_last_thread_id is read and written back without a lock.
GivePick ==
    /\ acceptor.pc = "pick"
    /\ acceptor' = [acceptor EXCEPT !.pc = "push", !.target = NextThread]
    /\ UNCHANGED <<kernelVars, main, sharedVars, connVars, workerVars>>

GivePush ==
    /\ acceptor.pc = "push"
    /\ s_last_thread_id' = acceptor.target
    /\ new_connections' = [new_connections EXCEPT ![acceptor.target] =
                             Append(@, acceptor.conn)]
    /\ acceptor' = [acceptor EXCEPT !.pc = "notify"]
    /\ UNCHANGED <<kernelVars, main, s_connect_conns, s_conns_map, curr_conns,
                   notify_pipe, connVars, workerVars>>

\* A failed write to the pipe is only logged.
GiveNotify ==
    /\ acceptor.pc = "notify"
    /\ \/ notify_pipe' = Notified(acceptor.target)
       \/ "notify" \in Faults /\ UNCHANGED notify_pipe
    /\ curr_conns' = curr_conns + 1
    /\ acceptor' = [acceptor EXCEPT !.pc = "accept", !.conn = NoConn,
                                      !.target = 0]
    /\ UNCHANGED <<kernelVars, main, s_last_thread_id, s_connect_conns,
                   s_conns_map, new_connections, connVars, workerVars>>

-----------------------------------------------------------------------------
(* Main thread: net_connect and conn_close *)

\* socket(); the blocking connect() follows.
ConnectSocket(c) ==
    /\ main.pc = "idle"
    /\ c \in Connectors
    /\ peer[c] = "idle"
    /\ \E f \in LowestFree : /\ fd_table' = [fd_table EXCEPT ![f] = c]
                             /\ sfd' = [sfd EXCEPT ![c] = f]
    /\ main' = [pc |-> "connect", conn |-> c]
    /\ UNCHANGED <<clock, peer, backlog, acceptor, sharedVars, sfd_dup, state,
                   close_time, object, callback, td, read_event, workerVars>>

\* connect() succeeds and fcntl too; the Connection object is allocated here
\* and its address is what net_connect will return.
ConnectSucceeds ==
    /\ main.pc = "connect"
    /\ peer' = [peer EXCEPT ![main.conn] = "connected"]
    /\ object' = [object EXCEPT ![main.conn] = "live"]
    /\ main' = [main EXCEPT !.pc = "push"]
    /\ UNCHANGED <<clock, backlog, fd_table, acceptor, sharedVars, sfd,
                   sfd_dup, state, close_time, callback, td, read_event,
                   workerVars>>

\* connect() fails, or fcntl does: the descriptor is closed and no object is
\* made; the caller may try again.
ConnectFails ==
    /\ main.pc = "connect"
    /\ fd_table' = Closed(fd_table, sfd[main.conn])
    /\ sfd' = [sfd EXCEPT ![main.conn] = NoFd]
    /\ main' = [pc |-> "idle", conn |-> NoConn]
    /\ UNCHANGED <<clock, peer, backlog, acceptor, sharedVars, sfd_dup, state,
                   close_time, object, callback, td, read_event, workerVars>>

ConnectPush ==
    /\ main.pc = "push"
    /\ ConnectLockFree
    /\ s_connect_conns' = Append(s_connect_conns, main.conn)
    /\ main' = [pc |-> "idle", conn |-> NoConn]
    /\ UNCHANGED <<kernelVars, acceptor, s_last_thread_id, s_conns_map,
                   curr_conns, new_connections, notify_pipe, connVars,
                   workerVars>>

\* A message handler rejects the connection its message came from.
MainClose(c) ==
    /\ main.pc = "idle"
    /\ \E w \in Workers : c \in thread_connections[w]
    /\ state[c] # "CLOSE"
    /\ ConnClose(c)
    /\ UNCHANGED <<kernelVars, acceptor, main, sharedVars, sfd, sfd_dup,
                   object, callback, td, read_event, workerVars>>

-----------------------------------------------------------------------------
(* Worker thread: connector loop, push_worker_new_conn *)

ConnectorLoop(w) ==
    /\ pc[w] = "connect"
    /\ ConnectLockFree
    /\ Goto(w, IF s_connect_conns = <<>> THEN "epoll" ELSE "conn_pick")
    /\ UNCHANGED <<kernelVars, acceptor, main, sharedVars, connVars, cur,
                   target, now, todo, thread_connections,
                   for_delete_connections>>

ConnectorPick(w) ==
    /\ pc[w] = "conn_pick"
    /\ target' = [target EXCEPT ![w] = NextThread]
    /\ Goto(w, "conn_push")
    /\ UNCHANGED <<kernelVars, acceptor, main, sharedVars, connVars, cur, now,
                   todo, thread_connections, for_delete_connections>>

ConnectorPush(w) ==
    /\ pc[w] = "conn_push"
    /\ s_last_thread_id' = target[w]
    /\ new_connections' = [new_connections EXCEPT ![target[w]] =
                             Append(@, Head(s_connect_conns))]
    /\ Goto(w, "conn_notify")
    /\ UNCHANGED <<kernelVars, acceptor, main, s_connect_conns, s_conns_map,
                   curr_conns, notify_pipe, connVars, cur, target, now, todo,
                   thread_connections, for_delete_connections>>

ConnectorNotify(w) ==
    /\ pc[w] = "conn_notify"
    /\ \/ notify_pipe' = Notified(target[w])
       \/ "notify" \in Faults /\ UNCHANGED notify_pipe
    /\ s_connect_conns' = OtherConnectors
    /\ target' = [target EXCEPT ![w] = 0]
    /\ Goto(w, IF OtherConnectors = <<>> THEN "epoll" ELSE "conn_pick")
    /\ UNCHANGED <<kernelVars, acceptor, main, s_last_thread_id, s_conns_map,
                   curr_conns, new_connections, connVars, cur, now, todo,
                   thread_connections, for_delete_connections>>

-----------------------------------------------------------------------------
(* Worker thread: event_base_loop and its callbacks *)

\* The kernel reports the pipe, and the connections whose peer has gone.
EpollWait(w) ==
    /\ pc[w] = "epoll"
    /\ todo' = [todo EXCEPT ![w] =
                  {c \in thread_connections[w] :
                       peer[c] = "down" /\ state[c] # "CLOSE"}
                  \cup (IF notify_pipe[w] > 0 THEN {Pipe} ELSE {})]
    /\ Goto(w, "events")
    /\ UNCHANGED <<kernelVars, acceptor, main, sharedVars, connVars, cur,
                   target, now, thread_connections, for_delete_connections>>

\* on_read meets end of file or a socket error.
OnReadEnd(w, c) ==
    /\ pc[w] = "events"
    /\ c \in todo[w] \ {Pipe}
    /\ ConnClose(c)
    /\ todo' = [todo EXCEPT ![w] = @ \ {c}]
    /\ UNCHANGED <<kernelVars, acceptor, main, sharedVars, sfd, sfd_dup,
                   object, callback, td, read_event, pc, cur, target, now,
                   thread_connections, for_delete_connections>>

\* thread_libevent_process takes one byte and pops one ConnInfo.  Pop on an
\* empty queue returns NULL, which is dereferenced at once.
NotifyRead(w) ==
    /\ pc[w] = "events"
    /\ Pipe \in todo[w]
    /\ notify_pipe' = Taken(w)
    /\ todo' = [todo EXCEPT ![w] = @ \ {Pipe}]
    /\ IF new_connections[w] = <<>>
       THEN /\ Goto(w, "crashed")
            /\ UNCHANGED <<cur, new_connections>>
       ELSE /\ Goto(w, "check")
            /\ cur' = [cur EXCEPT ![w] = Head(new_connections[w])]
            /\ new_connections' = [new_connections EXCEPT ![w] = Tail(@)]
    /\ UNCHANGED <<kernelVars, acceptor, main, s_last_thread_id,
                   s_connect_conns, s_conns_map, curr_conns, connVars, target,
                   now, thread_connections, for_delete_connections>>

\* create_conn refuses a descriptor that s_conns_map still holds.
CreateCheck(w) ==
    /\ pc[w] = "check"
    /\ Goto(w, IF s_conns_map[sfd[cur[w]]] = NoConn THEN "dup" ELSE "reject")
    /\ UNCHANGED <<kernelVars, acceptor, main, sharedVars, connVars, cur,
                   target, now, todo, thread_connections,
                   for_delete_connections>>

\* The object, its state and the duplicate descriptor; dup() is not checked.
CreateDup(w) ==
    /\ pc[w] = "dup"
    /\ object' = [object EXCEPT ![cur[w]] = "live"]
    /\ state' = [state EXCEPT ![cur[w]] =
                   IF cur[w] \in Connectors THEN "CONNECT" ELSE "WAITING"]
    /\ \E d \in Dup(sfd[cur[w]]) :
          /\ sfd_dup' = [sfd_dup EXCEPT ![cur[w]] = d]
          /\ fd_table' = [f \in Fds |-> IF f = d THEN Socket(sfd[cur[w]])
                                                 ELSE fd_table[f]]
    /\ Goto(w, "add")
    /\ UNCHANGED <<clock, peer, backlog, acceptor, main, sharedVars, sfd,
                   close_time, callback, td, read_event, cur, target, now, todo,
                   thread_connections, for_delete_connections>>

\* Both event_add calls succeed (the write event's on -1 too, without effect):
\* the connection enters the global map and the worker's own table, and a
\* connector hears of it.
CreateRegister(w) ==
    /\ pc[w] = "add"
    /\ Socket(sfd[cur[w]]) # NoConn
    /\ s_conns_map' = [s_conns_map EXCEPT ![sfd[cur[w]]] = cur[w]]
    /\ curr_conns' = curr_conns + 1
    /\ thread_connections' = [thread_connections EXCEPT ![w] = @ \cup {cur[w]}]
    /\ td' = [td EXCEPT ![cur[w]] = w]
    /\ read_event' = [read_event EXCEPT ![cur[w]] = TRUE]
    /\ callback' = Told(cur[w], "ok")
    /\ Leave(w, "events")
    /\ UNCHANGED <<kernelVars, acceptor, main, s_last_thread_id,
                   s_connect_conns, new_connections, notify_pipe, sfd, sfd_dup,
                   state, close_time, object, target, now, todo,
                   for_delete_connections>>

\* The read event's event_add fails, as it does on a closed descriptor, or the
\* write event's does and the read event stays in the base.  create_conn closes
\* both descriptors and deletes the object unless net_connect made it.
CreateFails(w) ==
    /\ pc[w] = "add"
    /\ \/ /\ "event_add" \in Faults \/ Socket(sfd[cur[w]]) = NoConn
          /\ UNCHANGED read_event
       \/ /\ "event_add" \in Faults /\ Socket(sfd[cur[w]]) # NoConn
          /\ sfd_dup[cur[w]] # NoFd
          /\ read_event' = [read_event EXCEPT ![cur[w]] = TRUE]
    /\ fd_table' = Closed(Closed(fd_table, sfd_dup[cur[w]]), sfd[cur[w]])
    /\ object' = [object EXCEPT ![cur[w]] =
                    IF cur[w] \in Connectors THEN @ ELSE "freed"]
    /\ Goto(w, "reject")
    /\ UNCHANGED <<clock, peer, backlog, acceptor, main, sharedVars, sfd,
                   sfd_dup, state, close_time, callback, td, cur, target, now,
                   todo, thread_connections, for_delete_connections>>

\* Back in thread_libevent_process create_conn's failure closes ci->sfd_, a
\* second time after CreateFails; a connector is told and its object deleted.
NotifyReject(w) ==
    /\ pc[w] = "reject"
    /\ fd_table' = Closed(fd_table, sfd[cur[w]])
    /\ callback' = Told(cur[w], Rejected)
    /\ object' = [object EXCEPT ![cur[w]] =
                    IF cur[w] \in Connectors THEN "freed" ELSE @]
    /\ Leave(w, "events")
    /\ UNCHANGED <<clock, peer, backlog, acceptor, main, sharedVars, sfd,
                   sfd_dup, state, close_time, td, read_event, target, now,
                   todo, thread_connections, for_delete_connections>>

EventsEnd(w) ==
    /\ pc[w] = "events"
    /\ todo[w] = {}
    /\ todo' = [todo EXCEPT ![w] = thread_connections[w]]
    /\ Goto(w, "sweep")
    /\ UNCHANGED <<kernelVars, acceptor, main, sharedVars, connVars, cur,
                   target, now, thread_connections, for_delete_connections>>

-----------------------------------------------------------------------------
(* Worker thread: sweep of closed connections, conn_internal_close, reaping *)

SweepVisit(w, c) ==
    /\ pc[w] = "sweep"
    /\ c \in todo[w]
    /\ todo' = [todo EXCEPT ![w] = @ \ {c}]
    /\ IF state[c] = "CLOSE"
       THEN Goto(w, "erase") /\ cur' = [cur EXCEPT ![w] = c]
       ELSE UNCHANGED <<pc, cur>>
    /\ UNCHANGED <<kernelVars, acceptor, main, sharedVars, connVars, target,
                   now, thread_connections, for_delete_connections>>

\* s_conns_map forgets the descriptor before it is closed.
CloseErase(w) ==
    /\ pc[w] = "erase"
    /\ s_conns_map' = Unmapped(cur[w])
    /\ Goto(w, "close_dup")
    /\ UNCHANGED <<kernelVars, acceptor, main, s_last_thread_id,
                   s_connect_conns, curr_conns, new_connections, notify_pipe,
                   connVars, cur, target, now, todo, thread_connections,
                   for_delete_connections>>

\* Both events are deleted before the descriptors are closed.
CloseDup(w) ==
    /\ pc[w] = "close_dup"
    /\ read_event' = EventDeleted(cur[w])
    /\ fd_table' = DupClosed(cur[w])
    /\ Goto(w, "close_sfd")
    /\ UNCHANGED <<clock, peer, backlog, acceptor, main, sharedVars, sfd,
                   sfd_dup, state, close_time, object, callback, td, cur,
                   target, now, todo, thread_connections,
                   for_delete_connections>>

\* The object then waits in for_delete_connections_.
CloseSfd(w) ==
    /\ pc[w] = "close_sfd"
    /\ fd_table' = SfdClosed(cur[w])
    /\ curr_conns' = curr_conns - 1
    /\ for_delete_connections' = [for_delete_connections EXCEPT ![w] =
                                    ForDeleteWith(w, cur[w])]
    /\ thread_connections' = [thread_connections EXCEPT ![w] = @ \ {cur[w]}]
    /\ Leave(w, "sweep")
    /\ UNCHANGED <<clock, peer, backlog, acceptor, main, s_last_thread_id,
                   s_connect_conns, s_conns_map, new_connections, notify_pipe,
                   connVars, target, now, todo>>

\* Expired objects are deleted; the loop starts again and reads the time.
Reap(w) ==
    /\ pc[w] = "sweep"
    /\ todo[w] = {}
    /\ object' = [c \in Conns |-> IF c \in Expired(w) THEN "freed"
                                                      ELSE object[c]]
    /\ for_delete_connections' = [for_delete_connections EXCEPT ![w] =
                                    @ \ Expired(w)]
    /\ now' = [now EXCEPT ![w] = clock]
    /\ Goto(w, "connect")
    /\ UNCHANGED <<kernelVars, acceptor, main, sharedVars, sfd, sfd_dup, state,
                   close_time, callback, td, read_event, cur, target, todo,
                   thread_connections>>

-----------------------------------------------------------------------------
AcceptStep == \/ ListenReady \/ AcceptLoopEnds
              \/ GivePick \/ GivePush \/ GiveNotify
              \/ \E c \in Conns : Accept(c) \/ AcceptFcntlFails(c)

MainStep == \/ ConnectSucceeds \/ ConnectFails \/ ConnectPush
            \/ \E c \in Conns : ConnectSocket(c) \/ MainClose(c)

CreateStep(w) == \/ CreateCheck(w) \/ CreateDup(w) \/ CreateRegister(w)
                 \/ CreateFails(w) \/ NotifyReject(w)

CloseStep(w) == CloseErase(w) \/ CloseDup(w) \/ CloseSfd(w)

WorkerStep(w) ==
    \/ ConnectorLoop(w) \/ ConnectorPick(w) \/ ConnectorPush(w)
    \/ ConnectorNotify(w)
    \/ EpollWait(w) \/ NotifyRead(w) \/ CreateStep(w) \/ EventsEnd(w)
    \/ CloseStep(w) \/ Reap(w)
    \/ \E c \in Conns : OnReadEnd(w, c) \/ SweepVisit(w, c)

PeerStep == Tick \/ \E c \in Conns : PeerConnect(c) \/ PeerDown(c)

Next == AcceptStep \/ MainStep \/ PeerStep \/ \E w \in Workers : WorkerStep(w)

Spec == Init /\ [][Next]_vars

\* Every thread keeps running; main finishes a net_connect it has begun.
\* Nothing is assumed of peers, of the clock or of handlers that close.
Fairness == /\ WF_vars(AcceptStep)
            /\ WF_vars(ConnectSucceeds \/ ConnectFails)
            /\ WF_vars(ConnectPush)
            /\ \A w \in Workers : WF_vars(WorkerStep(w))

FairSpec == Spec /\ Fairness
-----------------------------------------------------------------------------
(* Correctness *)

Registered(c) == \E w \in Workers : c \in thread_connections[w]

\* Closed, swept out of its worker's table: conn_internal_close has returned.
Swept(c) == state[c] = "CLOSE" /\ ~Registered(c)

\* Worker w is inside create_conn for c.
Creating(w, c) == pc[w] \in {"check", "dup", "add"} /\ cur[w] = c

\* Worker w is inside conn_internal_close for c.
Closing(w, c) ==
    pc[w] \in {"erase", "close_dup", "close_sfd"} /\ cur[w] = c

\* A worker never finds a byte in its pipe without a ConnInfo behind it, so
\* thread_libevent_process never dereferences the NULL of an empty Pop.
NotifiedHasConn ==
    \A w \in Workers : /\ notify_pipe[w] <= Len(new_connections[w])
                       /\ pc[w] # "crashed"

\* A connection is queued for, created by or served by one worker only, and
\* once: two threads never share a Connection's unlocked fields.
QueuedFor(w, c) == \E i \in DOMAIN new_connections[w] :
                       new_connections[w][i] = c

SingleOwner ==
    \A c \in Conns :
        /\ \A v, w \in Workers :
              /\ QueuedFor(v, c) \/ Creating(v, c) \/ c \in thread_connections[v]
              /\ QueuedFor(w, c) \/ Creating(w, c) \/ c \in thread_connections[w]
              => v = w
        /\ \A w \in Workers :
              /\ \A i, j \in DOMAIN new_connections[w] :
                    new_connections[w][i] = c /\ new_connections[w][j] = c
                    => i = j
              /\ ~(QueuedFor(w, c) /\ Creating(w, c))
              /\ ~(QueuedFor(w, c) /\ c \in thread_connections[w])

\* Descriptors are reused as soon as they are closed, so the order in which
\* conn_internal_close works matters: an entry of s_conns_map always names the
\* connection its descriptor refers to, and create_conn never refuses a new
\* descriptor as a duplicate.
MapNamesOpenFd ==
    /\ \A f \in Fds : s_conns_map[f] # NoConn => fd_table[f] = s_conns_map[f]
    /\ \A w \in Workers :
          pc[w] = "check" => s_conns_map[sfd[cur[w]]] = NoConn

\* A registered connection reads, writes and will close its own socket: no
\* other thread's close has taken its descriptors away.
OwnsDescriptors ==
    \A c \in Conns : Registered(c) /\ (\A w \in Workers : ~Closing(w, c)) =>
        /\ fd_table[sfd[c]] = c
        /\ sfd_dup[c] # NoFd => fd_table[sfd_dup[c]] = c

\* Sweeping a connection closes its descriptors for good.
SweptReleasesFds ==
    \A c \in Conns : Swept(c) => \A f \in Fds : fd_table[f] # c

\* The object of a closed connection outlives the close by the grace period:
\* the logic layer may hold its address that long.
GraceKept ==
    \A c \in Conns : object[c] = "freed" /\ state[c] = "CLOSE" =>
        clock - close_time[c] > DeleteDelay

\* The object of a connection that was served and swept is waiting to be
\* deleted, or deleted, or another connection of the same worker closed in the
\* same second took its place in for_delete_connections_ (and it leaks).
LeakOnlyOnSameSecond ==
    \A c \in Conns : Swept(c) /\ object[c] = "live" =>
        \/ \E w \in Workers : c \in for_delete_connections[w]
        \/ \E d \in Conns \ {c} : /\ Swept(d)
                                 /\ td[d] = td[c]
                                 /\ close_time[d] = close_time[c]

\* A base keeps the event of a deleted object only where create_conn failed on
\* the write event and so never registered the object: no served connection
\* leaves its event, with the address of the object in it, behind.
NoStaleEvent ==
    \A c \in Conns : object[c] = "freed" /\ read_event[c] => td[c] = -1

\* A connector's callback runs at most once, and says "ok" exactly when the
\* connection was registered; after "failed" the object is gone.
OneVerdict ==
    \A c \in Connectors :
        /\ Len(callback[c]) <= 1
        /\ Registered(c) \/ Swept(c) <=> callback[c] = <<"ok">>
        /\ callback[c] = <<"failed">> => object[c] = "freed"

\* A connection the kernel has queued is eventually served by a worker.
AcceptedServed ==
    \A c \in Conns : c \in backlog ~> (Registered(c) \/ Swept(c))

\* A connection whose peer has gone is eventually swept, and its descriptors
\* are free again.
GoneIsSwept ==
    \A c \in Conns :
        Registered(c) /\ peer[c] = "down" ~>
            Swept(c) /\ \A f \in Fds : fd_table[f] # c

\* Every net_connect that returned an address is answered by the callback.
ConnectorAnswered ==
    \A c \in Connectors : object[c] = "live" ~> callback[c] # <<>>
=============================================================================
