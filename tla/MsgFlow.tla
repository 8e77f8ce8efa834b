------------------------------ MODULE MsgFlow ------------------------------
(***************************************************************************)
(* How messages travel through common/net/go_net.cpp: socket to            *)
(* Connection to worker thread to main thread and back.                    *)
(*                                                                         *)
(* The peers, the worker threads (data_thread_worker, on_read, on_write)   *)
(* and the main thread (get_net_msgs, handlers, net_send, conn_close)      *)
(* interleave.  A frame is the number of its place in the peer's stream, a *)
(* message sent by the logic the number of its place among those sent to   *)
(* that connection; Shutdown is 0.  Descriptors, tables and the lifetime   *)
(* of objects are ConnLifecycle's, cutting bytes into frames MsgFraming's. *)
(***************************************************************************)
EXTENDS Integers, Sequences, FiniteSets

CONSTANTS
    NetThreadNum,   \* s_net_setting.net_thread_num_
    Conns,
    MaxFrames,      \* bound: frames a peer sends
    MaxSends,       \* bound: messages the logic sends to a connection
    SndBuf,         \* frames the kernel's send buffer holds
    MayReject,      \* TRUE: handlers may conn_close
    PeerEnds,       \* how peers may leave: subset of {"eof", "reset"}
    Faults          \* calls that may fail: subset of {"update_event", "dup"}

ASSUME NetThreadNumAssumption == NetThreadNum \in Nat \ {0}
ASSUME BoundsAssumption == /\ MaxFrames \in Nat /\ MaxSends \in Nat
                           /\ SndBuf \in Nat \ {0}
ASSUME ChoicesAssumption == /\ MayReject \in BOOLEAN
                            /\ PeerEnds \subseteq {"eof", "reset"}
                            /\ Faults \subseteq {"update_event", "dup"}

Workers == 0 .. NetThreadNum - 1
Shutdown == 0
NoThread == -1

VARIABLES
    \* peers and kernel
    sock,           \* "open", "eof", "reset", or "shut" by our own close
    peer_sent,      \* frames the peer has sent
    inbox,          \* received by the kernel, not yet read
    outbox,         \* written to the kernel, not yet taken by the peer
    got,            \* taken by the peer
    \* Connection
    state, can_read, can_write,
    td,             \* the worker it belongs to
    read_armed, write_armed,        \* read_event_, write_event_ are added
    sfd_dup_for_write,              \* it is a descriptor, not -1
    conn_read_msgs, conn_write_msgs, write_buffer,
    cause,          \* history: why the connection was closed
    \* worker threads
    pc, todo, thread_connections,
    td_read_msgs,   \* per worker, messages <<connection, number>>
    td_write_msgs,  \* per connection: its part of its worker's deque
    \* main thread
    next_thread,    \* thread get_net_msgs visits next; then it handles
    output,         \* messages taken by get_net_msgs, not yet handled
    handled,        \* history: messages handled, per connection
    sends           \* messages the logic has sent, per connection

peerVars   == <<sock, peer_sent, inbox, outbox, got>>
flagVars   == <<can_read, can_write, read_armed, write_armed,
                sfd_dup_for_write>>
closeVars  == <<state, cause>>
bufferVars == <<conn_read_msgs, conn_write_msgs, write_buffer>>
threadVars == <<td_read_msgs, td_write_msgs>>
mainVars   == <<next_thread, output, handled, sends>>
vars == <<peerVars, flagVars, closeVars, td, bufferVars, pc,
          todo, thread_connections, threadVars, mainVars>>

Iota(n) == [i \in 1 .. n |-> i]

Registered(c) == \E w \in Workers : c \in thread_connections[w]

Init ==
    /\ sock = [c \in Conns |-> "open"]
    /\ peer_sent = [c \in Conns |-> 0]
    /\ inbox = [c \in Conns |-> <<>>]
    /\ outbox = [c \in Conns |-> <<>>]
    /\ got = [c \in Conns |-> <<>>]
    /\ state = [c \in Conns |-> "LISTEN"]
    /\ can_read = [c \in Conns |-> FALSE]
    /\ can_write = [c \in Conns |-> FALSE]
    /\ read_armed = [c \in Conns |-> FALSE]
    /\ write_armed = [c \in Conns |-> FALSE]
    /\ sfd_dup_for_write = [c \in Conns |-> FALSE]
    /\ conn_read_msgs = [c \in Conns |-> <<>>]
    /\ conn_write_msgs = [c \in Conns |-> <<>>]
    /\ write_buffer = [c \in Conns |-> <<>>]
    /\ cause = [c \in Conns |-> "none"]
    /\ td = [c \in Conns |-> NoThread]
    /\ pc = [w \in Workers |-> "dispatch"]
    /\ todo = [w \in Workers |-> {}]
    /\ thread_connections = [w \in Workers |-> {}]
    /\ td_read_msgs = [w \in Workers |-> <<>>]
    /\ td_write_msgs = [c \in Conns |-> <<>>]
    /\ next_thread = 0
    /\ output = <<>>
    /\ handled = [c \in Conns |-> <<>>]
    /\ sends = [c \in Conns |-> 0]

-----------------------------------------------------------------------------
(* Peers (external) *)

PeerSend(c) ==
    /\ sock[c] = "open"
    /\ peer_sent[c] < MaxFrames
    /\ peer_sent' = [peer_sent EXCEPT ![c] = @ + 1]
    /\ inbox' = [inbox EXCEPT ![c] = Append(@, peer_sent[c] + 1)]
    /\ UNCHANGED <<sock, outbox, got, flagVars, closeVars, td, bufferVars,
                   pc, todo, thread_connections, threadVars, mainVars>>

\* The peer stops sending and still reads.
PeerEof(c) ==
    /\ "eof" \in PeerEnds
    /\ sock[c] = "open"
    /\ sock' = [sock EXCEPT ![c] = "eof"]
    /\ UNCHANGED <<peer_sent, inbox, outbox, got, flagVars, closeVars,
                   td, bufferVars, pc, todo, thread_connections, threadVars,
                   mainVars>>

\* The peer is gone for good; unread data goes with it.
PeerReset(c) ==
    /\ "reset" \in PeerEnds
    /\ sock[c] \in {"open", "eof"}
    /\ sock' = [sock EXCEPT ![c] = "reset"]
    /\ inbox' = [inbox EXCEPT ![c] = <<>>]
    /\ UNCHANGED <<peer_sent, outbox, got, flagVars, closeVars, td, bufferVars,
                   pc, todo, thread_connections, threadVars, mainVars>>

PeerRecv(c) ==
    /\ sock[c] \in {"open", "eof"}
    /\ outbox[c] # <<>>
    /\ got' = [got EXCEPT ![c] = Append(@, Head(outbox[c]))]
    /\ outbox' = [outbox EXCEPT ![c] = Tail(@)]
    /\ UNCHANGED <<sock, peer_sent, inbox, flagVars, closeVars, td, bufferVars,
                   pc, todo, thread_connections, threadVars, mainVars>>

-----------------------------------------------------------------------------
(* Connection: state, events, on_read, on_write *)

\* conn_close; only the first cause counts.
ConnCloseIgnored(c, why) == UNCHANGED <<state, cause>>           \* mutation
ConnClose(c, why) ==
    /\ state' = [state EXCEPT ![c] = "CLOSE"]
    /\ cause' = [cause EXCEPT ![c] = IF state[c] = "CLOSE" THEN @ ELSE why]

\* update_event: event_del, event_set, event_add.
RearmForgotten(armed, c) == armed                                \* mutation
Rearm(armed, c) == [armed EXCEPT ![c] = TRUE]

\* The events lack EV_PERSIST: libevent disarms one before its callback runs.
Persistent(armed, c) == armed                                    \* mutation
Disarmed(armed, c) == [armed EXCEPT ![c] = FALSE]

\* Below, armed is the event's flag as the call finds it.
\*
\* evbuffer_read and message_format: k frames leave the kernel, and their
\* messages join conn_read_msgs_.
ReadFrames(c, k) ==
    [conn_read_msgs EXCEPT ![c] = @ \o SubSeq(inbox[c], 1, k)]

OnRead(c, armed) ==
    \/ \* data: read again next time round
       /\ state[c] # "CLOSE"
       /\ \E k \in 1 .. Len(inbox[c]) :
            /\ conn_read_msgs' = ReadFrames(c, k)
            /\ inbox' = [inbox EXCEPT ![c] = SubSeq(@, k + 1, Len(@))]
       /\ can_read' = [can_read EXCEPT ![c] = TRUE]
       /\ read_armed' = armed
       /\ UNCHANGED closeVars
    \/ \* end of file, or a socket error
       /\ state[c] # "CLOSE"
       /\ inbox[c] = <<>>
       /\ sock[c] \in {"eof", "reset"}
       /\ ConnClose(c, sock[c])
       /\ can_read' = [can_read EXCEPT ![c] = FALSE]
       /\ read_armed' = armed
       /\ UNCHANGED <<inbox, conn_read_msgs>>
    \/ \* EAGAIN: wait for the event again
       /\ state[c] # "CLOSE"
       /\ inbox[c] = <<>>
       /\ sock[c] = "open"
       /\ can_read' = [can_read EXCEPT ![c] = FALSE]
       /\ \/ read_armed' = Rearm(armed, c) /\ UNCHANGED closeVars
          \/ /\ "update_event" \in Faults
             /\ ConnClose(c, "fault")
             /\ read_armed' = armed
       /\ UNCHANGED <<inbox, conn_read_msgs>>
    \/ /\ state[c] = "CLOSE"
       /\ read_armed' = armed
       /\ UNCHANGED <<inbox, conn_read_msgs, can_read, closeVars>>

\* on_write first serialises every waiting message into write_buffer_.
Serialised(c) == write_buffer[c] \o conn_write_msgs[c]

Room(c) == SndBuf - Len(outbox[c])

\* What evbuffer_write of k frames leaves in the buffer.
UnsentDropped(c, k) == <<>>                                      \* mutation
Unsent(c, k) == SubSeq(Serialised(c), k + 1, Len(Serialised(c)))

OnWrite(c, armed) ==
    \/ \* nothing to write
       /\ state[c] # "CLOSE"
       /\ Serialised(c) = <<>>
       /\ can_write' = [can_write EXCEPT ![c] = TRUE]
       /\ write_armed' = armed
       /\ UNCHANGED <<outbox, write_buffer, conn_write_msgs, closeVars>>
    \/ \* the kernel takes k frames
       /\ state[c] # "CLOSE"
       /\ sock[c] \in {"open", "eof"}
       /\ \E k \in 1 .. Len(Serialised(c)) :
            /\ k <= Room(c)
            /\ outbox' = [outbox EXCEPT ![c] = @ \o SubSeq(Serialised(c), 1, k)]
            /\ write_buffer' = [write_buffer EXCEPT ![c] = Unsent(c, k)]
       /\ conn_write_msgs' = [conn_write_msgs EXCEPT ![c] = <<>>]
       /\ can_write' = [can_write EXCEPT ![c] = TRUE]
       /\ write_armed' = armed
       /\ UNCHANGED closeVars
    \/ \* EAGAIN: wait for the event; can_write_ keeps its value
       /\ state[c] # "CLOSE"
       /\ sock[c] \in {"open", "eof"}
       /\ Serialised(c) # <<>>
       /\ Room(c) = 0
       /\ write_buffer' = [write_buffer EXCEPT ![c] = Serialised(c)]
       /\ conn_write_msgs' = [conn_write_msgs EXCEPT ![c] = <<>>]
       /\ \/ write_armed' = Rearm(armed, c) /\ UNCHANGED closeVars
          \/ /\ "update_event" \in Faults
             /\ ConnClose(c, "fault")
             /\ write_armed' = armed
       /\ UNCHANGED <<outbox, can_write>>
    \/ \* hard error: the connection stays open until a read notices
       /\ state[c] # "CLOSE"
       /\ sock[c] = "reset"
       /\ Serialised(c) # <<>>
       /\ write_buffer' = [write_buffer EXCEPT ![c] = Serialised(c)]
       /\ conn_write_msgs' = [conn_write_msgs EXCEPT ![c] = <<>>]
       /\ can_write' = [can_write EXCEPT ![c] = FALSE]
       /\ write_armed' = armed
       /\ UNCHANGED <<outbox, closeVars>>
    \/ /\ state[c] = "CLOSE"
       /\ write_armed' = armed
       /\ UNCHANGED <<outbox, write_buffer, conn_write_msgs, can_write,
                      closeVars>>

-----------------------------------------------------------------------------
(* Worker thread: one turn of data_thread_worker *)

Goto(w, label) == pc' = [pc EXCEPT ![w] = label]

\* Under write_msgs_lock_ every message goes to its connection; those of a
\* connection already swept out of thread_connections_ are dropped.
DispatchedNone(c) == conn_write_msgs[c]                          \* mutation
Dispatched(c) == conn_write_msgs[c] \o td_write_msgs[c]

Dispatch(w) ==
    /\ pc[w] = "dispatch"
    /\ conn_write_msgs' = [c \in Conns |-> IF c \in thread_connections[w]
                                           THEN Dispatched(c)
                                           ELSE conn_write_msgs[c]]
    /\ td_write_msgs' = [c \in Conns |-> IF td[c] = w THEN <<>>
                                                      ELSE td_write_msgs[c]]
    /\ Goto(w, "collect")
    /\ UNCHANGED <<peerVars, flagVars, closeVars, td, conn_read_msgs,
                   write_buffer, todo, thread_connections, td_read_msgs,
                   mainVars>>

\* One message of a connection moves to the thread's queue; the lock is taken
\* for each, so get_net_msgs may come in between.
CollectOne(w, c) ==
    /\ pc[w] = "collect"
    /\ c \in thread_connections[w]
    /\ conn_read_msgs[c] # <<>>
    /\ td_read_msgs' = [td_read_msgs EXCEPT ![w] =
                          Append(@, <<c, Head(conn_read_msgs[c])>>)]
    /\ conn_read_msgs' = [conn_read_msgs EXCEPT ![c] = Tail(@)]
    /\ UNCHANGED <<peerVars, flagVars, closeVars, td, conn_write_msgs,
                   write_buffer, pc, todo, thread_connections, td_write_msgs,
                   mainVars>>

\* Then the connections still marked readable or writable are served, each
\* read before it is written.
CollectEnd(w) ==
    /\ pc[w] = "collect"
    /\ \A c \in thread_connections[w] : conn_read_msgs[c] = <<>>
    /\ todo' = [todo EXCEPT ![w] =
                  {<<c, "r">> : c \in {d \in thread_connections[w] : can_read[d]}}
                  \cup
                  {<<c, "w">> : c \in {d \in thread_connections[w] : can_write[d]}}]
    /\ Goto(w, "io")
    /\ UNCHANGED <<peerVars, flagVars, closeVars, td, bufferVars,
                   thread_connections, threadVars, mainVars>>

IoRead(w, c) ==
    /\ pc[w] = "io"
    /\ <<c, "r">> \in todo[w]
    /\ OnRead(c, read_armed)
    /\ todo' = [todo EXCEPT ![w] = @ \ {<<c, "r">>}]
    /\ UNCHANGED <<sock, peer_sent, outbox, got, can_write, write_armed,
                   sfd_dup_for_write, td, conn_write_msgs, write_buffer, pc,
                   thread_connections, threadVars, mainVars>>

IoWrite(w, c) ==
    /\ pc[w] = "io"
    /\ <<c, "w">> \in todo[w]
    /\ <<c, "r">> \notin todo[w]
    /\ OnWrite(c, write_armed)
    /\ todo' = [todo EXCEPT ![w] = @ \ {<<c, "w">>}]
    /\ UNCHANGED <<sock, peer_sent, inbox, got, can_read, read_armed,
                   sfd_dup_for_write, td, conn_read_msgs, pc,
                   thread_connections, threadVars, mainVars>>

\* event_base_loop: the kernel reports the armed events that are ready.
Readable(c) == inbox[c] # <<>> \/ sock[c] \in {"eof", "reset"}
Writable(c) == Room(c) > 0 \/ sock[c] = "reset"

EpollWait(w) ==
    /\ pc[w] = "io"
    /\ todo[w] = {}
    /\ todo' = [todo EXCEPT ![w] =
                  {<<c, "r">> : c \in {d \in thread_connections[w] :
                                         read_armed[d] /\ Readable(d)}}
                  \cup
                  {<<c, "w">> : c \in {d \in thread_connections[w] :
                                         write_armed[d] /\ Writable(d)}}]
    /\ Goto(w, "events")
    /\ UNCHANGED <<peerVars, flagVars, closeVars, td, bufferVars,
                   thread_connections, threadVars, mainVars>>

EventRead(w, c) ==
    /\ pc[w] = "events"
    /\ <<c, "r">> \in todo[w]
    /\ OnRead(c, Disarmed(read_armed, c))
    /\ todo' = [todo EXCEPT ![w] = @ \ {<<c, "r">>}]
    /\ UNCHANGED <<sock, peer_sent, outbox, got, can_write, write_armed,
                   sfd_dup_for_write, td, conn_write_msgs, write_buffer, pc,
                   thread_connections, threadVars, mainVars>>

EventWrite(w, c) ==
    /\ pc[w] = "events"
    /\ <<c, "w">> \in todo[w]
    /\ OnWrite(c, Disarmed(write_armed, c))
    /\ todo' = [todo EXCEPT ![w] = @ \ {<<c, "w">>}]
    /\ UNCHANGED <<sock, peer_sent, inbox, got, can_read, read_armed,
                   sfd_dup_for_write, td, conn_read_msgs, pc,
                   thread_connections, threadVars, mainVars>>

\* thread_libevent_process registers a connection handed to this worker
\* (ConnLifecycle says how it got here).  create_conn does not test its dup:
\* event_add accepts an event on -1 and adds nothing.
Register(w, c) ==
    /\ pc[w] = "events"
    /\ td[c] = NoThread
    /\ thread_connections' = [thread_connections EXCEPT ![w] = @ \cup {c}]
    /\ td' = [td EXCEPT ![c] = w]
    /\ state' = [state EXCEPT ![c] = "WAITING"]
    /\ read_armed' = [read_armed EXCEPT ![c] = TRUE]
    /\ \/ /\ write_armed' = [write_armed EXCEPT ![c] = TRUE]
          /\ sfd_dup_for_write' = [sfd_dup_for_write EXCEPT ![c] = TRUE]
       \/ /\ "dup" \in Faults
          /\ sfd_dup_for_write' = [sfd_dup_for_write EXCEPT ![c] = FALSE]
          /\ UNCHANGED write_armed
    /\ UNCHANGED <<peerVars, can_read, can_write, cause, bufferVars, pc, todo,
                   threadVars, mainVars>>

EventsEnd(w) ==
    /\ pc[w] = "events"
    /\ todo[w] = {}
    /\ todo' = [todo EXCEPT ![w] = {<<c, "s">> : c \in thread_connections[w]}]
    /\ Goto(w, "sweep")
    /\ UNCHANGED <<peerVars, flagVars, closeVars, td, bufferVars,
                   thread_connections, threadVars, mainVars>>

\* A closed connection: its Shutdown joins the thread's queue, then
\* conn_internal_close deletes its events and buffers and closes the socket,
\* which it leaves open when sfd_dup_for_write_ is -1.  Messages still in
\* conn_read_msgs_ are never looked at again.
ShutdownFirst(w, c) == <<<<c, Shutdown>>>> \o td_read_msgs[w]     \* mutation
ShutdownLast(w, c) == Append(td_read_msgs[w], <<c, Shutdown>>)

SweepVisit(w, c) ==
    /\ pc[w] = "sweep"
    /\ <<c, "s">> \in todo[w]
    /\ todo' = [todo EXCEPT ![w] = @ \ {<<c, "s">>}]
    /\ IF state[c] = "CLOSE"
       THEN /\ td_read_msgs' = [td_read_msgs EXCEPT ![w] = ShutdownLast(w, c)]
            /\ thread_connections' = [thread_connections EXCEPT ![w] = @ \ {c}]
            /\ IF sfd_dup_for_write[c]
               THEN /\ sock' = [sock EXCEPT ![c] = "shut"]
                    /\ inbox' = [inbox EXCEPT ![c] = <<>>]
               ELSE UNCHANGED <<sock, inbox>>
            /\ read_armed' = [read_armed EXCEPT ![c] = FALSE]
            /\ write_armed' = [write_armed EXCEPT ![c] = FALSE]
            /\ write_buffer' = [write_buffer EXCEPT ![c] = <<>>]
       ELSE UNCHANGED <<td_read_msgs, thread_connections, sock, inbox,
                        read_armed, write_armed, write_buffer>>
    /\ UNCHANGED <<peer_sent, outbox, got, can_read, can_write,
                   sfd_dup_for_write, closeVars, td, conn_read_msgs,
                   conn_write_msgs, pc, td_write_msgs, mainVars>>

SweepEnd(w) ==
    /\ pc[w] = "sweep"
    /\ todo[w] = {}
    /\ Goto(w, "dispatch")
    /\ UNCHANGED <<peerVars, flagVars, closeVars, td, bufferVars, todo,
                   thread_connections, threadVars, mainVars>>

-----------------------------------------------------------------------------
(* Main thread: get_net_msgs, then a handler for every message *)

GetNetMsgs ==
    /\ next_thread < NetThreadNum
    /\ output' = output \o td_read_msgs[next_thread]
    /\ td_read_msgs' = [td_read_msgs EXCEPT ![next_thread] = <<>>]
    /\ next_thread' = next_thread + 1
    /\ UNCHANGED <<peerVars, flagVars, closeVars, td, bufferVars, pc, todo,
                   thread_connections, td_write_msgs, handled, sends>>

\* net_send: the message joins the queue of the connection's worker.
NetSend(c) ==
    /\ sends[c] < MaxSends
    /\ sends' = [sends EXCEPT ![c] = @ + 1]
    /\ td_write_msgs' = [td_write_msgs EXCEPT ![c] = Append(@, sends[c] + 1)]

\* A handler does nothing, sends to the connection the message came from or
\* to another it has heard of, or rejects the message's connection.
Handle ==
    /\ next_thread = NetThreadNum
    /\ output # <<>>
    /\ LET c == Head(output)[1] IN
         /\ handled' = [handled EXCEPT ![c] = Append(@, Head(output)[2])]
         /\ \/ UNCHANGED <<td_write_msgs, sends, closeVars>>
            \/ /\ \E d \in Conns : handled'[d] # <<>> /\ NetSend(d)
               /\ UNCHANGED closeVars
            \/ /\ MayReject
               /\ ConnClose(c, "logic")
               /\ UNCHANGED <<td_write_msgs, sends>>
    /\ output' = Tail(output)
    /\ UNCHANGED <<peerVars, flagVars, td, bufferVars, pc, todo,
                   thread_connections, td_read_msgs, next_thread>>

LogicTurnRunsOn ==                                               \* mutation
    /\ next_thread = NetThreadNum
    /\ output = <<>>
    /\ next_thread' = next_thread + 1
    /\ UNCHANGED <<peerVars, flagVars, closeVars, td, bufferVars, pc, todo,
                   thread_connections, threadVars, output, handled, sends>>

LogicTurnEnds ==
    /\ next_thread = NetThreadNum
    /\ output = <<>>
    /\ next_thread' = 0
    /\ UNCHANGED <<peerVars, flagVars, closeVars, td, bufferVars, pc, todo,
                   thread_connections, threadVars, output, handled, sends>>

-----------------------------------------------------------------------------
PeerStep == \E c \in Conns : PeerSend(c) \/ PeerEof(c) \/ PeerReset(c)
                             \/ PeerRecv(c)

WorkerStep(w) ==
    \/ Dispatch(w) \/ CollectEnd(w) \/ EpollWait(w) \/ EventsEnd(w)
    \/ SweepEnd(w)
    \/ \E c \in Conns : \/ CollectOne(w, c) \/ IoRead(w, c) \/ IoWrite(w, c)
                        \/ EventRead(w, c) \/ EventWrite(w, c)
                        \/ Register(w, c) \/ SweepVisit(w, c)

MainStep == GetNetMsgs \/ Handle \/ LogicTurnEnds

Next == PeerStep \/ MainStep \/ \E w \in Workers : WorkerStep(w)

Spec == Init /\ [][Next]_vars

\* The threads keep running, every connection is handed to some worker, and
\* peers keep reading.  Nothing makes a peer send or go away.
Fairness ==
    /\ WF_vars(MainStep)
    /\ \A w \in Workers : WF_vars(WorkerStep(w))
    /\ \A c \in Conns : /\ WF_vars(PeerRecv(c))
                        /\ SF_vars(\E w \in Workers : Register(w, c))

FairSpec == Spec /\ Fairness

-----------------------------------------------------------------------------
(* Correctness *)

TypeOK ==
    /\ sock \in [Conns -> {"open", "eof", "reset", "shut"}]
    /\ peer_sent \in [Conns -> 0 .. MaxFrames]
    /\ inbox \in [Conns -> Seq(1 .. MaxFrames)]
    /\ outbox \in [Conns -> Seq(1 .. MaxSends)]
    /\ got \in [Conns -> Seq(1 .. MaxSends)]
    /\ state \in [Conns -> {"LISTEN", "WAITING", "CLOSE"}]
    /\ can_read \in [Conns -> BOOLEAN]
    /\ can_write \in [Conns -> BOOLEAN]
    /\ read_armed \in [Conns -> BOOLEAN]
    /\ write_armed \in [Conns -> BOOLEAN]
    /\ sfd_dup_for_write \in [Conns -> BOOLEAN]
    /\ td \in [Conns -> Workers \cup {NoThread}]
    /\ conn_read_msgs \in [Conns -> Seq(1 .. MaxFrames)]
    /\ conn_write_msgs \in [Conns -> Seq(1 .. MaxSends)]
    /\ write_buffer \in [Conns -> Seq(1 .. MaxSends)]
    /\ cause \in [Conns -> {"none", "eof", "reset", "logic", "fault"}]
    /\ pc \in [Workers -> {"dispatch", "collect", "io", "events", "sweep"}]
    /\ todo \in [Workers -> SUBSET (Conns \X {"r", "w", "s"})]
    /\ thread_connections \in [Workers -> SUBSET Conns]
    /\ td_read_msgs \in [Workers -> Seq(Conns \X (0 .. MaxFrames))]
    /\ td_write_msgs \in [Conns -> Seq(1 .. MaxSends)]
    /\ next_thread \in 0 .. NetThreadNum
    /\ output \in Seq(Conns \X (0 .. MaxFrames))
    /\ handled \in [Conns -> Seq(0 .. MaxFrames)]
    /\ sends \in [Conns -> 0 .. MaxSends]

\* The handlers see what LogicFeed promises.
Feed == INSTANCE LogicFeed WITH feed <- handled
FeedSpec == Feed!Spec

\* End of file is not an error: when the peer closed in an orderly way and
\* that is why the connection was closed, everything it had sent was handed
\* over before the Shutdown.
EofLosesNothing ==
    \A c \in Conns : cause[c] = "eof" /\ Feed!Ended(c) =>
        handled[c] = Append(Iota(peer_sent[c]), Shutdown)

\* While a connection is open, every message the logic sent to it is on its
\* way, once and in order; afterwards the peer holds a prefix.
Underway(c) == got[c] \o outbox[c] \o write_buffer[c] \o conn_write_msgs[c]
               \o td_write_msgs[c]

SendsInOrder ==
    \A c \in Conns :
        /\ Registered(c) => Underway(c) = Iota(sends[c])
        /\ got[c] \o outbox[c] = Iota(Len(got[c] \o outbox[c]))

\* Events are one-shot and edge-triggered; a connection that is neither polled
\* nor armed for reading would sleep through its peer's data and its end, and
\* one neither polled nor armed for writing would keep its messages.  That
\* happens to none for reading, and for writing to none but those whose dup
\* failed when they were created.
NeverDeaf ==
    \A c \in Conns : Registered(c) /\ state[c] # "CLOSE" =>
        /\ can_read[c] \/ read_armed[c]
        /\ sfd_dup_for_write[c] =>
             can_write[c] \/ write_armed[c] \/ sock[c] = "reset"

\* Every frame is handled, unless its connection is closed for a reason other
\* than the peer's orderly end.
FramesHandled ==
    \A c \in Conns, n \in 1 .. MaxFrames :
        peer_sent[c] >= n ~>
            Len(handled[c]) >= n \/ cause[c] \in {"reset", "logic", "fault"}

\* Once the peer has gone, the logic is told.
ShutdownTold == \A c \in Conns : sock[c] # "open" ~> Feed!Ended(c)

\* Every message sent reaches the peer, unless the connection is lost or has
\* no descriptor to write to: for that one on_write never runs.
SendsArrive ==
    \A c \in Conns, n \in 1 .. MaxSends :
        sends[c] >= n ~>
            \/ Len(got[c]) >= n \/ sock[c] = "reset" \/ state[c] = "CLOSE"
            \/ ~sfd_dup_for_write[c]
=============================================================================
