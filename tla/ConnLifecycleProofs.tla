------------------------ MODULE ConnLifecycleProofs ------------------------
(***************************************************************************)
(* Proofs about ConnLifecycle for any number of threads, connections and   *)
(* descriptors, and with every fault allowed: the types, and that a worker *)
(* never takes a notification without a connection behind it.              *)
(***************************************************************************)
EXTENDS ConnLifecycle, TLAPS

-----------------------------------------------------------------------------
(* The inductive invariant *)

ConnectorPcs == {"conn_pick", "conn_push", "conn_notify"}

CreatePcs == {"check", "dup", "add", "reject"}

ClosePcs == {"erase", "close_dup", "close_sfd"}

\* Whoever works on a connection has one at hand.
AtHand ==
    /\ acceptor.pc \in {"pick", "push", "notify"} => acceptor.conn \in Conns
    /\ main.pc \in {"connect", "push"} => main.conn \in Conns
    /\ \A w \in Workers : pc[w] \in CreatePcs \cup ClosePcs => cur[w] \in Conns

\* s_connect_conns_lock: one worker at a time is in the connector loop, and
\* as long as it is there the list is not empty.
ConnectLock ==
    /\ \A v, w \in Workers :
         pc[v] \in ConnectorPcs /\ pc[w] \in ConnectorPcs => v = w
    /\ \A w \in Workers : pc[w] \in ConnectorPcs => s_connect_conns # <<>>

\* Bytes in a pipe never outnumber the queue behind it, not even together with
\* the bytes that the accept thread and a worker in its connector loop are
\* about to write.
Backed ==
    /\ \A w \in Workers : notify_pipe[w] <= Len(new_connections[w])
    /\ acceptor.pc = "notify" =>
         notify_pipe[acceptor.target] + 1 <= Len(new_connections[acceptor.target])
    /\ \A v \in Workers : pc[v] = "conn_notify" =>
         notify_pipe[target[v]] + 1 <= Len(new_connections[target[v]])
    /\ \A v \in Workers :
         pc[v] = "conn_notify" /\ acceptor.pc = "notify"
         /\ acceptor.target = target[v] =>
           notify_pipe[target[v]] + 2 <= Len(new_connections[target[v]])

\* A pipe reported readable stays so until its own worker reads it, and then
\* there is something to pop.
PipeBacked ==
    /\ Backed
    /\ \A w \in Workers : Pipe \in todo[w] => notify_pipe[w] >= 1
    /\ \A w \in Workers : pc[w] # "crashed"

HandoffInv == TypeOK /\ AtHand /\ ConnectLock /\ PipeBacked

-----------------------------------------------------------------------------
(* The operators of the hand-over *)

\* A worker index taken modulo the number of workers is a worker index.
LEMMA ModBound == \A a \in Int, n \in Nat \ {0} : a % n \in 0 .. n - 1
  BY SMT

\* The round robin of push_ and give_worker_new_conn names a worker.
LEMMA NextThreadOK == SharedOK => NextThread \in Workers
<1> SUFFICES ASSUME SharedOK PROVE NextThread \in Workers
  OBVIOUS
<1>1. s_last_thread_id + 1 \in Int
  BY DEF SharedOK, Workers
<1> QED
  BY <1>1, NetThreadNumAssumption DEF NextThread, Workers

\* There is a worker: the accept thread's record can start with it.
LEMMA ZeroWorker == 0 \in Workers
  BY NetThreadNumAssumption DEF Workers

\* Writing a byte to one pipe, and reading one.
LEMMA NotifiedOK ==
    ASSUME SharedOK, NEW w \in Workers
    PROVE  /\ Notified(w) \in [Workers -> Nat]
           /\ Notified(w)[w] = notify_pipe[w] + 1
           /\ \A v \in Workers : v # w => Notified(w)[v] = notify_pipe[v]
  BY DEF SharedOK, Notified

\* thread_libevent_process takes one byte from its own pipe.
LEMMA TakenOK ==
    ASSUME SharedOK, NEW w \in Workers, notify_pipe[w] >= 1
    PROVE  /\ Taken(w) \in [Workers -> Nat]
           /\ Taken(w)[w] = notify_pipe[w] - 1
           /\ \A v \in Workers : v # w => Taken(w)[v] = notify_pipe[v]
  BY DEF SharedOK, Taken

\* The invariant at work: a reported pipe has a connection behind it.
LEMMA NotifyReadPops ==
    ASSUME NEW w \in Workers, HandoffInv, NotifyRead(w)
    PROVE  /\ notify_pipe[w] >= 1
           /\ new_connections[w] # <<>>
           /\ pc[w] = "events"
           /\ pc' = [pc EXCEPT ![w] = "check"]
           /\ cur' = [cur EXCEPT ![w] = Head(new_connections[w])]
           /\ new_connections' = [new_connections EXCEPT ![w] = Tail(@)]
           /\ Head(new_connections[w]) \in Conns
           /\ Tail(new_connections[w]) \in Seq(Conns)
           /\ Len(Tail(new_connections[w])) = Len(new_connections[w]) - 1
<1>1. notify_pipe[w] >= 1
  BY DEF NotifyRead, HandoffInv, PipeBacked
<1>2. Len(new_connections[w]) >= 1
  BY <1>1 DEF HandoffInv, PipeBacked, Backed, TypeOK, SharedOK
<1>3. new_connections[w] # <<>>
  BY <1>2
<1>4. new_connections[w] \in Seq(Conns)
  BY DEF HandoffInv, TypeOK, SharedOK
<1>5. /\ Head(new_connections[w]) \in Conns
      /\ Tail(new_connections[w]) \in Seq(Conns)
      /\ Len(Tail(new_connections[w])) = Len(new_connections[w]) - 1
  BY <1>3, <1>4
<1> QED
  BY <1>1, <1>5 DEF NotifyRead, Goto

\* The accept thread is woken and has nothing at hand yet.
LEMMA ListenReady_Inv ==
    ASSUME HandoffInv, ListenReady
    PROVE  HandoffInv'
<1> USE DEF HandoffInv, TypeOK
<1>1. KernelOK' /\ SharedOK' /\ ConnOK' /\ WorkerOK'
  BY DEF ListenReady, kernelVars, sharedVars, connVars, workerVars, KernelOK,
     SharedOK, ConnOK, WorkerOK
<1>2. ConnectLock'
  BY DEF ListenReady, sharedVars, workerVars, ConnectLock
<1>3. ThreadsOK'
  BY DEF ListenReady, ThreadsOK
<1>4. AtHand'
  BY DEF ListenReady, workerVars, AtHand
<1>5. PipeBacked'
  BY DEF ListenReady, sharedVars, workerVars, PipeBacked, Backed
<1> QED
  BY <1>1, <1>2, <1>3, <1>4, <1>5

\* accept has failed: the accept thread drops what it had at hand.
LEMMA AcceptLoopEnds_Inv ==
    ASSUME HandoffInv, AcceptLoopEnds
    PROVE  HandoffInv'
<1> USE DEF HandoffInv, TypeOK
<1>1. KernelOK' /\ SharedOK' /\ ConnOK' /\ WorkerOK'
  BY DEF AcceptLoopEnds, kernelVars, sharedVars, connVars, workerVars,
     KernelOK, SharedOK, ConnOK, WorkerOK
<1>2. ConnectLock'
  BY DEF AcceptLoopEnds, sharedVars, workerVars, ConnectLock
<1>3. ThreadsOK'
  BY DEF AcceptLoopEnds, ThreadsOK
<1>4. AtHand'
  BY ConnsAssumption DEF AcceptLoopEnds, FreeFds, kernelVars, sharedVars,
         connVars, workerVars, AtHand, CreatePcs, ClosePcs, ThreadsOK,
         SharedOK, WorkerOK, WorkerPcs, Pipe, ConnectLock, ConnectorPcs
<1>5. PipeBacked'
  BY DEF AcceptLoopEnds, sharedVars, workerVars, PipeBacked, Backed, Pipe,
     ThreadsOK
<1> QED
  BY <1>1, <1>2, <1>3, <1>4, <1>5

\* give_worker_new_conn chooses a worker by the round robin.
LEMMA GivePick_Inv ==
    ASSUME HandoffInv, GivePick
    PROVE  HandoffInv'
<1> USE DEF HandoffInv, TypeOK
<1>1. KernelOK' /\ SharedOK' /\ ConnOK' /\ WorkerOK'
  BY DEF GivePick, kernelVars, sharedVars, connVars, workerVars, KernelOK,
     SharedOK, ConnOK, WorkerOK
<1>2. ConnectLock'
  BY DEF GivePick, sharedVars, workerVars, ConnectLock
<1>3. ThreadsOK'
  BY NextThreadOK DEF GivePick, ThreadsOK
<1>4. AtHand'
  BY DEF GivePick, workerVars, AtHand
<1>5. PipeBacked'
  BY DEF GivePick, sharedVars, workerVars, PipeBacked, Backed
<1> QED
  BY <1>1, <1>2, <1>3, <1>4, <1>5

\* give_worker_new_conn lengthens the chosen queue: room for its own byte.
LEMMA GivePush_Inv ==
    ASSUME HandoffInv, GivePush
    PROVE  HandoffInv'
<1> USE DEF HandoffInv, TypeOK
<1>1. KernelOK' /\ ConnOK' /\ WorkerOK'
  BY DEF GivePush, kernelVars, connVars, workerVars, KernelOK, ConnOK,
     WorkerOK
<1>2. ConnectLock'
  BY DEF GivePush, workerVars, ConnectLock
<1>3. ThreadsOK'
  BY DEF GivePush, ThreadsOK
<1>4. SharedOK'
  BY DEF GivePush, SharedOK, ThreadsOK, AtHand
<1>5. AtHand'
  BY DEF GivePush, workerVars, AtHand
<1>6. PipeBacked'
  <2>1. /\ acceptor.pc = "push" /\ acceptor.conn \in Conns
        /\ acceptor.target \in Workers
        /\ acceptor'.pc = "notify" /\ acceptor'.target = acceptor.target
        /\ UNCHANGED <<notify_pipe, pc, target, todo>>
    BY DEF GivePush, ThreadsOK, AtHand, workerVars
  <2>2. /\ notify_pipe \in [Workers -> Nat] /\ target \in [Workers -> Workers]
        /\ new_connections \in [Workers -> Seq(Conns)]
    BY DEF SharedOK, WorkerOK
  <2>3. \A v \in Workers :
          /\ Len(new_connections[v]) \in Nat
          /\ Len(new_connections'[v]) =
               IF v = acceptor.target THEN Len(new_connections[v]) + 1
                                      ELSE Len(new_connections[v])
    BY <2>1, <2>2 DEF GivePush
  <2> HIDE DEF HandoffInv, TypeOK
  <2>4. PipeBacked
    BY DEF HandoffInv
  <2>5. \A v \in Workers :
          /\ notify_pipe[v] \in Nat
          /\ notify_pipe[v] <= Len(new_connections[v])
          /\ notify_pipe[v] <= Len(new_connections'[v])
    <3>1. \A v \in Workers : notify_pipe[v] <= Len(new_connections[v])
      BY <2>4 DEF PipeBacked, Backed
    <3>2. \A v \in Workers : notify_pipe[v] \in Nat
      BY <2>2
    <3>3. ASSUME NEW v \in Workers
          PROVE  notify_pipe[v] <= Len(new_connections'[v])
      <4>1. \/ Len(new_connections'[v]) = Len(new_connections[v])
            \/ Len(new_connections'[v]) = Len(new_connections[v]) + 1
        BY <2>3
      <4>2. Len(new_connections[v]) \in Nat
        BY <2>3
      <4> QED
        BY <3>1, <3>2, <4>1, <4>2
    <3> QED
      BY <3>1, <3>2, <3>3
  <2>6. notify_pipe[acceptor.target] + 1 <=
          Len(new_connections'[acceptor.target])
    BY <2>1, <2>3, <2>5
  <2>7. ASSUME NEW v \in Workers, pc[v] = "conn_notify"
        PROVE  /\ notify_pipe[target[v]] + 1 <= Len(new_connections'[target[v]])
               /\ acceptor.target = target[v] =>
                    notify_pipe[target[v]] + 2 <=
                      Len(new_connections'[target[v]])
    <3>1. PICK u \in Workers : u = target[v]
      BY <2>2
    <3>2. notify_pipe[u] + 1 <= Len(new_connections[u])
      BY <2>4, <2>7, <3>1 DEF PipeBacked, Backed
    <3> QED
      BY <2>3, <2>5, <3>1, <3>2
  <2>8. Backed'
    BY <2>1, <2>5, <2>6, <2>7 DEF Backed
  <2> QED
    BY <2>1, <2>4, <2>8 DEF PipeBacked
<1> QED
  BY <1>1, <1>2, <1>3, <1>4, <1>5, <1>6

\* give_worker_new_conn writes the byte its push has made room for.
LEMMA GiveNotify_Inv ==
    ASSUME HandoffInv, GiveNotify
    PROVE  HandoffInv'
<1> USE DEF HandoffInv, TypeOK
<1>1. KernelOK' /\ ConnOK' /\ WorkerOK'
  BY DEF GiveNotify, kernelVars, connVars, workerVars, KernelOK, ConnOK,
     WorkerOK
<1>2. ConnectLock'
  BY DEF GiveNotify, workerVars, ConnectLock
<1>3. ThreadsOK'
  <2>1. /\ acceptor' = [acceptor EXCEPT !.pc = "accept", !.conn = NoConn,
                                        !.target = 0]
        /\ main' = main
    BY DEF GiveNotify
  <2> QED
    BY <2>1, ZeroWorker DEF ThreadsOK
<1>4. SharedOK'
  <2>1. /\ acceptor.target \in Workers
        /\ notify_pipe' = Notified(acceptor.target) \/ notify_pipe' = notify_pipe
    BY DEF GiveNotify, ThreadsOK
  <2>2. notify_pipe' \in [Workers -> Nat]
    BY <2>1, NotifiedOK DEF SharedOK
  <2>3. /\ curr_conns' = curr_conns + 1
        /\ UNCHANGED <<s_last_thread_id, s_connect_conns, s_conns_map,
                       new_connections>>
    BY DEF GiveNotify
  <2> QED
    BY <2>2, <2>3 DEF SharedOK
<1>5. AtHand'
  BY DEF GiveNotify, workerVars, AtHand
<1>6. PipeBacked'
  <2>1. /\ acceptor.pc = "notify"
        /\ acceptor.target \in Workers
        /\ acceptor'.pc = "accept"
        /\ UNCHANGED <<new_connections, pc, target, todo>>
    BY DEF GiveNotify, ThreadsOK, workerVars
  <2>2. CASE notify_pipe' = notify_pipe
    BY <2>1, <2>2 DEF PipeBacked, Backed
  <2>3. CASE notify_pipe' = Notified(acceptor.target)
    <3>1. /\ notify_pipe'[acceptor.target] = notify_pipe[acceptor.target] + 1
          /\ \A v \in Workers : v # acceptor.target =>
                                  notify_pipe'[v] = notify_pipe[v]
      BY <2>1, <2>3, NotifiedOK
    <3>2. \A v \in Workers : /\ notify_pipe[v] \in Nat
                             /\ Len(new_connections[v]) \in Nat
      BY DEF SharedOK
    <3>3. \A v \in Workers : notify_pipe'[v] <= Len(new_connections'[v])
      BY <2>1, <3>1 DEF PipeBacked, Backed
    <3>4. \A v \in Workers : pc'[v] = "conn_notify" =>
            notify_pipe'[target'[v]] + 1 <= Len(new_connections'[target'[v]])
      <4> TAKE v \in Workers
      <4> HAVE pc'[v] = "conn_notify"
      <4>1. /\ target[v] \in Workers
            /\ notify_pipe[target[v]] + 1 <= Len(new_connections[target[v]])
        BY <2>1 DEF PipeBacked, Backed, WorkerOK
      <4>2. CASE target[v] = acceptor.target
        BY <2>1, <3>1, <3>2, <4>2 DEF PipeBacked, Backed
      <4>3. CASE target[v] # acceptor.target
        BY <2>1, <3>1, <4>1, <4>3
      <4> QED
        BY <4>2, <4>3
    <3>5. Backed'
      BY <2>1, <3>3, <3>4 DEF Backed
    <3>6. \A v \in Workers : Pipe \in todo'[v] => notify_pipe'[v] >= 1
      BY <2>1, <3>1, <3>2 DEF PipeBacked
    <3>7. \A v \in Workers : pc'[v] # "crashed"
      BY <2>1 DEF PipeBacked
    <3> QED
      BY <3>5, <3>6, <3>7 DEF PipeBacked
  <2> QED
    BY <2>2, <2>3 DEF GiveNotify
<1> QED
  BY <1>1, <1>2, <1>3, <1>4, <1>5, <1>6

\* accept returns a connection, and the accept thread has it at hand.
LEMMA Accept_Inv ==
    ASSUME NEW c \in Conns, HandoffInv, Accept(c)
    PROVE  HandoffInv'
<1> USE DEF HandoffInv, TypeOK
<1>1. SharedOK' /\ WorkerOK'
  BY DEF Accept, sharedVars, workerVars, SharedOK, WorkerOK
<1>2. ConnectLock'
  BY DEF Accept, sharedVars, workerVars, ConnectLock
<1>3. KernelOK'
  BY DEF Accept, KernelOK
<1>4. ThreadsOK'
  BY DEF Accept, ThreadsOK
<1>5. ConnOK'
  BY DEF Accept, FreeFds, LowestFree, ConnOK
<1>6. AtHand'
  BY DEF Accept, workerVars, AtHand
<1>7. PipeBacked'
  BY DEF Accept, sharedVars, workerVars, PipeBacked, Backed
<1> QED
  BY <1>1, <1>2, <1>3, <1>4, <1>5, <1>6, <1>7

\* An accepted connection is closed before it is given to anyone.
LEMMA AcceptFcntlFails_Inv ==
    ASSUME NEW c \in Conns, HandoffInv, AcceptFcntlFails(c)
    PROVE  HandoffInv'
<1> USE DEF HandoffInv, TypeOK
<1>1. ThreadsOK' /\ SharedOK' /\ ConnOK' /\ WorkerOK'
  BY DEF AcceptFcntlFails, sharedVars, connVars, workerVars, ThreadsOK,
     SharedOK, ConnOK, WorkerOK
<1>2. AtHand' /\ ConnectLock' /\ PipeBacked'
  BY DEF AcceptFcntlFails, sharedVars, workerVars, AtHand, ConnectLock,
     PipeBacked, Backed
<1>3. KernelOK'
  BY DEF AcceptFcntlFails, KernelOK
<1> QED
  BY <1>1, <1>2, <1>3

\* net_connect is through: main has the connection at hand.
LEMMA ConnectSucceeds_Inv ==
    ASSUME HandoffInv, ConnectSucceeds
    PROVE  HandoffInv'
<1> USE DEF HandoffInv, TypeOK
<1>1. SharedOK' /\ WorkerOK'
  BY DEF ConnectSucceeds, sharedVars, workerVars, SharedOK, WorkerOK
<1>2. ConnectLock' /\ PipeBacked'
  BY DEF ConnectSucceeds, sharedVars, workerVars, ConnectLock, PipeBacked,
     Backed
<1>3. KernelOK'
  BY DEF ConnectSucceeds, KernelOK
<1>4. ThreadsOK'
  BY DEF ConnectSucceeds, ThreadsOK
<1>5. ConnOK'
  BY DEF ConnectSucceeds, ConnOK
<1>6. AtHand'
  BY DEF ConnectSucceeds, workerVars, AtHand
<1> QED
  BY <1>1, <1>2, <1>3, <1>4, <1>5, <1>6

\* net_connect gives up: the descriptor is free again.
LEMMA ConnectFails_Inv ==
    ASSUME HandoffInv, ConnectFails
    PROVE  HandoffInv'
<1> USE DEF HandoffInv, TypeOK
<1>1. SharedOK' /\ WorkerOK'
  BY DEF ConnectFails, sharedVars, workerVars, SharedOK, WorkerOK
<1>2. ConnectLock' /\ PipeBacked'
  BY DEF ConnectFails, sharedVars, workerVars, ConnectLock, PipeBacked, Backed
<1>3. KernelOK'
  <2>1. fd_table' \in [Fds -> Conns \cup {NoConn}]
    BY DEF ConnectFails, Closed, KernelOK
  <2>2. UNCHANGED <<clock, peer, backlog>>
    BY DEF ConnectFails
  <2> QED
    BY <2>1, <2>2 DEF KernelOK
<1>4. ThreadsOK'
  BY DEF ConnectFails, ThreadsOK
<1>5. ConnOK'
  BY DEF ConnectFails, ConnOK
<1>6. AtHand'
  BY DEF ConnectFails, workerVars, AtHand
<1> QED
  BY <1>1, <1>2, <1>3, <1>4, <1>5, <1>6

\* net_connect lengthens s_connect_conns, which a scan may be reading.
LEMMA ConnectPush_Inv ==
    ASSUME HandoffInv, ConnectPush
    PROVE  HandoffInv'
<1> USE DEF HandoffInv, TypeOK
<1>1. KernelOK' /\ ConnOK' /\ WorkerOK'
  BY DEF ConnectPush, kernelVars, connVars, workerVars, KernelOK, ConnOK,
     WorkerOK
<1>2. PipeBacked'
  BY DEF ConnectPush, workerVars, PipeBacked, Backed
<1>3. ThreadsOK'
  BY DEF ConnectPush, ThreadsOK
<1>4. SharedOK'
  BY DEF ConnectPush, SharedOK, AtHand
<1>5. AtHand'
  BY DEF ConnectPush, workerVars, AtHand
<1>6. ConnectLock'
  BY DEF ConnectPush, ConnectLockFree, workerVars, ConnectLock, WorkerOK,
     WorkerPcs, SharedOK
<1> QED
  BY <1>1, <1>2, <1>3, <1>4, <1>5, <1>6

\* net_connect has a socket.
LEMMA ConnectSocket_Inv ==
    ASSUME NEW c \in Conns, HandoffInv, ConnectSocket(c)
    PROVE  HandoffInv'
<1> USE DEF HandoffInv, TypeOK
<1>1. SharedOK' /\ WorkerOK'
  BY DEF ConnectSocket, sharedVars, workerVars, SharedOK, WorkerOK
<1>2. ConnectLock' /\ PipeBacked'
  BY DEF ConnectSocket, sharedVars, workerVars, ConnectLock, PipeBacked,
     Backed
<1>3. KernelOK'
  BY DEF ConnectSocket, KernelOK
<1>4. ThreadsOK'
  BY DEF ConnectSocket, ThreadsOK
<1>5. ConnOK'
  BY DEF ConnectSocket, FreeFds, LowestFree, ConnOK
<1>6. AtHand'
  BY DEF ConnectSocket, workerVars, AtHand
<1> QED
  BY <1>1, <1>2, <1>3, <1>4, <1>5, <1>6

\* conn_close touches only the state of a connection.
LEMMA MainClose_Inv ==
    ASSUME NEW c \in Conns, HandoffInv, MainClose(c)
    PROVE  HandoffInv'
<1> USE DEF HandoffInv, TypeOK
<1>1. KernelOK' /\ ThreadsOK' /\ SharedOK' /\ WorkerOK'
  BY DEF MainClose, kernelVars, sharedVars, workerVars, KernelOK, ThreadsOK,
     SharedOK, WorkerOK
<1>2. AtHand' /\ ConnectLock' /\ PipeBacked'
  BY DEF MainClose, sharedVars, workerVars, AtHand, ConnectLock, PipeBacked,
     Backed
<1>3. ConnOK'
  <2>1. state' \in [Conns -> ConnStates]
    BY DEF MainClose, ConnClose, ConnOK, ConnStates
  <2>2. close_time' \in [Conns -> 0 .. MaxTime]
    BY DEF MainClose, ConnClose, ConnOK, KernelOK
  <2>3. UNCHANGED <<sfd, sfd_dup, object, callback, td, read_event>>
    BY DEF MainClose
  <2> QED
    BY <2>1, <2>2, <2>3 DEF ConnOK
<1> QED
  BY <1>1, <1>2, <1>3

\* Time passes.
LEMMA Tick_Inv ==
    ASSUME HandoffInv, Tick
    PROVE  HandoffInv'
<1> USE DEF HandoffInv, TypeOK
<1>1. ThreadsOK' /\ SharedOK' /\ ConnOK' /\ WorkerOK'
  BY DEF Tick, sharedVars, connVars, workerVars, ThreadsOK, SharedOK, ConnOK,
     WorkerOK
<1>2. AtHand' /\ ConnectLock' /\ PipeBacked'
  BY DEF Tick, sharedVars, workerVars, AtHand, ConnectLock, PipeBacked, Backed
<1>3. KernelOK'
  BY TimeAssumption DEF Tick, KernelOK
<1> QED
  BY <1>1, <1>2, <1>3

\* A peer connects.
LEMMA PeerConnect_Inv ==
    ASSUME NEW c \in Conns, HandoffInv, PeerConnect(c)
    PROVE  HandoffInv'
<1> USE DEF HandoffInv, TypeOK
<1>1. ThreadsOK' /\ SharedOK' /\ ConnOK' /\ WorkerOK'
  BY DEF PeerConnect, sharedVars, connVars, workerVars, ThreadsOK, SharedOK,
     ConnOK, WorkerOK
<1>2. AtHand' /\ ConnectLock' /\ PipeBacked'
  BY DEF PeerConnect, sharedVars, workerVars, AtHand, ConnectLock, PipeBacked,
     Backed
<1>3. KernelOK'
  BY DEF PeerConnect, KernelOK
<1> QED
  BY <1>1, <1>2, <1>3

\* A peer goes away.
LEMMA PeerDown_Inv ==
    ASSUME NEW c \in Conns, HandoffInv, PeerDown(c)
    PROVE  HandoffInv'
<1> USE DEF HandoffInv, TypeOK
<1>1. ThreadsOK' /\ SharedOK' /\ ConnOK' /\ WorkerOK'
  BY DEF PeerDown, sharedVars, connVars, workerVars, ThreadsOK, SharedOK,
     ConnOK, WorkerOK
<1>2. AtHand' /\ ConnectLock' /\ PipeBacked'
  BY DEF PeerDown, sharedVars, workerVars, AtHand, ConnectLock, PipeBacked,
     Backed
<1>3. KernelOK'
  BY DEF PeerDown, KernelOK
<1> QED
  BY <1>1, <1>2, <1>3

\* A worker takes s_connect_conns_lock when nobody has it, or finds nothing.
LEMMA ConnectorLoop_Inv ==
    ASSUME NEW w \in Workers, HandoffInv, ConnectorLoop(w)
    PROVE  HandoffInv'
<1> USE DEF HandoffInv, TypeOK
<1>1. KernelOK' /\ ThreadsOK' /\ SharedOK' /\ ConnOK'
  BY DEF ConnectorLoop, kernelVars, sharedVars, connVars, KernelOK, ThreadsOK,
     SharedOK, ConnOK
<1>2. WorkerOK'
  BY DEF ConnectorLoop, Goto, WorkerOK, WorkerPcs
<1>3. AtHand'
  BY DEF ConnectorLoop, Goto, AtHand, CreatePcs, ClosePcs
<1>4. ConnectLock'
  BY DEF ConnectorLoop, ConnectLockFree, Goto, sharedVars, ConnectLock,
     ConnectorPcs
<1>5. PipeBacked'
  BY DEF ConnectorLoop, Goto, sharedVars, PipeBacked, Backed
<1> QED
  BY <1>1, <1>2, <1>3, <1>4, <1>5

\* push_worker_new_conn chooses a worker by the round robin.
LEMMA ConnectorPick_Inv ==
    ASSUME NEW w \in Workers, HandoffInv, ConnectorPick(w)
    PROVE  HandoffInv'
<1> USE DEF HandoffInv, TypeOK
<1>1. KernelOK' /\ ThreadsOK' /\ SharedOK' /\ ConnOK'
  BY DEF ConnectorPick, kernelVars, sharedVars, connVars, KernelOK, ThreadsOK,
     SharedOK, ConnOK
<1>2. WorkerOK'
  BY NextThreadOK DEF ConnectorPick, Goto, WorkerOK, WorkerPcs
<1>3. AtHand'
  BY DEF ConnectorPick, Goto, AtHand, CreatePcs, ClosePcs
<1>4. ConnectLock'
  BY DEF ConnectorPick, Goto, sharedVars, ConnectLock, ConnectorPcs
<1>5. PipeBacked'
  BY DEF ConnectorPick, Goto, sharedVars, PipeBacked, Backed
<1> QED
  BY <1>1, <1>2, <1>3, <1>4, <1>5

\* push_worker_new_conn lengthens the chosen queue: room for its own byte,
\* also when the accept thread is about to notify the same worker.
LEMMA ConnectorPush_Inv ==
    ASSUME NEW w \in Workers, HandoffInv, ConnectorPush(w)
    PROVE  HandoffInv'
<1> USE DEF HandoffInv, TypeOK
<1>1. KernelOK' /\ ThreadsOK' /\ ConnOK'
  BY DEF ConnectorPush, kernelVars, connVars, KernelOK, ThreadsOK, ConnOK
<1>2. SharedOK'
  <2>1. s_last_thread_id' \in Workers \cup {-1}
    BY DEF ConnectorPush, WorkerOK
  <2>2. new_connections' \in [Workers -> Seq(Conns)]
    BY DEF ConnectorPush, Goto, SharedOK, WorkerOK, ConnectLock, ConnectorPcs
  <2>3. UNCHANGED <<s_connect_conns, s_conns_map, curr_conns, notify_pipe>>
    BY DEF ConnectorPush
  <2> QED
    BY <2>1, <2>2, <2>3 DEF SharedOK
<1>3. WorkerOK'
  BY DEF ConnectorPush, Goto, WorkerOK, WorkerPcs
<1>4. AtHand'
  BY DEF ConnectorPush, Goto, AtHand, CreatePcs, ClosePcs
<1>5. ConnectLock'
  BY DEF ConnectorPush, Goto, ConnectLock, ConnectorPcs
<1>6. PipeBacked'
  <2>1. /\ pc[w] = "conn_push"
        /\ target[w] \in Workers
        /\ pc' = [pc EXCEPT ![w] = "conn_notify"]
        /\ new_connections' = [new_connections EXCEPT ![target[w]] =
                                 Append(@, Head(s_connect_conns))]
        /\ UNCHANGED <<acceptor, notify_pipe, target, todo>>
    BY DEF ConnectorPush, Goto, WorkerOK
  <2>2. \A v \in Workers : v # w => pc[v] # "conn_notify"
    BY <2>1 DEF ConnectLock, ConnectorPcs
  <2>3. Head(s_connect_conns) \in Conns
    BY <2>1 DEF ConnectLock, ConnectorPcs, SharedOK
  <2>4. /\ Len(new_connections'[target[w]]) = Len(new_connections[target[w]]) + 1
        /\ \A v \in Workers : v # target[w] =>
             new_connections'[v] = new_connections[v]
    BY <2>1 DEF SharedOK
  <2>5. /\ pc'[w] = "conn_notify"
        /\ \A v \in Workers : v # w => pc'[v] = pc[v]
    BY <2>1 DEF WorkerOK
  <2>6. Backed'
    <3>1. \A v \in Workers : /\ Len(new_connections[v]) \in Nat
                             /\ Len(new_connections'[v]) \in Nat
                             /\ Len(new_connections'[v]) >= Len(new_connections[v])
                             /\ notify_pipe[v] \in Nat
      BY <2>1, <2>4 DEF SharedOK
    <3>2. \A v \in Workers : pc'[v] = "conn_notify" => v = w
      BY <2>2, <2>5
    <3>3. /\ \A v \in Workers : notify_pipe'[v] <= Len(new_connections'[v])
          /\ notify_pipe'[target[w]] + 1 <= Len(new_connections'[target[w]])
      BY <2>1, <2>4, <3>1 DEF PipeBacked, Backed
    <3>4. acceptor.pc = "notify" =>
            /\ acceptor.target \in Workers
            /\ notify_pipe[acceptor.target] + 1
                 <= Len(new_connections'[acceptor.target])
            /\ acceptor.target = target[w] =>
                 notify_pipe[target[w]] + 2 <= Len(new_connections'[target[w]])
      BY <2>1, <2>4, <3>1 DEF PipeBacked, Backed, ThreadsOK
    <3> QED
      BY <2>1, <3>2, <3>3, <3>4 DEF Backed
  <2> QED
    BY <2>1, <2>6 DEF PipeBacked
<1> QED
  BY <1>1, <1>2, <1>3, <1>4, <1>5, <1>6

\* push_worker_new_conn writes its byte and takes the ConnInfo off the list.
LEMMA ConnectorNotify_Inv ==
    ASSUME NEW w \in Workers, HandoffInv, ConnectorNotify(w)
    PROVE  HandoffInv'
<1> USE DEF HandoffInv, TypeOK
<1>1. KernelOK' /\ ThreadsOK' /\ ConnOK'
  BY DEF ConnectorNotify, kernelVars, connVars, KernelOK, ThreadsOK, ConnOK
<1>2. SharedOK'
  <2>1. /\ target[w] \in Workers
        /\ notify_pipe' = Notified(target[w]) \/ notify_pipe' = notify_pipe
    BY DEF ConnectorNotify, WorkerOK
  <2>2. notify_pipe' \in [Workers -> Nat]
    BY <2>1, NotifiedOK DEF SharedOK
  <2>3. s_connect_conns' \in Seq(Conns)
    BY DEF ConnectorNotify, OtherConnectors, ConnectLock, ConnectorPcs,
       SharedOK
  <2>4. UNCHANGED <<s_last_thread_id, s_conns_map, curr_conns, new_connections>>
    BY DEF ConnectorNotify
  <2> QED
    BY <2>2, <2>3, <2>4 DEF SharedOK
<1>3. WorkerOK'
  <2>1. pc' \in [Workers -> WorkerPcs]
    BY DEF ConnectorNotify, Goto, WorkerOK, WorkerPcs
  <2>2. target' \in [Workers -> Workers]
    BY ZeroWorker DEF ConnectorNotify, WorkerOK
  <2>3. UNCHANGED <<cur, now, todo, thread_connections,
          for_delete_connections>>
    BY DEF ConnectorNotify, Goto
  <2> QED
    BY <2>1, <2>2, <2>3 DEF WorkerOK
<1>4. AtHand'
  BY DEF ConnectorNotify, Goto, AtHand, CreatePcs, ClosePcs
<1>5. ConnectLock'
  BY DEF ConnectorNotify, Goto, ConnectLock, ConnectorPcs, WorkerOK
<1>6. PipeBacked'
  <2>1. /\ pc[w] = "conn_notify"
        /\ target[w] \in Workers
        /\ pc'[w] \in {"epoll", "conn_pick"}
        /\ \A v \in Workers : v # w => pc'[v] = pc[v] /\ target'[v] = target[v]
        /\ UNCHANGED <<acceptor, new_connections, todo>>
    BY DEF ConnectorNotify, Goto, WorkerOK
  <2>2. \A v \in Workers : pc'[v] # "conn_notify"
    BY <2>1 DEF ConnectLock, ConnectorPcs
  <2>3. CASE notify_pipe' = notify_pipe
    BY <2>1, <2>2, <2>3 DEF PipeBacked, Backed
  <2>4. CASE notify_pipe' = Notified(target[w])
    <3>1. /\ notify_pipe'[target[w]] = notify_pipe[target[w]] + 1
          /\ \A v \in Workers : v # target[w] => notify_pipe'[v] = notify_pipe[v]
          /\ \A v \in Workers : notify_pipe[v] \in Nat
      BY <2>1, <2>4, NotifiedOK DEF SharedOK
    <3>2. Backed'
      <4>1. \A v \in Workers : notify_pipe'[v] <= Len(new_connections'[v])
        BY <2>1, <3>1 DEF PipeBacked, Backed
      <4>2. acceptor.pc = "notify" =>
              notify_pipe'[acceptor.target] + 1
                <= Len(new_connections'[acceptor.target])
        BY <2>1, <3>1 DEF PipeBacked, Backed, ThreadsOK
      <4> QED
        BY <2>1, <2>2, <4>1, <4>2 DEF Backed
    <3>3. \A v \in Workers : Pipe \in todo'[v] =>
                               notify_pipe'[v] >= 1
      BY <2>1, <3>1 DEF PipeBacked
    <3>4. \A v \in Workers : pc'[v] # "crashed"
      BY <2>1 DEF PipeBacked
    <3> QED
      BY <3>2, <3>3, <3>4 DEF PipeBacked
  <2> QED
    BY <2>3, <2>4 DEF ConnectorNotify
<1> QED
  BY <1>1, <1>2, <1>3, <1>4, <1>5, <1>6

\* The poll reports a pipe only when there is a byte in it.
LEMMA EpollWait_Inv ==
    ASSUME NEW w \in Workers, HandoffInv, EpollWait(w)
    PROVE  HandoffInv'
<1> USE DEF HandoffInv, TypeOK
<1>1. KernelOK' /\ ThreadsOK' /\ SharedOK' /\ ConnOK'
  BY DEF EpollWait, kernelVars, sharedVars, connVars, KernelOK, ThreadsOK,
     SharedOK, ConnOK
<1>2. WorkerOK'
  BY DEF EpollWait, Goto, WorkerOK, WorkerPcs
<1>3. AtHand'
  BY DEF EpollWait, Goto, AtHand, CreatePcs, ClosePcs
<1>4. ConnectLock'
  BY DEF EpollWait, Goto, sharedVars, ConnectLock, ConnectorPcs
<1>5. PipeBacked'
  BY ConnsAssumption DEF EpollWait, Goto, sharedVars, PipeBacked, Backed,
     Pipe, WorkerOK, SharedOK
<1> QED
  BY <1>1, <1>2, <1>3, <1>4, <1>5

\* The worker reads one byte and pops one ConnInfo: both counts go down.
LEMMA NotifyRead_Inv ==
    ASSUME NEW w \in Workers, HandoffInv, NotifyRead(w)
    PROVE  HandoffInv'
<1> USE DEF HandoffInv, TypeOK
<1>1. KernelOK' /\ ThreadsOK' /\ ConnOK'
  BY DEF NotifyRead, kernelVars, connVars, KernelOK, ThreadsOK, ConnOK
<1>2. SharedOK'
  <2>1. notify_pipe' \in [Workers -> Nat]
    BY NotifyReadPops, TakenOK DEF NotifyRead
  <2>2. new_connections' \in [Workers -> Seq(Conns)]
    BY NotifyReadPops DEF SharedOK
  <2>3. UNCHANGED <<s_last_thread_id, s_connect_conns, s_conns_map, curr_conns>>
    BY DEF NotifyRead
  <2> QED
    BY <2>1, <2>2, <2>3 DEF SharedOK
<1>3. WorkerOK'
  <2>1. pc' \in [Workers -> WorkerPcs]
    BY NotifyReadPops DEF WorkerOK, WorkerPcs
  <2>2. cur' \in [Workers -> Conns \cup {NoConn}]
    <3>1. /\ cur' = [cur EXCEPT ![w] = Head(new_connections[w])]
          /\ Head(new_connections[w]) \in Conns
      BY NotifyReadPops
    <3> QED
      BY <3>1 DEF WorkerOK
  <2>3. todo' \in [Workers -> SUBSET (Conns \cup {Pipe})]
    BY DEF NotifyRead, WorkerOK
  <2>4. UNCHANGED <<target, now, thread_connections, for_delete_connections>>
    BY DEF NotifyRead
  <2> QED
    BY <2>1, <2>2, <2>3, <2>4 DEF WorkerOK
<1>4. AtHand'
  <2>1. UNCHANGED <<acceptor, main>>
    BY DEF NotifyRead
  <2> QED
    BY <2>1, NotifyReadPops DEF AtHand, CreatePcs, ClosePcs, WorkerOK
<1>5. ConnectLock'
  <2>1. s_connect_conns' = s_connect_conns
    BY DEF NotifyRead
  <2> QED
    BY <2>1, NotifyReadPops DEF ConnectLock, ConnectorPcs, WorkerOK
<1>6. PipeBacked'
  <2>1. /\ pc' = [pc EXCEPT ![w] = "check"]
        /\ todo' = [todo EXCEPT ![w] = @ \ {Pipe}]
        /\ UNCHANGED <<acceptor, target>>
    BY NotifyReadPops DEF NotifyRead
  <2>2. /\ notify_pipe'[w] = notify_pipe[w] - 1
        /\ Len(new_connections'[w]) = Len(new_connections[w]) - 1
        /\ \A v \in Workers : v # w => /\ notify_pipe'[v] = notify_pipe[v]
                                       /\ new_connections'[v] = new_connections[v]
        /\ \A v \in Workers : /\ notify_pipe[v] \in Nat
                              /\ Len(new_connections[v]) \in Nat
    <3>1. notify_pipe' = Taken(w)
      BY DEF NotifyRead
    <3>2. /\ new_connections'[w] = Tail(new_connections[w])
          /\ \A v \in Workers : v # w => new_connections'[v] = new_connections[v]
      BY NotifyReadPops DEF SharedOK
    <3>3. /\ notify_pipe'[w] = notify_pipe[w] - 1
          /\ \A v \in Workers : v # w => notify_pipe'[v] = notify_pipe[v]
      BY <3>1, NotifyReadPops, TakenOK
    <3>4. Len(new_connections'[w]) = Len(new_connections[w]) - 1
      BY <3>2, NotifyReadPops
    <3>5. \A v \in Workers : /\ notify_pipe[v] \in Nat
                             /\ Len(new_connections[v]) \in Nat
      BY DEF SharedOK
    <3> QED
      BY <3>2, <3>3, <3>4, <3>5
  <2>3. /\ pc'[w] = "check"
        /\ \A v \in Workers : v # w => pc'[v] = pc[v] /\ todo'[v] = todo[v]
    BY <2>1 DEF WorkerOK
  <2>4. Backed'
    <3>1. \A v \in Workers : notify_pipe'[v] <= Len(new_connections'[v])
      BY <2>2 DEF PipeBacked, Backed
    <3>2. acceptor.pc = "notify" =>
            notify_pipe'[acceptor.target] + 1
              <= Len(new_connections'[acceptor.target])
      BY <2>2 DEF PipeBacked, Backed, ThreadsOK
    <3>3. \A v \in Workers : pc'[v] = "conn_notify" =>
            /\ notify_pipe'[target[v]] + 1 <= Len(new_connections'[target[v]])
            /\ acceptor.pc = "notify" /\ acceptor.target = target[v] =>
                 notify_pipe'[target[v]] + 2 <= Len(new_connections'[target[v]])
      <4> TAKE v \in Workers
      <4> HAVE pc'[v] = "conn_notify"
      <4>1. /\ pc[v] = "conn_notify"
            /\ target[v] \in Workers
        BY <2>3 DEF WorkerOK
      <4>2. CASE target[v] = w
        BY <2>2, <4>1, <4>2 DEF PipeBacked, Backed
      <4>3. CASE target[v] # w
        BY <2>2, <4>1, <4>3 DEF PipeBacked, Backed
      <4> QED
        BY <4>2, <4>3
    <3> QED
      BY <2>1, <3>1, <3>2, <3>3 DEF Backed
  <2>5. Pipe \notin todo'[w]
    BY <2>1 DEF WorkerOK
  <2>6. \A v \in Workers : Pipe \in todo'[v] => notify_pipe'[v] >= 1
    BY <2>2, <2>3, <2>5 DEF PipeBacked
  <2>7. \A v \in Workers : pc'[v] # "crashed"
    BY <2>3 DEF PipeBacked
  <2> QED
    BY <2>4, <2>6, <2>7 DEF PipeBacked
<1> QED
  BY <1>1, <1>2, <1>3, <1>4, <1>5, <1>6

\* create_conn looks for the descriptor in s_conns_map.
LEMMA CreateCheck_Inv ==
    ASSUME NEW w \in Workers, HandoffInv, CreateCheck(w)
    PROVE  HandoffInv'
<1> USE DEF HandoffInv, TypeOK
<1>1. KernelOK' /\ ThreadsOK' /\ SharedOK' /\ ConnOK'
  BY DEF CreateCheck, kernelVars, sharedVars, connVars, KernelOK, ThreadsOK,
     SharedOK, ConnOK
<1>2. WorkerOK'
  BY DEF CreateCheck, Goto, WorkerOK, WorkerPcs
<1>3. AtHand'
  BY DEF CreateCheck, Goto, AtHand, CreatePcs
<1>4. ConnectLock'
  BY DEF CreateCheck, Goto, sharedVars, ConnectLock, ConnectorPcs
<1>5. PipeBacked'
  BY DEF CreateCheck, Goto, sharedVars, PipeBacked, Backed
<1> QED
  BY <1>1, <1>2, <1>3, <1>4, <1>5

\* create_conn duplicates the descriptor, or fails to.
LEMMA CreateDup_Inv ==
    ASSUME NEW w \in Workers, HandoffInv, CreateDup(w)
    PROVE  HandoffInv'
<1> USE DEF HandoffInv, TypeOK
<1>1. ThreadsOK' /\ SharedOK'
  BY DEF CreateDup, sharedVars, ThreadsOK, SharedOK
<1>2. KernelOK'
  <2>1. PICK d \in Dup(sfd[cur[w]]) :
          fd_table' = [f \in Fds |-> IF f = d THEN Socket(sfd[cur[w]])
                                              ELSE fd_table[f]]
    BY DEF CreateDup
  <2>2. fd_table' \in [Fds -> Conns \cup {NoConn}]
    BY <2>1 DEF KernelOK, Socket
  <2>3. UNCHANGED <<clock, peer, backlog>>
    BY DEF CreateDup
  <2> QED
    BY <2>2, <2>3 DEF KernelOK
<1>3. ConnOK'
  BY DEF CreateDup, FreeFds, LowestFree, Dup, Goto, ConnOK, ConnStates,
     AtHand, CreatePcs
<1>4. WorkerOK'
  BY DEF CreateDup, Goto, WorkerOK, WorkerPcs
<1>5. AtHand'
  BY DEF CreateDup, Goto, AtHand, CreatePcs
<1>6. ConnectLock'
  BY DEF CreateDup, Goto, sharedVars, ConnectLock, ConnectorPcs
<1>7. PipeBacked'
  BY DEF CreateDup, Goto, sharedVars, PipeBacked, Backed
<1> QED
  BY <1>1, <1>2, <1>3, <1>4, <1>5, <1>6, <1>7

\* create_conn succeeds and the worker serves the connection.
LEMMA CreateRegister_Inv ==
    ASSUME NEW w \in Workers, HandoffInv, CreateRegister(w)
    PROVE  HandoffInv'
<1> USE DEF HandoffInv, TypeOK
<1>1. KernelOK' /\ ThreadsOK'
  BY DEF CreateRegister, kernelVars, KernelOK, ThreadsOK
<1>2. SharedOK'
  <2>1. s_conns_map' \in [Fds -> Conns \cup {NoConn}]
    BY DEF CreateRegister, Goto, SharedOK, AtHand, CreatePcs
  <2>2. curr_conns' \in Int
    BY DEF CreateRegister, Goto, SharedOK
  <2>3. UNCHANGED <<s_last_thread_id, s_connect_conns, new_connections,
          notify_pipe>>
    BY DEF CreateRegister, Goto
  <2> QED
    BY <2>1, <2>2, <2>3 DEF SharedOK
<1>3. ConnOK'
  <2>1. callback' \in [Conns -> Seq({"ok", "failed"})]
    BY DEF CreateRegister, Told, Goto, ConnOK, AtHand, CreatePcs
  <2>2. UNCHANGED <<sfd, sfd_dup, state, close_time, object>>
    BY DEF CreateRegister, Goto
  <2>3. /\ td' \in [Conns -> Workers \cup {-1}]
        /\ read_event' \in [Conns -> BOOLEAN]
    BY DEF CreateRegister, ConnOK
  <2> QED
    BY <2>1, <2>2, <2>3 DEF ConnOK
<1>4. WorkerOK'
  BY DEF CreateRegister, Goto, Leave, WorkerOK, WorkerPcs, AtHand, CreatePcs
<1>5. AtHand'
  BY DEF CreateRegister, Goto, Leave, AtHand, CreatePcs, ClosePcs, WorkerOK
<1>6. ConnectLock'
  BY DEF CreateRegister, Goto, Leave, ConnectLock, ConnectorPcs
<1>7. PipeBacked'
  <2>1. /\ pc' = [pc EXCEPT ![w] = "events"]
        /\ UNCHANGED <<acceptor, new_connections, notify_pipe, target, todo>>
    BY DEF CreateRegister, Leave, Goto
  <2> QED
    BY <2>1 DEF PipeBacked, Backed
<1> QED
  BY <1>1, <1>2, <1>3, <1>4, <1>5, <1>6, <1>7

\* create_conn fails at event_add and closes both descriptors.
LEMMA CreateFails_Inv ==
    ASSUME NEW w \in Workers, HandoffInv, CreateFails(w)
    PROVE  HandoffInv'
<1> USE DEF HandoffInv, TypeOK
<1>1. ThreadsOK' /\ SharedOK'
  BY DEF CreateFails, sharedVars, ThreadsOK, SharedOK
<1>2. KernelOK'
  BY DEF CreateFails, Closed, Goto, KernelOK
<1>3. ConnOK'
  BY DEF CreateFails, Goto, ConnOK
<1>4. WorkerOK'
  BY DEF CreateFails, Goto, WorkerOK, WorkerPcs
<1>5. AtHand'
  BY DEF CreateFails, Goto, AtHand, CreatePcs
<1>6. ConnectLock'
  BY DEF CreateFails, Goto, sharedVars, ConnectLock, ConnectorPcs
<1>7. PipeBacked'
  BY DEF CreateFails, Goto, sharedVars, PipeBacked, Backed
<1> QED
  BY <1>1, <1>2, <1>3, <1>4, <1>5, <1>6, <1>7

\* The worker closes what create_conn refused and tells the connector.
LEMMA NotifyReject_Inv ==
    ASSUME NEW w \in Workers, HandoffInv, NotifyReject(w)
    PROVE  HandoffInv'
<1> USE DEF HandoffInv, TypeOK
<1>1. ThreadsOK' /\ SharedOK'
  BY DEF NotifyReject, sharedVars, ThreadsOK, SharedOK
<1>2. KernelOK'
  BY DEF NotifyReject, Closed, Goto, KernelOK
<1>3. ConnOK'
  <2>1. object' \in [Conns -> {"none", "live", "freed"}]
    BY DEF NotifyReject, Goto, ConnOK
  <2>2. callback' \in [Conns -> Seq({"ok", "failed"})]
    BY DEF NotifyReject, Told, Rejected, Goto, ConnOK, AtHand, CreatePcs
  <2>3. UNCHANGED <<sfd, sfd_dup, state, close_time, td, read_event>>
    BY DEF NotifyReject, Goto
  <2> QED
    BY <2>1, <2>2, <2>3 DEF ConnOK
<1>4. WorkerOK'
  BY DEF NotifyReject, Goto, Leave, WorkerOK, WorkerPcs
<1>5. AtHand'
  BY DEF NotifyReject, Goto, Leave, AtHand, CreatePcs, ClosePcs, WorkerOK
<1>6. ConnectLock'
  BY DEF NotifyReject, Goto, Leave, sharedVars, ConnectLock, ConnectorPcs
<1>7. PipeBacked'
  <2>1. /\ pc' = [pc EXCEPT ![w] = "events"]
        /\ UNCHANGED <<acceptor, new_connections, notify_pipe, target, todo>>
    BY DEF NotifyReject, Leave, Goto, sharedVars
  <2> QED
    BY <2>1 DEF PipeBacked, Backed
<1> QED
  BY <1>1, <1>2, <1>3, <1>4, <1>5, <1>6, <1>7

\* The events of a turn are done; the sweep begins.
LEMMA EventsEnd_Inv ==
    ASSUME NEW w \in Workers, HandoffInv, EventsEnd(w)
    PROVE  HandoffInv'
<1> USE DEF HandoffInv, TypeOK
<1>1. KernelOK' /\ ThreadsOK' /\ SharedOK' /\ ConnOK'
  BY DEF EventsEnd, kernelVars, sharedVars, connVars, KernelOK, ThreadsOK,
     SharedOK, ConnOK
<1>2. WorkerOK'
  BY DEF EventsEnd, Goto, WorkerOK, WorkerPcs
<1>3. AtHand'
  BY DEF EventsEnd, Goto, AtHand, CreatePcs, ClosePcs
<1>4. ConnectLock'
  BY DEF EventsEnd, Goto, sharedVars, ConnectLock, ConnectorPcs
<1>5. PipeBacked'
  BY ConnsAssumption DEF EventsEnd, Goto, sharedVars, PipeBacked, Backed,
     Pipe, WorkerOK
<1> QED
  BY <1>1, <1>2, <1>3, <1>4, <1>5

\* conn_internal_close takes the entry out of s_conns_map.
LEMMA CloseErase_Inv ==
    ASSUME NEW w \in Workers, HandoffInv, CloseErase(w)
    PROVE  HandoffInv'
<1> USE DEF HandoffInv, TypeOK
<1>1. KernelOK' /\ ThreadsOK' /\ ConnOK'
  BY DEF CloseErase, kernelVars, connVars, KernelOK, ThreadsOK, ConnOK
<1>2. SharedOK'
  BY DEF CloseErase, Unmapped, Goto, SharedOK
<1>3. WorkerOK'
  BY DEF CloseErase, Goto, WorkerOK, WorkerPcs
<1>4. AtHand'
  BY DEF CloseErase, Goto, AtHand, ClosePcs
<1>5. ConnectLock'
  BY DEF CloseErase, Goto, ConnectLock, ConnectorPcs
<1>6. PipeBacked'
  BY DEF CloseErase, Goto, PipeBacked, Backed
<1> QED
  BY <1>1, <1>2, <1>3, <1>4, <1>5, <1>6

\* conn_internal_close closes the duplicate.
LEMMA CloseDup_Inv ==
    ASSUME NEW w \in Workers, HandoffInv, CloseDup(w)
    PROVE  HandoffInv'
<1> USE DEF HandoffInv, TypeOK
<1>1. ThreadsOK' /\ SharedOK' /\ ConnOK'
  BY DEF CloseDup, EventDeleted, sharedVars, ThreadsOK, SharedOK, ConnOK
<1>2. KernelOK'
  BY DEF CloseDup, Closed, DupClosed, Goto, KernelOK
<1>3. WorkerOK'
  BY DEF CloseDup, Goto, WorkerOK, WorkerPcs
<1>4. AtHand'
  BY DEF CloseDup, Goto, AtHand, ClosePcs
<1>5. ConnectLock'
  BY DEF CloseDup, Goto, sharedVars, ConnectLock, ConnectorPcs
<1>6. PipeBacked'
  BY DEF CloseDup, Goto, sharedVars, PipeBacked, Backed
<1> QED
  BY <1>1, <1>2, <1>3, <1>4, <1>5, <1>6

\* conn_internal_close closes the descriptor, and the connection is swept.
LEMMA CloseSfd_Inv ==
    ASSUME NEW w \in Workers, HandoffInv, CloseSfd(w)
    PROVE  HandoffInv'
<1> USE DEF HandoffInv, TypeOK
<1>1. ThreadsOK' /\ ConnOK'
  BY DEF CloseSfd, connVars, ThreadsOK, ConnOK
<1>2. KernelOK'
  BY DEF CloseSfd, Closed, SfdClosed, Goto, KernelOK
<1>3. SharedOK'
  <2>1. curr_conns' \in Int
    BY DEF CloseSfd, SharedOK
  <2>2. UNCHANGED <<s_last_thread_id, s_connect_conns, s_conns_map,
          new_connections, notify_pipe>>
    BY DEF CloseSfd, Goto
  <2> QED
    BY <2>1, <2>2 DEF SharedOK
<1>4. WorkerOK'
  BY DEF CloseSfd, ForDeleteWith, Goto, Leave, WorkerOK, WorkerPcs, AtHand,
     ClosePcs
<1>5. AtHand'
  BY DEF CloseSfd, Goto, Leave, AtHand, CreatePcs, ClosePcs, WorkerOK
<1>6. ConnectLock'
  BY DEF CloseSfd, Goto, Leave, ConnectLock, ConnectorPcs
<1>7. PipeBacked'
  BY DEF CloseSfd, Goto, Leave, PipeBacked, Backed
<1> QED
  BY <1>1, <1>2, <1>3, <1>4, <1>5, <1>6, <1>7

\* Objects past their grace period are deleted; the turn ends.
LEMMA Reap_Inv ==
    ASSUME NEW w \in Workers, HandoffInv, Reap(w)
    PROVE  HandoffInv'
<1> USE DEF HandoffInv, TypeOK
<1>1. KernelOK' /\ ThreadsOK' /\ SharedOK'
  BY DEF Reap, kernelVars, sharedVars, KernelOK, ThreadsOK, SharedOK
<1>2. ConnOK'
  BY DEF Reap, Goto, ConnOK
<1>3. WorkerOK'
  BY DEF Reap, Goto, WorkerOK, WorkerPcs, KernelOK
<1>4. AtHand'
  BY DEF Reap, Goto, AtHand, CreatePcs, ClosePcs
<1>5. ConnectLock'
  BY DEF Reap, Goto, sharedVars, ConnectLock, ConnectorPcs
<1>6. PipeBacked'
  BY DEF Reap, Goto, sharedVars, PipeBacked, Backed
<1> QED
  BY <1>1, <1>2, <1>3, <1>4, <1>5, <1>6

\* on_read finds the peer gone.
LEMMA OnReadEnd_Inv ==
    ASSUME NEW w \in Workers, NEW c \in Conns, HandoffInv, OnReadEnd(w, c)
    PROVE  HandoffInv'
<1> USE DEF HandoffInv, TypeOK
<1>1. KernelOK' /\ ThreadsOK' /\ SharedOK'
  BY DEF OnReadEnd, kernelVars, sharedVars, KernelOK, ThreadsOK, SharedOK
<1>2. AtHand' /\ ConnectLock'
  BY DEF OnReadEnd, sharedVars, AtHand, ConnectLock
<1>3. ConnOK'
  BY DEF OnReadEnd, ConnClose, ConnOK, ConnStates, KernelOK
<1>4. WorkerOK'
  BY DEF OnReadEnd, WorkerOK
<1>5. PipeBacked'
  BY DEF OnReadEnd, sharedVars, PipeBacked, Backed
<1> QED
  BY <1>1, <1>2, <1>3, <1>4, <1>5

\* The sweep meets an open or a closed connection.
LEMMA SweepVisit_Inv ==
    ASSUME NEW w \in Workers, NEW c \in Conns, HandoffInv, SweepVisit(w, c)
    PROVE  HandoffInv'
<1> USE DEF HandoffInv, TypeOK
<1>1. KernelOK' /\ ThreadsOK' /\ SharedOK' /\ ConnOK'
  BY DEF SweepVisit, kernelVars, sharedVars, connVars, KernelOK, ThreadsOK,
     SharedOK, ConnOK
<1>2. WorkerOK'
  <2>1. \/ pc' = [pc EXCEPT ![w] = "erase"] /\ cur' = [cur EXCEPT ![w] = c]
        \/ pc' = pc /\ cur' = cur
    BY DEF SweepVisit, Goto
  <2>2. todo' \in [Workers -> SUBSET (Conns \cup {Pipe})]
    BY DEF SweepVisit, WorkerOK
  <2>3. UNCHANGED <<target, now, thread_connections, for_delete_connections>>
    BY DEF SweepVisit
  <2> QED
    BY <2>1, <2>2, <2>3 DEF WorkerOK, WorkerPcs
<1>3. AtHand'
  BY DEF SweepVisit, Goto, AtHand, WorkerOK
<1>4. ConnectLock'
  BY ConnsAssumption DEF SweepVisit, Goto, kernelVars, sharedVars, connVars,
         ConnectLock, ConnectorPcs, WorkerOK, WorkerPcs, Pipe, SharedOK
<1>5. PipeBacked'
  BY DEF SweepVisit, Goto, sharedVars, PipeBacked, Backed, WorkerOK
<1> QED
  BY <1>1, <1>2, <1>3, <1>4, <1>5

-----------------------------------------------------------------------------
(* The invariant holds throughout *)

\* Before any thread has moved.
LEMMA Init_Inv == Init => HandoffInv
<1> SUFFICES ASSUME Init PROVE HandoffInv
  OBVIOUS
<1>1. KernelOK /\ ThreadsOK /\ SharedOK /\ ConnOK /\ WorkerOK
  BY ZeroWorker, TimeAssumption DEF Init, KernelOK, ThreadsOK, SharedOK,
     ConnOK, ConnStates, WorkerOK, WorkerPcs
<1>2. AtHand /\ ConnectLock
  BY DEF Init, AtHand, CreatePcs, ClosePcs, ConnectLock, ConnectorPcs
<1>3. PipeBacked
  BY DEF Init, PipeBacked, Backed
<1> QED
  BY <1>1, <1>2, <1>3 DEF HandoffInv, TypeOK

\* No step of any thread breaks the invariant.
LEMMA Next_Inv == HandoffInv /\ [Next]_vars => HandoffInv'
<1> SUFFICES ASSUME HandoffInv, [Next]_vars PROVE HandoffInv'
  OBVIOUS
<1>1. CASE AcceptStep
  BY <1>1, ListenReady_Inv, AcceptLoopEnds_Inv, GivePick_Inv, GivePush_Inv,
     GiveNotify_Inv, Accept_Inv, AcceptFcntlFails_Inv DEF AcceptStep
<1>2. CASE MainStep
  BY <1>2, ConnectSucceeds_Inv, ConnectFails_Inv, ConnectPush_Inv,
     ConnectSocket_Inv, MainClose_Inv DEF MainStep
<1>3. CASE PeerStep
  BY <1>3, Tick_Inv, PeerConnect_Inv, PeerDown_Inv DEF PeerStep
<1>4. ASSUME NEW w \in Workers, WorkerStep(w) PROVE HandoffInv'
  <2>1. CASE CreateStep(w)
    BY <2>1, CreateCheck_Inv, CreateDup_Inv, CreateRegister_Inv,
       CreateFails_Inv, NotifyReject_Inv DEF CreateStep
  <2>2. CASE CloseStep(w)
    BY <2>2, CloseErase_Inv, CloseDup_Inv, CloseSfd_Inv DEF CloseStep
  <2> QED
    BY <1>4, <2>1, <2>2, ConnectorLoop_Inv, ConnectorPick_Inv,
       ConnectorPush_Inv, ConnectorNotify_Inv, EpollWait_Inv, NotifyRead_Inv,
       EventsEnd_Inv, Reap_Inv, OnReadEnd_Inv, SweepVisit_Inv DEF WorkerStep
<1>5. CASE UNCHANGED vars
  <2>1. KernelOK' /\ ThreadsOK' /\ SharedOK' /\ ConnOK' /\ WorkerOK'
    BY <1>5 DEF HandoffInv, TypeOK, vars, kernelVars, sharedVars, connVars,
       workerVars, KernelOK, ThreadsOK, SharedOK, ConnOK, WorkerOK
  <2>2. AtHand' /\ ConnectLock' /\ PipeBacked'
    BY <1>5 DEF HandoffInv, vars, sharedVars, workerVars, AtHand, ConnectLock,
       PipeBacked, Backed
  <2> QED
    BY <2>1, <2>2 DEF HandoffInv, TypeOK
<1> QED
  BY <1>1, <1>2, <1>3, <1>4, <1>5 DEF Next

\* Every reachable state is well-typed: no thread works on a connection it
\* does not have, and no queue or table holds anything but connections.
THEOREM TypeCorrect == Spec => []TypeOK
<1>1. Spec => []HandoffInv
  BY Init_Inv, Next_Inv, PTL DEF Spec
<1>2. HandoffInv => TypeOK
  BY DEF HandoffInv
<1> QED
  BY <1>1, <1>2, PTL

\* thread_libevent_process never pops an empty queue, whatever the number of
\* threads, the order of their steps and the calls that fail.
THEOREM NotificationSafe == Spec => []NotifiedHasConn
<1>1. Spec => []HandoffInv
  BY Init_Inv, Next_Inv, PTL DEF Spec
<1>2. HandoffInv => NotifiedHasConn
  BY DEF HandoffInv, PipeBacked, Backed, NotifiedHasConn
<1> QED
  BY <1>1, <1>2, PTL
=============================================================================
