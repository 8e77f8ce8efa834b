------------------------ MODULE ConnOwnershipProofs ------------------------
(***************************************************************************)
(* Who may touch a connection of ConnLifecycle, what its connector is told *)
(* and how long its object and its descriptors last: for any number of     *)
(* threads, connections and descriptors.                                   *)
(***************************************************************************)
EXTENDS ConnLifecycleProofs, SequenceTheorems

-----------------------------------------------------------------------------
(* The invariant: where a connection is *)

Has(s, c) == \E i \in DOMAIN s : s[i] = c
Distinct(s) == \A i, j \in DOMAIN s : s[i] = s[j] => i = j

WithAcceptor(c) == acceptor.pc \in {"pick", "push"} /\ acceptor.conn = c
WithMain(c) == main.pc \in {"connect", "push"} /\ main.conn = c

\* Between push and notify the first of s_connect_conns is in a worker's
\* queue already.
HeadPushed == \E w \in Workers : pc[w] = "conn_notify"
Waiting(c) == IF HeadPushed THEN Has(Tail(s_connect_conns), c)
                            ELSE Has(s_connect_conns, c)

\* No worker has been given c.
Upstream(c) == \/ peer[c] = "idle" \/ c \in backlog
               \/ WithAcceptor(c) \/ WithMain(c) \/ Waiting(c)

Making(w, c) == pc[w] \in CreatePcs /\ cur[w] = c
Serving(w, c) == c \in thread_connections[w]
Claims(w, c) == QueuedFor(w, c) \/ Making(w, c) \/ Serving(w, c)

\* c has not been registered yet.
Unserved(c) ==
    Upstream(c) \/ \E w \in Workers : QueuedFor(w, c) \/ Making(w, c)

\* The ways in: a peer's connections come through backlog and accept thread,
\* the process's own through net_connect and s_connect_conns, each once.
Arrival ==
    \A c \in Conns :
        /\ c \in backlog \/ WithAcceptor(c) => c \notin Connectors
        /\ WithMain(c) \/ Has(s_connect_conns, c) => c \in Connectors
        /\ c \in backlog \/ WithAcceptor(c) => peer[c] # "idle"
        /\ Has(s_connect_conns, c) => peer[c] # "idle"
        /\ c \in backlog => ~WithAcceptor(c)
        /\ WithMain(c) => ~Has(s_connect_conns, c)
        /\ WithMain(c) => (main.pc = "connect" <=> peer[c] = "idle")

\* One claim at a time: by one worker, in one place, and none before a worker
\* has been given the connection.
OneClaim ==
    /\ Distinct(s_connect_conns)
    /\ \A w \in Workers : Distinct(new_connections[w])
    /\ \A c \in Conns, w \in Workers : Upstream(c) => ~Claims(w, c)
    /\ \A c \in Conns, v, w \in Workers : Claims(v, c) /\ Claims(w, c) => v = w
    /\ \A c \in Conns, w \in Workers :
          /\ ~(QueuedFor(w, c) /\ Making(w, c))
          /\ ~(QueuedFor(w, c) /\ Serving(w, c))
          /\ ~(Making(w, c) /\ Serving(w, c))

\* A worker's events and its sweep are about connections it serves.
TodoServed ==
    \A w \in Workers :
       /\ \A c \in todo[w] \ {Pipe} : Serving(w, c)
       /\ pc[w] \in ClosePcs => /\ Serving(w, cur[w])
                                /\ cur[w] \notin todo[w]
                                /\ state[cur[w]] = "CLOSE"

OwnInv == Arrival /\ OneClaim /\ TodoServed

\* A step never makes a connection new again.
Forward == \A c \in Conns : Unserved(c)' => Unserved(c)

-----------------------------------------------------------------------------
(* Queues *)

\* push_back on a queue of distinct connections.
LEMMA AppendHas ==
    ASSUME NEW s \in Seq(Conns), NEW e \in Conns
    PROVE  /\ \A c : Has(Append(s, e), c) <=> Has(s, c) \/ c = e
           /\ Distinct(s) /\ ~Has(s, e) => Distinct(Append(s, e))
<1>1. /\ Len(Append(s, e)) = Len(s) + 1
      /\ \A i \in 1 .. Len(s) : Append(s, e)[i] = s[i]
      /\ Append(s, e)[Len(s) + 1] = e
      /\ DOMAIN Append(s, e) = 1 .. Len(s) + 1
      /\ DOMAIN s = 1 .. Len(s)
      /\ Len(s) \in Nat
  BY AppendProperties, LenProperties
<1> QED
  BY <1>1 DEF Has, Distinct

\* pop_front of such a queue.
LEMMA TailHas ==
    ASSUME NEW s \in Seq(Conns), s # <<>>
    PROVE  /\ \A c : Has(s, c) <=> Has(Tail(s), c) \/ c = Head(s)
           /\ Distinct(s) => Distinct(Tail(s)) /\ ~Has(Tail(s), Head(s))
<1>1. /\ Len(Tail(s)) = Len(s) - 1
      /\ \A i \in 1 .. Len(s) - 1 : Tail(s)[i] = s[i + 1]
      /\ DOMAIN Tail(s) = 1 .. Len(s) - 1
      /\ DOMAIN s = 1 .. Len(s)
      /\ Len(s) \in Nat \ {0}
      /\ Head(s) = s[1]
  BY HeadTailProperties, LenProperties, EmptySeq
<1>2. ASSUME NEW c, Has(s, c) PROVE Has(Tail(s), c) \/ c = Head(s)
  <2>1. PICK i \in 1 .. Len(s) : s[i] = c
    BY <1>1, <1>2 DEF Has
  <2>2. CASE i # 1
    <3>1. i - 1 \in 1 .. Len(s) - 1 /\ Tail(s)[i - 1] = c
      BY <1>1, <2>1, <2>2
    <3> QED
      BY <1>1, <3>1 DEF Has
  <2> QED
    BY <1>1, <2>1, <2>2
<1>3. ASSUME NEW c, Has(Tail(s), c) \/ c = Head(s) PROVE Has(s, c)
  BY <1>1, <1>3 DEF Has
<1>4. ASSUME Distinct(s) PROVE Distinct(Tail(s)) /\ ~Has(Tail(s), Head(s))
  BY <1>1, <1>4 DEF Has, Distinct
<1> QED
  BY <1>2, <1>3, <1>4

-----------------------------------------------------------------------------
(* How claims change *)

\* Nobody gains a claim.
LEMMA ClaimsKept ==
    ASSUME OneClaim,
           Distinct(s_connect_conns'),
           \A w \in Workers : Distinct(new_connections'[w]),
           \A c \in Conns : Upstream(c)' => Upstream(c),
           \A c \in Conns, w \in Workers :
               /\ QueuedFor(w, c)' => QueuedFor(w, c)
               /\ Making(w, c)' => Making(w, c)
               /\ Serving(w, c)' => Serving(w, c)
    PROVE  OneClaim' /\ Forward
<1>1. \A c \in Conns, w \in Workers : Claims(w, c)' => Claims(w, c)
  BY DEF Claims
<1>2. \A c \in Conns, w \in Workers : Upstream(c)' => ~Claims(w, c)'
  BY <1>1 DEF OneClaim
<1>3. \A c \in Conns, v, w \in Workers :
          Claims(v, c)' /\ Claims(w, c)' => v = w
  BY <1>1 DEF OneClaim
<1>4. \A c \in Conns, w \in Workers :
          /\ ~(QueuedFor(w, c) /\ Making(w, c))'
          /\ ~(QueuedFor(w, c) /\ Serving(w, c))'
          /\ ~(Making(w, c) /\ Serving(w, c))'
  BY DEF OneClaim
<1>5. Forward
  BY DEF Forward, Unserved
<1> QED
  BY <1>2, <1>3, <1>4, <1>5 DEF OneClaim

\* Worker w gains its only claim on d, which was its own or nobody's.
LEMMA ClaimMoves ==
    ASSUME OneClaim, NEW d \in Conns, NEW w \in Workers,
           Distinct(s_connect_conns'),
           \A v \in Workers : Distinct(new_connections'[v]),
           \A c \in Conns : Upstream(c)' => Upstream(c),
           ~Upstream(d)',
           Upstream(d) \/ QueuedFor(w, d) \/ Making(w, d),
           \A c \in Conns, v \in Workers : c # d \/ v # w =>
               /\ QueuedFor(v, c)' => QueuedFor(v, c)
               /\ Making(v, c)' => Making(v, c)
               /\ Serving(v, c)' => Serving(v, c),
           ~(QueuedFor(w, d) /\ Making(w, d))',
           ~(QueuedFor(w, d) /\ Serving(w, d))',
           ~(Making(w, d) /\ Serving(w, d))'
    PROVE  OneClaim' /\ Forward
<1>1. \A c \in Conns, v \in Workers :
          c # d \/ v # w => (Claims(v, c)' => Claims(v, c))
  BY DEF Claims
<1>2. \A v \in Workers : v # w => ~Claims(v, d)'
  BY <1>1 DEF OneClaim, Claims
<1>3. \A c \in Conns, v \in Workers : Upstream(c)' => ~Claims(v, c)'
  BY <1>1 DEF OneClaim
<1>4. \A c \in Conns, u, v \in Workers :
          Claims(u, c)' /\ Claims(v, c)' => u = v
  BY <1>1, <1>2 DEF OneClaim
<1>5. \A c \in Conns, v \in Workers :
          /\ ~(QueuedFor(v, c) /\ Making(v, c))'
          /\ ~(QueuedFor(v, c) /\ Serving(v, c))'
          /\ ~(Making(v, c) /\ Serving(v, c))'
  BY DEF OneClaim
<1>6. Forward
  BY DEF Forward, Unserved
<1> QED
  BY <1>3, <1>4, <1>5, <1>6 DEF OneClaim

\* A step of a worker outside its connector loop that takes nothing new on.
LEMMA WorkerKeeps ==
    ASSUME Arrival, OneClaim, NEW w \in Workers, NEW p,
           pc \in [Workers -> WorkerPcs],
           pc' = [pc EXCEPT ![w] = p],
           pc[w] # "conn_notify", p # "conn_notify",
           p \in CreatePcs => pc[w] \in CreatePcs /\ cur'[w] = cur[w],
           \A v \in Workers : v # w => cur'[v] = cur[v],
           \A v \in Workers : thread_connections'[v] \subseteq thread_connections[v],
           UNCHANGED <<peer, backlog, acceptor, main, s_connect_conns,
                       new_connections>>
    PROVE  Arrival' /\ OneClaim' /\ Forward
<1>1. Arrival'
  BY DEF Arrival, WithAcceptor, WithMain
<1>2. HeadPushed' <=> HeadPushed
  BY DEF HeadPushed
<1>3. \A c \in Conns : Upstream(c)' => Upstream(c)
  BY <1>2 DEF Upstream, WithAcceptor, WithMain, Waiting
<1>4. \A c \in Conns, v \in Workers :
          /\ QueuedFor(v, c)' => QueuedFor(v, c)
          /\ Making(v, c)' => Making(v, c)
          /\ Serving(v, c)' => Serving(v, c)
  BY DEF QueuedFor, Making, Serving
<1>5. Distinct(s_connect_conns') /\ \A v \in Workers : Distinct(new_connections'[v])
  BY DEF OneClaim
<1>6. OneClaim' /\ Forward
  BY ONLY OneClaim, <1>3, <1>4, <1>5, ClaimsKept
<1> QED
  BY <1>1, <1>6

\* A step of another thread that leaves queues and workers alone.
LEMMA OthersKeep ==
    ASSUME OneClaim, \A c \in Conns : Upstream(c)' => Upstream(c),
           Distinct(s_connect_conns'),
           UNCHANGED <<new_connections, pc, cur, thread_connections>>
    PROVE  OneClaim' /\ Forward
<1>1. \A c \in Conns, v \in Workers :
          /\ QueuedFor(v, c)' => QueuedFor(v, c)
          /\ Making(v, c)' => Making(v, c)
          /\ Serving(v, c)' => Serving(v, c)
  BY DEF QueuedFor, Making, Serving
<1>2. \A v \in Workers : Distinct(new_connections'[v])
  BY DEF OneClaim
<1> QED
  BY ONLY OneClaim, \A c \in Conns : Upstream(c)' => Upstream(c),
          Distinct(s_connect_conns'), <1>1, <1>2, ClaimsKept

-----------------------------------------------------------------------------
(* No step takes a connection away from its owner *)

\* The kernel and the accept thread.
LEMMA AcceptOwn == ASSUME HandoffInv, OwnInv, AcceptStep PROVE OwnInv' /\ Forward
<1> USE DEF OwnInv
<1>1. ASSUME NEW c \in Conns, Accept(c) PROVE OwnInv' /\ Forward
  <2>1. /\ acceptor' = [acceptor EXCEPT !.pc = "pick", !.conn = c]
        /\ acceptor.pc = "accept"
        /\ backlog' = backlog \ {c} /\ c \in backlog
        /\ UNCHANGED <<peer, main, s_connect_conns, new_connections, pc, cur,
                       todo, state, thread_connections>>
    BY <1>1 DEF Accept, sharedVars, workerVars
  <2>2. acceptor'.pc = "pick" /\ acceptor'.conn = c
    BY <2>1 DEF HandoffInv, TypeOK, ThreadsOK
  <2>3. Arrival'
    BY <2>1, <2>2 DEF Arrival, WithAcceptor, WithMain
  <2>4. \A d \in Conns : Upstream(d)' => Upstream(d)
    BY <2>1, <2>2 DEF Upstream, WithAcceptor, WithMain, Waiting, HeadPushed
  <2>5. OneClaim' /\ Forward
    BY <2>1, <2>4, OthersKeep DEF OneClaim
  <2> QED
    BY <2>1, <2>3, <2>5 DEF TodoServed, Serving
<1>2. CASE GivePush
  <2>0. PICK d \in Conns, w \in Workers :
          d = acceptor.conn /\ w = acceptor.target
    BY <1>2 DEF GivePush, HandoffInv, AtHand, TypeOK, ThreadsOK
  <2>1. /\ acceptor.pc = "push"
        /\ acceptor' = [acceptor EXCEPT !.pc = "notify"]
        /\ new_connections' = [new_connections EXCEPT ![w] = Append(@, d)]
        /\ new_connections \in [Workers -> Seq(Conns)]
        /\ UNCHANGED <<peer, backlog, main, s_connect_conns, pc, cur, todo,
                       state, thread_connections>>
    BY <1>2, <2>0 DEF GivePush, HandoffInv, TypeOK, SharedOK, kernelVars,
       connVars, workerVars
  <2>2. acceptor'.pc = "notify"
    BY <2>1 DEF HandoffInv, TypeOK, ThreadsOK
  <2>3. WithAcceptor(d) /\ Upstream(d)
    BY <2>0, <2>1 DEF WithAcceptor, Upstream
  <2>4. Arrival'
    BY <2>1, <2>2 DEF Arrival, WithAcceptor, WithMain
  <2>5. \A c \in Conns : Upstream(c)' => Upstream(c)
    BY <2>1, <2>2 DEF Upstream, WithAcceptor, WithMain, Waiting, HeadPushed
  <2>6. ~Upstream(d)'
    <3>1. /\ peer[d] # "idle" /\ d \notin backlog /\ d \notin Connectors
          /\ ~WithMain(d) /\ ~Has(s_connect_conns, d)
      BY <2>1, <2>3 DEF Arrival
    <3>2. ~Waiting(d)
      BY <2>1, <3>1, TailHas
      DEF Waiting, HeadPushed, HandoffInv, ConnectLock, ConnectorPcs, TypeOK, SharedOK
    <3> QED
      BY <2>1, <2>2, <3>1, <3>2
      DEF Upstream, WithAcceptor, WithMain, Waiting, HeadPushed
  <2>7. /\ \A c \in Conns : Has(new_connections'[w], c)
                              <=> Has(new_connections[w], c) \/ c = d
        /\ Distinct(new_connections'[w])
    <3>1. ~Has(new_connections[w], d)
      BY <2>1, <2>3 DEF OneClaim, Claims, QueuedFor, Has
    <3>2. new_connections'[w] = Append(new_connections[w], d)
      BY <2>1
    <3> QED
      BY <2>1, <3>1, <3>2, AppendHas DEF OneClaim
  <2>8. \A v \in Workers : v # w => new_connections'[v] = new_connections[v]
    BY <2>1
  <2>9. \A c \in Conns, v \in Workers :
            /\ c # d \/ v # w => (QueuedFor(v, c)' => QueuedFor(v, c))
            /\ Making(v, c)' <=> Making(v, c)
            /\ Serving(v, c)' <=> Serving(v, c)
    BY <2>1, <2>7, <2>8 DEF QueuedFor, Has, Making, Serving
  <2>10. ~Making(w, d) /\ ~Serving(w, d)
    BY <2>1, <2>3 DEF OneClaim, Claims
  <2>11. /\ Distinct(s_connect_conns')
         /\ \A v \in Workers : Distinct(new_connections'[v])
    BY <2>1, <2>7, <2>8 DEF OneClaim
  <2>12. OneClaim' /\ Forward
    BY <2>1, <2>3, <2>5, <2>6, <2>9, <2>10, <2>11, ClaimMoves
  <2> QED
    BY <2>1, <2>4, <2>12 DEF TodoServed, Serving
<1>3. ASSUME NEW c \in Conns, AcceptFcntlFails(c) PROVE OwnInv' /\ Forward
  <2>1. /\ backlog' = backlog \ {c}
        /\ UNCHANGED <<peer, acceptor, main, s_connect_conns, new_connections,
                       pc, cur, todo, state, thread_connections>>
    BY <1>3 DEF AcceptFcntlFails, sharedVars, connVars, workerVars
  <2>2. Arrival'
    BY <2>1 DEF Arrival, WithAcceptor, WithMain
  <2>3. \A d \in Conns : Upstream(d)' => Upstream(d)
    BY <2>1 DEF Upstream, WithAcceptor, WithMain, Waiting, HeadPushed
  <2>4. OneClaim' /\ Forward
    BY <2>1, <2>3, OthersKeep DEF OneClaim
  <2> QED
    BY <2>1, <2>2, <2>4 DEF TodoServed, Serving
<1>4. CASE ListenReady \/ AcceptLoopEnds \/ GivePick \/ GiveNotify
  <2>1. /\ acceptor'.pc \in {"pick", "push"} =>
             acceptor.pc = "pick" /\ acceptor'.conn = acceptor.conn
        /\ UNCHANGED <<peer, backlog, main, s_connect_conns, new_connections,
                       pc, cur, todo, state, thread_connections>>
    BY <1>4 DEF ListenReady, AcceptLoopEnds, GivePick, GiveNotify, kernelVars,
       sharedVars, connVars, workerVars, HandoffInv, TypeOK, ThreadsOK
  <2>2. \A c \in Conns : WithAcceptor(c)' => WithAcceptor(c)
    BY <2>1 DEF WithAcceptor
  <2>3. Arrival'
    BY <2>1, <2>2 DEF Arrival, WithMain
  <2>4. \A c \in Conns : Upstream(c)' => Upstream(c)
    BY <2>1, <2>2 DEF Upstream, WithMain, Waiting, HeadPushed
  <2>5. OneClaim' /\ Forward
    BY <2>1, <2>4, OthersKeep DEF OneClaim
  <2> QED
    BY <2>1, <2>3, <2>5 DEF TodoServed, Serving
<1> QED
  BY <1>1, <1>2, <1>3, <1>4 DEF AcceptStep

\* The main thread: net_connect, conn_close.
LEMMA MainOwn == ASSUME HandoffInv, OwnInv, MainStep PROVE OwnInv' /\ Forward
<1> USE DEF OwnInv
<1>1. ASSUME NEW c \in Conns, ConnectSocket(c) PROVE OwnInv' /\ Forward
  <2>1. /\ main.pc = "idle" /\ c \in Connectors /\ peer[c] = "idle"
        /\ main' = [pc |-> "connect", conn |-> c]
        /\ UNCHANGED <<peer, backlog, acceptor, s_connect_conns,
                       new_connections, pc, cur, todo, state,
                       thread_connections>>
    BY <1>1 DEF ConnectSocket, sharedVars, workerVars
  <2>2. Arrival'
    BY <2>1 DEF Arrival, WithAcceptor, WithMain
  <2>3. \A d \in Conns : Upstream(d)' => Upstream(d)
    BY <2>1 DEF Upstream, WithAcceptor, WithMain, Waiting, HeadPushed
  <2>4. OneClaim' /\ Forward
    BY <2>1, <2>3, OthersKeep DEF OneClaim
  <2> QED
    BY <2>1, <2>2, <2>4 DEF TodoServed, Serving
<1>2. CASE ConnectSucceeds
  <2>1. /\ main.pc = "connect" /\ main.conn \in Conns
        /\ main' = [main EXCEPT !.pc = "push"]
        /\ peer' = [peer EXCEPT ![main.conn] = "connected"]
        /\ peer \in [Conns -> {"idle", "connected", "down"}]
        /\ UNCHANGED <<backlog, acceptor, s_connect_conns, new_connections,
                       pc, cur, todo, state, thread_connections>>
    BY <1>2 DEF ConnectSucceeds, sharedVars, workerVars, HandoffInv, AtHand,
       TypeOK, KernelOK
  <2>2. main'.pc = "push" /\ main'.conn = main.conn
    BY <2>1 DEF HandoffInv, TypeOK, ThreadsOK
  <2>3. Arrival'
    BY <2>1, <2>2 DEF Arrival, WithAcceptor, WithMain
  <2>4. \A d \in Conns : Upstream(d)' => Upstream(d)
    BY <2>1, <2>2 DEF Upstream, WithAcceptor, WithMain, Waiting, HeadPushed
  <2>5. OneClaim' /\ Forward
    BY <2>1, <2>4, OthersKeep DEF OneClaim
  <2> QED
    BY <2>1, <2>3, <2>5 DEF TodoServed, Serving
<1>3. CASE ConnectFails
  <2>1. /\ main' = [pc |-> "idle", conn |-> NoConn]
        /\ UNCHANGED <<peer, backlog, acceptor, s_connect_conns,
                       new_connections, pc, cur, todo, state,
                       thread_connections>>
    BY <1>3 DEF ConnectFails, sharedVars, workerVars
  <2>2. Arrival'
    BY <2>1 DEF Arrival, WithAcceptor, WithMain
  <2>3. \A d \in Conns : Upstream(d)' => Upstream(d)
    BY <2>1 DEF Upstream, WithAcceptor, WithMain, Waiting, HeadPushed
  <2>4. OneClaim' /\ Forward
    BY <2>1, <2>3, OthersKeep DEF OneClaim
  <2> QED
    BY <2>1, <2>2, <2>4 DEF TodoServed, Serving
<1>4. CASE ConnectPush
  <2>0. PICK d \in Conns : d = main.conn
    BY <1>4 DEF ConnectPush, HandoffInv, AtHand
  <2>1. /\ main.pc = "push" /\ ~HeadPushed
        /\ main' = [pc |-> "idle", conn |-> NoConn]
        /\ s_connect_conns' = Append(s_connect_conns, d)
        /\ s_connect_conns \in Seq(Conns)
        /\ UNCHANGED <<peer, backlog, acceptor, new_connections, pc, cur, todo,
                       state, thread_connections>>
    BY <1>4, <2>0 DEF ConnectPush, ConnectLockFree, HeadPushed, kernelVars,
       connVars, workerVars, HandoffInv, TypeOK, SharedOK
  <2>2. WithMain(d) /\ ~Has(s_connect_conns, d) /\ d \in Connectors
        /\ peer[d] # "idle"
    BY <2>0, <2>1 DEF Arrival, WithMain
  <2>3. /\ \A c : Has(s_connect_conns', c) <=> Has(s_connect_conns, c) \/ c = d
        /\ Distinct(s_connect_conns')
    BY <2>1, <2>2, AppendHas DEF OneClaim
  <2>4. Arrival'
    BY <2>1, <2>2, <2>3 DEF Arrival, WithAcceptor, WithMain
  <2>5. ~HeadPushed'
    BY <2>1 DEF HeadPushed
  <2>6. \A c \in Conns : Upstream(c)' => Upstream(c)
    BY <2>1, <2>2, <2>3, <2>5 DEF Upstream, WithAcceptor, WithMain, Waiting
  <2>7. OneClaim' /\ Forward
    BY <2>1, <2>3, <2>6, OthersKeep
  <2> QED
    BY <2>1, <2>4, <2>7 DEF TodoServed, Serving
<1>5. ASSUME NEW c \in Conns, MainClose(c) PROVE OwnInv' /\ Forward
  <2>1. /\ state' = [state EXCEPT ![c] = "CLOSE"]
        /\ state \in [Conns -> ConnStates]
        /\ UNCHANGED <<peer, backlog, acceptor, main, s_connect_conns,
                       new_connections, pc, cur, todo, thread_connections>>
    BY <1>5 DEF MainClose, ConnClose, kernelVars, sharedVars, workerVars,
       HandoffInv, TypeOK, ConnOK
  <2>2. Arrival'
    BY <2>1 DEF Arrival, WithAcceptor, WithMain
  <2>3. \A d \in Conns : Upstream(d)' => Upstream(d)
    BY <2>1 DEF Upstream, WithAcceptor, WithMain, Waiting, HeadPushed
  <2>4. OneClaim' /\ Forward
    BY <2>1, <2>3, OthersKeep DEF OneClaim
  <2>5. TodoServed'
    BY <2>1 DEF TodoServed, Serving, HandoffInv, AtHand
  <2> QED
    BY <2>2, <2>4, <2>5
<1> QED
  BY <1>1, <1>2, <1>3, <1>4, <1>5 DEF MainStep

\* Peers connect and go; time passes.
LEMMA PeerOwn == ASSUME HandoffInv, OwnInv, PeerStep PROVE OwnInv' /\ Forward
<1> USE DEF OwnInv
<1>1. ASSUME NEW c \in Conns, PeerConnect(c) PROVE OwnInv' /\ Forward
  <2>1. /\ c \notin Connectors /\ peer[c] = "idle"
        /\ peer' = [peer EXCEPT ![c] = "connected"]
        /\ peer \in [Conns -> {"idle", "connected", "down"}]
        /\ backlog' = backlog \cup {c}
        /\ UNCHANGED <<acceptor, main, s_connect_conns, new_connections, pc,
                       cur, todo, state, thread_connections>>
    BY <1>1 DEF PeerConnect, sharedVars, connVars, workerVars, HandoffInv,
       TypeOK, KernelOK
  <2>2. Arrival'
    BY <2>1 DEF Arrival, WithAcceptor, WithMain
  <2>3. \A d \in Conns : Upstream(d)' => Upstream(d)
    BY <2>1 DEF Upstream, WithAcceptor, WithMain, Waiting, HeadPushed
  <2>4. OneClaim' /\ Forward
    BY <2>1, <2>3, OthersKeep DEF OneClaim
  <2> QED
    BY <2>1, <2>2, <2>4 DEF TodoServed, Serving
<1>2. ASSUME NEW c \in Conns, PeerDown(c) PROVE OwnInv' /\ Forward
  <2>1. /\ peer[c] = "connected"
        /\ peer' = [peer EXCEPT ![c] = "down"]
        /\ peer \in [Conns -> {"idle", "connected", "down"}]
        /\ UNCHANGED <<backlog, acceptor, main, s_connect_conns,
                       new_connections, pc, cur, todo, state,
                       thread_connections>>
    BY <1>2 DEF PeerDown, sharedVars, connVars, workerVars, HandoffInv,
       TypeOK, KernelOK
  <2>2. Arrival'
    BY <2>1 DEF Arrival, WithAcceptor, WithMain
  <2>3. \A d \in Conns : Upstream(d)' => Upstream(d)
    BY <2>1 DEF Upstream, WithAcceptor, WithMain, Waiting, HeadPushed
  <2>4. OneClaim' /\ Forward
    BY <2>1, <2>3, OthersKeep DEF OneClaim
  <2> QED
    BY <2>1, <2>2, <2>4 DEF TodoServed, Serving
<1>3. CASE Tick
  <2>1. UNCHANGED <<peer, backlog, acceptor, main, s_connect_conns,
                    new_connections, pc, cur, todo, state, thread_connections>>
    BY <1>3 DEF Tick, sharedVars, connVars, workerVars
  <2>2. Arrival'
    BY <2>1 DEF Arrival, WithAcceptor, WithMain
  <2>3. \A d \in Conns : Upstream(d)' => Upstream(d)
    BY <2>1 DEF Upstream, WithAcceptor, WithMain, Waiting, HeadPushed
  <2>4. OneClaim' /\ Forward
    BY <2>1, <2>3, OthersKeep DEF OneClaim
  <2> QED
    BY <2>1, <2>2, <2>4 DEF TodoServed, Serving
<1> QED
  BY <1>1, <1>2, <1>3 DEF PeerStep

\* The worker in its connector loop.
LEMMA ConnectorOwn ==
    ASSUME HandoffInv, OwnInv, NEW w \in Workers,
           ConnectorLoop(w) \/ ConnectorPick(w) \/ ConnectorPush(w)
           \/ ConnectorNotify(w)
    PROVE  OwnInv' /\ Forward
<1> USE DEF OwnInv
<1>1. /\ pc \in [Workers -> WorkerPcs]
      /\ UNCHANGED <<peer, backlog, acceptor, main, cur, todo, state,
                     thread_connections>>
  BY DEF ConnectorLoop, ConnectorPick, ConnectorPush, ConnectorNotify,
     kernelVars, connVars, HandoffInv, TypeOK, WorkerOK
<1>2. TodoServed'
  BY <1>1 DEF ConnectorLoop, ConnectorPick, ConnectorPush, ConnectorNotify,
     Goto, TodoServed, Serving, ClosePcs
<1>3. CASE ConnectorLoop(w) \/ ConnectorPick(w)
  <2>1. PICK p \in {"epoll", "conn_pick", "conn_push"} :
          /\ pc' = [pc EXCEPT ![w] = p]
          /\ pc[w] # "conn_notify"
          /\ UNCHANGED <<s_connect_conns, new_connections>>
    BY <1>3 DEF ConnectorLoop, ConnectorPick, Goto, sharedVars
  <2>2. Arrival' /\ OneClaim' /\ Forward
    BY <1>1, <2>1, WorkerKeeps DEF CreatePcs
  <2> QED
    BY <1>2, <2>2
<1>4. CASE ConnectorPush(w)
  <2>0. PICK d \in Conns, t \in Workers :
          d = Head(s_connect_conns) /\ t = target[w]
    <3>1. s_connect_conns # <<>> /\ s_connect_conns \in Seq(Conns)
      BY <1>4 DEF ConnectorPush, HandoffInv, ConnectLock, ConnectorPcs, TypeOK,
         SharedOK
    <3>2. target[w] \in Workers
      BY DEF HandoffInv, TypeOK, WorkerOK
    <3> QED
      BY <3>1, <3>2, HeadTailProperties
  <2>1. /\ pc[w] = "conn_push" /\ s_connect_conns # <<>>
        /\ s_connect_conns \in Seq(Conns)
        /\ pc' = [pc EXCEPT ![w] = "conn_notify"]
        /\ new_connections' = [new_connections EXCEPT ![t] = Append(@, d)]
        /\ new_connections \in [Workers -> Seq(Conns)]
        /\ s_connect_conns' = s_connect_conns
    BY <1>4, <2>0 DEF ConnectorPush, Goto, HandoffInv, ConnectLock,
       ConnectorPcs, TypeOK, SharedOK
  <2>3. ~HeadPushed
    BY <1>1, <2>1 DEF HeadPushed, HandoffInv, ConnectLock, ConnectorPcs
  <2>4. HeadPushed'
    BY <1>1, <2>1 DEF HeadPushed
  <2>5. /\ \A c : Has(s_connect_conns, c)
                    <=> Has(Tail(s_connect_conns), c) \/ c = d
        /\ ~Has(Tail(s_connect_conns), d)
    BY <2>0, <2>1, TailHas DEF OneClaim
  <2>6. Upstream(d)
    BY <2>3, <2>5 DEF Upstream, Waiting
  <2>7. Arrival'
    BY <1>1, <2>1 DEF Arrival, WithAcceptor, WithMain
  <2>8. \A c \in Conns : Upstream(c)' => Upstream(c)
    BY <1>1, <2>1, <2>3, <2>4, <2>5 DEF Upstream, WithAcceptor, WithMain, Waiting
  <2>9. ~Upstream(d)'
    <3>1. /\ d \in Connectors /\ peer[d] # "idle" /\ ~WithMain(d)
          /\ d \notin backlog /\ ~WithAcceptor(d)
      BY <2>5 DEF Arrival
    <3> QED
      BY <1>1, <2>1, <2>4, <2>5, <3>1 DEF Upstream, WithAcceptor, WithMain, Waiting
  <2>10. /\ \A c \in Conns : Has(new_connections'[t], c)
                               <=> Has(new_connections[t], c) \/ c = d
         /\ Distinct(new_connections'[t])
    <3>1. ~Has(new_connections[t], d)
      BY <2>1, <2>6 DEF OneClaim, Claims, QueuedFor, Has
    <3>2. new_connections'[t] = Append(new_connections[t], d)
      BY <2>1
    <3> QED
      BY <2>1, <3>1, <3>2, AppendHas DEF OneClaim
  <2>11. \A v \in Workers : v # t => new_connections'[v] = new_connections[v]
    BY <2>1
  <2>12. \A c \in Conns, v \in Workers :
            /\ c # d \/ v # t => (QueuedFor(v, c)' => QueuedFor(v, c))
            /\ Making(v, c)' <=> Making(v, c)
            /\ Serving(v, c)' <=> Serving(v, c)
    BY <1>1, <2>1, <2>10, <2>11 DEF QueuedFor, Has, Making, CreatePcs, Serving
  <2>13. ~Making(t, d) /\ ~Serving(t, d)
    BY <2>1, <2>6 DEF OneClaim, Claims
  <2>14. /\ Distinct(s_connect_conns')
         /\ \A v \in Workers : Distinct(new_connections'[v])
    BY <2>1, <2>10, <2>11 DEF OneClaim
  <2>15. OneClaim' /\ Forward
    BY <2>1, <2>6, <2>8, <2>9, <2>12, <2>13, <2>14, ClaimMoves
  <2> QED
    BY <1>2, <2>7, <2>15
<1>5. CASE ConnectorNotify(w)
  <2>1. PICK p \in {"epoll", "conn_pick"} : pc' = [pc EXCEPT ![w] = p]
    BY <1>5 DEF ConnectorNotify, Goto
  <2>2. /\ pc[w] = "conn_notify" /\ s_connect_conns # <<>>
        /\ s_connect_conns \in Seq(Conns)
        /\ s_connect_conns' = Tail(s_connect_conns)
        /\ new_connections' = new_connections
    BY <1>5 DEF ConnectorNotify, OtherConnectors, HandoffInv, ConnectLock,
       ConnectorPcs, TypeOK, SharedOK
  <2>3. HeadPushed
    BY <2>2 DEF HeadPushed
  <2>4. ~HeadPushed'
    BY <1>1, <2>1, <2>2 DEF HeadPushed, HandoffInv, ConnectLock, ConnectorPcs
  <2>5. /\ \A c : Has(s_connect_conns', c) => Has(s_connect_conns, c)
        /\ Distinct(s_connect_conns')
    BY <2>2, TailHas DEF OneClaim
  <2>6. Arrival'
    BY <1>1, <2>5 DEF Arrival, WithAcceptor, WithMain
  <2>7. \A c \in Conns : Upstream(c)' => Upstream(c)
    BY <1>1, <2>2, <2>3, <2>4 DEF Upstream, WithAcceptor, WithMain, Waiting
  <2>8. \A c \in Conns, v \in Workers :
            /\ QueuedFor(v, c)' => QueuedFor(v, c)
            /\ Making(v, c)' => Making(v, c)
            /\ Serving(v, c)' => Serving(v, c)
    BY <1>1, <2>1, <2>2 DEF QueuedFor, Making, CreatePcs, Serving
  <2>9. \A v \in Workers : Distinct(new_connections'[v])
    BY <2>2 DEF OneClaim
  <2>10. OneClaim' /\ Forward
    BY <2>5, <2>7, <2>8, <2>9, ClaimsKept
  <2> QED
    BY <1>2, <2>6, <2>10
<1> QED
  BY <1>3, <1>4, <1>5

\* The worker at its events: a connection is taken on and registered.
LEMMA CreateOwn ==
    ASSUME HandoffInv, OwnInv, NEW w \in Workers,
           NotifyRead(w) \/ CreateStep(w)
    PROVE  OwnInv' /\ Forward
<1> USE DEF OwnInv
<1>1. /\ pc \in [Workers -> WorkerPcs] /\ cur \in [Workers -> Conns \cup {NoConn}]
      /\ thread_connections \in [Workers -> SUBSET Conns]
      /\ todo \in [Workers -> SUBSET (Conns \cup {Pipe})]
      /\ state \in [Conns -> ConnStates]
      /\ new_connections \in [Workers -> Seq(Conns)]
      /\ Pipe \notin Conns
  BY ConnsAssumption DEF HandoffInv, TypeOK, WorkerOK, ConnOK, SharedOK, Pipe
<1>2. /\ UNCHANGED <<peer, backlog, acceptor, main, s_connect_conns>>
      /\ pc[w] \in {"events", "check", "dup", "add", "reject"}
  BY DEF NotifyRead, CreateStep, CreateCheck, CreateDup, CreateRegister,
     CreateFails, NotifyReject, kernelVars, sharedVars
<1>3. CASE NotifyRead(w)
  <2>0. PICK d \in Conns : d = Head(new_connections[w])
    BY <1>3, NotifyReadPops
  <2>1. /\ pc[w] = "events" /\ pc' = [pc EXCEPT ![w] = "check"]
        /\ cur' = [cur EXCEPT ![w] = d]
        /\ new_connections' = [new_connections EXCEPT ![w] = Tail(@)]
        /\ new_connections[w] # <<>>
        /\ todo' = [todo EXCEPT ![w] = @ \ {Pipe}]
        /\ UNCHANGED <<thread_connections, state>>
    BY <1>3, <2>0, NotifyReadPops DEF NotifyRead, connVars
  <2>2. HeadPushed' <=> HeadPushed
    BY <1>1, <2>1 DEF HeadPushed
  <2>3. Arrival'
    BY <1>2 DEF Arrival, WithAcceptor, WithMain
  <2>4. \A c \in Conns : Upstream(c)' <=> Upstream(c)
    BY <1>2, <2>2 DEF Upstream, WithAcceptor, WithMain, Waiting
  <2>5. /\ \A c \in Conns : Has(new_connections[w], c)
                              <=> Has(new_connections'[w], c) \/ c = d
        /\ Distinct(new_connections'[w])
        /\ ~Has(new_connections'[w], d)
    <3>1. new_connections'[w] = Tail(new_connections[w])
      BY <1>1, <2>1
    <3>2. new_connections[w] \in Seq(Conns) /\ Distinct(new_connections[w])
      BY <1>1 DEF OneClaim
    <3> QED
      BY <2>0, <2>1, <3>1, <3>2, TailHas
  <2>6. Claims(w, d) /\ QueuedFor(w, d)
    BY <2>1, <2>5 DEF Claims, QueuedFor, Has
  <2>7. \A v \in Workers : v # w => new_connections'[v] = new_connections[v]
    BY <1>1, <2>1
  <2>8. \A c \in Conns, v \in Workers : c # d \/ v # w =>
            /\ QueuedFor(v, c)' => QueuedFor(v, c)
            /\ Making(v, c)' => Making(v, c)
            /\ Serving(v, c)' => Serving(v, c)
    BY <1>1, <2>1, <2>5, <2>7 DEF QueuedFor, Has, Making, Serving
  <2>9. ~QueuedFor(w, d)' /\ ~Serving(w, d)' /\ ~Upstream(d)'
    BY <2>1, <2>4, <2>5, <2>6 DEF QueuedFor, Has, Serving, OneClaim
  <2>10. /\ Distinct(s_connect_conns')
         /\ \A v \in Workers : Distinct(new_connections'[v])
    BY <1>2, <2>5, <2>7 DEF OneClaim
  <2>11. OneClaim' /\ Forward
    BY <2>1, <2>4, <2>6, <2>8, <2>9, <2>10, ClaimMoves
  <2>12. TodoServed'
    BY <1>1, <2>1 DEF TodoServed, Serving, ClosePcs
  <2> QED
    BY <2>3, <2>11, <2>12
<1>4. CASE CreateRegister(w)
  <2>0. PICK d \in Conns : d = cur[w]
    BY <1>4 DEF CreateRegister, HandoffInv, AtHand, CreatePcs
  <2>1. /\ pc[w] = "add" /\ cur[w] = d
        /\ pc' = [pc EXCEPT ![w] = "events"]
        /\ cur' = [cur EXCEPT ![w] = NoConn]
        /\ thread_connections' = [thread_connections EXCEPT ![w] = @ \cup {d}]
        /\ UNCHANGED <<new_connections, todo, state>>
    BY <1>4, <2>0 DEF CreateRegister, Leave, Goto
  <2>2. HeadPushed' <=> HeadPushed
    BY <1>1, <2>1 DEF HeadPushed
  <2>3. Arrival'
    BY <1>2 DEF Arrival, WithAcceptor, WithMain
  <2>4. \A c \in Conns : Upstream(c)' <=> Upstream(c)
    BY <1>2, <2>2 DEF Upstream, WithAcceptor, WithMain, Waiting
  <2>5. Claims(w, d) /\ Making(w, d)
    BY <2>1 DEF Claims, Making, CreatePcs
  <2>6. \A c \in Conns, v \in Workers : c # d \/ v # w =>
            /\ QueuedFor(v, c)' => QueuedFor(v, c)
            /\ Making(v, c)' => Making(v, c)
            /\ Serving(v, c)' => Serving(v, c)
    BY <1>1, <2>1 DEF QueuedFor, Making, CreatePcs, Serving
  <2>7. ~QueuedFor(w, d)' /\ ~Making(w, d)' /\ ~Upstream(d)'
    BY <1>1, <2>1, <2>4, <2>5 DEF QueuedFor, Making, CreatePcs, OneClaim
  <2>8. /\ Distinct(s_connect_conns')
        /\ \A v \in Workers : Distinct(new_connections'[v])
    BY <1>2, <2>1 DEF OneClaim
  <2>9. OneClaim' /\ Forward
    BY <2>1, <2>4, <2>5, <2>6, <2>7, <2>8, ClaimMoves
  <2>10. TodoServed'
    BY <1>1, <2>1 DEF TodoServed, Serving, ClosePcs
  <2> QED
    BY <2>3, <2>9, <2>10
<1>5. CASE CreateCheck(w) \/ CreateDup(w) \/ CreateFails(w) \/ NotifyReject(w)
  <2>1. PICK p \in {"dup", "add", "reject", "events"} :
          /\ pc' = [pc EXCEPT ![w] = p]
          /\ p # "events" => cur' = cur
          /\ p = "events" => cur' = [cur EXCEPT ![w] = NoConn]
          /\ pc[w] \in CreatePcs
          /\ UNCHANGED <<new_connections, thread_connections, todo>>
    BY <1>5 DEF CreateCheck, CreateDup, CreateFails, NotifyReject, Goto, Leave,
       sharedVars, CreatePcs
  <2>2. \A v \in Workers : v # w => cur'[v] = cur[v]
    BY <1>1, <2>1
  <2>3. Arrival' /\ OneClaim' /\ Forward
    BY <1>1, <1>2, <2>1, <2>2, WorkerKeeps DEF CreatePcs
  <2>4. cur[w] \in Conns /\ Making(w, cur[w])
    BY <2>1 DEF Making, HandoffInv, AtHand
  <2>5. \A v \in Workers : pc'[v] \in ClosePcs =>
            v # w /\ pc[v] \in ClosePcs /\ cur'[v] = cur[v]
    BY <1>1, <2>1 DEF ClosePcs
  <2>6. \A c \in Conns : c # cur[w] => state'[c] = state[c]
    BY <1>1, <1>5 DEF CreateCheck, CreateDup, CreateFails, NotifyReject, connVars
  <2>7. \A v \in Workers : ~Serving(v, cur[w])
    BY <2>4 DEF OneClaim, Claims
  <2>8. TodoServed'
    BY <2>1, <2>5, <2>6, <2>7 DEF TodoServed, Serving, HandoffInv, AtHand
  <2> QED
    BY <2>3, <2>8
<1> QED
  BY <1>3, <1>4, <1>5 DEF CreateStep

\* The worker lets go of connections, or goes round.
LEMMA SweepOwn ==
    ASSUME HandoffInv, OwnInv, NEW w \in Workers,
           \/ EpollWait(w) \/ EventsEnd(w) \/ CloseStep(w) \/ Reap(w)
           \/ \E c \in Conns : OnReadEnd(w, c) \/ SweepVisit(w, c)
    PROVE  OwnInv' /\ Forward
<1> USE DEF OwnInv
<1>1. /\ pc \in [Workers -> WorkerPcs] /\ cur \in [Workers -> Conns \cup {NoConn}]
      /\ thread_connections \in [Workers -> SUBSET Conns]
      /\ todo \in [Workers -> SUBSET (Conns \cup {Pipe})]
      /\ state \in [Conns -> ConnStates]
      /\ Pipe \notin Conns
  BY ConnsAssumption DEF HandoffInv, TypeOK, WorkerOK, ConnOK, Pipe
<1>2. /\ UNCHANGED <<peer, backlog, acceptor, main, s_connect_conns,
                     new_connections>>
      /\ pc[w] \notin CreatePcs \cup {"conn_notify"}
  BY DEF EpollWait, EventsEnd, CloseStep, CloseErase, CloseDup, CloseSfd, Reap,
     OnReadEnd, SweepVisit, kernelVars, sharedVars, CreatePcs
<1>3. CASE EpollWait(w) \/ EventsEnd(w) \/ Reap(w)
  <2>1. PICK p \in {"events", "sweep", "connect"} :
          /\ pc' = [pc EXCEPT ![w] = p]
          /\ UNCHANGED <<cur, thread_connections, state>>
    BY <1>3 DEF EpollWait, EventsEnd, Reap, Goto, connVars
  <2>2. Arrival' /\ OneClaim' /\ Forward
    BY <1>1, <1>2, <2>1, WorkerKeeps DEF CreatePcs
  <2>3. \A c \in todo'[w] \ {Pipe} : c \in thread_connections[w]
    BY <1>1, <1>3 DEF EpollWait, EventsEnd, Reap
  <2>4. \A v \in Workers : v # w => todo'[v] = todo[v]
    BY <1>1, <1>3 DEF EpollWait, EventsEnd, Reap
  <2>5. \A v \in Workers : pc'[v] \in ClosePcs => v # w /\ pc[v] \in ClosePcs
    BY <1>1, <2>1 DEF ClosePcs
  <2>6. TodoServed'
    BY <2>1, <2>3, <2>4, <2>5 DEF TodoServed, Serving
  <2> QED
    BY <2>2, <2>6
<1>4. CASE CloseErase(w) \/ CloseDup(w)
  <2>1. PICK p \in {"close_dup", "close_sfd"} :
          /\ pc' = [pc EXCEPT ![w] = p]
          /\ pc[w] \in ClosePcs
          /\ UNCHANGED <<cur, thread_connections, state, todo>>
    BY <1>4 DEF CloseErase, CloseDup, Goto, connVars, ClosePcs
  <2>2. Arrival' /\ OneClaim' /\ Forward
    BY <1>1, <1>2, <2>1, WorkerKeeps DEF CreatePcs
  <2>3. TodoServed'
    BY <1>1, <2>1 DEF TodoServed, Serving, ClosePcs
  <2> QED
    BY <2>2, <2>3
<1>5. CASE CloseSfd(w)
  <2>1. /\ pc' = [pc EXCEPT ![w] = "sweep"] /\ pc[w] = "close_sfd"
        /\ cur' = [cur EXCEPT ![w] = NoConn]
        /\ thread_connections' = [thread_connections EXCEPT ![w] = @ \ {cur[w]}]
        /\ UNCHANGED <<state, todo>>
    BY <1>5 DEF CloseSfd, Leave, Goto, connVars
  <2>2. \A v \in Workers : thread_connections'[v] \subseteq thread_connections[v]
    BY <1>1, <2>1
  <2>3. \A v \in Workers : v # w => cur'[v] = cur[v]
    BY <1>1, <2>1
  <2>4. Arrival' /\ OneClaim' /\ Forward
    BY <1>1, <1>2, <2>1, <2>2, <2>3, WorkerKeeps DEF CreatePcs
  <2>5. cur[w] \notin todo[w]
    BY <2>1 DEF TodoServed, ClosePcs
  <2>6. \A v \in Workers : v # w => thread_connections'[v] = thread_connections[v]
    BY <1>1, <2>1
  <2>7. thread_connections'[w] = thread_connections[w] \ {cur[w]}
    BY <1>1, <2>1
  <2>8. \A v \in Workers : pc'[v] \in ClosePcs => v # w /\ pc[v] \in ClosePcs
    BY <1>1, <2>1 DEF ClosePcs
  <2>9. TodoServed'
    BY <2>1, <2>3, <2>5, <2>6, <2>7, <2>8 DEF TodoServed, Serving
  <2> QED
    BY <2>4, <2>9
<1>6. ASSUME NEW c \in Conns, OnReadEnd(w, c) PROVE OwnInv' /\ Forward
  <2>1. /\ pc' = [pc EXCEPT ![w] = pc[w]]
        /\ UNCHANGED <<pc, cur, thread_connections>>
        /\ state' = [state EXCEPT ![c] = "CLOSE"]
        /\ todo' = [todo EXCEPT ![w] = @ \ {c}]
    BY <1>1, <1>6 DEF OnReadEnd, ConnClose
  <2>2. Arrival' /\ OneClaim' /\ Forward
    BY <1>1, <1>2, <2>1, WorkerKeeps
  <2>3. TodoServed'
    BY <1>1, <2>1 DEF TodoServed, Serving, HandoffInv, AtHand
  <2> QED
    BY <2>2, <2>3
<1>7. ASSUME NEW c \in Conns, SweepVisit(w, c) PROVE OwnInv' /\ Forward
  <2>1. /\ pc[w] = "sweep" /\ c \in todo[w]
        /\ todo' = [todo EXCEPT ![w] = @ \ {c}]
        /\ UNCHANGED <<thread_connections, state>>
        /\ \/ /\ state[c] = "CLOSE"
              /\ pc' = [pc EXCEPT ![w] = "erase"]
              /\ cur' = [cur EXCEPT ![w] = c]
           \/ UNCHANGED <<pc, cur>> /\ pc' = [pc EXCEPT ![w] = pc[w]]
    BY <1>1, <1>7 DEF SweepVisit, Goto, connVars
  <2>2. Serving(w, c)
    BY <1>1, <2>1 DEF TodoServed
  <2>3. /\ \A v \in Workers : v # w => cur'[v] = cur[v] /\ todo'[v] = todo[v]
        /\ todo'[w] = todo[w] \ {c}
    BY <1>1, <2>1
  <2>4. Arrival' /\ OneClaim' /\ Forward
    BY <1>1, <1>2, <2>1, <2>3, WorkerKeeps DEF CreatePcs
  <2>5. CASE UNCHANGED <<pc, cur>>
    <3>1. TodoServed'
      BY <2>1, <2>3, <2>5 DEF TodoServed, Serving, ClosePcs
    <3> QED
      BY <2>4, <3>1
  <2>6. CASE /\ state[c] = "CLOSE"
             /\ pc' = [pc EXCEPT ![w] = "erase"]
             /\ cur' = [cur EXCEPT ![w] = c]
    <3>1. /\ cur'[w] = c
          /\ \A v \in Workers : v # w => pc'[v] = pc[v]
      BY <1>1, <2>6
    <3>2. TodoServed'
      BY <2>1, <2>2, <2>3, <2>6, <3>1 DEF TodoServed, Serving, ClosePcs
    <3> QED
      BY <2>4, <3>2
  <2> QED
    BY <2>1, <2>5, <2>6
<1> QED
  BY <1>3, <1>4, <1>5, <1>6, <1>7 DEF CloseStep

\* The ownership of connections is an invariant.
LEMMA OwnStep == HandoffInv /\ OwnInv /\ [Next]_vars => OwnInv' /\ Forward
<1> SUFFICES ASSUME HandoffInv, OwnInv, [Next]_vars PROVE OwnInv' /\ Forward
  OBVIOUS
<1>1. ASSUME NEW w \in Workers, WorkerStep(w) PROVE OwnInv' /\ Forward
  BY <1>1, ConnectorOwn, CreateOwn, SweepOwn DEF WorkerStep
<1>2. CASE UNCHANGED vars
  <2>1. UNCHANGED <<peer, backlog, acceptor, main, s_connect_conns,
                    new_connections, pc, cur, todo, state, thread_connections>>
    BY <1>2 DEF vars, kernelVars, sharedVars, connVars, workerVars
  <2>2. Arrival'
    BY <2>1 DEF OwnInv, Arrival, WithAcceptor, WithMain
  <2>3. \A c \in Conns : Upstream(c)' => Upstream(c)
    BY <2>1 DEF Upstream, WithAcceptor, WithMain, Waiting, HeadPushed
  <2>4. OneClaim' /\ Forward
    BY <2>1, <2>3, OthersKeep DEF OwnInv, OneClaim
  <2> QED
    BY <2>1, <2>2, <2>4 DEF OwnInv, TodoServed, Serving
<1> QED
  BY <1>1, <1>2, AcceptOwn, MainOwn, PeerOwn DEF Next

\* Before any thread has moved nobody has a connection.
LEMMA OwnInit == Init => OwnInv
<1> SUFFICES ASSUME Init PROVE OwnInv
  OBVIOUS
<1>1. /\ DOMAIN s_connect_conns = {} /\ Tail(s_connect_conns) = <<>>
      /\ \A w \in Workers : DOMAIN new_connections[w] = {}
  BY DEF Init
<1>2. Arrival
  BY <1>1 DEF Init, Arrival, WithAcceptor, WithMain, Has
<1>3. \A c \in Conns, w \in Workers : ~Claims(w, c)
  BY <1>1 DEF Init, Claims, QueuedFor, Making, CreatePcs, Serving
<1>4. OneClaim
  BY <1>1, <1>3 DEF OneClaim, Distinct, Claims
<1>5. TodoServed
  BY DEF Init, TodoServed, ClosePcs
<1> QED
  BY <1>2, <1>4, <1>5 DEF OwnInv

\* Spec keeps the hand-over and the ownership of connections intact.
LEMMA OwnAlways == Spec => [](HandoffInv /\ OwnInv)
  BY Init_Inv, Next_Inv, OwnInit, OwnStep, PTL DEF Spec

\* A connection is queued for, created by or served by one worker only and in
\* one place, whatever calls fail: workers, accept thread and main thread never
\* share the unlocked fields of a Connection.
THEOREM OneOwner == Spec => []SingleOwner
<1>1. OwnInv => SingleOwner
  <2> SUFFICES ASSUME OwnInv, NEW c \in Conns
               PROVE  SingleOwner!(c)
    BY DEF SingleOwner
  <2>1. \A w \in Workers : Creating(w, c) => Making(w, c)
    BY DEF Creating, Making, CreatePcs
  <2> QED
    BY <2>1 DEF OwnInv, OneClaim, Claims, Serving, Distinct
<1> QED
  BY <1>1, OwnAlways, PTL

-----------------------------------------------------------------------------
(* What a connector is told, and how long an object lasts *)

\* Nothing is said, and nothing closed, before a connection is registered.
Verdicts ==
    \A c \in Conns :
       /\ Unserved(c) => callback[c] = <<>> /\ state[c] # "CLOSE"
       /\ c \in Connectors =>
            (state[c] = "CLOSE" \/ Registered(c) <=> callback[c] = <<"ok">>)
       /\ c \in Connectors => callback[c] \in {<<>>, <<"ok">>, <<"failed">>}
       /\ callback[c] = <<"failed">> => object[c] = "freed"

\* Objects wait for their deletion swept, and none is deleted that a worker
\* serves or is about to serve.
Objects ==
    /\ \A w \in Workers : now[w] <= clock
    /\ \A w \in Workers : \A c \in for_delete_connections[w] : Swept(c)
    /\ \A w \in Workers : pc[w] = "add" => object[cur[w]] = "live"
    /\ \A c \in Conns : object[c] = "freed" => ~Registered(c)

LifeInv == Verdicts /\ Objects /\ GraceKept /\ LeakOnlyOnSameSecond

\* td_ names the worker whose tables hold the connection, and a registered
\* connection keeps its read event until conn_internal_close deletes it.
Homes ==
    /\ \A c \in Conns : Unserved(c) => td[c] = -1
    /\ \A w \in Workers : \A c \in thread_connections[w] : td[c] = w
    /\ \A w \in Workers : \A c \in for_delete_connections[w] : td[c] = w
    /\ \A c \in Conns : read_event[c] /\ td[c] # -1 => Registered(c)
    /\ \A w \in Workers : pc[w] = "close_sfd" => ~read_event[cur[w]]

\* A connection that is registered is not a new one.
LEMMA RegisteredServed ==
    ASSUME OwnInv, NEW c \in Conns, Registered(c)
    PROVE  ~Unserved(c)
<1>1. PICK v \in Workers : Serving(v, c)
  BY DEF Registered, Serving
<1>2. Claims(v, c)
  BY <1>1 DEF Claims
<1>3. ~Upstream(c)
  BY <1>2 DEF OwnInv, OneClaim
<1>4. ASSUME NEW w \in Workers, QueuedFor(w, c) \/ Making(w, c) PROVE FALSE
  <2>1. Claims(w, c)
    BY <1>4 DEF Claims
  <2>2. w = v
    BY <1>2, <2>1 DEF OwnInv, OneClaim
  <2> QED
    BY <1>1, <1>4, <2>2 DEF OwnInv, OneClaim
<1> QED
  BY <1>3, <1>4 DEF Unserved

\* The same of the state a step leads to.
LEMMA RegisteredServedNext ==
    ASSUME OwnInv', NEW c \in Conns, Registered(c)'
    PROVE  ~Unserved(c)'
<1>1. PICK v \in Workers : Serving(v, c)'
  BY DEF Registered, Serving
<1>2. Claims(v, c)'
  BY <1>1 DEF Claims
<1>3. ~Upstream(c)'
  BY <1>2 DEF OwnInv, OneClaim
<1>4. \A u \in Workers : QueuedFor(u, c)' \/ Making(u, c)' => u = v
  BY <1>2 DEF OwnInv, OneClaim, Claims
<1>5. ~QueuedFor(v, c)' /\ ~Making(v, c)'
  BY <1>1 DEF OwnInv, OneClaim
<1> QED
  BY <1>3, <1>4, <1>5 DEF Unserved

\* A step that neither closes, answers nor deletes.
LEMMA LifeKept ==
    ASSUME TypeOK, LifeInv, Forward,
           UNCHANGED <<state, callback, object, close_time, td,
                       for_delete_connections, now>>,
           \A c \in Conns : Registered(c)' <=> Registered(c),
           clock' \in Int, clock' >= clock,
           \A w \in Workers : pc'[w] = "add" => pc[w] = "add" /\ cur'[w] = cur[w]
    PROVE  LifeInv'
<1> USE DEF LifeInv, TypeOK, KernelOK, ConnOK, WorkerOK
<1>1. \A c \in Conns : Swept(c)' <=> Swept(c)
  BY DEF Swept
<1>2. Verdicts'
  BY DEF Verdicts, Forward
<1>3. Objects'
  <2>1. \A w \in Workers : now'[w] <= clock'
    BY DEF Objects
  <2>2. \A w \in Workers : \A c \in for_delete_connections'[w] : Swept(c)'
    BY <1>1 DEF Objects
  <2> QED
    BY <2>1, <2>2 DEF Objects
<1>4. GraceKept'
  BY TimeAssumption DEF GraceKept
<1>5. LeakOnlyOnSameSecond'
  BY <1>1 DEF LeakOnlyOnSameSecond
<1> QED
  BY <1>2, <1>3, <1>4, <1>5

\* conn_close of a connection that is served.
LEMMA CloseLife ==
    ASSUME TypeOK, OwnInv, LifeInv, Forward, NEW c \in Conns, Registered(c),
           ConnClose(c),
           UNCHANGED <<callback, object, td, for_delete_connections, now,
                       clock, pc, cur, thread_connections>>
    PROVE  LifeInv'
<1> USE DEF LifeInv, TypeOK, KernelOK, ConnOK, WorkerOK
<1>1. /\ state' = [state EXCEPT ![c] = "CLOSE"]
      /\ \A d \in Conns : d # c => close_time'[d] = close_time[d]
  BY DEF ConnClose
<1>2. \A d \in Conns : Registered(d)' <=> Registered(d)
  BY DEF Registered
<1>3. \A d \in Conns : /\ Swept(d)' <=> Swept(d)
                       /\ Swept(d) => close_time'[d] = close_time[d]
  BY <1>1, <1>2 DEF Swept
<1>4. ~Unserved(c)
  BY RegisteredServed
<1>5. Verdicts'
  BY <1>1, <1>2, <1>4 DEF Verdicts, Forward
<1>6. Objects'
  <2>1. \A w \in Workers : \A d \in for_delete_connections'[w] : Swept(d)'
    BY <1>3 DEF Objects
  <2> QED
    BY <1>2, <2>1 DEF Objects
<1>7. GraceKept'
  BY <1>1 DEF GraceKept, Objects
<1>8. LeakOnlyOnSameSecond'
  BY <1>3 DEF LeakOnlyOnSameSecond
<1> QED
  BY <1>5, <1>6, <1>7, <1>8

\* Every other thread than a worker.
LEMMA OthersLife ==
    ASSUME HandoffInv, OwnInv, LifeInv, Forward,
           AcceptStep \/ MainStep \/ PeerStep
    PROVE  LifeInv'
<1>1. /\ TypeOK /\ clock \in Int
      /\ UNCHANGED <<pc, cur, thread_connections, for_delete_connections, now>>
  <2>1. TypeOK /\ clock \in Int
    BY DEF HandoffInv, TypeOK, KernelOK
  <2>2. CASE AcceptStep
    BY <2>1, <2>2 DEF AcceptStep, ListenReady, AcceptLoopEnds, GivePick,
       GivePush, GiveNotify, Accept, AcceptFcntlFails, workerVars
  <2>3. CASE MainStep
    BY <2>1, <2>3 DEF MainStep, ConnectSucceeds, ConnectFails, ConnectPush,
       ConnectSocket, MainClose, workerVars
  <2>4. CASE PeerStep
    BY <2>1, <2>4 DEF PeerStep, Tick, PeerConnect, PeerDown, workerVars
  <2> QED
    BY <2>2, <2>3, <2>4
<1>2. \A c \in Conns : Registered(c)' <=> Registered(c)
  BY <1>1 DEF Registered
<1>3. CASE AcceptStep
  <2>1. UNCHANGED <<state, callback, object, close_time, td, clock>>
    BY <1>3 DEF AcceptStep, ListenReady, AcceptLoopEnds, GivePick, GivePush,
       GiveNotify, Accept, AcceptFcntlFails, kernelVars, connVars
  <2> QED
    BY <1>1, <1>2, <2>1, LifeKept
<1>4. CASE PeerStep
  <2>1. /\ UNCHANGED <<state, callback, object, close_time, td>>
        /\ clock' = clock \/ clock' = clock + 1
    BY <1>4 DEF PeerStep, Tick, PeerConnect, PeerDown, connVars
  <2>2. clock' \in Int /\ clock' >= clock
    BY <1>1, <2>1
  <2> QED
    BY <1>1, <1>2, <2>1, <2>2, LifeKept
<1>5. CASE ConnectFails \/ ConnectPush \/ \E c \in Conns : ConnectSocket(c)
  <2>1. UNCHANGED <<state, callback, object, close_time, td, clock>>
    BY <1>5 DEF ConnectFails, ConnectPush, ConnectSocket, kernelVars, connVars
  <2> QED
    BY <1>1, <1>2, <2>1, LifeKept
<1>6. CASE ConnectSucceeds
  <2>0. PICK d \in Conns : d = main.conn
    BY <1>6 DEF ConnectSucceeds, HandoffInv, AtHand
  <2>1. /\ object' = [object EXCEPT ![d] = "live"]
        /\ object \in [Conns -> {"none", "live", "freed"}]
        /\ UNCHANGED <<state, callback, close_time, td, clock>>
    BY <1>6, <2>0 DEF ConnectSucceeds, HandoffInv, TypeOK, ConnOK
  <2>2. callback[d] = <<>> /\ state[d] # "CLOSE"
    BY <1>6, <2>0 DEF ConnectSucceeds, WithMain, Upstream, Unserved, LifeInv,
       Verdicts
  <2>3. \A c \in Conns : Swept(c)' <=> Swept(c)
    BY <1>2, <2>1 DEF Swept
  <2>4. Verdicts'
    BY <1>2, <2>1, <2>2 DEF LifeInv, Verdicts, Forward
  <2>5. Objects'
    <3>1. /\ \A w \in Workers : \A c \in for_delete_connections'[w] : Swept(c)'
          /\ \A w \in Workers : pc[w] = "add" => object'[cur[w]] = "live"
      BY <1>1, <2>1, <2>3
      DEF LifeInv, Objects, HandoffInv, AtHand, CreatePcs, TypeOK, WorkerOK
    <3> QED
      BY <1>1, <1>2, <2>1, <3>1 DEF LifeInv, Objects
  <2>6. GraceKept'
    BY <2>1 DEF LifeInv, GraceKept
  <2>7. LeakOnlyOnSameSecond'
    BY <1>1, <2>1, <2>2, <2>3 DEF LifeInv, LeakOnlyOnSameSecond, Swept
  <2> QED
    BY <2>4, <2>5, <2>6, <2>7 DEF LifeInv
<1>7. ASSUME NEW c \in Conns, MainClose(c) PROVE LifeInv'
  <2>1. /\ Registered(c) /\ ConnClose(c)
        /\ UNCHANGED <<callback, object, td, clock>>
    BY <1>7 DEF MainClose, Registered, kernelVars
  <2> QED
    BY <1>1, <2>1, CloseLife
<1> QED
  BY <1>3, <1>4, <1>5, <1>6, <1>7 DEF MainStep

\* A worker that creates a connection, or fails to.
LEMMA CreateLife ==
    ASSUME HandoffInv, OwnInv, LifeInv, Forward, NEW w \in Workers,
           CreateStep(w)
    PROVE  LifeInv'
<1> USE DEF LifeInv
<1>0. PICK d \in Conns : d = cur[w]
  BY DEF CreateStep, CreateCheck, CreateDup, CreateRegister, CreateFails,
     NotifyReject, HandoffInv, AtHand, CreatePcs
<1>1. /\ TypeOK /\ clock \in Int /\ clock' = clock
      /\ pc \in [Workers -> WorkerPcs] /\ cur \in [Workers -> Conns \cup {NoConn}]
      /\ thread_connections \in [Workers -> SUBSET Conns]
      /\ object \in [Conns -> {"none", "live", "freed"}]
      /\ state \in [Conns -> ConnStates]
      /\ callback \in [Conns -> Seq({"ok", "failed"})]
      /\ UNCHANGED <<close_time, for_delete_connections, now>>
  BY DEF HandoffInv, TypeOK, KernelOK, WorkerOK, ConnOK, CreateStep,
     CreateCheck, CreateDup, CreateRegister, CreateFails, NotifyReject,
     kernelVars, connVars
<1>2. pc[w] \in CreatePcs /\ Making(w, d)
  BY <1>0 DEF CreateStep, CreateCheck, CreateDup, CreateRegister, CreateFails,
     NotifyReject, Making, CreatePcs
<1>3. /\ Unserved(d) /\ ~Registered(d) /\ callback[d] = <<>>
      /\ state[d] # "CLOSE"
  BY <1>2, RegisteredServed DEF Unserved, Verdicts
<1>4. \A v \in Workers : v # w /\ pc[v] = "add" => cur[v] # d
  <2>1. \A v \in Workers : Making(v, d) => v = w
    BY <1>2 DEF OwnInv, OneClaim, Claims
  <2> QED
    BY <2>1 DEF Making, CreatePcs
<1>5. CASE CreateCheck(w)
  <2>1. /\ UNCHANGED <<state, callback, object, td, cur, thread_connections>>
        /\ \A v \in Workers : pc'[v] = "add" => pc[v] = "add"
    BY <1>1, <1>5 DEF CreateCheck, Goto, connVars
  <2>2. \A c \in Conns : Registered(c)' <=> Registered(c)
    BY <2>1 DEF Registered
  <2> QED
    BY <1>1, <2>1, <2>2, LifeKept
<1>6. CASE CreateDup(w) \/ CreateFails(w) \/ NotifyReject(w)
  <2>1. UNCHANGED <<thread_connections, td>>
    BY <1>6 DEF CreateDup, CreateFails, NotifyReject
  <2>2. \A c \in Conns : Registered(c)' <=> Registered(c)
    BY <2>1 DEF Registered
  <2>3. /\ \A c \in Conns \ {d} : /\ object'[c] = object[c]
                                  /\ state'[c] = state[c]
                                  /\ callback'[c] = callback[c]
        /\ state'[d] # "CLOSE"
    BY <1>0, <1>1, <1>3, <1>6
    DEF CreateDup, CreateFails, NotifyReject, Told
  <2>4. /\ callback'[d] \in {<<>>, <<"failed">>}
        /\ callback'[d] # <<>> => object'[d] = "freed" /\ ~Unserved(d)'
    <3>1. CASE CreateDup(w) \/ CreateFails(w)
      BY <1>3, <3>1 DEF CreateDup, CreateFails
    <3>2. CASE NotifyReject(w) /\ d \notin Connectors
      BY <1>0, <1>1, <1>3, <3>2 DEF NotifyReject, Told
    <3>3. CASE NotifyReject(w) /\ d \in Connectors
      <4>1. /\ callback'[d] = Append(callback[d], "failed")
            /\ object'[d] = "freed"
        BY <1>0, <1>1, <3>3 DEF NotifyReject, Told, Rejected
      <4>2. callback'[d] = <<"failed">>
        BY <1>3, <4>1
      <4>3. /\ UNCHANGED <<peer, backlog, acceptor, main, s_connect_conns,
                           new_connections>>
            /\ pc' = [pc EXCEPT ![w] = "events"]
            /\ pc[w] = "reject"
        BY <3>3 DEF NotifyReject, Leave, Goto, sharedVars
      <4>4. HeadPushed' <=> HeadPushed
        BY <1>1, <4>3 DEF HeadPushed
      <4>5. ~Upstream(d)'
        BY <1>2, <4>3, <4>4
        DEF OwnInv, OneClaim, Claims, Upstream, WithAcceptor, WithMain, Waiting
      <4>6. \A v \in Workers : ~QueuedFor(v, d)'
        BY <1>2, <4>3 DEF OwnInv, OneClaim, Claims, QueuedFor
      <4>7. \A v \in Workers : v # w => cur'[v] = cur[v] /\ pc'[v] = pc[v]
        BY <1>1, <3>3, <4>3 DEF NotifyReject, Leave
      <4>8. \A v \in Workers : ~Making(v, d)'
        BY <1>1, <1>2, <4>3, <4>7
        DEF OwnInv, OneClaim, Claims, Making, CreatePcs
      <4> QED
        BY <4>1, <4>2, <4>5, <4>6, <4>8 DEF Unserved
    <3> QED
      BY <1>6, <3>1, <3>2, <3>3
  <2>5. Verdicts'
    <3>1. /\ <<"failed">> # <<>> /\ <<"failed">> # <<"ok">>
          /\ <<"ok">> # <<>>
      OBVIOUS
    <3>2. ASSUME NEW c \in Conns \ {d} PROVE Verdicts!(c)'
      BY <2>2, <2>3, <3>2 DEF Verdicts, Forward
    <3>3. Verdicts!(d)'
      <4>1. Unserved(d)' => callback'[d] = <<>> /\ state'[d] # "CLOSE"
        BY <2>3, <2>4
      <4>2. /\ ~(state'[d] = "CLOSE" \/ Registered(d)')
            /\ callback'[d] # <<"ok">>
        BY <1>3, <2>2, <2>3, <2>4, <3>1
      <4>3. callback'[d] \in {<<>>, <<"ok">>, <<"failed">>}
        BY <2>4
      <4>4. callback'[d] = <<"failed">> => object'[d] = "freed"
        BY <2>4, <3>1
      <4> QED
        BY <4>1, <4>2, <4>3, <4>4
    <3> QED
      BY <3>2, <3>3 DEF Verdicts
  <2>6. \A c \in Conns : Swept(c)' <=> Swept(c)
    BY <1>3, <2>2, <2>3 DEF Swept
  <2>7. Objects'
    <3>1. /\ \A v \in Workers : \A c \in for_delete_connections'[v] : Swept(c)'
      BY <1>1, <2>6 DEF Objects, TypeOK, WorkerOK
    <3>2. \A v \in Workers : pc'[v] = "add" => object'[cur'[v]] = "live"
      <4>1. \A v \in Workers : v # w =>
               cur'[v] = cur[v] /\ pc'[v] = pc[v]
        BY <1>1, <1>6 DEF CreateDup, CreateFails, NotifyReject, Goto, Leave
      <4>2. pc'[w] = "add" => object'[d] = "live" /\ cur'[w] = d
        BY <1>0, <1>1, <1>6 DEF CreateDup, CreateFails, NotifyReject, Goto, Leave
      <4>3. \A v \in Workers : pc[v] = "add" => cur[v] \in Conns
        BY DEF HandoffInv, AtHand, CreatePcs
      <4> QED
        BY <1>4, <2>3, <4>1, <4>2, <4>3 DEF Objects
    <3>3. \A c \in Conns : object'[c] = "freed" => ~Registered(c)'
      BY <1>3, <2>2, <2>3 DEF Objects
    <3> QED
      BY <1>1, <3>1, <3>2, <3>3 DEF Objects
  <2>8. GraceKept'
    BY <1>1, <2>3 DEF GraceKept
  <2>9. LeakOnlyOnSameSecond'
    BY <1>1, <1>3, <2>1, <2>3, <2>6 DEF LeakOnlyOnSameSecond, Swept
  <2> QED
    BY <2>5, <2>7, <2>8, <2>9
<1>7. CASE CreateRegister(w)
  <2>1. /\ UNCHANGED <<object, state>>
        /\ pc[w] = "add"
        /\ pc' = [pc EXCEPT ![w] = "events"]
        /\ cur' = [cur EXCEPT ![w] = NoConn]
        /\ thread_connections' = [thread_connections EXCEPT ![w] = @ \cup {d}]
        /\ callback' = Told(d, "ok")
        /\ td' = [td EXCEPT ![d] = w]
    BY <1>0, <1>7 DEF CreateRegister, Leave, Goto
  <2>2. /\ Registered(d)'
        /\ \A c \in Conns \ {d} : Registered(c)' <=> Registered(c)
    BY <1>1, <2>1 DEF Registered
  <2>3. /\ \A c \in Conns \ {d} : callback'[c] = callback[c]
        /\ d \in Connectors => callback'[d] = <<"ok">>
        /\ d \notin Connectors => callback'[d] = <<>>
    <3>1. callback'[d] = IF d \in Connectors THEN Append(callback[d], "ok")
                                             ELSE callback[d]
      BY <1>1, <2>1 DEF Told
    <3> QED
      BY <1>1, <1>3, <2>1, <3>1 DEF Told
  <2>4. ~Unserved(d)'
    BY <1>7, <2>2, CreateOwn, RegisteredServedNext DEF CreateStep
  <2>5. Verdicts'
    <3>1. <<"failed">> # <<>> /\ <<"failed">> # <<"ok">>
      OBVIOUS
    <3>2. ASSUME NEW c \in Conns \ {d} PROVE Verdicts!(c)'
      BY <2>1, <2>2, <2>3, <3>2 DEF Verdicts, Forward
    <3>3. Verdicts!(d)'
      <4>1. d \in Connectors =>
              (state'[d] = "CLOSE" \/ Registered(d)' <=>
                 callback'[d] = <<"ok">>)
        BY <2>2, <2>3
      <4>2. /\ d \in Connectors => callback'[d] \in {<<>>, <<"ok">>, <<"failed">>}
            /\ callback'[d] # <<"failed">>
        BY <2>3, <3>1
      <4> QED
        BY <2>4, <4>1, <4>2
    <3> QED
      BY <3>2, <3>3 DEF Verdicts
  <2>6. \A c \in Conns : Swept(c)' <=> Swept(c)
    BY <1>3, <2>1, <2>2 DEF Swept
  <2>7. Objects'
    <3>1. \A v \in Workers : \A c \in for_delete_connections'[v] : Swept(c)'
      BY <1>1, <2>6 DEF Objects, TypeOK, WorkerOK
    <3>2. \A v \in Workers : pc'[v] = "add" => pc[v] = "add" /\ cur'[v] = cur[v]
      BY <1>1, <2>1
    <3>3. object[d] = "live"
      BY <1>0, <2>1 DEF Objects
    <3> QED
      BY <1>1, <2>1, <2>2, <3>1, <3>2, <3>3 DEF Objects
  <2>8. GraceKept'
    BY <1>1, <2>1 DEF GraceKept
  <2>9. LeakOnlyOnSameSecond'
    <3>1. \A c \in Conns : Swept(c) => c # d /\ td'[c] = td[c]
      BY <1>1, <1>3, <2>1 DEF Swept, TypeOK, ConnOK
    <3> QED
      BY <1>1, <2>1, <2>6, <3>1 DEF LeakOnlyOnSameSecond
  <2> QED
    BY <2>5, <2>7, <2>8, <2>9
<1> QED
  BY <1>5, <1>6, <1>7 DEF CreateStep

\* A worker that hands over, waits, reads the end of a connection, sweeps or
\* reaps.
LEMMA ServeLife ==
    ASSUME HandoffInv, OwnInv, LifeInv, Homes, Forward, NEW w \in Workers,
           WorkerStep(w), ~CreateStep(w)
    PROVE  LifeInv'
<1> USE DEF LifeInv
<1>1. /\ TypeOK /\ clock \in Int
      /\ pc \in [Workers -> WorkerPcs] /\ cur \in [Workers -> Conns \cup {NoConn}]
      /\ thread_connections \in [Workers -> SUBSET Conns]
      /\ for_delete_connections \in [Workers -> SUBSET Conns]
      /\ now \in [Workers -> 0 .. MaxTime]
      /\ object \in [Conns -> {"none", "live", "freed"}]
      /\ close_time \in [Conns -> 0 .. MaxTime]
  BY DEF HandoffInv, TypeOK, KernelOK, WorkerOK, ConnOK
<1>2. ASSUME UNCHANGED <<state, callback, object, close_time, td, clock, now,
                         for_delete_connections, thread_connections>>,
             \A v \in Workers : pc'[v] = "add" =>
                 pc[v] = "add" /\ cur'[v] = cur[v]
      PROVE  LifeInv'
  <2>1. \A c \in Conns : Registered(c)' <=> Registered(c)
    BY <1>2 DEF Registered
  <2> QED
    BY <1>1, <1>2, <2>1, LifeKept
<1>3. CASE ConnectorLoop(w) \/ ConnectorPick(w) \/ ConnectorPush(w)
           \/ ConnectorNotify(w)
  <2>1. UNCHANGED <<state, callback, object, close_time, td, clock, now, cur,
                    for_delete_connections, thread_connections>>
    BY <1>3 DEF ConnectorLoop, ConnectorPick, ConnectorPush, ConnectorNotify,
       kernelVars, connVars
  <2>2. \A v \in Workers : pc'[v] = "add" => pc[v] = "add"
    BY <1>1, <1>3 DEF ConnectorLoop, ConnectorPick, ConnectorPush,
       ConnectorNotify, Goto
  <2> QED
    BY <1>2, <2>1, <2>2
<1>4. CASE EpollWait(w) \/ NotifyRead(w) \/ EventsEnd(w) \/ CloseErase(w)
           \/ CloseDup(w)
  <2>1. UNCHANGED <<state, callback, object, close_time, td, clock, now,
                    for_delete_connections, thread_connections>>
    BY <1>4 DEF EpollWait, NotifyRead, EventsEnd, CloseErase, CloseDup,
       kernelVars, connVars
  <2>2. \A v \in Workers : pc'[v] = "add" => pc[v] = "add" /\ cur'[v] = cur[v]
    BY <1>1, <1>4 DEF EpollWait, NotifyRead, EventsEnd, CloseErase, CloseDup,
       Goto
  <2> QED
    BY <1>2, <2>1, <2>2
<1>5. ASSUME NEW c \in Conns, SweepVisit(w, c) PROVE LifeInv'
  <2>1. UNCHANGED <<state, callback, object, close_time, td, clock, now,
                    for_delete_connections, thread_connections>>
    BY <1>5 DEF SweepVisit, kernelVars, connVars
  <2>2. \A v \in Workers : pc'[v] = "add" => pc[v] = "add" /\ cur'[v] = cur[v]
    BY <1>1, <1>5 DEF SweepVisit, Goto
  <2> QED
    BY <1>2, <2>1, <2>2
<1>6. ASSUME NEW c \in Conns, OnReadEnd(w, c) PROVE LifeInv'
  <2>1. /\ ConnClose(c)
        /\ UNCHANGED <<callback, object, td, for_delete_connections, now,
                       clock, pc, cur, thread_connections>>
        /\ c \in todo[w] \ {Pipe}
    BY <1>6 DEF OnReadEnd, kernelVars
  <2>2. Registered(c)
    BY <2>1 DEF OwnInv, TodoServed, Serving, Registered
  <2> QED
    BY <1>1, <2>1, <2>2, CloseLife
<1>7. CASE CloseSfd(w)
  <2>0. PICK d \in Conns : d = cur[w]
    BY <1>7 DEF CloseSfd, HandoffInv, AtHand, ClosePcs
  <2>1. /\ pc[w] = "close_sfd"
        /\ pc' = [pc EXCEPT ![w] = "sweep"]
        /\ cur' = [cur EXCEPT ![w] = NoConn]
        /\ thread_connections' = [thread_connections EXCEPT ![w] = @ \ {d}]
        /\ for_delete_connections' = [for_delete_connections EXCEPT ![w] =
                                        ForDeleteWith(w, d)]
        /\ UNCHANGED <<state, callback, object, close_time, td, clock, now>>
    BY <1>7, <2>0 DEF CloseSfd, Leave, Goto, connVars
  <2>2. state[d] = "CLOSE" /\ Serving(w, d)
    BY <2>0, <2>1 DEF OwnInv, TodoServed, ClosePcs
  <2>3. \A v \in Workers : v # w => ~Serving(v, d)
    BY <2>2 DEF OwnInv, OneClaim, Claims
  <2>4. /\ ~Registered(d)'
        /\ \A c \in Conns \ {d} : Registered(c)' <=> Registered(c)
    BY <1>1, <2>1, <2>3 DEF Registered, Serving
  <2>5. /\ Swept(d)'
        /\ \A c \in Conns \ {d} : Swept(c)' <=> Swept(c)
    BY <2>1, <2>2, <2>4 DEF Swept
  <2>6. Verdicts'
    <3>1. Registered(d)
      BY <2>2 DEF Registered, Serving
    <3> QED
      BY <2>1, <2>2, <2>4, <3>1 DEF Verdicts, Forward
  <2>7. Objects'
    <3>1. \A v \in Workers : \A c \in for_delete_connections'[v] :
              c = d \/ c \in for_delete_connections[v]
      BY <1>1, <2>1 DEF ForDeleteWith
    <3>2. \A v \in Workers : \A c \in for_delete_connections'[v] : Swept(c)'
      BY <1>1, <2>5, <3>1 DEF Objects
    <3>3. \A v \in Workers : pc'[v] = "add" => pc[v] = "add" /\ cur'[v] = cur[v]
      BY <1>1, <2>1
    <3> QED
      BY <2>1, <2>4, <3>2, <3>3 DEF Objects
  <2>8. GraceKept'
    BY <2>1 DEF GraceKept
  <2>9. LeakOnlyOnSameSecond'
    <3> SUFFICES ASSUME NEW c \in Conns, Swept(c)', object'[c] = "live"
                 PROVE  \/ \E v \in Workers : c \in for_delete_connections'[v]
                        \/ \E e \in Conns \ {c} :
                              /\ Swept(e)' /\ td'[e] = td'[c]
                              /\ close_time'[e] = close_time'[c]
      BY DEF LeakOnlyOnSameSecond
    <3>1. d \in for_delete_connections'[w]
      BY <1>1, <2>1 DEF ForDeleteWith
    <3>2. CASE c = d
      BY <3>1, <3>2
    <3>3. CASE c # d
      <4>1. Swept(c) /\ object[c] = "live"
        BY <2>1, <2>5, <3>3
      <4>2. CASE \E v \in Workers : c \in for_delete_connections[v]
        <5>1. PICK v \in Workers : c \in for_delete_connections[v]
          BY <4>2
        <5>2. CASE v = w /\ close_time[c] = close_time[d]
          <6>1. td[c] = w /\ td[d] = w
            BY <2>2, <5>1, <5>2 DEF Homes, Serving
          <6> QED
            BY <2>1, <2>5, <3>3, <5>2, <6>1
        <5>3. CASE v # w \/ close_time[c] # close_time[d]
          BY <1>1, <2>1, <5>1, <5>3 DEF ForDeleteWith
        <5> QED
          BY <5>2, <5>3
      <4>3. CASE \E e \in Conns \ {c} : /\ Swept(e) /\ td[e] = td[c]
                                       /\ close_time[e] = close_time[c]
        BY <2>1, <2>5, <4>3
      <4> QED
        BY <4>1, <4>2, <4>3 DEF LeakOnlyOnSameSecond
    <3> QED
      BY <3>2, <3>3
  <2> QED
    BY <2>6, <2>7, <2>8, <2>9
<1>8. CASE Reap(w)
  <2>1. /\ object' = [c \in Conns |-> IF c \in Expired(w) THEN "freed"
                                                          ELSE object[c]]
        /\ for_delete_connections' = [for_delete_connections EXCEPT ![w] =
                                        @ \ Expired(w)]
        /\ now' = [now EXCEPT ![w] = clock]
        /\ pc' = [pc EXCEPT ![w] = "connect"]
        /\ UNCHANGED <<clock, state, callback, close_time, td, cur,
                       thread_connections>>
    BY <1>8 DEF Reap, Goto, kernelVars
  <2>2. \A c \in Conns : /\ Registered(c)' <=> Registered(c)
                         /\ Swept(c)' <=> Swept(c)
    BY <2>1 DEF Registered, Swept
  <2>3. \A c \in Expired(w) : /\ c \in Conns /\ Swept(c)
                              /\ clock - close_time[c] > DeleteDelay
    BY <1>1, TimeAssumption DEF Expired, Objects
  <2>4. Verdicts'
    BY <2>1, <2>2 DEF Verdicts, Forward
  <2>5. Objects'
    <3>1. \A v \in Workers : now'[v] <= clock'
      BY <1>1, <2>1 DEF Objects
    <3>2. \A v \in Workers : \A c \in for_delete_connections'[v] :
              c \in for_delete_connections[v]
      BY <1>1, <2>1
    <3>3. \A v \in Workers : \A c \in for_delete_connections'[v] : Swept(c)'
      BY <1>1, <2>2, <3>2 DEF Objects
    <3>4. \A v \in Workers : pc'[v] = "add" => object'[cur'[v]] = "live"
      <4> SUFFICES ASSUME NEW v \in Workers, pc'[v] = "add"
                   PROVE  object'[cur'[v]] = "live"
        OBVIOUS
      <4>1. pc[v] = "add"
        BY <1>1, <2>1
      <4>2. cur[v] \in Conns /\ Making(v, cur[v])
        BY <4>1 DEF HandoffInv, AtHand, CreatePcs, Making
      <4>3. cur[v] \notin Expired(w)
        BY <2>3, <4>2 DEF Verdicts, Unserved, Swept
      <4> QED
        BY <2>1, <4>1, <4>2, <4>3 DEF Objects
    <3>5. \A c \in Conns : object'[c] = "freed" => ~Registered(c)'
      BY <2>1, <2>2, <2>3 DEF Objects, Swept
    <3> QED
      BY <3>1, <3>3, <3>4, <3>5 DEF Objects
  <2>6. GraceKept'
    BY <2>1, <2>3 DEF GraceKept
  <2>7. LeakOnlyOnSameSecond'
    <3> SUFFICES ASSUME NEW c \in Conns, Swept(c)', object'[c] = "live"
                 PROVE  \/ \E v \in Workers : c \in for_delete_connections'[v]
                        \/ \E e \in Conns \ {c} :
                              /\ Swept(e)' /\ td'[e] = td'[c]
                              /\ close_time'[e] = close_time'[c]
      BY DEF LeakOnlyOnSameSecond
    <3>1. Swept(c) /\ object[c] = "live" /\ c \notin Expired(w)
      BY <2>1, <2>2
    <3>2. CASE \E v \in Workers : c \in for_delete_connections[v]
      <4>1. PICK v \in Workers : c \in for_delete_connections[v]
        BY <3>2
      <4>2. c \in for_delete_connections'[v]
        BY <1>1, <2>1, <3>1, <4>1
      <4> QED
        BY <4>2
    <3>3. CASE \E e \in Conns \ {c} : /\ Swept(e) /\ td[e] = td[c]
                                     /\ close_time[e] = close_time[c]
      BY <2>1, <2>2, <3>3
    <3> QED
      BY <3>1, <3>2, <3>3 DEF LeakOnlyOnSameSecond
  <2> QED
    BY <2>4, <2>5, <2>6, <2>7
<1> QED
  BY <1>3, <1>4, <1>5, <1>6, <1>7, <1>8 DEF WorkerStep, CloseStep

\* Verdicts and lifetimes are invariant.
LEMMA LifeStep ==
    HandoffInv /\ OwnInv /\ LifeInv /\ Homes /\ [Next]_vars => LifeInv'
<1> SUFFICES ASSUME HandoffInv, OwnInv, LifeInv, Homes, [Next]_vars
             PROVE  LifeInv'
  OBVIOUS
<1>1. Forward
  BY OwnStep
<1>2. CASE UNCHANGED vars
  <2>1. /\ UNCHANGED <<state, callback, object, close_time, td, clock, pc,
                       cur, for_delete_connections, now, thread_connections>>
        /\ TypeOK /\ clock \in Int
    BY <1>2 DEF vars, kernelVars, connVars, workerVars, HandoffInv, TypeOK,
       KernelOK
  <2>2. \A c \in Conns : Registered(c)' <=> Registered(c)
    BY <2>1 DEF Registered
  <2> QED
    BY <1>1, <2>1, <2>2, LifeKept
<1>3. ASSUME NEW w \in Workers, WorkerStep(w) PROVE LifeInv'
  BY <1>1, <1>3, CreateLife, ServeLife
<1> QED
  BY <1>1, <1>2, <1>3, OthersLife DEF Next

\* A step that registers nothing, adds no event and sweeps nothing.
LEMMA HomesKept ==
    ASSUME Homes, Forward, UNCHANGED <<td, read_event, thread_connections>>,
           \A w \in Workers :
               for_delete_connections'[w] \subseteq for_delete_connections[w],
           \A w \in Workers : pc'[w] = "close_sfd" =>
               pc[w] = "close_sfd" /\ cur'[w] = cur[w]
    PROVE  Homes'
<1>1. \A c \in Conns : Registered(c)' <=> Registered(c)
  BY DEF Registered
<1> QED
  BY <1>1 DEF Homes, Forward

\* A worker that creates a connection, or fails to.
LEMMA CreateHomes ==
    ASSUME HandoffInv, OwnInv, LifeInv, Homes, Forward, NEW w \in Workers,
           CreateStep(w)
    PROVE  Homes'
<1>0. PICK d \in Conns : d = cur[w]
  BY DEF CreateStep, CreateCheck, CreateDup, CreateRegister, CreateFails,
     NotifyReject, HandoffInv, AtHand, CreatePcs
<1>1. /\ pc \in [Workers -> WorkerPcs] /\ cur \in [Workers -> Conns \cup {NoConn}]
      /\ thread_connections \in [Workers -> SUBSET Conns]
      /\ for_delete_connections \in [Workers -> SUBSET Conns]
      /\ td \in [Conns -> Workers \cup {-1}]
      /\ read_event \in [Conns -> BOOLEAN]
      /\ UNCHANGED for_delete_connections
  BY DEF HandoffInv, TypeOK, WorkerOK, ConnOK, CreateStep, CreateCheck,
     CreateDup, CreateRegister, CreateFails, NotifyReject
<1>2. \A v \in Workers : pc'[v] = "close_sfd" =>
          v # w /\ pc[v] = "close_sfd" /\ cur'[v] = cur[v]
  BY <1>1 DEF CreateStep, CreateCheck, CreateDup, CreateRegister, CreateFails,
     NotifyReject, Goto, Leave
<1>3. CASE CreateCheck(w) \/ CreateDup(w) \/ NotifyReject(w)
  <2>1. UNCHANGED <<td, read_event, thread_connections>>
    BY <1>3 DEF CreateCheck, CreateDup, NotifyReject, connVars
  <2> QED
    BY <1>1, <1>2, <2>1, HomesKept
<1>4. pc[w] \in CreatePcs /\ Making(w, d)
  BY <1>0 DEF CreateStep, CreateCheck, CreateDup, CreateRegister, CreateFails,
     NotifyReject, Making, CreatePcs
<1>5. Unserved(d) /\ ~Registered(d) /\ ~Swept(d)
  BY <1>4, RegisteredServed DEF Unserved, LifeInv, Verdicts, Swept
<1>6. \A v \in Workers : /\ d \notin thread_connections[v]
                         /\ d \notin for_delete_connections[v]
                         /\ pc[v] = "close_sfd" => cur[v] # d
  BY <1>5 DEF Registered, LifeInv, Objects, OwnInv, TodoServed, Serving, ClosePcs
<1>7. \A v \in Workers : pc[v] = "close_sfd" => cur[v] \in Conns
  BY DEF HandoffInv, AtHand, ClosePcs
<1>8. CASE CreateFails(w)
  <2>1. /\ UNCHANGED <<td, thread_connections>>
        /\ \A c \in Conns \ {d} : read_event'[c] = read_event[c]
    BY <1>0, <1>1, <1>8 DEF CreateFails
  <2>2. td[d] = -1
    BY <1>5 DEF Homes
  <2>3. \A c \in Conns : Registered(c)' <=> Registered(c)
    BY <2>1 DEF Registered
  <2> QED
    BY <1>1, <1>2, <1>6, <1>7, <2>1, <2>2, <2>3 DEF Homes, Forward
<1>9. CASE CreateRegister(w)
  <2>1. /\ td' = [td EXCEPT ![d] = w]
        /\ read_event' = [read_event EXCEPT ![d] = TRUE]
        /\ thread_connections' = [thread_connections EXCEPT ![w] = @ \cup {d}]
    BY <1>0, <1>9 DEF CreateRegister
  <2>2. /\ Registered(d)'
        /\ \A c \in Conns \ {d} : Registered(c)' <=> Registered(c)
    BY <1>1, <2>1 DEF Registered
  <2>3. ~Unserved(d)'
    BY <1>9, <2>2, CreateOwn, RegisteredServedNext DEF CreateStep
  <2>4. \A c \in Conns : Unserved(c)' => td'[c] = -1
    BY <1>1, <2>1, <2>3 DEF Homes, Forward
  <2>5. \A v \in Workers : \A c \in thread_connections'[v] : td'[c] = v
    BY <1>1, <1>6, <2>1 DEF Homes
  <2>6. \A v \in Workers : \A c \in for_delete_connections'[v] : td'[c] = v
    BY <1>1, <1>6, <2>1 DEF Homes
  <2>7. \A c \in Conns : read_event'[c] /\ td'[c] # -1 => Registered(c)'
    BY <1>1, <2>1, <2>2 DEF Homes
  <2>8. \A v \in Workers : pc'[v] = "close_sfd" => ~read_event'[cur'[v]]
    BY <1>1, <1>2, <1>6, <1>7, <2>1 DEF Homes
  <2> QED
    BY <2>4, <2>5, <2>6, <2>7, <2>8 DEF Homes
<1> QED
  BY <1>3, <1>8, <1>9 DEF CreateStep

\* A worker that does anything else.
LEMMA ServeHomes ==
    ASSUME HandoffInv, OwnInv, Homes, Forward, NEW w \in Workers,
           WorkerStep(w), ~CreateStep(w)
    PROVE  Homes'
<1>1. /\ pc \in [Workers -> WorkerPcs] /\ cur \in [Workers -> Conns \cup {NoConn}]
      /\ thread_connections \in [Workers -> SUBSET Conns]
      /\ for_delete_connections \in [Workers -> SUBSET Conns]
      /\ read_event \in [Conns -> BOOLEAN]
  BY DEF HandoffInv, TypeOK, WorkerOK, ConnOK
<1>2. CASE CloseDup(w)
  <2>0. PICK d \in Conns : d = cur[w]
    BY <1>2 DEF CloseDup, HandoffInv, AtHand, ClosePcs
  <2>1. /\ UNCHANGED <<td, thread_connections, for_delete_connections, cur>>
        /\ read_event' = [read_event EXCEPT ![d] = FALSE]
        /\ pc' = [pc EXCEPT ![w] = "close_sfd"]
    BY <1>2, <2>0 DEF CloseDup, EventDeleted, Goto
  <2>2. \A c \in Conns : Registered(c)' <=> Registered(c)
    BY <2>1 DEF Registered
  <2>3. \A c \in Conns : read_event'[c] => read_event[c] /\ c # d
    BY <1>1, <2>1
  <2>4. \A v \in Workers : pc'[v] = "close_sfd" =>
            cur'[v] \in Conns /\ (v = w \/ pc[v] = "close_sfd")
    BY <1>1, <2>0, <2>1 DEF HandoffInv, AtHand, ClosePcs
  <2>5. \A v \in Workers : pc'[v] = "close_sfd" => ~read_event'[cur'[v]]
    BY <2>0, <2>1, <2>3, <2>4 DEF Homes
  <2> QED
    BY <2>1, <2>2, <2>3, <2>5 DEF Homes, Forward
<1>3. CASE CloseSfd(w)
  <2>0. PICK d \in Conns : d = cur[w]
    BY <1>3 DEF CloseSfd, HandoffInv, AtHand, ClosePcs
  <2>1. /\ pc[w] = "close_sfd"
        /\ pc' = [pc EXCEPT ![w] = "sweep"]
        /\ cur' = [cur EXCEPT ![w] = NoConn]
        /\ thread_connections' = [thread_connections EXCEPT ![w] = @ \ {d}]
        /\ for_delete_connections' = [for_delete_connections EXCEPT ![w] =
                                        ForDeleteWith(w, d)]
        /\ UNCHANGED <<td, read_event>>
    BY <1>3, <2>0 DEF CloseSfd, Leave, Goto, connVars
  <2>2. td[d] = w /\ ~read_event[d]
    BY <2>0, <2>1 DEF OwnInv, TodoServed, ClosePcs, Serving, Homes
  <2>3. \A c \in Conns \ {d} : Registered(c) => Registered(c)'
    BY <1>1, <2>1 DEF Registered
  <2>4. \A v \in Workers : \A c \in thread_connections'[v] :
            c \in thread_connections[v]
    BY <1>1, <2>1
  <2>5. \A v \in Workers : \A c \in for_delete_connections'[v] :
            c \in for_delete_connections[v] \/ (v = w /\ c = d)
    BY <1>1, <2>1 DEF ForDeleteWith
  <2>6. \A v \in Workers : pc'[v] = "close_sfd" =>
            pc[v] = "close_sfd" /\ cur'[v] = cur[v]
    BY <1>1, <2>1
  <2> QED
    BY <2>1, <2>2, <2>3, <2>4, <2>5, <2>6 DEF Homes, Forward
<1>4. CASE ConnectorLoop(w) \/ ConnectorPick(w) \/ ConnectorPush(w)
           \/ ConnectorNotify(w) \/ EpollWait(w) \/ NotifyRead(w)
           \/ EventsEnd(w) \/ CloseErase(w)
  <2>1. UNCHANGED <<td, read_event, thread_connections, for_delete_connections>>
    BY <1>4 DEF ConnectorLoop, ConnectorPick, ConnectorPush, ConnectorNotify,
       EpollWait, NotifyRead, EventsEnd, CloseErase, connVars
  <2>2. \A v \in Workers : pc'[v] = "close_sfd" =>
            pc[v] = "close_sfd" /\ cur'[v] = cur[v]
    BY <1>1, <1>4 DEF ConnectorLoop, ConnectorPick, ConnectorPush,
       ConnectorNotify, EpollWait, NotifyRead, EventsEnd, CloseErase, Goto
  <2> QED
    BY <2>1, <2>2, HomesKept
<1>5. CASE Reap(w) \/ \E c \in Conns : OnReadEnd(w, c) \/ SweepVisit(w, c)
  <2>1. UNCHANGED <<td, read_event, thread_connections>>
    BY <1>5 DEF Reap, OnReadEnd, SweepVisit, connVars
  <2>2. \A v \in Workers : pc'[v] = "close_sfd" =>
            pc[v] = "close_sfd" /\ cur'[v] = cur[v]
    BY <1>1, <1>5 DEF Reap, OnReadEnd, SweepVisit, Goto
  <2>3. \A v \in Workers :
            for_delete_connections'[v] \subseteq for_delete_connections[v]
    BY <1>1, <1>5 DEF Reap, OnReadEnd, SweepVisit
  <2> QED
    BY <2>1, <2>2, <2>3, HomesKept
<1> QED
  BY <1>2, <1>3, <1>4, <1>5 DEF WorkerStep, CloseStep

\* The homes of connections and of their events are invariant.
LEMMA HomesStep ==
    HandoffInv /\ OwnInv /\ LifeInv /\ Homes /\ [Next]_vars => Homes'
<1> SUFFICES ASSUME HandoffInv, OwnInv, LifeInv, Homes, [Next]_vars
             PROVE  Homes'
  OBVIOUS
<1>1. Forward
  BY OwnStep
<1>2. CASE UNCHANGED vars \/ AcceptStep \/ MainStep \/ PeerStep
  <2>1. CASE UNCHANGED vars
    BY <1>1, <2>1, HomesKept DEF vars, connVars, workerVars
  <2>2. CASE AcceptStep
    <3>1. UNCHANGED <<td, read_event, workerVars>>
      BY <2>2 DEF AcceptStep, ListenReady, AcceptLoopEnds, GivePick, GivePush,
         GiveNotify, Accept, AcceptFcntlFails, connVars
    <3> QED
      BY <1>1, <3>1, HomesKept DEF workerVars
  <2>3. CASE MainStep
    <3>1. UNCHANGED <<td, read_event, workerVars>>
      BY <2>3 DEF MainStep, ConnectSucceeds, ConnectFails, ConnectPush,
         ConnectSocket, MainClose, connVars
    <3> QED
      BY <1>1, <3>1, HomesKept DEF workerVars
  <2>4. CASE PeerStep
    <3>1. UNCHANGED <<td, read_event, workerVars>>
      BY <2>4 DEF PeerStep, Tick, PeerConnect, PeerDown, connVars
    <3> QED
      BY <1>1, <3>1, HomesKept DEF workerVars
  <2> QED
    BY <1>2, <2>1, <2>2, <2>3, <2>4
<1>3. ASSUME NEW w \in Workers, WorkerStep(w) PROVE Homes'
  BY <1>1, <1>3, CreateHomes, ServeHomes
<1> QED
  BY <1>2, <1>3 DEF Next

\* At the start no connector has been told anything and no object exists.
LEMMA LifeInit == Init => LifeInv /\ Homes
<1> SUFFICES ASSUME Init PROVE LifeInv /\ Homes
  OBVIOUS
<1>1. \A c \in Conns : ~Registered(c) /\ state[c] = "LISTEN"
                       /\ object[c] = "none" /\ callback[c] = <<>>
  BY DEF Init, Registered
<1>2. <<"failed">> # <<>> /\ <<"ok">> # <<>>
  OBVIOUS
<1>3. Verdicts
  BY <1>1, <1>2 DEF Verdicts
<1>4. Objects
  BY <1>1 DEF Init, Objects
<1>5. Homes
  BY DEF Init, Homes
<1> QED
  BY <1>1, <1>3, <1>4, <1>5 DEF LifeInv, GraceKept, LeakOnlyOnSameSecond, Swept

\* The three invariants together.
LEMMA LifeAlways == Spec => [](OwnInv /\ LifeInv /\ Homes)
  BY Init_Inv, Next_Inv, OwnInit, OwnStep, LifeInit, LifeStep, HomesStep, PTL
  DEF Spec

\* A connector's callback runs at most once, with "ok" exactly when a worker
\* has registered the connection, and after "failed" the object is gone:
\* whatever calls fail.
THEOREM VerdictOnce == Spec => []OneVerdict
<1>1. LifeInv => OneVerdict
  <2> SUFFICES ASSUME LifeInv, NEW c \in Connectors PROVE OneVerdict!(c)
    BY DEF OneVerdict
  <2>1. c \in Conns
    BY ConnsAssumption
  <2>2. \/ callback[c] = <<>> \/ callback[c] = <<"ok">>
        \/ callback[c] = <<"failed">>
    BY <2>1 DEF LifeInv, Verdicts
  <2>3. Len(callback[c]) <= 1
    <3>1. CASE callback[c] = <<>>
      BY <3>1
    <3>2. CASE callback[c] = <<"ok">>
      BY <3>2
    <3>3. CASE callback[c] = <<"failed">>
      BY <3>3
    <3> QED
      BY <2>2, <3>1, <3>2, <3>3
  <2> QED
    BY <2>1, <2>3 DEF LifeInv, Verdicts, Swept
<1> QED
  BY <1>1, LifeAlways, PTL

\* No Connection object is deleted before DeleteDelay seconds have passed
\* since its close.
THEOREM GraceHolds == Spec => []GraceKept
  BY LifeAlways, PTL DEF LifeInv

\* The object of a connection that was served and swept waits for its deletion
\* or is deleted, unless another of the same worker was closed in the same
\* second.  (Objects that never were registered are not its subject: the one of
\* a connector whose notification byte is lost stays allocated too.)
THEOREM LeakOnlyThen == Spec => []LeakOnlyOnSameSecond
  BY LifeAlways, PTL DEF LifeInv

\* Whatever calls fail, a base keeps the event of a deleted object only where
\* create_conn failed on the write event: conn_internal_close deletes the event
\* of every connection that was registered before the object goes.
THEOREM EventsDeleted == Spec => []NoStaleEvent
<1>1. LifeInv /\ Homes => NoStaleEvent
  BY DEF LifeInv, Objects, Homes, NoStaleEvent
<1> QED
  BY <1>1, LifeAlways, PTL

-----------------------------------------------------------------------------
(* Descriptors *)

\* accept() or net_connect has given c a descriptor, and its worker has not
\* finished closing it.
HoldsFd(c) == /\ Unserved(c) \/ Registered(c)
              /\ c \notin backlog
              /\ peer[c] = "idle" => WithMain(c)

\* So has create_conn a duplicate, until conn_internal_close reaches it.
HoldsDup(w, c) == /\ Serving(w, c) \/ (pc[w] = "add" /\ cur[w] = c)
                  /\ ~(pc[w] = "close_sfd" /\ cur[w] = c)

\* c is registered, and its entry in s_conns_map not yet erased.
Mapped(w, c) ==
    Serving(w, c) /\ ~(pc[w] \in {"close_dup", "close_sfd"} /\ cur[w] = c)

FdsHeld == \A c \in Conns :
               HoldsFd(c) => sfd[c] \in Fds /\ fd_table[sfd[c]] = c

DupsHeld == \A c \in Conns, w \in Workers :
                HoldsDup(w, c) /\ sfd_dup[c] # NoFd =>
                    fd_table[sfd_dup[c]] = c /\ sfd_dup[c] # sfd[c]

MapHeld == \A f \in Fds : s_conns_map[f] # NoConn =>
               /\ sfd[s_conns_map[f]] = f
               /\ \E w \in Workers : Mapped(w, s_conns_map[f])

DescInv == /\ \A w \in Workers : pc[w] # "reject"
           /\ FdsHeld /\ DupsHeld /\ MapHeld

\* What a worker has been given has a descriptor.
LEMMA ClaimHolds ==
    ASSUME OwnInv, NEW c \in Conns, NEW w \in Workers, Claims(w, c)
    PROVE  HoldsFd(c)
<1>1. ~Upstream(c)
  BY DEF OwnInv, OneClaim
<1> QED
  BY <1>1 DEF Claims, Upstream, Serving, Registered, Unserved, HoldsFd

\* A step that opens, closes and registers nothing.
LEMMA DescKept ==
    ASSUME DescInv, TypeOK,
           UNCHANGED <<fd_table, sfd, sfd_dup, s_conns_map>>,
           \A w \in Workers : pc'[w] # "reject",
           \A c \in Conns : HoldsFd(c)' => HoldsFd(c),
           \A c \in Conns, w \in Workers : /\ HoldsDup(w, c)' => HoldsDup(w, c)
                                           /\ Mapped(w, c) => Mapped(w, c)'
    PROVE  DescInv'
<1>1. FdsHeld'
  BY DEF DescInv, FdsHeld
<1>2. DupsHeld'
  BY DEF DescInv, DupsHeld
<1>3. MapHeld'
  BY DEF DescInv, MapHeld, TypeOK, SharedOK
<1> QED
  BY <1>1, <1>2, <1>3 DEF DescInv

\* A socket is opened on a free descriptor for a connection no worker has.
LEMMA DescOpens ==
    ASSUME HandoffInv, OwnInv, DescInv, NEW d \in Conns, NEW f \in FreeFds,
           Upstream(d),
           fd_table' = [fd_table EXCEPT ![f] = d],
           sfd' = [sfd EXCEPT ![d] = f],
           UNCHANGED <<sfd_dup, s_conns_map, pc, cur, thread_connections>>,
           \A c \in Conns \ {d} : HoldsFd(c)' => HoldsFd(c)
    PROVE  DescInv'
<1>1. /\ fd_table \in [Fds -> Conns \cup {NoConn}]
      /\ sfd \in [Conns -> Fds \cup {NoFd}]
      /\ s_conns_map \in [Fds -> Conns \cup {NoConn}]
      /\ f \in Fds /\ fd_table[f] = NoConn
  BY DEF HandoffInv, TypeOK, KernelOK, ConnOK, SharedOK, FreeFds
<1>2. \A w \in Workers : ~Claims(w, d)
  BY DEF OwnInv, OneClaim
<1>3. FdsHeld'
  BY <1>1, ConnsAssumption DEF DescInv, FdsHeld
<1>4. DupsHeld'
  <2>1. \A c \in Conns, w \in Workers : HoldsDup(w, c)' => HoldsDup(w, c) /\ c # d
    BY <1>2 DEF HoldsDup, Serving, Claims, Making, CreatePcs
  <2>2. \A c \in Conns \ {d} : sfd'[c] = sfd[c]
    BY <1>1
  <2>3. ASSUME NEW c \in Conns, NEW w \in Workers, HoldsDup(w, c)',
               sfd_dup[c] # NoFd
        PROVE  fd_table'[sfd_dup[c]] = c /\ sfd_dup[c] # sfd'[c]
    <3>1. fd_table[sfd_dup[c]] = c /\ sfd_dup[c] # sfd[c]
      BY <2>1, <2>3 DEF DescInv, DupsHeld
    <3>2. sfd_dup[c] \in Fds /\ sfd_dup[c] # f
      BY <1>1, <2>3, <3>1, ConnsAssumption DEF HandoffInv, TypeOK, ConnOK
    <3> QED
      BY <1>1, <2>1, <2>2, <2>3, <3>1, <3>2
  <2> QED
    BY <2>3 DEF DupsHeld
<1>5. MapHeld'
  <2>1. \A c \in Conns, w \in Workers : Mapped(w, c) => Mapped(w, c)' /\ c # d
    BY <1>2 DEF Mapped, Serving, Claims
  <2> QED
    BY <1>1, <2>1 DEF DescInv, MapHeld
<1> QED
  BY <1>3, <1>4, <1>5 DEF DescInv

\* Accept thread and peers.
LEMMA AcceptDesc ==
    ASSUME HandoffInv, OwnInv, DescInv, Forward, AcceptStep \/ PeerStep
    PROVE  DescInv'
<1>1. UNCHANGED <<pc, cur, thread_connections, main, s_conns_map, sfd_dup>>
  <2>1. CASE AcceptStep
    BY <2>1 DEF AcceptStep, ListenReady, AcceptLoopEnds, GivePick, GivePush,
       GiveNotify, Accept, AcceptFcntlFails, sharedVars, connVars, workerVars
  <2>2. CASE PeerStep
    BY <2>2 DEF PeerStep, Tick, PeerConnect, PeerDown, sharedVars, connVars,
       workerVars
  <2> QED
    BY <2>1, <2>2
<1>2. /\ TypeOK
      /\ \A c \in Conns : Registered(c)' <=> Registered(c)
      /\ \A c \in Conns, w \in Workers : /\ HoldsDup(w, c)' <=> HoldsDup(w, c)
                                         /\ Mapped(w, c)' <=> Mapped(w, c)
      /\ \A w \in Workers : pc'[w] # "reject"
      /\ \A c \in Conns : WithMain(c)' <=> WithMain(c)
  BY <1>1 DEF HandoffInv, Registered, HoldsDup, Mapped, Serving, DescInv,
     WithMain
<1>3. CASE ListenReady \/ AcceptLoopEnds \/ GivePick \/ GivePush \/ GiveNotify
           \/ Tick \/ \E c \in Conns : PeerDown(c)
  <2>1. /\ UNCHANGED <<fd_table, sfd, backlog>>
        /\ \A c \in Conns : peer'[c] = "idle" <=> peer[c] = "idle"
    BY <1>2, <1>3 DEF ListenReady, AcceptLoopEnds, GivePick, GivePush, GiveNotify,
       Tick, PeerDown, kernelVars, connVars, TypeOK, KernelOK
  <2>2. \A c \in Conns : HoldsFd(c)' => HoldsFd(c)
    BY <1>2, <2>1 DEF HoldsFd, Forward
  <2> QED
    BY <1>1, <1>2, <2>1, <2>2, DescKept
<1>4. ASSUME NEW d \in Conns, PeerConnect(d) PROVE DescInv'
  <2>1. /\ UNCHANGED <<fd_table, sfd>>
        /\ backlog' = backlog \cup {d}
        /\ peer' = [peer EXCEPT ![d] = "connected"]
        /\ peer \in [Conns -> {"idle", "connected", "down"}]
    BY <1>2, <1>4 DEF PeerConnect, connVars, TypeOK, KernelOK
  <2>2. \A c \in Conns : HoldsFd(c)' => HoldsFd(c)
    BY <1>2, <2>1 DEF HoldsFd, Forward
  <2> QED
    BY <1>1, <1>2, <2>1, <2>2, DescKept
<1>5. ASSUME NEW d \in Conns, AcceptFcntlFails(d) PROVE DescInv'
  <2>1. /\ d \in backlog /\ backlog' = backlog \ {d}
        /\ UNCHANGED <<fd_table, sfd, peer, acceptor, s_connect_conns,
                       new_connections>>
    BY <1>5 DEF AcceptFcntlFails, sharedVars, connVars
  <2>2. \A w \in Workers : ~Claims(w, d)
    BY <2>1 DEF OwnInv, OneClaim, Upstream
  <2>3. /\ d \notin Connectors /\ ~WithAcceptor(d) /\ peer[d] # "idle"
        /\ ~WithMain(d) /\ ~Has(s_connect_conns, d)
    BY <2>1 DEF OwnInv, Arrival
  <2>4. ~Waiting(d)
    <3>1. ASSUME HeadPushed PROVE s_connect_conns \in Seq(Conns) /\ s_connect_conns # <<>>
      BY <3>1 DEF HeadPushed, HandoffInv, ConnectLock, ConnectorPcs, TypeOK, SharedOK
    <3> QED
      BY <2>3, <3>1, TailHas DEF Waiting
  <2>5. ~Upstream(d)'
    BY <1>1, <2>1, <2>3, <2>4
    DEF Upstream, WithAcceptor, WithMain, Waiting, HeadPushed
  <2>6. ~Unserved(d)' /\ ~Registered(d)'
    BY <1>1, <1>2, <2>1, <2>2, <2>5
    DEF Unserved, Registered, Claims, Serving, QueuedFor, Making
  <2>7. \A c \in Conns : HoldsFd(c)' => HoldsFd(c)
    BY <1>2, <2>1, <2>6 DEF HoldsFd, Forward
  <2> QED
    BY <1>1, <1>2, <2>1, <2>7, DescKept
<1>6. ASSUME NEW d \in Conns, Accept(d) PROVE DescInv'
  <2>1. PICK f \in LowestFree : /\ fd_table' = [fd_table EXCEPT ![f] = d]
                                /\ sfd' = [sfd EXCEPT ![d] = f]
    BY <1>6 DEF Accept
  <2>2. f \in FreeFds /\ Upstream(d)
    BY <1>6, <2>1 DEF LowestFree, Accept, Upstream
  <2>3. \A c \in Conns \ {d} : HoldsFd(c)' => HoldsFd(c)
    BY <1>2, <1>6 DEF Accept, HoldsFd, Forward
  <2> QED
    BY <1>1, <2>1, <2>2, <2>3, DescOpens
<1> QED
  BY <1>3, <1>4, <1>5, <1>6 DEF AcceptStep, PeerStep

\* Main thread.
LEMMA MainDesc ==
    ASSUME HandoffInv, OwnInv, DescInv, Forward, MainStep
    PROVE  DescInv'
<1>1. UNCHANGED <<pc, cur, thread_connections, backlog, s_conns_map, sfd_dup>>
  BY DEF MainStep, ConnectSucceeds, ConnectFails, ConnectPush, ConnectSocket,
     MainClose, kernelVars, sharedVars, connVars, workerVars
<1>2. /\ TypeOK
      /\ \A c \in Conns : Registered(c)' <=> Registered(c)
      /\ \A c \in Conns, w \in Workers : /\ HoldsDup(w, c)' <=> HoldsDup(w, c)
                                         /\ Mapped(w, c)' <=> Mapped(w, c)
      /\ \A w \in Workers : pc'[w] # "reject"
  BY <1>1 DEF HandoffInv, Registered, HoldsDup, Mapped, Serving, DescInv
<1>3. ASSUME NEW c \in Conns, MainClose(c) PROVE DescInv'
  <2>1. UNCHANGED <<fd_table, sfd, peer, main>>
    BY <1>3 DEF MainClose, kernelVars
  <2>2. \A e \in Conns : HoldsFd(e)' => HoldsFd(e)
    BY <1>1, <1>2, <2>1 DEF HoldsFd, WithMain, Forward
  <2> QED
    BY <1>1, <1>2, <2>1, <2>2, DescKept
<1>4. CASE ConnectPush
  <2>1. /\ UNCHANGED <<fd_table, sfd, peer>>
        /\ main' = [pc |-> "idle", conn |-> NoConn]
    BY <1>4 DEF ConnectPush, kernelVars, connVars
  <2>2. \A e \in Conns : HoldsFd(e)' => HoldsFd(e)
    BY <1>1, <1>2, <2>1 DEF HoldsFd, WithMain, Forward
  <2> QED
    BY <1>1, <1>2, <2>1, <2>2, DescKept
<1>5. CASE ConnectSucceeds
  <2>0. PICK d \in Conns : d = main.conn
    BY <1>5 DEF ConnectSucceeds, HandoffInv, AtHand
  <2>1. /\ UNCHANGED <<fd_table, sfd>>
        /\ WithMain(d)
        /\ main' = [main EXCEPT !.pc = "push"]
        /\ peer' = [peer EXCEPT ![d] = "connected"]
        /\ peer \in [Conns -> {"idle", "connected", "down"}]
    BY <1>2, <1>5, <2>0 DEF ConnectSucceeds, WithMain, TypeOK, KernelOK
  <2>2. main'.conn = main.conn
    BY <1>2, <2>1 DEF TypeOK, ThreadsOK
  <2>3. \A e \in Conns : HoldsFd(e)' => HoldsFd(e)
    BY <1>1, <1>2, <2>1, <2>2 DEF HoldsFd, WithMain, Forward
  <2> QED
    BY <1>1, <1>2, <2>1, <2>3, DescKept
<1>6. ASSUME NEW d \in Conns, ConnectSocket(d) PROVE DescInv'
  <2>1. PICK f \in LowestFree : /\ fd_table' = [fd_table EXCEPT ![f] = d]
                                /\ sfd' = [sfd EXCEPT ![d] = f]
    BY <1>6 DEF ConnectSocket
  <2>2. f \in FreeFds /\ Upstream(d)
    BY <1>6, <2>1 DEF LowestFree, ConnectSocket, Upstream
  <2>3. \A c \in Conns \ {d} : HoldsFd(c)' => HoldsFd(c)
    <3>1. main' = [pc |-> "connect", conn |-> d] /\ UNCHANGED peer
      BY <1>6 DEF ConnectSocket
    <3> QED
      BY <1>1, <1>2, <3>1 DEF HoldsFd, WithMain, Forward
  <2> QED
    BY <1>1, <2>1, <2>2, <2>3, DescOpens
<1>7. CASE ConnectFails
  <2>0. PICK d \in Conns : d = main.conn
    BY <1>7 DEF ConnectFails, HandoffInv, AtHand
  <2>1. /\ fd_table' = Closed(fd_table, sfd[d])
        /\ sfd' = [sfd EXCEPT ![d] = NoFd]
        /\ main' = [pc |-> "idle", conn |-> NoConn]
        /\ main.pc = "connect" /\ WithMain(d)
        /\ UNCHANGED peer
    BY <1>7, <2>0 DEF ConnectFails, WithMain
  <2>2. d \in Connectors /\ peer[d] = "idle" /\ d \notin backlog
    BY <2>1 DEF OwnInv, Arrival
  <2>3. HoldsFd(d) /\ \A w \in Workers : ~Claims(w, d)
    BY <2>1, <2>2 DEF OwnInv, OneClaim, HoldsFd, Unserved, Upstream
  <2>4. ~HoldsFd(d)' /\ \A c \in Conns \ {d} : HoldsFd(c)' => HoldsFd(c)
    BY <1>1, <1>2, <2>1, <2>2 DEF HoldsFd, WithMain, Forward
  <2>5. /\ fd_table \in [Fds -> Conns \cup {NoConn}]
        /\ sfd \in [Conns -> Fds \cup {NoFd}]
        /\ sfd_dup \in [Conns -> Fds \cup {NoFd}]
        /\ s_conns_map \in [Fds -> Conns \cup {NoConn}]
        /\ sfd[d] \in Fds /\ fd_table[sfd[d]] = d
    BY <1>2, <2>3 DEF TypeOK, KernelOK, SharedOK, ConnOK, DescInv, FdsHeld
  <2>6. FdsHeld'
    BY <2>1, <2>4, <2>5 DEF DescInv, FdsHeld, Closed
  <2>7. DupsHeld'
    <3>1. ASSUME NEW c \in Conns, NEW w \in Workers, HoldsDup(w, c)',
                 sfd_dup[c] # NoFd
          PROVE  fd_table'[sfd_dup[c]] = c /\ sfd_dup[c] # sfd'[c]
      <4>1. fd_table[sfd_dup[c]] = c /\ sfd_dup[c] # sfd[c]
        BY <1>2, <3>1 DEF DescInv, DupsHeld
      <4>2. c # d
        BY <1>2, <2>3, <3>1 DEF HoldsDup, Claims, Making, CreatePcs
      <4> QED
        BY <2>1, <2>5, <3>1, <4>1, <4>2 DEF Closed
    <3> QED
      BY <1>1, <3>1 DEF DupsHeld
  <2>8. MapHeld'
    <3>1. \A c \in Conns, w \in Workers : Mapped(w, c) => Mapped(w, c)' /\ c # d
      BY <1>2, <2>3 DEF Mapped, Claims
    <3> QED
      BY <1>1, <2>1, <2>5, <3>1 DEF DescInv, MapHeld
  <2> QED
    BY <1>2, <2>6, <2>7, <2>8 DEF DescInv
<1> QED
  BY <1>3, <1>4, <1>5, <1>6, <1>7 DEF MainStep

\* A worker inside create_conn: nothing is refused, and the duplicate is a
\* descriptor of its own.
LEMMA CreateDesc ==
    ASSUME "event_add" \notin Faults, HandoffInv, OwnInv, DescInv, Forward,
           NEW w \in Workers, CreateStep(w)
    PROVE  DescInv'
<1>0. PICK d \in Conns : d = cur[w]
  BY DEF CreateStep, CreateCheck, CreateDup, CreateRegister, CreateFails,
     NotifyReject, HandoffInv, AtHand, CreatePcs
<1>1. /\ TypeOK
      /\ pc \in [Workers -> WorkerPcs]
      /\ cur \in [Workers -> Conns \cup {NoConn}]
      /\ thread_connections \in [Workers -> SUBSET Conns]
      /\ fd_table \in [Fds -> Conns \cup {NoConn}]
      /\ sfd \in [Conns -> Fds \cup {NoFd}]
      /\ sfd_dup \in [Conns -> Fds \cup {NoFd}]
      /\ s_conns_map \in [Fds -> Conns \cup {NoConn}]
  BY DEF HandoffInv, TypeOK, KernelOK, SharedOK, ConnOK, WorkerOK
<1>2. pc[w] \in CreatePcs /\ Making(w, d)
  BY <1>0 DEF CreateStep, CreateCheck, CreateDup, CreateRegister, CreateFails,
     NotifyReject, Making, CreatePcs
<1>3. /\ Claims(w, d)
      /\ \A v \in Workers : ~Serving(v, d)
      /\ \A v \in Workers : v # w => ~Making(v, d)
  BY <1>2 DEF Claims, OwnInv, OneClaim
<1>4. HoldsFd(d) /\ sfd[d] \in Fds /\ fd_table[sfd[d]] = d
  BY <1>3, ClaimHolds DEF DescInv, FdsHeld
<1>5. d # NoConn /\ Socket(sfd[d]) = d
  BY <1>4, ConnsAssumption DEF Socket
<1>6. UNCHANGED <<peer, backlog, main>>
  BY DEF CreateStep, CreateCheck, CreateDup, CreateRegister, CreateFails,
     NotifyReject, kernelVars
<1>7. CASE CreateCheck(w)
  <2>1. s_conns_map[sfd[d]] = NoConn
    <3> SUFFICES ASSUME s_conns_map[sfd[d]] # NoConn PROVE FALSE
      OBVIOUS
    <3>1. PICK e \in Conns : e = s_conns_map[sfd[d]]
      BY <1>1, <1>4
    <3>2. PICK v \in Workers : Mapped(v, e)
      BY <1>4, <3>1 DEF DescInv, MapHeld
    <3>3. sfd[e] = sfd[d]
      BY <1>4, <3>1 DEF DescInv, MapHeld
    <3>4. fd_table[sfd[e]] = e
      BY <3>2, ClaimHolds DEF Mapped, Claims, DescInv, FdsHeld
    <3> QED
      BY <1>3, <1>4, <3>2, <3>3, <3>4 DEF Mapped
  <2>2. /\ pc' = [pc EXCEPT ![w] = "dup"] /\ pc[w] = "check"
        /\ UNCHANGED <<fd_table, sfd, sfd_dup, s_conns_map, cur,
                       thread_connections>>
    BY <1>0, <1>7, <2>1 DEF CreateCheck, Goto, kernelVars, sharedVars, connVars
  <2>3. \A c \in Conns : HoldsFd(c)' => HoldsFd(c)
    BY <1>6, <2>2 DEF HoldsFd, Registered, WithMain, Forward
  <2>4. \A c \in Conns, v \in Workers : /\ HoldsDup(v, c)' => HoldsDup(v, c)
                                        /\ Mapped(v, c) => Mapped(v, c)'
    BY <1>1, <2>2 DEF HoldsDup, Mapped, Serving
  <2>5. \A v \in Workers : pc'[v] # "reject"
    BY <1>1, <2>2 DEF DescInv
  <2> QED
    BY <1>1, <2>2, <2>3, <2>4, <2>5, DescKept
<1>8. CASE CreateDup(w)
  <2>0. PICK g \in Dup(sfd[cur[w]]) :
          /\ sfd_dup' = [sfd_dup EXCEPT ![cur[w]] = g]
          /\ fd_table' = [f \in Fds |-> IF f = g THEN Socket(sfd[cur[w]])
                                                ELSE fd_table[f]]
    BY <1>8 DEF CreateDup
  <2>1. /\ g \in Dup(sfd[d])
        /\ sfd_dup' = [sfd_dup EXCEPT ![d] = g]
        /\ fd_table' = [f \in Fds |-> IF f = g THEN d ELSE fd_table[f]]
    BY <1>0, <1>5, <2>0
  <2>2. g = NoFd \/ (g \in Fds /\ fd_table[g] = NoConn)
    BY <2>1 DEF Dup, LowestFree, FreeFds
  <2>3. /\ UNCHANGED <<sfd, s_conns_map, cur, thread_connections>>
        /\ pc' = [pc EXCEPT ![w] = "add"] /\ pc[w] = "dup"
    BY <1>8 DEF CreateDup, Goto, sharedVars
  <2>4. \A c \in Conns : HoldsFd(c)' => HoldsFd(c)
    BY <1>6, <2>3 DEF HoldsFd, Registered, WithMain, Forward
  <2>5. FdsHeld'
    BY <1>1, <2>1, <2>2, <2>3, <2>4, FdsAssumption, ConnsAssumption
    DEF DescInv, FdsHeld
  <2>6. DupsHeld'
    <3> SUFFICES ASSUME NEW c \in Conns, NEW v \in Workers, HoldsDup(v, c)',
                        sfd_dup'[c] # NoFd
                 PROVE  fd_table'[sfd_dup'[c]] = c /\ sfd_dup'[c] # sfd'[c]
      BY DEF DupsHeld
    <3>1. CASE c = d
      BY <1>1, <1>4, <1>5, <2>1, <2>2, <2>3, <3>1, FdsAssumption
    <3>2. CASE c # d
      <4>1. HoldsDup(v, c)
        BY <1>0, <1>1, <2>3, <3>2 DEF HoldsDup, Serving
      <4>2. sfd_dup'[c] = sfd_dup[c] /\ sfd_dup[c] \in Fds
        BY <1>1, <2>1, <3>2
      <4>3. fd_table[sfd_dup[c]] = c /\ sfd_dup[c] # sfd[c]
        BY <4>1, <4>2, FdsAssumption DEF DescInv, DupsHeld
      <4> QED
        BY <2>1, <2>2, <2>3, <4>2, <4>3, FdsAssumption, ConnsAssumption
    <3> QED
      BY <3>1, <3>2
  <2>7. MapHeld'
    <3>1. \A c \in Conns, v \in Workers : Mapped(v, c) => Mapped(v, c)'
      BY <1>1, <2>3 DEF Mapped, Serving
    <3> QED
      BY <1>1, <2>3, <3>1 DEF DescInv, MapHeld
  <2>8. \A v \in Workers : pc'[v] # "reject"
    BY <1>1, <2>3 DEF DescInv
  <2> QED
    BY <2>5, <2>6, <2>7, <2>8 DEF DescInv
<1>9. CASE CreateRegister(w)
  <2>1. /\ UNCHANGED <<fd_table, sfd, sfd_dup>>
        /\ pc' = [pc EXCEPT ![w] = "events"] /\ pc[w] = "add"
        /\ cur' = [cur EXCEPT ![w] = NoConn]
        /\ thread_connections' = [thread_connections EXCEPT ![w] = @ \cup {d}]
        /\ s_conns_map' = [s_conns_map EXCEPT ![sfd[d]] = d]
    BY <1>0, <1>9 DEF CreateRegister, Leave, Goto, kernelVars
  <2>2. \A c \in Conns : HoldsFd(c)' => HoldsFd(c)
    <3>1. \A c \in Conns \ {d} : Registered(c)' => Registered(c)
      BY <1>1, <2>1 DEF Registered
    <3> QED
      BY <1>4, <1>6, <3>1 DEF HoldsFd, WithMain, Forward
  <2>3. FdsHeld'
    BY <2>1, <2>2 DEF DescInv, FdsHeld
  <2>4. DupsHeld'
    <3>1. \A c \in Conns, v \in Workers : HoldsDup(v, c)' => HoldsDup(v, c)
      BY <1>0, <1>1, <2>1 DEF HoldsDup, Serving
    <3> QED
      BY <2>1, <3>1 DEF DescInv, DupsHeld
  <2>5. MapHeld'
    <3>1. \A c \in Conns, v \in Workers : Mapped(v, c) => Mapped(v, c)'
      BY <1>1, <2>1 DEF Mapped, Serving
    <3>2. Mapped(w, d)'
      BY <1>1, <2>1 DEF Mapped, Serving
    <3> QED
      BY <1>1, <1>4, <2>1, <3>1, <3>2 DEF DescInv, MapHeld
  <2>6. \A v \in Workers : pc'[v] # "reject"
    BY <1>1, <2>1 DEF DescInv
  <2> QED
    BY <2>3, <2>4, <2>5, <2>6 DEF DescInv
<1>10. ~CreateFails(w) /\ ~NotifyReject(w)
  BY <1>0, <1>5 DEF CreateFails, NotifyReject, DescInv
<1> QED
  BY <1>7, <1>8, <1>9, <1>10 DEF CreateStep

\* A worker inside conn_internal_close: the map entry goes first, then the
\* duplicate, then the descriptor itself, and each of them is its own.
LEMMA CloseDesc ==
    ASSUME HandoffInv, OwnInv, DescInv, Forward, NEW w \in Workers,
           CloseStep(w)
    PROVE  DescInv'
<1>0. PICK d \in Conns : d = cur[w]
  BY DEF CloseStep, CloseErase, CloseDup, CloseSfd, HandoffInv, AtHand, ClosePcs
<1>1. /\ TypeOK
      /\ pc \in [Workers -> WorkerPcs]
      /\ cur \in [Workers -> Conns \cup {NoConn}]
      /\ thread_connections \in [Workers -> SUBSET Conns]
      /\ fd_table \in [Fds -> Conns \cup {NoConn}]
      /\ sfd \in [Conns -> Fds \cup {NoFd}]
      /\ sfd_dup \in [Conns -> Fds \cup {NoFd}]
      /\ s_conns_map \in [Fds -> Conns \cup {NoConn}]
  BY DEF HandoffInv, TypeOK, KernelOK, SharedOK, ConnOK, WorkerOK
<1>2. pc[w] \in ClosePcs /\ Serving(w, d)
  BY <1>0 DEF CloseStep, CloseErase, CloseDup, CloseSfd, ClosePcs, OwnInv,
     TodoServed
<1>3. /\ Claims(w, d)
      /\ \A v \in Workers : v # w => ~Claims(v, d)
      /\ ~Unserved(d)
  BY <1>2, RegisteredServed DEF Claims, OwnInv, OneClaim, Serving, Registered
<1>4. HoldsFd(d) /\ sfd[d] \in Fds /\ fd_table[sfd[d]] = d
  BY <1>3, ClaimHolds DEF DescInv, FdsHeld
<1>5. UNCHANGED <<peer, backlog, main>>
  BY DEF CloseStep, CloseErase, CloseDup, CloseSfd, kernelVars
<1>6. CASE CloseErase(w)
  <2>1. /\ UNCHANGED <<fd_table, sfd, sfd_dup, cur, thread_connections>>
        /\ pc' = [pc EXCEPT ![w] = "close_dup"] /\ pc[w] = "erase"
        /\ s_conns_map' = [s_conns_map EXCEPT ![sfd[d]] = NoConn]
    BY <1>0, <1>6 DEF CloseErase, Unmapped, Goto, kernelVars, connVars
  <2>2. \A c \in Conns : HoldsFd(c)' => HoldsFd(c)
    BY <1>5, <2>1 DEF HoldsFd, Registered, WithMain, Forward
  <2>3. FdsHeld'
    BY <2>1, <2>2 DEF DescInv, FdsHeld
  <2>4. DupsHeld'
    <3>1. \A c \in Conns, v \in Workers : HoldsDup(v, c)' => HoldsDup(v, c)
      BY <1>1, <2>1 DEF HoldsDup, Serving
    <3> QED
      BY <2>1, <3>1 DEF DescInv, DupsHeld
  <2>5. MapHeld'
    <3>1. \A c \in Conns \ {d}, v \in Workers : Mapped(v, c) => Mapped(v, c)'
      BY <1>0, <1>1, <2>1 DEF Mapped, Serving
    <3> QED
      BY <1>1, <1>4, <2>1, <3>1 DEF DescInv, MapHeld
  <2>6. \A v \in Workers : pc'[v] # "reject"
    BY <1>1, <2>1 DEF DescInv
  <2> QED
    BY <2>3, <2>4, <2>5, <2>6 DEF DescInv
<1>7. CASE CloseDup(w)
  <2>1. /\ UNCHANGED <<s_conns_map, sfd, sfd_dup, cur, thread_connections>>
        /\ pc' = [pc EXCEPT ![w] = "close_sfd"] /\ pc[w] = "close_dup"
        /\ fd_table' = Closed(fd_table, sfd_dup[d])
    BY <1>0, <1>7 DEF CloseDup, DupClosed, Goto, sharedVars, connVars
  <2>2. sfd_dup[d] \in Fds => fd_table[sfd_dup[d]] = d /\ sfd_dup[d] # sfd[d]
    <3>1. HoldsDup(w, d)
      BY <1>2, <2>1 DEF HoldsDup
    <3> QED
      BY <3>1, FdsAssumption DEF DescInv, DupsHeld
  <2>3. \A f \in Fds : f # sfd_dup[d] => fd_table'[f] = fd_table[f]
    BY <2>1 DEF Closed
  <2>4. \A c \in Conns : HoldsFd(c)' => HoldsFd(c)
    BY <1>5, <2>1 DEF HoldsFd, Registered, WithMain, Forward
  <2>5. FdsHeld'
    <3> SUFFICES ASSUME NEW c \in Conns, HoldsFd(c)
                 PROVE  sfd[c] \in Fds /\ fd_table'[sfd[c]] = c
      BY <2>1, <2>4 DEF FdsHeld
    <3>1. sfd[c] \in Fds /\ fd_table[sfd[c]] = c
      BY DEF DescInv, FdsHeld
    <3>2. sfd[c] # sfd_dup[d]
      BY <2>2, <3>1
    <3> QED
      BY <2>3, <3>1, <3>2
  <2>6. DupsHeld'
    <3> SUFFICES ASSUME NEW c \in Conns, NEW v \in Workers, HoldsDup(v, c)',
                        sfd_dup[c] # NoFd
                 PROVE  fd_table'[sfd_dup[c]] = c /\ sfd_dup[c] # sfd[c]
      BY <2>1 DEF DupsHeld
    <3>1. c # d
      BY <1>0, <1>1, <1>3, <2>1
      DEF HoldsDup, Serving, Claims, Making, CreatePcs
    <3>2. HoldsDup(v, c)
      BY <1>1, <2>1 DEF HoldsDup, Serving
    <3>3. /\ sfd_dup[c] \in Fds
          /\ fd_table[sfd_dup[c]] = c /\ sfd_dup[c] # sfd[c]
      BY <1>1, <3>2 DEF DescInv, DupsHeld
    <3> QED
      BY <2>2, <2>3, <3>1, <3>3
  <2>7. MapHeld'
    <3>1. \A c \in Conns, v \in Workers : Mapped(v, c) => Mapped(v, c)'
      BY <1>1, <2>1 DEF Mapped, Serving
    <3> QED
      BY <1>1, <2>1, <3>1 DEF DescInv, MapHeld
  <2>8. \A v \in Workers : pc'[v] # "reject"
    BY <1>1, <2>1 DEF DescInv
  <2> QED
    BY <2>5, <2>6, <2>7, <2>8 DEF DescInv
<1>8. CASE CloseSfd(w)
  <2>1. /\ UNCHANGED <<s_conns_map, sfd, sfd_dup>>
        /\ pc' = [pc EXCEPT ![w] = "sweep"] /\ pc[w] = "close_sfd"
        /\ cur' = [cur EXCEPT ![w] = NoConn]
        /\ thread_connections' = [thread_connections EXCEPT ![w] = @ \ {d}]
        /\ fd_table' = SfdClosed(d)
    BY <1>0, <1>8 DEF CloseSfd, Leave, Goto, connVars
  <2>2. \A f \in Fds : f # sfd[d] => fd_table'[f] = fd_table[f]
    BY <1>1, <2>1 DEF SfdClosed, Closed
  <2>3. /\ ~Registered(d)' /\ ~Unserved(d)'
        /\ \A c \in Conns : Registered(c)' => Registered(c)
    BY <1>1, <1>3, <2>1 DEF Registered, Claims, Serving, Forward
  <2>4. ~HoldsFd(d)' /\ \A c \in Conns : HoldsFd(c)' => HoldsFd(c)
    BY <1>5, <2>3 DEF HoldsFd, WithMain, Forward
  <2>5. FdsHeld'
    <3> SUFFICES ASSUME NEW c \in Conns \ {d}, HoldsFd(c)
                 PROVE  sfd[c] \in Fds /\ fd_table'[sfd[c]] = c
      BY <2>1, <2>4 DEF FdsHeld
    <3>1. sfd[c] \in Fds /\ fd_table[sfd[c]] = c
      BY DEF DescInv, FdsHeld
    <3> QED
      BY <1>4, <2>2, <3>1
  <2>6. DupsHeld'
    <3> SUFFICES ASSUME NEW c \in Conns, NEW v \in Workers, HoldsDup(v, c)',
                        sfd_dup[c] # NoFd
                 PROVE  fd_table'[sfd_dup[c]] = c /\ sfd_dup[c] # sfd[c]
      BY <2>1 DEF DupsHeld
    <3>1. c # d
      BY <1>0, <1>1, <1>3, <2>1
      DEF HoldsDup, Serving, Claims, Making, CreatePcs
    <3>2. HoldsDup(v, c)
      BY <1>0, <1>1, <2>1, <3>1 DEF HoldsDup, Serving
    <3>3. /\ sfd_dup[c] \in Fds
          /\ fd_table[sfd_dup[c]] = c /\ sfd_dup[c] # sfd[c]
      BY <1>1, <3>2 DEF DescInv, DupsHeld
    <3> QED
      BY <1>4, <2>2, <3>1, <3>3
  <2>7. MapHeld'
    <3>1. \A c \in Conns, v \in Workers : Mapped(v, c) => Mapped(v, c)'
      <4> SUFFICES ASSUME NEW c \in Conns, NEW v \in Workers, Mapped(v, c)
                   PROVE  Mapped(v, c)'
        OBVIOUS
      <4>1. c # d
        BY <1>0, <1>3, <2>1 DEF Mapped, Claims
      <4> QED
        BY <1>1, <2>1, <4>1 DEF Mapped, Serving
    <3> QED
      BY <1>1, <2>1, <3>1 DEF DescInv, MapHeld
  <2>8. \A v \in Workers : pc'[v] # "reject"
    BY <1>1, <2>1 DEF DescInv
  <2> QED
    BY <2>5, <2>6, <2>7, <2>8 DEF DescInv
<1> QED
  BY <1>6, <1>7, <1>8 DEF CloseStep

\* The steps of a worker that open and close nothing.
LEMMA LoopDesc ==
    ASSUME HandoffInv, OwnInv, DescInv, Forward, NEW w \in Workers,
           WorkerStep(w), ~CreateStep(w), ~CloseStep(w)
    PROVE  DescInv'
<1>1. /\ TypeOK
      /\ pc \in [Workers -> WorkerPcs]
      /\ cur \in [Workers -> Conns \cup {NoConn}]
  BY DEF HandoffInv, TypeOK, WorkerOK
<1>2. ASSUME UNCHANGED <<fd_table, sfd, sfd_dup, s_conns_map, peer, backlog,
                         main, thread_connections>>,
             \A v \in Workers : v # w => cur'[v] = cur[v] /\ pc'[v] = pc[v],
             pc[w] \notin CreatePcs \cup {"close_dup", "close_sfd"},
             pc'[w] \notin {"add", "reject", "close_dup", "close_sfd"}
      PROVE  DescInv'
  <2>1. \A c \in Conns : HoldsFd(c)' => HoldsFd(c)
    BY <1>2 DEF HoldsFd, Registered, WithMain, Forward
  <2>2. \A c \in Conns, v \in Workers : /\ HoldsDup(v, c)' => HoldsDup(v, c)
                                        /\ Mapped(v, c) => Mapped(v, c)'
    BY <1>2 DEF HoldsDup, Mapped, Serving
  <2>3. \A v \in Workers : pc'[v] # "reject"
    BY <1>2 DEF DescInv
  <2> QED
    BY <1>1, <1>2, <2>1, <2>2, <2>3, DescKept
<1>3. CASE ConnectorLoop(w) \/ ConnectorPick(w) \/ ConnectorPush(w)
           \/ ConnectorNotify(w)
  <2>1. /\ UNCHANGED <<fd_table, sfd, sfd_dup, s_conns_map, peer, backlog,
                       main, thread_connections, cur>>
        /\ pc[w] \in {"connect", "conn_pick", "conn_push", "conn_notify"}
    BY <1>3 DEF ConnectorLoop, ConnectorPick, ConnectorPush, ConnectorNotify,
       kernelVars, sharedVars, connVars
  <2>2. /\ \A v \in Workers : v # w => pc'[v] = pc[v]
        /\ pc'[w] \in {"epoll", "conn_pick", "conn_push", "conn_notify"}
    BY <1>1, <1>3 DEF ConnectorLoop, ConnectorPick, ConnectorPush,
       ConnectorNotify, Goto
  <2> QED
    BY <1>2, <2>1, <2>2 DEF CreatePcs
<1>4. CASE EpollWait(w) \/ NotifyRead(w) \/ EventsEnd(w) \/ Reap(w)
  <2>1. /\ UNCHANGED <<fd_table, sfd, sfd_dup, s_conns_map, peer, backlog,
                       main, thread_connections>>
        /\ pc[w] \in {"epoll", "events", "sweep"}
    BY <1>4 DEF EpollWait, NotifyRead, EventsEnd, Reap, kernelVars, sharedVars,
       connVars
  <2>2. /\ \A v \in Workers : v # w => pc'[v] = pc[v] /\ cur'[v] = cur[v]
        /\ pc'[w] \in {"events", "crashed", "check", "sweep", "connect"}
    BY <1>1, <1>4 DEF EpollWait, NotifyRead, EventsEnd, Reap, Goto
  <2> QED
    BY <1>2, <2>1, <2>2 DEF CreatePcs
<1>5. ASSUME NEW c \in Conns, OnReadEnd(w, c) \/ SweepVisit(w, c)
      PROVE  DescInv'
  <2>1. /\ UNCHANGED <<fd_table, sfd, sfd_dup, s_conns_map, peer, backlog,
                       main, thread_connections>>
        /\ pc[w] \in {"events", "sweep"}
    BY <1>5 DEF OnReadEnd, SweepVisit, kernelVars, sharedVars, connVars
  <2>2. /\ \A v \in Workers : v # w => pc'[v] = pc[v] /\ cur'[v] = cur[v]
        /\ pc'[w] \in {"events", "sweep", "erase"}
    BY <1>1, <1>5 DEF OnReadEnd, SweepVisit, Goto
  <2> QED
    BY <1>2, <2>1, <2>2 DEF CreatePcs
<1> QED
  BY <1>3, <1>4, <1>5 DEF WorkerStep

\* The descriptor tables are invariant as long as event_add does not fail.
LEMMA DescStep ==
    ASSUME "event_add" \notin Faults
    PROVE  HandoffInv /\ OwnInv /\ DescInv /\ [Next]_vars => DescInv'
<1> SUFFICES ASSUME HandoffInv, OwnInv, DescInv, [Next]_vars PROVE DescInv'
  OBVIOUS
<1>1. Forward
  BY OwnStep
<1>2. CASE UNCHANGED vars
  <2>1. /\ UNCHANGED <<fd_table, sfd, sfd_dup, s_conns_map, peer, backlog,
                       main, thread_connections, pc, cur>>
        /\ TypeOK
    BY <1>2 DEF vars, kernelVars, sharedVars, connVars, workerVars, HandoffInv
  <2>2. \A c \in Conns : HoldsFd(c)' => HoldsFd(c)
    BY <1>1, <2>1 DEF HoldsFd, Registered, WithMain, Forward
  <2>3. \A c \in Conns, v \in Workers : /\ HoldsDup(v, c)' => HoldsDup(v, c)
                                        /\ Mapped(v, c) => Mapped(v, c)'
    BY <2>1 DEF HoldsDup, Mapped, Serving
  <2>4. \A v \in Workers : pc'[v] # "reject"
    BY <2>1 DEF DescInv
  <2> QED
    BY <2>1, <2>2, <2>3, <2>4, DescKept
<1>3. ASSUME NEW w \in Workers, WorkerStep(w) PROVE DescInv'
  BY <1>1, <1>3, CreateDesc, CloseDesc, LoopDesc
<1> QED
  BY <1>1, <1>2, <1>3, AcceptDesc, MainDesc DEF Next

\* At the start no descriptor is open.
LEMMA DescInit == Init => DescInv
<1> SUFFICES ASSUME Init PROVE DescInv
  OBVIOUS
<1>1. \A c \in Conns : ~HoldsFd(c)
  BY DEF Init, HoldsFd, WithMain
<1>2. \A c \in Conns, w \in Workers : ~HoldsDup(w, c)
  BY DEF Init, HoldsDup, Serving
<1>3. MapHeld
  BY DEF Init, MapHeld
<1>4. \A w \in Workers : pc[w] # "reject"
  BY DEF Init
<1> QED
  BY <1>1, <1>2, <1>3, <1>4 DEF DescInv, FdsHeld, DupsHeld

\* The hand-over, the ownership and the descriptors together.
LEMMA DescAlways ==
    ASSUME "event_add" \notin Faults
    PROVE  Spec => [](HandoffInv /\ OwnInv /\ DescInv)
  BY Init_Inv, Next_Inv, OwnInit, OwnStep, DescInit, DescStep, PTL DEF Spec

\* Unless event_add fails (create_conn and its caller then close one descriptor
\* twice), an entry of s_conns_map names the connection its descriptor is open
\* for, so that create_conn never takes a new connection for a duplicate.
THEOREM MapNamesOpen ==
    ASSUME "event_add" \notin Faults
    PROVE  Spec => []MapNamesOpenFd
<1>1. HandoffInv /\ OwnInv /\ DescInv => MapNamesOpenFd
  <2> SUFFICES ASSUME HandoffInv, OwnInv, DescInv PROVE MapNamesOpenFd
    OBVIOUS
  <2>1. ASSUME NEW f \in Fds, s_conns_map[f] # NoConn
        PROVE  fd_table[f] = s_conns_map[f]
    <3>1. PICK e \in Conns : e = s_conns_map[f]
      BY <2>1 DEF HandoffInv, TypeOK, SharedOK
    <3>2. PICK w \in Workers : Mapped(w, e)
      BY <2>1, <3>1 DEF DescInv, MapHeld
    <3>3. HoldsFd(e)
      BY <3>2, ClaimHolds DEF Mapped, Claims
    <3> QED
      BY <2>1, <3>1, <3>3 DEF DescInv, MapHeld, FdsHeld
  <2>2. ASSUME NEW w \in Workers, pc[w] = "check"
        PROVE  s_conns_map[sfd[cur[w]]] = NoConn
    <3>1. PICK d \in Conns : d = cur[w]
      BY <2>2 DEF HandoffInv, AtHand, CreatePcs
    <3>2. Making(w, d)
      BY <2>2, <3>1 DEF Making, CreatePcs
    <3>3. sfd[d] \in Fds /\ fd_table[sfd[d]] = d
      BY <3>2, ClaimHolds DEF Claims, DescInv, FdsHeld
    <3> SUFFICES ASSUME s_conns_map[sfd[d]] # NoConn PROVE FALSE
      BY <3>1
    <3>4. s_conns_map[sfd[d]] = d
      BY <2>1, <3>3
    <3>5. PICK v \in Workers : Serving(v, d)
      BY <3>3, <3>4 DEF DescInv, MapHeld, Mapped
    <3> QED
      BY <3>2, <3>5 DEF OwnInv, OneClaim, Claims
  <2> QED
    BY <2>1, <2>2 DEF MapNamesOpenFd
<1> QED
  BY <1>1, DescAlways, PTL

\* Unless event_add fails, a registered connection's descriptors stay open
\* for its own socket until its own worker closes them, however quickly the
\* kernel reuses the descriptors of others.
THEOREM DescriptorsOwned ==
    ASSUME "event_add" \notin Faults
    PROVE  Spec => []OwnsDescriptors
<1>1. OwnInv /\ DescInv => OwnsDescriptors
  <2> SUFFICES ASSUME OwnInv, DescInv, NEW c \in Conns, Registered(c),
                      \A w \in Workers : ~Closing(w, c)
               PROVE  /\ fd_table[sfd[c]] = c
                      /\ sfd_dup[c] # NoFd => fd_table[sfd_dup[c]] = c
    BY DEF OwnsDescriptors
  <2>1. PICK w \in Workers : Serving(w, c)
    BY DEF Registered, Serving
  <2>2. HoldsFd(c)
    BY <2>1, ClaimHolds DEF Claims
  <2>3. HoldsDup(w, c)
    BY <2>1 DEF HoldsDup, Closing
  <2> QED
    BY <2>2, <2>3 DEF DescInv, FdsHeld, DupsHeld
<1> QED
  BY <1>1, DescAlways, PTL

=============================================================================
