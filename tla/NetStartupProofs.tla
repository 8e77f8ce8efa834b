-------------------------- MODULE NetStartupProofs --------------------------
(* Theorems about NetStartup, for any number of network threads. *)
EXTENDS NetStartup, FiniteSetTheorems, TLAPS

\* The accept thread starts the workers one after the other: those below
\* started have their ThreadData in the map, those above have no thread.
StartOrder ==
    /\ main \in {"net_init", "listening"} => acceptor = "none"
    /\ acceptor = "none" => started = 0
    /\ acceptor \in {"none", "create", "publish"} <=> started < NetThreadNum
    /\ s_threads_datas = 0 .. started - 1
    /\ \A w \in Workers :
          w > started \/ (w = started /\ acceptor # "publish") => pc[w] = "none"
    /\ \A w \in Workers : pc[w] = "spin" => conns[w] > 0

\* s_init_count counts the workers that have reached their loop, and the
\* accept thread is in its own only when it has counted all.
Ready == {w \in Workers : pc[w] \in {"loop", "spin", "no thread data", "no nmd"}}
Counted ==
    /\ s_init_count = Cardinality(Ready)
    /\ acceptor = "loop" => s_init_count >= NetThreadNum

IInv == TypeOK /\ StartOrder /\ Counted

LEMMA WorkersFinite ==
    /\ IsFiniteSet(Workers) /\ Cardinality(Workers) = NetThreadNum
    /\ \A S \in SUBSET Workers : /\ IsFiniteSet(S)
                                 /\ Cardinality(S) \in 0 .. NetThreadNum
                                 /\ Cardinality(S) = NetThreadNum => S = Workers
<1>1. IsFiniteSet(Workers) /\ Cardinality(Workers) = NetThreadNum
  BY FS_Interval, NetThreadNumAssumption DEF Workers
<1>2. ASSUME NEW S \in SUBSET Workers
      PROVE  /\ IsFiniteSet(S)
             /\ Cardinality(S) \in 0 .. NetThreadNum
             /\ Cardinality(S) = NetThreadNum => S = Workers
  BY <1>1, FS_Subset, FS_CardinalityType, NetThreadNumAssumption
<1> QED
  BY <1>1, <1>2

LEMMA InitIInv == Init => IInv
<1> SUFFICES ASSUME Init PROVE IInv
  OBVIOUS
<1> USE NetThreadNumAssumption, BoundsAssumption
<1>1. TypeOK
  <2>1. pc \in [Workers -> {"none", "hold", "count", "loop", "spin",
                         "no thread data", "no nmd"}]
    BY DEF Init
  <2>2. conns \in [Workers -> Nat]
    BY DEF Init
  <2>3. /\ started \in 0 .. NetThreadNum
        /\ s_init_count \in 0 .. NetThreadNum
        /\ s_connect_conns \in Nat
        /\ accepted \in 0 .. MaxConns
        /\ dialled \in 0 .. MaxDials
    BY DEF Init
  <2>4. /\ main = "net_init" /\ acceptor = "none"
        /\ shutdown_req = "none"
        /\ s_threads_datas \subseteq Workers
        /\ init_lock = NoThread /\ s_last_thread_id = NoThread
    BY DEF Init
  <2> QED
    BY <2>1, <2>2, <2>3, <2>4 DEF TypeOK
<1>2. StartOrder
  BY DEF Init, StartOrder, Workers
<1>3. Ready = {}
  BY DEF Init, Ready
<1> QED
  BY <1>1, <1>2, <1>3, FS_EmptySet DEF Init, IInv, Counted

\* Registering counts one more worker.
LEMMA RegisterCounts ==
    ASSUME TypeOK, Counted, NEW w \in Workers, RegisterCount(w)
    PROVE  /\ s_init_count' = Cardinality(Ready')
           /\ s_init_count' \in 0 .. NetThreadNum
<1> USE NetThreadNumAssumption
<1>1. Ready' = Ready \cup {w} /\ w \notin Ready
  BY DEF TypeOK, RegisterCount, Ready
<1>2. IsFiniteSet(Ready)
  BY WorkersFinite DEF Ready
<1>3. Cardinality(Ready') = Cardinality(Ready) + 1
  BY <1>1, <1>2, FS_AddElement
<1>4. Ready' \in SUBSET Workers
  BY DEF Ready
<1> QED
  BY <1>3, <1>4, WorkersFinite DEF Counted, RegisterCount

LEMMA NextIsWorker == TypeOK => NextThread \in Workers
<1> SUFFICES ASSUME s_last_thread_id \in Workers \cup {NoThread}
             PROVE  NextThread \in Workers
  BY DEF TypeOK
<1> QED
  BY NetThreadNumAssumption DEF NextThread, Workers, NoThread

LEMMA TypeStep == IInv /\ [Next]_vars => TypeOK'
<1> SUFFICES ASSUME IInv, [Next]_vars PROVE TypeOK'
  OBVIOUS
<1> USE NetThreadNumAssumption, BoundsAssumption
    DEF mainVars, acceptVars, initVars, giveVars
<1>0. TypeOK /\ StartOrder /\ Counted
  BY DEF IInv
<1>a. /\ s_connect_conns \in Nat /\ dialled \in 0 .. MaxDials /\ accepted \in 0 .. MaxConns
      /\ started \in 0 .. NetThreadNum /\ conns \in [Workers -> Nat]
      /\ s_threads_datas \subseteq Workers /\ NextThread \in Workers
  BY <1>0, NextIsWorker DEF TypeOK
<1>b. /\ acceptor \in {"create", "publish"} => started < NetThreadNum /\ started \in Workers
      /\ \A w \in Workers : pc[w] = "spin" => conns[w] > 0
  BY <1>0, <1>a DEF StartOrder, Workers
<1>1. CASE ServerListen
  BY <1>0, <1>1 DEF ServerListen, TypeOK
<1>2. CASE NetInit
  BY <1>0, <1>2 DEF NetInit, TypeOK
<1>3. CASE NetInitFails
  BY <1>0, <1>3 DEF NetInitFails, TypeOK
<1>4. CASE RegistEntry
  BY <1>0, <1>4 DEF RegistEntry, TypeOK
<1>5. CASE RegistConnectorCallback
  BY <1>0, <1>5 DEF RegistConnectorCallback, TypeOK
<1>6. CASE NetConnect
  <2>1. dialled' \in 0 .. MaxDials /\ s_connect_conns' \in Nat
    BY <1>6, <1>a DEF NetConnect
  <2> QED
    BY <1>0, <1>6, <2>1 DEF NetConnect, TypeOK
<1>7. CASE CreateWorker
  BY <1>0, <1>7, <1>b DEF CreateWorker, TypeOK
<1>8. CASE CreateWorkerFails
  BY <1>0, <1>8 DEF CreateWorkerFails, TypeOK
<1>9. CASE PublishWorker
  <2>1. started' \in 0 .. NetThreadNum /\ s_threads_datas' \subseteq Workers
    BY <1>9, <1>a, <1>b DEF PublishWorker
  <2> QED
    BY <1>0, <1>9, <2>1 DEF PublishWorker, TypeOK
<1>10. CASE WaitHold
  BY <1>0, <1>10 DEF WaitHold, TypeOK
<1>11. CASE WaitCheck
  BY <1>0, <1>11 DEF WaitCheck, TypeOK
<1>12. CASE WaitWake
  BY <1>0, <1>12 DEF WaitWake, TypeOK
<1>13. CASE SpuriousWakeup
  BY <1>0, <1>13 DEF SpuriousWakeup, TypeOK
<1>14. CASE GiveConnection
  <2>1. accepted' \in 0 .. MaxConns /\ conns' \in [Workers -> Nat]
    BY <1>14, <1>a DEF GiveConnection
  <2> QED
    BY <1>0, <1>14, <1>a, <2>1 DEF GiveConnection, TypeOK
<1>15. ASSUME NEW w \in Workers, RegisterHold(w) PROVE TypeOK'
  BY <1>0, <1>15 DEF RegisterHold, TypeOK
<1>16. ASSUME NEW w \in Workers, RegisterCount(w) PROVE TypeOK'
  BY <1>0, <1>16, RegisterCounts DEF RegisterCount, Signalled, TypeOK
<1>17. ASSUME NEW w \in Workers, PushConnection(w) PROVE TypeOK'
  <2>1. conns' \in [Workers -> Nat] /\ s_connect_conns' \in Nat
    <3>1. \/ UNCHANGED <<conns, s_connect_conns>>
          \/ /\ conns' = [conns EXCEPT ![NextThread] = @ + 1]
             /\ s_connect_conns > 0 /\ s_connect_conns' = s_connect_conns - 1
      BY <1>17 DEF PushConnection
    <3> QED
      BY <1>a, <3>1
  <2> QED
    BY <1>0, <1>17, <1>a, <2>1 DEF PushConnection, TypeOK
<1>18. ASSUME NEW w \in Workers, Sweep(w) PROVE TypeOK'
  <2>1. conns' \in [Workers -> Nat]
    <3>1. UNCHANGED conns \/ conns' = [conns EXCEPT ![w] = @ - 1]
      BY <1>18 DEF Sweep, GetMsgnode
    <3>2. conns[w] > 0
      BY <1>18 DEF Sweep
    <3> QED
      BY <1>a, <3>1, <3>2
  <2> QED
    BY <1>0, <1>18, <2>1 DEF Sweep, GetMsgnode, TypeOK
<1>19. ASSUME NEW w \in Workers, SweepAgain(w) PROVE TypeOK'
  <2>1. conns' \in [Workers -> Nat]
    <3>1. UNCHANGED conns \/ conns' = [conns EXCEPT ![w] = @ - 1]
      BY <1>19 DEF SweepAgain, GetMsgnode
    <3>2. conns[w] > 0
      BY <1>19, <1>b DEF SweepAgain
    <3> QED
      BY <1>a, <3>1, <3>2
  <2> QED
    BY <1>0, <1>19, <2>1 DEF SweepAgain, GetMsgnode, TypeOK
<1>20. CASE UNCHANGED vars
  BY <1>0, <1>20 DEF vars, TypeOK
<1>21. CASE RegistFunctions
  BY <1>0, <1>21 DEF RegistFunctions, TypeOK
<1> QED
  BY <1>1, <1>2, <1>3, <1>4, <1>5, <1>6, <1>7, <1>8, <1>9, <1>10,
     <1>11, <1>12, <1>13, <1>14, <1>15, <1>16, <1>17, <1>18, <1>19, <1>20, <1>21
  DEF Next, MainStep, AcceptStep, WorkerStep, OtherStep

LEMMA OrderStep == IInv /\ [Next]_vars => StartOrder'
<1> SUFFICES ASSUME IInv, [Next]_vars PROVE StartOrder'
  OBVIOUS
<1> USE NetThreadNumAssumption
    DEF Workers, mainVars, acceptVars, initVars, giveVars
<1>0. /\ StartOrder
      /\ main \in {"net_init", "listening", "protocol_init", "callback", "connect", "exited"}
      /\ started \in 0 .. NetThreadNum /\ s_threads_datas \subseteq Workers
      /\ pc \in [Workers -> {"none", "hold", "count", "loop", "spin",
                             "no thread data", "no nmd"}]
      /\ conns \in [Workers -> Nat] /\ NextThread \in Workers
  BY NextIsWorker DEF IInv, TypeOK
<1>a. /\ started \in 0 .. NetThreadNum /\ conns \in [Workers -> Nat] /\ NextThread \in Workers
      /\ s_threads_datas = 0 .. started - 1
  BY <1>0 DEF StartOrder
<1>b. pc \in [Workers -> {"none", "hold", "count", "loop", "spin", "no thread data", "no nmd"}]
  BY <1>0
<1>c. \A w \in Workers : w > started => pc[w] = "none"
  BY <1>0 DEF StartOrder
<1>1. CASE ServerListen
  BY <1>0, <1>1 DEF StartOrder, ServerListen
<1>2. CASE NetInit
  BY <1>0, <1>2 DEF StartOrder, NetInit
<1>3. CASE NetInitFails
  BY <1>0, <1>3 DEF StartOrder, NetInitFails
<1>4. CASE RegistEntry
  BY <1>0, <1>4 DEF StartOrder, RegistEntry
<1>5. CASE RegistConnectorCallback
  BY <1>0, <1>5 DEF StartOrder, RegistConnectorCallback
<1>6. CASE NetConnect
  BY <1>0, <1>6 DEF StartOrder, NetConnect
<1>7. CASE CreateWorker
  <2>1. /\ acceptor = "create" /\ acceptor' = "publish" /\ started < NetThreadNum
        /\ pc' = [pc EXCEPT ![started] = "hold"]
        /\ UNCHANGED <<main, started, s_threads_datas, conns>>
    BY <1>0, <1>7 DEF CreateWorker, StartOrder
  <2>2. main \notin {"net_init", "listening"}
    BY <1>0, <2>1 DEF StartOrder
  <2>3. \A w \in Workers : w # started => pc'[w] = pc[w]
    BY <1>b, <2>1
  <2>4. \A w \in Workers : w > started => pc'[w] = "none"
    BY <1>a, <1>c, <2>3
  <2>5. \A w \in Workers : pc'[w] = "spin" => pc[w] = "spin"
    BY <1>b, <2>1
  <2> QED
    BY <1>0, <2>1, <2>2, <2>4, <2>5 DEF StartOrder
<1>8. CASE CreateWorkerFails
  BY <1>0, <1>8 DEF StartOrder, CreateWorkerFails
<1>9. CASE PublishWorker
  <2>1. /\ acceptor = "publish" /\ started < NetThreadNum
        /\ s_threads_datas' = s_threads_datas \cup {started}
        /\ started' = started + 1
        /\ acceptor' = IF started' < NetThreadNum THEN "create" ELSE "hold"
        /\ UNCHANGED <<main, pc, conns>>
    BY <1>0, <1>9 DEF PublishWorker, MoreToStart, StartOrder
  <2>2. main \notin {"net_init", "listening"}
    BY <1>0, <2>1 DEF StartOrder
  <2>3. s_threads_datas' = 0 .. started' - 1
    BY <1>a, <2>1
  <2>4. \A w \in Workers : w >= started' => pc'[w] = "none"
    BY <1>a, <1>c, <2>1
  <2>5. acceptor' \in {"none", "create", "publish"} <=> started' < NetThreadNum
    BY <2>1
  <2>6. acceptor' # "none"
    BY <2>1
  <2>7. \A w \in Workers : w > started' => w >= started'
    BY <1>a, <2>1
  <2>8. \A w \in Workers : pc'[w] = "spin" => conns'[w] > 0
    BY <1>0, <2>1 DEF StartOrder
  <2> QED
    BY <2>1, <2>2, <2>3, <2>4, <2>5, <2>6, <2>7, <2>8 DEF StartOrder
<1>10. CASE WaitHold
  BY <1>0, <1>10 DEF StartOrder, WaitHold
<1>11. CASE WaitCheck
  BY <1>0, <1>11 DEF StartOrder, WaitCheck
<1>12. CASE WaitWake
  BY <1>0, <1>12 DEF StartOrder, WaitWake
<1>13. CASE SpuriousWakeup
  BY <1>0, <1>13 DEF StartOrder, SpuriousWakeup
<1>14. CASE GiveConnection
  <2>1. /\ UNCHANGED <<main, acceptor, started, s_threads_datas, pc>>
        /\ conns' = [conns EXCEPT ![NextThread] = @ + 1]
    BY <1>14 DEF GiveConnection
  <2>2. \A w \in Workers : conns[w] > 0 => conns'[w] > 0
    BY <1>a, <2>1
  <2> QED
    BY <1>0, <2>1, <2>2 DEF StartOrder
<1>15. ASSUME NEW w \in Workers, RegisterHold(w) PROVE StartOrder'
  BY <1>0, <1>15 DEF StartOrder, RegisterHold
<1>16. ASSUME NEW w \in Workers, RegisterCount(w) PROVE StartOrder'
  BY <1>0, <1>16 DEF StartOrder, RegisterCount, Signalled
<1>17. ASSUME NEW w \in Workers, PushConnection(w) PROVE StartOrder'
  <2>1. UNCHANGED <<main, acceptor, started, s_threads_datas>> /\ pc[w] = "loop"
    BY <1>17 DEF PushConnection
  <2>2. \A v \in Workers : conns[v] > 0 => conns'[v] > 0
    <3>1. UNCHANGED conns \/ conns' = [conns EXCEPT ![NextThread] = @ + 1]
      BY <1>17 DEF PushConnection
    <3> QED
      BY <1>a, <3>1
  <2>3. \A v \in Workers : pc'[v] = pc[v] \/ (v = w /\ pc'[v] = "no thread data")
    <3>1. UNCHANGED pc \/ pc' = [pc EXCEPT ![w] = "no thread data"]
      BY <1>17 DEF PushConnection
    <3> QED
      BY <1>b, <3>1
  <2>4. \A v \in Workers : pc'[v] = "spin" => pc[v] = "spin"
    BY <2>3
  <2>5. \A v \in Workers : pc[v] = "none" => pc'[v] = "none"
    BY <2>1, <2>3
  <2> QED
    BY <1>0, <2>1, <2>2, <2>4, <2>5 DEF StartOrder
<1>18. ASSUME NEW w \in Workers, Sweep(w) PROVE StartOrder'
  BY <1>0, <1>18 DEF StartOrder, Sweep, GetMsgnode
<1>19. ASSUME NEW w \in Workers, SweepAgain(w) PROVE StartOrder'
  BY <1>0, <1>19 DEF StartOrder, SweepAgain, GetMsgnode
<1>20. CASE UNCHANGED vars
  BY <1>0, <1>20 DEF StartOrder, vars
<1>21. CASE RegistFunctions
  BY <1>0, <1>21 DEF StartOrder, RegistFunctions
<1> QED
  BY <1>1, <1>2, <1>3, <1>4, <1>5, <1>6, <1>7, <1>8, <1>9, <1>10,
     <1>11, <1>12, <1>13, <1>14, <1>15, <1>16, <1>17, <1>18, <1>19, <1>20, <1>21
  DEF Next, MainStep, AcceptStep, WorkerStep, OtherStep

\* Every other step leaves the count alone, and the loop is entered past the test.
LEMMA NotCounting ==
    ASSUME Counted, Ready' = Ready, s_init_count' = s_init_count,
           acceptor' = "loop" => acceptor = "loop" \/ AllReady
    PROVE  Counted'
BY DEF Counted, AllReady

LEMMA CountStep == IInv /\ [Next]_vars => Counted'
<1> SUFFICES ASSUME IInv, [Next]_vars PROVE Counted'
  OBVIOUS
<1> USE NetThreadNumAssumption, BoundsAssumption
    DEF IInv, TypeOK,
        mainVars, acceptVars, initVars, giveVars
<1>1. CASE ServerListen
  BY <1>1, NotCounting DEF Ready, ServerListen
<1>2. CASE NetInit
  BY <1>2, NotCounting DEF Ready, NetInit
<1>3. CASE NetInitFails
  BY <1>3, NotCounting DEF Ready, NetInitFails
<1>4. CASE RegistEntry
  BY <1>4, NotCounting DEF Ready, RegistEntry
<1>5. CASE RegistConnectorCallback
  BY <1>5, NotCounting DEF Ready, RegistConnectorCallback
<1>6. CASE NetConnect
  BY <1>6, NotCounting DEF Ready, NetConnect
<1>7. CASE CreateWorker
  BY <1>7, NotCounting DEF Ready, CreateWorker, StartOrder, Workers
<1>8. CASE CreateWorkerFails
  BY <1>8, NotCounting DEF Ready, CreateWorkerFails
<1>9. CASE PublishWorker
  BY <1>9, NotCounting DEF Ready, PublishWorker, MoreToStart
<1>10. CASE WaitHold
  BY <1>10, NotCounting DEF Ready, WaitHold
<1>11. CASE WaitCheck
  BY <1>11, NotCounting DEF Ready, WaitCheck
<1>12. CASE WaitWake
  BY <1>12, NotCounting DEF Ready, WaitWake
<1>13. CASE SpuriousWakeup
  BY <1>13, NotCounting DEF Ready, SpuriousWakeup
<1>14. CASE GiveConnection
  BY <1>14, NotCounting DEF Ready, GiveConnection, NextThread
<1>15. ASSUME NEW w \in Workers, RegisterHold(w) PROVE Counted'
  BY <1>15, NotCounting DEF Ready, RegisterHold
<1>16. ASSUME NEW w \in Workers, RegisterCount(w) PROVE Counted'
  <2>1. s_init_count' = Cardinality(Ready')
    BY <1>16, RegisterCounts
  <2>2. acceptor' = "loop" => s_init_count' >= NetThreadNum
    <3>1. acceptor' = "loop" => acceptor = "loop"
      BY <1>16 DEF RegisterCount, Signalled
    <3>2. s_init_count \in 0 .. NetThreadNum /\ s_init_count' = s_init_count + 1
      BY <1>16 DEF RegisterCount
    <3> HIDE DEF TypeOK, IInv
    <3>3. acceptor = "loop" => s_init_count >= NetThreadNum
      BY DEF IInv, Counted
    <3> QED
      BY <3>1, <3>2, <3>3
  <2> QED
    BY <2>1, <2>2 DEF Counted
<1>17. ASSUME NEW w \in Workers, PushConnection(w) PROVE Counted'
  BY <1>17, NotCounting DEF Ready, PushConnection, NextThread
<1>18. ASSUME NEW w \in Workers, Sweep(w) PROVE Counted'
  BY <1>18, NotCounting DEF Ready, Sweep, GetMsgnode
<1>19. ASSUME NEW w \in Workers, SweepAgain(w) PROVE Counted'
  BY <1>19, NotCounting DEF Ready, SweepAgain, GetMsgnode
<1>20. CASE UNCHANGED vars
  BY <1>20 DEF vars, Counted, Ready
<1>21. CASE RegistFunctions
  BY <1>21, NotCounting DEF Ready, RegistFunctions
<1> QED
  BY <1>1, <1>2, <1>3, <1>4, <1>5, <1>6, <1>7, <1>8, <1>9, <1>10,
     <1>11, <1>12, <1>13, <1>14, <1>15, <1>16, <1>17, <1>18, <1>19, <1>20, <1>21
  DEF Next, MainStep, AcceptStep, WorkerStep, OtherStep

\* Every variable of the start-up keeps its type, for any number of network
\* threads and of connections.
THEOREM TypeCorrect == Spec => []TypeOK
<1> IInv /\ [Next]_vars => IInv'
  BY TypeStep, OrderStep, CountStep DEF IInv
<1> IInv => TypeOK
  BY DEF IInv
<1> QED
  BY InitIInv, PTL DEF Spec

\* Once the accept loop runs, every worker has its ThreadData in the map and
\* is in its own loop, for any number of network threads: the condition
\* variable is waited for until all have been counted, and none is counted
\* twice.
THEOREM AcceptsWhenReady == Spec => []AcceptAfterReady
<1>1. IInv /\ [Next]_vars => IInv'
  BY TypeStep, OrderStep, CountStep DEF IInv
<1>2. IInv => AcceptAfterReady
  <2> SUFFICES ASSUME IInv, acceptor = "loop"
               PROVE  /\ s_threads_datas = Workers
                      /\ \A w \in Workers : pc[w] \notin {"none", "hold", "count"}
    BY DEF AcceptAfterReady
  <2>1. started = NetThreadNum
    <3>1. started \in 0 .. NetThreadNum /\ ~(started < NetThreadNum)
      BY DEF IInv, TypeOK, StartOrder
    <3> QED
      BY <3>1, NetThreadNumAssumption
  <2>2. s_threads_datas = Workers
    BY <2>1 DEF IInv, StartOrder, Workers
  <2>3. Ready = Workers
    <3>1. Ready \in SUBSET Workers /\ Cardinality(Ready) >= NetThreadNum
      BY DEF IInv, Counted, Ready
    <3> QED
      BY <3>1, WorkersFinite, NetThreadNumAssumption
  <2> QED
    BY <2>2, <2>3 DEF Ready
<1> QED
  BY InitIInv, <1>1, <1>2, PTL DEF Spec
=============================================================================
