--------------------------- MODULE DataLinkProofs ---------------------------
(* Theorems about DataLink. *)
EXTENDS DataLink, FiniteSetTheorems, TLAPS

\* Every variable of the data connection keeps its type, through any number of
\* rejected connections and reused addresses.
THEOREM TypeCorrect == Spec => []TypeOK
<1>1. Init => TypeOK
  <2> SUFFICES ASSUME Init PROVE TypeOK
    OBVIOUS
  <2>1. connector \in [ConnectThreads -> [pc : {"none", "connect", "return", "done"},
                                          ret : NetConnectResults]]
    BY DEF Init, NetConnectResults
  <2>2. registered \in [Links -> Nat] /\ crashed \in BOOLEAN
    BY DEF Init
  <2>3. /\ s_data_conn \in NetConnectResults
        /\ link \in [Links -> {"unused", "pushed", "live", "rejected", "freed"}]
        /\ address \in [Links -> Addresses \cup {Null}]
        /\ callback \in [Links -> {"none", "compare", "regist", "dialled",
                                   "missed", "done"}]
    BY DEF Init, NetConnectResults
  <2> QED
    BY <2>1, <2>2, <2>3 DEF TypeOK
<1>2. TypeOK /\ [Next]_vars => TypeOK'
  <2> SUFFICES ASSUME TypeOK, [Next]_vars PROVE TypeOK'
    OBVIOUS
  <2> USE DEF TypeOK, ConnectThreads, NetConnectResults
  <2>1. ASSUME NEW t \in ConnectThreads, NEW g \in Links, NEW a \in Addresses,
               ConnectOk(t, g, a)
        PROVE  TypeOK'
    BY <2>1 DEF ConnectOk
  <2>2. ASSUME NEW t \in ConnectThreads, ConnectFails(t) PROVE TypeOK'
    BY <2>2 DEF ConnectFails
  <2>3. ASSUME NEW t \in ConnectThreads, Assign(t) PROVE TypeOK'
    BY <2>3 DEF Assign, AfterAttempt
  <2>4. ASSUME NEW g \in Links, Verdict(g) PROVE TypeOK'
    BY <2>4 DEF Verdict
  <2>5. ASSUME NEW g \in Links, CompareOk(g) PROVE TypeOK'
    BY <2>5 DEF CompareOk
  <2>6. ASSUME NEW g \in Links, CompareRejected(g) PROVE TypeOK'
    BY <2>6 DEF CompareRejected, DialAgain
  <2>7. ASSUME NEW g \in Links, Delete(g) PROVE TypeOK'
    BY <2>7 DEF Delete
  <2>8. ASSUME NEW g \in Links, Regist(g) PROVE TypeOK'
    BY <2>8 DEF Regist
  <2>9. CASE UNCHANGED vars
    BY <2>9 DEF vars
  <2> QED
    BY <2>1, <2>2, <2>3, <2>4, <2>5, <2>6, <2>7, <2>8, <2>9
    DEF Next, ConnectStep, WorkerStep
<1> QED
  BY <1>1, <1>2, PTL DEF Spec

-----------------------------------------------------------------------------
\* Who may bring about a data link: a thread about to dial, or a connection
\* that may still be registered or dialled again.
Dialling(t) == connector[t].pc = "connect"
Pending(g) == \/ link[g] \in {"pushed", "live"}
              \/ link[g] = "rejected" /\ callback[g] = "compare"

\* There is one of them at most: a thread dials once, and a connection hands
\* its turn to a thread only when it is given up.
OneTurn ==
    /\ \A t, u \in ConnectThreads : Dialling(t) /\ Dialling(u) => t = u
    /\ \A t \in ConnectThreads, g \in Links : ~(Dialling(t) /\ Pending(g))
    /\ \A g, h \in Links : Pending(g) /\ Pending(h) => g = h

LEMMA OneTurnStep == TypeOK /\ OneTurn /\ [Next]_vars => OneTurn'
<1> SUFFICES ASSUME TypeOK, OneTurn, [Next]_vars PROVE OneTurn'
  OBVIOUS
<1> USE DEF TypeOK, ConnectThreads, NetConnectResults, OneTurn, Dialling, Pending
<1>1. ASSUME NEW t \in ConnectThreads, NEW g \in Links, NEW a \in Addresses,
             ConnectOk(t, g, a)
      PROVE  OneTurn'
  BY <1>1 DEF ConnectOk
<1>2. ASSUME NEW t \in ConnectThreads, ConnectFails(t) PROVE OneTurn'
  BY <1>2 DEF ConnectFails
<1>3. ASSUME NEW t \in ConnectThreads, Assign(t) PROVE OneTurn'
  BY <1>3 DEF Assign, AfterAttempt
<1>4. ASSUME NEW g \in Links, Verdict(g) PROVE OneTurn'
  BY <1>4 DEF Verdict
<1>5. ASSUME NEW g \in Links, CompareOk(g) PROVE OneTurn'
  BY <1>5 DEF CompareOk
<1>6. ASSUME NEW g \in Links, CompareRejected(g) PROVE OneTurn'
  BY <1>6 DEF CompareRejected, DialAgain
<1>7. ASSUME NEW g \in Links, Delete(g) PROVE OneTurn'
  BY <1>7 DEF Delete
<1>8. ASSUME NEW g \in Links, Regist(g) PROVE OneTurn'
  BY <1>8 DEF Regist
<1>9. CASE UNCHANGED vars
  BY <1>9 DEF vars
<1> QED
  BY <1>1, <1>2, <1>3, <1>4, <1>5, <1>6, <1>7, <1>8, <1>9
  DEF Next, ConnectStep, WorkerStep

\* The game server is on one data link at most, however often connections are
\* rejected, dialled again and given the address of an earlier one.
THEOREM NeverTwoDataLinks == Spec => []OneDataLink
<1>1. Init => OneTurn
  BY DEF Init, OneTurn, Dialling, Pending, ConnectThreads
<1>2. OneTurn => OneDataLink
  <2> DEFINE Up == {g \in Links : link[g] \in {"pushed", "live"}}
  <2> SUFFICES ASSUME OneTurn PROVE Cardinality(Up) <= 1
    BY DEF OneDataLink
  <2>1. CASE Up = {}
    BY <2>1, FS_EmptySet
  <2>2. CASE Up # {}
    <3>1. PICK g \in Up : TRUE
      BY <2>2
    <3>2. Up = {g}
      BY <3>1 DEF OneTurn, Pending
    <3> QED
      BY <3>2, FS_Singleton
  <2> QED
    BY <2>1, <2>2
<1> QED
  BY <1>1, <1>2, TypeCorrect, OneTurnStep, PTL DEF Spec

-----------------------------------------------------------------------------
(* Registration on the link that came up *)

\* The states of a link, of its callback and of the thread it starts.
Coupled ==
    \A g \in Links :
       /\ link[g] \in {"unused", "pushed"} => callback[g] = "none"
       /\ link[g] # "unused" => address[g] \in Addresses
       /\ callback[g] \in {"regist", "done"} => link[g] = "live"
       /\ callback[g] = "dialled" => link[g] \in {"rejected", "freed"}
       /\ connector[g].pc # "none" => callback[g] = "dialled"

\* The one worker is at one link at a time.
Busy(g) == callback[g] \in {"compare", "regist"} \/ link[g] = "rejected"
OneWorker == \A g, h \in Links : Busy(g) /\ Busy(h) => g = h

\* A number net_connect returned is that of a link that was made.
Used(a) == \E h \in Links : link[h] # "unused" /\ address[h] = a
NumbersUsed ==
    /\ s_data_conn \in Addresses => Used(s_data_conn)
    /\ \A t \in ConnectThreads :
          connector[t].pc = "return" /\ connector[t].ret \in Addresses =>
             Used(connector[t].ret)

\* The exception: two links rejected at one address, the second dialled anew.
TwiceAtOneAddress ==
    \E g, h \in Links : /\ g # h /\ link[h] = "freed"
                        /\ address[g] = address[h]
                        /\ \/ link[g] = "freed"
                           \/ link[g] = "rejected" /\ callback[g] = "dialled"

\* Otherwise one thread at a time is in connect_to_ds, what it will assign is
\* the number of the link under way, and s_data_conn has this number before
\* only from a link deleted at the same address.
InTurn ==
    /\ \A t, u \in ConnectThreads :
          connector[t].pc \in {"connect", "return"}
          /\ connector[u].pc \in {"connect", "return"} => t = u
    /\ \A t \in ConnectThreads, g \in Links :
          connector[t].pc = "return" /\ Pending(g) =>
             /\ connector[t].ret = address[g]
             /\ s_data_conn = address[g] =>
                   \E h \in Links : /\ h # g /\ link[h] = "freed"
                                    /\ address[h] = address[g]
    /\ \A g \in Links : callback[g] = "regist" => s_data_conn = address[g]

LinkInv == /\ Coupled /\ OneWorker /\ NumbersUsed
           /\ TwiceAtOneAddress \/ InTurn
           /\ RegistOnDataLink

LEMMA LinkInvInit == Init => LinkInv
<1> SUFFICES ASSUME Init PROVE LinkInv
  OBVIOUS
<1> USE AddressesAssumption DEF Init, ConnectThreads
<1>1. Coupled /\ OneWorker
  BY DEF Coupled, OneWorker, Busy
<1>2. NumbersUsed
  BY DEF NumbersUsed
<1>3. InTurn
  BY DEF InTurn
<1>4. RegistOnDataLink
  BY DEF RegistOnDataLink
<1> QED
  BY <1>1, <1>2, <1>3, <1>4 DEF LinkInv

LEMMA CoupledStep == TypeOK /\ Coupled /\ OneWorker /\ [Next]_vars => Coupled' /\ OneWorker'
<1> SUFFICES ASSUME TypeOK, Coupled, OneWorker, [Next]_vars
             PROVE  Coupled' /\ OneWorker'
  OBVIOUS
<1> USE AddressesAssumption DEF TypeOK, ConnectThreads, Coupled, OneWorker, Busy
<1>1. ASSUME NEW t \in ConnectThreads, NEW g \in Links, NEW a \in Addresses,
             ConnectOk(t, g, a)
      PROVE  Coupled' /\ OneWorker'
  BY <1>1 DEF ConnectOk
<1>2. ASSUME NEW t \in ConnectThreads, ConnectFails(t) PROVE Coupled' /\ OneWorker'
  BY <1>2 DEF ConnectFails
<1>3. ASSUME NEW t \in ConnectThreads, Assign(t) PROVE Coupled' /\ OneWorker'
  BY <1>3 DEF Assign, AfterAttempt
<1>4. ASSUME NEW g \in Links, Verdict(g) PROVE Coupled' /\ OneWorker'
  BY <1>4 DEF Verdict, WorkerFree
<1>5. ASSUME NEW g \in Links, CompareOk(g) PROVE Coupled' /\ OneWorker'
  BY <1>5 DEF CompareOk
<1>6. ASSUME NEW g \in Links, CompareRejected(g) PROVE Coupled' /\ OneWorker'
  BY <1>6 DEF CompareRejected, DialAgain
<1>7. ASSUME NEW g \in Links, Delete(g) PROVE Coupled' /\ OneWorker'
  BY <1>7 DEF Delete
<1>8. ASSUME NEW g \in Links, Regist(g) PROVE Coupled' /\ OneWorker'
  BY <1>8 DEF Regist
<1>9. CASE UNCHANGED vars
  BY <1>9 DEF vars
<1> QED
  BY <1>1, <1>2, <1>3, <1>4, <1>5, <1>6, <1>7, <1>8, <1>9
  DEF Next, ConnectStep, WorkerStep

\* A link is never unused again, keeps its address, and stays deleted.
LEMMA LinksForward ==
    ASSUME TypeOK, Coupled, [Next]_vars, NEW g \in Links
    PROVE  /\ link[g] # "unused" => link'[g] # "unused" /\ address'[g] = address[g]
           /\ link[g] = "freed" => link'[g] = "freed"
           /\ link[g] = "rejected" /\ callback[g] = "dialled" =>
                 \/ link'[g] = "rejected" /\ callback'[g] = "dialled"
                 \/ link'[g] = "freed"
           /\ callback[g] = "done" => callback'[g] = "done"
BY DEF TypeOK, Coupled, Next, ConnectStep, WorkerStep, vars, ConnectOk,
   ConnectFails, Assign, Verdict, CompareOk, CompareRejected, Delete, Regist

LEMMA NumbersUsedStep ==
    ASSUME TypeOK, Coupled, NumbersUsed, [Next]_vars
    PROVE  NumbersUsed'
<1>1. \A a : Used(a) => Used(a)'
  BY LinksForward DEF Used
<1>2. CASE UNCHANGED <<s_data_conn, connector>>
  BY <1>1, <1>2 DEF NumbersUsed
<1>3. ASSUME NEW t \in ConnectThreads, NEW g \in Links, NEW a \in Addresses,
             ConnectOk(t, g, a)
      PROVE  NumbersUsed'
  <2>1. Used(a)'
    BY <1>3 DEF ConnectOk, Used, TypeOK
  <2> QED
    BY <1>1, <1>3, <2>1 DEF ConnectOk, NumbersUsed, TypeOK
<1>4. ASSUME NEW t \in ConnectThreads, ConnectFails(t) PROVE NumbersUsed'
  BY <1>1, <1>4, AddressesAssumption DEF ConnectFails, NumbersUsed, TypeOK
<1>5. ASSUME NEW t \in ConnectThreads, Assign(t) PROVE NumbersUsed'
  BY <1>1, <1>5 DEF Assign, AfterAttempt, NumbersUsed, TypeOK
<1>6. ASSUME NEW g \in Links, CompareRejected(g) PROVE NumbersUsed'
  BY <1>1, <1>6 DEF CompareRejected, DialAgain, NumbersUsed, TypeOK, ConnectThreads
<1> QED
  BY <1>2, <1>3, <1>4, <1>5, <1>6
  DEF Next, ConnectStep, WorkerStep, vars, Verdict, CompareOk, Delete, Regist

LEMMA TwiceStays ==
    ASSUME TypeOK, Coupled, TwiceAtOneAddress, [Next]_vars
    PROVE  TwiceAtOneAddress'
BY LinksForward DEF TwiceAtOneAddress

LEMMA InTurnStep ==
    ASSUME TypeOK, OneTurn, Coupled, NumbersUsed, InTurn, [Next]_vars
    PROVE  TwiceAtOneAddress' \/ InTurn'
<1> USE DEF TypeOK, ConnectThreads, InTurn, Pending
<1>1. ASSUME NEW t \in ConnectThreads, NEW g \in Links, NEW a \in Addresses,
             ConnectOk(t, g, a)
      PROVE  InTurn'
  <2>1. /\ connector[t].pc = "connect" /\ link[g] = "unused"
        /\ connector'[t].pc = "return" /\ connector'[t].ret = a
        /\ \A u \in ConnectThreads : u # t => connector'[u] = connector[u]
        /\ link'[g] = "pushed" /\ address'[g] = a
        /\ \A h \in Links : h # g => link'[h] = link[h] /\ address'[h] = address[h]
        /\ UNCHANGED <<s_data_conn, callback>>
    BY <1>1 DEF ConnectOk
  <2>2. \A h \in Links : h # g => ~Pending(h)'
    BY <2>1 DEF OneTurn, Dialling
  <2>3. s_data_conn = a => \E h \in Links : /\ h # g /\ link'[h] = "freed"
                                            /\ address'[h] = a
    <3>1. ASSUME s_data_conn = a
          PROVE  \E h \in Links : h # g /\ link'[h] = "freed" /\ address'[h] = a
      <4>1. PICK h \in Links : link[h] # "unused" /\ address[h] = a
        BY <3>1 DEF NumbersUsed, Used
      <4>2. link[h] = "freed"
        BY <1>1, <4>1 DEF ConnectOk, At, Allocated
      <4> QED
        BY <2>1, <4>1, <4>2
    <3> QED
      BY <3>1
  <2>4. \A u \in ConnectThreads : u # t => connector'[u].pc \notin {"connect", "return"}
    BY <2>1
  <2>5. \A h \in Links : callback'[h] = "regist" => s_data_conn' = address'[h]
    BY <2>1 DEF Coupled
  <2>6. \A u \in ConnectThreads, h \in Links :
          connector'[u].pc = "return" /\ Pending(h)' =>
             /\ connector'[u].ret = address'[h]
             /\ s_data_conn' = address'[h] =>
                   \E k \in Links : /\ k # h /\ link'[k] = "freed"
                                    /\ address'[k] = address'[h]
    BY <2>1, <2>2, <2>3, <2>4
  <2> QED
    BY <2>1, <2>4, <2>5, <2>6
<1>2. ASSUME NEW t \in ConnectThreads, ConnectFails(t) PROVE InTurn'
  <2>1. \A h \in Links : ~Pending(h)'
    BY <1>2 DEF ConnectFails, OneTurn, Dialling
  <2> QED
    BY <1>2, <2>1 DEF ConnectFails
<1>3. ASSUME NEW t \in ConnectThreads, Assign(t) PROVE InTurn'
  <2>1. /\ connector[t].pc = "return" /\ s_data_conn' = connector[t].ret
        /\ connector'[t].pc = "done"
        /\ \A u \in ConnectThreads : u # t => connector'[u] = connector[u]
        /\ UNCHANGED <<link, address, callback>>
    BY <1>3 DEF Assign, AfterAttempt
  <2>2. \A u \in ConnectThreads : connector'[u].pc \notin {"connect", "return"}
    BY <2>1
  <2>3. \A g \in Links : callback'[g] = "regist" => s_data_conn' = address'[g]
    BY <2>1 DEF Coupled
  <2> QED
    BY <2>2, <2>3
<1>4. ASSUME NEW g \in Links, Verdict(g) PROVE InTurn'
  BY <1>4 DEF Verdict
<1>5. ASSUME NEW g \in Links, CompareOk(g) PROVE InTurn'
  BY <1>5 DEF CompareOk, Matches
<1>6. ASSUME NEW g \in Links, CompareRejected(g)
      PROVE  TwiceAtOneAddress' \/ InTurn'
  <2>1. /\ callback[g] = "compare" /\ link[g] = "rejected" /\ Pending(g)
        /\ UNCHANGED <<s_data_conn, link, address>>
        /\ \A h \in Links : h # g => callback'[h] = callback[h]
    BY <1>6 DEF CompareRejected
  <2>2. CASE address[g] = s_data_conn
    <3>1. /\ callback'[g] = "dialled"
          /\ connector'[g].pc = "connect" /\ connector'[g].ret = connector[g].ret
          /\ \A u \in ConnectThreads : u # g => connector'[u] = connector[u]
      BY <1>6, <2>2 DEF CompareRejected, Matches, DialAgain
    <3>2. \A u \in ConnectThreads : connector[u].pc # "connect"
      BY <2>1 DEF OneTurn, Dialling
    <3>3. CASE \E u \in ConnectThreads : connector[u].pc = "return"
      <4>1. \E h \in Links : h # g /\ link[h] = "freed" /\ address[h] = address[g]
        BY <2>1, <2>2, <3>3
      <4> QED
        BY <2>1, <3>1, <4>1 DEF TwiceAtOneAddress
    <3>4. CASE \A u \in ConnectThreads : connector[u].pc # "return"
      <4>1. \A u \in ConnectThreads :
               /\ connector'[u].pc # "return"
               /\ connector'[u].pc = "connect" => u = g
        BY <3>1, <3>2, <3>4
      <4>2. \A h \in Links : callback'[h] = "regist" => s_data_conn' = address'[h]
        BY <2>1, <3>1
      <4> QED
        BY <4>1, <4>2
    <3> QED
      BY <3>3, <3>4
  <2>3. CASE address[g] # s_data_conn
    <3>1. callback'[g] = "missed" /\ UNCHANGED connector
      BY <1>6, <2>3 DEF CompareRejected, Matches
    <3> QED
      BY <2>1, <3>1
  <2> QED
    BY <2>2, <2>3
<1>7. ASSUME NEW g \in Links, Delete(g) PROVE InTurn'
  BY <1>7 DEF Delete
<1>8. ASSUME NEW g \in Links, Regist(g) PROVE InTurn'
  BY <1>8 DEF Regist
<1>9. CASE UNCHANGED vars
  BY <1>9 DEF vars
<1> QED
  BY <1>1, <1>2, <1>3, <1>4, <1>5, <1>6, <1>7, <1>8, <1>9
  DEF Next, ConnectStep, WorkerStep

LEMMA RegistStep ==
    ASSUME TypeOK, OneTurn, LinkInv, [Next]_vars
    PROVE  RegistOnDataLink'
<1> DEFINE Excepted == \E g, h \in Links : /\ g # h
                                           /\ {link[g], link[h]} = {"freed"}
                                           /\ address[g] = address[h]
<1>1. CASE Excepted
  <2>1. PICK g \in Links, h \in Links :
           g # h /\ link[g] = "freed" /\ link[h] = "freed" /\ address[g] = address[h]
    BY <1>1
  <2>2. /\ link'[g] = "freed" /\ link'[h] = "freed" /\ address'[g] = address'[h]
    BY <2>1, LinksForward DEF LinkInv
  <2> QED
    BY <2>1, <2>2 DEF RegistOnDataLink
<1>2. CASE ~Excepted
  <2>1. /\ ~crashed
        /\ \A g \in Links : registered[g] = IF callback[g] = "done" THEN 1 ELSE 0
    BY <1>2 DEF LinkInv, RegistOnDataLink
  <2>2. ASSUME NEW g \in Links, Regist(g) PROVE RegistOnDataLink'
    <3>1. /\ callback[g] = "regist" /\ link[g] = "live" /\ Busy(g)
      BY <2>2 DEF Regist, LinkInv, Coupled, Busy
    <3>2. ~TwiceAtOneAddress
      BY <1>2, <3>1 DEF TwiceAtOneAddress, LinkInv, OneWorker, Busy
    <3>3. s_data_conn = address[g]
      BY <3>1, <3>2 DEF LinkInv, InTurn
    <3>4. {h \in At(s_data_conn) : link[h] = "live"} = {g}
      BY <3>1, <3>3 DEF At, Allocated, OneTurn, Pending
    <3>5. /\ crashed' = FALSE
          /\ registered' = [h \in Links |-> registered[h] + IF h \in {g} THEN 1 ELSE 0]
          /\ callback' = [callback EXCEPT ![g] = "done"]
      BY <2>2, <3>4 DEF Regist
    <3>6. \A h \in Links : registered'[h] = IF callback'[h] = "done" THEN 1 ELSE 0
      BY <2>1, <3>1, <3>5 DEF TypeOK
    <3> QED
      BY <3>5, <3>6 DEF RegistOnDataLink
  <2>3. CASE ~\E g \in Links : Regist(g)
    <3>1. /\ UNCHANGED <<registered, crashed>>
          /\ \A g \in Links : callback'[g] = "done" <=> callback[g] = "done"
      BY <2>3 DEF LinkInv, Coupled, TypeOK, Next, ConnectStep, WorkerStep, vars,
         ConnectOk, ConnectFails, Assign, Verdict, CompareOk, CompareRejected, Delete
    <3> QED
      BY <2>1, <3>1 DEF RegistOnDataLink
  <2> QED
    BY <2>2, <2>3
<1> QED
  BY <1>1, <1>2

\* regist_to_data's second, unlocked read of s_data_conn finds the link that came
\* up: it registers there, once, and on no other link, unless two rejected
\* links had one address.
THEOREM RegistersOnDataLink == Spec => []RegistOnDataLink
<1>1. Init => OneTurn
  BY DEF Init, OneTurn, Dialling, Pending, ConnectThreads
<1>2. TypeOK /\ OneTurn /\ LinkInv /\ [Next]_vars => LinkInv'
  BY CoupledStep, NumbersUsedStep, TwiceStays, InTurnStep, RegistStep DEF LinkInv
<1>3. LinkInv => RegistOnDataLink
  BY DEF LinkInv
<1> QED
  BY <1>1, <1>2, <1>3, TypeCorrect, LinkInvInit, OneTurnStep, PTL DEF Spec

=============================================================================
