--------------------------- MODULE GateGameProofs ---------------------------
(* Theorems about the gate and its game server, for any number of clients,   *)
(* links and messages.                                                       *)
EXTENDS GateGame, FiniteSetTheorems, SequenceTheorems, TLAPS

LEMMA InitType == SystemInit => SystemTypeOK
<1> SUFFICES ASSUME SystemInit PROVE SystemTypeOK
  OBVIOUS
<1> USE DEF SystemInit, Init, GameInit
<1>1. connector \in [ConnectThreads -> Connectors]
  BY DEF Connectors
<1>2. main \in [pc : MainPcs, from : Clients \cup Links \cup {Null},
                msg : Clients \cup 0 .. MaxFrames]
  BY BoundsAssumption DEF Idle, MainPcs, Shutdown
<1>3. /\ from_client \in [Clients -> Seq(0 .. MaxFrames)]
      /\ from_gs \in [Links -> Seq(Clients \cup {Shutdown})]
      /\ sent \in [Links -> Seq(Messages)]
  OBVIOUS
<1>4. /\ frames \in [Clients -> 0 .. MaxFrames]
      /\ replies \in [Links -> 0 .. MaxReplies]
      /\ heard \in [Links -> Nat]
  BY BoundsAssumption
<1> QED
  BY <1>1, <1>2, <1>3, <1>4 DEF SystemTypeOK, TypeOK, LinkStates, CallbackPcs

LEMMA ConnectorMoves ==
    ASSUME TypeOK, NEW t \in ConnectThreads,
           NEW p \in {"none", "loop", "connect", "return", "done"}
    PROVE  [connector EXCEPT ![t].pc = p] \in [ConnectThreads -> Connectors]
<1>1. connector[t] \in Connectors
  BY DEF TypeOK
<1>2. [connector[t] EXCEPT !.pc = p] \in Connectors
  BY <1>1 DEF Connectors
<1> QED
  BY <1>2 DEF TypeOK

LEMMA ConnectType ==
    ASSUME TypeOK, NEW t \in ConnectThreads, ConnectStep(t)
    PROVE  TypeOK'
<1> USE DEF TypeOK, Connectors, LinkStates, peerVars, inVars
<1>1. CASE ConnectLoop(t)
  <2>1. connector' \in [ConnectThreads -> Connectors]
    <3>1. PICK p \in {"connect", "done"} :
             connector' = [connector EXCEPT ![t].pc = p]
      BY <1>1 DEF ConnectLoop
    <3>2. TypeOK
      OBVIOUS
    <3> QED
      BY ONLY <3>1, <3>2, ConnectorMoves
  <2> QED
    BY <1>1, <2>1 DEF ConnectLoop
<1>2. CASE ConnectFails(t)
  BY <1>2 DEF ConnectFails
<1>3. CASE ConnectAssign(t)
  BY <1>3 DEF ConnectAssign, AfterAttempt
<1>4. ASSUME NEW g \in Links, ConnectOk(t, g) PROVE TypeOK'
  BY <1>4 DEF ConnectOk
<1> QED
  BY <1>1, <1>2, <1>3, <1>4 DEF ConnectStep

LEMMA CallbackType ==
    ASSUME TypeOK, NEW g \in Links, CallbackStep(g)
    PROVE  TypeOK'
<1> USE DEF TypeOK, LinkStates, CallbackPcs, peerVars, inVars
<1>1. CASE LinkUp(g)
  BY <1>1 DEF LinkUp
<1>2. CASE LinkRejected(g)
  <2>1. \/ connector' = connector
        \/ connector' = [connector EXCEPT ![g].pc = "loop"]
    <3>1. g \in ConnectThreads /\ connector[g] \in Connectors
      BY DEF ConnectThreads
    <3>2. connector = [connector EXCEPT ![g].pc = connector[g].pc]
      BY <3>1 DEF Connectors
    <3> QED
      BY <1>2, <3>2 DEF LinkRejected
  <2>2. connector' \in [ConnectThreads -> Connectors]
    <3>1. TypeOK /\ g \in ConnectThreads
      BY DEF ConnectThreads
    <3>2. connector \in [ConnectThreads -> Connectors]
      OBVIOUS
    <3>3. [connector EXCEPT ![g].pc = "loop"] \in [ConnectThreads -> Connectors]
      BY ONLY <3>1, ConnectorMoves
    <3> QED
      BY ONLY <2>1, <3>2, <3>3
  <2> QED
    BY <1>2, <2>2 DEF LinkRejected
<1>3. CASE RejectedFreed(g)
  BY <1>3 DEF RejectedFreed
<1>4. CASE CallbackCompare(g)
  BY <1>4 DEF CallbackCompare
<1>5. CASE CallbackSetOk(g)
  BY <1>5 DEF CallbackSetOk
<1>6. CASE CallbackRegist(g)
  <2>1. Regist \in Messages
    BY DEF Regist, Messages
  <2>2. sent' \in [Links -> Seq(Messages)]
    BY <1>6, <2>1 DEF CallbackRegist
  <2> QED
    BY <1>6, <2>2 DEF CallbackRegist
<1> QED
  BY <1>1, <1>2, <1>3, <1>4, <1>5, <1>6 DEF CallbackStep

LEMMA PeerType ==
    ASSUME TypeOK, PeerStep
    PROVE  TypeOK'
<1> USE BoundsAssumption DEF TypeOK, LinkStates, peerVars, inVars, Shutdown
<1>1. ASSUME NEW c \in Clients, ClientFrame(c) PROVE TypeOK'
  <2>1. frames[c] + 1 \in 0 .. MaxFrames
    BY <1>1 DEF ClientFrame
  <2>2. /\ frames' \in [Clients -> 0 .. MaxFrames]
        /\ from_client' \in [Clients -> Seq(0 .. MaxFrames)]
    BY <1>1, <2>1 DEF ClientFrame
  <2> QED
    BY <1>1, <2>2 DEF ClientFrame
<1>2. ASSUME NEW c \in Clients, ClientLeaves(c) PROVE TypeOK'
  BY <1>2 DEF ClientLeaves
<1>3. ASSUME NEW g \in Links, LinkDown(g) PROVE TypeOK'
  BY <1>3 DEF LinkDown
<1>4. ASSUME NEW g \in Links, LinkReaped(g) PROVE TypeOK'
  BY <1>4 DEF LinkReaped
<1>5. ASSUME NEW g \in Links, NEW c \in Clients, GsReply(g, c) PROVE TypeOK'
  <2>1. replies[g] + 1 \in 0 .. MaxReplies
    BY <1>5 DEF GsReply
  <2>2. Append(from_gs[g], c) \in Seq(Clients \cup {Shutdown})
    OBVIOUS
  <2>3. /\ replies' \in [Links -> 0 .. MaxReplies]
        /\ from_gs' \in [Links -> Seq(Clients \cup {Shutdown})]
    BY <1>5, <2>1, <2>2 DEF GsReply
  <2> QED
    BY <1>5, <2>3 DEF GsReply
<1> QED
  BY <1>1, <1>2, <1>3, <1>4, <1>5 DEF PeerStep

LEMMA HeadAndTail ==
    ASSUME NEW S, NEW q \in Seq(S), q # <<>>
    PROVE  Head(q) \in S /\ Tail(q) \in Seq(S)
OBVIOUS

LEMMA MainType ==
    ASSUME TypeOK, MainStep
    PROVE  TypeOK'
<1> USE DEF TypeOK, MainPcs, peerVars, inVars, Shutdown
<1>1. Idle \in [pc : MainPcs, from : Clients \cup Links \cup {Null},
                msg : Clients \cup 0 .. MaxFrames]
  BY BoundsAssumption DEF Idle
<1>2. ASSUME NEW c \in Clients, TakeClient(c) PROVE TypeOK'
  <2>1. /\ Head(from_client[c]) \in 0 .. MaxFrames
        /\ Tail(from_client[c]) \in Seq(0 .. MaxFrames)
    <3>1. from_client[c] \in Seq(0 .. MaxFrames) /\ from_client[c] # <<>>
      BY <1>2 DEF TakeClient
    <3> QED
      BY ONLY <3>1, HeadAndTail
  <2> QED
    BY <1>2, <2>1 DEF TakeClient
<1>3. ASSUME NEW g \in Links, TakeGs(g) PROVE TypeOK'
  <2>1. /\ Head(from_gs[g]) \in Clients \cup {Shutdown}
        /\ Tail(from_gs[g]) \in Seq(Clients \cup {Shutdown})
    BY <1>3 DEF TakeGs
  <2>2. main' \in [pc : MainPcs, from : Clients \cup Links \cup {Null},
                   msg : Clients \cup 0 .. MaxFrames]
    BY <1>1, <1>3, <2>1, BoundsAssumption DEF TakeGs
  <2> QED
    BY <1>3, <2>1, <2>2 DEF TakeGs
<1>4. CASE ToGs
  <2>1. ASSUME NEW g \in Links PROVE Send(g) \in [Links -> Seq(Messages)]
    <3>1. <<main.from, main.msg>> \in Messages
      BY BoundsAssumption DEF Messages
    <3> QED
      BY <3>1 DEF Send
  <2>2. sent' \in [Links -> Seq(Messages)]
    BY <1>4, <2>1 DEF ToGs
  <2>3. \/ main' = Idle
        \/ main' = [main EXCEPT !.pc = "null_td"]
        \/ main' = [main EXCEPT !.pc = "freed_conn"]
    BY <1>4 DEF ToGs
  <2> QED
    BY <1>1, <1>4, <2>2, <2>3 DEF ToGs
<1>5. CASE GsGone
  BY <1>1, <1>5 DEF GsGone, GameConnCleared
<1> QED
  BY <1>2, <1>3, <1>4, <1>5 DEF MainStep

LEMMA StepType == SystemTypeOK /\ [SystemNext]_systemVars => SystemTypeOK'
<1> SUFFICES ASSUME SystemTypeOK, [SystemNext]_systemVars PROVE SystemTypeOK'
  OBVIOUS
<1>1. TypeOK
  BY DEF SystemTypeOK
<1>2. CASE GateMoves
  <2>1. TypeOK'
    BY <1>1, <1>2, ConnectType, CallbackType, PeerType, MainType
    DEF GateMoves, Next
  <2> QED
    BY <1>2, <2>1 DEF GateMoves, gameVars, SystemTypeOK
<1>3. ASSUME NEW g \in Links, GameHears(g) PROVE SystemTypeOK'
  <2>1. TypeOK'
    BY <1>1, <1>3 DEF GameHears, vars, TypeOK, peerVars, inVars
  <2>2. heard' \in [Links -> Nat]
    BY <1>3 DEF GameHears, SystemTypeOK
  <2> QED
    BY <1>3, <2>1, <2>2 DEF GameHears, RegisterServer, SystemTypeOK
<1>4. CASE UNCHANGED systemVars
  BY <1>1, <1>4 DEF systemVars, vars, gameVars, SystemTypeOK, TypeOK, peerVars, inVars
<1> QED
  BY <1>2, <1>3, <1>4 DEF SystemNext

\* The variables of gate and game server keep their types: the main thread's
\* messages, the links' queues and the table of registered gates among them.
THEOREM TypeCorrect == SystemSpec => []SystemTypeOK
BY InitType, StepType, PTL DEF SystemSpec

-----------------------------------------------------------------------------
(* One link at a time *)

\* Links are used one after the other: the one s_game_conn names or net_connect
\* is about to return, ...
Current(g) == \/ s_game_conn = g
              \/ /\ s_game_conn = Null
                 /\ connector[Null].pc = "return" /\ connector[Null].ret = g

\* ... and those the main thread is through with.
Over(g) == /\ link[g] \in {"down", "freed"}
           /\ callback[g] \in {"missed", "done"}
           /\ from_gs[g] = <<>>
           /\ main.from # g

\* Only the first connect thread dials, and only while there is no link; one
\* that a rejected link starts finds s_game_conn set, and for good.
Dialling ==
    /\ connector[Null].pc \in {"connect", "return"} => s_game_conn = Null
    /\ \A g \in Links : connector[g].pc # "none" =>
          /\ connector[g].pc \in {"loop", "done"}
          /\ s_game_conn = g
          /\ link[g] \in {"rejected", "freed"} /\ callback[g] = "none"
    /\ \A g \in Links :
          connector[Null].pc = "return" /\ connector[Null].ret = g =>
             callback[g] \in {"none", "compare", "missed"} /\ link[g] # "unused"

\* The states of a link and of its callback go together.
LinkCallback ==
    \A g \in Links :
       /\ link[g] \in {"unused", "pushed", "rejected"} => callback[g] = "none"
       /\ link[g] = "live" => callback[g] # "none"
       /\ callback[g] \in {"compare", "set_ok", "regist"} => link[g] = "live"
       /\ callback[g] \in {"set_ok", "regist"} => s_game_conn = g
       /\ callback[g] \in {"regist", "done"} => s_init_ok
       /\ link[g] = "unused" => ~Current(g) /\ from_gs[g] = <<>> /\ main.from # g
       /\ link[g] # "unused" => Current(g) \/ Over(g)

\* A link's end is the last of its messages, and waits to be taken until
\* s_game_conn is cleared for it.
EndLast ==
    \A g \in Links :
       /\ \A i \in DOMAIN from_gs[g] : from_gs[g][i] = Shutdown =>
             i = Len(from_gs[g]) /\ link[g] \in {"down", "freed"}
       /\ \A i \in DOMAIN from_gs[g] : from_gs[g][i] # Shutdown => sent[g] # <<>>
       /\ from_gs[g] # <<>> => callback[g] \in {"missed", "done"}
       /\ callback[g] = "done" /\ link[g] \in {"down", "freed"} =>
             \/ s_game_conn # g
             \/ link[g] = "down" /\ main.from = g
             \/ /\ link[g] = "down" /\ from_gs[g] # <<>>
                /\ from_gs[g][Len(from_gs[g])] = Shutdown
       /\ link[g] = "freed" /\ from_gs[g] # <<>> => ~s_init_ok

\* What the main thread has in hand.
InHand ==
    /\ main.pc # "idle" => s_init_ok
    /\ main.pc = "idle" => main = Idle
    /\ main.pc # "idle" => main.from # Null
    /\ main.from \in Clients => main.pc # "gs_gone" /\ main.msg \in Nat
    /\ main.from \in Links =>
          /\ link[main.from] = "down" /\ from_gs[main.from] = <<>>
          /\ callback[main.from] \in {"missed", "done"}
          /\ main.pc = "gs_gone" => s_game_conn = main.from
          /\ main.pc # "gs_gone" => callback[main.from] = "missed"
    /\ s_init_ok => \E g \in Links : callback[g] \in {"regist", "done"}

\* Registrations: one on a link whose callback is done; and the gate sends on
\* the link s_game_conn names only.
SentInv ==
    \A g \in Links :
       /\ sent[g] # <<>> => (s_game_conn = g \/ Over(g)) /\ callback[g] # "none"
       /\ \A i \in DOMAIN sent[g] : sent[g][i] = Regist \/ sent[g][i][1] \in Clients
       /\ \A i \in DOMAIN sent[g] : sent[g][i] = Regist => callback[g] = "done"
       /\ callback[g] = "done" => \E i \in DOMAIN sent[g] : sent[g][i] = Regist
       /\ \A i, j \in DOMAIN sent[g] :
             sent[g][i] = Regist /\ sent[g][j] = Regist => i = j

GateInv == Dialling /\ LinkCallback /\ EndLast /\ InHand /\ SentInv

\* At the start there is no link.
LEMMA GateInit == Init => GateInv
<1> SUFFICES ASSUME Init PROVE GateInv
  OBVIOUS
<1> USE ConnsAssumption DEF Init, ConnectThreads, Idle
<1>1. Dialling
  BY DEF Dialling
<1>2. LinkCallback
  BY DEF LinkCallback, Current
<1>3. EndLast /\ SentInv
  BY DEF EndLast, SentInv
<1>4. InHand
  BY DEF InHand
<1> QED
  BY <1>1, <1>2, <1>3, <1>4 DEF GateInv

\* connect_to_gs: the threads dial one link at a time.
LEMMA ConnectGate ==
    ASSUME TypeOK, GateInv, NEW t \in ConnectThreads, ConnectStep(t)
    PROVE  GateInv'
<1> USE DEF GateInv
<1>1. /\ connector \in [ConnectThreads -> Connectors]
      /\ link \in [Links -> LinkStates]
      /\ Null \in ConnectThreads /\ Links \subseteq ConnectThreads
      /\ Null \notin Links /\ MinusOne \notin Links /\ MinusOne # Null
      /\ UNCHANGED <<s_init_ok, callback, from_gs, main, sent>>
  BY ConnsAssumption DEF TypeOK, ConnectThreads, ConnectStep, ConnectLoop,
     ConnectFails, ConnectAssign, ConnectOk, inVars
<1>2. connector[t].pc # "loop" => t = Null \/ ConnectLoop(t)
  BY DEF ConnectStep, ConnectLoop, ConnectFails, ConnectAssign, ConnectOk,
     ConnectThreads, Dialling
<1>3. CASE ConnectLoop(t)
  <2>1. /\ UNCHANGED <<s_game_conn, link>>
        /\ connector[t].pc = "loop"
        /\ \A u \in ConnectThreads : u # t => connector'[u] = connector[u]
        /\ connector'[t].pc = IF s_game_conn = Null THEN "connect" ELSE "done"
    BY <1>1, <1>3 DEF ConnectLoop, StillToDial, Connectors
  <2>2. Dialling'
    BY <1>1, <2>1 DEF Dialling
  <2>3. \A g \in Links : Current(g)' <=> Current(g)
    BY <1>1, <2>1 DEF Current
  <2>4. LinkCallback' /\ EndLast' /\ InHand' /\ SentInv'
    BY <1>1, <2>1, <2>3 DEF LinkCallback, Over, EndLast, InHand, SentInv
  <2> QED
    BY <2>2, <2>4
<1>4. CASE ConnectFails(t)
  <2>1. /\ UNCHANGED <<s_game_conn, link>>
        /\ t = Null /\ connector[t].pc = "connect"
        /\ \A u \in ConnectThreads : u # t => connector'[u] = connector[u]
        /\ connector'[t].pc = "return" /\ connector'[t].ret \in {Null, MinusOne}
    BY <1>1, <1>2, <1>4 DEF ConnectFails, ConnectLoop
  <2>2. Dialling'
    BY <1>1, <2>1 DEF Dialling
  <2>3. \A g \in Links : Current(g)' <=> Current(g)
    BY <1>1, <2>1 DEF Current
  <2>4. LinkCallback' /\ EndLast' /\ InHand' /\ SentInv'
    BY <1>1, <2>1, <2>3 DEF LinkCallback, Over, EndLast, InHand, SentInv
  <2> QED
    BY <2>2, <2>4
<1>5. CASE ConnectAssign(t)
  <2>1. /\ UNCHANGED link
        /\ t = Null /\ connector[t].pc = "return"
        /\ \A u \in ConnectThreads : u # t => connector'[u] = connector[u]
        /\ connector'[t].pc = "loop"
        /\ s_game_conn' = connector[t].ret
        /\ s_game_conn = Null
    BY <1>1, <1>2, <1>5 DEF ConnectAssign, ConnectLoop, AfterAttempt, Dialling
  <2>2. Dialling'
    BY <1>1, <2>1 DEF Dialling
  <2>3. \A g \in Links : Current(g)' <=> Current(g)
    BY <1>1, <2>1 DEF Current
  <2>4. LinkCallback'
    BY <1>1, <2>1, <2>3 DEF LinkCallback, Over
  <2>5. SentInv'
    BY <1>1, <2>1 DEF SentInv, Over
  <2>6. EndLast'
    <3>1. \A g \in Links : callback[g] = "done" => s_game_conn' # g
      BY <1>1, <2>1 DEF Dialling
    <3> QED
      BY <1>1, <2>1, <3>1 DEF EndLast
  <2>7. InHand'
    BY <1>1, <2>1 DEF InHand
  <2> QED
    BY <2>2, <2>4, <2>5, <2>6, <2>7
<1>6. ASSUME NEW g \in Links, ConnectOk(t, g) PROVE GateInv'
  <2>1. /\ UNCHANGED s_game_conn
        /\ t = Null /\ connector[t].pc = "connect"
        /\ \A u \in ConnectThreads : u # t => connector'[u] = connector[u]
        /\ connector'[t].pc = "return" /\ connector'[t].ret = g
        /\ link[g] = "unused" /\ link' = [link EXCEPT ![g] = "pushed"]
        /\ s_game_conn = Null
    BY <1>1, <1>2, <1>6 DEF ConnectOk, ConnectLoop, Dialling
  <2>2. Dialling'
    BY <1>1, <2>1 DEF Dialling, LinkCallback
  <2>3. Current(g)' /\ \A h \in Links : h # g => ~Current(h) /\ ~Current(h)'
    BY <1>1, <2>1 DEF Current
  <2>4. \A h \in Links : h # g => link'[h] = link[h]
    BY <1>1, <2>1
  <2>5. link'[g] = "pushed"
    BY <1>1, <2>1
  <2>6. LinkCallback'
    BY <1>1, <2>1, <2>3, <2>4, <2>5 DEF LinkCallback, Over
  <2>7. EndLast' /\ SentInv'
    BY <1>1, <2>1, <2>4, <2>5 DEF EndLast, SentInv, Over, LinkCallback
  <2>8. InHand'
    BY <1>1, <2>1, <2>4, <2>5 DEF InHand
  <2> QED
    BY <2>2, <2>6, <2>7, <2>8
<1> QED
  BY <1>3, <1>4, <1>5, <1>6 DEF ConnectStep

\* push_back: the new last element, and the old ones where they were.
LEMMA Appended ==
    ASSUME NEW S, NEW q \in Seq(S), NEW e \in S, NEW r, r = Append(q, e)
    PROVE  /\ DOMAIN r = 1 .. Len(q) + 1 /\ r # <<>>
           /\ DOMAIN q = 1 .. Len(q) /\ Len(q) \in Nat
           /\ Len(r) = Len(q) + 1
           /\ \A i \in DOMAIN q : r[i] = q[i]
           /\ r[Len(q) + 1] = e
  BY AppendProperties, LenProperties

\* A link's worker: the verdict on the link, and connector_callback.
LEMMA CallbackGate ==
    ASSUME TypeOK, GateInv, NEW g \in Links, CallbackStep(g)
    PROVE  GateInv'
<1> USE DEF GateInv
<1>1. /\ connector \in [ConnectThreads -> Connectors]
      /\ link \in [Links -> LinkStates]
      /\ callback \in [Links -> CallbackPcs]
      /\ sent \in [Links -> Seq(Messages)]
      /\ Null \in ConnectThreads /\ Links \subseteq ConnectThreads
      /\ Null \notin Links /\ g \in ConnectThreads
      /\ UNCHANGED <<s_game_conn, from_gs, main>>
  BY ConnsAssumption DEF TypeOK, ConnectThreads, CallbackStep, LinkUp,
     LinkRejected, RejectedFreed, CallbackCompare, CallbackSetOk,
     CallbackRegist, inVars
<1>2. CASE LinkUp(g)
  <2>1. /\ link[g] = "pushed" /\ callback[g] = "none"
        /\ link'[g] = "live" /\ callback'[g] = "compare"
        /\ \A h \in Links : h # g => link'[h] = link[h] /\ callback'[h] = callback[h]
        /\ UNCHANGED <<s_init_ok, connector, sent>>
    BY <1>1, <1>2 DEF LinkUp, LinkCallback
  <2>2. \A h \in Links : Current(h)' <=> Current(h)
    BY <1>1, <2>1 DEF Current
  <2>3. Dialling'
    BY <1>1, <2>1 DEF Dialling
  <2>4. LinkCallback'
    BY <1>1, <2>1, <2>2 DEF LinkCallback, Over
  <2>5. EndLast' /\ SentInv'
    BY <1>1, <2>1 DEF EndLast, SentInv, Over
  <2>6. InHand'
    BY <1>1, <2>1 DEF InHand
  <2> QED
    BY <2>3, <2>4, <2>5, <2>6
<1>3. CASE LinkRejected(g)
  <2>1. /\ link[g] = "pushed" /\ callback[g] = "none"
        /\ link'[g] = "rejected"
        /\ \A h \in Links : h # g => link'[h] = link[h]
        /\ UNCHANGED <<s_init_ok, callback, sent>>
    BY <1>1, <1>3 DEF LinkRejected, LinkCallback
  <2>2. /\ \A t \in ConnectThreads : t # g => connector'[t] = connector[t]
        /\ connector'[g].pc = IF s_game_conn = g THEN "loop" ELSE connector[g].pc
    BY <1>1, <1>3 DEF LinkRejected, Connectors
  <2>3. \A h \in Links : Current(h)' <=> Current(h)
    BY <1>1, <2>2 DEF Current
  <2>4. Dialling'
    BY <1>1, <2>1, <2>2 DEF Dialling
  <2>5. LinkCallback'
    BY <1>1, <2>1, <2>3 DEF LinkCallback, Over
  <2>6. EndLast' /\ SentInv'
    BY <1>1, <2>1 DEF EndLast, SentInv, Over
  <2>7. InHand'
    BY <1>1, <2>1 DEF InHand
  <2> QED
    BY <2>4, <2>5, <2>6, <2>7
<1>4. CASE RejectedFreed(g)
  <2>1. /\ link[g] = "rejected" /\ callback[g] = "none"
        /\ link'[g] = "freed"
        /\ \A h \in Links : h # g => link'[h] = link[h]
        /\ UNCHANGED <<s_init_ok, connector, callback, sent>>
    BY <1>1, <1>4 DEF RejectedFreed, LinkCallback
  <2>2. \A h \in Links : Current(h)' <=> Current(h)
    BY <1>1, <2>1 DEF Current
  <2>3. Dialling'
    BY <1>1, <2>1 DEF Dialling
  <2>4. LinkCallback'
    BY <1>1, <2>1, <2>2 DEF LinkCallback, Over
  <2>5. EndLast' /\ SentInv'
    <3>1. EndLast'
      BY <1>1, <2>1 DEF EndLast
    <3>2. \A h \in Links : Over(h) => Over(h)'
      BY <1>1, <2>1 DEF Over
    <3>3. SentInv'
      BY <1>1, <2>1, <3>2 DEF SentInv
    <3> QED
      BY <3>1, <3>3
  <2>6. InHand'
    BY <1>1, <2>1 DEF InHand
  <2> QED
    BY <2>3, <2>4, <2>5, <2>6
<1>5. CASE CallbackCompare(g)
  <2>1. /\ callback[g] = "compare"
        /\ callback'[g] = IF s_game_conn = g THEN "set_ok" ELSE "missed"
        /\ \A h \in Links : h # g => callback'[h] = callback[h]
        /\ link[g] = "live"
        /\ UNCHANGED <<s_init_ok, connector, link, sent>>
    BY <1>1, <1>5 DEF CallbackCompare, Matches, LinkCallback
  <2>2. \A h \in Links : Current(h)' <=> Current(h)
    BY <1>1, <2>1 DEF Current
  <2>3. Dialling'
    BY <1>1, <2>1 DEF Dialling
  <2>4. LinkCallback'
    BY <1>1, <2>1, <2>2 DEF LinkCallback, Over
  <2>5. EndLast' /\ SentInv'
    <3>1. EndLast'
      BY <1>1, <2>1 DEF EndLast
    <3>2. \A h \in Links : Over(h) => Over(h)'
      BY <1>1, <2>1 DEF Over
    <3>3. SentInv'
      BY <1>1, <2>1, <3>2 DEF SentInv
    <3> QED
      BY <3>1, <3>3
  <2>6. InHand'
    BY <1>1, <2>1 DEF InHand
  <2> QED
    BY <2>3, <2>4, <2>5, <2>6
<1>6. CASE CallbackSetOk(g)
  <2>1. /\ callback[g] = "set_ok" /\ callback'[g] = "regist"
        /\ \A h \in Links : h # g => callback'[h] = callback[h]
        /\ link[g] = "live" /\ s_game_conn = g /\ s_init_ok' = TRUE
        /\ UNCHANGED <<connector, link, sent>>
    BY <1>1, <1>6 DEF CallbackSetOk, LinkCallback
  <2>2. \A h \in Links : Current(h)' <=> Current(h)
    BY <1>1, <2>1 DEF Current
  <2>3. Dialling'
    BY <1>1, <2>1 DEF Dialling
  <2>4. LinkCallback'
    BY <1>1, <2>1, <2>2 DEF LinkCallback, Over
  <2>5. EndLast' /\ SentInv'
    <3>1. \A h \in Links : from_gs[h] # <<>> => link[h] # "freed"
      BY <1>1, <2>1 DEF LinkCallback, Over, Current
    <3>2. EndLast'
      BY <1>1, <2>1, <3>1 DEF EndLast
    <3>3. SentInv'
      BY <1>1, <2>1 DEF SentInv, Over
    <3> QED
      BY <3>2, <3>3
  <2>6. InHand'
    BY <1>1, <2>1 DEF InHand
  <2> QED
    BY <2>3, <2>4, <2>5, <2>6
<1>7. CASE CallbackRegist(g)
  <2>1. /\ callback[g] = "regist" /\ callback'[g] = "done"
        /\ \A h \in Links : h # g => /\ callback'[h] = callback[h]
                                     /\ sent'[h] = sent[h]
        /\ link[g] = "live" /\ s_game_conn = g
        /\ sent'[g] = Append(sent[g], Regist)
        /\ UNCHANGED <<s_init_ok, connector, link>>
    BY <1>1, <1>7 DEF CallbackRegist, LinkCallback
  <2>2. \A h \in Links : Current(h)' <=> Current(h)
    BY <1>1, <2>1 DEF Current
  <2>3. Dialling'
    BY <1>1, <2>1 DEF Dialling
  <2>4. LinkCallback'
    BY <1>1, <2>1, <2>2 DEF LinkCallback, Over
  <2>5. SentInv'
    <3>1. /\ sent[g] \in Seq(Messages)
          /\ \A i \in DOMAIN sent[g] : sent[g][i] # Regist
      BY <1>1, <2>1 DEF SentInv
    <3>2. /\ DOMAIN sent'[g] = 1 .. Len(sent[g]) + 1 /\ sent'[g] # <<>>
          /\ DOMAIN sent[g] = 1 .. Len(sent[g]) /\ Len(sent[g]) \in Nat
          /\ \A i \in DOMAIN sent[g] : sent'[g][i] = sent[g][i]
          /\ sent'[g][Len(sent[g]) + 1] = Regist
      <4>1. Regist \in Messages
        BY DEF Regist, Messages
      <4> QED
        BY <2>1, <3>1, <4>1, Appended
    <3>3. ASSUME NEW h \in Links, h # g PROVE SentInv!(h)'
      BY <1>1, <2>1, <3>3 DEF SentInv, Over
    <3>4. SentInv!(g)'
      <4>1. \A i \in DOMAIN sent'[g] :
               sent'[g][i] = Regist \/ sent'[g][i][1] \in Clients
        BY <3>2 DEF SentInv
      <4>2. \A i, j \in DOMAIN sent'[g] :
               sent'[g][i] = Regist /\ sent'[g][j] = Regist => i = j
        BY <3>1, <3>2
      <4>3. \E i \in DOMAIN sent'[g] : sent'[g][i] = Regist
        <5>1. Len(sent[g]) + 1 \in DOMAIN sent'[g]
          BY <3>2
        <5> QED
          BY <3>2, <5>1
      <4> QED
        BY <1>1, <2>1, <4>1, <4>2, <4>3
    <3> QED
      BY <3>3, <3>4 DEF SentInv
  <2>6. EndLast'
    <3>1. sent'[g] # <<>>
      BY <2>1, <2>5 DEF SentInv
    <3> QED
      BY <1>1, <2>1, <3>1 DEF EndLast, Over
  <2>7. InHand'
    BY <1>1, <2>1 DEF InHand
  <2> QED
    BY <2>3, <2>4, <2>5, <2>6, <2>7
<1> QED
  BY <1>2, <1>3, <1>4, <1>5, <1>6, <1>7 DEF CallbackStep

\* Peers: a link's end is the last that is heard of it.
LEMMA PeerGate ==
    ASSUME TypeOK, GateInv, PeerStep
    PROVE  GateInv'
<1> USE DEF GateInv
<1>1. /\ link \in [Links -> LinkStates]
      /\ from_gs \in [Links -> Seq(Clients \cup {Shutdown})]
      /\ UNCHANGED <<s_game_conn, s_init_ok, connector, callback, main, sent>>
  BY DEF TypeOK, PeerStep, ClientFrame, ClientLeaves, LinkDown, LinkReaped,
     GsReply
<1>2. \A h \in Links : Current(h)' <=> Current(h)
  BY <1>1 DEF Current
<1>3. CASE UNCHANGED <<link, from_gs>>
  BY <1>1, <1>2, <1>3 DEF Dialling, LinkCallback, EndLast, InHand, SentInv, Over
<1>4. ASSUME NEW g \in Links, LinkDown(g) PROVE GateInv'
  <2>1. /\ link[g] = "live" /\ callback[g] \in {"missed", "done"}
        /\ link'[g] = "down" /\ from_gs'[g] = Append(from_gs[g], Shutdown)
        /\ \A h \in Links : h # g => link'[h] = link[h] /\ from_gs'[h] = from_gs[h]
    BY <1>1, <1>4 DEF LinkDown, Listening
  <2>2. /\ DOMAIN from_gs'[g] = 1 .. Len(from_gs[g]) + 1 /\ from_gs'[g] # <<>>
        /\ DOMAIN from_gs[g] = 1 .. Len(from_gs[g]) /\ Len(from_gs[g]) \in Nat
        /\ Len(from_gs'[g]) = Len(from_gs[g]) + 1
        /\ \A i \in DOMAIN from_gs[g] : from_gs'[g][i] = from_gs[g][i]
        /\ from_gs'[g][Len(from_gs[g]) + 1] = Shutdown
    <3>1. /\ from_gs[g] \in Seq(Clients \cup {Shutdown})
          /\ 0 \in Clients \cup {Shutdown}
          /\ from_gs'[g] = Append(from_gs[g], 0)
      BY <1>1, <2>1 DEF Shutdown
    <3> QED
      BY <3>1, Appended DEF Shutdown
  <2>3. Dialling'
    BY <1>1, <2>1 DEF Dialling
  <2>4. LinkCallback'
    BY <1>1, <1>2, <2>1 DEF LinkCallback, Over
  <2>5. EndLast'
    <3>1. ASSUME NEW h \in Links, h # g PROVE EndLast!(h)'
      BY <1>1, <2>1, <3>1 DEF EndLast
    <3>2. EndLast!(g)'
      BY <1>1, <2>1, <2>2 DEF EndLast
    <3> QED
      BY <3>1, <3>2 DEF EndLast
  <2>6. InHand'
    BY <1>1, <2>1 DEF InHand
  <2>7. SentInv'
    BY <1>1, <2>1 DEF SentInv, Over
  <2> QED
    BY <2>3, <2>4, <2>5, <2>6, <2>7
<1>5. ASSUME NEW g \in Links, LinkReaped(g) PROVE GateInv'
  <2>1. /\ link[g] = "down" /\ link'[g] = "freed"
        /\ s_init_ok => from_gs[g] = <<>> /\ main.from # g
        /\ \A h \in Links : h # g => link'[h] = link[h]
        /\ UNCHANGED from_gs
    BY <1>1, <1>5 DEF LinkReaped, inVars
  <2>2. Dialling'
    BY <1>1, <2>1 DEF Dialling
  <2>3. LinkCallback'
    BY <1>1, <1>2, <2>1 DEF LinkCallback, Over
  <2>4. EndLast'
    BY <1>1, <2>1 DEF EndLast, LinkCallback
  <2>5. InHand'
    BY <1>1, <2>1, ConnsAssumption DEF InHand, Idle
  <2>6. SentInv'
    BY <1>1, <2>1 DEF SentInv, Over
  <2> QED
    BY <2>2, <2>3, <2>4, <2>5, <2>6
<1>6. ASSUME NEW g \in Links, NEW c \in Clients, GsReply(g, c) PROVE GateInv'
  <2>1. /\ link[g] = "live" /\ callback[g] \in {"missed", "done"}
        /\ from_gs'[g] = Append(from_gs[g], c)
        /\ \A h \in Links : h # g => from_gs'[h] = from_gs[h]
        /\ UNCHANGED link
    BY <1>1, <1>6 DEF GsReply, Listening
  <2>2. sent[g] # <<>>
    BY <1>6 DEF GsReply, HeardOf
  <2>3. /\ DOMAIN from_gs'[g] = 1 .. Len(from_gs[g]) + 1 /\ from_gs'[g] # <<>>
        /\ DOMAIN from_gs[g] = 1 .. Len(from_gs[g]) /\ Len(from_gs[g]) \in Nat
        /\ Len(from_gs'[g]) = Len(from_gs[g]) + 1
        /\ \A i \in DOMAIN from_gs[g] : from_gs'[g][i] = from_gs[g][i]
        /\ from_gs'[g][Len(from_gs[g]) + 1] = c
    <3>1. from_gs[g] \in Seq(Clients \cup {Shutdown})
      BY <1>1
    <3> QED
      BY <2>1, <3>1, Appended
  <2>4. \A i \in DOMAIN from_gs[g] : from_gs[g][i] # Shutdown
    BY <1>1, <2>1 DEF EndLast
  <2>5. Dialling'
    BY <1>1, <2>1 DEF Dialling
  <2>6. LinkCallback'
    BY <1>1, <1>2, <2>1 DEF LinkCallback, Over
  <2>7. EndLast'
    <3>1. ASSUME NEW h \in Links, h # g PROVE EndLast!(h)'
      BY <1>1, <2>1, <3>1 DEF EndLast
    <3>2. EndLast!(g)'
      BY <1>1, <2>1, <2>2, <2>3, <2>4, ShutdownAssumption DEF EndLast
    <3> QED
      BY <3>1, <3>2 DEF EndLast
  <2>8. InHand'
    BY <1>1, <2>1 DEF InHand
  <2>9. SentInv'
    BY <1>1, <2>1 DEF SentInv, Over
  <2> QED
    BY <2>5, <2>6, <2>7, <2>8, <2>9
<1> QED
  BY <1>3, <1>4, <1>5, <1>6 DEF PeerStep, ClientFrame, ClientLeaves

\* pop_front: the first element goes, the others move up.
LEMMA Popped ==
    ASSUME NEW S, NEW q \in Seq(S), q # <<>>, NEW r, r = Tail(q)
    PROVE  /\ Len(q) \in Nat \ {0} /\ DOMAIN q = 1 .. Len(q)
           /\ DOMAIN r = 1 .. Len(q) - 1 /\ Len(r) = Len(q) - 1
           /\ r \in Seq(S)
           /\ \A i \in DOMAIN r : r[i] = q[i + 1]
           /\ Head(q) = q[1]
           /\ Len(q) = 1 <=> r = <<>>
<1>1. /\ Len(q) \in Nat \ {0} /\ DOMAIN q = 1 .. Len(q)
  BY LenProperties, EmptySeq
<1>2. r \in Seq(S) /\ Len(r) = Len(q) - 1 /\ Head(q) = q[1]
  BY HeadTailProperties
<1>3. DOMAIN r = 1 .. Len(q) - 1
  BY <1>2, LenProperties
<1>4. \A i \in DOMAIN r : r[i] = q[i + 1]
  BY <1>1, <1>3
<1>5. Len(q) = 1 <=> r = <<>>
  <2>1. Len(r) = 0 <=> r = <<>>
    BY <1>2, EmptySeq
  <2> QED
    BY <1>1, <1>2, <2>1
<1> QED
  BY <1>1, <1>2, <1>3, <1>4, <1>5

\* The main thread: what it sends goes to the link s_game_conn names, and is a
\* client's.
LEMMA MainGate ==
    ASSUME TypeOK, GateInv, MainStep
    PROVE  GateInv'
<1> USE DEF GateInv
<1>1. /\ from_gs \in [Links -> Seq(Clients \cup {Shutdown})]
      /\ sent \in [Links -> Seq(Messages)]
      /\ link \in [Links -> LinkStates]
      /\ main \in [pc : MainPcs, from : Clients \cup Links \cup {Null},
                   msg : Clients \cup 0 .. MaxFrames]
      /\ UNCHANGED <<s_init_ok, connector, callback, link>>
      /\ Clients \cap Links = {} /\ Null \notin Links \cup Clients
      /\ Idle.pc = "idle" /\ Idle.from = Null
  BY ConnsAssumption DEF TypeOK, MainStep, TakeClient, TakeGs, ToGs, GsGone, Idle
<1>2. ASSUME NEW c \in Clients, TakeClient(c) PROVE GateInv'
  <2>1. /\ main = Idle /\ s_init_ok
        /\ main' = [pc |-> "to_gs", from |-> c, msg |-> Head(from_client[c])]
        /\ main'.pc = "to_gs" /\ main'.from = c
        /\ main'.msg = Head(from_client[c])
        /\ UNCHANGED <<s_game_conn, from_gs, sent>>
    BY <1>2 DEF TakeClient, InHand
  <2>2. main'.msg \in Nat
    <3>1. from_client[c] \in Seq(0 .. MaxFrames) /\ from_client[c] # <<>>
      BY <1>2 DEF TakeClient, TypeOK
    <3>2. Head(from_client[c]) \in 0 .. MaxFrames
      BY ONLY <3>1, HeadAndTail
    <3> QED
      BY <2>1, <3>2
  <2>3. \A g \in Links : /\ Current(g)' <=> Current(g)
                         /\ Over(g)' <=> Over(g)
    BY <1>1, <2>1 DEF Current, Over
  <2>4. Dialling' /\ LinkCallback'
    BY <1>1, <2>1, <2>3 DEF Dialling, LinkCallback
  <2>5. EndLast' /\ SentInv'
    BY <1>1, <2>1, <2>3 DEF EndLast, SentInv
  <2>6. InHand'
    BY <1>1, <2>1, <2>2 DEF InHand
  <2> QED
    BY <2>4, <2>5, <2>6
<1>3. ASSUME NEW g \in Links, TakeGs(g) PROVE GateInv'
  <2>1. /\ main = Idle /\ main.from = Null /\ s_init_ok
        /\ from_gs[g] # <<>> /\ from_gs'[g] = Tail(from_gs[g])
        /\ \A h \in Links : h # g => from_gs'[h] = from_gs[h]
        /\ UNCHANGED <<s_game_conn, sent>>
    BY <1>1, <1>3 DEF TakeGs, InHand
  <2>2. /\ Len(from_gs[g]) \in Nat \ {0} /\ DOMAIN from_gs[g] = 1 .. Len(from_gs[g])
        /\ DOMAIN from_gs'[g] = 1 .. Len(from_gs[g]) - 1
        /\ Len(from_gs'[g]) = Len(from_gs[g]) - 1
        /\ \A i \in DOMAIN from_gs'[g] : from_gs'[g][i] = from_gs[g][i + 1]
        /\ Head(from_gs[g]) = from_gs[g][1]
        /\ Len(from_gs[g]) = 1 <=> from_gs'[g] = <<>>
    <3>1. PICK q \in Seq(Clients \cup {Shutdown}), p \in Seq(Clients \cup {Shutdown}) :
             q = from_gs[g] /\ p = from_gs'[g] /\ q # <<>> /\ p = Tail(q)
      BY <1>1, <2>1, HeadAndTail
    <3>2. /\ Len(q) \in Nat \ {0} /\ DOMAIN q = 1 .. Len(q)
          /\ DOMAIN p = 1 .. Len(q) - 1 /\ Len(p) = Len(q) - 1
          /\ \A i \in DOMAIN p : p[i] = q[i + 1]
          /\ Head(q) = q[1]
          /\ Len(q) = 1 <=> p = <<>>
      BY ONLY <3>1, Popped
    <3> QED
      BY ONLY <3>1, <3>2
  <2>3. Current(g) /\ ~Over(g) /\ callback[g] \in {"missed", "done"}
    BY <2>1 DEF LinkCallback, Over, EndLast
  <2>4. CASE g = s_game_conn /\ Head(from_gs[g]) # Shutdown
    <3>1. main' = main
      BY <1>3, <2>1, <2>4 DEF TakeGs
    <3>2. \A h \in Links : /\ Current(h)' <=> Current(h)
                           /\ h # g => (Over(h)' <=> Over(h))
      BY <1>1, <2>1, <3>1 DEF Current, Over
    <3>3. Dialling' /\ LinkCallback'
      BY <1>1, <2>1, <2>3, <3>1, <3>2 DEF Dialling, LinkCallback
    <3>4. SentInv'
      BY <1>1, <2>1, <2>4, <3>2 DEF SentInv
    <3>5. InHand'
      BY <1>1, <2>1, <3>1 DEF InHand
    <3>6. link[g] \in {"down", "freed"} /\ callback[g] = "done" =>
             from_gs'[g] # <<>>
      BY <1>1, <2>1, <2>2, <2>4 DEF EndLast
    <3>7. EndLast'
      <4>1. ASSUME NEW h \in Links, h # g PROVE EndLast!(h)'
        BY <1>1, <2>1, <3>1, <4>1 DEF EndLast
      <4>2. EndLast!(g)'
        BY <1>1, <2>1, <2>2, <2>3, <2>4, <3>1, <3>6 DEF EndLast
      <4> QED
        BY <4>1, <4>2 DEF EndLast
    <3> QED
      BY <3>3, <3>4, <3>5, <3>7
  <2>5. CASE g # s_game_conn \/ Head(from_gs[g]) = Shutdown
    <3>1. main'.from = g /\ main'.msg = Head(from_gs[g])
          /\ main'.pc = IF g # s_game_conn THEN "to_gs" ELSE "gs_gone"
      BY <1>3, <2>5 DEF TakeGs
    <3>2. g # s_game_conn => sent[g] = <<>> /\ callback[g] = "missed"
      BY <2>3 DEF SentInv
    <3>3. Head(from_gs[g]) = Shutdown
      BY <2>2, <2>5, <3>2 DEF EndLast
    <3>4. from_gs'[g] = <<>> /\ link[g] \in {"down", "freed"}
      BY <2>2, <3>3 DEF EndLast
    <3>5. link[g] = "down"
      BY <1>1, <2>1, <2>2, <2>3, <3>2, <3>4 DEF EndLast, LinkCallback
    <3>6. \A h \in Links : /\ Current(h)' <=> Current(h)
                           /\ h # g => (Over(h)' <=> Over(h))
      BY <1>1, <2>1, <3>1 DEF Current, Over
    <3>7. Dialling'
      BY <1>1, <2>1, <3>1 DEF Dialling
    <3>8. LinkCallback'
      BY <1>1, <2>1, <2>3, <3>1, <3>5, <3>6 DEF LinkCallback
    <3>9. SentInv'
      <4>1. ASSUME NEW h \in Links, h # g PROVE SentInv!(h)'
        BY <1>1, <2>1, <3>6, <4>1 DEF SentInv
      <4>2. SentInv!(g)'
        BY <1>1, <2>1, <3>2 DEF SentInv
      <4> QED
        BY <4>1, <4>2 DEF SentInv
    <3>10. EndLast'
      <4>1. ASSUME NEW h \in Links, h # g PROVE EndLast!(h)'
        BY <1>1, <2>1, <3>1, <4>1 DEF EndLast
      <4>2. EndLast!(g)'
        BY <1>1, <2>1, <2>2, <2>3, <3>1, <3>4, <3>5 DEF EndLast
      <4> QED
        BY <4>1, <4>2 DEF EndLast
    <3>11. InHand'
      BY <1>1, <2>1, <2>3, <3>1, <3>2, <3>4, <3>5 DEF InHand
    <3> QED
      BY <3>7, <3>8, <3>9, <3>10, <3>11
  <2> QED
    BY <2>4, <2>5
<1>4. CASE ToGs
  <2>1. /\ UNCHANGED <<s_game_conn, from_gs>>
        /\ main.pc = "to_gs" /\ main.from # Null
        /\ \/ main' = Idle
           \/ main' = [main EXCEPT !.pc = "null_td"]
           \/ main' = [main EXCEPT !.pc = "freed_conn"]
    BY <1>4 DEF ToGs, InHand, inVars
  <2>2. main'.from \in {main.from, Null} /\ main'.pc # "gs_gone"
        /\ (main'.pc = "idle" => main' = Idle)
        /\ (main'.from # Null => main'.from = main.from /\ main'.msg = main.msg)
        /\ (main'.pc # "idle" => main'.from = main.from)
    BY <1>1, <2>1
  <2>3. \A g \in Links : /\ Current(g)' <=> Current(g)
                         /\ Over(g) => Over(g)'
    BY <1>1, <2>1, <2>2 DEF Current, Over
  <2>4. Dialling'
    BY <1>1, <2>1 DEF Dialling
  <2>5. LinkCallback'
    BY <1>1, <2>1, <2>2, <2>3 DEF LinkCallback
  <2>6. InHand'
    BY <1>1, <2>1, <2>2 DEF InHand
  <2>7. CASE UNCHANGED sent
    <3>1. EndLast'
      BY <1>1, <2>1, <2>2, <2>7 DEF EndLast, InHand
    <3>2. SentInv'
      BY <1>1, <2>1, <2>3, <2>7 DEF SentInv
    <3> QED
      BY <2>4, <2>5, <2>6, <3>1, <3>2
  <2>8. CASE sent' # sent
    <3>1. PICK g \in Links : g = s_game_conn
      BY <1>4, <2>8 DEF ToGs
    <3>2. /\ link[g] = "live"
          /\ sent'[g] = Append(sent[g], <<main.from, main.msg>>)
          /\ \A h \in Links : h # g => sent'[h] = sent[h]
      BY <1>1, <1>4, <2>8, <3>1, ConnsAssumption DEF ToGs, Send
    <3>3. main.from \in Clients
      BY <1>1, <2>1, <3>1, <3>2 DEF InHand, LinkCallback, Over, Current
    <3>4. <<main.from, main.msg>> \in Messages /\ <<main.from, main.msg>> # Regist
      BY <1>1, <3>3, BoundsAssumption DEF Messages, Regist
    <3>5. /\ DOMAIN sent'[g] = 1 .. Len(sent[g]) + 1 /\ sent'[g] # <<>>
          /\ DOMAIN sent[g] = 1 .. Len(sent[g]) /\ Len(sent[g]) \in Nat
          /\ \A i \in DOMAIN sent[g] : sent'[g][i] = sent[g][i]
          /\ sent'[g][Len(sent[g]) + 1] = <<main.from, main.msg>>
      <4>1. sent[g] \in Seq(Messages)
        BY <1>1
      <4>2. PICK m \in Messages : m = <<main.from, main.msg>>
        BY <3>4
      <4>3. sent'[g] = Append(sent[g], m)
        BY <3>2, <4>2
      <4>4. /\ DOMAIN sent'[g] = 1 .. Len(sent[g]) + 1 /\ sent'[g] # <<>>
            /\ DOMAIN sent[g] = 1 .. Len(sent[g]) /\ Len(sent[g]) \in Nat
            /\ \A i \in DOMAIN sent[g] : sent'[g][i] = sent[g][i]
            /\ sent'[g][Len(sent[g]) + 1] = m
        BY ONLY <4>1, <4>3, Appended
      <4> QED
        BY ONLY <4>2, <4>4
    <3>6. EndLast'
      BY <1>1, <2>1, <2>2, <3>2, <3>3, <3>5 DEF EndLast
    <3>7. ASSUME NEW h \in Links, h # g PROVE SentInv!(h)'
      BY <1>1, <2>1, <2>3, <3>2, <3>7 DEF SentInv
    <3>8. SentInv!(g)'
      <4>1. \A i \in DOMAIN sent'[g] :
               \/ i \in DOMAIN sent[g] /\ sent'[g][i] = sent[g][i]
               \/ sent'[g][i] # Regist /\ sent'[g][i][1] \in Clients
        BY <3>3, <3>4, <3>5
      <4>2. DOMAIN sent[g] \subseteq DOMAIN sent'[g]
        BY <3>5
      <4>3. /\ \A i \in DOMAIN sent'[g] :
                  sent'[g][i] = Regist \/ sent'[g][i][1] \in Clients
            /\ \A i \in DOMAIN sent'[g] :
                  sent'[g][i] = Regist => callback[g] = "done"
        BY <4>1 DEF SentInv
      <4>4. callback[g] = "done" =>
               \E i \in DOMAIN sent'[g] : sent'[g][i] = Regist
        BY <3>5, <4>2 DEF SentInv
      <4>5. \A i, j \in DOMAIN sent'[g] :
               sent'[g][i] = Regist /\ sent'[g][j] = Regist => i = j
        BY <4>1 DEF SentInv
      <4> QED
        BY <1>1, <2>1, <3>1, <3>2, <4>3, <4>4, <4>5 DEF LinkCallback
    <3>9. SentInv'
      BY <3>7, <3>8 DEF SentInv
    <3> QED
      BY <2>4, <2>5, <2>6, <3>6, <3>9
  <2> QED
    BY <2>7, <2>8
<1>5. CASE GsGone
  <2>1. /\ main.pc = "gs_gone" /\ main' = Idle /\ s_game_conn' = Null
        /\ UNCHANGED <<from_gs, sent>>
    BY <1>5 DEF GsGone, GameConnCleared, inVars
  <2>2. PICK g \in Links : g = main.from
    BY <1>1, <2>1 DEF InHand
  <2>3. /\ s_game_conn = g /\ link[g] = "down" /\ from_gs[g] = <<>>
        /\ callback[g] # "none" => callback[g] \in {"missed", "done"}
    BY <1>1, <2>1, <2>2 DEF InHand, LinkCallback, TypeOK, CallbackPcs
  <2>4. callback[g] \in {"missed", "done"}
    BY <2>1, <2>2, <2>3 DEF EndLast, InHand
  <2>5. /\ Over(g)' /\ ~Current(g)'
        /\ \A h \in Links : ~Current(h)' /\ (Over(h) => Over(h)')
        /\ \A h \in Links : h # g => ~Current(h)
    BY <1>1, <2>1, <2>2, <2>3, <2>4 DEF Over, Current, Dialling
  <2>6. Dialling'
    BY <1>1, <2>1, <2>2, <2>3, <2>4 DEF Dialling
  <2>7. LinkCallback'
    BY <1>1, <2>1, <2>2, <2>3, <2>4, <2>5 DEF LinkCallback
  <2>8. EndLast'
    BY <1>1, <2>1, <2>2, <2>3 DEF EndLast
  <2>9. SentInv'
    BY <1>1, <2>1, <2>3, <2>5 DEF SentInv
  <2>10. InHand'
    BY <1>1, <2>1 DEF InHand
  <2> QED
    BY <2>6, <2>7, <2>8, <2>9, <2>10
<1> QED
  BY <1>2, <1>3, <1>4, <1>5 DEF MainStep

LEMMA GateUnchanged == TypeOK /\ GateInv /\ UNCHANGED vars => GateInv'
BY DEF vars, peerVars, inVars, GateInv, Dialling, LinkCallback, EndLast, InHand,
   SentInv, Over, Current

LEMMA GateStep == TypeOK /\ GateInv /\ [Next]_vars => GateInv'
BY ConnectGate, CallbackGate, PeerGate, MainGate, GateUnchanged DEF Next

\* A lost link stays lost, and what was sent on a link stays sent.
LEMMA Forward ==
    ASSUME TypeOK, [Next]_vars, NEW g \in Links
    PROVE  /\ link[g] \in {"down", "freed"} => link'[g] \in {"down", "freed"}
           /\ Len(sent[g]) <= Len(sent'[g])
           /\ \A i \in 1 .. Len(sent[g]) : sent'[g][i] = sent[g][i]
<1>1. /\ link \in [Links -> LinkStates]
      /\ sent \in [Links -> Seq(Messages)]
      /\ main \in [pc : MainPcs, from : Clients \cup Links \cup {Null},
                   msg : Clients \cup 0 .. MaxFrames]
  BY DEF TypeOK
<1>2. link[g] \in {"down", "freed"} => link'[g] \in {"down", "freed"}
  BY <1>1 DEF Next, vars, ConnectStep, CallbackStep, PeerStep, MainStep,
     ConnectLoop, ConnectFails, ConnectAssign, ConnectOk, LinkUp, LinkRejected,
     RejectedFreed, CallbackCompare, CallbackSetOk, CallbackRegist, LinkDown,
     Listening, LinkReaped, ClientFrame, ClientLeaves, GsReply, TakeClient,
     TakeGs, ToGs, GsGone
<1>3. \/ sent'[g] = sent[g]
      \/ \E m \in Messages : sent'[g] = Append(sent[g], m)
  <2>1. CASE UNCHANGED sent
    BY <2>1
  <2>2. ASSUME NEW h \in Links, CallbackRegist(h)
        PROVE  \/ sent'[g] = sent[g]
               \/ \E m \in Messages : sent'[g] = Append(sent[g], m)
    <3>1. Regist \in Messages
      BY DEF Regist, Messages
    <3> QED
      BY <1>1, <2>2, <3>1 DEF CallbackRegist
  <2>3. CASE ToGs
    <3>1. PICK m \in Messages : m = <<main.from, main.msg>>
      <4>1. <<main.from, main.msg>> \in Messages
        BY <1>1, BoundsAssumption DEF Messages
      <4> QED
        BY <4>1
    <3> QED
      BY <1>1, <2>3, <3>1 DEF ToGs, Send
  <2> QED
    BY <2>1, <2>2, <2>3 DEF Next, vars, ConnectStep, CallbackStep, PeerStep,
       MainStep, ConnectLoop, ConnectFails, ConnectAssign, ConnectOk, LinkUp,
       LinkRejected, RejectedFreed, CallbackCompare, CallbackSetOk, LinkDown,
       LinkReaped, ClientFrame, ClientLeaves, GsReply, TakeClient, TakeGs, GsGone
<1>4. sent[g] \in Seq(Messages) /\ Len(sent[g]) \in Nat
  BY <1>1, LenProperties
<1>5. CASE \E m \in Messages : sent'[g] = Append(sent[g], m)
  <2>1. PICK m \in Messages : sent'[g] = Append(sent[g], m)
    BY <1>5
  <2>2. /\ DOMAIN sent[g] = 1 .. Len(sent[g]) /\ Len(sent'[g]) = Len(sent[g]) + 1
        /\ \A i \in DOMAIN sent[g] : sent'[g][i] = sent[g][i]
    BY ONLY <1>4, <2>1, Appended
  <2> QED
    BY <1>2, <1>4, <2>2
<1> QED
  BY <1>2, <1>3, <1>4, <1>5

-----------------------------------------------------------------------------
(* What the one link at a time gives *)

\* A crash ends the gate: nothing changes afterwards.
LEMMA CrashedStays == [Next]_vars /\ Crashed => UNCHANGED vars
BY DEF Next, vars, Crashed, ConnectStep, CallbackStep, PeerStep, MainStep,
   TakeClient, TakeGs, ToGs, GsGone

\* When a relayed message meets a number that is no registered connection, the
\* link that made the gate ready is another one, and lost.
LEMMA CrashStep ==
    ASSUME TypeOK, GateInv, CrashOnlyAfterLoss, [Next]_vars
    PROVE  CrashOnlyAfterLoss'
<1>1. CASE Crashed
  <2>1. UNCHANGED <<s_game_conn, link, callback, main>>
    BY <1>1, CrashedStays DEF vars
  <2> QED
    BY <2>1 DEF CrashOnlyAfterLoss, Crashed
<1>2. CASE ~Crashed /\ Crashed'
  <2>1. ToGs /\ main'.pc \in {"null_td", "freed_conn"}
    BY <1>2 DEF Crashed, Next, vars, ConnectStep, CallbackStep, PeerStep,
       MainStep, ConnectLoop, ConnectFails, ConnectAssign, ConnectOk, LinkUp,
       LinkRejected, RejectedFreed, CallbackCompare, CallbackSetOk,
       CallbackRegist, LinkDown, LinkReaped, ClientFrame, ClientLeaves, GsReply,
       TakeClient, TakeGs, GsGone, Idle
  <2>2. /\ UNCHANGED <<s_game_conn, link, callback>>
        /\ main.pc = "to_gs"
        /\ \/ s_game_conn = MinusOne
           \/ s_game_conn \in Links /\ link[s_game_conn] \in {"pushed", "rejected"}
           \/ s_game_conn \in Links /\ link[s_game_conn] = "freed"
    BY <2>1 DEF ToGs, Idle
  <2>3. PICK g \in Links : callback[g] \in {"regist", "done"}
    BY <2>2 DEF GateInv, InHand
  <2>4. link[g] # "unused" /\ s_game_conn # g
    BY <2>2, <2>3, ConnsAssumption DEF GateInv, LinkCallback, EndLast
  <2>5. callback[g] = "done" /\ link[g] \in {"down", "freed"}
    BY <2>2, <2>3, <2>4, ConnsAssumption DEF GateInv, LinkCallback, Current, Over
  <2> QED
    BY <2>2, <2>4, <2>5 DEF CrashOnlyAfterLoss
<1>3. CASE ~Crashed'
  BY <1>3 DEF CrashOnlyAfterLoss
<1> QED
  BY <1>1, <1>2, <1>3

LEMMA RegistsFromInv == TypeOK /\ GateInv => RegistOnItsLink
<1> SUFFICES ASSUME TypeOK, GateInv, NEW g \in Links
             PROVE  LET regists == {i \in DOMAIN sent[g] : sent[g][i] = Regist}
                    IN  /\ callback[g] = "done" => Cardinality(regists) = 1
                        /\ callback[g] # "done" => regists = {}
  BY DEF RegistOnItsLink
<1> DEFINE regists == {i \in DOMAIN sent[g] : sent[g][i] = Regist}
<1>1. CASE callback[g] = "done"
  <2>1. PICK i \in DOMAIN sent[g] : sent[g][i] = Regist
    BY <1>1 DEF GateInv, SentInv
  <2>2. regists = {i}
    BY <2>1 DEF GateInv, SentInv
  <2>3. Cardinality(regists) = 1
    BY <2>2, FS_Singleton
  <2> QED
    BY <1>1, <2>3
<1>2. CASE callback[g] # "done"
  BY <1>2 DEF GateInv, SentInv
<1> QED
  BY <1>1, <1>2

LEMMA EchoFromInv == TypeOK /\ GateInv => NothingEchoed
BY ConnsAssumption DEF GateInv, SentInv, NothingEchoed, ToSet, Regist

\* The game server has heard the registration of the link it keeps; no more is
\* handled than was sent.
GameInv ==
    /\ \A g \in Links : heard[g] <= Len(sent[g])
    /\ s_connections_to_me # Null =>
          \E i \in 1 .. heard[s_connections_to_me] :
             sent[s_connections_to_me][i] = Regist

LEMMA GameStep ==
    ASSUME SystemTypeOK, GateInv, GameInv, RefusedOnlyAfterLoss,
           [SystemNext]_systemVars
    PROVE  GameInv' /\ RefusedOnlyAfterLoss'
<1>1. /\ TypeOK /\ heard \in [Links -> Nat]
      /\ s_connections_to_me \in Links \cup {Null}
      /\ refused \subseteq Links \X Links /\ Null \notin Links
      /\ \A g \in Links : Len(sent[g]) \in Nat /\ DOMAIN sent[g] = 1 .. Len(sent[g])
  BY LenProperties, ConnsAssumption DEF SystemTypeOK, TypeOK
<1>2. CASE UNCHANGED gameVars /\ [Next]_vars
  <2>1. \A g \in Links :
           /\ link[g] \in {"down", "freed"} => link'[g] \in {"down", "freed"}
           /\ Len(sent[g]) <= Len(sent'[g]) /\ Len(sent'[g]) \in Nat
           /\ \A i \in 1 .. Len(sent[g]) : sent'[g][i] = sent[g][i]
    <3>1. TypeOK'
      BY <1>1, <1>2, ConnectType, CallbackType, PeerType, MainType
      DEF Next, vars, TypeOK, peerVars, inVars
    <3>2. \A g \in Links : Len(sent'[g]) \in Nat
      BY <3>1, LenProperties DEF TypeOK
    <3> QED
      BY <1>1, <1>2, <3>2, Forward
  <2>2. GameInv'
    BY <1>1, <1>2, <2>1 DEF GameInv, gameVars
  <2>3. RefusedOnlyAfterLoss'
    BY <1>1, <1>2, <2>1 DEF RefusedOnlyAfterLoss, gameVars
  <2> QED
    BY <2>2, <2>3
<1>3. ASSUME NEW g \in Links, GameHears(g) PROVE GameInv' /\ RefusedOnlyAfterLoss'
  <2>1. /\ heard[g] < Len(sent[g])
        /\ heard'[g] = heard[g] + 1
        /\ \A h \in Links : h # g => heard'[h] = heard[h]
        /\ UNCHANGED <<link, sent>>
    BY <1>1, <1>3 DEF GameHears, vars
  <2>2. \A h \in Links : heard'[h] <= Len(sent'[h]) /\ heard[h] <= heard'[h]
                         /\ heard[h] \in Nat /\ heard'[h] \in Nat
    BY <1>1, <2>1 DEF GameInv
  <2>3. CASE s_connections_to_me' = s_connections_to_me /\ refused' = refused
    <3>1. GameInv'
      BY <1>1, <2>1, <2>2, <2>3 DEF GameInv
    <3> QED
      BY <2>1, <2>3, <3>1 DEF RefusedOnlyAfterLoss
  <2>4. CASE /\ s_connections_to_me = Null /\ s_connections_to_me' = g
             /\ sent[g][heard[g] + 1] = Regist /\ refused' = refused
    <3>1. heard[g] + 1 \in 1 .. heard'[g]
      BY <1>1, <2>1
    <3>2. GameInv'
      BY <1>1, <2>1, <2>2, <2>4, <3>1 DEF GameInv
    <3> QED
      BY <2>1, <2>4, <3>2 DEF RefusedOnlyAfterLoss
  <2>5. ASSUME NEW h \in Links, s_connections_to_me = h,
               s_connections_to_me' = h, sent[g][heard[g] + 1] = Regist,
               refused' = refused \cup {<<g, h>>}
        PROVE  GameInv' /\ RefusedOnlyAfterLoss'
    <3>1. PICK i \in 1 .. heard[h] : sent[h][i] = Regist
      BY <1>1, <2>5 DEF GameInv
    <3>2. i \in DOMAIN sent[h] /\ heard[g] + 1 \in DOMAIN sent[g]
      BY <1>1, <2>1, <2>2, <3>1 DEF GameInv
    <3>3. g # h
      BY <1>1, <2>5, <3>1, <3>2 DEF GateInv, SentInv
    <3>4. sent[g] # <<>> /\ sent[h] # <<>>
      BY <3>2
    <3>5. \E k \in {g, h} : link[k] \in {"down", "freed"}
      BY <3>3, <3>4 DEF GateInv, SentInv, Over
    <3>6. RefusedOnlyAfterLoss'
      <4>1. ASSUME NEW p \in refused'
            PROVE  \E k \in {p[1], p[2]} : link[k] \in {"down", "freed"}
        <5>1. CASE p \in refused
          BY <5>1 DEF RefusedOnlyAfterLoss
        <5>2. CASE p = <<g, h>>
          BY <3>5, <5>2
        <5> QED
          BY <2>5, <4>1, <5>1, <5>2
      <4> QED
        BY <2>1, <4>1 DEF RefusedOnlyAfterLoss
    <3>7. GameInv'
      BY <1>1, <2>1, <2>2, <2>5, <3>1 DEF GameInv
    <3> QED
      BY <3>6, <3>7
  <2> QED
    BY <1>1, <1>3, <2>3, <2>4, <2>5 DEF GameHears, RegisterServer
<1> QED
  BY <1>2, <1>3 DEF SystemNext, GateMoves, systemVars

\* What holds of gate and game server together, and carries the theorems below.
SystemInv == SystemTypeOK /\ GateInv /\ CrashOnlyAfterLoss /\ GameInv
             /\ RefusedOnlyAfterLoss

LEMMA SystemInvHolds == SystemSpec => []SystemInv
<1>1. SystemInit => SystemInv
  <2> SUFFICES ASSUME SystemInit PROVE SystemInv
    OBVIOUS
  <2>1. SystemTypeOK /\ GateInv
    BY InitType, GateInit DEF SystemInit
  <2>2. CrashOnlyAfterLoss
    BY DEF SystemInit, Init, Idle, CrashOnlyAfterLoss, Crashed
  <2>3. GameInv /\ RefusedOnlyAfterLoss
    BY DEF SystemInit, Init, GameInit, GameInv, RefusedOnlyAfterLoss
  <2> QED
    BY <2>1, <2>2, <2>3 DEF SystemInv
<1>2. SystemInv /\ [SystemNext]_systemVars => SystemInv'
  <2> SUFFICES ASSUME SystemInv, [SystemNext]_systemVars PROVE SystemInv'
    OBVIOUS
  <2>1. [Next]_vars
    BY DEF SystemNext, GateMoves, GameHears, systemVars
  <2>2. SystemTypeOK' /\ TypeOK
    BY StepType DEF SystemInv, SystemTypeOK
  <2>3. GateInv' /\ CrashOnlyAfterLoss'
    BY <2>1, <2>2, GateStep, CrashStep DEF SystemInv
  <2>4. GameInv' /\ RefusedOnlyAfterLoss'
    BY GameStep DEF SystemInv
  <2> QED
    BY <2>2, <2>3, <2>4 DEF SystemInv
<1> QED
  BY <1>1, <1>2, PTL DEF SystemSpec

\* The gate's first connection is safe however connect thread, worker and main
\* thread interleave: net_send follows the number of an unregistered or deleted
\* connection only once the link the gate became ready on is lost.
THEOREM FirstLinkSafe == SystemSpec => []CrashOnlyAfterLoss
<1>1. SystemInv => CrashOnlyAfterLoss
  BY DEF SystemInv
<1> QED
  BY <1>1, SystemInvHolds, PTL

\* connector_callback's two unlocked reads of s_game_conn name the same link:
\* Regist goes once to the link that came up, or nowhere.
THEOREM RegistersOnce == SystemSpec => []RegistOnItsLink
<1>1. SystemInv => RegistOnItsLink
  BY RegistsFromInv DEF SystemInv, SystemTypeOK
<1> QED
  BY <1>1, SystemInvHolds, PTL

\* The game server's own messages are never relayed back to it as a client's.
THEOREM NoEcho == SystemSpec => []NothingEchoed
<1>1. SystemInv => NothingEchoed
  BY EchoFromInv DEF SystemInv, SystemTypeOK
<1> QED
  BY <1>1, SystemInvHolds, PTL

\* The game server refuses a registration only when the link it keeps for the
\* gate, or the one that asks, is lost.
THEOREM OneLinkAtATime == SystemSpec => []RefusedOnlyAfterLoss
<1>1. SystemInv => RefusedOnlyAfterLoss
  BY DEF SystemInv
<1> QED
  BY <1>1, SystemInvHolds, PTL

-----------------------------------------------------------------------------
(* The relay keeps each client's order *)

\* The messages of a client are numbered, its Shutdown after the k frames.
Number(k, m) == IF m = Shutdown THEN k + 1 ELSE m

\* How many a client has sent, how many of them the main thread has in hand,
\* and how many are behind it: relayed, or dropped while there was no link.
Total(c) == frames[c] + (IF client[c] = "gone" THEN 1 ELSE 0)
Held(c) == IF main.from = c THEN 1 ELSE 0
Passed(c) == Total(c) - Len(from_client[c]) - Held(c)

\* i is the last place of client c in q.
LastOf(q, c, i) == /\ q[i][1] = c
                   /\ \A j \in DOMAIN q : q[j][1] = c => j <= i

\* A client's messages wait in order, the next one is in the main thread's
\* hand, and the last one on a live link is the last that went past it.
Waiting ==
    \A c \in Clients : \A i \in DOMAIN from_client[c] :
       /\ from_client[c][i] \in 0 .. frames[c]
       /\ Number(frames[c], from_client[c][i]) = Total(c) - Len(from_client[c]) + i
Counted ==
    \A c \in Clients :
       /\ Passed(c) \in Nat
       /\ main.from = c => /\ main.msg \in 0 .. frames[c]
                           /\ Number(frames[c], main.msg) = Passed(c) + 1
Relayed ==
    \A g \in Links, c \in Clients : \A i \in DOMAIN sent[g] :
       sent[g][i][1] = c => /\ sent[g][i][2] \in 0 .. frames[c]
                            /\ Number(frames[c], sent[g][i][2]) <= Passed(c)
UpToDate ==
    \A g \in Links, c \in Clients : \A i \in DOMAIN sent[g] :
       link[g] = "live" /\ LastOf(sent[g], c, i) =>
          Number(frames[c], sent[g][i][2]) = Passed(c)
Stepwise ==
    \A g \in Links, c \in Clients : \A i, j \in DOMAIN sent[g] :
       Adjacent(sent[g], c, i, j) =>
          Number(frames[c], sent[g][j][2]) = Number(frames[c], sent[g][i][2]) + 1

RelayInv == Waiting /\ Counted /\ Relayed /\ UpToDate /\ Stepwise

LEMMA RelayInit == Init => RelayInv
<1> SUFFICES ASSUME Init PROVE RelayInv
  OBVIOUS
<1>1. /\ \A c \in Clients : from_client[c] = <<>> /\ frames[c] = 0 /\ client[c] = "here"
      /\ \A g \in Links : sent[g] = <<>>
      /\ \A c \in Clients : main.from # c
  BY ConnsAssumption DEF Init, Idle
<1> QED
  BY <1>1 DEF RelayInv, Waiting, Counted, Relayed, UpToDate, Stepwise, Passed,
     Total, Held

\* The places of a client after push_back.
Longer(q, r, n) == /\ DOMAIN q = 1 .. n /\ DOMAIN r = 1 .. n + 1
                   /\ \A i \in DOMAIN q : r[i] = q[i]

LEMMA LastAppended ==
    ASSUME NEW n \in Nat, NEW q, NEW r, Longer(q, r, n),
           NEW c, NEW i \in DOMAIN r, LastOf(r, c, i)
    PROVE  \/ i = n + 1 /\ r[n + 1][1] = c
           \/ i \in DOMAIN q /\ LastOf(q, c, i) /\ r[n + 1][1] # c
BY DEF LastOf, Longer

LEMMA AdjacentAppended ==
    ASSUME NEW n \in Nat, NEW q, NEW r, Longer(q, r, n),
           NEW c, NEW i \in DOMAIN r, NEW j \in DOMAIN r, Adjacent(r, c, i, j)
    PROVE  /\ i \in DOMAIN q
           /\ \/ j \in DOMAIN q /\ Adjacent(q, c, i, j)
              \/ j = n + 1 /\ r[n + 1][1] = c /\ LastOf(q, c, i)
<1>1. i \in DOMAIN q /\ r[i] = q[i] /\ j > i
  BY DEF Adjacent, Longer
<1>2. CASE j = n + 1
  BY <1>1, <1>2 DEF Adjacent, LastOf, Longer
<1>3. CASE j \in DOMAIN q
  BY <1>1, <1>3 DEF Adjacent, Longer
<1> QED
  BY <1>1, <1>2, <1>3 DEF Longer

\* A step that takes nothing of a client's and sends nothing: the links only
\* come up empty.
LEMMA RelayQuiet ==
    ASSUME RelayInv, UNCHANGED <<client, frames, from_client, sent>>,
           \A c \in Clients : /\ main'.from = c <=> main.from = c
                              /\ main.from = c => main'.msg = main.msg,
           \A g \in Links : link'[g] = "live" /\ sent[g] # <<>> => link[g] = "live"
    PROVE  RelayInv'
<1>1. \A c \in Clients : /\ Passed(c)' = Passed(c) /\ Total(c)' = Total(c)
  BY DEF Passed, Total, Held
<1>2. Waiting' /\ Counted' /\ Relayed' /\ Stepwise'
  BY <1>1 DEF RelayInv, Waiting, Counted, Relayed, Stepwise
<1>3. UpToDate'
  BY <1>1 DEF RelayInv, UpToDate
<1> QED
  BY <1>2, <1>3 DEF RelayInv

LEMMA RelayPeers ==
    ASSUME TypeOK, RelayInv, NEW c \in Clients, ClientFrame(c) \/ ClientLeaves(c)
    PROVE  RelayInv'
<1> USE DEF RelayInv
<1>1. /\ UNCHANGED <<main, link, sent>>
      /\ client[c] = "here"
      /\ \A d \in Clients : d # c =>
            /\ frames'[d] = frames[d] /\ client'[d] = client[d]
            /\ from_client'[d] = from_client[d]
      /\ \A d \in Clients : frames[d] \in Nat /\ frames'[d] \in Nat
      /\ frames'[c] \in {frames[c], frames[c] + 1} /\ frames'[c] <= MaxFrames
      /\ Total(c) = frames[c] /\ Total(c)' = frames[c] + 1
  <2>1. /\ frames \in [Clients -> Nat] /\ frames[c] <= MaxFrames
        /\ MaxFrames \in Nat
        /\ client \in [Clients -> {"here", "gone"}]
        /\ from_client \in [Clients -> Seq(0 .. MaxFrames)]
    BY BoundsAssumption DEF TypeOK
  <2>2. CASE ClientFrame(c)
    BY <2>1, <2>2 DEF ClientFrame, Total
  <2>3. CASE ClientLeaves(c)
    BY <2>1, <2>3 DEF ClientLeaves, Total
  <2> QED
    BY <2>2, <2>3
<1>2. PICK m \in 0 .. frames'[c] :
         /\ from_client'[c] = Append(from_client[c], m)
         /\ Number(frames'[c], m) = frames[c] + 1
  <2>1. CASE ClientFrame(c)
    <3>1. /\ from_client'[c] = Append(from_client[c], frames[c] + 1)
          /\ frames'[c] = frames[c] + 1
      BY <1>1, <2>1 DEF ClientFrame, TypeOK
    <3>2. Number(frames'[c], frames[c] + 1) = frames[c] + 1
      BY <1>1, <3>1 DEF Number, Shutdown
    <3> QED
      BY <1>1, <3>1, <3>2
  <2>2. CASE ClientLeaves(c)
    <3>1. /\ from_client'[c] = Append(from_client[c], 0)
          /\ frames'[c] = frames[c]
      BY <1>1, <2>2 DEF ClientLeaves, TypeOK, Shutdown
    <3>2. Number(frames'[c], 0) = frames[c] + 1
      BY <1>1, <3>1 DEF Number, Shutdown
    <3> QED
      BY <1>1, <3>1, <3>2
  <2> QED
    BY <2>1, <2>2
<1>3. /\ DOMAIN from_client'[c] = 1 .. Len(from_client[c]) + 1
      /\ DOMAIN from_client[c] = 1 .. Len(from_client[c]) /\ Len(from_client[c]) \in Nat
      /\ Len(from_client'[c]) = Len(from_client[c]) + 1
      /\ \A i \in DOMAIN from_client[c] : from_client'[c][i] = from_client[c][i]
      /\ from_client'[c][Len(from_client[c]) + 1] = m
  <2>1. from_client[c] \in Seq(0 .. MaxFrames) /\ m \in 0 .. MaxFrames
    BY <1>1, <1>2, BoundsAssumption DEF TypeOK
  <2> QED
    BY ONLY <1>2, <2>1, Appended
<1>4. \A d \in Clients : d # c => /\ Total(d)' = Total(d) /\ Passed(d)' = Passed(d)
  BY <1>1 DEF Total, Passed, Held
<1>5. Passed(c)' = Passed(c) /\ Passed(c) \in Nat
      /\ Passed(c) = frames[c] - Len(from_client[c]) - Held(c)
      /\ Held(c) \in {0, 1} /\ (main.from = c => Held(c) = 1)
  <2>1. Held(c)' = Held(c) /\ Held(c) \in {0, 1} /\ (main.from = c => Held(c) = 1)
    BY <1>1 DEF Held
  <2>2. Passed(c) \in Nat
    BY DEF Counted
  <2>3. /\ Passed(c) = Total(c) - Len(from_client[c]) - Held(c)
        /\ Passed(c)' = Total(c)' - Len(from_client'[c]) - Held(c)'
    BY DEF Passed
  <2>4. PICK l \in Nat, h \in Nat, f \in Nat :
           l = Len(from_client[c]) /\ h = Held(c) /\ f = frames[c]
    BY <1>1, <1>3, <2>1
  <2>5. Passed(c) = f - l - h /\ Passed(c)' = (f + 1) - (l + 1) - h
    BY <1>1, <1>3, <2>1, <2>3, <2>4
  <2>6. (f + 1) - (l + 1) - h = f - l - h
    OBVIOUS
  <2> QED
    BY <2>1, <2>2, <2>4, <2>5, <2>6
\* No Shutdown of c is anywhere yet, and frames keep their numbers.
<1>6. \A n \in 0 .. frames[c] : Number(frames[c], n) <= frames[c] =>
         n # 0 /\ n \in 0 .. frames'[c] /\ Number(frames'[c], n) = Number(frames[c], n)
  BY <1>1 DEF Number, Shutdown
<1>7. Waiting'
  <2>1. ASSUME NEW i \in DOMAIN from_client'[c]
        PROVE  /\ from_client'[c][i] \in 0 .. frames'[c]
               /\ Number(frames'[c], from_client'[c][i])
                     = Total(c)' - Len(from_client'[c]) + i
    <3>1. CASE i = Len(from_client[c]) + 1
      BY <1>1, <1>2, <1>3, <3>1
    <3>2. CASE i \in DOMAIN from_client[c]
      <4>1. /\ from_client[c][i] \in 0 .. frames[c]
            /\ Number(frames[c], from_client[c][i]) = frames[c] - Len(from_client[c]) + i
        BY <1>1, <3>2 DEF Waiting
      <4>2. Number(frames[c], from_client[c][i]) <= frames[c]
        BY <1>1, <1>3, <3>2, <4>1
      <4>3. /\ from_client[c][i] \in 0 .. frames'[c]
            /\ Number(frames'[c], from_client[c][i])
                  = frames[c] - Len(from_client[c]) + i
        BY <1>6, <4>1, <4>2
      <4>4. PICK l \in Nat, f \in Nat : l = Len(from_client[c]) /\ f = frames[c]
        BY <1>1, <1>3
      <4>5. i \in Int /\ Total(c)' - Len(from_client'[c]) + i = (f + 1) - (l + 1) + i
        BY <1>1, <1>3, <4>4
      <4>6. (f + 1) - (l + 1) + i = f - l + i
        BY <4>5
      <4> QED
        BY <1>3, <3>2, <4>3, <4>4, <4>5, <4>6
    <3> QED
      BY <1>3, <3>1, <3>2
  <2> QED
    BY <1>1, <1>4, <2>1 DEF Waiting
<1>8. Counted'
  <2>1. ASSUME main.from = c
        PROVE  main.msg \in 0 .. frames'[c] /\ Number(frames'[c], main.msg) = Passed(c) + 1
    <3>1. main.msg \in 0 .. frames[c] /\ Number(frames[c], main.msg) = Passed(c) + 1
      BY <2>1 DEF Counted
    <3>2. Number(frames[c], main.msg) <= frames[c]
      BY <1>1, <1>3, <1>5, <2>1, <3>1
    <3> QED
      BY <1>6, <3>1, <3>2
  <2> QED
    BY <1>1, <1>4, <1>5, <2>1 DEF Counted
\* What was relayed of c keeps its numbers.
<1>9. \A g \in Links : \A i \in DOMAIN sent[g] : sent[g][i][1] = c =>
         /\ sent[g][i][2] \in 0 .. frames'[c]
         /\ Number(frames'[c], sent[g][i][2]) = Number(frames[c], sent[g][i][2])
  <2> SUFFICES ASSUME NEW g \in Links, NEW i \in DOMAIN sent[g], sent[g][i][1] = c
               PROVE  /\ sent[g][i][2] \in 0 .. frames'[c]
                      /\ Number(frames'[c], sent[g][i][2]) = Number(frames[c], sent[g][i][2])
    BY <1>1
  <2>1. /\ sent[g][i][2] \in 0 .. frames[c]
        /\ Number(frames[c], sent[g][i][2]) <= Passed(c)
    BY DEF Relayed
  <2>2. Number(frames[c], sent[g][i][2]) \in Int
    BY <1>1, <2>1 DEF Number
  <2>3. Number(frames[c], sent[g][i][2]) <= frames[c]
    BY <1>1, <1>3, <1>5, <2>1, <2>2
  <2>4. PICK n \in 0 .. frames[c] : n = sent[g][i][2]
    BY <2>1
  <2> QED
    BY <1>1, <1>6, <2>3, <2>4
<1>10. Relayed'
  BY <1>1, <1>4, <1>5, <1>9 DEF Relayed
<1>11. UpToDate'
  BY <1>1, <1>4, <1>5, <1>9 DEF UpToDate, LastOf
<1>12. Stepwise'
  BY <1>1, <1>4, <1>9 DEF Stepwise, Adjacent
<1> QED
  BY <1>7, <1>8, <1>10, <1>11, <1>12

\* get_net_msgs: the message in hand is the next one of its client.
LEMMA RelayTaken ==
    ASSUME TypeOK, InHand, RelayInv, NEW c \in Clients, TakeClient(c)
    PROVE  RelayInv'
<1> USE DEF RelayInv
<1>1. /\ UNCHANGED <<frames, client, link, sent>>
      /\ from_client[c] # <<>> /\ from_client'[c] = Tail(from_client[c])
      /\ \A d \in Clients : d # c => from_client'[d] = from_client[d]
      /\ main'.from = c /\ main'.msg = Head(from_client[c])
      /\ main = Idle
  BY DEF TakeClient, TypeOK, peerVars, InHand
<1>2. /\ Len(from_client[c]) \in Nat \ {0} /\ DOMAIN from_client[c] = 1 .. Len(from_client[c])
      /\ DOMAIN from_client'[c] = 1 .. Len(from_client[c]) - 1
      /\ Len(from_client'[c]) = Len(from_client[c]) - 1
      /\ \A i \in DOMAIN from_client'[c] : from_client'[c][i] = from_client[c][i + 1]
      /\ main'.msg = from_client[c][1]
  <2>1. PICK q \in Seq(0 .. MaxFrames), p \in Seq(0 .. MaxFrames) :
           q = from_client[c] /\ p = from_client'[c] /\ q # <<>> /\ p = Tail(q)
    BY <1>1, HeadAndTail DEF TypeOK
  <2>2. /\ Len(q) \in Nat \ {0} /\ DOMAIN q = 1 .. Len(q)
        /\ DOMAIN p = 1 .. Len(q) - 1 /\ Len(p) = Len(q) - 1
        /\ \A i \in DOMAIN p : p[i] = q[i + 1]
        /\ Head(q) = q[1]
    BY ONLY <2>1, Popped
  <2> QED
    BY ONLY <1>1, <2>1, <2>2
<1>3. /\ \A d \in Clients : main.from # d /\ Held(d) = 0
      /\ Held(c)' = 1 /\ \A d \in Clients : d # c => main'.from # d /\ Held(d)' = 0
  BY <1>1, ConnsAssumption DEF Held, Idle
<1>4. \A d \in Clients : Total(d)' = Total(d) /\ Total(d) \in Nat /\ frames[d] \in Nat
  <2>1. \A d \in Clients : frames[d] \in Nat
    BY BoundsAssumption DEF TypeOK
  <2> QED
    BY <1>1, <2>1 DEF Total
<1>5. \A d \in Clients : Passed(d)' = Passed(d) /\ Passed(d) \in Nat
  <2>1. Passed(c)' = Passed(c)
    BY <1>2, <1>3, <1>4 DEF Passed
  <2>2. \A d \in Clients : d # c => Passed(d)' = Passed(d)
    BY <1>1, <1>3, <1>4 DEF Passed
  <2> QED
    BY <2>1, <2>2 DEF Counted
<1>6. Passed(c) = Total(c) - Len(from_client[c])
  BY <1>2, <1>3, <1>4 DEF Passed
<1>7. Waiting'
  <2>1. ASSUME NEW i \in DOMAIN from_client'[c]
        PROVE  /\ from_client'[c][i] \in 0 .. frames[c]
               /\ Number(frames[c], from_client'[c][i])
                     = Total(c) - Len(from_client'[c]) + i
    <3>1. /\ i + 1 \in DOMAIN from_client[c]
          /\ from_client'[c][i] = from_client[c][i + 1]
      BY <1>2
    <3>2. /\ from_client'[c][i] \in 0 .. frames[c]
          /\ Number(frames[c], from_client'[c][i])
                = Total(c) - Len(from_client[c]) + (i + 1)
      BY <3>1 DEF Waiting
    <3>3. PICK l \in Nat, t \in Nat : l = Len(from_client[c]) /\ t = Total(c)
      BY <1>2, <1>4
    <3>4. i \in Int /\ Total(c) - Len(from_client'[c]) + i = t - (l - 1) + i
      BY <1>2, <3>3
    <3>5. t - (l - 1) + i = t - l + (i + 1)
      BY <3>4
    <3> QED
      BY <3>2, <3>3, <3>4, <3>5
  <2> QED
    BY <1>1, <1>4, <2>1 DEF Waiting
<1>8. Counted'
  <2>1. /\ main'.msg \in 0 .. frames[c]
        /\ Number(frames[c], main'.msg) = Passed(c) + 1
    BY <1>2, <1>6 DEF Waiting
  <2> QED
    BY <1>1, <1>3, <1>5, <2>1 DEF Counted
<1>9. Relayed' /\ UpToDate' /\ Stepwise'
  BY <1>1, <1>5 DEF Relayed, UpToDate, Stepwise
<1> QED
  BY <1>7, <1>8, <1>9

\* net_send(s_game_conn, msg_node): only the link s_game_conn names can be live
\* and have messages, and the one in hand follows the last one there.
LEMMA RelaySent ==
    ASSUME TypeOK, GateInv, RelayInv, ToGs
    PROVE  RelayInv'
<1> USE DEF RelayInv
<1>1. /\ UNCHANGED <<client, frames, from_client, link, s_game_conn>>
      /\ sent \in [Links -> Seq(Messages)]
      /\ main \in [pc : MainPcs, from : Clients \cup Links \cup {Null},
                   msg : Clients \cup 0 .. MaxFrames]
      /\ Clients \cap Links = {} /\ Null \notin Links \cup Clients
  BY ConnsAssumption DEF ToGs, peerVars, inVars, TypeOK
<1>2. \A g \in Links : sent[g] # <<>> /\ link[g] = "live" => s_game_conn = g
  BY DEF GateInv, SentInv, Over
<1>3. CASE main' # Idle
  <2>1. main'.from = main.from /\ main'.msg = main.msg /\ UNCHANGED sent
    BY <1>1, <1>3 DEF ToGs
  <2> QED
    BY <1>1, <2>1, RelayQuiet
<1>4. CASE main' = Idle /\ main.from \notin Clients
  <2>1. UNCHANGED sent
    <3>1. ASSUME NEW g \in Links, s_game_conn = g, link[g] = "live" PROVE FALSE
      BY <1>1, <1>4, <3>1 DEF GateInv, InHand, LinkCallback, Over, Current, ToGs
    <3> QED
      BY <1>4, <3>1 DEF ToGs, Send
  <2>2. \A c \in Clients : main'.from # c /\ main.from # c
    BY <1>1, <1>4 DEF Idle
  <2> QED
    BY <1>1, <2>1, <2>2, RelayQuiet
<1>5. ASSUME NEW c \in Clients, main.from = c, main' = Idle PROVE RelayInv'
  <2>1. /\ \A d \in Clients : main'.from # d /\ Held(d)' = 0
        /\ Held(c) = 1 /\ \A d \in Clients : d # c => Held(d) = 0
    BY <1>1, <1>5 DEF Idle, Held
  <2>2. \A d \in Clients :
           /\ Total(d)' = Total(d) /\ Total(d) \in frames[d] .. frames[d] + 1
           /\ Len(from_client[d]) \in Nat /\ frames[d] \in Nat
    BY <1>1, BoundsAssumption, LenProperties DEF Total, TypeOK
  <2>3. /\ Passed(c)' = Passed(c) + 1 /\ Passed(c) \in Nat
        /\ \A d \in Clients : d # c => Passed(d)' = Passed(d)
    BY <1>1, <2>1, <2>2 DEF Passed, Counted
  <2>4. /\ main.msg \in 0 .. frames[c]
        /\ Number(frames[c], main.msg) = Passed(c) + 1
    BY <1>5 DEF Counted
  <2>5. Waiting'
    BY <1>1, <2>2 DEF Waiting
  <2>6. Counted'
    BY <2>1, <2>3 DEF Counted
  <2>7. \A n \in 0 .. frames[c] : Number(frames[c], n) \in Int
    BY <2>2 DEF Number
  <2>8. CASE UNCHANGED sent
    <3>1. \A g \in Links : sent[g] = <<>> \/ link[g] # "live"
      <4>1. ASSUME NEW g \in Links, sent[g] # <<>>, link[g] = "live" PROVE FALSE
        <5>1. s_game_conn = g
          BY <1>2, <4>1
        <5>2. sent'[g] = Append(sent[g], <<main.from, main.msg>>)
          BY <1>1, <1>5, <4>1, <5>1, ConnsAssumption DEF ToGs, Send, Idle
        <5>3. <<main.from, main.msg>> \in Messages
          BY <1>1, BoundsAssumption DEF Messages
        <5>4. PICK m \in Messages : m = <<main.from, main.msg>>
          BY <5>3
        <5>5. sent[g] \in Seq(Messages) /\ sent'[g] = Append(sent[g], m)
          BY <1>1, <5>2, <5>4
        <5>6. Len(sent'[g]) = Len(sent[g]) + 1 /\ Len(sent[g]) \in Nat
          BY ONLY <5>5, Appended
        <5> QED
          BY <2>8, <5>6
      <4> QED
        BY <4>1
    <3>2. Relayed'
      BY <1>1, <2>3, <2>7, <2>8 DEF Relayed
    <3>3. UpToDate'
      BY <1>1, <2>8, <3>1 DEF UpToDate
    <3>4. Stepwise'
      BY <1>1, <2>8 DEF Stepwise
    <3> QED
      BY <2>5, <2>6, <3>2, <3>3, <3>4
  <2>9. CASE sent' # sent
    <3>1. PICK g \in Links : g = s_game_conn /\ link[g] = "live"
      BY <1>5, <2>9, ConnsAssumption DEF ToGs, Send, Idle
    <3>2. PICK m \in Messages : m = <<c, main.msg>>
      <4>1. <<c, main.msg>> \in Messages
        BY <1>1, BoundsAssumption DEF Messages
      <4> QED
        BY <4>1
    <3>3. /\ sent[g] \in Seq(Messages) /\ sent'[g] = Append(sent[g], m)
          /\ \A h \in Links : h # g => sent'[h] = sent[h]
      BY <1>1, <1>5, <2>9, <3>1, <3>2, ConnsAssumption DEF ToGs, Send, Idle
    <3>4. /\ DOMAIN sent'[g] = 1 .. Len(sent[g]) + 1
          /\ DOMAIN sent[g] = 1 .. Len(sent[g]) /\ Len(sent[g]) \in Nat
          /\ \A i \in DOMAIN sent[g] : sent'[g][i] = sent[g][i]
          /\ sent'[g][Len(sent[g]) + 1] = m
      BY ONLY <3>3, Appended
    <3>5. m[1] = c /\ m[2] = main.msg
      BY <3>2
    <3>6. \A d \in Clients :
             /\ \A i \in DOMAIN sent'[g] : LastOf(sent'[g], d, i) =>
                   \/ sent'[g][i] = m /\ m[1] = d
                   \/ /\ i \in DOMAIN sent[g] /\ sent'[g][i] = sent[g][i]
                      /\ LastOf(sent[g], d, i) /\ m[1] # d
             /\ \A i, j \in DOMAIN sent'[g] : Adjacent(sent'[g], d, i, j) =>
                   /\ i \in DOMAIN sent[g] /\ sent'[g][i] = sent[g][i]
                   /\ \/ /\ j \in DOMAIN sent[g] /\ sent'[g][j] = sent[g][j]
                         /\ Adjacent(sent[g], d, i, j)
                      \/ /\ sent'[g][j] = m /\ m[1] = d
                         /\ LastOf(sent[g], d, i)
      <4> TAKE d \in Clients
      <4>1. Len(sent[g]) \in Nat /\ Longer(sent[g], sent'[g], Len(sent[g]))
        BY ONLY <3>4 DEF Longer
      <4>2. ASSUME NEW i \in DOMAIN sent'[g], LastOf(sent'[g], d, i)
           PROVE  \/ sent'[g][i] = m /\ m[1] = d
                  \/ /\ i \in DOMAIN sent[g] /\ sent'[g][i] = sent[g][i]
                     /\ LastOf(sent[g], d, i) /\ m[1] # d
        BY ONLY <3>4, <4>1, <4>2, LastAppended
      <4>3. ASSUME NEW i \in DOMAIN sent'[g], NEW j \in DOMAIN sent'[g],
                  Adjacent(sent'[g], d, i, j)
           PROVE  /\ i \in DOMAIN sent[g] /\ sent'[g][i] = sent[g][i]
                  /\ \/ /\ j \in DOMAIN sent[g] /\ sent'[g][j] = sent[g][j]
                        /\ Adjacent(sent[g], d, i, j)
                     \/ /\ sent'[g][j] = m /\ m[1] = d
                        /\ LastOf(sent[g], d, i)
        <5>1. /\ i \in DOMAIN sent[g]
              /\ \/ j \in DOMAIN sent[g] /\ Adjacent(sent[g], d, i, j)
                 \/ /\ j = Len(sent[g]) + 1 /\ sent'[g][Len(sent[g]) + 1][1] = d
                    /\ LastOf(sent[g], d, i)
          BY ONLY <4>1, <4>3, AdjacentAppended
        <5> QED
          BY ONLY <3>4, <5>1
      <4> QED
        BY ONLY <4>2, <4>3
    <3>7. \A h \in Links : h # g => sent[h] = <<>> \/ link[h] # "live"
      BY <1>2, <3>1
    <3>8. Relayed'
      <4>1. ASSUME NEW h \in Links, NEW d \in Clients, NEW i \in DOMAIN sent'[h],
                   sent'[h][i][1] = d
            PROVE  /\ sent'[h][i][2] \in 0 .. frames[d]
                   /\ Number(frames[d], sent'[h][i][2]) <= Passed(d)'
        <5>1. CASE h # g \/ i # Len(sent[g]) + 1
          <6>1. i \in DOMAIN sent[h] /\ sent'[h][i] = sent[h][i]
            BY <3>3, <3>4, <4>1, <5>1
          <6>2. /\ sent[h][i][2] \in 0 .. frames[d]
                /\ Number(frames[d], sent[h][i][2]) <= Passed(d)
            BY <4>1, <6>1 DEF Relayed
          <6>3. Number(frames[d], sent[h][i][2]) \in Int
            BY <2>2, <6>2 DEF Number
          <6> QED
            BY <2>3, <6>1, <6>2, <6>3
        <5>2. CASE h = g /\ i = Len(sent[g]) + 1
          <6>1. sent'[h][i][1] = c /\ sent'[h][i][2] = main.msg
            BY <3>4, <3>5, <5>2
          <6> QED
            BY <2>3, <2>4, <4>1, <6>1
        <5> QED
          BY <5>1, <5>2
      <4> QED
        BY <1>1, <4>1 DEF Relayed
    <3>9. UpToDate'
      <4>1. ASSUME NEW h \in Links, NEW d \in Clients, NEW i \in DOMAIN sent'[h],
                   link[h] = "live", LastOf(sent'[h], d, i)
            PROVE  Number(frames[d], sent'[h][i][2]) = Passed(d)'
        <5>1. h = g
          BY <3>3, <3>7, <4>1
        <5>2. CASE d = c
          BY <2>3, <2>4, <3>5, <3>6, <4>1, <5>1, <5>2
        <5>3. CASE d # c
          <6>1. i \in DOMAIN sent[g] /\ sent'[g][i] = sent[g][i] /\ LastOf(sent[g], d, i)
            BY <3>5, <3>6, <4>1, <5>1, <5>3
          <6> QED
            BY <2>3, <4>1, <5>1, <5>3, <6>1 DEF UpToDate
        <5> QED
          BY <5>2, <5>3
      <4> QED
        BY <1>1, <4>1 DEF UpToDate
    <3>10. Stepwise'
      <4>1. ASSUME NEW h \in Links, NEW d \in Clients, NEW i \in DOMAIN sent'[h],
                   NEW j \in DOMAIN sent'[h], Adjacent(sent'[h], d, i, j)
            PROVE  Number(frames[d], sent'[h][j][2])
                      = Number(frames[d], sent'[h][i][2]) + 1
        <5>1. CASE h # g
          BY <3>3, <4>1, <5>1 DEF Stepwise
        <5>2. CASE /\ h = g /\ i \in DOMAIN sent[g] /\ sent'[g][i] = sent[g][i]
                   /\ j \in DOMAIN sent[g] /\ sent'[g][j] = sent[g][j]
                   /\ Adjacent(sent[g], d, i, j)
          BY <4>1, <5>2 DEF Stepwise
        <5>3. CASE /\ h = g /\ i \in DOMAIN sent[g] /\ sent'[g][i] = sent[g][i]
                   /\ sent'[g][j] = m /\ m[1] = d /\ LastOf(sent[g], d, i)
          <6>1. d = c
            BY <3>5, <5>3
          <6>2. Number(frames[d], sent[g][i][2]) = Passed(c)
            BY <3>1, <5>3, <6>1 DEF UpToDate
          <6> QED
            BY <2>4, <3>5, <5>3, <6>1, <6>2
        <5> QED
          BY <3>6, <4>1, <5>1, <5>2, <5>3
      <4> QED
        BY <1>1, <4>1 DEF Stepwise
    <3> QED
      BY <2>5, <2>6, <3>8, <3>9, <3>10
  <2> QED
    BY <2>8, <2>9
<1> QED
  BY <1>3, <1>4, <1>5

\* regist_to_game: Regist is no client's message.
LEMMA RelayRegist ==
    ASSUME TypeOK, GateInv, RelayInv, NEW g \in Links, CallbackRegist(g)
    PROVE  RelayInv'
<1> USE DEF RelayInv
<1>1. /\ UNCHANGED <<client, frames, from_client, link, main>>
      /\ sent[g] \in Seq(Messages) /\ sent'[g] = Append(sent[g], Regist)
      /\ \A h \in Links : h # g => sent'[h] = sent[h]
  <2>1. s_game_conn = g
    BY DEF CallbackRegist, GateInv, LinkCallback
  <2> QED
    BY <2>1 DEF CallbackRegist, peerVars, inVars, TypeOK
<1>2. PICK m \in Messages : m = Regist /\ \A c \in Clients : m[1] # c
  <2>1. Regist \in Messages /\ Regist[1] = Null
    BY DEF Regist, Messages
  <2> QED
    BY <2>1, ConnsAssumption
<1>3. sent'[g] = Append(sent[g], m)
  BY <1>1, <1>2
<1>4. /\ DOMAIN sent'[g] = 1 .. Len(sent[g]) + 1
      /\ DOMAIN sent[g] = 1 .. Len(sent[g]) /\ Len(sent[g]) \in Nat
      /\ \A i \in DOMAIN sent[g] : sent'[g][i] = sent[g][i]
      /\ sent'[g][Len(sent[g]) + 1] = m
  BY ONLY <1>1, <1>3, Appended
<1>5. \A d \in Clients :
         /\ \A i \in DOMAIN sent'[g] : LastOf(sent'[g], d, i) =>
               \/ sent'[g][i] = m /\ m[1] = d
               \/ /\ i \in DOMAIN sent[g] /\ sent'[g][i] = sent[g][i]
                  /\ LastOf(sent[g], d, i) /\ m[1] # d
         /\ \A i, j \in DOMAIN sent'[g] : Adjacent(sent'[g], d, i, j) =>
               /\ i \in DOMAIN sent[g] /\ sent'[g][i] = sent[g][i]
               /\ \/ /\ j \in DOMAIN sent[g] /\ sent'[g][j] = sent[g][j]
                     /\ Adjacent(sent[g], d, i, j)
                  \/ /\ sent'[g][j] = m /\ m[1] = d
                     /\ LastOf(sent[g], d, i)
  <2> TAKE d \in Clients
  <2>1. Len(sent[g]) \in Nat /\ Longer(sent[g], sent'[g], Len(sent[g]))
    BY ONLY <1>4 DEF Longer
  <2>2. ASSUME NEW i \in DOMAIN sent'[g], LastOf(sent'[g], d, i)
       PROVE  \/ sent'[g][i] = m /\ m[1] = d
              \/ /\ i \in DOMAIN sent[g] /\ sent'[g][i] = sent[g][i]
                 /\ LastOf(sent[g], d, i) /\ m[1] # d
    BY ONLY <1>4, <2>1, <2>2, LastAppended
  <2>3. ASSUME NEW i \in DOMAIN sent'[g], NEW j \in DOMAIN sent'[g],
              Adjacent(sent'[g], d, i, j)
       PROVE  /\ i \in DOMAIN sent[g] /\ sent'[g][i] = sent[g][i]
              /\ \/ /\ j \in DOMAIN sent[g] /\ sent'[g][j] = sent[g][j]
                    /\ Adjacent(sent[g], d, i, j)
                 \/ /\ sent'[g][j] = m /\ m[1] = d
                    /\ LastOf(sent[g], d, i)
    <3>1. /\ i \in DOMAIN sent[g]
          /\ \/ j \in DOMAIN sent[g] /\ Adjacent(sent[g], d, i, j)
             \/ /\ j = Len(sent[g]) + 1 /\ sent'[g][Len(sent[g]) + 1][1] = d
                /\ LastOf(sent[g], d, i)
      BY ONLY <2>1, <2>3, AdjacentAppended
    <3> QED
      BY ONLY <1>4, <3>1
  <2> QED
    BY ONLY <2>2, <2>3
<1>6. \A c \in Clients : Passed(c)' = Passed(c) /\ Total(c)' = Total(c)
  BY <1>1 DEF Passed, Total, Held
<1>7. Waiting' /\ Counted'
  BY <1>1, <1>6 DEF Waiting, Counted
<1>8. Relayed'
  BY <1>1, <1>2, <1>4, <1>6 DEF Relayed
<1>9. UpToDate'
  <2>1. ASSUME NEW h \in Links, NEW c \in Clients, NEW i \in DOMAIN sent'[h],
               link[h] = "live", LastOf(sent'[h], c, i)
        PROVE  Number(frames[c], sent'[h][i][2]) = Passed(c)
    <3>1. CASE h = g
      BY <1>2, <1>5, <2>1, <3>1 DEF UpToDate
    <3>2. CASE h # g
      BY <1>1, <2>1, <3>2 DEF UpToDate
    <3> QED
      BY <3>1, <3>2
  <2> QED
    BY <1>1, <1>6, <2>1 DEF UpToDate
<1>10. Stepwise'
  <2>1. ASSUME NEW h \in Links, NEW c \in Clients, NEW i \in DOMAIN sent'[h],
               NEW j \in DOMAIN sent'[h], Adjacent(sent'[h], c, i, j)
        PROVE  Number(frames[c], sent'[h][j][2])
                  = Number(frames[c], sent'[h][i][2]) + 1
    <3>1. CASE h = g
      BY <1>2, <1>5, <2>1, <3>1 DEF Stepwise
    <3>2. CASE h # g
      BY <1>1, <2>1, <3>2 DEF Stepwise
    <3> QED
      BY <3>1, <3>2
  <2> QED
    BY <1>1, <2>1 DEF Stepwise
<1> QED
  BY <1>7, <1>8, <1>9, <1>10

LEMMA RelayStep == TypeOK /\ GateInv /\ RelayInv /\ [Next]_vars => RelayInv'
<1> SUFFICES ASSUME TypeOK, GateInv, RelayInv, [Next]_vars PROVE RelayInv'
  OBVIOUS
<1>1. CASE /\ UNCHANGED <<client, frames, from_client, sent>>
           /\ \A c \in Clients : /\ main'.from = c <=> main.from = c
                                 /\ main.from = c => main'.msg = main.msg
           /\ \A g \in Links : link'[g] = "live" /\ sent[g] # <<>> => link[g] = "live"
  BY <1>1, RelayQuiet
<1>2. link \in [Links -> LinkStates]
  BY DEF TypeOK
<1>3. CASE UNCHANGED vars
  BY <1>1, <1>3 DEF vars, peerVars, inVars
<1>4. ASSUME NEW t \in ConnectThreads, ConnectStep(t) PROVE RelayInv'
  BY <1>1, <1>2, <1>4 DEF ConnectStep, ConnectLoop, ConnectFails, ConnectAssign,
     ConnectOk, peerVars, inVars
<1>5. ASSUME NEW g \in Links, CallbackStep(g) PROVE RelayInv'
  <2>1. CASE CallbackRegist(g)
    BY <2>1, RelayRegist
  <2>2. CASE LinkUp(g)
    <3>1. sent[g] = <<>>
      BY <2>2 DEF LinkUp, GateInv, LinkCallback, SentInv
    <3> QED
      BY <1>1, <1>2, <2>2, <3>1 DEF LinkUp, peerVars, inVars
  <2> QED
    BY <1>1, <1>2, <1>5, <2>1, <2>2 DEF CallbackStep, LinkRejected,
       RejectedFreed, CallbackCompare, CallbackSetOk, peerVars, inVars
<1>6. CASE PeerStep
  BY <1>1, <1>2, <1>6, RelayPeers DEF PeerStep, LinkDown, LinkReaped, GsReply,
     peerVars, inVars
<1>7. CASE MainStep
  <2>1. CASE ToGs
    BY <2>1, RelaySent
  <2>2. ASSUME NEW c \in Clients, TakeClient(c) PROVE RelayInv'
    BY <2>2, RelayTaken DEF GateInv
  <2>3. ASSUME NEW g \in Links, TakeGs(g) PROVE RelayInv'
    <3>1. \A c \in Clients : main.from # c /\ main'.from # c
      BY <2>3, ConnsAssumption DEF TakeGs, GateInv, InHand, Idle
    <3> QED
      BY <1>1, <2>3, <3>1 DEF TakeGs, peerVars
  <2>4. CASE GsGone
    <3>1. \A c \in Clients : main.from # c /\ main'.from # c
      BY <2>4, ConnsAssumption DEF GsGone, GateInv, InHand, Idle
    <3> QED
      BY <1>1, <2>4, <3>1 DEF GsGone, peerVars, inVars
  <2> QED
    BY <1>7, <2>1, <2>2, <2>3, <2>4 DEF MainStep
<1> QED
  BY <1>3, <1>4, <1>5, <1>6, <1>7 DEF Next

LEMMA OrderFromInv == TypeOK /\ RelayInv => RelayedInOrder
<1> SUFFICES ASSUME TypeOK, RelayInv, NEW g \in Links, NEW c \in Clients,
                    NEW i \in DOMAIN sent[g], NEW j \in DOMAIN sent[g],
                    Adjacent(sent[g], c, i, j)
             PROVE  /\ sent[g][i][2] # Shutdown
                    /\ sent[g][j][2] = IF sent[g][i][2] < frames[c]
                                       THEN sent[g][i][2] + 1 ELSE Shutdown
  BY DEF RelayedInOrder
<1>1. PICK a \in 0 .. frames[c], b \in 0 .. frames[c] :
         /\ a = sent[g][i][2] /\ b = sent[g][j][2]
         /\ Number(frames[c], b) <= Passed(c)
  BY DEF RelayInv, Relayed, Adjacent
<1>2. Number(frames[c], b) = Number(frames[c], a) + 1
  BY <1>1 DEF RelayInv, Stepwise
<1>3. frames[c] \in Nat
  BY BoundsAssumption DEF TypeOK
<1>4. Number(frames[c], b) <= frames[c] + 1
  BY <1>3 DEF Number
<1>5. a # 0 /\ b = IF a < frames[c] THEN a + 1 ELSE 0
  BY <1>2, <1>3, <1>4 DEF Number, Shutdown
<1> QED
  BY <1>1, <1>5 DEF Shutdown

\* On every link the game server hears a client's messages in the order and
\* without a gap, the Shutdown last, although net_send drops what comes while
\* there is no link and the main thread cannot tell.
THEOREM RelayKeepsOrder == SystemSpec => []RelayedInOrder
<1>1. SystemInit => RelayInv
  BY RelayInit DEF SystemInit
<1>2. SystemInv /\ RelayInv /\ [SystemNext]_systemVars => RelayInv'
  <2>1. [SystemNext]_systemVars => [Next]_vars
    BY DEF SystemNext, GateMoves, GameHears, systemVars
  <2> QED
    BY <2>1, RelayStep DEF SystemInv, SystemTypeOK
<1>3. SystemInv /\ RelayInv => RelayedInOrder
  BY OrderFromInv DEF SystemInv, SystemTypeOK
<1> QED
  BY <1>1, <1>2, <1>3, SystemInvHolds, PTL DEF SystemSpec

=============================================================================
