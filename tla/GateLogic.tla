----------------------------- MODULE GateLogic -----------------------------
(***************************************************************************)
(* The gate (gate/gate_tool/gate_logic.cpp): it connects to the game       *)
(* server, registers there, and relays messages between clients and the    *)
(* game server.                                                            *)
(*                                                                         *)
(* Three kinds of thread share s_game_conn without a lock: the connect     *)
(* threads (connect_to_gs), the network worker that runs                   *)
(* connector_callback, and the main thread (logic_update).  The network    *)
(* layer is taken as its promise: a connector hears one verdict            *)
(* (ConnLifecycle's OneVerdict) and each connection's messages come in     *)
(* order, a Shutdown last (LogicFeed).                                     *)
(***************************************************************************)
EXTENDS Integers, Sequences, FiniteSets

CONSTANTS
    Clients,        \* connections clients have opened
    Links,          \* connections to the game server net_connect may make
    MaxFrames,      \* bound: messages a client sends
    MaxReplies,     \* bound: messages the game server sends on a link
    Faults,         \* subset of {"fcntl", "register"}
    Null,           \* the connection number 0
    MinusOne        \* what net_connect returns when fcntl fails

ASSUME ConnsAssumption == /\ Clients \cap Links = {}
                          /\ Null \notin Clients \cup Links
                          /\ MinusOne \notin Clients \cup Links \cup {Null}
ASSUME BoundsAssumption == MaxFrames \in Nat /\ MaxReplies \in Nat
ASSUME FaultsAssumption == Faults \subseteq {"fcntl", "register"}

\* A message without content: 0, the number LogicFeed gives it.
Shutdown == 0

\* It is told from a message for a client.
ASSUME ShutdownAssumption == Shutdown \notin Clients

\* The message of regist_to_game, as <<sender, number>>.
Regist == <<Null, 1>>

\* A connect thread is named after the link whose failure started it; Null is
\* the one init_config starts.
ConnectThreads == Links \cup {Null}

VARIABLES
    s_game_conn,
    s_init_ok,
    connector,      \* per connect thread: [pc, ret]
    link,           \* per link: the state of its Connection object
    callback,       \* per link: where connector_callback is
    client,         \* per client: "here" or "gone"
    from_client,    \* per client: messages waiting for get_net_msgs
    from_gs,        \* per link: addressees of the messages waiting, or Shutdown
    frames,         \* per client: messages it has sent
    replies,        \* per link: messages the game server has sent
    main,           \* main thread: [pc, from, msg]
    sent            \* per link: messages handed to the network for it

peerVars == <<client, frames, replies>>
inVars   == <<from_client, from_gs>>
vars == <<s_game_conn, s_init_ok, connector, link, callback, peerVars, inVars,
          main, sent>>

LinkStates == {"unused", "pushed", "live", "down", "rejected", "freed"}
CallbackPcs == {"none", "compare", "set_ok", "regist", "missed", "done"}
MainPcs == {"idle", "to_gs", "gs_gone", "null_td", "freed_conn"}

Connectors == [pc : {"none", "loop", "connect", "return", "done"},
               ret : Links \cup {Null, MinusOne}]

\* As <<sender, content>>: a client's number or Shutdown, or the client a
\* message of the game server is for.
Messages == (Clients \cup Links \cup {Null}) \X (Clients \cup Nat)

TypeOK ==
    /\ s_game_conn \in Links \cup {Null, MinusOne}
    /\ s_init_ok \in BOOLEAN
    /\ connector \in [ConnectThreads -> Connectors]
    /\ link \in [Links -> LinkStates]
    /\ callback \in [Links -> CallbackPcs]
    /\ client \in [Clients -> {"here", "gone"}]
    /\ from_client \in [Clients -> Seq(0 .. MaxFrames)]
    /\ from_gs \in [Links -> Seq(Clients \cup {Shutdown})]
    /\ frames \in [Clients -> 0 .. MaxFrames]
    /\ replies \in [Links -> 0 .. MaxReplies]
    /\ main \in [pc : MainPcs, from : Clients \cup Links \cup {Null},
                 msg : Clients \cup 0 .. MaxFrames]
    /\ sent \in [Links -> Seq(Messages)]

Idle == [pc |-> "idle", from |-> Null, msg |-> Shutdown]

\* After init_config: the network runs, the callback is registered and
\* connect_gs has started its first thread.
Init ==
    /\ s_game_conn = Null
    /\ s_init_ok = FALSE
    /\ connector = [t \in ConnectThreads |->
                      [pc |-> IF t = Null THEN "loop" ELSE "none", ret |-> Null]]
    /\ link = [g \in Links |-> "unused"]
    /\ callback = [g \in Links |-> "none"]
    /\ client = [c \in Clients |-> "here"]
    /\ from_client = [c \in Clients |-> <<>>]
    /\ from_gs = [g \in Links |-> <<>>]
    /\ frames = [c \in Clients |-> 0]
    /\ replies = [g \in Links |-> 0]
    /\ main = Idle
    /\ sent = [g \in Links |-> <<>>]

-----------------------------------------------------------------------------
(* connect_to_gs: while (!s_game_conn) { net_connect; sleep two seconds } *)

DialAnyway == TRUE                                               \* mutation
StillToDial == s_game_conn = Null

ConnectLoop(t) ==
    /\ connector[t].pc = "loop"
    /\ connector' = [connector EXCEPT ![t].pc =
                       IF StillToDial THEN "connect" ELSE "done"]
    /\ UNCHANGED <<s_game_conn, s_init_ok, link, callback, peerVars, inVars,
                   main, sent>>

\* net_connect succeeds: the workers can see the connection, the caller not yet.
ConnectOk(t, g) ==
    /\ connector[t].pc = "connect"
    /\ link[g] = "unused"
    /\ link' = [link EXCEPT ![g] = "pushed"]
    /\ connector' = [connector EXCEPT ![t] = [pc |-> "return", ret |-> g]]
    /\ UNCHANGED <<s_game_conn, s_init_ok, callback, peerVars, inVars, main,
                   sent>>

\* connect() fails, or fcntl does.
ConnectFails(t) ==
    /\ connector[t].pc = "connect"
    /\ \E r \in {Null} \cup (IF "fcntl" \in Faults THEN {MinusOne} ELSE {}) :
          connector' = [connector EXCEPT ![t] = [pc |-> "return", ret |-> r]]
    /\ UNCHANGED <<s_game_conn, s_init_ok, link, callback, peerVars, inVars,
                   main, sent>>

\* The result is stored; after the sleep the loop looks again.
AfterAttemptStop == "done"                                       \* mutation
AfterAttempt == "loop"

ConnectAssign(t) ==
    /\ connector[t].pc = "return"
    /\ s_game_conn' = connector[t].ret
    /\ connector' = [connector EXCEPT ![t] = [pc |-> AfterAttempt,
                                             ret |-> Null]]
    /\ UNCHANGED <<s_init_ok, link, callback, peerVars, inVars, main, sent>>

-----------------------------------------------------------------------------
(* The link's worker: create_conn's verdict and connector_callback *)

\* The connection is registered, its td_ set; connector_callback(g, true).
LinkUp(g) ==
    /\ link[g] = "pushed"
    /\ link' = [link EXCEPT ![g] = "live"]
    /\ callback' = [callback EXCEPT ![g] = "compare"]
    /\ UNCHANGED <<s_game_conn, s_init_ok, connector, peerVars, inVars, main,
                   sent>>

\* create_conn fails; connector_callback(g, false) starts another connect
\* thread when it knows g.
LinkRejected(g) ==
    /\ "register" \in Faults
    /\ link[g] = "pushed"
    /\ link' = [link EXCEPT ![g] = "rejected"]
    /\ connector' = [connector EXCEPT ![g].pc =
                       IF s_game_conn = g THEN "loop" ELSE @]
    /\ UNCHANGED <<s_game_conn, s_init_ok, callback, peerVars, inVars, main,
                   sent>>

\* thread_libevent_process deletes the object after the callback.
RejectedFreed(g) ==
    /\ link[g] = "rejected"
    /\ link' = [link EXCEPT ![g] = "freed"]
    /\ UNCHANGED <<s_game_conn, s_init_ok, connector, callback, peerVars,
                   inVars, main, sent>>

\* if (conn == s_game_conn)
MatchesAlways(g) == TRUE                                         \* mutation
Matches(g) == s_game_conn = g

CallbackCompare(g) ==
    /\ callback[g] = "compare"
    /\ callback' = [callback EXCEPT ![g] = IF Matches(g) THEN "set_ok"
                                                         ELSE "missed"]
    /\ UNCHANGED <<s_game_conn, s_init_ok, connector, link, peerVars, inVars,
                   main, sent>>

CallbackSetOk(g) ==
    /\ callback[g] = "set_ok"
    /\ s_init_ok' = TRUE
    /\ callback' = [callback EXCEPT ![g] = "regist"]
    /\ UNCHANGED <<s_game_conn, connector, link, peerVars, inVars, main, sent>>

\* regist_to_game sends to what s_game_conn is by now; net_send ignores 0.  It
\* is g still in every state the runs reach: the links without td_ that ToGs
\* may meet, and MinusOne, do not come up here.
CallbackRegist(g) ==
    /\ callback[g] = "regist"
    /\ sent' = IF s_game_conn \in Links
               THEN [sent EXCEPT ![s_game_conn] = Append(@, Regist)]
               ELSE sent
    /\ callback' = [callback EXCEPT ![g] = "done"]
    /\ UNCHANGED <<s_game_conn, s_init_ok, connector, link, peerVars, inVars,
                   main>>

\* The worker is free again: it can read from the link.
Listening(g) == link[g] = "live" /\ callback[g] \in {"missed", "done"}

\* The link is lost and swept; its object goes two minutes later, when a main
\* thread that runs at all has long taken the Shutdown.
LinkDown(g) ==
    /\ Listening(g)
    /\ link' = [link EXCEPT ![g] = "down"]
    /\ from_gs' = [from_gs EXCEPT ![g] = Append(@, Shutdown)]
    /\ UNCHANGED <<s_game_conn, s_init_ok, connector, callback, peerVars,
                   from_client, main, sent>>

LinkReaped(g) ==
    /\ link[g] = "down"
    /\ s_init_ok => from_gs[g] = <<>> /\ main.from # g
    /\ link' = [link EXCEPT ![g] = "freed"]
    /\ UNCHANGED <<s_game_conn, s_init_ok, connector, callback, peerVars,
                   inVars, main, sent>>

-----------------------------------------------------------------------------
(* Peers (external) *)

ClientFrame(c) ==
    /\ client[c] = "here"
    /\ frames[c] < MaxFrames
    /\ frames' = [frames EXCEPT ![c] = @ + 1]
    /\ from_client' = [from_client EXCEPT ![c] = Append(@, frames[c] + 1)]
    /\ UNCHANGED <<s_game_conn, s_init_ok, connector, link, callback, client,
                   replies, from_gs, main, sent>>

ClientLeaves(c) ==
    /\ client[c] = "here"
    /\ client' = [client EXCEPT ![c] = "gone"]
    /\ from_client' = [from_client EXCEPT ![c] = Append(@, Shutdown)]
    /\ UNCHANGED <<s_game_conn, s_init_ok, connector, link, callback, frames,
                   replies, from_gs, main, sent>>

\* The game server knows the clients it has heard of.
HeardOf(g) == {c \in Clients : \E i \in DOMAIN sent[g] : sent[g][i][1] = c}

GsReply(g, c) ==
    /\ Listening(g)
    /\ c \in HeardOf(g)
    /\ replies[g] < MaxReplies
    /\ replies' = [replies EXCEPT ![g] = @ + 1]
    /\ from_gs' = [from_gs EXCEPT ![g] = Append(@, c)]
    /\ UNCHANGED <<s_game_conn, s_init_ok, connector, link, callback, client,
                   frames, from_client, main, sent>>

-----------------------------------------------------------------------------
(* Main thread: logic_update, once is_init_ok *)

TakeClient(c) ==
    /\ main.pc = "idle" /\ s_init_ok
    /\ from_client[c] # <<>>
    /\ main' = [pc |-> "to_gs", from |-> c, msg |-> Head(from_client[c])]
    /\ from_client' = [from_client EXCEPT ![c] = Tail(@)]
    /\ UNCHANGED <<s_game_conn, s_init_ok, connector, link, callback, peerVars,
                   from_gs, sent>>

\* A message of a link counts as the game server's only while s_game_conn
\* names the link.  One for a client goes to net_send(cli_conn, msg_node), which
\* changes nothing here: the network drops it when the client has been swept,
\* and replies are assumed to come within the two minutes its object lives.
TakeGs(g) ==
    /\ main.pc = "idle" /\ s_init_ok
    /\ from_gs[g] # <<>>
    /\ LET msg == Head(from_gs[g])
           Routed(pc) == [pc |-> pc, from |-> g, msg |-> msg]
       IN  main' = IF g # s_game_conn THEN Routed("to_gs")
                   ELSE IF msg = Shutdown THEN Routed("gs_gone") ELSE Idle
    /\ from_gs' = [from_gs EXCEPT ![g] = Tail(@)]
    /\ UNCHANGED <<s_game_conn, s_init_ok, connector, link, callback, peerVars,
                   from_client, sent>>

\* What net_send(g, msg_node) does to the queue of g's worker: nothing when g
\* has been swept.
SendUnlessEnd(g) ==                                              \* mutation
    IF link[g] = "live" /\ main.msg # Shutdown
    THEN [sent EXCEPT ![g] = Append(@, <<main.from, main.msg>>)] ELSE sent
SendInFront(g) ==                                                \* mutation
    IF link[g] = "live"
    THEN [sent EXCEPT ![g] = <<<<main.from, main.msg>>>> \o @] ELSE sent
Send(g) ==
    IF link[g] = "live"
    THEN [sent EXCEPT ![g] = Append(@, <<main.from, main.msg>>)] ELSE sent

\* net_send ignores 0 and follows any other number: td_ is NULL until the
\* connection is registered, and the object may have been deleted.
ToGs ==
    /\ main.pc = "to_gs"
    /\ \/ /\ s_game_conn = Null
          /\ main' = Idle
          /\ UNCHANGED sent
       \/ /\ s_game_conn \in Links
          /\ link[s_game_conn] \in {"live", "down"}
          /\ main' = Idle
          /\ sent' = Send(s_game_conn)
       \/ /\ s_game_conn \in Links
          /\ link[s_game_conn] \in {"pushed", "rejected"}
          /\ main' = [main EXCEPT !.pc = "null_td"]
          /\ UNCHANGED sent
       \/ /\ \/ s_game_conn = MinusOne
             \/ s_game_conn \in Links /\ link[s_game_conn] = "freed"
          /\ main' = [main EXCEPT !.pc = "freed_conn"]
          /\ UNCHANGED sent
    /\ UNCHANGED <<s_game_conn, s_init_ok, connector, link, callback, peerVars,
                   inVars>>

\* s_game_conn = 0, and message_process for the Shutdown.
GameConnKept == s_game_conn                                      \* mutation
GameConnCleared == Null

GsGone ==
    /\ main.pc = "gs_gone"
    /\ s_game_conn' = GameConnCleared
    /\ main' = Idle
    /\ UNCHANGED <<s_init_ok, connector, link, callback, peerVars, inVars,
                   sent>>

-----------------------------------------------------------------------------
\* A crash ends the gate with all its threads.
Crashed == main.pc \in {"null_td", "freed_conn"}

ConnectStep(t) == /\ ~Crashed
                  /\ \/ ConnectLoop(t) \/ ConnectFails(t) \/ ConnectAssign(t)
                     \/ \E g \in Links : ConnectOk(t, g)

CallbackStep(g) == /\ ~Crashed
                   /\ \/ LinkUp(g) \/ LinkRejected(g) \/ RejectedFreed(g)
                      \/ CallbackCompare(g) \/ CallbackSetOk(g)
                      \/ CallbackRegist(g)

PeerStep == /\ ~Crashed
            /\ \/ \E c \in Clients : ClientFrame(c) \/ ClientLeaves(c)
               \/ \E g \in Links : \/ LinkDown(g) \/ LinkReaped(g)
                                   \/ \E c \in Clients : GsReply(g, c)

MainStep == \/ ToGs \/ GsGone
            \/ \E c \in Clients : TakeClient(c)
            \/ \E g \in Links : TakeGs(g)

Next == \/ \E t \in ConnectThreads : ConnectStep(t)
        \/ \E g \in Links : CallbackStep(g)
        \/ PeerStep
        \/ MainStep

Spec == Init /\ [][Next]_vars

\* The threads keep running, and a game server that is asked again and again
\* accepts in the end.  Nothing is assumed of clients or of losses.
Fairness ==
    /\ WF_vars(MainStep)
    /\ WF_vars(\E g \in Links : CallbackStep(g))
    /\ WF_vars(\E t \in ConnectThreads : ConnectStep(t))
    /\ SF_vars(~Crashed /\ \E t \in ConnectThreads, g \in Links : ConnectOk(t, g))

-----------------------------------------------------------------------------
(* Correctness *)

\* net_send never follows a number that is not a registered connection until
\* the gate has lost the link it became ready on and connect_to_gs dials
\* again: the first connection is safe, however the three threads interleave.
CrashOnlyAfterLoss ==
    Crashed => \E g \in Links : /\ callback[g] = "done"
                               /\ link[g] \in {"down", "freed"}
                               /\ s_game_conn # g

\* connector_callback reads s_game_conn twice, once to compare and once in
\* regist_to_game, without a lock; Regist goes to the link that came up, once,
\* or not at all when the callback was too early to know the link.
RegistOnItsLink ==
    \A g \in Links :
        LET regists == {i \in DOMAIN sent[g] : sent[g][i] = Regist}
        IN  /\ callback[g] = "done" => Cardinality(regists) = 1
            /\ callback[g] # "done" => regists = {}

\* Places i and j of q hold messages of client c, with none of c in between.
Adjacent(q, c, i, j) ==
    /\ i < j /\ q[i][1] = c /\ q[j][1] = c
    /\ \A k \in DOMAIN q : i < k /\ k < j => q[k][1] # c

\* On every link the game server hears a client's messages as the client sent
\* them, from the first one relayed there on: without a gap, none twice, the
\* Shutdown after all of them and last.
RelayedInOrder ==
    \A g \in Links, c \in Clients : \A i, j \in DOMAIN sent[g] :
        Adjacent(sent[g], c, i, j) =>
            /\ sent[g][i][2] # Shutdown
            /\ sent[g][j][2] = IF sent[g][i][2] < frames[c]
                               THEN sent[g][i][2] + 1 ELSE Shutdown

\* What go_net.h says of Connection (only its state is touched by several
\* threads) would give: td_ is never read before the worker has set it.
TdSetBeforeUse == main.pc # "null_td"
=============================================================================
