------------------------------ MODULE DataLink ------------------------------
(***************************************************************************)
(* The game server's connection to the data server: connect_to_ds and      *)
(* connector_callback in game/game_tool/game_logic.cpp, regist_to_data in  *)
(* game/msg_process/Regist.cpp.                                            *)
(*                                                                         *)
(* A connect thread dials once.  The network worker, of which the game     *)
(* server has one, registers the connection and runs the callback, which   *)
(* starts another connect thread when the connection was rejected.  They   *)
(* share s_data_conn without a lock, and it is an address: a rejected      *)
(* connection is deleted, and a later one may get its place.  Once the     *)
(* game server has registered, s_data_conn is not used any more.           *)
(***************************************************************************)
EXTENDS Integers, FiniteSets

CONSTANTS
    Links,          \* connections net_connect may make
    Addresses,      \* where their objects may be
    Null,           \* the connection number 0
    MinusOne        \* s_data_conn at first, and when fcntl fails

ASSUME AddressesAssumption ==
    Null # MinusOne /\ {Null, MinusOne} \cap (Links \cup Addresses) = {}

\* A connect thread is named after the link whose rejection started it; Null
\* is the one init_config starts.
ConnectThreads == Links \cup {Null}
NetConnectResults == Addresses \cup {Null, MinusOne}

VARIABLES
    s_data_conn,
    connector,      \* per connect thread: [pc, ret]
    link,           \* per link: the state of its Connection object
    address,        \* per link: where it is, or was
    callback,       \* per link: where connector_callback is
    registered,     \* per link: registrations handed to the network for it
    crashed

vars == <<s_data_conn, connector, link, address, callback, registered, crashed>>

TypeOK ==
    /\ s_data_conn \in NetConnectResults
    /\ connector \in [ConnectThreads ->
                        [pc : {"none", "connect", "return", "done"},
                         ret : NetConnectResults]]
    /\ link \in [Links -> {"unused", "pushed", "live", "rejected", "freed"}]
    /\ address \in [Links -> Addresses \cup {Null}]
    /\ callback \in [Links -> {"none", "compare", "regist", "dialled", "missed",
                               "done"}]
    /\ registered \in [Links -> Nat]
    /\ crashed \in BOOLEAN

\* After init_config's create_worker.
Init ==
    /\ s_data_conn = MinusOne
    /\ connector = [t \in ConnectThreads |->
                      [pc |-> IF t = Null THEN "connect" ELSE "none",
                       ret |-> Null]]
    /\ link = [g \in Links |-> "unused"]
    /\ address = [g \in Links |-> Null]
    /\ callback = [g \in Links |-> "none"]
    /\ registered = [g \in Links |-> 0]
    /\ crashed = FALSE

\* The links whose object is there, and those among them at an address.
Allocated == {g \in Links : link[g] \in {"pushed", "live", "rejected"}}
At(a) == {g \in Allocated : address[g] = a}

-----------------------------------------------------------------------------
(* connect_to_ds *)

\* net_connect succeeds: the worker can see the connection, s_data_conn not yet.
ConnectOk(t, g, a) ==
    /\ connector[t].pc = "connect"
    /\ link[g] = "unused"
    /\ At(a) = {}
    /\ link' = [link EXCEPT ![g] = "pushed"]
    /\ address' = [address EXCEPT ![g] = a]
    /\ connector' = [connector EXCEPT ![t] = [pc |-> "return", ret |-> a]]
    /\ UNCHANGED <<s_data_conn, callback, registered, crashed>>

\* connect() fails, or fcntl does.
ConnectFails(t) ==
    /\ connector[t].pc = "connect"
    /\ \E r \in {Null, MinusOne} :
          connector' = [connector EXCEPT ![t] = [pc |-> "return", ret |-> r]]
    /\ UNCHANGED <<s_data_conn, link, address, callback, registered, crashed>>

\* The thread ends, whatever it got.
AfterAttemptAgain == "connect"                                   \* mutation
AfterAttempt == "done"

Assign(t) ==
    /\ connector[t].pc = "return"
    /\ s_data_conn' = connector[t].ret
    /\ connector' = [connector EXCEPT ![t].pc = AfterAttempt]
    /\ UNCHANGED <<link, address, callback, registered, crashed>>

-----------------------------------------------------------------------------
(* The worker: create_conn's verdict and connector_callback *)

WorkerFree == \A g \in Links : /\ callback[g] \notin {"compare", "regist"}
                               /\ link[g] # "rejected"

Verdict(g) ==
    /\ WorkerFree
    /\ link[g] = "pushed"
    /\ \E verdict \in {"live", "rejected"} : link' = [link EXCEPT ![g] = verdict]
    /\ callback' = [callback EXCEPT ![g] = "compare"]
    /\ UNCHANGED <<s_data_conn, connector, address, registered, crashed>>

\* if (conn == s_data_conn)
MatchesAlways(g) == TRUE                                         \* mutation
Matches(g) == address[g] = s_data_conn

CompareOk(g) ==
    /\ callback[g] = "compare"
    /\ link[g] = "live"
    /\ callback' = [callback EXCEPT ![g] = IF Matches(g) THEN "regist"
                                                         ELSE "missed"]
    /\ UNCHANGED <<s_data_conn, connector, link, address, registered, crashed>>

\* create_worker
DialNoMore(g) == connector                                       \* mutation
DialAgain(g) == [connector EXCEPT ![g].pc = "connect"]

CompareRejected(g) ==
    /\ callback[g] = "compare"
    /\ link[g] = "rejected"
    /\ connector' = IF Matches(g) THEN DialAgain(g) ELSE connector
    /\ callback' = [callback EXCEPT ![g] = IF Matches(g) THEN "dialled"
                                                         ELSE "missed"]
    /\ UNCHANGED <<s_data_conn, link, address, registered, crashed>>

\* thread_libevent_process deletes the object after the callback.
Delete(g) ==
    /\ callback[g] \in {"dialled", "missed"}
    /\ link[g] = "rejected"
    /\ link' = [link EXCEPT ![g] = "freed"]
    /\ UNCHANGED <<s_data_conn, connector, address, callback, registered, crashed>>

\* regist_to_data sends to what s_data_conn is by now.  net_send ignores 0 and
\* follows any other number: td_ is NULL until the connection is registered,
\* and there may be no object there.
Regist(g) ==
    /\ callback[g] = "regist"
    /\ callback' = [callback EXCEPT ![g] = "done"]
    /\ LET to == {h \in At(s_data_conn) : link[h] = "live"}
       IN  /\ registered' = [h \in Links |->
                               registered[h] + IF h \in to THEN 1 ELSE 0]
           /\ crashed' = (s_data_conn # Null /\ to = {})
    /\ UNCHANGED <<s_data_conn, connector, link, address>>

-----------------------------------------------------------------------------
ConnectStep(t) ==
    /\ ~crashed
    /\ \/ ConnectFails(t) \/ Assign(t)
       \/ \E g \in Links, a \in Addresses : ConnectOk(t, g, a)

WorkerStep ==
    /\ ~crashed
    /\ \E g \in Links : \/ Verdict(g) \/ CompareOk(g) \/ CompareRejected(g)
                        \/ Delete(g) \/ Regist(g)

Next == WorkerStep \/ \E t \in ConnectThreads : ConnectStep(t)

Spec == Init /\ [][Next]_vars

\* The threads run.
FairSpec == Spec /\ WF_vars(WorkerStep)
                 /\ \A t \in ConnectThreads : WF_vars(ConnectStep(t))

-----------------------------------------------------------------------------
(* Correctness *)

\* regist_to_data reads s_data_conn again, without a lock, after the callback
\* has compared it: it registers on the link that came up, once and nothing
\* else, and never follows a number without a registered connection.  The
\* exception takes two links rejected at one address: the second is taken for
\* the first, a third link is dialled before the second's number is assigned,
\* and the number assigned last is that of a deleted object.
RegistOnDataLink ==
    \/ \E g, h \in Links : /\ g # h
                           /\ {link[g], link[h]} = {"freed"}
                           /\ address[g] = address[h]
    \/ /\ ~crashed
       /\ \A g \in Links :
             registered[g] = IF callback[g] = "done" THEN 1 ELSE 0

\* However often a connection is rejected and dialled again, the game server
\* is on one data link at most.
OneDataLink ==
    Cardinality({g \in Links : link[g] \in {"pushed", "live"}}) <= 1

\* The game server registers at the data server, unless net_connect failed,
\* which is not tried again, or the callback came before its result was
\* assigned.
DataRegistered ==
    <>(\/ \E g \in Links : registered[g] > 0 \/ callback[g] = "missed"
       \/ \E t \in ConnectThreads : /\ connector[t].pc = "done"
                                    /\ s_data_conn \in {Null, MinusOne}
       \/ \A g \in Links : link[g] = "freed"
       \/ crashed)
=============================================================================
