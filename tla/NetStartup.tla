---------------------------- MODULE NetStartup ----------------------------
(***************************************************************************)
(* How a process of the system starts its network: net_init and            *)
(* thread_init in common/net/go_net.cpp, protocol_init in                  *)
(* protocol/protocol.cpp, called by init_config of the gate.               *)
(*                                                                         *)
(* The main thread, the accept thread it starts and the workers that one   *)
(* starts run at the same time.  They share s_threads_datas and            *)
(* s_msg_processers without a lock, and s_init_count under s_init_lock     *)
(* with the condition s_init_cond.  Connections are anonymous here: only   *)
(* whether a thread is ready for one is at stake.                          *)
(***************************************************************************)
EXTENDS Integers, FiniteSets

CONSTANTS
    NetThreadNum,   \* s_net_setting.net_thread_num_
    MaxConns,       \* bound: connections peers open
    MaxDials        \* bound: connections net_connect opens

ASSUME NetThreadNumAssumption == NetThreadNum \in Nat \ {0}
ASSUME BoundsAssumption == MaxConns \in Nat /\ MaxDials \in Nat

Workers == 0 .. NetThreadNum - 1
NoThread == -1
AcceptThread == NetThreadNum

VARIABLES
    main,               \* main thread: where init_config is
    shutdown_req,       \* s_msg_processers' entry for Shutdown::Req: "none",
                        \* "entry" while its nmd_ is not set, "set"
    acceptor,           \* accept thread
    started,            \* workers created so far, in the order 0, 1, ...
    s_threads_datas,    \* workers whose ThreadData is in the map
    s_init_count,
    init_lock,          \* the thread that holds s_init_lock, or NoThread
    s_last_thread_id,
    s_connect_conns,    \* number of ConnInfos net_connect has left there
    pc,                 \* per worker
    conns,              \* per worker: connections it has been given
    accepted,           \* connections the accept thread has given away
    dialled             \* net_connect calls made

mainVars   == <<main, shutdown_req>>
acceptVars == <<acceptor, started, s_threads_datas, accepted>>
initVars   == <<s_init_count, init_lock>>
giveVars   == <<s_last_thread_id, conns>>
vars == <<mainVars, acceptVars, initVars, giveVars, s_connect_conns, pc,
          dialled>>

TypeOK ==
    /\ main \in {"net_init", "listening", "protocol_init", "callback",
                 "connect", "exited"}
    /\ shutdown_req \in {"none", "entry", "set"}
    /\ acceptor \in {"none", "create", "publish", "hold", "check", "waiting",
                     "woken", "loop"}
    /\ started \in 0 .. NetThreadNum
    /\ s_threads_datas \subseteq Workers
    /\ s_init_count \in 0 .. NetThreadNum
    /\ init_lock \in Workers \cup {AcceptThread, NoThread}
    /\ s_last_thread_id \in Workers \cup {NoThread}
    /\ s_connect_conns \in Nat
    /\ pc \in [Workers -> {"none", "hold", "count", "loop", "spin",
                         "no thread data", "no nmd"}]
    /\ conns \in [Workers -> Nat]
    /\ accepted \in 0 .. MaxConns
    /\ dialled \in 0 .. MaxDials

Init ==
    /\ main = "net_init"
    /\ shutdown_req = "none"
    /\ acceptor = "none"
    /\ started = 0
    /\ s_threads_datas = {}
    /\ s_init_count = 0
    /\ init_lock = NoThread
    /\ s_last_thread_id = NoThread
    /\ s_connect_conns = 0
    /\ pc = [w \in Workers |-> "none"]
    /\ conns = [w \in Workers |-> 0]
    /\ accepted = 0
    /\ dialled = 0

-----------------------------------------------------------------------------
(* Main thread: init_config *)

\* net_init opens the listening socket, server_listen, and then starts the
\* accept thread and returns.  The process ends when either fails.
ServerListen ==
    /\ main = "net_init"
    /\ main' = "listening"
    /\ UNCHANGED <<shutdown_req, acceptVars, initVars, giveVars,
                   s_connect_conns, pc, dialled>>

NetInit ==
    /\ main = "listening"
    /\ acceptor' = "create"
    /\ main' = "protocol_init"
    /\ UNCHANGED <<shutdown_req, started, s_threads_datas, accepted,
                   initVars, giveVars, s_connect_conns, pc, dialled>>

NetInitFails ==
    /\ main \in {"net_init", "listening"}
    /\ main' = "exited"
    /\ UNCHANGED <<shutdown_req, acceptVars, initVars, giveVars,
                   s_connect_conns, pc, dialled>>

\* protocol_init registers the message types, Shutdown::Req before all others:
\* regist_msg_processer inserts the entry and then sets its functions.
RegistRefused ==                                                 \* mutation
    /\ main = "protocol_init"
    /\ main' = "callback"
    /\ UNCHANGED <<shutdown_req, acceptVars, initVars, giveVars,
                   s_connect_conns, pc, dialled>>

RegistEntry ==
    /\ main = "protocol_init"
    /\ shutdown_req = "none"
    /\ shutdown_req' = "entry"
    /\ UNCHANGED <<main, acceptVars, initVars, giveVars, s_connect_conns, pc,
                   dialled>>

RegistFunctions ==
    /\ main = "protocol_init"
    /\ shutdown_req = "entry"
    /\ shutdown_req' = "set"
    /\ main' = "callback"
    /\ UNCHANGED <<acceptVars, initVars, giveVars, s_connect_conns, pc,
                   dialled>>

RegistConnectorCallback ==
    /\ main = "callback"
    /\ main' = "connect"
    /\ UNCHANGED <<shutdown_req, acceptVars, initVars, giveVars,
                   s_connect_conns, pc, dialled>>

\* net_connect, on the thread connect_gs starts.
NetConnect ==
    /\ main = "connect"
    /\ dialled < MaxDials
    /\ dialled' = dialled + 1
    /\ s_connect_conns' = s_connect_conns + 1
    /\ UNCHANGED <<mainVars, acceptVars, initVars, giveVars, pc>>

-----------------------------------------------------------------------------
(* Accept thread: thread_init, wait_for_thread_init, event loop *)

\* The pipe and event base of worker "started", then the thread itself.
CreateWorker ==
    /\ acceptor = "create"
    /\ pc' = [pc EXCEPT ![started] = "hold"]
    /\ acceptor' = "publish"
    /\ UNCHANGED <<mainVars, started, s_threads_datas, accepted, initVars,
                   giveVars, s_connect_conns, dialled>>

\* pipe, setup_thread and create_worker may fail; each ends the process.
CreateWorkerFails ==
    /\ acceptor = "create"
    /\ main' = "exited"
    /\ UNCHANGED <<shutdown_req, acceptVars, initVars, giveVars,
                   s_connect_conns, pc, dialled>>

\* for (int i = 0; i < num_thread; ++i)
MoreToStart == started + 1 < NetThreadNum

\* Only then does the worker's ThreadData enter the map.
PublishWorker ==
    /\ acceptor = "publish"
    /\ s_threads_datas' = s_threads_datas \cup {started}
    /\ started' = started + 1
    /\ acceptor' = IF MoreToStart THEN "create" ELSE "hold"
    /\ UNCHANGED <<mainVars, accepted, initVars, giveVars, s_connect_conns, pc,
                   dialled>>

WaitHold ==
    /\ acceptor = "hold"
    /\ init_lock = NoThread
    /\ init_lock' = AcceptThread
    /\ acceptor' = "check"
    /\ UNCHANGED <<mainVars, started, s_threads_datas, accepted, s_init_count,
                   giveVars, s_connect_conns, pc, dialled>>

\* while (s_init_count < net_thread_num_)
AllButOneReady == s_init_count >= NetThreadNum - 1               \* mutation
AllReady == s_init_count >= NetThreadNum

\* The lock is released at the end and, by pthread_cond_wait, while waiting.
WaitCheck ==
    /\ acceptor = "check"
    /\ acceptor' = IF AllReady THEN "loop" ELSE "waiting"
    /\ init_lock' = NoThread
    /\ UNCHANGED <<mainVars, started, s_threads_datas, accepted, s_init_count,
                   giveVars, s_connect_conns, pc, dialled>>

\* Signalled, or for no reason at all: take the lock again and look again.
WaitWake ==
    /\ acceptor = "woken"
    /\ init_lock = NoThread
    /\ init_lock' = AcceptThread
    /\ acceptor' = "check"
    /\ UNCHANGED <<mainVars, started, s_threads_datas, accepted, s_init_count,
                   giveVars, s_connect_conns, pc, dialled>>

SpuriousWakeup ==
    /\ acceptor = "waiting"
    /\ acceptor' = "woken"
    /\ UNCHANGED <<mainVars, started, s_threads_datas, accepted, initVars,
                   giveVars, s_connect_conns, pc, dialled>>

NextThread == (s_last_thread_id + 1) % NetThreadNum

\* new_connection and give_worker_new_conn.
GiveConnection ==
    /\ acceptor = "loop"
    /\ accepted < MaxConns
    /\ accepted' = accepted + 1
    /\ s_last_thread_id' = NextThread
    /\ conns' = [conns EXCEPT ![NextThread] = @ + 1]
    /\ UNCHANGED <<mainVars, acceptor, started, s_threads_datas, initVars,
                   s_connect_conns, pc, dialled>>

-----------------------------------------------------------------------------
(* Worker thread: register_thread_init, then its loop *)

RegisterHold(w) ==
    /\ pc[w] = "hold"
    /\ init_lock = NoThread
    /\ init_lock' = w
    /\ pc' = [pc EXCEPT ![w] = "count"]
    /\ UNCHANGED <<mainVars, acceptVars, s_init_count, giveVars,
                   s_connect_conns, dialled>>

\* ++s_init_count, pthread_cond_signal, release.
NotSignalled == acceptor                                         \* mutation
Signalled == IF acceptor = "waiting" THEN "woken" ELSE acceptor

RegisterCount(w) ==
    /\ pc[w] = "count"
    /\ s_init_count' = s_init_count + 1
    /\ acceptor' = Signalled
    /\ init_lock' = NoThread
    /\ pc' = [pc EXCEPT ![w] = "loop"]
    /\ UNCHANGED <<mainVars, started, s_threads_datas, accepted, giveVars,
                   s_connect_conns, dialled>>

\* push_worker_new_conn takes the next thread's ThreadData from the map, NULL
\* when it is not there yet, and uses it.
PushConnection(w) ==
    /\ pc[w] = "loop"
    /\ s_connect_conns > 0
    /\ s_last_thread_id' = NextThread
    /\ IF NextThread \in s_threads_datas
       THEN /\ conns' = [conns EXCEPT ![NextThread] = @ + 1]
            /\ s_connect_conns' = s_connect_conns - 1
            /\ UNCHANGED pc
       ELSE /\ pc' = [pc EXCEPT ![w] = "no thread data"]
            /\ UNCHANGED <<conns, s_connect_conns>>
    /\ UNCHANGED <<mainVars, acceptVars, initVars, dialled>>

\* get_msgnode(Shutdown::Req): there is no entry; there is a complete one, and
\* the connection is swept; or its nmd_ is called before it is set.
GetMsgnode(w) ==
    \/ /\ shutdown_req = "none"
       /\ pc' = [pc EXCEPT ![w] = "spin"]
       /\ UNCHANGED conns
    \/ /\ shutdown_req = "set"
       /\ pc' = [pc EXCEPT ![w] = "loop"]
       /\ conns' = [conns EXCEPT ![w] = @ - 1]
    \/ /\ shutdown_req = "entry"
       /\ pc' = [pc EXCEPT ![w] = "no nmd"]
       /\ UNCHANGED conns

\* A connection of w has been closed; the sweep tries the same connection
\* again as long as there is no Shutdown for it.
Sweep(w) ==
    /\ pc[w] = "loop"
    /\ conns[w] > 0
    /\ GetMsgnode(w)
    /\ UNCHANGED <<mainVars, acceptVars, initVars, s_last_thread_id,
                   s_connect_conns, dialled>>

SweepAgain(w) ==
    /\ pc[w] = "spin"
    /\ GetMsgnode(w)
    /\ UNCHANGED <<mainVars, acceptVars, initVars, s_last_thread_id,
                   s_connect_conns, dialled>>

-----------------------------------------------------------------------------
\* exit() and a crash end all threads.
Crashes == {"no thread data", "no nmd"}
Running == main # "exited" /\ \A w \in Workers : pc[w] \notin Crashes

MainStep == Running /\ (ServerListen \/ NetInit \/ RegistEntry
                        \/ RegistFunctions \/ RegistConnectorCallback)

AcceptStep == Running /\ (CreateWorker \/ PublishWorker \/ WaitHold
                          \/ WaitCheck \/ WaitWake)

WorkerStep(w) == Running /\ (RegisterHold(w) \/ RegisterCount(w)
                             \/ SweepAgain(w))

\* What fails, happens for no reason or depends on peers.
OtherStep == Running /\ (\/ NetInitFails \/ CreateWorkerFails
                         \/ NetConnect \/ SpuriousWakeup \/ GiveConnection
                         \/ \E w \in Workers : PushConnection(w) \/ Sweep(w))

Next == \/ MainStep \/ AcceptStep \/ OtherStep
        \/ \E w \in Workers : WorkerStep(w)

Spec == Init /\ [][Next]_vars

\* The threads run and a worker that waits for s_init_lock gets it in the end;
\* nobody has to connect.
Fairness == /\ WF_vars(MainStep)
            /\ WF_vars(AcceptStep)
            /\ \A w \in Workers : WF_vars(WorkerStep(w))
                                  /\ SF_vars(Running /\ RegisterHold(w))

FairSpec == Spec /\ Fairness

-----------------------------------------------------------------------------
(* Correctness *)

\* Once the accept loop runs every worker has its ThreadData in the map and
\* has reached its own loop: give_worker_new_conn needs no check, and no
\* connection waits for a thread that is still starting.
AcceptAfterReady ==
    acceptor = "loop" =>
        /\ s_threads_datas = Workers
        /\ \A w \in Workers : pc[w] \notin {"none", "hold", "count"}

\* An accept thread that is started enters its loop, unless the process ends:
\* no signal of a worker is lost between the test of s_init_count and
\* pthread_cond_wait.
AcceptLoopEntered == acceptor = "create" ~> acceptor = "loop" \/ ~Running

\* A worker that meets a closed connection before protocol_init has registered
\* Shutdown does not spin for ever.  The process may end meanwhile, which it
\* also does when the worker asks between the two steps of the registration.
SpinEnds == \A w \in Workers : pc[w] = "spin" ~> pc[w] = "loop" \/ ~Running

\* go_net.cpp says of push_worker_new_conn, as of give_worker_new_conn, that
\* initialisation has made sure of the basic data: no worker meets a
\* ThreadData that is not there.
ThreadDataThere == \A w \in Workers : pc[w] # "no thread data"
=============================================================================
