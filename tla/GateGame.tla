------------------------------ MODULE GateGame ------------------------------
(***************************************************************************)
(* The gate together with the game server it registers at: GateLogic and   *)
(* what game/game_tool/game_logic.cpp and game/msg_process/Regist.cpp do   *)
(* with the messages of its links.                                         *)
(*                                                                         *)
(* The game server answers clients it has heard a message of; it keeps     *)
(* the link of each registered gate in s_connections_to_me and takes none  *)
(* out again.  Every gate registers under the same id, so for one gate the *)
(* table is one link or none.                                              *)
(***************************************************************************)
EXTENDS GateLogic, SequencesExt

VARIABLES
    heard,                  \* per link: how many of its messages are handled
    s_connections_to_me,    \* the link registered for the gate, or Null
    refused                 \* history: <<link refused, link registered then>>

gameVars == <<heard, s_connections_to_me, refused>>
systemVars == <<vars, gameVars>>

SystemTypeOK ==
    /\ TypeOK
    /\ heard \in [Links -> Nat]
    /\ s_connections_to_me \in Links \cup {Null}
    /\ refused \subseteq Links \X Links

GameInit ==
    /\ heard = [g \in Links |-> 0]
    /\ s_connections_to_me = Null
    /\ refused = {}

SystemInit == Init /\ GameInit

-----------------------------------------------------------------------------
(* Game server: logic_update and message_process *)

\* register_server
RegisterServer(g) ==
    IF s_connections_to_me = Null
    THEN s_connections_to_me' = g /\ UNCHANGED refused
    ELSE /\ refused' = refused \cup {<<g, s_connections_to_me>>}
         /\ UNCHANGED s_connections_to_me

\* process_Regist_req; the other messages change nothing here.  What was sent
\* on a link that is lost since may still arrive.
GameHears(g) ==
    /\ link[g] \in {"live", "down"}
    /\ heard[g] < Len(sent[g])
    /\ heard' = [heard EXCEPT ![g] = @ + 1]
    /\ IF sent[g][heard[g] + 1] = Regist
       THEN RegisterServer(g)
       ELSE UNCHANGED <<s_connections_to_me, refused>>
    /\ UNCHANGED vars

Heard(g) == {sent[g][i][1] : i \in 1 .. heard[g]}

\* The gate moves, or the game server answers on a link a client heard of there.
GateMoves ==
    /\ Next
    /\ \A g \in Links : replies'[g] # replies[g] => Last(from_gs'[g]) \in Heard(g)
    /\ UNCHANGED gameVars

-----------------------------------------------------------------------------
SystemNext == GateMoves \/ \E g \in Links : GameHears(g)

SystemSpec == SystemInit /\ [][SystemNext]_systemVars

\* The game server's main loop runs, and a live link delivers.
FairSystem ==
    /\ SystemSpec
    /\ Fairness
    /\ WF_systemVars(\E g \in Links : link[g] = "live" /\ GameHears(g))

-----------------------------------------------------------------------------
(* Correctness *)

\* The gate is never on two links at once, though its connect threads, worker
\* and main thread share s_game_conn without a lock: when the game server
\* refuses a registration, the link it holds has been lost (nothing calls
\* disconnect_server), or the registration comes late, from a link lost since.
RefusedOnlyAfterLoss ==
    \A p \in refused : \E g \in {p[1], p[2]} : link[g] \in {"down", "freed"}

\* What the game server sends never goes back to a game server as the message
\* of a client: logic_update tells the two apart by s_game_conn, which names
\* the link for as long as there is a message of it to relay.
NothingEchoed ==
    \A g \in Links : \A m \in ToSet(sent[g]) : m[1] \notin Links

\* The end of a client the game server has heard of gets there, unless the
\* link is lost first.
EndHeard ==
    \A g \in Links, c \in Clients :
        (c \in Heard(g) /\ client[c] = "gone") ~>
            \/ \E i \in 1 .. heard[g] : sent[g][i] = <<c, Shutdown>>
            \/ link[g] \in {"down", "freed"}
            \/ Crashed

\* The gate gets registered, unless its callback ran before net_connect's
\* result was assigned, net_connect returned -1, or the link was lost or
\* rejected.
GateKnown ==
    <>(\/ s_connections_to_me # Null
       \/ \E g \in Links : callback[g] = "missed" \/ link[g] \in {"down", "freed"}
       \/ s_game_conn = MinusOne)
=============================================================================
