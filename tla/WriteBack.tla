------------------------------ MODULE WriteBack ------------------------------
(***************************************************************************)
(* The way of a role from the game server to MySQL.                        *)
(*                                                                         *)
(* In the game server (game/game_tool/game_redis.cpp) the main thread puts *)
(* records on s_redis_list with add_redis_data, which takes a lock, and    *)
(* the redis thread, process_redis_list, takes them off without it and     *)
(* writes them to redis.  In the data server (data/data_tool/              *)
(* data_redis.cpp) process_redis_list takes the lowest member of the       *)
(* sorted set role_sets, reads the role under that key from redis, saves   *)
(* it in MySQL and removes the lowest member.  redis_cmd, redis_get_data   *)
(* and redis_set_data are in common/database/redis/go_redis.cpp.           *)
(*                                                                         *)
(* Roles are the numbers of the records they were written with.  Who calls *)
(* add_redis_data and who fills the set is not in the repository: a role   *)
(* that has been written is ranked later, anywhere in the set.  Both       *)
(* servers may end at any point and start again.                           *)
(***************************************************************************)
EXTENDS Integers, Sequences, SequencesExt

CONSTANTS
    Roles,          \* the keys of the roles
    MaxRecords,     \* bound: records the game server makes
    Nothing,        \* response is empty
    ErrorText       \* response holds the text of an error reply

ASSUME RolesAssumption == Nothing # ErrorText /\ {Nothing, ErrorText} \cap Roles = {}
ASSUME MaxRecordsAssumption == MaxRecords \in Nat

VARIABLES
    \* game server
    made,           \* number of records made
    newest,         \* per role: the number of its last record; 0 for none
    s_redis_list,   \* records on the list, as <<role, number>>
    list_ok,        \* the list is intact
    at,             \* the redis thread: "test", "erase" or "set"
    redis_data,     \* the records it has in hand: one or none
    \* redis, MySQL
    value,          \* the role under each key; 0 for none
    role_sets,      \* the members, lowest first
    mysql,          \* the role saved; 0 for none
    putting,        \* roles stored and not yet ranked
    \* data server
    redis_ok,       \* its connection; nothing dials again once it has failed
    pc,             \* the command it is at, or "down"
    response,
    role,           \* 0: the empty Role
    \* history
    dropped,        \* records that got lost in the game server
    quiet,          \* since ZRANGE nothing was ranked, and the role was read
    displaced       \* removed by a pass that was not quiet

gameVars == <<made, newest, s_redis_list, list_ok, at, redis_data, dropped>>
storeVars == <<value, role_sets, mysql, putting>>
serverVars == <<redis_ok, pc, response, role>>
history == <<quiet, displaced>>
vars == <<gameVars, storeVars, serverVars, history>>

Numbers == 0 .. MaxRecords
Records == Roles \X Numbers

Ranked(r) == r \in ToSet(role_sets)

\* A pass goes on past ZRANGE with a response in hand only.
TypeOK ==
    /\ made \in Numbers
    /\ newest \in [Roles -> Numbers]
    /\ s_redis_list \in Seq(Records)
    /\ list_ok \in BOOLEAN
    /\ at \in {"test", "erase", "set"}
    /\ redis_data \subseteq Records
    /\ value \in [Roles -> Numbers]
    /\ role_sets \in Seq(Roles) /\ IsInjective(role_sets)
    /\ mysql \in [Roles -> Numbers]
    /\ putting \subseteq Roles
    /\ redis_ok \in BOOLEAN
    /\ pc \in {"zrange", "get", "save", "remove", "down"}
    /\ response \in Roles \cup {Nothing, ErrorText}
    /\ role \in Numbers
    /\ pc \in {"get", "save", "remove"} => response # Nothing
    /\ dropped \subseteq Records
    /\ quiet \in BOOLEAN
    /\ displaced \subseteq Roles

Init ==
    /\ made = 0
    /\ newest = [r \in Roles |-> 0]
    /\ s_redis_list = <<>>
    /\ list_ok = TRUE
    /\ at = "test"
    /\ redis_data = {}
    /\ value = [r \in Roles |-> 0]
    /\ role_sets = <<>>
    /\ mysql = [r \in Roles |-> 0]
    /\ putting = {}
    /\ redis_ok = TRUE
    /\ pc = "zrange"
    /\ response = Nothing
    /\ role = 0
    /\ dropped = {}
    /\ quiet = TRUE
    /\ displaced = {}

-----------------------------------------------------------------------------
(* Game server: main thread *)

\* s_redis_list.push_back.  The redis thread holds no lock while it erases:
\* when the record it erases is the only one, both change the ends of the
\* list, and the new record may be unreachable, alone or with all that follow.
AddRedisData(r) ==
    LET record == <<r, made + 1>>
        Pushed == /\ s_redis_list' = Append(s_redis_list, record)
                  /\ UNCHANGED <<list_ok, dropped>>
        Lost == /\ dropped' = dropped \cup {record}
                /\ UNCHANGED <<s_redis_list, list_ok>>
        Broken == /\ dropped' = dropped \cup {record}
                  /\ list_ok' = FALSE
                  /\ UNCHANGED s_redis_list
    IN  /\ made < MaxRecords
        /\ made' = made + 1
        /\ newest' = [newest EXCEPT ![r] = made + 1]
        /\ IF ~list_ok THEN Lost
           ELSE \/ Pushed
                \/ at = "erase" /\ Len(s_redis_list) = 1 /\ (Lost \/ Broken)
        /\ UNCHANGED <<at, redis_data, storeVars, serverVars, history>>

-----------------------------------------------------------------------------
(* Game server: redis thread *)

\* size() > 0, begin()
FromTheEnd == Len(s_redis_list)                                  \* mutation
Begin == 1

TakeBegin ==
    /\ at = "test"
    /\ s_redis_list # <<>>
    /\ redis_data' = {s_redis_list[Begin]}
    /\ at' = "erase"
    /\ UNCHANGED <<made, newest, s_redis_list, list_ok, dropped, storeVars,
                   serverVars, history>>

Erase ==
    /\ at = "erase"
    /\ s_redis_list' = RemoveAt(s_redis_list, Begin)
    /\ at' = "set"
    /\ UNCHANGED <<made, newest, list_ok, redis_data, dropped, storeVars,
                   serverVars, history>>

\* redis_set_data.
SetData ==
    /\ at = "set"
    /\ \E record \in redis_data :
          /\ value' = [value EXCEPT ![record[1]] = record[2]]
          /\ putting' = putting \cup {record[1]}
    /\ redis_data' = {}
    /\ at' = "test"
    /\ UNCHANGED <<made, newest, s_redis_list, list_ok, dropped, role_sets,
                   mysql, serverVars, history>>

\* The failure is logged and the record deleted.
SetDataFails ==
    /\ at = "set"
    /\ dropped' = dropped \cup redis_data
    /\ redis_data' = {}
    /\ at' = "test"
    /\ UNCHANGED <<made, newest, s_redis_list, list_ok, storeVars, serverVars,
                   history>>

\* The game server ends and is started again; what is on the list is gone.
GameRestarts ==
    /\ dropped' = dropped \cup ToSet(s_redis_list) \cup redis_data
    /\ s_redis_list' = <<>>
    /\ list_ok' = TRUE
    /\ redis_data' = {}
    /\ at' = "test"
    /\ UNCHANGED <<made, newest, storeVars, serverVars, history>>

-----------------------------------------------------------------------------
(* The producer of the set *)

\* ZADD: a member that is there already moves.
Others(r) == IF Ranked(r)
             THEN RemoveAt(role_sets, CHOOSE i \in DOMAIN role_sets : role_sets[i] = r)
             ELSE role_sets

Rank(r, i) ==
    /\ r \in putting
    /\ i \in 1 .. Len(Others(r)) + 1
    /\ role_sets' = InsertAt(Others(r), i, r)
    /\ putting' = putting \ {r}
    /\ quiet' = FALSE
    /\ displaced' = displaced \ {r}
    /\ UNCHANGED <<gameVars, value, mysql, serverVars>>

-----------------------------------------------------------------------------
(* Data server *)

\* if (!response.empty())
GoOnAnyway(resp) == "get"                                        \* mutation
AfterZrange(resp) == IF resp = Nothing THEN "zrange" ELSE "get"

\* redis_cmd leaves response alone when the array is empty.
Lowest == IF role_sets = <<>> THEN response ELSE Head(role_sets)

Zrange ==
    /\ pc = "zrange"
    /\ redis_ok
    /\ response' = Lowest
    /\ pc' = AfterZrange(Lowest)
    /\ quiet' = TRUE
    /\ UNCHANGED <<gameVars, storeVars, redis_ok, role, displaced>>

\* An error reply: its text becomes the response, for the next pass to find.
\* Without a connection there is no reply.
ZrangeFails ==
    /\ pc = "zrange"
    /\ response' \in IF redis_ok THEN {ErrorText} ELSE {response}
    /\ UNCHANGED <<gameVars, storeVars, redis_ok, pc, role, history>>

Get ==
    /\ pc = "get"
    /\ redis_ok
    /\ response # ErrorText
    /\ role' = value[response]
    /\ pc' = "save"
    /\ UNCHANGED <<gameVars, storeVars, redis_ok, response, history>>

\* get_redis_data returns true whatever redis_get_data did.
GetFails ==
    /\ pc = "get"
    /\ role' = 0
    /\ pc' = "save"
    /\ quiet' = FALSE
    /\ UNCHANGED <<gameVars, storeVars, redis_ok, response, displaced>>

\* The empty Role goes to a row of its own, which is left out.
Save ==
    /\ pc = "save"
    /\ mysql' = IF role = 0 THEN mysql ELSE [mysql EXCEPT ![response] = role]
    /\ pc' = "remove"
    /\ UNCHANGED <<gameVars, value, role_sets, putting, redis_ok, response, role, history>>

\* response.clear() and the next pass.
PassEnds == pc' = "zrange" /\ response' = Nothing /\ role' = 0

\* if (go::db_exe(...))
RemoveAnyway ==                                                  \* mutation
    pc' = "remove" /\ UNCHANGED <<response, role>>
NotSaved == PassEnds

SaveFails ==
    /\ pc = "save"
    /\ NotSaved
    /\ UNCHANGED <<gameVars, storeVars, redis_ok, history>>

NoneRemoved == role_sets                                         \* mutation
LowestRemoved == IF role_sets = <<>> THEN <<>> ELSE Tail(role_sets)

ZRem ==
    /\ pc = "remove"
    /\ redis_ok
    /\ role_sets' = LowestRemoved
    /\ displaced' = IF quiet THEN displaced
                    ELSE displaced \cup (ToSet(role_sets) \ ToSet(LowestRemoved))
    /\ PassEnds
    /\ UNCHANGED <<gameVars, value, mysql, putting, redis_ok, quiet>>

\* What the command returned is not looked at.
ZRemFails ==
    /\ pc = "remove"
    /\ PassEnds
    /\ UNCHANGED <<gameVars, storeVars, redis_ok, history>>

ConnectionFails ==
    /\ pc # "down"
    /\ redis_ok
    /\ redis_ok' = FALSE
    /\ UNCHANGED <<gameVars, storeVars, pc, response, role, history>>

Crash ==
    /\ pc # "down"
    /\ pc' = "down"
    /\ redis_ok' = FALSE
    /\ response' = Nothing
    /\ role' = 0
    /\ UNCHANGED <<gameVars, storeVars, history>>

\* redis_init, init_db, then the thread.
Restart ==
    /\ pc = "down"
    /\ pc' = "zrange"
    /\ redis_ok' = TRUE
    /\ UNCHANGED <<gameVars, storeVars, response, role, history>>

-----------------------------------------------------------------------------
Add == \E r \in Roles : AddRedisData(r)

RedisThread == TakeBegin \/ Erase \/ SetData \/ SetDataFails

Ranking == \E r \in Roles : \E i \in 1 .. Len(role_sets) + 1 : Rank(r, i)

Server == \/ Zrange \/ ZrangeFails \/ Get \/ GetFails
          \/ Save \/ SaveFails \/ ZRem \/ ZRemFails

Next == \/ Add \/ RedisThread \/ GameRestarts \/ Ranking
        \/ Server \/ ConnectionFails \/ Crash \/ Restart

Spec == Init /\ [][Next]_vars

\* The threads run; redis and MySQL, asked again and again, do in the end what
\* the data server asks them.
Fairness == /\ WF_vars(RedisThread) /\ WF_vars(Server)
            /\ SF_vars(Zrange) /\ SF_vars(Save) /\ SF_vars(ZRem)

FairSpec == Spec /\ Fairness

-----------------------------------------------------------------------------
(* Correctness *)

OnList(r) == \E i \in DOMAIN s_redis_list : s_redis_list[i][1] = r

\* The last record of a role is on its way until MySQL has it: on the list, in
\* the redis thread's hand, in redis to be ranked, or ranked.  Whatever fails
\* and wherever the data server ends, the only ones to go astray are those the
\* game server drops (a failed SET, a push beside an erase that empties the
\* list, its own end) and those removed by a pass during which something else was
\* ranked or whose role could not be read.
SavedOrOnItsWay ==
    \A r \in Roles \ displaced :
        LET record == <<r, newest[r]>>
        IN  \/ record \in ToSet(s_redis_list) \cup redis_data \cup dropped
            \/ r \in putting
            \/ Ranked(r)
            \/ mysql[r] = newest[r]

\* Neither store goes back to an older record, though two processes and four
\* threads pass them on and the data server saves what it has read earlier.
NoGoingBack ==
    [][\A r \in Roles : value'[r] >= value[r] /\ mysql'[r] >= mysql[r]]_vars

\* A record is taken off the list in the end, also when the list is damaged,
\* and a ranked role off the set as long as the data server and its connection
\* to redis last.
WorkedOff ==
    \A r \in Roles :
        /\ OnList(r) ~> ~OnList(r)
        /\ Ranked(r) ~> ~Ranked(r) \/ pc = "down" \/ ~redis_ok
=============================================================================
