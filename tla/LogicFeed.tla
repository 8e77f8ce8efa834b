----------------------------- MODULE LogicFeed -----------------------------
(***************************************************************************)
(* What the network layer promises the logic layer: for every connection   *)
(* the handlers see its frames in the order the peer sent them, none       *)
(* twice and none skipped, and one Shutdown after which that connection is *)
(* never heard of again.                                                   *)
(***************************************************************************)
EXTENDS Naturals, Sequences

CONSTANT Conns

VARIABLE feed   \* feed[c]: the messages of c handed to handlers so far

\* Frames of a connection are numbered from 1; 0 is the Shutdown message.
Shutdown == 0

Ended(c) == feed[c] # <<>> /\ feed[c][Len(feed[c])] = Shutdown

Init == feed = [c \in Conns |-> <<>>]

Frame(c) == /\ ~Ended(c)
            /\ feed' = [feed EXCEPT ![c] = Append(@, Len(@) + 1)]

End(c) == /\ ~Ended(c)
          /\ feed' = [feed EXCEPT ![c] = Append(@, Shutdown)]

Next == \E c \in Conns : Frame(c) \/ End(c)

Spec == Init /\ [][Next]_feed
=============================================================================
