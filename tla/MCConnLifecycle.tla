-------------------------- MODULE MCConnLifecycle --------------------------
(* Instances of ConnLifecycle for TLC: a1 is a connection a peer opens, k1 *)
(* one the process opens itself.                                           *)
EXTENDS ConnLifecycle

CONSTANTS a1, k1

Accepted == {a1}
Mixed == {a1, k1}
Dialled == {k1}

\* Descriptors below 3 are the standard streams; a connection needs two.
Fds1 == {3}
Fds3 == 3 .. 5
Fds4 == 3 .. 6
=============================================================================
