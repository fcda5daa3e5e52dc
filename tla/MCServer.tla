------------------------------- MODULE MCServer -------------------------------
(***************************************************************************)
(* Instances of Server for TLC.                                            *)
(***************************************************************************)
EXTENDS Server

CONSTANTS p, s1, s2, a1, a2

\* The first id is wanted by all, and there is one more to try.
SameId == [m \in Managers |-> 1]
OneAccountSet == [m \in Managers |-> a1]

Ids == 1..2
\* The configured account is linked to the login, or it is not.
TwoLogins == {<< a1 >>, << a2 >>}

MCFaults == {"outage", "drop", "linger", "disconnect"}
===============================================================================
