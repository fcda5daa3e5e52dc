-------------------------- MODULE MCConnectionManager --------------------------
(***************************************************************************)
(* Instances of ConnectionManager for TLC.                                 *)
(***************************************************************************)
EXTENDS ConnectionContract, TLC

CONSTANTS m1, m2, m3, a1, a2

\* Two sessions whose ranges of client ids overlap without being equal; one
\* with IB_ACCOUNT set, one without.
OverlappingIds == (m1 :> 1) @@ (m2 :> 2)
OneConfigured == (m1 :> a1) @@ (m2 :> None)

\* Sessions of one configuration: the same base client id, no IB_ACCOUNT.
SameId == [m \in Managers |-> 1]
NoneConfigured == [m \in Managers |-> None]
ThreeIds == (m1 :> 1) @@ (m2 :> 1) @@ (m3 :> 2)

\* The gateway is logged in to both accounts, to one only, or not fully yet.
BothOrOther == {<< a1, a2 >>, << a2 >>}
AnyLogin == {<< a1, a2 >>, << a2 >>, << >>}

Ids(n) == 1..n
Ids3 == Ids(3)
Ids4 == Ids(4)
Ids5 == Ids(5)

AllButDisconnect == FaultKinds \ {"disconnect"}
NoFaults == {}
\* The daily restart of the gateway, and nothing worse.
Outages == {"outage"}
=============================================================================
