-------------------------- MODULE ConnectionContract --------------------------
(***************************************************************************)
(* ConnectionManager implements Session, the contract the tools rely on.   *)
(***************************************************************************)
EXTENDS ConnectionManager

StatusOf(m) ==
  CASE phase[m] = "new" -> "new"
    [] phase[m] \in {"dialing", "accepted"} -> "connecting"
    [] phase[m] = "open" /\ result[m] = "true" -> "serving"
    [] phase[m] = "open" /\ result[m] # "true" -> "failed"
    [] phase[m] = "closed" -> "over"
status == [m \in Managers |-> StatusOf(m)]

ClientIdsOf == [m \in Managers |-> { IB_CLIENT_ID[m] + k : k \in 0..(MaxAttempts - 1) }]

AccountsOf ==
  [m \in Managers |->
     IF IB_ACCOUNT[m] # None THEN {IB_ACCOUNT[m]} ELSE Accounts \cup {None}]

Contract == INSTANCE Session
  WITH Sessions <- Managers, is_connected <- connected

\* Each step of connect(), of the lifespan and of the gateway is a step of the
\* contract or leaves what the tools see alone: in particular an account and
\* a connection appear together and only once per session, and the account and
\* client id of a session never change under the tools (connection.py, connect).
ImplementsSession == Contract!Spec

=============================================================================
