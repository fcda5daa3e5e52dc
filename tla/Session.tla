------------------------------- MODULE Session -------------------------------
(***************************************************************************)
(* What a tool may rely on about the connection behind its session: the    *)
(* contract of ConnectionManager, without client ids at the gateway,       *)
(* attempts or faults.                                                     *)
(*                                                                         *)
(* A session settles once.  Only settling with success gives it an account *)
(* and a usable connection, both at once; afterwards the connection can    *)
(* only be lost, and the account and the client id never change until the  *)
(* session is over.                                                        *)
(***************************************************************************)
CONSTANTS
  Sessions,       \* the sessions
  None,
  ClientIdsOf,    \* the client ids each session may end up with
  AccountsOf      \* the accounts each session may serve (None if none is linked)

VARIABLES
  status,         \* "new", "connecting", "serving", "failed" or "over"
  client_id,
  account_id,
  is_connected

vars == << status, client_id, account_id, is_connected >>

Init ==
  /\ status = [s \in Sessions |-> "new"]
  /\ client_id = [s \in Sessions |-> None]
  /\ account_id = [s \in Sessions |-> None]
  /\ is_connected = [s \in Sessions |-> FALSE]

Begin(s) ==
  /\ status[s] = "new"
  /\ status' = [status EXCEPT ![s] = "connecting"]
  /\ UNCHANGED << client_id, account_id, is_connected >>

\* connect() returns True: client id, account and connection appear together.
Succeed(s) ==
  /\ status[s] = "connecting"
  /\ status' = [status EXCEPT ![s] = "serving"]
  /\ \E c \in ClientIdsOf[s] : client_id' = [client_id EXCEPT ![s] = c]
  /\ \E a \in AccountsOf[s] : account_id' = [account_id EXCEPT ![s] = a]
  /\ is_connected' = [is_connected EXCEPT ![s] = TRUE]

\* connect() returns False: whatever is left behind, there is no account.
Fail(s) ==
  /\ status[s] = "connecting"
  /\ status' = [status EXCEPT ![s] = "failed"]
  /\ \E c \in ClientIdsOf[s] \cup {None} : client_id' = [client_id EXCEPT ![s] = c]
  /\ \E up \in BOOLEAN : is_connected' = [is_connected EXCEPT ![s] = up]
  /\ UNCHANGED account_id

Lose(s) ==
  /\ is_connected[s]
  /\ is_connected' = [is_connected EXCEPT ![s] = FALSE]
  /\ UNCHANGED << status, client_id, account_id >>

\* The lifespan ends, also in the middle of connect().
End(s) ==
  /\ status[s] \in {"connecting", "serving", "failed"}
  /\ status' = [status EXCEPT ![s] = "over"]
  /\ \E up \in {FALSE, is_connected[s]} : is_connected' = [is_connected EXCEPT ![s] = up]
  /\ UNCHANGED << client_id, account_id >>

Renew(s) ==
  /\ status[s] = "over"
  /\ status' = [status EXCEPT ![s] = "new"]
  /\ client_id' = [client_id EXCEPT ![s] = None]
  /\ account_id' = [account_id EXCEPT ![s] = None]
  /\ is_connected' = [is_connected EXCEPT ![s] = FALSE]

Next ==
  \E s \in Sessions :
    Begin(s) \/ Succeed(s) \/ Fail(s) \/ Lose(s) \/ End(s) \/ Renew(s)

Spec == Init /\ [][Next]_vars

=============================================================================
