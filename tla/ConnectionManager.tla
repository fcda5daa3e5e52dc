-------------------------- MODULE ConnectionManager --------------------------
(***************************************************************************)
(* connection.py: the ConnectionManager objects of several server sessions *)
(* (the start-up probe, the lifespans of one process, other instances of   *)
(* the server) against one IB Gateway.                                     *)
(*                                                                         *)
(* A session creates a manager, awaits connect() once, is served, awaits   *)
(* disconnect() once and is over (server.py, build_lifespan).  connect()   *)
(* suspends only inside ib.connectAsync, so everything from the moment an  *)
(* attempt returns or raises until the next attempt, or until connect()    *)
(* returns, is one step.                                                   *)
(*                                                                         *)
(* The gateway is external and modelled from how connect() uses it: it     *)
(* registers at most one API session per client id, may be down, may log   *)
(* in to other accounts when it restarts, and may drop a session.  A used  *)
(* id it refuses, as the fallback loop of connect() and its test expect    *)
(* (tests/test_connection.py, line 131); with the fault "takeover" it may  *)
(* also give it to the newcomer and end the older session, as the docs say *)
(* (troubleshooting.md, line 23; configuration.md, line 105).              *)
(***************************************************************************)
EXTENDS Integers, Sequences, FiniteSets

CONSTANTS
  Managers,      \* the ConnectionManager objects, one per live session
  Accounts,      \* the accounts of the IB login
  None,          \* Python's None
  Other,         \* holder of a client id that is not one of Managers
  IB_CLIENT_ID,  \* the base client id configured for each manager
  IB_ACCOUNT,    \* the account configured for each manager, or None
  ClientIds,     \* the client ids the gateway is ever asked for
  MaxAttempts,   \* max_attempts of connect(): 5 in the code
  Logins,        \* the lists of accounts the gateway may be logged in to
  Faults         \* which environment faults this instance includes

FaultKinds ==
  {"handshake", "disconnect", "outage", "drop", "foreign", "linger", "takeover"}

ASSUME SessionsAssumption ==
  /\ IsFiniteSet(Managers)
  /\ None \notin Managers /\ Other \notin Managers /\ None # Other
  /\ None \notin Accounts
  /\ Faults \subseteq FaultKinds

ASSUME ClientIdAssumption ==
  /\ MaxAttempts \in Nat \ {0}
  /\ ClientIds \subseteq Nat /\ None \notin Nat
  /\ IB_CLIENT_ID \in [Managers -> Nat]
  /\ \A m \in Managers, k \in 0..(MaxAttempts - 1) : IB_CLIENT_ID[m] + k \in ClientIds

ASSUME AccountAssumption ==
  /\ IB_ACCOUNT \in [Managers -> Accounts \cup {None}]
  /\ Logins \subseteq Seq(Accounts)

VARIABLES
  gateway,     \* is the gateway listening?
  login,       \* the accounts it is logged in to, as managedAccounts lists them
  slot,        \* which session the gateway has registered under each client id
  phase,       \* where each session is in its life
  attempt,     \* the loop variable of connect()
  client_id,   \* ConnectionManager._client_id
  account_id,  \* ConnectionManager._account_id
  connected,   \* ib.isConnected(), which is what is_connected returns
  managed,     \* ib.managedAccounts()
  unclosed,    \* has ib.disconnect() failed on this connection? (history)
  result       \* what connect() returned: "true", "false" or "none" (not yet)

vars == << gateway, login, slot, phase, attempt, client_id, account_id,
           connected, managed, unclosed, result >>
sessionVars == << phase, attempt, client_id, account_id, connected, managed,
                  unclosed, result >>
environmentVars == << gateway, login, slot >>

Phases == {"new", "dialing", "accepted", "open", "closed"}

-----------------------------------------------------------------------------
(* What the steps are made of.                                             *)

\* The local variable client_id of connect() at the current attempt.
Candidate(m) == IB_CLIENT_ID[m] + attempt[m]

Elements(list) == { list[i] : i \in DOMAIN list }

\* What becomes of a client id whose session ends: the gateway frees it, or
\* keeps it registered until the gateway itself cleans up.
Freed == IF "linger" \in Faults THEN {None, Other} ELSE {None}

\* Every client id registered for m is given up.
Release(m) ==
  \E left \in Freed :
    slot' = [c \in ClientIds |-> IF slot[c] = m THEN left ELSE slot[c]]

\* disconnect(): does nothing on a client that is not connected, and logs and
\* swallows whatever ib.disconnect() raises, in which case the connection stays.
disconnect(m) ==
  \/ /\ ~connected[m]
     /\ UNCHANGED << connected, managed, unclosed, slot >>
  \/ /\ connected[m]
     /\ Release(m)
     /\ connected' = [connected EXCEPT ![m] = FALSE]
     /\ managed' = [managed EXCEPT ![m] = << >>]
     /\ UNCHANGED unclosed
  \/ /\ connected[m] /\ "disconnect" \in Faults
     /\ unclosed' = [unclosed EXCEPT ![m] = TRUE]
     /\ UNCHANGED << connected, managed, slot >>

\* connect() returns r to the lifespan, which then serves the session.
Return(m, r) ==
  /\ phase' = [phase EXCEPT ![m] = "open"]
  /\ result' = [result EXCEPT ![m] = r]

-----------------------------------------------------------------------------
(* connect(), attempt by attempt.                                          *)

StartConnect(m) ==
  /\ phase[m] = "new"
  /\ phase' = [phase EXCEPT ![m] = "dialing"]
  /\ UNCHANGED << environmentVars, attempt, client_id, account_id, connected,
                  managed, unclosed, result >>

\* May the gateway give the client id to a session that asks for it?
Obtainable(c) == slot[c] = None \/ "takeover" \in Faults

\* The gateway registers the session; ib.connectAsync still synchronises.
GatewayAccepts(m) ==
  /\ phase[m] = "dialing"
  /\ gateway /\ Obtainable(Candidate(m))
  /\ slot' = [slot EXCEPT ![Candidate(m)] = m]
  /\ phase' = [phase EXCEPT ![m] = "accepted"]
  /\ UNCHANGED << gateway, login, attempt, client_id, account_id, connected,
                  managed, unclosed, result >>

\* Slip: the configured id is recorded, whatever the attempt used.
RecordBaseId(m) == client_id' = [client_id EXCEPT ![m] = IB_CLIENT_ID[m]]
\* connectAsync returned: the client id is kept as the active one.
RecordClientId(m) == client_id' = [client_id EXCEPT ![m] = Candidate(m)]

\* Slip: the configured account is not checked.
NoMismatch(m) == FALSE
\* IB_ACCOUNT is set and is not one of the managed accounts.
Mismatch(m) == IB_ACCOUNT[m] # None /\ IB_ACCOUNT[m] \notin Elements(login)

\* The account of the connection: the configured one, else the first managed.
ResolvedAccount(m) ==
  IF IB_ACCOUNT[m] # None THEN IB_ACCOUNT[m]
  ELSE IF login # << >> THEN Head(login) ELSE None

\* A wrong account ends the connection at once, if ib.disconnect() works.
HangUp(m) ==
  \/ /\ Release(m)
     /\ UNCHANGED << connected, managed, unclosed >>
  \/ /\ "disconnect" \in Faults
     /\ unclosed' = [unclosed EXCEPT ![m] = TRUE]
     /\ connected' = [connected EXCEPT ![m] = TRUE]
     /\ managed' = [managed EXCEPT ![m] = login]
     /\ slot' = slot

\* Slip: the account is stored before it is checked.
RejectKeepingAccount(m) ==
  /\ HangUp(m)
  /\ account_id' = [account_id EXCEPT ![m] = IB_ACCOUNT[m]]
  /\ Return(m, "false")
RejectAccount(m) ==
  /\ HangUp(m)
  /\ account_id' = [account_id EXCEPT ![m] = None]
  /\ Return(m, "false")

AcceptAccount(m) ==
  /\ connected' = [connected EXCEPT ![m] = TRUE]
  /\ managed' = [managed EXCEPT ![m] = login]
  /\ account_id' = [account_id EXCEPT ![m] = ResolvedAccount(m)]
  /\ Return(m, "true")
  /\ UNCHANGED << slot, unclosed >>

AttemptSucceeds(m) ==
  /\ phase[m] = "accepted" /\ slot[Candidate(m)] = m
  /\ RecordClientId(m)
  /\ \/ Mismatch(m) /\ RejectAccount(m)
     \/ ~Mismatch(m) /\ AcceptAccount(m)
  /\ UNCHANGED << gateway, login, attempt >>

\* ConnectionRefusedError: nothing listens, so no other client id is tried.
AttemptRefused(m) ==
  /\ phase[m] = "dialing" /\ ~gateway
  /\ Return(m, "false")
  /\ UNCHANGED << environmentVars, attempt, client_id, account_id, connected, managed,
                  unclosed >>

\* Slip: one attempt too few.
GivesUpEarly(m) == attempt[m] = MaxAttempts - 2
\* Slip: one attempt too many.
GivesUpLate(m) == attempt[m] = MaxAttempts
LastAttempt(m) == attempt[m] = MaxAttempts - 1

\* Slip: the loop does not move on to the next client id.
RetrySameId(m) == attempt' = attempt
NextId(m) == attempt' = [attempt EXCEPT ![m] = @ + 1]

\* Any other exception: the client id is taken, the handshake timed out, the
\* socket broke while synchronising.  connectAsync leaves no connection behind.
AttemptFails(m) ==
  /\ \/ phase[m] = "dialing" /\ gateway /\ slot[Candidate(m)] # None
     \/ phase[m] = "accepted" /\ slot[Candidate(m)] # m
     \/ phase[m] \in {"dialing", "accepted"} /\ "handshake" \in Faults
  /\ Release(m)
  /\ \/ LastAttempt(m) /\ Return(m, "false") /\ UNCHANGED attempt
     \/ /\ ~LastAttempt(m)
        /\ NextId(m)
        /\ phase' = [phase EXCEPT ![m] = "dialing"]
        /\ UNCHANGED result
  /\ UNCHANGED << gateway, login, client_id, account_id, connected, managed,
                  unclosed >>

\* The task running the session is cancelled inside connectAsync (shutdown):
\* CancelledError is no Exception, so connect() and the lifespan both end.
CancelConnect(m) ==
  /\ phase[m] \in {"dialing", "accepted"}
  /\ Release(m)
  /\ phase' = [phase EXCEPT ![m] = "closed"]
  /\ UNCHANGED << gateway, login, attempt, client_id, account_id, connected,
                  managed, unclosed, result >>

-----------------------------------------------------------------------------
(* The session after connect().                                            *)

\* Slip: the lifespan has no finally.
EndWithoutDisconnect(m) ==
  /\ phase[m] = "open"
  /\ phase' = [phase EXCEPT ![m] = "closed"]
  /\ UNCHANGED << environmentVars, attempt, client_id, account_id, connected,
                  managed, unclosed, result >>
\* The end of the lifespan: finally: await manager.disconnect().
EndSession(m) ==
  /\ phase[m] = "open"
  /\ disconnect(m)
  /\ phase' = [phase EXCEPT ![m] = "closed"]
  /\ UNCHANGED << gateway, login, attempt, client_id, account_id, result >>

\* A new session makes a new manager.  A connection the old one could not
\* close is nobody's any more, but the gateway still has it registered.
NewSession(m) ==
  /\ phase[m] = "closed"
  /\ slot' = [c \in ClientIds |-> IF slot[c] = m THEN Other ELSE slot[c]]
  /\ phase' = [phase EXCEPT ![m] = "new"]
  /\ attempt' = [attempt EXCEPT ![m] = 0]
  /\ client_id' = [client_id EXCEPT ![m] = None]
  /\ account_id' = [account_id EXCEPT ![m] = None]
  /\ connected' = [connected EXCEPT ![m] = FALSE]
  /\ managed' = [managed EXCEPT ![m] = << >>]
  /\ unclosed' = [unclosed EXCEPT ![m] = FALSE]
  /\ result' = [result EXCEPT ![m] = "none"]
  /\ UNCHANGED << gateway, login >>

\* The socket closes under an open session.  ib_async resets its caches, and
\* nothing in the server reacts: the ids stay, connect() is not called again.
Lose(m) ==
  /\ connected' = [connected EXCEPT ![m] = FALSE]
  /\ managed' = [managed EXCEPT ![m] = << >>]
  /\ UNCHANGED << gateway, login, phase, attempt, client_id, account_id, unclosed,
                  result >>

SocketDropped(m) ==
  /\ "drop" \in Faults /\ connected[m]
  /\ Release(m)
  /\ Lose(m)

\* The client finds out that the gateway has ended its session.
LossNoticed(m) ==
  /\ connected[m] /\ slot[client_id[m]] # m
  /\ Lose(m)
  /\ slot' = slot

-----------------------------------------------------------------------------
(* The gateway and its other clients.                                      *)

GatewayDown ==
  /\ "outage" \in Faults /\ gateway
  /\ gateway' = FALSE
  /\ slot' = [c \in ClientIds |-> None]
  /\ UNCHANGED << login, sessionVars >>

GatewayUp ==
  /\ ~gateway
  /\ gateway' = TRUE
  /\ login' \in Logins
  /\ UNCHANGED << slot, sessionVars >>

\* The gateway ends a session that its client still believes in.
GatewayDrops(c) ==
  /\ "drop" \in Faults /\ slot[c] \in Managers
  /\ slot' = [slot EXCEPT ![c] = None]
  /\ UNCHANGED << gateway, login, sessionVars >>

ForeignConnects(c) ==
  /\ "foreign" \in Faults /\ gateway /\ Obtainable(c)
  /\ slot' = [slot EXCEPT ![c] = Other]
  /\ UNCHANGED << gateway, login, sessionVars >>

ForeignLeaves(c) ==
  /\ Faults \cap {"foreign", "linger", "disconnect"} # {} /\ slot[c] = Other
  /\ slot' = [slot EXCEPT ![c] = None]
  /\ UNCHANGED << gateway, login, sessionVars >>

-----------------------------------------------------------------------------

Init ==
  /\ gateway \in BOOLEAN /\ ("outage" \in Faults \/ gateway)
  /\ login \in Logins
  /\ slot \in [ClientIds -> {None, Other}]
  /\ ~gateway => \A c \in ClientIds : slot[c] = None
  /\ phase = [m \in Managers |-> "new"]
  /\ attempt = [m \in Managers |-> 0]
  /\ client_id = [m \in Managers |-> None]
  /\ account_id = [m \in Managers |-> None]
  /\ connected = [m \in Managers |-> FALSE]
  /\ managed = [m \in Managers |-> << >>]
  /\ unclosed = [m \in Managers |-> FALSE]
  /\ result = [m \in Managers |-> "none"]

AttemptReturns(m) == AttemptSucceeds(m) \/ AttemptRefused(m) \/ AttemptFails(m)

Session(m) ==
  \/ StartConnect(m) \/ GatewayAccepts(m) \/ AttemptReturns(m) \/ CancelConnect(m)
  \/ EndSession(m) \/ NewSession(m) \/ SocketDropped(m) \/ LossNoticed(m)

Environment ==
  \/ GatewayDown \/ GatewayUp
  \/ \E c \in ClientIds : GatewayDrops(c) \/ ForeignConnects(c) \/ ForeignLeaves(c)

Next == (\E m \in Managers : Session(m)) \/ Environment

Spec == Init /\ [][Next]_vars

\* The event loop runs every task that can go on; an attempt is answered or
\* given up after the connect timeout of ib.connectAsync; the client notices
\* a dead socket; an outage of the gateway ends.  Nothing makes a session end,
\* and nothing keeps other clients away from the client ids.
Fairness ==
  /\ \A m \in Managers :
       /\ WF_vars(StartConnect(m))
       /\ WF_vars(GatewayAccepts(m) \/ AttemptReturns(m))
       /\ WF_vars(LossNoticed(m))
  /\ WF_vars(GatewayUp)

FairSpec == Spec /\ Fairness
-----------------------------------------------------------------------------
(* What must hold.                                                         *)

\* Every variable has its type: the one type invariant of the module
\* (connection.py, the attributes of ConnectionManager and what they may hold).
TypeOK ==
  /\ gateway \in BOOLEAN
  /\ login \in Logins
  /\ slot \in [ClientIds -> Managers \cup {None, Other}]
  /\ phase \in [Managers -> Phases]
  /\ attempt \in [Managers -> 0..(MaxAttempts - 1)]
  /\ client_id \in [Managers -> ClientIds \cup {None}]
  /\ account_id \in [Managers -> Accounts \cup {None}]
  /\ connected \in [Managers -> BOOLEAN]
  /\ managed \in [Managers -> Logins \cup {<< >>}]
  /\ unclosed \in [Managers -> BOOLEAN]
  /\ result \in [Managers -> {"none", "true", "false"}]

\* Whatever the gateway has registered for a manager is the attempt it is
\* making, or the connection it believes in, under exactly the client id it
\* reports: failed attempts and ended sessions leave no registration, and
\* _client_id follows the retries (connection.py, lines 84-112 and 158-169).
RegisteredUnderReportedId ==
  \A m \in Managers, c \in ClientIds : slot[c] = m =>
    \/ phase[m] = "accepted" /\ c = Candidate(m)
    \/ phase[m] \in {"open", "closed"} /\ connected[m] /\ c = client_id[m]

\* A connected manager that names an account names one of the connection's
\* own, and the configured one if there is one, whatever failed before
\* (connection.py, lines 126-146; "serving tools against the wrong account
\* would be unsafe").
ServedAccount ==
  \A m \in Managers : connected[m] /\ account_id[m] # None =>
    /\ account_id[m] \in Elements(managed[m])
    /\ IB_ACCOUNT[m] \in {None, account_id[m]}

\* A connection exists outside a successfully connected session only because
\* ib.disconnect() failed on it, and after a connect() that returned False it
\* has no account the tools could fall back on (lines 129-140, 158-169; the
\* finally of the lifespan, server.py line 116).
NoStrayConnection ==
  \A m \in Managers : connected[m] =>
    \/ phase[m] = "open" /\ result[m] = "true"
    \/ /\ unclosed[m]
       /\ result[m] = "false" => account_id[m] = None

\* The sessions the gateway holds that belong to nobody here, among the ids m tries.
OthersAhead(m) ==
  { k \in 0..(MaxAttempts - 1) : slot[IB_CLIENT_ID[m] + k] = Other }

\* Where the gateway refuses a used id, and with no fault, connect() fails only
\* over the account as long as the ids it may try outnumber the other sessions,
\* those of other managers that come and go while it is trying included (the
\* fallback loop, lines 82-112).  Of a gateway that lets the newcomer take the
\* id over, the fault "takeover", it says nothing.
BusyIdsTolerated ==
  \A m \in Managers :
    /\ Faults = {}
    /\ Cardinality(OthersAhead(m)) + Cardinality(Managers) <= MaxAttempts
    /\ result[m] = "false"
    => IB_ACCOUNT[m] \notin Elements(login) \cup {None}

\* connect() always comes back, whatever the gateway and the other sessions do
\* (lines 82-112: the attempts are bounded and each is answered or times out).
ConnectReturns ==
  \A m \in Managers : phase[m] = "dialing" ~> phase[m] \in {"open", "closed"}

-----------------------------------------------------------------------------
(* What the documentation says, and the code does not do.                  *)

\* server.py, line 45, of AppContext.account_id: "Resolved IB account id, or
\* ``None`` when the gateway is unreachable."
AccountIdNoneWhenUnreachable ==
  \A m \in Managers :
    phase[m] = "open" /\ ~connected[m] /\ ~gateway => account_id[m] = None

\* docs/deployment.md, line 273: "the server typically self-heals once the
\* gateway is back": an open session that was connected once is connected in
\* the end, if the gateway stays up and the client ids stay free.
SelfHeals ==
  \A m \in Managers :
    <>[](/\ gateway /\ phase[m] = "open" /\ result[m] = "true"
         /\ \A c \in ClientIds : slot[c] \in {None, m})
      => <>[]connected[m]

=============================================================================
