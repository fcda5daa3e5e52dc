----------------------- MODULE ConnectionManager_proofs -----------------------
(***************************************************************************)
(* Type correctness and the safety invariants of ConnectionManager, for    *)
(* every set of managers, of accounts and of client ids, every bound on    *)
(* the attempts and every set of faults.                                   *)
(***************************************************************************)
EXTENDS ConnectionManager, FiniteSetTheorems, TLAPS

USE SessionsAssumption, ClientIdAssumption, AccountAssumption

-----------------------------------------------------------------------------
(* Lemmas about what the steps are made of.                                *)

\* The client id of an attempt is one the gateway knows of.
LEMMA CandidateType ==
  ASSUME TypeOK, NEW m \in Managers
  PROVE  Candidate(m) \in ClientIds
BY DEF TypeOK, Candidate

\* Release gives up the registrations of m, and makes nobody else one.
LEMMA ReleaseEffect ==
  ASSUME TypeOK, NEW m \in Managers, Release(m)
  PROVE  /\ slot' \in [ClientIds -> Managers \cup {None, Other}]
         /\ \A c \in ClientIds, n \in Managers :
              slot'[c] = n => slot[c] = n /\ n # m
BY DEF TypeOK, Release, Freed

\* The account connect() settles on is an account or None, and None or one
\* of the managed accounts unless the configured account is not among them.
LEMMA ResolvedAccountFact ==
  ASSUME TypeOK, NEW m \in Managers, ~Mismatch(m)
  PROVE  /\ ResolvedAccount(m) \in Accounts \cup {None}
         /\ ResolvedAccount(m) # None =>
              /\ ResolvedAccount(m) \in Elements(login)
              /\ IB_ACCOUNT[m] \in {None, ResolvedAccount(m)}
<1>1. login \in Seq(Accounts)
  BY DEF TypeOK
<1>2. CASE IB_ACCOUNT[m] # None
  <2>1. ResolvedAccount(m) = IB_ACCOUNT[m]
    BY <1>2 DEF ResolvedAccount
  <2>2. IB_ACCOUNT[m] \in Accounts
    BY <1>2
  <2> QED
    BY <1>2, <2>1, <2>2 DEF Mismatch
<1>3. CASE IB_ACCOUNT[m] = None /\ login # << >>
  <2>1. ResolvedAccount(m) = Head(login)
    BY <1>3 DEF ResolvedAccount
  <2>2. Len(login) \in Nat /\ Len(login) > 0 /\ 1 \in DOMAIN login
    BY <1>1, <1>3
  <2>3. Head(login) = login[1] /\ login[1] \in Accounts
    BY <1>1, <2>2
  <2>4. Head(login) \in Elements(login)
    BY <2>2, <2>3 DEF Elements
  <2> QED
    BY <1>3, <2>1, <2>3, <2>4
<1>4. CASE IB_ACCOUNT[m] = None /\ login = << >>
  BY <1>4 DEF ResolvedAccount
<1> QED
  BY <1>2, <1>3, <1>4

-----------------------------------------------------------------------------

\* The managers as they are made, and a gateway in any state.
LEMMA InitType == Init => TypeOK
<1> SUFFICES ASSUME Init PROVE TypeOK
  OBVIOUS
<1>1. attempt \in [Managers -> 0..(MaxAttempts - 1)]
  BY DEF Init
<1>2. slot \in [ClientIds -> Managers \cup {None, Other}]
  BY DEF Init
<1> QED
  BY <1>1, <1>2 DEF Init, TypeOK, Phases

\* No step of the session, the gateway or its other clients breaks a type.
LEMMA TypeStep ==
  ASSUME TypeOK, [Next]_vars
  PROVE  TypeOK'
<1> USE DEF TypeOK, Phases, environmentVars, sessionVars
<1>1. ASSUME NEW m \in Managers, StartConnect(m) PROVE TypeOK'
  BY <1>1 DEF StartConnect
<1>2. ASSUME NEW m \in Managers, GatewayAccepts(m) PROVE TypeOK'
  BY <1>2, CandidateType DEF GatewayAccepts
<1>3. ASSUME NEW m \in Managers, AttemptSucceeds(m) PROVE TypeOK'
  <2>1. client_id' \in [Managers -> ClientIds \cup {None}]
    BY <1>3, CandidateType DEF AttemptSucceeds, RecordClientId
  <2>2. CASE RejectAccount(m)
    <3>1. account_id' \in [Managers -> Accounts \cup {None}]
      BY <2>2 DEF RejectAccount
    <3>2. /\ phase' \in [Managers -> Phases]
          /\ result' \in [Managers -> {"none", "true", "false"}]
      BY <2>2 DEF RejectAccount, Return
    <3>3. /\ slot' \in [ClientIds -> Managers \cup {None, Other}]
          /\ connected' \in [Managers -> BOOLEAN]
          /\ managed' \in [Managers -> Logins \cup {<< >>}]
          /\ unclosed' \in [Managers -> BOOLEAN]
      <4>1. CASE Release(m) /\ UNCHANGED << connected, managed, unclosed >>
        BY <4>1, ReleaseEffect
      <4>2. CASE /\ connected' = [connected EXCEPT ![m] = TRUE]
                 /\ unclosed' = [unclosed EXCEPT ![m] = TRUE]
                 /\ managed' = [managed EXCEPT ![m] = login]
                 /\ slot' = slot
        BY <4>2
      <4> QED
        BY <2>2, <4>1, <4>2 DEF RejectAccount, HangUp
    <3> QED
      BY <1>3, <2>1, <3>1, <3>2, <3>3 DEF AttemptSucceeds
  <2>3. CASE ~Mismatch(m) /\ AcceptAccount(m)
    <3>1. account_id' \in [Managers -> Accounts \cup {None}]
      BY <2>3, ResolvedAccountFact DEF AcceptAccount
    <3>2. managed' \in [Managers -> Logins \cup {<< >>}]
      BY <2>3 DEF AcceptAccount
    <3>3. /\ phase' \in [Managers -> Phases]
          /\ result' \in [Managers -> {"none", "true", "false"}]
          /\ connected' \in [Managers -> BOOLEAN]
          /\ UNCHANGED << slot, unclosed >>
      BY <2>3 DEF AcceptAccount, Return
    <3> QED
      BY <1>3, <2>1, <3>1, <3>2, <3>3 DEF AttemptSucceeds
  <2> QED
    BY <1>3, <2>2, <2>3 DEF AttemptSucceeds
<1>4. ASSUME NEW m \in Managers, AttemptRefused(m) PROVE TypeOK'
  BY <1>4 DEF AttemptRefused, Return
<1>5. ASSUME NEW m \in Managers, AttemptFails(m) PROVE TypeOK'
  <2>1. slot' \in [ClientIds -> Managers \cup {None, Other}]
    BY <1>5, ReleaseEffect DEF AttemptFails
  <2>2. CASE LastAttempt(m) /\ Return(m, "false") /\ UNCHANGED attempt
    BY <1>5, <2>1, <2>2 DEF AttemptFails, Return
  <2>3. CASE /\ ~LastAttempt(m) /\ NextId(m) /\ UNCHANGED result
             /\ phase' = [phase EXCEPT ![m] = "dialing"]
    <3>1. attempt[m] + 1 \in 0..(MaxAttempts - 1)
      BY <2>3 DEF LastAttempt
    <3>2. attempt' \in [Managers -> 0..(MaxAttempts - 1)]
      BY <2>3, <3>1 DEF NextId
    <3> QED
      BY <1>5, <2>1, <2>3, <3>2 DEF AttemptFails
  <2> QED
    BY <1>5, <2>2, <2>3 DEF AttemptFails
<1>6. ASSUME NEW m \in Managers, CancelConnect(m) PROVE TypeOK'
  BY <1>6, ReleaseEffect DEF CancelConnect
<1>7. ASSUME NEW m \in Managers, EndSession(m) PROVE TypeOK'
  BY <1>7, ReleaseEffect DEF EndSession, disconnect
<1>8. ASSUME NEW m \in Managers, NewSession(m) PROVE TypeOK'
  BY <1>8 DEF NewSession
<1>9. ASSUME NEW m \in Managers, SocketDropped(m) PROVE TypeOK'
  BY <1>9, ReleaseEffect DEF SocketDropped, Lose
<1>10. ASSUME NEW m \in Managers, LossNoticed(m) PROVE TypeOK'
  BY <1>10 DEF LossNoticed, Lose
<1>11. CASE Environment
  BY <1>11 DEF Environment, GatewayDown, GatewayUp, GatewayDrops,
               ForeignConnects, ForeignLeaves
<1>12. CASE UNCHANGED vars
  BY <1>12 DEF vars
<1> QED
  BY <1>1, <1>2, <1>3, <1>4, <1>5, <1>6, <1>7, <1>8, <1>9, <1>10, <1>11, <1>12
     DEF Next, Session, AttemptReturns

\* Every variable keeps its type; in particular the loop of connect() never
\* tries a client id beyond its range (connection.py, the whole class).
THEOREM TypeCorrect == Spec => []TypeOK
BY InitType, TypeStep, PTL DEF Spec

-----------------------------------------------------------------------------
(* The safety invariants.  They are not inductive one by one: that a       *)
(* connection does not outlive its session, for instance, depends on there *)
(* being none before connect() returns.                                    *)

\* ib is connected only between the return of connect() and the next session.
ConnectedOnlyAfterConnect ==
  \A m \in Managers : connected[m] => phase[m] \in {"open", "closed"}

IInv ==
  /\ TypeOK
  /\ ConnectedOnlyAfterConnect
  /\ RegisteredUnderReportedId
  /\ ServedAccount
  /\ NoStrayConnection

Safety ==
  /\ ConnectedOnlyAfterConnect
  /\ RegisteredUnderReportedId
  /\ ServedAccount
  /\ NoStrayConnection

\* A step that gives up the registrations of m, and leaves it unconnected,
\* keeps the invariants whatever it does to the phase of m.
LEMMA ReleaseStep ==
  ASSUME IInv, TypeOK', NEW m \in Managers,
         \A c \in ClientIds, n \in Managers : slot'[c] = n => slot[c] = n /\ n # m,
         ~connected'[m],
         \A n \in Managers \ {m} :
           /\ phase'[n] = phase[n] /\ attempt'[n] = attempt[n]
           /\ client_id'[n] = client_id[n] /\ account_id'[n] = account_id[n]
           /\ connected'[n] = connected[n] /\ managed'[n] = managed[n]
           /\ unclosed'[n] = unclosed[n] /\ result'[n] = result[n]
  PROVE  Safety'
<1>1. ConnectedOnlyAfterConnect'
  BY DEF IInv, ConnectedOnlyAfterConnect
<1>2. RegisteredUnderReportedId'
  BY DEF IInv, RegisteredUnderReportedId, Candidate
<1>3. ServedAccount'
  BY DEF IInv, ServedAccount
<1>4. NoStrayConnection'
  BY DEF IInv, NoStrayConnection
<1> QED
  BY <1>1, <1>2, <1>3, <1>4 DEF Safety

\* A step of the environment that registers no manager keeps the invariants.
LEMMA EnvironmentStep ==
  ASSUME IInv, UNCHANGED sessionVars,
         \A c \in ClientIds, n \in Managers : slot'[c] = n => slot[c] = n
  PROVE  Safety'
<1> USE DEF sessionVars, IInv
<1>1. ConnectedOnlyAfterConnect'
  BY DEF ConnectedOnlyAfterConnect
<1>2. RegisteredUnderReportedId'
  BY DEF RegisteredUnderReportedId, Candidate
<1>3. ServedAccount'
  BY DEF ServedAccount
<1>4. NoStrayConnection'
  BY DEF NoStrayConnection
<1> QED
  BY <1>1, <1>2, <1>3, <1>4 DEF Safety

\* connect() returning from connectAsync: the id it reports is the one it
\* registered, and a wrong account leaves no account behind.
LEMMA AttemptSucceedsStep ==
  ASSUME IInv, TypeOK', NEW m \in Managers, AttemptSucceeds(m)
  PROVE  Safety'
<1> USE DEF IInv, TypeOK
<1>1. /\ phase[m] = "accepted" /\ ~connected[m]
      /\ client_id' = [client_id EXCEPT ![m] = Candidate(m)]
      /\ UNCHANGED << gateway, login, attempt >>
  BY DEF AttemptSucceeds, RecordClientId, ConnectedOnlyAfterConnect
<1>2. \A c \in ClientIds : slot[c] = m => c = Candidate(m)
  BY <1>1 DEF RegisteredUnderReportedId
<1>3. CASE RejectAccount(m)
  <2>1. /\ phase' = [phase EXCEPT ![m] = "open"]
        /\ result' = [result EXCEPT ![m] = "false"]
        /\ account_id' = [account_id EXCEPT ![m] = None]
    BY <1>3 DEF RejectAccount, Return
  <2>2. CASE Release(m) /\ UNCHANGED << connected, managed, unclosed >>
    <3>1. ~connected'[m]
      BY <1>1, <2>2
    <3> QED
      BY <1>1, <2>1, <2>2, <3>1, ReleaseEffect, ReleaseStep
  <2>3. CASE /\ unclosed' = [unclosed EXCEPT ![m] = TRUE]
             /\ connected' = [connected EXCEPT ![m] = TRUE]
             /\ managed' = [managed EXCEPT ![m] = login]
             /\ slot' = slot
    <3>1. ConnectedOnlyAfterConnect'
      BY <2>1, <2>3 DEF ConnectedOnlyAfterConnect
    <3>2. RegisteredUnderReportedId'
      BY <1>1, <1>2, <2>1, <2>3 DEF RegisteredUnderReportedId, Candidate
    <3>3. ServedAccount'
      BY <2>1, <2>3 DEF ServedAccount
    <3>4. NoStrayConnection'
      BY <2>1, <2>3 DEF NoStrayConnection
    <3> QED
      BY <3>1, <3>2, <3>3, <3>4 DEF Safety
  <2> QED
    BY <1>3, <2>2, <2>3 DEF RejectAccount, HangUp
<1>4. CASE ~Mismatch(m) /\ AcceptAccount(m)
  <2>1. /\ phase' = [phase EXCEPT ![m] = "open"]
        /\ result' = [result EXCEPT ![m] = "true"]
        /\ account_id' = [account_id EXCEPT ![m] = ResolvedAccount(m)]
        /\ connected' = [connected EXCEPT ![m] = TRUE]
        /\ managed' = [managed EXCEPT ![m] = login]
        /\ UNCHANGED << slot, unclosed >>
    BY <1>4 DEF AcceptAccount, Return
  <2>2. ConnectedOnlyAfterConnect'
    BY <2>1 DEF ConnectedOnlyAfterConnect
  <2>3. RegisteredUnderReportedId'
    BY <1>1, <1>2, <2>1 DEF RegisteredUnderReportedId, Candidate
  <2>4. ServedAccount'
    BY <1>4, <2>1, ResolvedAccountFact DEF ServedAccount
  <2>5. NoStrayConnection'
    BY <2>1 DEF NoStrayConnection
  <2> QED
    BY <2>2, <2>3, <2>4, <2>5 DEF Safety
<1> QED
  BY <1>3, <1>4 DEF AttemptSucceeds

\* The end of the lifespan: the connection is closed, or ib.disconnect()
\* failed and it stays exactly as it was.
LEMMA EndSessionStep ==
  ASSUME IInv, TypeOK', NEW m \in Managers, EndSession(m)
  PROVE  Safety'
<1> USE DEF IInv, TypeOK
<1>1. /\ phase[m] = "open" /\ phase' = [phase EXCEPT ![m] = "closed"]
      /\ UNCHANGED << attempt, client_id, account_id, result >>
  BY DEF EndSession
<1>2. CASE Release(m) /\ connected' = [connected EXCEPT ![m] = FALSE]
           /\ managed' = [managed EXCEPT ![m] = << >>] /\ UNCHANGED unclosed
  <2>1. /\ ~connected'[m]
        /\ \A n \in Managers \ {m} :
             /\ phase'[n] = phase[n] /\ connected'[n] = connected[n]
             /\ managed'[n] = managed[n] /\ unclosed'[n] = unclosed[n]
    BY <1>1, <1>2
  <2>2. \A c \in ClientIds, n \in Managers : slot'[c] = n => slot[c] = n /\ n # m
    BY <1>2, ReleaseEffect
  <2> QED
    BY <1>1, <2>1, <2>2, ReleaseStep
<1>3. CASE /\ UNCHANGED << connected, managed, slot >>
           /\ \/ ~connected[m] /\ UNCHANGED unclosed
              \/ unclosed' = [unclosed EXCEPT ![m] = TRUE]
  <2>1. ConnectedOnlyAfterConnect'
    BY <1>1, <1>3 DEF ConnectedOnlyAfterConnect
  <2>2. RegisteredUnderReportedId'
    BY <1>1, <1>3 DEF RegisteredUnderReportedId, Candidate
  <2>3. ServedAccount'
    BY <1>1, <1>3 DEF ServedAccount
  <2>4. NoStrayConnection'
    BY <1>1, <1>3 DEF NoStrayConnection
  <2> QED
    BY <2>1, <2>2, <2>3, <2>4 DEF Safety
<1> QED
  BY <1>2, <1>3 DEF EndSession, disconnect

\* The client of m notices that the gateway no longer has its session.
LEMMA LossNoticedStep ==
  ASSUME IInv, TypeOK', NEW m \in Managers, LossNoticed(m)
  PROVE  Safety'
<1>1. \A c \in ClientIds : slot[c] # m
  BY DEF IInv, TypeOK, LossNoticed, RegisteredUnderReportedId, ConnectedOnlyAfterConnect
<1> QED
  BY <1>1, ReleaseStep DEF IInv, TypeOK, LossNoticed, Lose

\* One step of anybody keeps the invariants.
LEMMA SafetyStep ==
  ASSUME IInv, [Next]_vars
  PROVE  IInv'
<1>0. TypeOK'
  BY TypeStep DEF IInv
<1> SUFFICES Safety'
  BY <1>0 DEF IInv, Safety
<1> USE DEF IInv, TypeOK
<1>1. ASSUME NEW m \in Managers, StartConnect(m) PROVE Safety'
  <2>1. ~connected[m] /\ \A c \in ClientIds : slot[c] # m
    BY <1>1 DEF StartConnect, ConnectedOnlyAfterConnect, RegisteredUnderReportedId
  <2> QED
    BY <1>0, <1>1, <2>1, ReleaseStep DEF StartConnect, environmentVars
<1>2. ASSUME NEW m \in Managers, GatewayAccepts(m) PROVE Safety'
  <2>1. ~connected[m] /\ \A c \in ClientIds : slot[c] # m
    BY <1>2 DEF GatewayAccepts, ConnectedOnlyAfterConnect, RegisteredUnderReportedId
  <2>2. ConnectedOnlyAfterConnect'
    BY <1>2, <2>1 DEF GatewayAccepts, ConnectedOnlyAfterConnect
  <2>3. RegisteredUnderReportedId'
    BY <1>2, <2>1 DEF GatewayAccepts, RegisteredUnderReportedId, Candidate
  <2>4. ServedAccount'
    BY <1>2 DEF GatewayAccepts, ServedAccount
  <2>5. NoStrayConnection'
    BY <1>2, <2>1 DEF GatewayAccepts, NoStrayConnection
  <2> QED
    BY <2>2, <2>3, <2>4, <2>5 DEF Safety
<1>3. ASSUME NEW m \in Managers, AttemptSucceeds(m) PROVE Safety'
  BY <1>0, <1>3, AttemptSucceedsStep
<1>4. ASSUME NEW m \in Managers, AttemptRefused(m) PROVE Safety'
  <2>1. ~connected[m] /\ \A c \in ClientIds : slot[c] # m
    BY <1>4 DEF AttemptRefused, ConnectedOnlyAfterConnect, RegisteredUnderReportedId
  <2> QED
    BY <1>0, <1>4, <2>1, ReleaseStep DEF AttemptRefused, Return, environmentVars
<1>5. ASSUME NEW m \in Managers, AttemptFails(m) PROVE Safety'
  <2>1. Release(m) /\ ~connected[m]
    BY <1>5 DEF AttemptFails, ConnectedOnlyAfterConnect
  <2>2. /\ UNCHANGED << client_id, account_id, connected, managed, unclosed >>
        /\ \A n \in Managers \ {m} :
             attempt'[n] = attempt[n] /\ phase'[n] = phase[n] /\ result'[n] = result[n]
    BY <1>5 DEF AttemptFails, Return, NextId
  <2> QED
    BY <1>0, <2>1, <2>2, ReleaseEffect, ReleaseStep
<1>6. ASSUME NEW m \in Managers, CancelConnect(m) PROVE Safety'
  <2>1. ~connected[m]
    BY <1>6 DEF CancelConnect, ConnectedOnlyAfterConnect
  <2> QED
    BY <1>0, <1>6, <2>1, ReleaseEffect, ReleaseStep DEF CancelConnect
<1>7. ASSUME NEW m \in Managers, EndSession(m) PROVE Safety'
  BY <1>0, <1>7, EndSessionStep
<1>8. ASSUME NEW m \in Managers, NewSession(m) PROVE Safety'
  <2>1. \A c \in ClientIds, n \in Managers : slot'[c] = n => slot[c] = n /\ n # m
    BY <1>8 DEF NewSession
  <2>2. /\ ~connected'[m]
        /\ \A n \in Managers \ {m} :
             /\ phase'[n] = phase[n] /\ attempt'[n] = attempt[n]
             /\ client_id'[n] = client_id[n] /\ account_id'[n] = account_id[n]
             /\ connected'[n] = connected[n] /\ managed'[n] = managed[n]
             /\ unclosed'[n] = unclosed[n] /\ result'[n] = result[n]
    BY <1>8 DEF NewSession
  <2> QED
    BY <1>0, <2>1, <2>2, ReleaseStep
<1>9. ASSUME NEW m \in Managers, SocketDropped(m) PROVE Safety'
  BY <1>0, <1>9, ReleaseEffect, ReleaseStep DEF SocketDropped, Lose
<1>10. ASSUME NEW m \in Managers, LossNoticed(m) PROVE Safety'
  BY <1>0, <1>10, LossNoticedStep
<1>11. CASE Environment
  <2>1. /\ UNCHANGED sessionVars
        /\ \A c \in ClientIds, n \in Managers : slot'[c] = n => slot[c] = n
    BY <1>11 DEF Environment, GatewayDown, GatewayUp, GatewayDrops, ForeignConnects,
                 ForeignLeaves
  <2> QED
    BY <2>1, EnvironmentStep
<1>12. CASE UNCHANGED vars
  BY <1>12, EnvironmentStep DEF vars, sessionVars
<1> QED
  BY <1>1, <1>2, <1>3, <1>4, <1>5, <1>6, <1>7, <1>8, <1>9, <1>10, <1>11, <1>12
     DEF Next, Session, AttemptReturns

\* The inductive invariant holds in every behaviour.
LEMMA Inductive == Spec => []IInv
<1>1. Init => IInv
  <2>1. Init => TypeOK
    BY InitType
  <2>2. ASSUME Init PROVE Safety
    <3>1. \A m \in Managers : ~connected[m]
      BY <2>2 DEF Init
    <3>2. \A m \in Managers, c \in ClientIds : slot[c] # m
      BY <2>2 DEF Init
    <3> QED
      BY <3>1, <3>2 DEF Safety, ConnectedOnlyAfterConnect, RegisteredUnderReportedId,
                        ServedAccount, NoStrayConnection
  <2> QED
    BY <2>1, <2>2 DEF IInv, Safety
<1> QED
  BY <1>1, SafetyStep, PTL DEF Spec

\* The gateway has a manager registered under exactly the client id the
\* manager reports, or is being asked for (connection.py, lines 84-112).
THEOREM IdsMatch == Spec => []RegisteredUnderReportedId
BY Inductive, PTL DEF IInv

\* The account the tools serve is one of the connection's own and never other
\* than the configured one, whichever ib.disconnect() failed before
\* (connection.py, lines 126-146).
THEOREM RightAccount == Spec => []ServedAccount
BY Inductive, PTL DEF IInv

\* No connection outlives its session or an unsuccessful connect(), unless
\* ib.disconnect() failed (connection.py, lines 129-169).
THEOREM NothingLeftOpen == Spec => []NoStrayConnection
BY Inductive, PTL DEF IInv

-----------------------------------------------------------------------------
(* Why MaxAttempts is enough.  Without faults the ids of other clients stay *)
(* as they are.  A manager goes on to the next id only while another one   *)
(* has the id it leaves, so from an id that the managers configured up to  *)
(* there cannot all be pushed past, none of them ever goes on.             *)

\* The ids above x, up to r, that are not somebody else's; the managers
\* configured with one of them; and those up to r that are past x by now.
Taken(c) == c \in ClientIds /\ slot[c] = Other
Room(x, r) == { c \in (x + 1)..r : ~Taken(c) }
Between(x, r) == { n \in Managers : x < IB_CLIENT_ID[n] /\ IB_CLIENT_ID[n] <= r }
Beyond(x, r) == { n \in Managers : IB_CLIENT_ID[n] <= r /\ x < Candidate(n) }

\* The managers configured with an id up to r find one up to r.
Contains(r) == \A x \in -1..r : Cardinality(Between(x, r)) <= Cardinality(Room(x, r))
Parked ==
  \A r \in Nat : Contains(r) =>
    \A x \in -1..r : Cardinality(Beyond(x, r)) <= Cardinality(Room(x, r))

LEMMA LeastOf ==
  ASSUME NEW T \in SUBSET Nat, T # {}
  PROVE  \E n \in T : \A k \in T : n <= k
<1>1. IsWellFoundedOn(OpToRel(<, Nat), Nat)
  BY NatLessThanWellFounded
<1>2. PICK n \in T : \A k \in T : ~(<< k, n >> \in OpToRel(<, Nat))
  BY <1>1, WFMin
<1>3. n \in Nat /\ \A k \in T : k \in Nat /\ ~(k < n)
  BY <1>2 DEF OpToRel
<1> QED
  BY <1>3

LEMMA FiniteParts ==
  ASSUME NEW x \in Int, NEW r \in Int
  PROVE  /\ IsFiniteSet(Room(x, r)) /\ Cardinality(Room(x, r)) \in Nat
         /\ IsFiniteSet(Between(x, r)) /\ Cardinality(Between(x, r)) \in Nat
         /\ IsFiniteSet(Beyond(x, r)) /\ Cardinality(Beyond(x, r)) \in Nat
         /\ IsFiniteSet(Managers) /\ Cardinality(Managers) \in Nat
<1>1. IsFiniteSet((x + 1)..r) /\ Room(x, r) \in SUBSET ((x + 1)..r)
  BY FS_Interval DEF Room
<1>2. IsFiniteSet(Managers) /\ Between(x, r) \in SUBSET Managers
      /\ Beyond(x, r) \in SUBSET Managers
  BY DEF Between, Beyond
<1>3. IsFiniteSet(Room(x, r)) /\ IsFiniteSet(Between(x, r)) /\ IsFiniteSet(Beyond(x, r))
  BY <1>1, <1>2, FS_Subset
<1> QED
  BY <1>2, <1>3, FS_CardinalityType

\* Two parts of a finite set count as much as the whole.
LEMMA Parts ==
  ASSUME NEW S, NEW T, IsFiniteSet(S), IsFiniteSet(T), S \cap T = {}
  PROVE  Cardinality(S \cup T) = Cardinality(S) + Cardinality(T)
<1>1. Cardinality(S) \in Nat /\ Cardinality(T) \in Nat /\ Cardinality({}) = 0
  BY FS_CardinalityType, FS_EmptySet
<1>2. Cardinality(S \cup T) = Cardinality(S) + Cardinality(T) - Cardinality(S \cap T)
  BY FS_Union
<1>3. Cardinality(S \cap T) = 0
  BY <1>1
<1> QED
  BY <1>1, <1>2, <1>3

LEMMA SplitParts ==
  ASSUME NEW x \in Int, NEW y \in Int, NEW r \in Int, x <= y, y <= r
  PROVE  /\ Cardinality(Room(x, r)) = Cardinality(Room(x, y)) + Cardinality(Room(y, r))
         /\ Cardinality(Between(x, r)) = Cardinality(Between(x, y)) + Cardinality(Between(y, r))
<1>1. Room(x, r) = Room(x, y) \cup Room(y, r) /\ Room(x, y) \cap Room(y, r) = {}
  BY DEF Room
<1>2. Between(x, r) = Between(x, y) \cup Between(y, r) /\ Between(x, y) \cap Between(y, r) = {}
  BY DEF Between
<1> QED
  BY <1>1, <1>2, FiniteParts, Parts

\* One id at the lower end.
LEMMA RoomBelow ==
  ASSUME NEW x \in Int, NEW r \in Int, x <= r
  PROVE  /\ Taken(x) => Cardinality(Room(x - 1, r)) = Cardinality(Room(x, r))
         /\ Cardinality(Room(x - 1, r)) <= Cardinality(Room(x, r)) + 1
         /\ Cardinality(Room(r, r)) = 0
<1>1. IsFiniteSet(Room(x, r)) /\ Cardinality(Room(x, r)) \in Nat
  BY FiniteParts
<1>2. x \notin Room(x, r) /\ Room(r, r) = {}
  BY DEF Room
<1>3. CASE Taken(x)
  <2>1. Room(x - 1, r) = Room(x, r)
    BY <1>3 DEF Room
  <2> QED
    BY <1>1, <1>2, <2>1, FS_EmptySet
<1>4. CASE ~Taken(x)
  <2>1. Room(x - 1, r) = Room(x, r) \cup {x}
    BY <1>4 DEF Room
  <2>2. Cardinality(Room(x - 1, r)) = Cardinality(Room(x, r)) + 1
    BY <1>1, <1>2, <2>1, FS_AddElement
  <2> QED
    BY <1>1, <1>2, <1>4, <2>2, FS_EmptySet
<1> QED
  BY <1>3, <1>4

\* An interval as large as the ids of others in it and all managers together
\* ends in an id beyond which nobody configured up to there goes, or has one.
LEMMA ContainerExists ==
  ASSUME NEW m \in Managers,
         Cardinality(OthersAhead(m)) + Cardinality(Managers) <= MaxAttempts
  PROVE  \E r \in IB_CLIENT_ID[m]..(IB_CLIENT_ID[m] + MaxAttempts - 1) : Contains(r)
<1>1. PICK b \in Nat, top \in Nat : b = IB_CLIENT_ID[m] /\ top = b + MaxAttempts - 1
  <2>1. IB_CLIENT_ID[m] \in Nat /\ IB_CLIENT_ID[m] + MaxAttempts - 1 \in Nat
    OBVIOUS
  <2> QED
    BY <2>1
<1>2. Cardinality(Managers) <= Cardinality(Room(b - 1, top))
  <2> DEFINE held == { c \in b..top : Taken(c) }
             f == [c \in held |-> c - b]
  <2>1. IsFiniteSet(OthersAhead(m)) /\ Cardinality(OthersAhead(m)) \in Nat
    <3>1. IsFiniteSet(0..(MaxAttempts - 1)) /\ OthersAhead(m) \in SUBSET (0..(MaxAttempts - 1))
      BY FS_Interval DEF OthersAhead
    <3> QED
      BY <3>1, FS_Subset, FS_CardinalityType
  <2>2. f \in Injection(held, OthersAhead(m))
    <3>1. ASSUME NEW c \in held PROVE c - b \in OthersAhead(m)
      <4>1. c - b \in 0..(MaxAttempts - 1) /\ b + (c - b) = c
        BY <1>1
      <4>2. slot[b + (c - b)] = Other
        BY <4>1 DEF Taken
      <4> QED
        BY <1>1, <4>1, <4>2 DEF OthersAhead
    <3>2. f \in [held -> OthersAhead(m)]
      BY <3>1
    <3>3. \A c, d \in held : f[c] = f[d] => c = d
      BY <1>1
    <3> QED
      BY <3>2, <3>3 DEF Injection, IsInjective
  <2>3. IsFiniteSet(held) /\ Cardinality(held) <= Cardinality(OthersAhead(m))
    BY <2>1, <2>2, FS_Injection
  <2>4. IsFiniteSet(b..top) /\ Cardinality(b..top) = MaxAttempts
    BY <1>1, FS_Interval
  <2>5. b..top = Room(b - 1, top) \cup held /\ Room(b - 1, top) \cap held = {}
    BY DEF Room
  <2>6. IsFiniteSet(Room(b - 1, top)) /\ Cardinality(Room(b - 1, top)) \in Nat
        /\ Cardinality(Managers) \in Nat
    <3>1. b - 1 \in Int /\ top \in Int
      OBVIOUS
    <3> QED
      BY <3>1, FiniteParts
  <2>7. Cardinality(held) \in Nat
    BY <2>3, FS_CardinalityType
  <2> HIDE DEF held, f
  <2>8. MaxAttempts = Cardinality(Room(b - 1, top)) + Cardinality(held)
    BY <2>3, <2>4, <2>5, <2>6, Parts
  <2> QED
    BY <2>1, <2>3, <2>6, <2>7, <2>8
<1> DEFINE Over(x) == Cardinality(Room(x, top)) < Cardinality(Between(x, top))
           T == { y \in 0..(top + 1) : Over(y - 1) }
<1>3. CASE T = {}
  <2>1. ASSUME NEW x \in -1..top
        PROVE  Cardinality(Between(x, top)) <= Cardinality(Room(x, top))
    <3>1. x + 1 \in 0..(top + 1) /\ (x + 1) - 1 = x
      OBVIOUS
    <3>2. ~Over(x)
      <4> HIDE DEF Over
      <4>1. ~Over((x + 1) - 1)
        BY <1>3, <3>1
      <4> QED
        BY <3>1, <4>1
    <3>3. x \in Int /\ top \in Int
      OBVIOUS
    <3>4. Cardinality(Between(x, top)) \in Nat /\ Cardinality(Room(x, top)) \in Nat
      BY <3>3, FiniteParts
    <3> QED
      BY <3>2, <3>4
  <2>2. Contains(top)
    BY <2>1 DEF Contains
  <2> QED
    BY <1>1, <2>2
<1>4. CASE T # {}
  <2>1. PICK y \in T : \A k \in T : y <= k
    <3>1. T \in SUBSET Nat
      OBVIOUS
    <3> HIDE DEF T
    <3> QED
      BY <1>4, <3>1, LeastOf
  <2>2. PICK r \in -1..top : r = y - 1 /\ Over(r)
    BY <2>1
  <2>3. ASSUME NEW x \in -1..top, x < r
        PROVE  Cardinality(Between(x, top)) <= Cardinality(Room(x, top))
    <3>1. x + 1 \in 0..(top + 1) /\ (x + 1) - 1 = x /\ x + 1 < y
      BY <2>2, <2>3
    <3>2. ~Over(x)
      <4> HIDE DEF Over
      <4>1. x + 1 \notin T
        <5>1. y \in Int /\ x + 1 \in Int /\ ~(y <= x + 1)
          BY <3>1
        <5> HIDE DEF T
        <5> QED
          BY <2>1, <5>1
      <4>2. ~Over((x + 1) - 1)
        BY <3>1, <4>1
      <4> QED
        BY <3>1, <4>2
    <3>3. x \in Int /\ top \in Int
      OBVIOUS
    <3>4. Cardinality(Between(x, top)) \in Nat /\ Cardinality(Room(x, top)) \in Nat
      BY <3>3, FiniteParts
    <3> QED
      BY <3>2, <3>4
  <2> HIDE DEF T
  <2>4. b <= r
    <3> SUFFICES ASSUME r <= b - 1 PROVE FALSE
      OBVIOUS
    <3>0. b - 1 \in Int /\ top \in Int /\ r \in Int
      OBVIOUS
    <3>1. Room(b - 1, top) \in SUBSET Room(r, top) /\ Between(r, top) \in SUBSET Managers
      BY DEF Room, Between
    <3>4. IsFiniteSet(Room(r, top)) /\ IsFiniteSet(Managers)
      BY <3>0, FiniteParts
    <3>2. /\ Cardinality(Room(b - 1, top)) <= Cardinality(Room(r, top))
          /\ Cardinality(Between(r, top)) <= Cardinality(Managers)
      BY <3>1, <3>4, FS_Subset
    <3>3. /\ Cardinality(Room(b - 1, top)) \in Nat /\ Cardinality(Room(r, top)) \in Nat
          /\ Cardinality(Between(r, top)) \in Nat /\ Cardinality(Managers) \in Nat
      BY <3>0, FiniteParts
    <3> QED
      BY <1>2, <2>2, <3>2, <3>3
  <2>5. ASSUME NEW x \in -1..r
        PROVE  Cardinality(Between(x, r)) <= Cardinality(Room(x, r))
    <3>0. x \in Int /\ r \in Int /\ top \in Int
      OBVIOUS
    <3>1. CASE x = r
      <4>1. Between(x, r) = {}
        BY <3>1 DEF Between
      <4>2. Cardinality(Between(x, r)) = 0
        BY <4>1, FS_EmptySet
      <4>3. Cardinality(Room(x, r)) \in Nat
        BY <3>0, FiniteParts
      <4> QED
        BY <4>2, <4>3
    <3>2. CASE x < r
      <4>1. Cardinality(Between(x, top)) <= Cardinality(Room(x, top))
        BY <2>3, <3>2
      <4>2. /\ Cardinality(Room(x, top)) = Cardinality(Room(x, r)) + Cardinality(Room(r, top))
            /\ Cardinality(Between(x, top))
                 = Cardinality(Between(x, r)) + Cardinality(Between(r, top))
        BY <3>0, <3>2, SplitParts
      <4>3. /\ Cardinality(Room(x, r)) \in Nat /\ Cardinality(Room(r, top)) \in Nat
            /\ Cardinality(Between(x, r)) \in Nat /\ Cardinality(Between(r, top)) \in Nat
        BY <3>0, FiniteParts
      <4> QED
        BY <2>2, <4>1, <4>2, <4>3
    <3> QED
      BY <3>1, <3>2
  <2>6. Contains(r)
    BY <2>5 DEF Contains
  <2> QED
    BY <1>1, <2>4, <2>6
<1> QED
  BY <1>3, <1>4

\* Whoever is past no id yet has room to go past it, while somebody has it.
LEMMA RoomToMoveOn ==
  ASSUME TypeOK, Parked, NEW r \in Nat, Contains(r), NEW m \in Managers, IB_CLIENT_ID[m] <= r,
         \/ Taken(Candidate(m))
         \/ \E n \in Managers \ {m} : Candidate(n) = Candidate(m)
  PROVE  /\ Candidate(m) \in 0..r
         /\ Cardinality(Beyond(Candidate(m), r)) + 1 <= Cardinality(Room(Candidate(m), r))
<1>1. \A n \in Managers : Candidate(n) \in Nat /\ IB_CLIENT_ID[n] <= Candidate(n)
  BY DEF TypeOK, Candidate
<1>2. Candidate(m) <= r
  <2> SUFFICES ASSUME r < Candidate(m) PROVE FALSE
    BY <1>1
  <2>1. m \in Beyond(r, r)
    BY DEF Beyond
  <2>2. Cardinality(Beyond(r, r)) <= Cardinality(Room(r, r)) /\ Cardinality(Room(r, r)) = 0
    <3>1. r \in -1..r /\ r \in Int
      OBVIOUS
    <3>2. Cardinality(Room(r, r)) = 0
      BY <3>1, RoomBelow
    <3> QED
      BY <3>1, <3>2 DEF Parked
  <2>3. Beyond(r, r) = {}
    <3>1. IsFiniteSet(Beyond(r, r)) /\ Cardinality(Beyond(r, r)) \in Nat
      BY FiniteParts
    <3>2. Cardinality(Beyond(r, r)) = 0
      BY <2>2, <3>1
    <3> QED
      BY <3>1, <3>2, FS_EmptySet
  <2> QED
    BY <2>1, <2>3
<1>3. PICK p \in 0..r : p = Candidate(m)
  BY <1>1, <1>2
<1>0. p \in Int /\ r \in Int /\ p - 1 \in Int /\ p - 1 \in -1..r /\ p <= r
  OBVIOUS
<1>4. Cardinality(Beyond(p - 1, r)) <= Cardinality(Room(p - 1, r))
  BY <1>0 DEF Parked
<1>5. /\ m \in Beyond(p - 1, r) /\ m \notin Beyond(p, r)
      /\ Beyond(p, r) \subseteq Beyond(p - 1, r)
  BY <1>1, <1>3 DEF Beyond
<1>6. /\ Cardinality(Beyond(p, r)) \in Nat /\ Cardinality(Beyond(p - 1, r)) \in Nat
      /\ Cardinality(Room(p, r)) \in Nat /\ Cardinality(Room(p - 1, r)) \in Nat
      /\ IsFiniteSet(Beyond(p, r)) /\ IsFiniteSet(Beyond(p - 1, r))
  BY <1>0, FiniteParts
<1>7. /\ IsFiniteSet(Beyond(p, r) \cup {m})
      /\ Cardinality(Beyond(p, r) \cup {m}) = Cardinality(Beyond(p, r)) + 1
  BY <1>5, <1>6, FS_AddElement
<1>8. CASE Taken(p)
  <2>1. Cardinality(Beyond(p, r) \cup {m}) <= Cardinality(Beyond(p - 1, r))
    BY <1>5, <1>6, FS_Subset
  <2>2. Cardinality(Room(p - 1, r)) = Cardinality(Room(p, r))
    BY <1>0, <1>8, RoomBelow
  <2> QED
    BY <1>3, <1>4, <1>6, <1>7, <2>1, <2>2
<1>9. ASSUME NEW n \in Managers \ {m}, Candidate(n) = p
      PROVE  Cardinality(Beyond(p, r)) + 1 <= Cardinality(Room(p, r))
  <2>1. n \in Beyond(p - 1, r) /\ n \notin Beyond(p, r) \cup {m}
    BY <1>1, <1>9 DEF Beyond
  <2>2. Cardinality((Beyond(p, r) \cup {m}) \cup {n}) = Cardinality(Beyond(p, r)) + 2
    <3> DEFINE S == Beyond(p, r) \cup {m}
    <3>1. IsFiniteSet(S) /\ n \notin S /\ Cardinality(S) = Cardinality(Beyond(p, r)) + 1
      BY <1>7, <2>1
    <3> HIDE DEF S
    <3>2. Cardinality(S \cup {n}) = Cardinality(S) + 1
      BY <3>1, FS_AddElement
    <3>3. Cardinality(S \cup {n}) = Cardinality(Beyond(p, r)) + 2
      BY <1>6, <3>1, <3>2
    <3> QED
      BY <3>3 DEF S
  <2>3. Cardinality((Beyond(p, r) \cup {m}) \cup {n}) <= Cardinality(Beyond(p - 1, r))
    BY <1>5, <1>6, <2>1, FS_Subset
  <2>4. Cardinality(Room(p - 1, r)) <= Cardinality(Room(p, r)) + 1
    BY <1>0, RoomBelow
  <2> QED
    BY <1>4, <1>6, <2>2, <2>3, <2>4
<1> QED
  BY <1>3, <1>8, <1>9

\* What holds while there are no faults: the gateway stays, a registration is
\* always under the id of the last attempt, and the managers are parked.
Registered ==
  /\ \A m \in Managers, c \in ClientIds : slot[c] = m => c = Candidate(m)
  /\ \A m \in Managers : phase[m] = "accepted" => slot[Candidate(m)] = m
Calm == gateway /\ (\A m \in Managers : ~unclosed[m]) /\ Registered
FaultFree == Faults = {} => Calm /\ Parked /\ BusyIdsTolerated

\* What a step does to the registrations without faults, when it is not the
\* gateway accepting one.
Keeps ==
  /\ slot' = slot /\ attempt' = attempt
  /\ \A n \in Managers : phase'[n] = "accepted" => phase[n] = "accepted"
Frees(m) ==
  /\ \A c \in ClientIds : slot'[c] = IF slot[c] = m THEN None ELSE slot[c]
  /\ phase'[m] # "accepted"
  /\ \A n \in Managers \ {m} : phase'[n] = phase[n] /\ attempt'[n] = attempt[n]

LEMMA ReleaseQuietly ==
  ASSUME TypeOK, Faults = {}, NEW m \in Managers, Release(m)
  PROVE  \A c \in ClientIds : slot'[c] = IF slot[c] = m THEN None ELSE slot[c]
BY DEF Release, Freed, TypeOK

LEMMA CalmSteps ==
  ASSUME IInv, Calm, Faults = {}, [Next]_vars
  PROVE  /\ gateway' /\ login' = login /\ \A m \in Managers : ~unclosed'[m]
         /\ \/ \E m \in Managers : GatewayAccepts(m)
            \/ \E m \in Managers : Frees(m)
            \/ Keeps
<1> DEFINE Still == gateway' /\ login' = login /\ \A m \in Managers : ~unclosed'[m]
<1> USE DEF IInv, TypeOK, Calm, environmentVars, sessionVars
<1>1. ASSUME NEW m \in Managers, StartConnect(m) PROVE Still /\ Keeps
  BY <1>1 DEF StartConnect, Keeps
<1>2. ASSUME NEW m \in Managers, GatewayAccepts(m) PROVE Still
  BY <1>2 DEF GatewayAccepts
<1>3. ASSUME NEW m \in Managers, AttemptSucceeds(m) PROVE Still /\ (Frees(m) \/ Keeps)
  <2>1. phase' = [phase EXCEPT ![m] = "open"] /\ UNCHANGED << gateway, login, attempt >>
    BY <1>3 DEF AttemptSucceeds, RejectAccount, AcceptAccount, Return
  <2>2. CASE RejectAccount(m)
    <3>1. Release(m) /\ UNCHANGED unclosed
      BY <2>2 DEF RejectAccount, HangUp
    <3> QED
      BY <2>1, <3>1, ReleaseQuietly DEF Frees
  <2>3. CASE AcceptAccount(m)
    BY <2>1, <2>3 DEF AcceptAccount, Keeps
  <2> QED
    BY <1>3, <2>2, <2>3 DEF AttemptSucceeds
<1>4. ASSUME NEW m \in Managers, AttemptRefused(m) PROVE FALSE
  BY <1>4 DEF AttemptRefused
<1>5. ASSUME NEW m \in Managers, AttemptFails(m) PROVE Still /\ Frees(m)
  <2>1. Still /\ Release(m)
    BY <1>5 DEF AttemptFails
  <2>2. /\ phase'[m] # "accepted"
        /\ \A n \in Managers \ {m} : phase'[n] = phase[n] /\ attempt'[n] = attempt[n]
    BY <1>5 DEF AttemptFails, Return, NextId
  <2> QED
    BY <2>1, <2>2, ReleaseQuietly DEF Frees
<1>6. ASSUME NEW m \in Managers, CancelConnect(m) PROVE Still /\ Frees(m)
  BY <1>6, ReleaseQuietly DEF CancelConnect, Frees
<1>7. ASSUME NEW m \in Managers, EndSession(m) PROVE Still /\ (Frees(m) \/ Keeps)
  BY <1>7, ReleaseQuietly DEF EndSession, disconnect, Frees, Keeps
<1>8. ASSUME NEW m \in Managers, NewSession(m) PROVE Still /\ Frees(m)
  <2>1. \A c \in ClientIds : slot[c] # m
    BY <1>8 DEF NewSession, RegisteredUnderReportedId, NoStrayConnection
  <2> QED
    BY <1>8, <2>1 DEF NewSession, Frees
<1>9. ASSUME NEW m \in Managers, SocketDropped(m) PROVE FALSE
  BY <1>9 DEF SocketDropped
<1>10. ASSUME NEW m \in Managers, LossNoticed(m) PROVE Still /\ Keeps
  BY <1>10 DEF LossNoticed, Lose, Keeps
<1>11. CASE Environment
  BY <1>11 DEF Environment, GatewayDown, GatewayUp, GatewayDrops, ForeignConnects,
               ForeignLeaves
<1>12. CASE UNCHANGED vars
  BY <1>12 DEF vars, Keeps
<1> QED
  BY <1>1, <1>2, <1>3, <1>4, <1>5, <1>6, <1>7, <1>8, <1>9, <1>10, <1>11, <1>12
     DEF Next, Session, AttemptReturns

\* The ids of other clients stay theirs, and Calm is kept.
LEMMA CalmStep ==
  ASSUME IInv, Calm, Faults = {}, [Next]_vars
  PROVE  Calm' /\ login' = login /\ \A c \in ClientIds : slot'[c] = Other <=> slot[c] = Other
<1> DEFINE SameOthers == \A c \in ClientIds : slot'[c] = Other <=> slot[c] = Other
<1>4. /\ gateway' /\ login' = login /\ \A m \in Managers : ~unclosed'[m]
      /\ \/ \E m \in Managers : GatewayAccepts(m)
         \/ \E m \in Managers : Frees(m)
         \/ Keeps
  BY CalmSteps
<1> USE DEF IInv, TypeOK
<1>0. \A m \in Managers : Candidate(m) \in ClientIds
  BY CandidateType
<1>1. ASSUME NEW m \in Managers, GatewayAccepts(m) PROVE Registered' /\ SameOthers
  <2>1. /\ slot' = [slot EXCEPT ![Candidate(m)] = m] /\ slot[Candidate(m)] = None
        /\ phase' = [phase EXCEPT ![m] = "accepted"] /\ attempt' = attempt
    BY <1>1 DEF GatewayAccepts, Obtainable
  <2>2. \A n \in Managers : Candidate(n)' = Candidate(n)
    BY <2>1 DEF Candidate
  <2>3. SameOthers
    BY <1>0, <2>1
  <2>4. ASSUME NEW n \in Managers, NEW c \in ClientIds, slot'[c] = n
        PROVE  c = Candidate(n)
    BY <1>0, <2>1, <2>4 DEF Calm, Registered
  <2>5. ASSUME NEW n \in Managers, phase'[n] = "accepted"
        PROVE  slot'[Candidate(n)] = n
    BY <1>0, <2>1, <2>5 DEF Calm, Registered
  <2> QED
    BY <2>2, <2>3, <2>4, <2>5 DEF Registered
<1>2. ASSUME NEW m \in Managers, Frees(m) PROVE Registered' /\ SameOthers
  <2>1. \A n \in Managers \ {m} : Candidate(n)' = Candidate(n)
    BY <1>2 DEF Frees, Candidate
  <2>2. \A c \in ClientIds : slot'[c] # m
    BY <1>2 DEF Frees
  <2>3. ASSUME NEW n \in Managers, NEW c \in ClientIds, slot'[c] = n
        PROVE  c = Candidate(n)'
    BY <1>2, <2>1, <2>2, <2>3 DEF Frees, Calm, Registered
  <2>4. ASSUME NEW n \in Managers, phase'[n] = "accepted"
        PROVE  slot'[Candidate(n)'] = n
    <3>1. n # m /\ phase[n] = "accepted" /\ slot[Candidate(n)] = n
      BY <1>2, <2>4 DEF Frees, Calm, Registered
    <3> QED
      BY <1>0, <1>2, <2>1, <3>1 DEF Frees
  <2>5. SameOthers
    BY <1>2 DEF Frees
  <2> QED
    BY <2>3, <2>4, <2>5 DEF Registered
<1>3. ASSUME Keeps PROVE Registered' /\ SameOthers
  BY <1>3 DEF Keeps, Calm, Registered, Candidate
<1>5. Registered' /\ SameOthers
  BY <1>1, <1>2, <1>3, <1>4
<1> QED
  BY <1>4, <1>5 DEF Calm

\* So is the room between the ids.
LEMMA SameRoom ==
  ASSUME \A c \in ClientIds : slot'[c] = Other <=> slot[c] = Other
  PROVE  /\ \A x, r : Room(x, r)' = Room(x, r)
         /\ \A r : Contains(r)' <=> Contains(r)
         /\ \A m \in Managers : OthersAhead(m)' = OthersAhead(m)
<1>1. \A c : Taken(c)' <=> Taken(c)
  BY DEF Taken
<1>2. ASSUME NEW x, NEW r PROVE Room(x, r)' = Room(x, r)
  BY <1>1 DEF Room
<1>3. ASSUME NEW r PROVE Contains(r)' <=> Contains(r)
  BY <1>2 DEF Contains, Between
<1>4. ASSUME NEW m \in Managers PROVE OthersAhead(m)' = OthersAhead(m)
  BY DEF OthersAhead
<1> QED
  BY <1>2, <1>3, <1>4

\* Without faults an attempt fails only over a client id somebody else has.
LEMMA FailsOverAnother ==
  ASSUME IInv, Calm, Faults = {}, NEW m \in Managers, AttemptFails(m)
  PROVE  \/ Taken(Candidate(m))
         \/ \E n \in Managers \ {m} : Candidate(n) = Candidate(m)
<1>1. Candidate(m) \in ClientIds /\ slot[Candidate(m)] \in Managers \cup {None, Other}
  BY CandidateType DEF IInv, TypeOK
<1>2. phase[m] = "dialing" /\ slot[Candidate(m)] # None
  BY DEF AttemptFails, Calm, Registered
<1>3. slot[Candidate(m)] # m
  BY <1>1, <1>2 DEF IInv, RegisteredUnderReportedId
<1>4. CASE slot[Candidate(m)] = Other
  BY <1>1, <1>4 DEF Taken
<1>5. CASE slot[Candidate(m)] \in Managers
  <2>1. PICK n \in Managers \ {m} : slot[Candidate(m)] = n
    BY <1>3, <1>5
  <2>2. Candidate(n) = Candidate(m)
    BY <1>1, <2>1 DEF Calm, Registered
  <2> QED
    BY <2>2
<1> QED
  BY <1>1, <1>2, <1>4, <1>5

\* connect() counts up by one when an attempt fails, and a new manager starts at 0.
LEMMA AttemptSteps ==
  ASSUME TypeOK, [Next]_vars
  PROVE  \/ attempt' = attempt
         \/ \E m \in Managers : attempt' = [attempt EXCEPT ![m] = 0]
         \/ \E m \in Managers : AttemptFails(m) /\ attempt' = [attempt EXCEPT ![m] = @ + 1]
<1> USE DEF environmentVars, sessionVars
<1>1. ASSUME NEW m \in Managers, Session(m)
      PROVE  \/ attempt' = attempt
             \/ attempt' = [attempt EXCEPT ![m] = 0]
             \/ AttemptFails(m) /\ attempt' = [attempt EXCEPT ![m] = @ + 1]
  <2>1. CASE AttemptFails(m)
    BY <2>1 DEF AttemptFails, NextId
  <2>2. CASE NewSession(m)
    BY <2>2 DEF NewSession
  <2>3. CASE ~AttemptFails(m) /\ ~NewSession(m)
    BY <1>1, <2>3 DEF Session, StartConnect, GatewayAccepts, AttemptReturns, AttemptSucceeds,
         AttemptRefused, CancelConnect, EndSession, SocketDropped, LossNoticed, Lose
  <2> QED
    BY <2>1, <2>2, <2>3
<1>2. CASE Environment
  BY <1>2 DEF Environment, GatewayDown, GatewayUp, GatewayDrops, ForeignConnects,
              ForeignLeaves
<1>3. CASE UNCHANGED vars
  BY <1>3 DEF vars
<1> QED
  BY <1>1, <1>2, <1>3 DEF Next

\* The managers stay parked: one that goes on leaves an id that another has,
\* so there is room for it.
LEMMA ParkedStep ==
  ASSUME IInv, Calm, Faults = {}, Parked, [Next]_vars
  PROVE  Parked'
<1>1. TypeOK /\ TypeOK'
  BY TypeStep DEF IInv
<1>2. /\ \A x, r : Room(x, r)' = Room(x, r)
      /\ \A r : Contains(r)' <=> Contains(r)
  <2>1. \A c \in ClientIds : slot'[c] = Other <=> slot[c] = Other
    BY CalmStep
  <2> QED
    BY <2>1, SameRoom
<1> SUFFICES ASSUME NEW r \in Nat, Contains(r), NEW x \in -1..r
             PROVE  Cardinality(Beyond(x, r)') <= Cardinality(Room(x, r))
  BY <1>2 DEF Parked
<1>3. Cardinality(Beyond(x, r)) <= Cardinality(Room(x, r))
  BY DEF Parked
<1>4. /\ x \in Int /\ r \in Int
      /\ IsFiniteSet(Beyond(x, r)) /\ Cardinality(Beyond(x, r)) \in Nat
      /\ IsFiniteSet(Beyond(x, r)') /\ Cardinality(Beyond(x, r)') \in Nat
      /\ Cardinality(Room(x, r)) \in Nat
  <2>1. x \in Int /\ r \in Int
    OBVIOUS
  <2>2. /\ IsFiniteSet(Beyond(x, r)) /\ Cardinality(Beyond(x, r)) \in Nat
        /\ Cardinality(Room(x, r)) \in Nat /\ IsFiniteSet(Managers)
    BY <2>1, FiniteParts
  <2>3. Beyond(x, r)' \in SUBSET Managers
    BY DEF Beyond
  <2>4. IsFiniteSet(Beyond(x, r)')
    BY <2>2, <2>3, FS_Subset
  <2> QED
    BY <2>1, <2>2, <2>4, FS_CardinalityType
<1>5. ASSUME Beyond(x, r)' \subseteq Beyond(x, r)
      PROVE  Cardinality(Beyond(x, r)') <= Cardinality(Room(x, r))
  <2>1. Cardinality(Beyond(x, r)') <= Cardinality(Beyond(x, r))
    BY <1>4, <1>5, FS_Subset
  <2> QED
    BY <1>3, <1>4, <2>1
<1>6. CASE attempt' = attempt
  <2>1. Beyond(x, r)' = Beyond(x, r)
    BY <1>6 DEF Beyond, Candidate
  <2> QED
    BY <1>5, <2>1
<1>7. ASSUME NEW m \in Managers, attempt' = [attempt EXCEPT ![m] = 0]
      PROVE  Cardinality(Beyond(x, r)') <= Cardinality(Room(x, r))
  <2>1. \A n \in Managers : Candidate(n) \in Int /\ Candidate(n)' \in Int
                            /\ Candidate(n)' <= Candidate(n)
    BY <1>1, <1>7 DEF TypeOK, Candidate
  <2>2. Beyond(x, r)' \subseteq Beyond(x, r)
    BY <1>4, <2>1 DEF Beyond
  <2> QED
    BY <1>5, <2>2
<1>8. ASSUME NEW m \in Managers, AttemptFails(m), attempt' = [attempt EXCEPT ![m] = @ + 1]
      PROVE  Cardinality(Beyond(x, r)') <= Cardinality(Room(x, r))
  <2>1. PICK p \in Int : p = Candidate(m)
    BY <1>1 DEF TypeOK, Candidate
  <2>2. Candidate(m)' = p + 1 /\ \A n \in Managers \ {m} : Candidate(n)' = Candidate(n)
    BY <1>1, <1>8, <2>1 DEF TypeOK, Candidate
  <2>3. CASE x = p /\ IB_CLIENT_ID[m] <= r
    <3>1. Cardinality(Beyond(p, r)) + 1 <= Cardinality(Room(p, r))
      BY <1>1, <1>8, <2>1, <2>3, FailsOverAnother, RoomToMoveOn
    <3>2. m \notin Beyond(x, r) /\ Beyond(x, r)' = Beyond(x, r) \cup {m}
      BY <2>1, <2>2, <2>3 DEF Beyond
    <3>3. Cardinality(Beyond(x, r) \cup {m}) = Cardinality(Beyond(x, r)) + 1
      BY <1>4, <3>2, FS_AddElement
    <3> QED
      BY <2>3, <3>1, <3>2, <3>3
  <2>4. CASE ~(x = p /\ IB_CLIENT_ID[m] <= r)
    <3>1. Beyond(x, r)' \subseteq Beyond(x, r)
      BY <1>4, <2>1, <2>2, <2>4 DEF Beyond
    <3> QED
      BY <1>5, <3>1
  <2> QED
    BY <2>3, <2>4
<1> QED
  BY <1>1, <1>6, <1>7, <1>8, AttemptSteps

\* While the ids outnumber the other sessions, the last attempt does not fail.
LEMMA LastAttemptHolds ==
  ASSUME IInv, Calm, Faults = {}, Parked, NEW m \in Managers,
         Cardinality(OthersAhead(m)) + Cardinality(Managers) <= MaxAttempts,
         AttemptFails(m)
  PROVE  ~LastAttempt(m)
<1> SUFFICES ASSUME LastAttempt(m) PROVE FALSE
  OBVIOUS
<1>1. PICK r \in IB_CLIENT_ID[m]..(IB_CLIENT_ID[m] + MaxAttempts - 1) : Contains(r)
  BY ContainerExists
<1>2. r \in Nat /\ IB_CLIENT_ID[m] <= r /\ Candidate(m) = IB_CLIENT_ID[m] + MaxAttempts - 1
  BY <1>1 DEF Candidate, LastAttempt
<1>3. /\ Candidate(m) \in 0..r
      /\ Cardinality(Beyond(Candidate(m), r)) + 1 <= Cardinality(Room(Candidate(m), r))
  BY <1>1, <1>2, FailsOverAnother, RoomToMoveOn DEF IInv
<1>4. Candidate(m) = r /\ r \in Int
  BY <1>1, <1>2, <1>3
<1>5. Cardinality(Room(r, r)) = 0 /\ Cardinality(Beyond(r, r)) \in Nat
  BY <1>4, RoomBelow, FiniteParts
<1> QED
  BY <1>3, <1>4, <1>5

\* connect() returns False over the account, a gateway that is down, or the
\* last attempt.
LEMMA ReturnsFalse ==
  ASSUME TypeOK, [Next]_vars, NEW m \in Managers, result'[m] = "false", result[m] # "false"
  PROVE  \/ Mismatch(m)
         \/ AttemptRefused(m)
         \/ AttemptFails(m) /\ LastAttempt(m)
<1> USE DEF TypeOK, environmentVars, sessionVars
<1>1. CASE Environment \/ UNCHANGED vars
  BY <1>1 DEF Environment, GatewayDown, GatewayUp, GatewayDrops, ForeignConnects,
              ForeignLeaves, vars
<1>2. ASSUME NEW n \in Managers, Session(n)
      PROVE  n = m /\ (Mismatch(n) \/ AttemptRefused(n) \/ (AttemptFails(n) /\ LastAttempt(n)))
  <2>1. CASE AttemptSucceeds(n)
    <3>1. CASE Mismatch(n) /\ RejectAccount(n)
      BY <3>1 DEF RejectAccount, Return
    <3>2. CASE AcceptAccount(n)
      BY <3>2 DEF AcceptAccount, Return
    <3> QED
      BY <2>1, <3>1, <3>2 DEF AttemptSucceeds
  <2>2. CASE AttemptRefused(n)
    BY <2>2 DEF AttemptRefused, Return
  <2>3. CASE AttemptFails(n)
    BY <2>3 DEF AttemptFails, Return
  <2>4. CASE NewSession(n)
    BY <2>4 DEF NewSession
  <2>5. CASE ~AttemptReturns(n) /\ ~NewSession(n)
    BY <1>2, <2>5 DEF Session, StartConnect, GatewayAccepts, CancelConnect, EndSession,
                      SocketDropped, LossNoticed, Lose
  <2> QED
    BY <2>1, <2>2, <2>3, <2>4, <2>5 DEF AttemptReturns
<1> QED
  BY <1>1, <1>2 DEF Next

LEMMA FaultFreeStep ==
  ASSUME IInv, FaultFree, [Next]_vars
  PROVE  FaultFree'
<1> SUFFICES ASSUME Faults = {} PROVE Calm' /\ Parked' /\ BusyIdsTolerated'
  BY DEF FaultFree
<1>1. Calm /\ Parked /\ BusyIdsTolerated /\ TypeOK
  BY DEF FaultFree, IInv
<1>2. /\ Calm' /\ login' = login
      /\ \A c \in ClientIds : slot'[c] = Other <=> slot[c] = Other
  BY <1>1, CalmStep
<1>3. Parked'
  BY <1>1, ParkedStep
<1>4. \A m \in Managers : OthersAhead(m)' = OthersAhead(m)
  BY <1>2, SameRoom
<1>5. ASSUME NEW m \in Managers, result'[m] = "false",
             Cardinality(OthersAhead(m)) + Cardinality(Managers) <= MaxAttempts
      PROVE  IB_ACCOUNT[m] \notin Elements(login) \cup {None}
  <2>1. CASE result[m] = "false"
    BY <1>1, <1>5, <2>1 DEF BusyIdsTolerated
  <2>2. CASE result[m] # "false"
    <3>1. ~AttemptRefused(m)
      BY <1>1 DEF AttemptRefused, Calm
    <3>2. ~(AttemptFails(m) /\ LastAttempt(m))
      BY <1>1, <1>5, LastAttemptHolds
    <3> QED
      BY <1>1, <1>5, <2>2, <3>1, <3>2, ReturnsFalse DEF Mismatch
  <2> QED
    BY <2>1, <2>2
<1>6. BusyIdsTolerated'
  BY <1>2, <1>4, <1>5 DEF BusyIdsTolerated, Elements
<1> QED
  BY <1>2, <1>3, <1>6

LEMMA FaultFreeInit == Init => FaultFree
<1> SUFFICES ASSUME Init, Faults = {} PROVE Calm /\ Parked /\ BusyIdsTolerated
  BY DEF FaultFree
<1>1. Calm
  BY DEF Init, Calm, Registered
<1>2. BusyIdsTolerated
  BY DEF Init, BusyIdsTolerated
<1>3. ASSUME NEW r \in Nat, Contains(r), NEW x \in -1..r
      PROVE  Cardinality(Beyond(x, r)) <= Cardinality(Room(x, r))
  <2>1. Beyond(x, r) = Between(x, r)
    BY DEF Init, Beyond, Between, Candidate
  <2> QED
    BY <1>3, <2>1 DEF Contains
<1>4. Parked
  BY <1>3 DEF Parked
<1> QED
  BY <1>1, <1>2, <1>4

\* With no fault, connect() gives up only over the account as long as the ids
\* it may try outnumber the other sessions, whenever those come and go and
\* whatever ids they were configured with (connection.py, lines 82-112).
THEOREM BusyIdsAreTolerated == Spec => []BusyIdsTolerated
<1>1. Spec => []FaultFree
  BY Inductive, FaultFreeInit, FaultFreeStep, PTL DEF Spec
<1>2. FaultFree => BusyIdsTolerated
  BY DEF FaultFree, BusyIdsTolerated
<1> QED
  BY <1>1, <1>2, PTL

================================================================================
