----------------------- MODULE ConnectionContract_proofs -----------------------
(***************************************************************************)
(* ConnectionManager implements Session, for every value of the constants. *)
(***************************************************************************)
EXTENDS ConnectionContract, ConnectionManager_proofs

\* Before connect() returns a session has no client id, no account and no
\* connection; it has returned once the session is open.
NothingBeforeReturn ==
  \A m \in Managers :
    /\ phase[m] \in {"new", "dialing", "accepted"} =>
         client_id[m] = None /\ account_id[m] = None /\ ~connected[m]
    /\ phase[m] = "open" => result[m] \in {"true", "false"}

\* It is inductive together with the types.
LEMMA NothingBeforeReturnStep ==
  ASSUME TypeOK, NothingBeforeReturn, [Next]_vars
  PROVE  NothingBeforeReturn'
<1> USE DEF TypeOK, Phases, NothingBeforeReturn, environmentVars, sessionVars
<1>1. ASSUME NEW m \in Managers, StartConnect(m) PROVE NothingBeforeReturn'
  BY <1>1 DEF StartConnect
<1>2. ASSUME NEW m \in Managers, GatewayAccepts(m) PROVE NothingBeforeReturn'
  BY <1>2 DEF GatewayAccepts
<1>3. ASSUME NEW m \in Managers, AttemptSucceeds(m) PROVE NothingBeforeReturn'
  <2>1. /\ phase' = [phase EXCEPT ![m] = "open"]
        /\ \A n \in Managers \ {m} :
             /\ client_id'[n] = client_id[n] /\ account_id'[n] = account_id[n]
             /\ connected'[n] = connected[n] /\ result'[n] = result[n]
        /\ result'[m] \in {"true", "false"}
    BY <1>3 DEF AttemptSucceeds, RecordClientId, RejectAccount, HangUp, AcceptAccount, Return
  <2> QED
    BY <2>1
<1>4. ASSUME NEW m \in Managers, AttemptRefused(m) PROVE NothingBeforeReturn'
  BY <1>4 DEF AttemptRefused, Return
<1>5. ASSUME NEW m \in Managers, AttemptFails(m) PROVE NothingBeforeReturn'
  BY <1>5 DEF AttemptFails, Return
<1>6. ASSUME NEW m \in Managers, CancelConnect(m) PROVE NothingBeforeReturn'
  BY <1>6 DEF CancelConnect
<1>7. ASSUME NEW m \in Managers, EndSession(m) PROVE NothingBeforeReturn'
  BY <1>7 DEF EndSession, disconnect
<1>8. ASSUME NEW m \in Managers, NewSession(m) PROVE NothingBeforeReturn'
  BY <1>8 DEF NewSession
<1>9. ASSUME NEW m \in Managers, SocketDropped(m) PROVE NothingBeforeReturn'
  BY <1>9 DEF SocketDropped, Lose
<1>10. ASSUME NEW m \in Managers, LossNoticed(m) PROVE NothingBeforeReturn'
  BY <1>10 DEF LossNoticed, Lose
<1>11. CASE Environment
  BY <1>11 DEF Environment, GatewayDown, GatewayUp, GatewayDrops, ForeignConnects,
               ForeignLeaves
<1>12. CASE UNCHANGED vars
  BY <1>12 DEF vars
<1> QED
  BY <1>1, <1>2, <1>3, <1>4, <1>5, <1>6, <1>7, <1>8, <1>9, <1>10, <1>11, <1>12
     DEF Next, Session, AttemptReturns

-----------------------------------------------------------------------------
(* The refinement, action by action.                                       *)

\* The status of a session, case by case.
LEMMA StatusCases ==
  ASSUME TypeOK, NEW m \in Managers
  PROVE  /\ phase[m] = "new" => status[m] = "new"
         /\ phase[m] \in {"dialing", "accepted"} => status[m] = "connecting"
         /\ phase[m] = "open" /\ result[m] = "true" => status[m] = "serving"
         /\ phase[m] = "open" /\ result[m] # "true" => status[m] = "failed"
         /\ phase[m] = "closed" => status[m] = "over"
<1>1. status[m] = StatusOf(m)
  BY DEF status
<1> QED
  BY <1>1 DEF StatusOf

\* The client id of an attempt is one the session may end up with.
LEMMA CandidateOf ==
  ASSUME TypeOK, NEW m \in Managers
  PROVE  Candidate(m) \in ClientIdsOf[m]
BY ClientIdAssumption DEF TypeOK, Candidate, ClientIdsOf

\* Only the session that takes a step, m, changes its status.
LEMMA StatusStep ==
  ASSUME NEW m \in Managers, NEW s, StatusOf(m)' = s,
         \A n \in Managers \ {m} : phase'[n] = phase[n] /\ result'[n] = result[n]
  PROVE  status' = [status EXCEPT ![m] = s]
<1>1. \A n \in Managers \ {m} : StatusOf(n)' = StatusOf(n)
  BY DEF StatusOf
<1> QED
  BY <1>1 DEF status

ContractStep == Contract!Next \/ UNCHANGED Contract!vars

\* A session that settles with success takes the contract's one such step.
LEMMA AcceptIsSucceed ==
  ASSUME TypeOK, TypeOK', NothingBeforeReturn, NEW m \in Managers, AttemptSucceeds(m),
         ~Mismatch(m) /\ AcceptAccount(m)
  PROVE  Contract!Succeed(m)
<1>1. /\ phase[m] = "accepted" /\ result'[m] = "true" /\ phase'[m] = "open"
      /\ \A n \in Managers \ {m} : phase'[n] = phase[n] /\ result'[n] = result[n]
      /\ client_id' = [client_id EXCEPT ![m] = Candidate(m)]
      /\ account_id' = [account_id EXCEPT ![m] = ResolvedAccount(m)]
      /\ connected' = [connected EXCEPT ![m] = TRUE]
  BY DEF AttemptSucceeds, RecordClientId, AcceptAccount, Return, TypeOK
<1>2. status[m] = "connecting"
  BY <1>1, StatusCases
<1>3. StatusOf(m)' = "serving"
  BY <1>1 DEF StatusOf
<1>4. status' = [status EXCEPT ![m] = "serving"]
  BY <1>1, <1>3, StatusStep
<1>5. Candidate(m) \in ClientIdsOf[m]
  BY CandidateOf
<1>6. ResolvedAccount(m) \in AccountsOf[m]
  BY ResolvedAccountFact, AccountAssumption DEF AccountsOf, ResolvedAccount
<1> QED
  BY <1>1, <1>2, <1>4, <1>5, <1>6 DEF Contract!Succeed

\* A wrong account settles the session as failed.
LEMMA RejectIsFail ==
  ASSUME TypeOK, TypeOK', NothingBeforeReturn, NEW m \in Managers, AttemptSucceeds(m),
         RejectAccount(m)
  PROVE  Contract!Fail(m)
<1> USE DEF TypeOK
<1>1. /\ phase[m] = "accepted" /\ result'[m] = "false" /\ phase'[m] = "open"
      /\ \A n \in Managers \ {m} : phase'[n] = phase[n] /\ result'[n] = result[n]
      /\ client_id' = [client_id EXCEPT ![m] = Candidate(m)]
      /\ account_id' = [account_id EXCEPT ![m] = None]
  BY DEF AttemptSucceeds, RecordClientId, RejectAccount, Return
<1>2. account_id' = account_id
  BY <1>1 DEF NothingBeforeReturn
<1>3. status[m] = "connecting"
  BY <1>1, StatusCases
<1>4. StatusOf(m)' = "failed"
  BY <1>1 DEF StatusOf
<1>5. status' = [status EXCEPT ![m] = "failed"]
  BY <1>1, <1>4, StatusStep
<1>6. \E up \in BOOLEAN : connected' = [connected EXCEPT ![m] = up]
  <2>1. CASE UNCHANGED connected
    BY <2>1
  <2>2. CASE connected' = [connected EXCEPT ![m] = TRUE]
    BY <2>2
  <2> QED
    BY <2>1, <2>2 DEF RejectAccount, HangUp
<1>7. Candidate(m) \in ClientIdsOf[m]
  BY CandidateOf
<1> QED
  BY <1>1, <1>2, <1>3, <1>5, <1>6, <1>7 DEF Contract!Fail

\* connect() giving up settles the session as failed, with nothing to show.
LEMMA GiveUpIsFail ==
  ASSUME TypeOK, NothingBeforeReturn, NEW m \in Managers,
         phase[m] \in {"dialing", "accepted"}, Return(m, "false"),
         UNCHANGED << client_id, account_id, connected >>
  PROVE  Contract!Fail(m)
<1> USE DEF TypeOK
<1>1. /\ result'[m] = "false" /\ phase'[m] = "open"
      /\ \A n \in Managers \ {m} : phase'[n] = phase[n] /\ result'[n] = result[n]
  BY DEF Return
<1>2. status[m] = "connecting"
  BY StatusCases
<1>3. StatusOf(m)' = "failed"
  BY <1>1 DEF StatusOf
<1>4. status' = [status EXCEPT ![m] = "failed"]
  BY <1>1, <1>3, StatusStep
<1>5. client_id' = [client_id EXCEPT ![m] = None] /\ connected' = [connected EXCEPT ![m] = FALSE]
  BY DEF NothingBeforeReturn
<1> QED
  BY <1>2, <1>4, <1>5 DEF Contract!Fail

\* A step that leaves every phase, result, id and connection alone, or only
\* moves a session between the phases of connect(), is a stutter.
LEMMA Stutter ==
  ASSUME UNCHANGED << client_id, account_id, connected, result >>,
         \A n \in Managers : \/ phase'[n] = phase[n]
                             \/ {phase[n], phase'[n]} \subseteq {"dialing", "accepted"}
  PROVE  UNCHANGED Contract!vars
<1>1. \A n \in Managers : StatusOf(n)' = StatusOf(n)
  <2> TAKE n \in Managers
  <2>1. CASE phase'[n] = phase[n]
    BY <2>1 DEF StatusOf
  <2>2. CASE {phase[n], phase'[n]} \subseteq {"dialing", "accepted"}
    <3>1. StatusOf(n) = "connecting"
      BY <2>2 DEF StatusOf
    <3>2. StatusOf(n)' = "connecting"
      BY <2>2 DEF StatusOf
    <3> QED
      BY <3>1, <3>2
  <2> QED
    BY <2>1, <2>2
<1>2. status' = status
  BY <1>1 DEF status
<1> QED
  BY <1>2 DEF Contract!vars

\* Every step of the code is a step of the contract or changes nothing in it.
LEMMA StepImplements ==
  ASSUME TypeOK, TypeOK', NothingBeforeReturn, [Next]_vars
  PROVE  ContractStep
<1> USE DEF TypeOK, Phases, environmentVars, sessionVars
<1>1. ASSUME NEW m \in Managers, StartConnect(m) PROVE Contract!Begin(m)
  <2>1. StatusOf(m)' = "connecting"
    BY <1>1 DEF StartConnect, StatusOf
  <2>2. status' = [status EXCEPT ![m] = "connecting"]
    BY <1>1, <2>1, StatusStep DEF StartConnect
  <2> QED
    BY <1>1, <2>2, StatusCases DEF StartConnect, Contract!Begin
<1>2. ASSUME NEW m \in Managers, GatewayAccepts(m) PROVE UNCHANGED Contract!vars
  BY <1>2, Stutter DEF GatewayAccepts
<1>3. ASSUME NEW m \in Managers, AttemptSucceeds(m)
      PROVE  Contract!Succeed(m) \/ Contract!Fail(m)
  BY <1>3, AcceptIsSucceed, RejectIsFail DEF AttemptSucceeds
<1>4. ASSUME NEW m \in Managers, AttemptRefused(m) PROVE Contract!Fail(m)
  BY <1>4, GiveUpIsFail DEF AttemptRefused
<1>5. ASSUME NEW m \in Managers, AttemptFails(m)
      PROVE  Contract!Fail(m) \/ UNCHANGED Contract!vars
  <2>1. phase[m] \in {"dialing", "accepted"}
    BY <1>5 DEF AttemptFails
  <2>2. CASE Return(m, "false")
    BY <1>5, <2>1, <2>2, GiveUpIsFail DEF AttemptFails
  <2>3. CASE phase' = [phase EXCEPT ![m] = "dialing"] /\ UNCHANGED result
    BY <1>5, <2>1, <2>3, Stutter DEF AttemptFails
  <2> QED
    BY <1>5, <2>2, <2>3 DEF AttemptFails
<1>6. ASSUME NEW m \in Managers, CancelConnect(m) \/ EndSession(m) PROVE Contract!End(m)
  <2>1. /\ phase[m] \in {"dialing", "accepted", "open"}
        /\ phase' = [phase EXCEPT ![m] = "closed"]
        /\ UNCHANGED << client_id, account_id, result >>
    BY <1>6 DEF CancelConnect, EndSession
  <2>2. StatusOf(m)' = "over"
    BY <2>1 DEF StatusOf
  <2>3. status' = [status EXCEPT ![m] = "over"]
    BY <2>1, <2>2, StatusStep
  <2>4. \E up \in {FALSE, connected[m]} : connected' = [connected EXCEPT ![m] = up]
    <3>1. CASE UNCHANGED connected
      BY <3>1
    <3>2. CASE connected' = [connected EXCEPT ![m] = FALSE]
      BY <3>2
    <3> QED
      BY <1>6, <3>1, <3>2 DEF CancelConnect, EndSession, disconnect
  <2>5. status[m] \in {"connecting", "serving", "failed"}
    BY <2>1, StatusCases
  <2> QED
    BY <2>1, <2>3, <2>4, <2>5 DEF Contract!End
<1>7. ASSUME NEW m \in Managers, NewSession(m) PROVE Contract!Renew(m)
  <2>1. StatusOf(m)' = "new"
    BY <1>7 DEF NewSession, StatusOf
  <2>2. status' = [status EXCEPT ![m] = "new"]
    BY <1>7, <2>1, StatusStep DEF NewSession
  <2> QED
    BY <1>7, <2>2, StatusCases DEF NewSession, Contract!Renew
<1>8. ASSUME NEW m \in Managers, SocketDropped(m) \/ LossNoticed(m) PROVE Contract!Lose(m)
  <2>1. connected[m] /\ Lose(m)
    BY <1>8 DEF SocketDropped, LossNoticed
  <2>2. status' = status
    BY <2>1 DEF Lose, status, StatusOf
  <2> QED
    BY <2>1, <2>2 DEF Lose, Contract!Lose
<1>9. ASSUME UNCHANGED sessionVars PROVE UNCHANGED Contract!vars
  BY <1>9, Stutter
<1>10. (Environment \/ UNCHANGED vars) => UNCHANGED sessionVars
  BY DEF vars, Environment, GatewayDown, GatewayUp, GatewayDrops, ForeignConnects,
         ForeignLeaves
<1> QED
  BY <1>1, <1>2, <1>3, <1>4, <1>5, <1>6, <1>7, <1>8, <1>9, <1>10
     DEF Next, Session, AttemptReturns, ContractStep, Contract!Next

\* ConnectionManager implements its contract: an account and a connection
\* appear together, at most once per session, and the client id and account
\* the tools see never change under them (connection.py, connect and
\* disconnect; server.py, build_lifespan).
THEOREM Refinement == Spec => ImplementsSession
<1>1. Init => Contract!Init
  <2>1. Init => status = [m \in Managers |-> "new"]
    BY DEF Init, status, StatusOf
  <2> QED
    BY <2>1 DEF Init, Contract!Init
<1>2. Init => TypeOK /\ NothingBeforeReturn
  BY InitType DEF Init, NothingBeforeReturn
<1>3. TypeOK /\ NothingBeforeReturn /\ [Next]_vars => TypeOK' /\ NothingBeforeReturn'
  BY TypeStep, NothingBeforeReturnStep
<1>4. TypeOK /\ NothingBeforeReturn /\ [Next]_vars => [Contract!Next]_(Contract!vars)
  BY <1>3, StepImplements DEF ContractStep
<1> QED
  BY <1>1, <1>2, <1>3, <1>4, PTL DEF Spec, ImplementsSession, Contract!Spec

=============================================================================
