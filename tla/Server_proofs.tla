----------------------------- MODULE Server_proofs -----------------------------
(***************************************************************************)
(* What holds of the server processes, one after the other, for any number *)
(* of sessions, of client ids and of attempts and every set of faults: the *)
(* invariants of ConnectionManager survive the end of a process and the    *)
(* next start, and probe and sessions leave no connection behind.          *)
(***************************************************************************)
EXTENDS Server, ConnectionManager_proofs

USE SessionsAssumption, ClientIdAssumption, AccountAssumption, ProbeAssumption

\* A successful connect() has recorded a client id.
NamesItsId == \A m \in Managers : result[m] = "true" => client_id[m] \in ClientIds

\* The probe is over before the server serves, and an ended process has no
\* socket.
EndedInOrder ==
  /\ stage # "probing" => phase[Probe] = "closed"
  /\ stage = "exited" =>
       \A m \in Managers : ~connected[m] /\ \A c \in ClientIds : slot[c] # m

SInv == IInv /\ ServerTypeOK /\ NamesItsId /\ EndedInOrder

-----------------------------------------------------------------------------
(* The steps of a process are steps of its managers, its end and its start *)
(* are not.                                                                *)

LEMMA ProcessSteps ==
  ASSUME [ServerNext]_serverVars
  PROVE  [Next]_vars \/ CloseSockets \/ Restart
<1>1. CASE ProbeConnects
  BY <1>1 DEF ProbeConnects, Next, Session
<1>2. CASE ProbeEnds
  BY <1>2 DEF ProbeEnds, HangUpProbe, Next, Session
<1>3. ASSUME NEW m \in Sessions, Serve(m) PROVE [Next]_vars
  BY <1>3 DEF Sessions, Serve, Connecting, Next, Session
<1>4. ASSUME NEW m \in Sessions, StopSession(m) PROVE [Next]_vars
  BY <1>4 DEF Sessions, StopSession, EndOneSession, Next, Session
<1>5. CASE Outside
  BY <1>5 DEF Outside, Next, Session
<1> QED
  BY <1>1, <1>2, <1>3, <1>4, <1>5 DEF ServerNext, Stop, Exit, Die, serverVars

\* The end of a process leaves no connection and no registration.
LEMMA CloseSocketsEffect ==
  ASSUME IInv, CloseSockets
  PROVE  /\ IInv'
         /\ \A m \in Managers : ~connected'[m] /\ \A c \in ClientIds : slot'[c] # m
<1>1. \A m \in Managers : ~connected'[m] /\ \A c \in ClientIds : slot'[c] # m
  BY DEF IInv, TypeOK, CloseSockets, Freed
<1>2. TypeOK'
  BY DEF IInv, TypeOK, CloseSockets, Freed, Phases
<1> QED
  BY <1>1, <1>2 DEF IInv, ConnectedOnlyAfterConnect, RegisteredUnderReportedId,
                    ServedAccount, NoStrayConnection

\* The next process starts against what the last one has left.
LEMMA RestartEffect ==
  ASSUME IInv, EndedInOrder, Restart
  PROVE  IInv'
<1>1. \A m \in Managers : ~connected'[m] /\ \A c \in ClientIds : slot'[c] # m
  BY DEF IInv, TypeOK, EndedInOrder, Restart, environmentVars
<1>2. TypeOK'
  BY DEF IInv, TypeOK, Restart, environmentVars, Phases
<1> QED
  BY <1>1, <1>2 DEF IInv, ConnectedOnlyAfterConnect, RegisteredUnderReportedId,
                    ServedAccount, NoStrayConnection

\* No step of the managers gives a successful connect() no client id.
LEMMA NamesItsIdStep ==
  ASSUME TypeOK, NamesItsId, [Next]_vars
  PROVE  NamesItsId'
<1> USE DEF TypeOK, NamesItsId
<1>1. ASSUME NEW m \in Managers, AttemptSucceeds(m) PROVE NamesItsId'
  <2>1. client_id' = [client_id EXCEPT ![m] = Candidate(m)]
    BY <1>1 DEF AttemptSucceeds, RecordClientId
  <2>2. \A n \in Managers \ {m} : result'[n] = result[n]
    BY <1>1 DEF AttemptSucceeds, RejectAccount, AcceptAccount, Return
  <2> QED
    BY <2>1, <2>2, CandidateType
<1>2. ASSUME NEW m \in Managers, AttemptRefused(m) \/ AttemptFails(m) PROVE NamesItsId'
  <2>1. UNCHANGED client_id
    BY <1>2 DEF AttemptRefused, AttemptFails
  <2>2. \A n \in Managers : result'[n] = "true" => result[n] = "true"
    BY <1>2 DEF AttemptRefused, AttemptFails, Return
  <2> QED
    BY <2>1, <2>2
<1>3. ASSUME NEW m \in Managers, NewSession(m) PROVE NamesItsId'
  BY <1>3 DEF NewSession
<1>4. ASSUME UNCHANGED << client_id, result >> PROVE NamesItsId'
  BY <1>4
<1> QED
  BY <1>1, <1>2, <1>3, <1>4
     DEF Next, Session, AttemptReturns, StartConnect, GatewayAccepts, CancelConnect,
         EndSession, SocketDropped, LossNoticed, Lose, Environment, GatewayDown, GatewayUp,
         GatewayDrops, ForeignConnects, ForeignLeaves, sessionVars, vars

\* A step of a manager leaves the others as they are.
LEMMA OneManagerMoves ==
  ASSUME TypeOK, NEW m \in Managers, Session(m), NEW n \in Managers \ {m}
  PROVE  /\ phase'[n] = phase[n] /\ attempt'[n] = attempt[n]
         /\ client_id'[n] = client_id[n] /\ account_id'[n] = account_id[n]
         /\ result'[n] = result[n]
<1> USE DEF TypeOK
<1>1. CASE StartConnect(m) \/ GatewayAccepts(m) \/ CancelConnect(m)
  BY <1>1 DEF StartConnect, GatewayAccepts, CancelConnect
<1>2. CASE AttemptSucceeds(m)
  BY <1>2 DEF AttemptSucceeds, RecordClientId, RejectAccount, AcceptAccount, Return
<1>3. CASE AttemptRefused(m) \/ AttemptFails(m)
  BY <1>3 DEF AttemptRefused, AttemptFails, NextId, Return
<1>4. CASE EndSession(m) \/ NewSession(m) \/ SocketDropped(m) \/ LossNoticed(m)
  BY <1>4 DEF EndSession, NewSession, SocketDropped, LossNoticed, Lose
<1> QED
  BY <1>1, <1>2, <1>3, <1>4 DEF Session, AttemptReturns

\* What happens outside the process moves no session on, and gives the
\* gateway no registration.
LEMMA OutsideEffect ==
  ASSUME TypeOK, Outside
  PROVE  /\ UNCHANGED << phase, attempt, client_id, account_id, result, stage, banner >>
         /\ \A m \in Managers, c \in ClientIds : slot'[c] = m => slot[c] = m
         /\ \A m \in Managers : connected'[m] => connected[m]
<1>1. CASE Environment
  BY <1>1 DEF TypeOK, Outside, Environment, GatewayDown, GatewayUp, GatewayDrops,
              ForeignConnects, ForeignLeaves, sessionVars
<1>2. CASE SocketDropped(Probe) \/ LossNoticed(Probe)
  <2>1. \A m \in Managers, c \in ClientIds : slot'[c] = m => slot[c] = m
    BY <1>2, ReleaseEffect DEF SocketDropped, LossNoticed
  <2> QED
    BY <1>2, <2>1 DEF TypeOK, Outside, SocketDropped, LossNoticed, Lose
<1> QED
  BY <1>1, <1>2 DEF Outside

\* A session at work is not the probe, and the probe stays where it is.
LEMMA ProbeRests ==
  ASSUME TypeOK, NEW m \in Sessions, Serve(m) \/ StopSession(m)
  PROVE  /\ phase'[Probe] = phase[Probe]
         /\ stage \in {"serving", "stopping"} /\ UNCHANGED << stage, banner >>
<1>1. Session(m) /\ m \in Managers /\ Probe \in Managers \ {m}
  BY DEF Sessions, Serve, Connecting, StopSession, EndOneSession, Session
<1> QED
  BY <1>1, OneManagerMoves DEF Serve, StopSession

LEMMA EndedInOrderStep ==
  ASSUME IInv, EndedInOrder, [ServerNext]_serverVars
  PROVE  EndedInOrder'
<1> USE DEF IInv, EndedInOrder
<1>1. CASE ProbeConnects
  BY <1>1 DEF ProbeConnects
<1>2. CASE ProbeEnds
  BY <1>2 DEF ProbeEnds, HangUpProbe, EndSession, TypeOK
<1>3. ASSUME NEW m \in Sessions, Serve(m) \/ StopSession(m) PROVE EndedInOrder'
  BY <1>3, ProbeRests
<1>4. CASE Stop
  BY <1>4 DEF Stop, vars
<1>5. CASE CloseSockets
  BY <1>5, CloseSocketsEffect DEF CloseSockets
<1>6. CASE Restart
  BY <1>6 DEF Restart
<1>7. CASE Outside
  BY <1>7, OutsideEffect
<1>8. CASE UNCHANGED serverVars
  BY <1>8 DEF serverVars, vars
<1> QED
  BY <1>1, <1>2, <1>3, <1>4, <1>5, <1>6, <1>7, <1>8 DEF ServerNext, Exit, Die

\* What the banner says is an account and a client id, the latter exactly
\* with a connection.
LEMMA BannerType ==
  ASSUME TypeOK, NamesItsId
  PROVE  /\ Banner.connected \in BOOLEAN /\ Banner.account \in Accounts \cup {None}
         /\ Banner.client_id \in ClientIds \cup {None}
         /\ (Banner.connected <=> Banner.client_id # None)
BY DEF TypeOK, NamesItsId, Banner

LEMMA ServerTypeStep ==
  ASSUME TypeOK', TypeOK, ServerTypeOK, NamesItsId, [ServerNext]_serverVars
  PROVE  ServerTypeOK'
<1> USE DEF ServerTypeOK
<1>1. CASE ProbeEnds
  BY <1>1, BannerType DEF ProbeEnds
<1>2. CASE Restart
  BY <1>2 DEF Restart
<1>3. ASSUME UNCHANGED banner,
             stage' \in {"probing", "serving", "stopping", "exited"},
             undisturbed' \in BOOLEAN
      PROVE  ServerTypeOK'
  BY <1>3
<1> QED
  BY <1>1, <1>2, <1>3
     DEF ServerNext, ProbeConnects, Serve, StopSession, Stop, Exit, Die, CloseSockets,
         Outside, serverVars

-----------------------------------------------------------------------------

LEMMA ServerInductive == ServerSpec => []SInv
<1>1. ServerInit => SInv
  <2> SUFFICES ASSUME ServerInit PROVE SInv
    OBVIOUS
  <2>1. Init /\ stage = "probing" /\ banner = None /\ undisturbed = TRUE
    BY DEF ServerInit
  <2>2. TypeOK
    BY <2>1, InitType
  <2>3. \A m \in Managers : ~connected[m] /\ \A c \in ClientIds : slot[c] # m
    BY <2>1 DEF Init
  <2>4. IInv
    BY <2>2, <2>3 DEF IInv, ConnectedOnlyAfterConnect, RegisteredUnderReportedId,
                      ServedAccount, NoStrayConnection
  <2>5. NamesItsId
    BY <2>1 DEF Init, NamesItsId
  <2> QED
    BY <2>1, <2>2, <2>4, <2>5 DEF SInv, ServerTypeOK, EndedInOrder
<1>2. SInv /\ [ServerNext]_serverVars => SInv'
  <2> SUFFICES ASSUME SInv, [ServerNext]_serverVars PROVE SInv'
    OBVIOUS
  <2> USE DEF SInv
  <2>1. IInv'
    BY ProcessSteps, SafetyStep, CloseSocketsEffect, RestartEffect
  <2>2. NamesItsId'
    <3>1. CASE CloseSockets
      BY <3>1 DEF CloseSockets, NamesItsId
    <3>2. CASE Restart
      BY <3>2 DEF Restart, NamesItsId
    <3> QED
      BY <3>1, <3>2, ProcessSteps, NamesItsIdStep DEF IInv
  <2>3. EndedInOrder'
    BY EndedInOrderStep
  <2>4. ServerTypeOK'
    BY <2>1, ServerTypeStep DEF IInv
  <2> QED
    BY <2>1, <2>2, <2>3, <2>4
<1> QED
  BY <1>1, <1>2, PTL DEF ServerSpec

\* Every variable keeps its type, from one process to the next; a banner
\* that names a client id tells of a connection (__main__.py, lines 60-124).
THEOREM ServerTypeCorrect == ServerSpec => []ServerTypeOK
BY ServerInductive, PTL DEF SInv

\* However many processes have ended, at whatever point, what the gateway has
\* registered for a manager is what that manager of the running process
\* reports, and it serves only the right account (connection.py, lines 82-169,
\* under __main__.py).
THEOREM SafeAcrossRestarts ==
  ServerSpec => [](RegisteredUnderReportedId /\ ServedAccount /\ NoStrayConnection)
BY ServerInductive, PTL DEF SInv, IInv

\* The probe has hung up and left no client id behind before the first
\* session is served (__main__.py, lines 100-106).
THEOREM ProbeIsGone == ServerSpec => []ProbeGone
<1>1. SInv => ProbeGone
  <2> SUFFICES ASSUME SInv, stage \in {"serving", "stopping"}, ~unclosed[Probe]
               PROVE  ~connected[Probe] /\ \A c \in ClientIds : slot[c] # Probe
    BY DEF ProbeGone
  <2>1. phase[Probe] = "closed"
    BY DEF SInv, EndedInOrder
  <2>2. ~connected[Probe]
    BY <2>1 DEF SInv, IInv, NoStrayConnection
  <2> QED
    BY <2>1, <2>2 DEF SInv, IInv, RegisteredUnderReportedId
<1> QED
  BY <1>1, ServerInductive, PTL

\* When the last session is over nothing is connected and no client id is
\* taken any more, unless ib.disconnect() failed (__main__.py, lines 113-124).
THEOREM StopsClean == ServerSpec => []ExitsClean
<1>1. SInv => ExitsClean
  <2> SUFFICES ASSUME SInv, stage = "stopping",
                      \A m \in Sessions : phase[m] \in {"new", "closed"},
                      NEW m \in Managers, ~unclosed[m]
               PROVE  ~connected[m] /\ \A c \in ClientIds : slot[c] # m
    BY DEF ExitsClean
  <2>1. phase[m] \in {"new", "closed"}
    BY DEF SInv, EndedInOrder, Sessions
  <2>2. ~connected[m]
    BY <2>1 DEF SInv, IInv, NoStrayConnection
  <2> QED
    BY <2>1, <2>2 DEF SInv, IInv, RegisteredUnderReportedId
<1> QED
  BY <1>1, ServerInductive, PTL

-----------------------------------------------------------------------------
(* What the banner promises.  The invariant follows the probe, then the    *)
(* first session, through what they find while nothing else happens; that  *)
(* the attempts are answered at all is a hypothesis.                       *)

\* Is the k-th client id that everybody tries there for a session to take?
Available(k) == slot[IB_CLIENT_ID[Probe] + k] \in {None} \cup Sessions

\* The ids that connect() of m has stepped over are taken by others.
SteppedOver(m) == \A k \in 0..(attempt[m] - 1) : slot[IB_CLIENT_ID[m] + k] \notin {None, m}

\* There is a reason for a connect() of m to fail.
NoWay(m) ==
  \/ ~gateway \/ Mismatch(m)
  \/ \A k \in 0..(MaxAttempts - 1) : slot[IB_CLIENT_ID[m] + k] \notin {None, m}

\* What connect() of m has found holds still.
AsItFound(m) ==
  /\ SteppedOver(m)
  /\ phase[m] = "new" => attempt[m] = 0
  /\ phase[m] = "accepted" => gateway /\ slot[Candidate(m)] = m
  /\ phase[m] = "open" => result[m] # "none"
  /\ phase[m] \in {"new", "dialing", "accepted"} => result[m] = "none" /\ account_id[m] = None
  /\ result[m] = "true" =>
       /\ gateway /\ ~Mismatch(m) /\ slot[Candidate(m)] = m
       /\ client_id[m] = Candidate(m) /\ account_id[m] = ResolvedAccount(m)
  /\ result[m] = "false" => account_id[m] = None /\ NoWay(m)

\* What the banner says is what a session would find.
BannerHolds ==
  \/ /\ banner.connected /\ gateway /\ ~Mismatch(Probe)
     /\ banner.account = ResolvedAccount(Probe)
     /\ \E k \in 0..(MaxAttempts - 1) :
          /\ banner.client_id = IB_CLIENT_ID[Probe] + k /\ Available(k)
          /\ \A j \in 0..(k - 1) : ~Available(j)
  \/ /\ ~banner.connected /\ banner.account = None
     /\ ~gateway \/ Mismatch(Probe) \/ \A k \in 0..(MaxAttempts - 1) : ~Available(k)

\* While nothing else happens the probe and then one session are at work, and
\* find what there is to find.
NothingElse ==
  undisturbed /\ stage \in {"probing", "serving"} =>
    /\ \A m \in Sessions : AsItFound(m)
    /\ \A m, n \in Sessions : m # n => phase[m] = "new" \/ phase[n] = "new"
    /\ stage = "probing" => AsItFound(Probe) /\ \A m \in Sessions : phase[m] = "new"
    /\ stage = "serving" => BannerHolds

\* The ids stepped over stay taken if nobody else's registration changes.
LEMMA SteppedOverStep ==
  ASSUME TypeOK, NEW m \in Managers, SteppedOver(m), UNCHANGED attempt,
         \A c \in ClientIds : slot[c] \notin {None, m} => slot'[c] = slot[c]
  PROVE  SteppedOver(m)'
<1> SUFFICES ASSUME NEW k \in 0..(attempt[m] - 1)
             PROVE  slot'[IB_CLIENT_ID[m] + k] \notin {None, m}
  BY DEF SteppedOver
<1>1. IB_CLIENT_ID[m] + k \in ClientIds
  BY DEF TypeOK
<1>2. slot[IB_CLIENT_ID[m] + k] \notin {None, m}
  BY DEF SteppedOver
<1> QED
  BY <1>1, <1>2

\* An attempt that the gateway answers moves connect() of m on to what is
\* there, and changes no registration but its own.
LEMMA AsItFoundStep ==
  ASSUME IInv, {"handshake", "takeover"} \cap Faults = {},
         NEW m \in Managers, AsItFound(m), Connecting(m)
  PROVE  /\ AsItFound(m)'
         /\ UNCHANGED << gateway, login >>
         /\ \A c \in ClientIds : slot[c] \notin {None, m} => slot'[c] = slot[c]
         /\ ~Mismatch(m) =>
              \A c \in ClientIds :
                slot[c] \in {None, m} => slot'[c] \in {None, m}
<1>0. TypeOK
  BY DEF IInv
<1>1. CASE StartConnect(m)
  <2>1. /\ phase[m] = "new" /\ phase'[m] = "dialing"
        /\ UNCHANGED << gateway, login, slot, attempt, account_id, result >>
    BY <1>0, <1>1 DEF StartConnect, environmentVars, TypeOK
  <2>2. SteppedOver(m)'
    BY <1>0, <2>1, SteppedOverStep DEF AsItFound
  <2> QED
    BY <2>1, <2>2 DEF AsItFound
<1>2. CASE GatewayAccepts(m)
  <2>1. /\ phase[m] = "dialing" /\ phase'[m] = "accepted" /\ gateway
        /\ slot[Candidate(m)] = None /\ slot' = [slot EXCEPT ![Candidate(m)] = m]
        /\ UNCHANGED << gateway, login, attempt, account_id, result >>
    BY <1>0, <1>2 DEF GatewayAccepts, Obtainable, TypeOK
  <2>2. Candidate(m)' = Candidate(m) /\ slot'[Candidate(m)] = m
    BY <1>0, <2>1, CandidateType DEF TypeOK, Candidate
  <2>3. \A c \in ClientIds : slot'[c] = IF c = Candidate(m) THEN m ELSE slot[c]
    BY <1>0, <2>1 DEF TypeOK
  <2>4. SteppedOver(m)'
    BY <1>0, <2>1, <2>3, SteppedOverStep DEF AsItFound
  <2>5. AsItFound(m)'
    BY <2>1, <2>2, <2>4 DEF AsItFound
  <2> QED
    BY <2>1, <2>3, <2>5
<1>3. CASE AttemptSucceeds(m)
  <2>1. /\ phase[m] = "accepted" /\ gateway /\ slot[Candidate(m)] = m
        /\ client_id'[m] = Candidate(m)
        /\ UNCHANGED << gateway, login, attempt >>
    BY <1>0, <1>3 DEF AttemptSucceeds, RecordClientId, AsItFound, TypeOK
  <2>2. CASE Mismatch(m) /\ RejectAccount(m)
    <3>1. phase'[m] = "open" /\ result'[m] = "false" /\ account_id'[m] = None
      BY <1>0, <2>2 DEF RejectAccount, Return, TypeOK
    <3>2. \A c \in ClientIds : slot[c] # m => slot'[c] = slot[c]
      BY <1>0, <2>2 DEF RejectAccount, HangUp, Release, TypeOK
    <3>3. NoWay(m)'
      BY <2>1, <2>2 DEF Mismatch, NoWay
    <3>4. SteppedOver(m)'
      BY <1>0, <2>1, <3>2, SteppedOverStep DEF AsItFound
    <3> QED
      BY <2>1, <2>2, <3>1, <3>2, <3>3, <3>4 DEF AsItFound
  <2>3. CASE ~Mismatch(m) /\ AcceptAccount(m)
    <3>1. /\ phase'[m] = "open" /\ result'[m] = "true"
          /\ account_id'[m] = ResolvedAccount(m) /\ slot' = slot
      BY <1>0, <2>3 DEF AcceptAccount, Return, TypeOK
    <3>2. /\ ~Mismatch(m)' /\ ResolvedAccount(m)' = ResolvedAccount(m)
          /\ Candidate(m)' = Candidate(m)
      BY <2>1, <2>3 DEF Mismatch, ResolvedAccount, Candidate
    <3>3. SteppedOver(m)'
      BY <1>0, <2>1, <3>1, SteppedOverStep DEF AsItFound
    <3> QED
      BY <2>1, <3>1, <3>2, <3>3 DEF AsItFound
  <2> QED
    BY <1>3, <2>2, <2>3 DEF AttemptSucceeds
<1>4. CASE AttemptRefused(m)
  <2>1. /\ phase'[m] = "open" /\ result'[m] = "false" /\ phase[m] = "dialing" /\ ~gateway
        /\ UNCHANGED << gateway, login, slot, attempt, account_id >>
    BY <1>0, <1>4 DEF AttemptRefused, Return, environmentVars, TypeOK
  <2>2. SteppedOver(m)' /\ NoWay(m)'
    BY <1>0, <2>1, SteppedOverStep DEF AsItFound, NoWay
  <2> QED
    BY <2>1, <2>2 DEF AsItFound
<1>5. CASE AttemptFails(m)
  <2>1. /\ phase[m] = "dialing" /\ slot[Candidate(m)] # None
        /\ UNCHANGED << gateway, login, account_id >>
    BY <1>5 DEF AttemptFails, AsItFound
  <2>2. \A c \in ClientIds : slot[c] # m
    BY <2>1 DEF IInv, RegisteredUnderReportedId
  <2>3. slot' = slot
    BY <1>0, <1>5, <2>2 DEF AttemptFails, Release, TypeOK
  <2>4. \A k \in 0..attempt[m] : slot[IB_CLIENT_ID[m] + k] \notin {None, m}
    <3> SUFFICES ASSUME NEW k \in 0..attempt[m]
                 PROVE  slot[IB_CLIENT_ID[m] + k] \notin {None, m}
      OBVIOUS
    <3>1. attempt[m] \in 0..(MaxAttempts - 1) /\ IB_CLIENT_ID[m] + k \in ClientIds
      BY <1>0 DEF TypeOK
    <3>2. CASE k = attempt[m]
      BY <2>1, <2>2, <3>1, <3>2 DEF Candidate
    <3>3. CASE k \in 0..(attempt[m] - 1)
      BY <3>3 DEF AsItFound, SteppedOver
    <3> QED
      BY <3>1, <3>2, <3>3
  <2>5. CASE LastAttempt(m) /\ Return(m, "false") /\ UNCHANGED attempt
    <3>1. phase'[m] = "open" /\ result'[m] = "false" /\ attempt[m] = MaxAttempts - 1
      BY <1>0, <2>5 DEF Return, LastAttempt, TypeOK
    <3>2. NoWay(m)'
      BY <2>3, <2>4, <3>1 DEF NoWay
    <3>3. SteppedOver(m)'
      BY <2>3, <2>5 DEF AsItFound, SteppedOver
    <3> QED
      BY <2>1, <2>3, <3>1, <3>2, <3>3 DEF AsItFound
  <2>6. CASE ~LastAttempt(m) /\ NextId(m) /\ phase' = [phase EXCEPT ![m] = "dialing"]
             /\ UNCHANGED result
    <3>1. attempt'[m] = attempt[m] + 1 /\ phase'[m] = "dialing" /\ attempt[m] \in Nat
      BY <1>0, <2>6 DEF NextId, TypeOK
    <3>2. SteppedOver(m)'
      BY <2>3, <2>4, <3>1 DEF SteppedOver
    <3> QED
      BY <2>1, <2>3, <2>6, <3>1, <3>2 DEF AsItFound
  <2> QED
    BY <1>5, <2>5, <2>6 DEF AttemptFails
<1> QED
  BY <1>1, <1>2, <1>3, <1>4, <1>5 DEF Connecting, AttemptReturns

\* A session that has not begun has found nothing yet, whatever others do.
LEMMA NotBegun ==
  ASSUME TypeOK, NEW n \in Managers, phase[n] = "new", AsItFound(n),
         NEW m \in Managers \ {n}, Session(m)
  PROVE  phase'[n] = "new" /\ AsItFound(n)'
<1>1. /\ phase'[n] = "new" /\ attempt'[n] = 0 /\ result'[n] = "none"
      /\ account_id'[n] = None
  BY OneManagerMoves DEF AsItFound
<1> QED
  BY <1>1 DEF AsItFound, SteppedOver

\* All are configured alike: what is wrong for one account is for all.
LEMMA ConfiguredAlike ==
  ASSUME NEW m \in Managers
  PROVE  /\ IB_CLIENT_ID[m] = IB_CLIENT_ID[Probe]
         /\ Mismatch(m) <=> Mismatch(Probe)
         /\ ResolvedAccount(m) = ResolvedAccount(Probe)
BY DEF Mismatch, ResolvedAccount

\* The banner is printed: the probe's id is there for a session if the
\* gateway has let it go, and the ids before it are not.
LEMMA BannerPrinted ==
  ASSUME SInv, NothingElse, ProbeEnds, undisturbed'
  PROVE  BannerHolds'
<1>1. /\ AsItFound(Probe) /\ phase[Probe] = "open"
      /\ \A m \in Sessions : phase[m] = "new"
      /\ result[Probe] = "true" => slot'[client_id[Probe]] = None
      /\ EndSession(Probe) /\ banner' = Banner
  BY DEF NothingElse, ProbeEnds, HangUpProbe
<1>2. TypeOK
  BY DEF SInv, IInv
<1>3. /\ UNCHANGED << gateway, login >>
      /\ \A c \in ClientIds : slot[c] \notin {None, Probe} => slot'[c] = slot[c]
  BY <1>1, <1>2 DEF EndSession, disconnect, Release, TypeOK
<1>4. \A c \in ClientIds : slot[c] \notin Sessions
  BY <1>1 DEF SInv, IInv, RegisteredUnderReportedId, Sessions
<1>5. ASSUME NEW k \in 0..(MaxAttempts - 1), slot[IB_CLIENT_ID[Probe] + k] \notin {None, Probe}
      PROVE  ~Available(k)'
  <2>1. IB_CLIENT_ID[Probe] + k \in ClientIds
    OBVIOUS
  <2> QED
    BY <1>3, <1>4, <1>5, <2>1 DEF Available
<1>6. CASE result[Probe] = "true"
  <2>1. /\ gateway /\ ~Mismatch(Probe) /\ SteppedOver(Probe)
        /\ client_id[Probe] = IB_CLIENT_ID[Probe] + attempt[Probe]
        /\ account_id[Probe] = ResolvedAccount(Probe)
    BY <1>1, <1>6 DEF AsItFound, Candidate
  <2>2. PICK k \in 0..(MaxAttempts - 1) : k = attempt[Probe]
    BY <1>2 DEF TypeOK
  <2>3. Available(k)'
    BY <1>1, <1>6, <2>1, <2>2 DEF Available
  <2>4. ASSUME NEW j \in 0..(k - 1) PROVE ~Available(j)'
    <3>1. j \in 0..(MaxAttempts - 1) /\ slot[IB_CLIENT_ID[Probe] + j] \notin {None, Probe}
      BY <2>1, <2>2 DEF SteppedOver
    <3> QED
      BY <1>5, <3>1
  <2>5. /\ banner'.connected /\ banner'.account = ResolvedAccount(Probe)
        /\ banner'.client_id = IB_CLIENT_ID[Probe] + k
    BY <1>1, <1>6, <2>1, <2>2 DEF Banner
  <2>6. ~Mismatch(Probe)' /\ ResolvedAccount(Probe)' = ResolvedAccount(Probe)
    BY <1>3, <2>1 DEF Mismatch, ResolvedAccount
  <2> QED
    BY <1>3, <2>1, <2>3, <2>4, <2>5, <2>6 DEF BannerHolds
<1>7. CASE result[Probe] = "false"
  <2>1. account_id[Probe] = None /\ NoWay(Probe)
    BY <1>1, <1>7 DEF AsItFound
  <2>2. ~banner'.connected /\ banner'.account = None
    BY <1>1, <1>7, <2>1 DEF Banner
  <2>3. Mismatch(Probe)' <=> Mismatch(Probe)
    BY <1>3 DEF Mismatch
  <2>4. ~gateway' \/ Mismatch(Probe)' \/ \A k \in 0..(MaxAttempts - 1) : ~Available(k)'
    BY <1>3, <1>5, <2>1, <2>3 DEF NoWay
  <2> QED
    BY <2>2, <2>4 DEF BannerHolds
<1> QED
  BY <1>1, <1>2, <1>6, <1>7 DEF AsItFound, TypeOK

\* The first session takes nothing from what the banner promises: it only
\* moves towards it.
LEMMA BannerKept ==
  ASSUME SInv, {"handshake", "takeover"} \cap Faults = {}, BannerHolds, UNCHANGED banner,
         NEW m \in Sessions, AsItFound(m), Connecting(m)
  PROVE  BannerHolds'
<1> m \in Managers
  BY DEF Sessions
<1>1. /\ UNCHANGED << gateway, login >>
      /\ \A c \in ClientIds : slot[c] \notin {None, m} => slot'[c] = slot[c]
      /\ ~Mismatch(m) => \A c \in ClientIds : slot[c] \in {None, m} => slot'[c] \in {None, m}
  BY AsItFoundStep DEF SInv
<1>2. /\ Mismatch(Probe)' <=> Mismatch(Probe)
      /\ ResolvedAccount(Probe)' = ResolvedAccount(Probe)
  BY <1>1 DEF Mismatch, ResolvedAccount
<1>3. CASE Mismatch(Probe)
  BY <1>1, <1>2, <1>3 DEF BannerHolds
<1>4. CASE ~Mismatch(Probe)
  <2>1. ASSUME NEW k \in 0..(MaxAttempts - 1) PROVE Available(k)' <=> Available(k)
    <3>1. IB_CLIENT_ID[Probe] + k \in ClientIds
      OBVIOUS
    <3> QED
      BY <1>1, <1>4, <3>1, ConfiguredAlike DEF Available, Sessions
  <2>2. CASE banner.connected
    <3>1. PICK k \in 0..(MaxAttempts - 1) :
            /\ banner.client_id = IB_CLIENT_ID[Probe] + k /\ Available(k)
            /\ \A j \in 0..(k - 1) : ~Available(j)
      BY <2>2 DEF BannerHolds
    <3>2. Available(k)' /\ \A j \in 0..(k - 1) : ~Available(j)'
      BY <2>1, <3>1
    <3> QED
      BY <1>1, <1>2, <2>2, <3>1, <3>2 DEF BannerHolds
  <2>3. CASE ~banner.connected
    BY <1>1, <1>2, <2>1, <2>3 DEF BannerHolds
  <2> QED
    BY <2>2, <2>3
<1> QED
  BY <1>3, <1>4

LEMMA NothingElseStep ==
  ASSUME SInv, NothingElse, {"handshake", "takeover"} \cap Faults = {}, [ServerNext]_serverVars
  PROVE  NothingElse'
<1>0. IInv /\ TypeOK
  BY DEF SInv, IInv
<1>1. CASE ProbeConnects
  <2> SUFFICES ASSUME undisturbed' PROVE NothingElse'
    BY DEF NothingElse
  <2>1. /\ stage = "probing" /\ stage' = "probing" /\ AsItFound(Probe) /\ Connecting(Probe)
        /\ \A m \in Sessions : AsItFound(m) /\ phase[m] = "new"
    BY <1>1 DEF ProbeConnects, NothingElse, Connecting
  <2>2. AsItFound(Probe)'
    BY <1>0, <2>1, AsItFoundStep
  <2>3. \A m \in Sessions : AsItFound(m)' /\ phase'[m] = "new"
    BY <1>0, <2>1, NotBegun DEF Sessions, Connecting, Session
  <2> QED
    BY <2>1, <2>2, <2>3 DEF NothingElse
<1>2. CASE ProbeEnds
  <2> SUFFICES ASSUME undisturbed' PROVE NothingElse'
    BY DEF NothingElse
  <2>1. /\ stage' = "serving" /\ EndSession(Probe)
        /\ \A m \in Sessions : AsItFound(m) /\ phase[m] = "new"
    BY <1>2 DEF ProbeEnds, HangUpProbe, NothingElse
  <2>2. \A m \in Sessions : AsItFound(m)' /\ phase'[m] = "new"
    BY <1>0, <2>1, NotBegun DEF Sessions, Session
  <2> QED
    BY <1>2, <2>1, <2>2, BannerPrinted DEF NothingElse
<1>3. ASSUME NEW m \in Sessions, Serve(m) PROVE NothingElse'
  <2> SUFFICES ASSUME undisturbed' PROVE NothingElse'
    BY DEF NothingElse
  <2>1. /\ Connecting(m) /\ undisturbed /\ stage = "serving" /\ stage' = "serving"
        /\ \A n \in Sessions \ {m} : phase[n] = "new"
        /\ UNCHANGED banner
    BY <1>3 DEF Serve
  <2>2. BannerHolds /\ \A n \in Sessions : AsItFound(n)
    BY <2>1 DEF NothingElse
  <2>3. AsItFound(m)'
    BY <1>0, <2>1, <2>2, AsItFoundStep DEF Sessions
  <2>4. \A n \in Sessions \ {m} : AsItFound(n)' /\ phase'[n] = "new"
    BY <1>0, <2>1, <2>2, NotBegun DEF Sessions, Connecting, Session
  <2>5. BannerHolds'
    BY <2>1, <2>2, BannerKept
  <2> QED
    BY <2>1, <2>3, <2>4, <2>5 DEF NothingElse
<1>4. CASE Restart
  <2>1. \A m \in Managers :
          /\ phase'[m] = "new" /\ attempt'[m] = 0 /\ result'[m] = "none"
          /\ account_id'[m] = None
    BY <1>4 DEF Restart
  <2>2. \A m \in Managers : AsItFound(m)'
    BY <2>1 DEF AsItFound, SteppedOver
  <2> QED
    BY <1>4, <2>1, <2>2 DEF NothingElse, Restart, Sessions
<1>5. CASE UNCHANGED serverVars
  BY <1>5 DEF serverVars, vars, NothingElse, AsItFound, SteppedOver, NoWay, Mismatch,
              Candidate, ResolvedAccount, BannerHolds, Available
<1>6. ASSUME stage' \in {"stopping", "exited"} \/ ~undisturbed' PROVE NothingElse'
  BY <1>6 DEF NothingElse
<1> QED
  BY <1>1, <1>2, <1>3, <1>4, <1>5, <1>6
     DEF ServerNext, Stop, Exit, Die, CloseSockets, Outside, StopSession

\* What the first session then finds is what the banner said.
LEMMA BannerIsFound ==
  ASSUME SInv, NothingElse
  PROVE  BannerTellsTheSession
<1> SUFFICES ASSUME NEW m \in Sessions, undisturbed, stage = "serving", result[m] # "none"
             PROVE  /\ banner.connected <=> result[m] = "true"
                    /\ banner.connected => banner.client_id = client_id[m]
                    /\ banner.account = account_id[m]
  BY DEF BannerTellsTheSession
<1> m \in Managers
  BY DEF Sessions
<1>1. /\ AsItFound(m) /\ BannerHolds
      /\ \A n \in Sessions \ {m} : phase[n] = "new"
  BY DEF NothingElse, AsItFound
<1>2. TypeOK
  BY DEF SInv, IInv
<1>3. \A c \in ClientIds : slot[c] \in Sessions => slot[c] = m
  BY <1>1 DEF SInv, IInv, RegisteredUnderReportedId, Sessions
<1>4. \A k \in 0..(MaxAttempts - 1) :
        Available(k) <=> slot[IB_CLIENT_ID[m] + k] \in {None, m}
  <2> SUFFICES ASSUME NEW k \in 0..(MaxAttempts - 1)
               PROVE  Available(k) <=> slot[IB_CLIENT_ID[m] + k] \in {None, m}
    OBVIOUS
  <2>1. IB_CLIENT_ID[m] + k \in ClientIds
    OBVIOUS
  <2> QED
    BY <1>3, <2>1, ConfiguredAlike DEF Available
<1>5. CASE result[m] = "true"
  <2>1. /\ gateway /\ ~Mismatch(Probe) /\ SteppedOver(m)
        /\ slot[IB_CLIENT_ID[m] + attempt[m]] = m
        /\ client_id[m] = IB_CLIENT_ID[m] + attempt[m]
        /\ account_id[m] = ResolvedAccount(Probe)
    BY <1>1, <1>5, ConfiguredAlike DEF AsItFound, Candidate
  <2>2. attempt[m] \in 0..(MaxAttempts - 1) /\ Available(attempt[m])
    BY <1>2, <1>4, <2>1 DEF TypeOK
  <2>3. banner.connected /\ banner.account = account_id[m]
    BY <1>1, <2>1, <2>2 DEF BannerHolds
  <2>4. PICK k \in 0..(MaxAttempts - 1) :
          /\ banner.client_id = IB_CLIENT_ID[m] + k /\ Available(k)
          /\ \A j \in 0..(k - 1) : ~Available(j)
    BY <1>1, <2>3, ConfiguredAlike DEF BannerHolds
  <2>5. ASSUME NEW j \in 0..(attempt[m] - 1) PROVE ~Available(j)
    <3>1. j \in 0..(MaxAttempts - 1) /\ slot[IB_CLIENT_ID[m] + j] \notin {None, m}
      BY <2>1, <2>2 DEF SteppedOver
    <3> QED
      BY <1>4, <3>1
  <2>6. k = attempt[m]
    BY <2>2, <2>4, <2>5
  <2> QED
    BY <1>5, <2>1, <2>3, <2>4, <2>6
<1>6. CASE result[m] = "false"
  <2>1. account_id[m] = None /\ NoWay(m)
    BY <1>1, <1>6 DEF AsItFound
  <2>2. ~gateway \/ Mismatch(Probe) \/ \A k \in 0..(MaxAttempts - 1) : ~Available(k)
    BY <1>4, <2>1, ConfiguredAlike DEF NoWay
  <2>3. ~banner.connected /\ banner.account = None
    BY <1>1, <2>2 DEF BannerHolds
  <2> QED
    BY <1>6, <2>1, <2>3
<1> QED
  BY <1>2, <1>5, <1>6 DEF TypeOK

\* The banner tells connection, client id and account of the first session,
\* if nothing else happens and the gateway answers every attempt and refuses
\* the ids in use, for any number of ids taken by others (__main__.py, lines
\* 91-109).
THEOREM BannerIsTrue ==
  ASSUME {"handshake", "takeover"} \cap Faults = {}
  PROVE  ServerSpec => []BannerTellsTheSession
<1>1. ServerInit => NothingElse
  <2> SUFFICES ASSUME ServerInit PROVE NothingElse
    OBVIOUS
  <2>1. \A m \in Managers :
          phase[m] = "new" /\ attempt[m] = 0 /\ result[m] = "none" /\ account_id[m] = None
    BY DEF ServerInit, Init
  <2>2. \A m \in Managers : AsItFound(m)
    BY <2>1 DEF AsItFound, SteppedOver
  <2> QED
    BY <2>1, <2>2 DEF NothingElse, ServerInit, Sessions
<1>2. SInv /\ NothingElse /\ [ServerNext]_serverVars => NothingElse'
  BY NothingElseStep
<1>3. SInv /\ NothingElse => BannerTellsTheSession
  BY BannerIsFound
<1> QED
  BY <1>1, <1>2, <1>3, ServerInductive, PTL DEF ServerSpec

=============================================================================
