-------------------------------- MODULE Server --------------------------------
(***************************************************************************)
(* One server process after the other against one gateway (__main__.py):   *)
(* the probe that the banner is made of, the sessions that are served, the *)
(* signals that end the process, and the next process.                     *)
(*                                                                         *)
(* The probe and the sessions are the managers of ConnectionManager, all   *)
(* configured by the same settings.  Between two suspensions of connect()  *)
(* nothing else of the process runs; a signal that kills may strike at any *)
(* time, and the system then closes the sockets of the process.            *)
(***************************************************************************)
EXTENDS ConnectionManager

CONSTANT Probe  \* the manager of _probe; the others belong to the sessions

ASSUME ProbeAssumption ==
  /\ Probe \in Managers
  /\ \A m \in Managers :
       IB_CLIENT_ID[m] = IB_CLIENT_ID[Probe] /\ IB_ACCOUNT[m] = IB_ACCOUNT[Probe]

VARIABLES
  stage,       \* "probing", "serving", "stopping" or "exited"
  banner,      \* what the banner says, None before it is printed
  undisturbed  \* since the process started, has nothing happened but that the
               \* probe and then the first session connect? (history)

serverVars == << vars, stage, banner, undisturbed >>

Sessions == Managers \ {Probe}

-----------------------------------------------------------------------------
(* The process.                                                            *)

\* asyncio.run(_probe()): connect() is awaited.
ProbeConnects ==
  /\ stage = "probing"
  /\ StartConnect(Probe) \/ GatewayAccepts(Probe) \/ AttemptReturns(Probe)
  /\ UNCHANGED << stage, banner, undisturbed >>

\* Slip: the banner names the last client id that was tried.
BannerOfLastAttempt ==
  [connected |-> result[Probe] = "true", account |-> account_id[Probe],
   client_id |-> Candidate(Probe)]
\* Slip: the banner names the configured client id.
ConfiguredBanner ==
  [connected |-> result[Probe] = "true", account |-> account_id[Probe],
   client_id |-> IF result[Probe] = "true" THEN IB_CLIENT_ID[Probe] ELSE None]
\* _print_banner: a client id is named only with a connection.
Banner ==
  [connected |-> result[Probe] = "true", account |-> account_id[Probe],
   client_id |-> IF result[Probe] = "true" THEN client_id[Probe] ELSE None]

\* Slip: the probe does not disconnect.
KeepProbe == EndWithoutDisconnect(Probe)
HangUpProbe == EndSession(Probe)

\* Slip: without a gateway the server does not start.
OnlyConnected == result[Probe] = "true"
MayServe == TRUE

\* What the probe found is read, the probe disconnects, the banner is printed,
\* the handler of SIGTERM is installed and mcp.run starts.
ProbeEnds ==
  /\ stage = "probing" /\ phase[Probe] = "open"
  /\ MayServe
  /\ HangUpProbe
  /\ banner' = Banner
  /\ stage' = "serving"
  /\ undisturbed' =
       (undisturbed /\ (result[Probe] = "true" => slot'[client_id[Probe]] = None))

\* The lifespans of the sessions run: one over stdio, any number over HTTP.
Connecting(m) == StartConnect(m) \/ GatewayAccepts(m) \/ AttemptReturns(m)
Serve(m) ==
  /\ stage = "serving"
  /\ \/ /\ Connecting(m)
        /\ undisturbed' = (undisturbed /\ \A n \in Sessions \ {m} : phase[n] = "new")
     \/ /\ \/ CancelConnect(m) \/ EndSession(m) \/ NewSession(m)
           \/ SocketDropped(m) \/ LossNoticed(m)
        /\ undisturbed' = FALSE
  /\ UNCHANGED << stage, banner >>

\* SIGTERM raises KeyboardInterrupt, or the client closes stdin: mcp.run ends.
Stop ==
  /\ stage = "serving"
  /\ stage' = "stopping"
  /\ UNCHANGED << vars, banner, undisturbed >>

\* Slip: an open session is only abandoned.
AbandonSession(m) == CancelConnect(m) \/ EndWithoutDisconnect(m)
\* The event loop cancels the sessions that are left.
EndOneSession(m) == CancelConnect(m) \/ EndSession(m)
StopSession(m) ==
  /\ stage = "stopping"
  /\ EndOneSession(m)
  /\ UNCHANGED << stage, banner, undisturbed >>

\* The sockets of an ended process are closed: the gateway gives up what it
\* had registered for them.
CloseSockets ==
  /\ \E left \in Freed :
       slot' = [c \in ClientIds |-> IF slot[c] \in Managers THEN left ELSE slot[c]]
  /\ connected' = [m \in Managers |-> FALSE]
  /\ phase' = [m \in Managers |-> "closed"]
  /\ stage' = "exited"
  /\ UNCHANGED << gateway, login, attempt, client_id, account_id, managed, unclosed,
                  result, banner, undisturbed >>

\* sys.exit(0), once no session is left.
Exit ==
  /\ stage = "stopping"
  /\ \A m \in Sessions : phase[m] \in {"new", "closed"}
  /\ CloseSockets

\* The process is killed.  SIGTERM does so while the probe runs: its handler
\* is not installed yet.
Die == stage # "exited" /\ CloseSockets

\* The next process starts from nothing.
Restart ==
  /\ stage = "exited"
  /\ stage' = "probing"
  /\ banner' = None /\ undisturbed' = TRUE
  /\ phase' = [m \in Managers |-> "new"]
  /\ attempt' = [m \in Managers |-> 0]
  /\ client_id' = [m \in Managers |-> None]
  /\ account_id' = [m \in Managers |-> None]
  /\ managed' = [m \in Managers |-> << >>]
  /\ unclosed' = [m \in Managers |-> FALSE]
  /\ result' = [m \in Managers |-> "none"]
  /\ UNCHANGED << environmentVars, connected >>

-----------------------------------------------------------------------------

ServerInit ==
  Init /\ stage = "probing" /\ banner = None /\ undisturbed = TRUE

Outside ==
  /\ phase[Probe] # "open"
  /\ Environment \/ SocketDropped(Probe) \/ LossNoticed(Probe)
  /\ undisturbed' = FALSE
  /\ UNCHANGED << stage, banner >>

ServerNext ==
  \/ ProbeConnects \/ ProbeEnds \/ Stop \/ Exit \/ Die \/ Restart \/ Outside
  \/ \E m \in Sessions : Serve(m) \/ StopSession(m)

ServerSpec == ServerInit /\ [][ServerNext]_serverVars

\* An attempt is answered or times out, and what the process can do it does;
\* nothing makes it start again.
ServerFairness ==
  /\ WF_serverVars(ProbeConnects) /\ WF_serverVars(ProbeEnds)
  /\ \A m \in Sessions : WF_serverVars(StopSession(m))
  /\ WF_serverVars(Exit)

FairServerSpec == ServerSpec /\ ServerFairness
-----------------------------------------------------------------------------
(* What must hold.                                                         *)

\* Every variable has its type: the one type invariant of the module.
ServerTypeOK ==
  /\ TypeOK
  /\ stage \in {"probing", "serving", "stopping", "exited"}
  /\ \/ banner = None
     \/ banner.connected \in BOOLEAN /\ banner.account \in Accounts \cup {None}
        /\ banner.client_id \in ClientIds \cup {None}
        /\ (banner.connected <=> banner.client_id # None)
  /\ undisturbed \in BOOLEAN

\* Once the server serves, the probe has no connection, and no client id is
\* registered as the probe's for a session to step over, unless
\* ib.disconnect() failed on it (__main__.py, lines 100-106).
ProbeGone ==
  stage \in {"serving", "stopping"} /\ ~unclosed[Probe] =>
    ~connected[Probe] /\ \A c \in ClientIds : slot[c] # Probe

\* The banner tells what the first session then gets, connection, client id
\* and account, if nothing else happens: no step of the gateway, of another
\* client or of another session since the process started, and a gateway that
\* refuses the ids in use and has let go of the probe's id when the probe
\* disconnects (__main__.py, lines 91-109).
BannerTellsTheSession ==
  \A m \in Sessions :
    undisturbed /\ stage = "serving" /\ result[m] # "none" =>
      /\ banner.connected <=> result[m] = "true"
      /\ banner.connected => banner.client_id = client_id[m]
      /\ banner.account = account_id[m]

\* A process that is asked to stop, and is not killed meanwhile, has closed the
\* connection of every session by the time it exits, those that were being
\* opened included, unless ib.disconnect() failed (__main__.py, lines 113-124,
\* and the finally of the lifespan).
ExitsClean ==
  stage = "stopping" /\ (\A m \in Sessions : phase[m] \in {"new", "closed"}) =>
    \A m \in Managers :
      ~unclosed[m] => ~connected[m] /\ \A c \in ClientIds : slot[c] # m

\* With or without a gateway the server comes to serve, and a server that is
\* asked to stop exits (docs/architecture.md, section 8: "connection failure is
\* not a server crash").
ServesAndStops ==
  /\ stage = "probing" ~> stage \in {"serving", "exited"}
  /\ stage = "stopping" ~> stage = "exited"
===============================================================================
