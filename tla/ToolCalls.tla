------------------------------- MODULE ToolCalls -------------------------------
(***************************************************************************)
(* The tool calls of one server session (tools/*.py): concurrent handlers  *)
(* on one event loop that share one IB connection through                  *)
(* AppContext.ib_lock.                                                     *)
(*                                                                         *)
(* A handler suspends only when the lock is taken, on a request to the     *)
(* gateway, and on the thread that downloads a Flex report; what it does   *)
(* between two suspensions is one step.  What a request returns is         *)
(* abstracted to whether there is data in it, and an answer to its error   *)
(* code ("ok" for a result).                                               *)
(*                                                                         *)
(* The connection can only be lost: ConnectionManager implements Session,  *)
(* where a session that has settled never gets a connection back.          *)
(***************************************************************************)
EXTENDS Integers, SequencesExt

CONSTANTS
  Calls,     \* calls that may be in progress at a time
  Tools,     \* the tools this instance lets the clients call
  None

GatewayTools ==
  {"get_account_info", "get_positions", "get_portfolio_greeks", "get_market_data",
   "get_historical_data", "get_option_chain", "get_order_status", "get_live_orders",
   "get_contract_details"}
AccountTools ==
  {"get_account_info", "get_positions", "get_portfolio_greeks", "get_live_orders"}
LockFreeTools ==
  {"get_order_status", "get_server_status", "get_alerts", "list_flex_queries",
   "get_flex_query"}
ResolvingTools == {"get_market_data", "get_option_chain", "get_contract_details"}
AllTools == GatewayTools \cup LockFreeTools

ASSUME ToolsAssumption == Tools \subseteq AllTools

VARIABLES
  is_connected,  \* manager.is_connected
  has_account,   \* is there an account a call can resolve: account_id, or a
                 \* managed account that it names?
  env_valid,     \* would Settings() accept the environment and .env right now?
  pc,            \* where each call is
  tool,          \* the tool it called
  step,          \* how many of its requests have been answered
  reply,         \* the state of the future it awaits
  answer,        \* the code it was answered with
  owner,         \* who holds ib_lock
  waiters,       \* who waits for ib_lock, first come first
  outstanding    \* the calls whose request the gateway is still working on

connVars == << is_connected, has_account, env_valid >>
vars == << connVars, pc, tool, step, reply, answer, owner, waiters, outstanding >>

\* ErrorCode, and "ok" for a result.
Codes ==
  {"ok", "IB_NOT_CONNECTED", "IB_CONNECTION_FAILED", "IB_TIMEOUT",
   "IB_ACCOUNT_NOT_FOUND", "IB_INVALID_CONTRACT", "IB_NO_MARKET_DATA",
   "IB_FLEX_ERROR", "VALIDATION_ERROR", "NOT_IMPLEMENTED"}

ASSUME NoneAssumption == None \notin Calls \cup Codes

-----------------------------------------------------------------------------
(* The tools, as tables: how a handler may answer at its first checks, what *)
(* needs the gateway, and what it does with a reply.                       *)

\* Answers that the arguments call for before anything is sent.
ArgumentErrors(t) ==
  CASE t = "get_option_chain" -> {"IB_INVALID_CONTRACT"}
    [] t \in {"get_market_data", "get_contract_details", "get_historical_data"} ->
         {"IB_INVALID_CONTRACT", "VALIDATION_ERROR"}
    [] t \in AccountTools -> {"IB_ACCOUNT_NOT_FOUND"}
    [] t = "get_flex_query" -> {"IB_FLEX_ERROR", "VALIDATION_ERROR"}
    [] OTHER -> {}

\* Answers made of what is at hand: the caches of ib_async, the settings.
LocalAnswers(t) ==
  CASE t \in {"get_positions", "get_portfolio_greeks", "get_server_status",
              "list_flex_queries"} -> {"ok"}
    [] t = "get_order_status" -> {"ok", "VALIDATION_ERROR"}
    [] t = "get_alerts" -> {"NOT_IMPLEMENTED"}
    [] OTHER -> {}

UncheckedAnswers(t) == ArgumentErrors(t) \cup LocalAnswers(t)

\* What a handler answers before its first suspension, in the order of its
\* checks: Settings() in the decorator, the connection, the account, its
\* arguments and the caches.
ImmediateAnswers(t) ==
  IF ~env_valid THEN {"VALIDATION_ERROR"}
  ELSE IF t \in GatewayTools /\ ~is_connected THEN {"IB_NOT_CONNECTED"}
  ELSE IF t \in AccountTools /\ ~has_account THEN {"IB_ACCOUNT_NOT_FOUND"}
  ELSE UncheckedAnswers(t)

\* May the handler of t go on to the gateway, or to the Flex download?
Proceeds(t) ==
  /\ env_valid
  /\ t \in GatewayTools => is_connected
  /\ t \in AccountTools => has_account
AsksGateway(t) == Proceeds(t) /\ t \in GatewayTools \ LockFreeTools
Downloads(t) == Proceeds(t) /\ t = "get_flex_query"

\* What map_exception makes of an exception that a request raises while there
\* is a connection ("not connected" is said of lost ones only).
RaisedCodes == Codes \ {"ok", "IB_NOT_CONNECTED", "IB_CONNECTION_FAILED"}

\* Slip: no data is taken for a lost connection.
EmptyMeansLost(t, k, r) ==
  IF r = "data" THEN {"ok"} ELSE {"IB_NOT_CONNECTED"}

\* Slip: a code that is not an ErrorCode.
UnknownCode(t, k, r) ==
  IF r = "lost" THEN {"IB_CONNECTION_LOST"} ELSE {"ok"}

\* After its k-th reply r a handler answers with one of these codes ...
AnswersTo(t, k, r) ==
  CASE r = "lost" -> {"IB_NOT_CONNECTED"}     \* ConnectionError, through map_exception
    [] r = "raised" -> RaisedCodes
    [] r = "empty" /\ k = 1 /\ t \in ResolvingTools -> {"IB_INVALID_CONTRACT"}
    [] r = "empty" /\ t \in {"get_market_data", "get_option_chain"} /\ k = 2 ->
         {"IB_NO_MARKET_DATA"}
    [] r = "data" /\ t \in {"get_market_data", "get_option_chain"} /\ k = 1 -> {}
    [] r = "data" /\ t = "get_option_chain" /\ k = 2 ->
         {"ok", "IB_INVALID_CONTRACT", "VALIDATION_ERROR"}
    [] OTHER -> {"ok"}

\* ... or sends its next request, in the same section of the lock ...
ContinuesSection(t, k, r) ==
  r = "data" /\ k = 1 /\ t \in {"get_market_data", "get_option_chain"}

\* ... or lets the lock go and asks for it again: the snapshots of a full chain.
OpensSection(t, k, r) == r = "data" /\ k = 2 /\ t = "get_option_chain"

-----------------------------------------------------------------------------
(* Steps of a handler.                                                     *)

Answer(c, code) ==
  /\ pc' = [pc EXCEPT ![c] = "done"]
  /\ answer' = [answer EXCEPT ![c] = code]
  /\ reply' = [reply EXCEPT ![c] = "none"]

Await(c) ==
  /\ pc' = [pc EXCEPT ![c] = "awaiting"]
  /\ reply' = [reply EXCEPT ![c] = "pending"]
  /\ outstanding' = outstanding \cup {c}
  /\ UNCHANGED answer

Queue(c) ==
  /\ pc' = [pc EXCEPT ![c] = "waiting"]
  /\ reply' = [reply EXCEPT ![c] = "none"]
  /\ waiters' = Append(waiters, c)
  /\ UNCHANGED << answer, outstanding >>

\* Slip: the request is sent without the lock.
EnterUnlocked(c) == Await(c) /\ UNCHANGED << owner, waiters >>
\* async with ib_lock: an uncontended lock is taken, and the request sent,
\* without suspending; a lock that is held or has waiters is queued for.
EnterSection(c) ==
  \/ owner = None /\ waiters = << >> /\ Await(c) /\ owner' = c /\ UNCHANGED waiters
  \/ (owner # None \/ waiters # << >>) /\ Queue(c) /\ UNCHANGED owner

\* A client calls a tool; the handler runs up to its first suspension.
Invoke(c) ==
  /\ pc[c] = "idle"
  /\ \E t \in Tools :
       /\ tool' = [tool EXCEPT ![c] = t]
       /\ \/ /\ \E code \in ImmediateAnswers(t) : Answer(c, code)
             /\ UNCHANGED << owner, waiters, outstanding >>
          \/ /\ AsksGateway(t)
             /\ EnterSection(c)
          \/ /\ Downloads(t)
             /\ pc' = [pc EXCEPT ![c] = "downloading"]
             /\ UNCHANGED << reply, answer, owner, waiters, outstanding >>
  /\ UNCHANGED << connVars, step >>

\* Slip: a request that fails at once leaves the lock held.
AcquireAndForgetRelease(c) ==
  /\ Answer(c, "IB_NOT_CONNECTED")
  /\ owner' = c
  /\ UNCHANGED outstanding
\* The first waiter gets the lock and sends its request.  The connection is
\* not looked at again: a lost one raises ConnectionError out of the section.
AcquireAndFail(c) ==
  /\ Answer(c, "IB_NOT_CONNECTED")
  /\ UNCHANGED << owner, outstanding >>
Acquire(c) ==
  /\ owner = None /\ waiters # << >> /\ Head(waiters) = c
  /\ waiters' = Tail(waiters)
  /\ \/ is_connected /\ Await(c) /\ owner' = c
     \/ ~is_connected /\ AcquireAndFail(c)
  /\ UNCHANGED << connVars, tool, step >>

\* The future of the awaited request is done and the handler goes on.  A
\* connection lost since then fails the next request, not this reply.
Resume(c) ==
  LET t == tool[c]
      k == step[c] + 1
      r == reply[c]
  IN
  /\ pc[c] = "awaiting" /\ r # "pending"
  /\ step' = [step EXCEPT ![c] = IF r \in {"lost", "raised"} THEN @ ELSE k]
  /\ \/ /\ \E code \in AnswersTo(t, k, r) : Answer(c, code)
        /\ owner' = None
        /\ UNCHANGED << waiters, outstanding >>
     \/ /\ ContinuesSection(t, k, r) /\ is_connected
        /\ Await(c)
        /\ UNCHANGED << owner, waiters >>
     \/ /\ OpensSection(t, k, r) /\ waiters # << >>
        /\ Queue(c)
        /\ owner' = None
     \/ /\ OpensSection(t, k, r) /\ waiters = << >> /\ is_connected
        /\ Await(c)
        /\ UNCHANGED << owner, waiters >>
     \/ /\ \/ ContinuesSection(t, k, r)
           \/ OpensSection(t, k, r) /\ waiters = << >>
        /\ ~is_connected
        /\ Answer(c, "IB_NOT_CONNECTED")
        /\ owner' = None
        /\ UNCHANGED << waiters, outstanding >>
  /\ UNCHANGED << connVars, tool >>

\* The download thread of get_flex_query ends: a report, as topics or as raw
\* XML, or an exception.
DownloadEnds(c) ==
  /\ pc[c] = "downloading"
  /\ \E code \in {"ok", "IB_FLEX_ERROR"} : Answer(c, code)
  /\ UNCHANGED << connVars, tool, step, owner, waiters, outstanding >>

\* The client cancels the request: CancelledError passes the error handler,
\* and async with releases the lock.  The gateway is not told.
LeaveQueue(c) ==
  \/ /\ pc[c] = "waiting"
     /\ \E i \in DOMAIN waiters : waiters[i] = c /\ waiters' = RemoveAt(waiters, i)
  \/ pc[c] # "waiting" /\ UNCHANGED waiters
\* Slip: a cancelled handler leaves the lock held.
CancelKeepingLock(c) ==
  /\ pc[c] \in {"waiting", "awaiting", "downloading"}
  /\ Answer(c, "cancelled")
  /\ LeaveQueue(c)
  /\ UNCHANGED << connVars, tool, step, owner, outstanding >>
Cancel(c) ==
  /\ pc[c] \in {"waiting", "awaiting", "downloading"}
  /\ Answer(c, "cancelled")
  /\ owner' = IF owner = c THEN None ELSE owner
  /\ LeaveQueue(c)
  /\ UNCHANGED << connVars, tool, step, outstanding >>

\* The client has its answer and may call again (as another of the bounded
\* set Calls while the gateway still works on what this one cancelled).
Collect(c) ==
  /\ pc[c] = "done" /\ c \notin outstanding
  /\ pc' = [pc EXCEPT ![c] = "idle"]
  /\ tool' = [tool EXCEPT ![c] = None]
  /\ step' = [step EXCEPT ![c] = 0]
  /\ answer' = [answer EXCEPT ![c] = None]
  /\ UNCHANGED << connVars, reply, owner, waiters, outstanding >>

-----------------------------------------------------------------------------
(* The gateway, the connection and the environment.                        *)

\* The gateway answers a request, or ib_async raises what it makes of the
\* answer; nobody awaits that of a cancelled call.
GatewayReplies(c) ==
  /\ c \in outstanding
  /\ outstanding' = outstanding \ {c}
  /\ \E r \in {"data", "empty", "raised"} :
       reply' = IF pc[c] = "awaiting" THEN [reply EXCEPT ![c] = r] ELSE reply
  /\ UNCHANGED << connVars, pc, tool, step, answer, owner, waiters >>

\* The socket closes: ib_async fails every pending future with ConnectionError.
Lose ==
  /\ is_connected
  /\ is_connected' = FALSE
  /\ reply' = [c \in Calls |-> IF reply[c] = "pending" THEN "lost" ELSE reply[c]]
  /\ outstanding' = {}
  /\ UNCHANGED << has_account, env_valid, pc, tool, step, answer, owner, waiters >>

\* Somebody edits .env while the server runs.
EditEnvironment ==
  /\ env_valid' = ~env_valid
  /\ UNCHANGED << is_connected, has_account, pc, tool, step, reply, answer, owner,
                  waiters, outstanding >>

-----------------------------------------------------------------------------

Init ==
  /\ is_connected \in BOOLEAN
  /\ has_account \in BOOLEAN
  /\ env_valid = TRUE
  /\ pc = [c \in Calls |-> "idle"]
  /\ tool = [c \in Calls |-> None]
  /\ step = [c \in Calls |-> 0]
  /\ reply = [c \in Calls |-> "none"]
  /\ answer = [c \in Calls |-> None]
  /\ owner = None
  /\ waiters = << >>
  /\ outstanding = {}

Handler(c) == Acquire(c) \/ Resume(c) \/ DownloadEnds(c)
Client(c) == Invoke(c) \/ Cancel(c) \/ Collect(c)

Next ==
  \/ \E c \in Calls : Handler(c) \/ Client(c) \/ GatewayReplies(c)
  \/ Lose
  \/ EditEnvironment

Spec == Init /\ [][Next]_vars

\* The event loop runs every handler that can go on, and a download ends
\* (FlexReport raises or returns).  The gateway owes nothing.
ServerFairness == \A c \in Calls : WF_vars(Handler(c))
GatewayFairness == \A c \in Calls : WF_vars(GatewayReplies(c))

FairSpec == Spec /\ ServerFairness
-----------------------------------------------------------------------------
(* What must hold.                                                         *)

PCs == {"idle", "waiting", "awaiting", "downloading", "done"}

\* Every variable has its type: the one type invariant of the module.
TypeOK ==
  /\ is_connected \in BOOLEAN
  /\ has_account \in BOOLEAN
  /\ env_valid \in BOOLEAN
  /\ pc \in [Calls -> PCs]
  /\ tool \in [Calls -> Tools \cup {None}]
  /\ step \in [Calls -> 0..3]
  /\ reply \in [Calls -> {"none", "pending", "data", "empty", "raised", "lost"}]
  /\ answer \in [Calls -> Codes \cup {"cancelled", None}]
  /\ owner \in Calls \cup {None}
  /\ waiters \in Seq(Calls)
  /\ outstanding \subseteq Calls

\* At most one handler has a request to the gateway in flight, over all tools,
\* the two sections of get_option_chain included (every async with ib_lock;
\* docs/architecture.md, section 6.1).
OneRequestAtATime ==
  \A c, d \in Calls : pc[c] = "awaiting" /\ pc[d] = "awaiting" => c = d

\* ib_lock is held exactly by the handler inside a section and its queue is
\* exactly the handlers waiting, each once: no error, early return or
\* cancellation leaves it held or forgets a waiter.
LockHeldByItsUser ==
  /\ \A c \in Calls : owner = c <=> pc[c] = "awaiting"
  /\ \A c \in Calls : pc[c] = "waiting" <=> \E i \in DOMAIN waiters : waiters[i] = c
  /\ \A i, j \in DOMAIN waiters : waiters[i] = waiters[j] => i = j

\* A call is told IB_NOT_CONNECTED only when there really is no connection,
\* however long it waited and whatever the gateway replied (the check each
\* handler starts with; ConnectionError in errors.map_exception).
NotConnectedIsTrue ==
  \A c \in Calls : answer[c] = "IB_NOT_CONNECTED" => ~is_connected

\* Once the connection is lost a gateway tool succeeds only on a reply that
\* had already arrived: cached positions and orders are never served to a
\* later call (is_connected is checked first, docs/architecture.md, line 269).
NoSuccessAfterLoss ==
  [][\A c \in Calls :
       answer[c] = None /\ answer'[c] = "ok" /\ tool'[c] \in GatewayTools
         => is_connected \/ reply[c] \in {"data", "empty"}]_vars

\* A lost connection lets every call that waits for the lock or the gateway
\* come to its end, even though the gateway stays silent: the one in flight
\* fails and each waiter in turn gets the lock, fails and passes it on.
LossUnblocksEveryone ==
  \A c \in Calls :
    ~is_connected /\ pc[c] \in {"waiting", "awaiting"} ~> pc[c] = "done"

\* With a gateway that replies, no call starves behind the others, behind
\* calls that are cancelled and behind full option chains.
EveryCallAnswered ==
  GatewayFairness =>
  \A c \in Calls : pc[c] \in {"waiting", "awaiting", "downloading"} ~> pc[c] = "done"

-----------------------------------------------------------------------------
(* What the documentation says, and the code does not do.                  *)

\* specs/spec.md, line 853: "`IB_TIMEOUT` | Request timed out waiting for
\* TWS/Gateway response": a request comes to an end without the gateway.
SilentGatewayTimesOut ==
  \A c \in Calls : pc[c] = "awaiting" ~> pc[c] = "done"

\* docs/troubleshooting.md, line 188: "The `ib_lock` serialises every gateway
\* call": the gateway never works on two requests of the session.
GatewayServesOneRequest == Cardinality(outstanding) <= 1

\* docs/usage.md, line 62, of get_server_status: "The tool **does not return
\* errors** - it always succeeds, even when disconnected."
ServerStatusAlwaysSucceeds ==
  \A c \in Calls :
    tool[c] = "get_server_status" /\ pc[c] = "done" => answer[c] = "ok"

=============================================================================
