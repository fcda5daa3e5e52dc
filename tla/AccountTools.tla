----------------------------- MODULE AccountTools -----------------------------
(***************************************************************************)
(* What a call of an account or order tool answers (tools/orders.py and    *)
(* tools/account.py): get_order_status, get_live_orders, get_positions,    *)
(* get_portfolio_greeks, get_account_info.                                 *)
(*                                                                         *)
(* One call after the other is observed, in one session.  The gateway has  *)
(* the orders and the positions; ib_async keeps copies of them, which lag  *)
(* behind and which a lost connection empties; a tool answers from the     *)
(* copies, from a request, or from both.  Awaiting covers the wait for     *)
(* ib_lock and for the reply (ToolCalls tells them apart, and the          *)
(* cancelled calls).                                                       *)
(***************************************************************************)
EXTENDS Greeks, FiniteSetsExt

CONSTANTS
  Accounts,     \* accounts, linked to the login or not
  NoAccount,    \* the account of an order that carries none
  Orders,       \* the orders of the login, completed ones included
  Own,          \* those of them that this connection's client id has placed
  OrderId,      \* the orderId of each: 0 for those that have none
  Positions,    \* the positions, in the order in which portfolio() lists them
  AccountOf,    \* the account of each order and of each position
  Contract,     \* the contract of each position
  Quantities,   \* how much of one may be held
  Statuses,     \* the statuses an order may have
  Tickers,      \* what the gateway may say of an option
  AskedIds,     \* the order ids that clients ask for
  Linked,       \* the sets of accounts that the login may have
  MaxRows       \* bound: orders and positions that there are at a time

P == ToSet(Positions)
Float == Int \cup {NaN}
Number == Float \cup {None}
GreekValues == [GreekNames -> Float]
Bundle == [greeks : [GreekNames -> Number], impliedVol : Number, undPrice : Number]

LiveStatuses == {"PendingSubmit", "Submitted", "ApiPending", "PreSubmitted", "PartiallyFilled"}
FinalStatuses == {"Filled", "Cancelled", "ApiCancelled", "Inactive"}
RequestTools == {"get_live_orders", "get_positions", "get_portfolio_greeks", "get_account_info"}
Tools == RequestTools \cup {"get_order_status"}
Codes == {"ok", "IB_NOT_CONNECTED", "IB_ACCOUNT_NOT_FOUND", "VALIDATION_ERROR"}

ASSUME DataAssumption ==
  /\ OrderId \in [Orders -> Nat] /\ AskedIds \subseteq Int
  /\ AccountOf \in [Orders \cup P -> Accounts \cup {NoAccount}]
  /\ \A p \in P : AccountOf[p] \in Accounts
  /\ Quantities \subseteq Int /\ 0 \in Quantities
  /\ None \notin Accounts \cup Statuses \cup Int /\ NoAccount \notin Accounts \cup {None}
  /\ Own \subseteq Orders /\ Orders \cap P = {}
  /\ Linked \subseteq SUBSET Accounts

\* ib_async keeps the portfolio by contract: no position is listed twice.
ASSUME PortfolioAssumption ==
  /\ Positions \in Seq(P)
  /\ \A i, j \in DOMAIN Positions : Positions[i] = Positions[j] => i = j

ASSUME NoneAssumption ==
  /\ None \notin Tools \cup Codes \cup LiveStatuses /\ None \notin GreekValues
  /\ NaN \notin Int \cup {None}

\* Fields are numbers, NaN or missing: _safe_float lets nothing else through.
\* _safe_int makes no number of NaN.  The Black-Scholes formulas give four numbers.
ASSUME QuotesAssumption ==
  /\ Tickers \subseteq [ToSet(Priority) -> Bundle \cup {None}]
  /\ \A p \in P :
       /\ Contract[p].multiplier \in Int \cup {None}
       /\ \A t \in Tickers :
            FallbackGreeks(Contract[p], Spot(t, Contract[p].marketPrice), LastIv(t))
              \in GreekValues \cup {None}

VARIABLES
  is_connected,  \* manager.is_connected
  account_id,    \* manager.account_id
  managed,       \* ib.managedAccounts()
  subscribed,    \* the accounts whose positions the gateway pushes
  book,          \* the status of each order at the gateway, None if there is none
  holdings,      \* the quantity of each position at the gateway
  trades,        \* ib.trades(): the copy of book
  portfolio,     \* ib.portfolio(): the copy of holdings
  pc,            \* "idle", "awaiting" or "done"
  tool,          \* the tool called
  requested,     \* its argument: accountId or orderId
  account,       \* the account it resolved
  items,         \* option_items: positions and quantities
  reply,         \* the state of the future it awaits
  received,      \* the reply
  answer,        \* the answer
  seen,          \* the portfolio when it was called (history)
  ever, always,  \* what the gateway showed at some time, all the time since (history)
  listed         \* the orders that answers have shown on this connection (history)

sessionVars == << is_connected, account_id, managed, subscribed >>
gatewayVars == << book, holdings >>
cacheVars == << trades, portfolio >>
callVars == << pc, tool, requested, account, items, reply, received, answer >>
historyVars == << seen, ever, always, listed >>
vars == << sessionVars, gatewayVars, cacheVars, callVars, historyVars >>

Nothing == [code |-> None, account |-> None, orders |-> {}, positions |-> {},
            values |-> {}, lines |-> << >>, totals |-> NoGreeks]
NoReply == [some |-> FALSE, positions |-> {}, quotes |-> << >>, values |-> {}]
AReply == [NoReply EXCEPT !.some = TRUE]

-----------------------------------------------------------------------------
(* The handlers, as operators on the copies and the replies.               *)

Rows(quantity) == { << p, quantity[p] >> : p \in { q \in P : quantity[q] # 0 } }
RowsOf(a, rows) == { row \in rows : AccountOf[row[1]] = a }

\* Slip: an account that is not linked to the login resolves.
ResolveAnything(id) == IF id = None THEN account_id ELSE id
\* _resolve_account: None stands for the two ways of not finding one.
Resolve(id) ==
  IF id = None THEN account_id ELSE IF id \in managed THEN id ELSE None

\* Slip: only orders that are still open are looked at.
OpenMatches(id) == { o \in Orders : trades[o] \in LiveStatuses /\ OrderId[o] = id }
\* `order.orderId or -1`: an order without an id is found under -1.
Matches(id) ==
  { o \in Orders : trades[o] # None /\ id = IF OrderId[o] = 0 THEN -1 ELSE OrderId[o] }

\* The live orders, of every account if none is asked for.
LiveOrders ==
  { o \in Orders : /\ trades[o] \in LiveStatuses
                   /\ requested # None => AccountOf[o] \in {account, NoAccount} }

IsOption(p) == Contract[p].secType \in {"OPT", "FOP"}
OptionItems(a) ==
  LET Counts(p) == IsOption(p) /\ portfolio[p] # 0 /\ AccountOf[p] = a
      Pick(found, p) == IF Counts(p) THEN Append(found, << p, portfolio[p] >>) ELSE found
  IN FoldLeft(Pick, << >>, Positions)

\* Slip: the tickers are paired with every position, not with the options.
PairWithPortfolio(quotes) ==
  LET held == SelectSeq(Positions, LAMBDA p : portfolio[p] # 0)
      n == IF Len(held) < Len(quotes) THEN Len(held) ELSE Len(quotes)
  IN [i \in 1..n |-> Line(held[i], portfolio[held[i]], Contract[held[i]], quotes[i])]
\* zip, not strict: the tickers come in the order of the contracts asked for,
\* and where there are none there are no lines.
Lines(quotes) ==
  [i \in DOMAIN quotes |->
     Line(items[i][1], items[i][2], Contract[items[i][1]], quotes[i])]

Success == [Nothing EXCEPT !.code = "ok", !.account = account]

\* What is answered once the reply is there.
Response ==
  CASE tool = "get_live_orders" -> [Success EXCEPT !.orders = LiveOrders]
    [] tool = "get_positions" ->
         [Success EXCEPT !.positions = RowsOf(account, received.positions)]
    [] tool = "get_account_info" ->
         [Success EXCEPT !.values = received.values \cap {account, NoAccount}]
    [] tool = "get_portfolio_greeks" ->
         LET lines == Lines(received.quotes)
         IN [Success EXCEPT !.lines = lines, !.totals = Totals(lines)]

-----------------------------------------------------------------------------
(* What the gateway would show a call of t: the live orders or the         *)
(* positions, nothing once the connection is lost.                         *)

Shown(t, connected, status, quantity) ==
  CASE connected /\ t = "get_live_orders" -> { o \in Orders : status[o] \in LiveStatuses }
    [] connected /\ t = "get_positions" -> Rows(quantity)
    [] OTHER -> {}

Watch ==
  LET shown == Shown(tool, is_connected', book', holdings')
  IN /\ ever' = IF pc = "awaiting" THEN ever \cup shown ELSE ever
     /\ always' = IF pc = "awaiting" THEN always \cap shown ELSE always

-----------------------------------------------------------------------------
(* One action per tool for its start, one for what follows the reply.      *)

Begin(t, arg) ==
  /\ pc = "idle"
  /\ tool' = t /\ requested' = arg
  /\ seen' = portfolio
  /\ ever' = Shown(t, is_connected, book, holdings)
  /\ always' = Shown(t, is_connected, book, holdings)
  /\ UNCHANGED << sessionVars, gatewayVars, cacheVars, received >>

Respond(response) ==
  /\ pc' = "done"
  /\ answer' = response
  /\ reply' = "none"
  /\ listed' = listed \cup response.orders

\* Slip: a code that is not an ErrorCode.
RefuseOddly(code) == Respond([Nothing EXCEPT !.code = "ERROR"])
Refuse(code) == Respond([Nothing EXCEPT !.code = code])

Send ==
  /\ pc' = "awaiting"
  /\ reply' = "pending"
  /\ UNCHANGED << answer, listed >>

\* trades() is read without a refresh and without the lock.
GetOrderStatus(id) ==
  /\ Begin("get_order_status", id)
  /\ \/ ~is_connected /\ Refuse("IB_NOT_CONNECTED")
     \/ is_connected /\ Matches(id) = {} /\ Refuse("VALIDATION_ERROR")
     \/ /\ is_connected
        /\ \E o \in Matches(id) :
             Respond([Nothing EXCEPT !.code = "ok", !.orders = {o}])
  /\ UNCHANGED << account, items >>

\* How the tools that serve an account begin.
BeginFor(t, id) ==
  /\ Begin(t, id)
  /\ account' = Resolve(id)
  /\ is_connected /\ Resolve(id) # None

Rejected(t, id) ==
  /\ Begin(t, id)
  /\ \/ ~is_connected /\ Refuse("IB_NOT_CONNECTED")
     \/ is_connected /\ Resolve(id) = None /\ Refuse("IB_ACCOUNT_NOT_FOUND")
  /\ UNCHANGED << account, items >>

\* Slip: the open orders are read without the refresh.
LiveOrdersUnrefreshed(id) ==
  /\ BeginFor("get_live_orders", id)
  /\ Respond([Nothing EXCEPT !.code = "ok", !.account = Resolve(id),
                !.orders = { o \in Orders :
                  /\ trades[o] \in LiveStatuses
                  /\ id # None => AccountOf[o] \in {Resolve(id), NoAccount} }])
  /\ UNCHANGED items
GetLiveOrders(id) == BeginFor("get_live_orders", id) /\ Send /\ UNCHANGED items

GetAccountInfo(id) == BeginFor("get_account_info", id) /\ Send /\ UNCHANGED items

FromCache(a) ==
  Respond([Nothing EXCEPT !.code = "ok", !.account = a,
                          !.positions = RowsOf(a, Rows(portfolio))])

\* Slip: an empty portfolio is served as it is.
NeverAsks(a) == FromCache(a)
\* The portfolio if there is anything in it, a request otherwise.
CacheOrRequest(a) ==
  \/ Rows(portfolio) # {} /\ FromCache(a)
  \/ Rows(portfolio) = {} /\ Send

GetPositions(id) ==
  /\ BeginFor("get_positions", id)
  /\ CacheOrRequest(Resolve(id))
  /\ UNCHANGED items

\* Without an option position there is nothing to ask for.
GetPortfolioGreeks(id) ==
  /\ BeginFor("get_portfolio_greeks", id)
  /\ items' = OptionItems(Resolve(id))
  /\ \/ items' # << >> /\ Send
     \/ /\ items' = << >>
        /\ Respond([Nothing EXCEPT !.code = "ok", !.account = Resolve(id)])

\* Slip: what the request raises is taken for an empty reply.
SwallowLoss == Respond(Success)
\* ConnectionError leaves the handler, for the error handler to answer.
RaiseLoss == Refuse("IB_NOT_CONNECTED")

\* The handler goes on with the reply, or with the exception.
Resume ==
  /\ pc = "awaiting"
  /\ \/ reply = "data" /\ Respond(Response)
     \/ reply = "lost" /\ RaiseLoss
  /\ UNCHANGED << sessionVars, gatewayVars, cacheVars, tool, requested, account, items,
                  received, seen, ever, always >>

Collect ==
  /\ pc = "done"
  /\ pc' = "idle"
  /\ tool' = None /\ requested' = None /\ account' = None /\ items' = << >>
  /\ answer' = Nothing /\ received' = NoReply
  /\ seen' = [p \in P |-> 0] /\ ever' = {} /\ always' = {}
  /\ UNCHANGED << sessionVars, gatewayVars, cacheVars, reply, listed >>

-----------------------------------------------------------------------------
(* The gateway and ib_async.                                               *)

\* What may come of the pending request; tickers for all the contracts, or none.
Replies ==
  CASE tool = "get_positions" -> { [AReply EXCEPT !.positions = Rows(holdings)] }
    [] tool = "get_account_info" ->
         { [AReply EXCEPT !.values = v] : v \in SUBSET (managed \cup {NoAccount}) }
    [] tool = "get_portfolio_greeks" ->
         { [AReply EXCEPT !.quotes = q] : q \in [DOMAIN items -> Tickers] \cup {<< >>} }
    [] OTHER -> { AReply }

\* Bound: nothing moves while an answer waits to be collected.  What was true
\* until it was given is what the properties speak of.
Moving == is_connected /\ pc # "done"

\* Slip: what the refresh brings is not kept.
RefreshLost(pushed) == trades
\* reqOpenOrders brings the orders of this client id.  Of the others it may
\* make the gateway push some, or none.
Refreshed(pushed) == [o \in Orders |-> IF o \in Own \cup pushed THEN book[o] ELSE trades[o]]

\* The reply arrives behind every update sent before it.
GatewayReplies ==
  /\ pc = "awaiting" /\ reply = "pending"
  /\ reply' = "data"
  /\ received' \in Replies
  /\ \/ /\ tool = "get_live_orders"
        /\ \E pushed \in SUBSET (Orders \ Own) : trades' = Refreshed(pushed)
     \/ tool # "get_live_orders" /\ trades' = trades
  /\ UNCHANGED << sessionVars, gatewayVars, portfolio, pc, tool, requested, account,
                  items, answer, historyVars >>

\* An update reaches the copy of the orders, or that of the positions.
TradeArrives(o) ==
  /\ Moving /\ trades[o] # book[o]
  /\ trades' = [trades EXCEPT ![o] = book[o]]
  /\ UNCHANGED << sessionVars, gatewayVars, portfolio, callVars, historyVars >>

PositionArrives(p) ==
  /\ Moving /\ AccountOf[p] \in subscribed /\ portfolio[p] # holdings[p]
  /\ portfolio' = [portfolio EXCEPT ![p] = holdings[p]]
  /\ UNCHANGED << sessionVars, gatewayVars, trades, callVars, historyVars >>

\* At most MaxRows orders and positions, wherever they are known.
Bounded(status, quantity) ==
  Cardinality({ o \in Orders : status[o] # None } \cup
              { p \in P : quantity[p] # 0 \/ portfolio[p] # 0 }) <= MaxRows

\* An order is placed, worked on or done with; a position is traded.
OrderMoves(o) ==
  /\ Moving /\ book[o] \notin FinalStatuses
  /\ \E status \in Statuses \ {book[o]} : book' = [book EXCEPT ![o] = status]
  /\ Bounded(book', holdings)
  /\ UNCHANGED << sessionVars, holdings, cacheVars, callVars, seen, listed >>
  /\ Watch

PositionMoves(p) ==
  /\ Moving
  /\ \E q \in Quantities \ {holdings[p]} : holdings' = [holdings EXCEPT ![p] = q]
  /\ Bounded(book, holdings')
  /\ UNCHANGED << sessionVars, book, cacheVars, callVars, seen, listed >>
  /\ Watch

\* The connection is lost for good; ib_async forgets all it had.
Lose ==
  /\ Moving
  /\ is_connected' = FALSE
  /\ trades' = [o \in Orders |-> None] /\ portfolio' = [p \in P |-> 0]
  /\ reply' = IF reply = "pending" THEN "lost" ELSE reply
  /\ listed' = {}
  /\ UNCHANGED << account_id, managed, subscribed, gatewayVars, pc, tool, requested,
                  account, items, received, answer, seen >>
  /\ Watch

-----------------------------------------------------------------------------

\* A session that has settled: connecting has brought the orders of the client
\* id and any of the others; the positions of the subscribed accounts are still
\* to come.
Init ==
  /\ is_connected \in BOOLEAN
  /\ managed \in Linked
  /\ account_id \in IF managed = {} THEN {None} ELSE managed
  /\ subscribed \in SUBSET managed
  /\ book \in [Orders -> Statuses \cup {None}]
  /\ holdings \in [P -> Quantities]
  /\ \E known \in SUBSET Orders :
       /\ IF is_connected THEN Own \subseteq known ELSE known = {}
       /\ trades = [o \in Orders |-> IF o \in known THEN book[o] ELSE None]
  /\ portfolio = [p \in P |-> 0]
  /\ Bounded(book, holdings)
  /\ pc = "idle" /\ tool = None /\ requested = None /\ account = None /\ items = << >>
  /\ reply = "none" /\ received = NoReply /\ answer = Nothing
  /\ seen = [p \in P |-> 0] /\ ever = {} /\ always = {} /\ listed = {}

Invoke ==
  \/ \E id \in AskedIds : GetOrderStatus(id)
  \/ \E id \in Accounts \cup {None} :
       \/ GetLiveOrders(id) \/ GetAccountInfo(id)
       \/ GetPositions(id) \/ GetPortfolioGreeks(id)
       \/ \E t \in RequestTools : Rejected(t, id)

Gateway ==
  \/ GatewayReplies \/ Lose
  \/ \E o \in Orders : TradeArrives(o) \/ OrderMoves(o)
  \/ \E p \in P : PositionArrives(p) \/ PositionMoves(p)

Next == Invoke \/ Resume \/ Collect \/ Gateway

Spec == Init /\ [][Next]_vars
-----------------------------------------------------------------------------
(* What must hold.                                                         *)

Lists == [P -> Quantities]
RowSet == P \X Quantities

\* A line of the breakdown: a position without greeks is marked as missing.
IsLine(l) ==
  /\ l.position \in P /\ l.quantity \in Quantities
  /\ \/ l.source \in {"model", "fallback"} /\ l.greeks \in GreekValues
     \/ l.source = "missing" /\ l.greeks = None

IsAnswer(a) ==
  /\ a.code \in Codes \cup {None}
  /\ a.account \in Accounts \cup {None}
  /\ a.orders \subseteq Orders /\ a.positions \subseteq RowSet
  /\ a.values \subseteq Accounts \cup {NoAccount}
  /\ \A i \in DOMAIN a.lines : IsLine(a.lines[i])
  /\ a.totals \in GreekValues

\* Every variable has its type: the one type invariant of the module.
TypeOK ==
  /\ is_connected \in BOOLEAN
  /\ managed \subseteq Accounts /\ subscribed \subseteq managed
  /\ account_id \in managed \cup {None}
  /\ book \in [Orders -> Statuses \cup {None}] /\ trades \in [Orders -> Statuses \cup {None}]
  /\ holdings \in Lists /\ portfolio \in Lists /\ seen \in Lists
  /\ pc \in {"idle", "awaiting", "done"}
  /\ tool \in Tools \cup {None}
  /\ requested \in Accounts \cup AskedIds \cup {None}
  /\ account \in Accounts \cup {None}
  /\ \A i \in DOMAIN items : items[i] \in RowSet
  /\ reply \in {"none", "pending", "data", "lost"}
  /\ received.positions \subseteq RowSet /\ received.values \subseteq Accounts \cup {NoAccount}
  /\ \A i \in DOMAIN received.quotes : received.quotes[i] \in Tickers
  /\ IsAnswer(answer)
  /\ ever \subseteq Orders \cup RowSet /\ always \subseteq Orders \cup RowSet
  /\ listed \subseteq Orders

Answered(t) == pc = "done" /\ tool = t /\ answer.code = "ok"

\* No order of this client id is listed as live that was already done with when
\* the client asked, however far the copy had fallen behind by then: the refresh
\* under the lock comes before the copy is read (orders.py, lines 220-225).
LiveOrdersAreLive == Answered("get_live_orders") => answer.orders \cap Own \subseteq ever

\* An order of this client id, of the account or of any account if none was
\* named, that stays live from the question to the answer is listed, even if its
\* placing had not reached the copy.  Orders of other clients are promised
\* nothing: the refresh need not bring them.  A connection lost in between ends
\* the claim: the copy is then empty, and so is the list that is answered
\* (orders.py, lines 222-240).
LiveOrdersComplete ==
  Answered("get_live_orders") =>
    { o \in always \cap Own : requested # None => AccountOf[o] = requested }
      \subseteq answer.orders

\* get_order_status answers with an order of the id asked for, and an order
\* that an earlier answer on this connection has shown is still found by its
\* id whatever became of it, unless that id is 0 (orders.py, lines 184-194).
FoundUnderItsId ==
  tool = "get_order_status" =>
    /\ \A o \in answer.orders : OrderId[o] = requested \/ (requested = -1 /\ OrderId[o] = 0)
    /\ answer.code = "VALIDATION_ERROR" =>
         \A o \in listed : OrderId[o] # requested \/ OrderId[o] = 0

\* An answer names the account asked for, or the account of the session, one
\* of the login's own, and nothing in it belongs to another account.  The live
\* orders asked for without naming an account are the exception: they are
\* those of all accounts (account.py, lines 37-60; orders.py, line 238).
ServesTheAccount ==
  pc = "done" /\ tool \in RequestTools /\ answer.code = "ok" =>
    LET a == IF requested = None THEN account_id ELSE requested
    IN /\ answer.account = a /\ a \in managed
       /\ \A o \in answer.orders : requested # None => AccountOf[o] \in {a, NoAccount}
       /\ \A row \in answer.positions : AccountOf[row[1]] = a
       /\ answer.values \subseteq {a, NoAccount}
       /\ \A i \in DOMAIN answer.lines : AccountOf[answer.lines[i].position] = a

\* A position that the account holds all along is listed with its quantity,
\* unless the portfolio had anything in it at the time and was wrong about
\* this position: then, and only then, nobody asks the gateway.  No position
\* is listed twice (account.py, lines 196-216).
PositionsComplete ==
  Answered("get_positions") =>
    /\ \A row \in RowsOf(answer.account, always \cap RowSet) :
         Rows(seen) = {} \/ row \in Rows(seen) => row \in answer.positions
    /\ \A r1, r2 \in answer.positions : r1[1] = r2[1] => r1 = r2

\* The quote that the reply holds for position p.
QuoteOf(p) ==
  received.quotes[CHOOSE i \in DOMAIN items : items[i][1] = p]

\* What a line may say, given the quote of its own position: the greeks of
\* the first bundle that has any; none, or computed ones, if no bundle has.
Explained(l) ==
  LET bundle(n) == QuoteOf(l.position)[Priority[n]]
      has(n) == bundle(n) # None /\ \E g \in GreekNames : bundle(n).greeks[g] # None
  IN \/ /\ l.source = "model"
        /\ \E n \in DOMAIN Priority :
             /\ has(n) /\ \A m \in 1..(n - 1) : ~has(m)
             /\ \A g \in GreekNames :
                  l.greeks[g] =
                    Times(IF bundle(n).greeks[g] = None THEN 0 ELSE bundle(n).greeks[g],
                          Weight(l.quantity, Contract[l.position]))
     \/ /\ l.source \in {"fallback", "missing"}
        /\ \A n \in DOMAIN Priority : ~has(n)
        /\ l.source = "fallback" =>
             /\ Contract[l.position].days >= 0
             /\ \E n \in DOMAIN Priority :
                  /\ bundle(n) # None /\ bundle(n).impliedVol # None
                  /\ ~AtMostZero(bundle(n).impliedVol)

\* A line that makes the total of g NaN.
Spoils(line, g) == line.source # "missing" /\ line.greeks[g] = NaN

\* The sum over the lines, in any order.
SumOver(lines, g) ==
  MapThenSumSet(LAMBDA i : IF lines[i].source = "missing" THEN 0 ELSE lines[i].greeks[g],
                DOMAIN lines)

\* The breakdown has one line per option position that the portfolio held for
\* the account when the client asked, whatever happened to the portfolio
\* during the request, and no line at all if the request brought no tickers.
\* Each line is made of the position's own quantity and own ticker.  The totals
\* are the sums over the lines, to which a missing one adds nothing; the total of
\* a greek is NaN if, and only if, it is NaN in one of the lines (account.py,
\* lines 308-384).
GreeksAccounted ==
  Answered("get_portfolio_greeks") =>
    LET lines == answer.lines
        options == { p \in P : Contract[p].secType \in {"OPT", "FOP"} /\ seen[p] # 0
                               /\ AccountOf[p] = answer.account }
    IN /\ IF received.some /\ received.quotes = << >> THEN lines = << >>
          ELSE /\ { lines[i].position : i \in DOMAIN lines } = options
               /\ Len(lines) = Cardinality(options)
       /\ \A i \in DOMAIN lines :
            lines[i].quantity = seen[lines[i].position] /\ Explained(lines[i])
       /\ \A g \in GreekNames :
            answer.totals[g] =
              IF \E i \in DOMAIN lines : Spoils(lines[i], g) THEN NaN ELSE SumOver(lines, g)

-----------------------------------------------------------------------------
(* The calls observed here are calls of ToolCalls, in which there is one.  *)

Me == "me"
Only(x) == [c \in {Me} |-> x]

Calls == INSTANCE ToolCalls WITH
  Calls <- {Me},
  has_account <- account_id # None \/ managed # {},
  env_valid <- TRUE,
  pc <- Only(pc),
  tool <- Only(tool),
  step <- Only(IF pc = "done" /\ received.some THEN 1 ELSE 0),
  reply <- Only(reply),
  answer <- Only(answer.code),
  owner <- IF pc = "awaiting" THEN Me ELSE None,
  waiters <- << >>,
  outstanding <- IF reply = "pending" THEN {Me} ELSE {}

\* What a tool answers from copies and replies is what ToolCalls lets it
\* answer: the same codes, after the same requests, on the same connection
\* (the handlers of orders.py and account.py).
ImplementsToolCalls == Calls!Spec
===============================================================================
