------------------------------- MODULE DataTools -------------------------------
(***************************************************************************)
(* What a call of a market data, contract or Flex tool asks for and what   *)
(* it answers (tools/market.py, tools/contracts.py, tools/flex.py).        *)
(*                                                                         *)
(* One call after the other is observed, in one session.  A request is     *)
(* sent on the connection and answered with a sequence, empty if there is  *)
(* nothing; it may also raise.  Awaiting covers the wait for ib_lock and   *)
(* for the reply (ToolCalls tells them apart, and the cancelled calls).    *)
(* The fields of a ticker are abstracted to its contract and its greeks.   *)
(***************************************************************************)
EXTENDS Arguments, FiniteSetsExt

CONSTANTS
  NaN,           \* float("nan"), ib_async's mark of a missing number
  Instruments,   \* arguments that describe a contract
  Chains,        \* arguments of get_option_chain
  FlexCalls,     \* arguments of get_flex_query
  Durations,     \* arguments `duration`
  Registries,    \* values of IB_FLEX_QUERIES
  Exceptions,    \* what requests may raise, the loss of the connection apart
  Params,        \* what the gateway may know of the option chains of a symbol
  Quotes,        \* what it may say of an option: a bundle or None per name
  Bars,          \* what it may say of a past: sequences of prices
  Details,       \* what it may know of a contract, None for a blank field
  Reports        \* what may be downloaded: records, or None, per topic

InstrumentTools == {"get_market_data", "get_historical_data", "get_contract_details"}
FlexTools == {"list_flex_queries", "get_flex_query"}
Tools == InstrumentTools \cup FlexTools \cup {"get_option_chain"}

Codes ==
  {"ok", "IB_NOT_CONNECTED", "IB_TIMEOUT", "IB_ACCOUNT_NOT_FOUND", "IB_INVALID_CONTRACT",
   "IB_NO_MARKET_DATA", "IB_FLEX_ERROR", "VALIDATION_ERROR", "NOT_IMPLEMENTED"}
Number == Int \cup {None}
Text == STRING \cup {None}
Letters == Seq(STRING)

ASSUME NamesAssumption == None \notin Tools \cup Codes

\* What the schemas of the tools let through.
ASSUME ArgumentsAssumption ==
  /\ Instruments \subseteq [symbol : Letters, secType : STRING, exchange : STRING,
                           currency : Letters, expiry : Text, strike : Number, right : Text]
  /\ Chains \subseteq [symbol : Letters, exchange : STRING, currency : Letters,
                      expiry : Text, right : Text]
  /\ FlexCalls \subseteq [queryId : Text, queryName : Text, topic : Text]
  /\ \A r \in Registries : r = None \/ r \in Seq([queryId : Text, queryName : Text])

\* A duration that is ISO 8601 has every unit, one that is native has its one.
ASSUME DurationsAssumption ==
  \A d \in Durations :
    /\ d.form \in {"native", "iso", "other"}
    /\ d.form = "native" => d.value \in Nat /\ d.unit \in {"S", "D", "W", "M", "Y"}
    /\ d.form = "iso" => /\ d.date \in [{"Y", "M", "W", "D"} -> Nat]
                         /\ d.time \in [{"H", "M", "S"} -> Nat]

\* A message that holds one hint holds the hints which that one holds.
ASSUME ExceptionsAssumption ==
  /\ None \notin Exceptions
  /\ \A e \in Exceptions :
       /\ e.type # "connection" /\ "not connected" \notin e.says
       /\ "requested market data is not subscribed" \in e.says
            => "market data is not subscribed" \in e.says

\* What ib_async makes of a reply: numbers are numbers, each list is finite.
ASSUME RepliesAssumption ==
  /\ Params \subseteq Seq([exchange : STRING, expirations : SUBSET STRING,
                           strikes : SUBSET Int, multiplier : Nat \cup {None}])
  /\ \A chains \in Params : \A i \in DOMAIN chains : IsFiniteSet(chains[i].strikes)

VARIABLES
  is_connected,  \* manager.is_connected
  queries,       \* settings.IB_FLEX_QUERIES
  pc,            \* "idle", "awaiting", "downloading" or "done"
  tool,          \* the tool called
  args,          \* its arguments
  sent,          \* the requests it has sent
  replies,       \* what they were answered with
  reply,         \* the state of the future it awaits
  raised,        \* the exception, if that is what came
  answer         \* the answer

vars == << is_connected, queries, pc, tool, args, sent, replies, reply, raised, answer >>

-----------------------------------------------------------------------------
(* The data of an answer.                                                  *)

GreekNames == {"delta", "gamma", "theta", "vega", "impliedVolatility"}
GREEKS_PRIORITY == << "modelGreeks", "lastGreeks", "bidGreeks", "askGreeks" >>

safe_float(value) == IF value = NaN THEN None ELSE value

\* Slip: a bundle is skipped only if it is missing.
FirstBundle(quote) ==
  LET first == SelectInSeq(GREEKS_PRIORITY, LAMBDA b : quote[b] # None)
  IN [n \in GreekNames |-> IF first = 0 THEN None
                           ELSE safe_float(quote[GREEKS_PRIORITY[first]][n])]
\* The greeks of the first bundle with any number in it.
extract_greeks(quote) ==
  LET HasAny(b) == quote[b] # None /\ \E n \in GreekNames : safe_float(quote[b][n]) # None
      first == SelectInSeq(GREEKS_PRIORITY, HasAny)
  IN [n \in GreekNames |-> IF first = 0 THEN None
                           ELSE safe_float(quote[GREEKS_PRIORITY[first]][n])]

\* get_market_data: greeks are for options only.
MarketData(a, ticker) ==
  [of |-> ticker.contract,
   greeks |-> IF Upper(a.secType) \in {"OPT", "FOP"} THEN extract_greeks(ticker.quote)
              ELSE None]

HistoricalBars(bars) == [i \in DOMAIN bars |-> safe_float(bars[i])]

\* get_contract_details: the first match, what it lacks taken from the request.
DetailsToResponse(a, details) ==
  LET sec == IF details.secType = None THEN Upper(a.secType) ELSE details.secType
      option == sec \in {"OPT", "FOP"}
      expires == IF details.realExpirationDate = None THEN details.expiry
                 ELSE details.realExpirationDate
  IN [secType |-> sec,
      exchange |-> IF details.exchange = None THEN a.exchange ELSE details.exchange,
      expiry |-> IF option THEN details.expiry ELSE None,
      lastTradeDate |-> IF option THEN expires ELSE None]

\* get_option_chain: the chains of all exchanges, put together.
Expirations(chains) == UNION { chain.expirations : chain \in ToSet(chains) }
Strikes(chains) == UNION { chain.strikes : chain \in ToSet(chains) }
Exchanges(chains) == { chain.exchange : chain \in ToSet(chains) } \ {""}
\* Slip: the multiplier of the last chain, be there one or not.
LastMultiplier(chains) == Last(chains).multiplier
\* That of the last chain that has one.
Multiplier(chains) ==
  FoldLeft(LAMBDA m, chain : IF chain.multiplier = None THEN m ELSE chain.multiplier,
           100, chains)

Sorted(s) ==
  CHOOSE list \in [1..Cardinality(s) -> s] :
    \A i, j \in DOMAIN list : i < j => list[i] < list[j]
\* Strike by strike, and for each the rights asked for.
Descriptors(a, chains) ==
  LET strikes == Sorted(Strikes(chains))
      rights == IF a.right = None THEN << "C", "P" >> ELSE << Upper(a.right) >>
      n == Len(rights)
  IN [i \in 1..(Len(strikes) * n) |->
        << strikes[((i - 1) \div n) + 1], rights[((i - 1) % n) + 1] >>]

Underlying(a) ==
  [symbol |-> a.symbol, secType |-> "STK", exchange |-> a.exchange,
   currency |-> a.currency, expiry |-> None, strike |-> None, right |-> None]
OptionOf(a, descriptor) ==
  Contract([Underlying(a) EXCEPT !.secType = "OPT", !.expiry = a.expiry,
                                 !.strike = descriptor[1], !.right = descriptor[2]])

\* Slip: tickers without greeks are dropped before the zip.
ZipWithGreeks(a, chains, tickers) ==
  LET descriptors == Descriptors(a, chains)
      quoted == SelectSeq(tickers, LAMBDA t : extract_greeks(t.quote) # [n \in GreekNames |-> None])
  IN [i \in DOMAIN quoted |->
        [strike |-> descriptors[i][1], right |-> descriptors[i][2],
         of |-> quoted[i].contract, greeks |-> extract_greeks(quoted[i].quote)]]
\* zip(descriptors, tickers): as many lines as there are tickers.
OptionChainStrikes(a, chains, tickers) ==
  LET descriptors == Descriptors(a, chains)
  IN [i \in DOMAIN tickers |->
        [strike |-> descriptors[i][1], right |-> descriptors[i][2],
         of |-> tickers[i].contract, greeks |-> extract_greeks(tickers[i].quote)]]

\* get_flex_query: the topic asked for, or all of them.  A topic that the
\* report does not have is an empty one.
FlexQuery(a, raw) == resolve_query(a.queryId, a.queryName, parse_registry(raw))
AskedTopics(a, report) == IF Given(a.topic) THEN {a.topic} ELSE DOMAIN report
Extract(report, topic) == IF topic \in DOMAIN report THEN report[topic] ELSE << >>

\* Slip: topics that cannot be parsed are left out.
SkipBrokenTopics(query, a, report) ==
  [query |-> query, parsed |-> TRUE,
   data |-> [t \in { s \in AskedTopics(a, report) : Extract(report, s) # None } |->
               Extract(report, t)]]
\* One topic that cannot be parsed, and the raw XML is answered.
FlexQueryResult(query, a, report) ==
  IF \E t \in AskedTopics(a, report) : Extract(report, t) = None
  THEN [query |-> query, parsed |-> FALSE, data |-> << >>]
  ELSE [query |-> query, parsed |-> TRUE,
        data |-> [t \in AskedTopics(a, report) |-> Extract(report, t)]]

-----------------------------------------------------------------------------
(* The handlers: one action for the start of each, one for each reply.     *)

Respond(response) ==
  /\ pc' = "done"
  /\ answer' = response
  /\ reply' = "none"

Refuse(code) == Respond([code |-> code, data |-> None])
Answer(data) == Respond([code |-> "ok", data |-> data])

Send(kind, contracts, duration) ==
  /\ pc' = "awaiting"
  /\ reply' = "pending"
  /\ sent' = Append(sent, [kind |-> kind, contracts |-> contracts, duration |-> duration])
  /\ UNCHANGED answer

\* Slip: a request that cannot be sent is taken for missing data.
AskOrNoData(kind, contracts) ==
  \/ is_connected /\ Send(kind, contracts, None)
  \/ ~is_connected /\ Refuse("IB_NO_MARKET_DATA") /\ UNCHANGED sent
\* A further request; on a lost connection it raises ConnectionError.
Ask(kind, contracts) ==
  \/ is_connected /\ Send(kind, contracts, None)
  \/ ~is_connected /\ Refuse(map_exception(ConnectionError)) /\ UNCHANGED sent

Begin(t, a) ==
  /\ pc = "idle"
  /\ tool' = t /\ args' = a
  /\ UNCHANGED << is_connected, queries, replies, raised >>

\* What a tool that describes an instrument answers at its first checks.
Rejected(t, a) ==
  /\ Begin(t, a)
  /\ \/ ~is_connected /\ Refuse("IB_NOT_CONNECTED")
     \/ is_connected /\ ValueErrors(a) /\ Refuse("IB_INVALID_CONTRACT")
     \/ is_connected /\ ~ValueErrors(a) /\ BadPair(a) /\ Refuse(map_exception(AssertionError))
  /\ UNCHANGED sent

Accepted(t, a) ==
  Begin(t, a) /\ is_connected /\ ~ValueErrors(a) /\ ~BadPair(a)

GetMarketData(a) ==
  Accepted("get_market_data", a) /\ Send("qualify", << Contract(a) >>, None)

GetContractDetails(a) ==
  Accepted("get_contract_details", a) /\ Send("details", << Contract(a) >>, None)

WithDuration(a, duration) ==
  [f \in DOMAIN a \cup {"duration"} |-> IF f = "duration" THEN duration ELSE a[f]]
\* The contract is not qualified: the request takes it as it is.
GetHistoricalData(a, duration) ==
  /\ Accepted("get_historical_data", WithDuration(a, duration))
  /\ \/ parse_duration(duration) = None /\ Refuse("VALIDATION_ERROR") /\ UNCHANGED sent
     \/ /\ parse_duration(duration) # None
        /\ Send("history", << Contract(a) >>, parse_duration(duration))

GetOptionChain(a) ==
  /\ Begin("get_option_chain", a)
  /\ \/ ~is_connected /\ Refuse("IB_NOT_CONNECTED") /\ UNCHANGED sent
     \/ /\ is_connected /\ ValueErrors(Underlying(a))
        /\ Refuse("IB_INVALID_CONTRACT") /\ UNCHANGED sent
     \/ /\ is_connected /\ ~ValueErrors(Underlying(a))
        /\ Send("qualify", << Contract(Underlying(a)) >>, None)

ListFlexQueries ==
  /\ Begin("list_flex_queries", None)
  /\ Answer(parse_registry(queries))
  /\ UNCHANGED sent

\* Without a token the tool is not registered.
GetFlexQuery(a) ==
  LET query == FlexQuery(a, queries)
  IN /\ Begin("get_flex_query", a)
     /\ \/ query = None /\ Refuse("VALIDATION_ERROR") /\ UNCHANGED sent
        \/ /\ query # None
           /\ pc' = "downloading"
           /\ sent' = << [kind |-> "download", query |-> query.queryId] >>
           /\ UNCHANGED << reply, answer >>

\* The reply the handler goes on with.
Got(t, k) == reply \in {"data", "empty"} /\ tool = t /\ Len(replies) = k
Received == Last(replies)
Resolved == [Last(sent).contracts[1] EXCEPT !.conId = Received[1]]

MarketDataQualified ==
  /\ Got("get_market_data", 1)
  /\ \/ Received = << >> /\ Refuse("IB_INVALID_CONTRACT") /\ UNCHANGED sent
     \/ Received # << >> /\ Ask("tickers", << Resolved >>)

MarketDataQuoted ==
  /\ Got("get_market_data", 2)
  /\ \/ Received = << >> /\ Refuse("IB_NO_MARKET_DATA")
     \/ Received # << >> /\ Answer(MarketData(args, Received[1]))
  /\ UNCHANGED sent

HistoryReceived ==
  Got("get_historical_data", 1) /\ Answer(HistoricalBars(Received)) /\ UNCHANGED sent

DetailsReceived ==
  /\ Got("get_contract_details", 1)
  /\ \/ Received = << >> /\ Refuse("IB_INVALID_CONTRACT")
     \/ Received # << >> /\ Answer(DetailsToResponse(args, Received[1]))
  /\ UNCHANGED sent

UnderlyingQualified ==
  /\ Got("get_option_chain", 1)
  /\ \/ Received = << >> /\ Refuse("IB_INVALID_CONTRACT") /\ UNCHANGED sent
     \/ Received # << >> /\ Ask("params", << Resolved >>)

\* Slip: the snapshots are fetched for an expiry that is not offered, too.
AnyExpiry(a, chains) == Given(a.expiry)
OfferedExpiry(a, chains) == Given(a.expiry) /\ a.expiry \in Expirations(chains)
GoodRight(a) == a.right = None \/ Upper(a.right) \in {"C", "P"}

\* A request for no contracts at all has its answer at once.
ChainReceived ==
  LET descriptors == Descriptors(args, Received)
      contracts == [i \in DOMAIN descriptors |-> OptionOf(args, descriptors[i])]
  IN
  /\ Got("get_option_chain", 2)
  /\ \/ Received = << >> /\ Refuse("IB_NO_MARKET_DATA") /\ UNCHANGED sent
     \/ /\ Received # << >> /\ ~Given(args.expiry)
        /\ Answer([exchanges |-> Exchanges(Received), expirations |-> Expirations(Received),
                   strikes |-> Strikes(Received), multiplier |-> Multiplier(Received)])
        /\ UNCHANGED sent
     \/ /\ Received # << >> /\ Given(args.expiry) /\ ~OfferedExpiry(args, Received)
        /\ Refuse("IB_INVALID_CONTRACT") /\ UNCHANGED sent
     \/ /\ OfferedExpiry(args, Received) /\ ~GoodRight(args)
        /\ Refuse("VALIDATION_ERROR") /\ UNCHANGED sent
     \/ /\ OfferedExpiry(args, Received) /\ GoodRight(args) /\ contracts # << >>
        /\ Ask("tickers", contracts)
     \/ /\ OfferedExpiry(args, Received) /\ GoodRight(args) /\ contracts = << >>
        /\ Answer([multiplier |-> Multiplier(Received), lines |-> << >>])
        /\ UNCHANGED sent

ChainQuoted ==
  /\ Got("get_option_chain", 3)
  /\ Answer([multiplier |-> Multiplier(replies[2]),
             lines |-> OptionChainStrikes(args, replies[2], Received)])
  /\ UNCHANGED sent

\* The error handler answers what a request raises.
RequestFails ==
  /\ \/ reply = "lost" /\ Refuse(map_exception(ConnectionError))
     \/ reply = "raised" /\ Refuse(map_exception(raised))
  /\ UNCHANGED sent

Resume ==
  /\ pc = "awaiting"
  /\ \/ MarketDataQualified \/ MarketDataQuoted \/ HistoryReceived \/ DetailsReceived
     \/ UnderlyingQualified \/ ChainReceived \/ ChainQuoted
     \/ RequestFails
  /\ UNCHANGED << is_connected, queries, tool, args, replies, raised >>

\* The download thread ends, with a report or with an exception.
DownloadEnds ==
  /\ pc = "downloading"
  /\ \/ Refuse("IB_FLEX_ERROR") /\ UNCHANGED replies
     \/ \E report \in Reports :
          Answer(FlexQueryResult(FlexQuery(args, queries), args, report)) /\ replies' = << report >>
  /\ UNCHANGED << is_connected, queries, tool, args, sent, raised >>

Collect ==
  /\ pc = "done"
  /\ pc' = "idle"
  /\ tool' = None /\ args' = None /\ raised' = None /\ answer' = [code |-> None, data |-> None]
  /\ sent' = << >> /\ replies' = << >>
  /\ UNCHANGED << is_connected, queries, reply >>

-----------------------------------------------------------------------------
(* The gateway and ib_async.                                               *)

\* One ticker per contract, in the order of the contracts, or none at all.
Tickers(contracts) ==
  { [i \in DOMAIN contracts |-> [contract |-> contracts[i], quote |-> q[i]]]
    : q \in [DOMAIN contracts -> Quotes] } \cup {<< >>}

Replies(request) ==
  CASE request.kind = "qualify" -> {<< >>, << 1 >>}
    [] request.kind = "tickers" -> Tickers(request.contracts)
    [] request.kind = "params" -> Params
    [] request.kind = "history" -> Bars
    [] request.kind = "details" -> Details

GatewayReplies ==
  /\ reply = "pending"
  /\ \E r \in Replies(Last(sent)) :
       /\ replies' = Append(replies, r)
       /\ reply' = IF r = << >> THEN "empty" ELSE "data"
  /\ UNCHANGED << is_connected, queries, pc, tool, args, sent, raised, answer >>

RequestRaises ==
  /\ reply = "pending"
  /\ reply' = "raised"
  /\ raised' \in Exceptions
  /\ UNCHANGED << is_connected, queries, pc, tool, args, sent, replies, answer >>

\* The connection is lost for good.
Lose ==
  /\ is_connected
  /\ is_connected' = FALSE
  /\ reply' = IF reply = "pending" THEN "lost" ELSE reply
  /\ UNCHANGED << queries, pc, tool, args, sent, replies, raised, answer >>

-----------------------------------------------------------------------------

Init ==
  /\ is_connected \in BOOLEAN
  /\ queries \in Registries
  /\ pc = "idle" /\ tool = None /\ args = None /\ raised = None
  /\ answer = [code |-> None, data |-> None]
  /\ sent = << >> /\ replies = << >> /\ reply = "none"

Invoke ==
  \/ \E a \in Instruments :
       \/ GetMarketData(a) \/ GetContractDetails(a)
       \/ \E duration \in Durations : GetHistoricalData(a, duration)
       \/ \E t \in InstrumentTools : Rejected(t, a)
  \/ \E a \in Chains : GetOptionChain(a)
  \/ ListFlexQueries
  \/ \E a \in FlexCalls : GetFlexQuery(a)

Next ==
  Invoke \/ Resume \/ DownloadEnds \/ Collect \/ GatewayReplies \/ RequestRaises \/ Lose

Spec == Init /\ [][Next]_vars
-----------------------------------------------------------------------------
(* What must hold.                                                         *)

Answered(t) == pc = "done" /\ tool = t /\ answer.code = "ok"

\* Every variable has its type: the one type invariant of the module.
TypeOK ==
  /\ is_connected \in BOOLEAN
  /\ queries \in Registries
  /\ pc \in {"idle", "awaiting", "downloading", "done"}
  /\ tool \in Tools \cup {None}
  /\ tool # "get_historical_data" => args \in Instruments \cup Chains \cup FlexCalls \cup {None}
  /\ Len(sent) <= 3 /\ Len(replies) <= Len(sent)
  /\ reply \in {"none", "pending", "data", "empty", "raised", "lost"}
  /\ raised \in Exceptions \cup {None}
  /\ answer.code \in Codes \cup {None}
  /\ Answered("get_option_chain") => answer.data.multiplier \in Nat

\* Every contract that a request names is complete for its type, says what the
\* client asked for, field by field, and is the one that the gateway resolved
\* where the tool has it resolved (contracts.py, lines 40-88; market.py, 110-120).
RequestsAsAsked ==
  \A i \in DOMAIN sent : tool \notin FlexTools =>
    \A c \in ToSet(sent[i].contracts) :
      /\ c.symbol \o c.currency = args.symbol \o args.currency /\ c.symbol # << >>
      /\ c.secType = "OPT" => (None \notin {c.expiry, c.strike} /\ c.right \in {"C", "P"})
      /\ c.secType = "FUT" => c.expiry # None
      /\ c.secType \in {"OPT", "FUT"} => c.expiry = args.expiry
      /\ c.secType = "OPT" /\ tool \in InstrumentTools =>
           c.strike = args.strike /\ c.right = Upper(args.right)
      /\ \/ c.exchange = args.exchange
         \/ c.secType = "CASH" /\ args.exchange = "" /\ c.exchange = "IDEALPRO"
      /\ c.secType = "CASH" => Len(c.symbol) = 1 /\ Len(c.currency) = 1
      /\ tool = "get_market_data" /\ i = 2 => c.conId = replies[1][1]
      /\ tool \in InstrumentTools => c.secType = Upper(args.secType)

\* What a duration spans, in the three units that do not convert.
IbSpan(d) ==
  [months |-> IF d.unit = "Y" THEN 12 * d.value ELSE IF d.unit = "M" THEN d.value ELSE 0,
   days |-> IF d.unit = "W" THEN 7 * d.value ELSE IF d.unit = "D" THEN d.value ELSE 0,
   seconds |-> IF d.unit = "S" THEN d.value ELSE 0]
IsoSpan(d) ==
  [months |-> 12 * d.date.Y + d.date.M, days |-> 7 * d.date.W + d.date.D,
   seconds |-> 3600 * d.time.H + 60 * d.time.M + d.time.S]

\* The history asked of the gateway spans exactly what the client asked for,
\* in whichever of the two notations; a duration is refused only if it is
\* neither, or zero, or in more units than IB can say at once; and every bar
\* that comes is in the answer (durations.py, lines 41-90; market.py, 207-232).
HistoryAsAsked ==
  tool = "get_historical_data" /\ "duration" \in DOMAIN args =>
    LET d == args.duration
        units == { u \in DOMAIN d.date : d.date[u] # 0 }
        timed == \E u \in DOMAIN d.time : d.time[u] # 0
    IN /\ \A i \in DOMAIN sent :
            \/ d.form = "native" /\ IbSpan(sent[i].duration) = IbSpan(d)
            \/ d.form = "iso" /\ IbSpan(sent[i].duration) = IsoSpan(d)
       /\ sent = << >> /\ answer.code = "VALIDATION_ERROR" =>
            \/ d.form = "other"
            \/ d.form = "iso" /\ Cardinality(units) # IF timed THEN 0 ELSE 1
       /\ answer.code = "ok" =>
            /\ DOMAIN answer.data = DOMAIN replies[1]
            /\ \A i \in DOMAIN answer.data :
                 answer.data[i] = IF replies[1][i] = NaN THEN None ELSE replies[1][i]

\* A full chain has a line for every strike known and every right asked for,
\* each once, and each made of the ticker of its own contract: nothing but
\* their order pairs the two (market.py, lines 346-401).
ChainPaired ==
  Answered("get_option_chain") /\ Given(args.expiry) /\ Len(replies) = 3 =>
    LET lines == answer.data.lines
        strikes == UNION { chain.strikes : chain \in ToSet(replies[2]) }
        rights == IF args.right = None THEN {"C", "P"} ELSE {Upper(args.right)}
    IN /\ replies[3] # << >> =>
            /\ { << line.strike, line.right >> : line \in ToSet(lines) } = strikes \X rights
            /\ Len(lines) = Cardinality(strikes) * Cardinality(rights)
       /\ \A line \in ToSet(lines) :
            /\ line.of.strike = line.strike /\ line.of.right = line.right
            /\ line.of.expiry = args.expiry /\ line.of.symbol = args.symbol

\* Greeks that a quote may be answered with: all of one bundle, numbers only,
\* and there is none only if no bundle has any number.
Explained(greeks, quote) ==
  LET Says(b, n) == quote[b] # None /\ quote[b][n] \notin {None, NaN}
      Silent(b) == \A n \in GreekNames : ~Says(b, n)
  IN \/ /\ \A i \in DOMAIN GREEKS_PRIORITY : Silent(GREEKS_PRIORITY[i])
        /\ \A n \in GreekNames : greeks[n] = None
     \/ \E i \in DOMAIN GREEKS_PRIORITY :
          /\ ~Silent(GREEKS_PRIORITY[i])
          /\ \A j \in 1..(i - 1) : Silent(GREEKS_PRIORITY[j])
          /\ \A n \in GreekNames :
               greeks[n] = IF Says(GREEKS_PRIORITY[i], n) THEN quote[GREEKS_PRIORITY[i]][n]
                           ELSE None

\* The greeks of an option are those of one bundle, the first that says
\* anything at all, and a bundle full of NaN says nothing; a quote is that of
\* the contract it is answered for (market.py, lines 36-72, 121-166).
GreeksFromOneBundle ==
  /\ Answered("get_market_data") =>
       /\ answer.data.of = Last(sent).contracts[1]
       /\ IF Upper(args.secType) = "OPT"
          THEN Explained(answer.data.greeks, Last(replies)[1].quote)
          ELSE answer.data.greeks = None
  /\ Answered("get_option_chain") /\ Len(replies) = 3 =>
       \A line \in ToSet(answer.data.lines) :
         \E ticker \in ToSet(replies[3]) :
           ticker.contract = line.of /\ Explained(line.greeks, ticker.quote)

\* The snapshots of a chain are fetched only for an expiry that was asked for
\* and that a chain of this very call offers: discovery fetches none
\* (market.py, line 319: "NEVER fetch per-contract data").
DiscoveryNeverFetches ==
  tool = "get_option_chain" /\ Len(sent) = 3 =>
    \E chain \in ToSet(replies[2]) : args.expiry \in chain.expirations

\* No error blames the wrong cause.  A contract is called invalid only for
\* arguments that miss something, for a contract or a given expiry that the gateway
\* does not know, or if the exception says so; missing data only for an empty
\* reply or an exception about permissions, even one that names an account; a
\* timeout is always told as a timeout (errors.py, lines 50-90, and the
\* handlers' early returns).
Says(hint) == raised # None /\ hint \in raised.says
SaysContract == Says("no security definition") \/ Says("ambiguous contract")
SaysData == Says("no market data permission") \/ Says("market data is not subscribed")
Untyped == raised # None /\ raised.type \notin DOMAIN TypeCodes

ErrorsHaveCauses ==
  pc = "done" =>
    /\ answer.code = "IB_NOT_CONNECTED" => ~is_connected
    /\ (answer.code = "IB_TIMEOUT") <=> (raised # None /\ raised.type = "timeout")
    /\ answer.code = "IB_INVALID_CONTRACT" =>
         \/ Untyped /\ SaysContract
         \/ raised = None /\ sent = << >> /\ args.symbol = << >>
         \/ raised = None /\ sent = << >> /\ tool \in InstrumentTools /\ ValueErrors(args)
         \/ raised = None /\ replies = << << >> >>
         \/ /\ raised = None /\ Len(replies) = 2 /\ Given(args.expiry)
            /\ \A chain \in ToSet(replies[2]) : args.expiry \notin chain.expirations
    /\ answer.code = "IB_NO_MARKET_DATA" =>
         \/ Untyped /\ SaysData /\ ~SaysContract
         \/ raised = None /\ Len(replies) = 2 /\ replies[2] = << >>
    /\ answer.code = "IB_ACCOUNT_NOT_FOUND" =>
         Untyped /\ Says("account") /\ ~SaysContract /\ ~SaysData /\ ~Says("flex")
    /\ answer.code = "IB_FLEX_ERROR" =>
         \/ tool = "get_flex_query"
         \/ Untyped /\ Says("flex") /\ ~SaysContract /\ ~SaysData

Entries == IF queries = None THEN {} ELSE ToSet(queries)

\* The query downloaded is the one that the client named, by exactly one of
\* id and name, an empty text being neither, and the answer gives its id and a
\* name that is its own in the registry, whatever else the registry holds:
\* entries that lack a field, two queries of one name, two names of one query
\* (flex.py, lines 55-90).
FlexRightQuery ==
  tool = "get_flex_query" /\ sent # << >> =>
    /\ (args.queryId \in {None, ""}) # (args.queryName \in {None, ""})
    /\ args.queryId \in {None, "", sent[1].query}
    /\ args.queryName \notin {None, ""} =>
         [queryId |-> sent[1].query, queryName |-> args.queryName] \in Entries
    /\ answer.code = "ok" =>
         /\ answer.data.query.queryId = sent[1].query
         /\ answer.data.query.queryName = None \/ answer.data.query \in Entries

\* A parsed answer has every record of every topic asked for, of all topics if
\* none is named or the name is empty, a topic without records as an empty one;
\* if one of them cannot be parsed the answer is the raw report, never a part of
\* the topics (flex.py, lines 160-190).
FlexAllOrRaw ==
  Answered("get_flex_query") =>
    LET report == replies[1]
        topics == IF args.topic \in {None, ""} THEN DOMAIN report ELSE {args.topic}
        broken == \E t \in topics \cap DOMAIN report : report[t] = None
    IN /\ answer.data.parsed <=> ~broken
       /\ answer.data.parsed =>
            /\ DOMAIN answer.data.data = topics
            /\ \A t \in topics \cap DOMAIN report : answer.data.data[t] = report[t]

-----------------------------------------------------------------------------
(* The calls observed here are calls of ToolCalls, in which there is one.  *)

Me == "me"
Only(x) == [c \in {Me} |-> x]
Consumed == IF reply \in {"data", "empty"} THEN Len(replies) - 1 ELSE Len(replies)

Calls == INSTANCE ToolCalls WITH
  Calls <- {Me},
  has_account <- TRUE,
  env_valid <- TRUE,
  pc <- Only(pc),
  tool <- Only(tool),
  step <- Only(IF tool = "get_flex_query" THEN 0 ELSE Consumed),
  reply <- Only(reply),
  answer <- Only(answer.code),
  owner <- IF pc = "awaiting" THEN Me ELSE None,
  waiters <- << >>,
  outstanding <- IF reply = "pending" THEN {Me} ELSE {}

\* With their data these tools still answer with the codes, after the requests
\* and on the connection that ToolCalls says, which knows nothing of the data
\* (the handlers of market.py, contracts.py and flex.py).
ImplementsToolCalls == Calls!Spec
===============================================================================
