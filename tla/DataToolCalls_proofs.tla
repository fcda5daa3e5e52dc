-------------------------- MODULE DataToolCalls_proofs --------------------------
(***************************************************************************)
(* DataTools implements ToolCalls, for every value of the constants: with  *)
(* their data, the market data, contract and Flex tools still make the     *)
(* requests and give the codes that ToolCalls says.                        *)
(***************************************************************************)
EXTENDS DataTools_proofs

-----------------------------------------------------------------------------
(* What the refinement needs of a state.                                   *)

\* A reply is called empty exactly if there is nothing in it.
EmptyIsEmpty ==
  reply \in {"data", "empty"} => (reply = "empty" <=> Last(replies) = << >>)

CInv == DInv /\ EmptyIsEmpty

LEMMA EmptyStep ==
  ASSUME CInv, [Next]_vars
  PROVE  EmptyIsEmpty'
<1> USE DEF CInv
<1>1. CASE GatewayReplies
  <2>1. PICK r : /\ replies' = Append(replies, r)
                 /\ reply' = IF r = << >> THEN "empty" ELSE "data"
    BY <1>1 DEF GatewayReplies
  <2>2. Last(replies') = r
    BY <2>1, Appended DEF DInv
  <2> QED
    BY <2>1, <2>2 DEF EmptyIsEmpty
<1>2. CASE RequestRaises
  BY <1>2 DEF RequestRaises, EmptyIsEmpty
<1>3. CASE Lose
  <2>1. replies' = replies
    BY <1>3 DEF Lose
  <2>2. reply' \in {"data", "empty"} => reply' = reply
    BY <1>3 DEF Lose
  <2> QED
    BY <2>1, <2>2 DEF EmptyIsEmpty
<1>4. CASE Collect
  <2>1. reply' = "none"
    BY <1>4 DEF Collect, DInv, Phase
  <2> QED
    BY <2>1 DEF EmptyIsEmpty
<1>5. CASE DownloadEnds
  BY <1>5 DEF DownloadEnds, Refuse, Answer, Respond, EmptyIsEmpty
<1>6. CASE Resume
  <2>1. reply' \in {"none", "pending"}
    BY <1>6 DEF Resume, MarketDataQualified, MarketDataQuoted, HistoryReceived, DetailsReceived,
                UnderlyingQualified, ChainReceived, ChainQuoted, RequestFails,
                Ask, Send, Refuse, Answer, Respond
  <2> QED
    BY <2>1 DEF EmptyIsEmpty
<1>7. CASE Invoke
  <2>1. reply' \in {"none", "pending"}
    <3>1. pc = "idle"
      BY <1>7 DEF Invoke, GetMarketData, GetContractDetails, GetHistoricalData, Rejected,
                  Accepted, GetOptionChain, ListFlexQueries, GetFlexQuery, Begin
    <3>2. reply = "none"
      BY <3>1 DEF DInv, Phase
    <3> QED
      BY <1>7, <3>2 DEF Invoke, GetMarketData, GetContractDetails, GetHistoricalData, Rejected,
                  GetOptionChain, ListFlexQueries, GetFlexQuery, Send, Refuse, Answer, Respond
  <2> QED
    BY <2>1 DEF EmptyIsEmpty
<1>8. CASE UNCHANGED vars
  BY <1>8 DEF vars, EmptyIsEmpty
<1> QED
  BY <1>1, <1>2, <1>3, <1>4, <1>5, <1>6, <1>7, <1>8 DEF Next

LEMMA CInductive == CInv /\ [Next]_vars => CInv'
BY EmptyStep, DInductive DEF CInv

-----------------------------------------------------------------------------
(* One call as a function of one argument.                                 *)

LEMMA OneCall ==
  ASSUME NEW x, NEW y
  PROVE  Only(x)[Me] = x /\ [Only(x) EXCEPT ![Me] = y] = Only(y)
BY DEF Only

\* The step of ToolCalls that this module's variables stand for.
TheStep == IF tool = "get_flex_query" THEN 0 ELSE Consumed
TheOwner == IF pc = "awaiting" THEN Me ELSE None
TheRequests == IF reply = "pending" THEN {Me} ELSE {}

LEMMA MapsAnswer ==
  ASSUME NEW code, pc' = "done", reply' = "none", answer'.code = code
  PROVE  Calls!Answer(Me, code)
<1>1. Only(pc)' = Only("done") /\ Only(reply)' = Only("none") /\ Only(answer.code)' = Only(code)
  BY DEF Only
<1> QED
  BY <1>1, OneCall DEF Calls!Answer

LEMMA MapsAwait ==
  ASSUME pc' = "awaiting", reply' = "pending", answer' = answer
  PROVE  Calls!Await(Me)
<1>1. Only(pc)' = Only("awaiting") /\ Only(reply)' = Only("pending")
      /\ Only(answer.code)' = Only(answer.code)
  BY DEF Only
<1> QED
  BY <1>1, OneCall DEF Calls!Await

\* A call that begins.
LEMMA MapsBegin ==
  ASSUME DInv, NEW t \in Tools, NEW a, Begin(t, a)
  PROVE  /\ Only(pc)[Me] = "idle" /\ Only(tool)' = [Only(tool) EXCEPT ![Me] = t]
         /\ pc = "idle" /\ tool' = t /\ is_connected' = is_connected
         /\ TheOwner = None /\ TheRequests = {} /\ TheStep = 0
         /\ reply' \in {"none", "pending"} => TheStep' = 0
<1>1. pc = "idle" /\ tool' = t /\ reply = "none" /\ replies = << >> /\ replies' = << >>
      /\ tool = None /\ is_connected' = is_connected
  BY Begun DEF Begin, DInv, Phase
<1>2. Len(replies) = 0 /\ Len(replies') = 0
  BY <1>1
<1>3. Only(pc)[Me] = "idle" /\ Only(tool)' = [Only(tool) EXCEPT ![Me] = t]
  <2>1. Only(tool)' = Only(t)
    BY <1>1 DEF Only
  <2> QED
    BY <1>1, <2>1, OneCall
<1>4. TheOwner = None /\ TheRequests = {}
  BY <1>1 DEF TheOwner, TheRequests
<1>5. TheStep = 0
  BY <1>1, <1>2 DEF TheStep, Consumed
<1>6. reply' \in {"none", "pending"} => TheStep' = 0
  BY <1>2 DEF TheStep, Consumed
<1> QED
  BY <1>1, <1>3, <1>4, <1>5, <1>6

LEMMA MapsImmediate ==
  ASSUME DInv, NEW t \in Tools, NEW a, Begin(t, a), NEW code,
         pc' = "done", reply' = "none", answer'.code = code, code \in Calls!ImmediateAnswers(t)
  PROVE  Calls!Invoke(Me)
<1>1. Calls!Answer(Me, code)
  BY MapsAnswer
<1>2. /\ Only(pc)[Me] = "idle" /\ Only(tool)' = [Only(tool) EXCEPT ![Me] = t]
      /\ is_connected' = is_connected /\ TheStep = 0 /\ TheStep' = 0
      /\ TheOwner = None /\ TheRequests = {}
  BY MapsBegin
<1>3. TheOwner' = None /\ TheRequests' = {}
  BY DEF TheOwner, TheRequests
<1>4. Only(TheStep)' = Only(TheStep)
  BY <1>2 DEF Only
<1> QED
  BY <1>1, <1>2, <1>3, <1>4 DEF Calls!Invoke, Calls!connVars, TheStep, TheOwner, TheRequests

LEMMA MapsFirstRequest ==
  ASSUME DInv, NEW t \in Tools, NEW a, Begin(t, a), is_connected,
         t \in Calls!GatewayTools \ Calls!LockFreeTools,
         pc' = "awaiting", reply' = "pending", answer' = answer
  PROVE  Calls!Invoke(Me)
<1>1. Calls!Await(Me)
  BY MapsAwait
<1>2. /\ Only(pc)[Me] = "idle" /\ Only(tool)' = [Only(tool) EXCEPT ![Me] = t]
      /\ is_connected' = is_connected /\ TheStep = 0 /\ TheStep' = 0 /\ TheOwner = None
  BY MapsBegin
<1>3. TheOwner' = Me
  BY DEF TheOwner
<1>4. Only(TheStep)' = Only(TheStep)
  BY <1>2 DEF Only
<1>5. Calls!AsksGateway(t)
  BY DEF Calls!AsksGateway, Calls!Proceeds
<1>6. Calls!EnterSection(Me)
  BY <1>1, <1>2, <1>3 DEF Calls!EnterSection, TheOwner
<1> QED
  BY <1>2, <1>4, <1>5, <1>6 DEF Calls!Invoke, Calls!connVars, TheStep

LEMMA MapsDownload ==
  ASSUME DInv, NEW a, Begin("get_flex_query", a), pc' = "downloading",
         UNCHANGED << reply, answer >>
  PROVE  Calls!Invoke(Me)
<1> DEFINE t == "get_flex_query"
<1>1. t \in Tools
  BY DEF Tools, FlexTools
<1>2. /\ Only(pc)[Me] = "idle" /\ Only(tool)' = [Only(tool) EXCEPT ![Me] = t]
      /\ pc = "idle" /\ tool' = t /\ is_connected' = is_connected /\ TheStep = 0
  BY <1>1, MapsBegin
<1>3. TheStep' = 0
  BY <1>2 DEF TheStep
<1>4. TheOwner' = TheOwner /\ TheRequests' = TheRequests
  BY <1>2 DEF TheOwner, TheRequests
<1>5. Only(TheStep)' = Only(TheStep) /\ Only(reply)' = Only(reply)
      /\ Only(answer.code)' = Only(answer.code)
  BY <1>2, <1>3 DEF Only
<1>6. Only(pc)' = [Only(pc) EXCEPT ![Me] = "downloading"]
  <2>1. Only(pc)' = Only("downloading")
    BY DEF Only
  <2> QED
    BY <2>1, OneCall
<1>7. Calls!Downloads(t)
  BY DEF Calls!Downloads, Calls!Proceeds, Calls!GatewayTools, Calls!AccountTools
<1> QED
  BY <1>1, <1>2, <1>4, <1>5, <1>6, <1>7
     DEF Calls!Invoke, Calls!connVars, TheStep, TheOwner, TheRequests

\* A handler that goes on.  Of its k requests all are answered, the last one
\* with a reply or with an exception.
LEMMA MapsResume ==
  ASSUME DInv, pc = "awaiting", HandlerKeeps, reply # "pending",
         reply' \in {"none", "pending"}
  PROVE  /\ Only(pc)[Me] = "awaiting" /\ Only(tool)[Me] = tool /\ Only(reply)[Me] = reply
         /\ Only(TheStep)[Me] = Consumed
         /\ Only(TheStep)' = [Only(TheStep) EXCEPT ![Me] =
                                IF reply \in {"lost", "raised"} THEN @ ELSE Consumed + 1]
         /\ TheOwner = Me /\ TheRequests = {}
         /\ Only(tool)' = Only(tool) /\ is_connected' = is_connected
<1>1. /\ tool # "get_flex_query" /\ tool' = tool /\ replies' = replies
      /\ is_connected' = is_connected /\ Len(replies) \in Nat
      /\ reply \in {"data", "empty", "raised", "lost"}
  BY Waiting DEF HandlerKeeps, FlexTools, DInv, Phase
<1>2. TheStep = Consumed
  BY <1>1 DEF TheStep
<1>3. TheStep' = IF reply \in {"lost", "raised"} THEN Consumed ELSE Consumed + 1
  BY <1>1 DEF TheStep, Consumed
<1>4. TheOwner = Me /\ TheRequests = {}
  BY DEF TheOwner, TheRequests
<1>5. Only(TheStep)' = [Only(TheStep) EXCEPT ![Me] =
                          IF reply \in {"lost", "raised"} THEN @ ELSE Consumed + 1]
  <2>1. PICK k : k = IF reply \in {"lost", "raised"} THEN Consumed ELSE Consumed + 1
    OBVIOUS
  <2>2. Only(TheStep)' = Only(k)
    BY <1>3, <2>1 DEF Only
  <2>3. [Only(TheStep) EXCEPT ![Me] = k] = Only(k) /\ Only(TheStep)[Me] = Consumed
    BY <1>2, OneCall
  <2> QED
    BY <2>1, <2>2, <2>3
<1>6. Only(tool)' = Only(tool)
  BY <1>1 DEF Only
<1> QED
  BY <1>1, <1>2, <1>4, <1>5, <1>6, OneCall

\* It answers.
LEMMA MapsLastAnswer ==
  ASSUME DInv, pc = "awaiting", HandlerKeeps, reply # "pending", NEW code,
         pc' = "done", reply' = "none", answer'.code = code,
         code \in Calls!AnswersTo(tool, Consumed + 1, reply)
  PROVE  Calls!Resume(Me)
<1>1. Calls!Answer(Me, code)
  BY MapsAnswer
<1>2. TheOwner' = None /\ TheRequests' = {}
  BY DEF TheOwner, TheRequests
<1> QED
  BY <1>1, <1>2, MapsResume DEF Calls!Resume, Calls!connVars, TheStep, TheOwner, TheRequests

\* It sends its next request, or cannot.
LEMMA MapsNextRequest ==
  ASSUME DInv, pc = "awaiting", HandlerKeeps, reply # "pending",
         NEW kind, NEW contracts, Ask(kind, contracts),
         \/ Calls!ContinuesSection(tool, Consumed + 1, reply)
         \/ Calls!OpensSection(tool, Consumed + 1, reply)
  PROVE  Calls!Resume(Me)
<1>1. CASE is_connected /\ Send(kind, contracts, None)
  <2>1. pc' = "awaiting" /\ reply' = "pending" /\ answer' = answer
    BY <1>1 DEF Send
  <2>2. Calls!Await(Me)
    BY <2>1, MapsAwait
  <2>3. TheOwner' = Me
    BY <2>1 DEF TheOwner
  <2> QED
    BY <1>1, <2>1, <2>2, <2>3, MapsResume DEF Calls!Resume, Calls!connVars, TheStep, TheOwner
<1>2. CASE ~is_connected /\ Refuse(map_exception(ConnectionError))
  <2>1. pc' = "done" /\ reply' = "none" /\ answer'.code = "IB_NOT_CONNECTED"
    BY <1>2, LostIsNotConnected DEF Refuse, Respond
  <2>2. Calls!Answer(Me, "IB_NOT_CONNECTED")
    BY <2>1, MapsAnswer
  <2>3. TheOwner' = None /\ TheRequests' = {}
    BY <2>1 DEF TheOwner, TheRequests
  <2> QED
    BY <1>2, <2>1, <2>2, <2>3, MapsResume
       DEF Calls!Resume, Calls!connVars, TheStep, TheOwner, TheRequests
<1> QED
  BY <1>1, <1>2 DEF Ask

-----------------------------------------------------------------------------
(* The refinement, action by action.                                       *)

CallStep == Calls!Next \/ UNCHANGED Calls!vars

LEMMA StepOfMine ==
  ASSUME \/ Calls!Invoke(Me) \/ Calls!Resume(Me) \/ Calls!DownloadEnds(Me)
         \/ Calls!Collect(Me) \/ Calls!GatewayReplies(Me) \/ Calls!Lose
  PROVE  CallStep
BY DEF CallStep, Calls!Next, Calls!Handler, Calls!Client

\* The code of a refusal.
LEMMA Refusal ==
  ASSUME NEW code, Refuse(code)
  PROVE  pc' = "done" /\ reply' = "none" /\ answer'.code = code
BY DEF Refuse, Respond

LEMMA Success ==
  ASSUME NEW data, Answer(data)
  PROVE  pc' = "done" /\ reply' = "none" /\ answer'.code = "ok"
BY DEF Answer, Respond

\* What ToolCalls lets the tools of this module answer at once.
LEMMA Immediately ==
  /\ \A t \in InstrumentTools \cup {"get_option_chain"} :
       /\ t \in Tools /\ t \in Calls!GatewayTools \ Calls!LockFreeTools
       /\ ~is_connected => "IB_NOT_CONNECTED" \in Calls!ImmediateAnswers(t)
       /\ is_connected => "IB_INVALID_CONTRACT" \in Calls!ImmediateAnswers(t)
  /\ \A t \in InstrumentTools :
       is_connected => "VALIDATION_ERROR" \in Calls!ImmediateAnswers(t)
  /\ "list_flex_queries" \in Tools /\ "get_flex_query" \in Tools
  /\ "ok" \in Calls!ImmediateAnswers("list_flex_queries")
  /\ "VALIDATION_ERROR" \in Calls!ImmediateAnswers("get_flex_query")
BY DEF InstrumentTools, FlexTools, Tools, Calls!GatewayTools, Calls!LockFreeTools,
       Calls!AccountTools, Calls!ImmediateAnswers, Calls!UncheckedAnswers,
       Calls!ArgumentErrors, Calls!LocalAnswers

LEMMA RejectedMaps ==
  ASSUME DInv, NEW t \in InstrumentTools, NEW a \in Instruments, Rejected(t, a)
  PROVE  Calls!Invoke(Me)
<1>1. Begin(t, a) /\ t \in Tools
  BY Immediately DEF Rejected
<1>2. PICK code \in Calls!ImmediateAnswers(t) : Refuse(code)
  BY Immediately, AssertionIsValidation DEF Rejected
<1> QED
  BY <1>1, <1>2, Refusal, MapsImmediate

LEMMA FirstRequestMaps ==
  ASSUME DInv, NEW t \in InstrumentTools \cup {"get_option_chain"}, NEW a, Begin(t, a),
         is_connected, NEW kind, NEW contracts, NEW duration, Send(kind, contracts, duration)
  PROVE  Calls!Invoke(Me)
<1>1. t \in Tools /\ t \in Calls!GatewayTools \ Calls!LockFreeTools
  BY Immediately
<1>2. pc' = "awaiting" /\ reply' = "pending" /\ answer' = answer
  BY DEF Send
<1> QED
  BY <1>1, <1>2, MapsFirstRequest

LEMMA InvokeMaps ==
  ASSUME DInv, Invoke
  PROVE  Calls!Invoke(Me)
<1>1. ASSUME NEW a \in Instruments, GetMarketData(a) PROVE Calls!Invoke(Me)
  <2>1. "get_market_data" \in InstrumentTools \cup {"get_option_chain"}
    BY DEF InstrumentTools
  <2> QED
    BY <1>1, <2>1, FirstRequestMaps DEF GetMarketData, Accepted
<1>2. ASSUME NEW a \in Instruments, GetContractDetails(a) PROVE Calls!Invoke(Me)
  <2>1. "get_contract_details" \in InstrumentTools \cup {"get_option_chain"}
    BY DEF InstrumentTools
  <2> QED
    BY <1>2, <2>1, FirstRequestMaps DEF GetContractDetails, Accepted
<1>3. ASSUME NEW a \in Instruments, NEW duration \in Durations, GetHistoricalData(a, duration)
      PROVE  Calls!Invoke(Me)
  <2> DEFINE t == "get_historical_data"
  <2>1. PICK b : b = WithDuration(a, duration)
    OBVIOUS
  <2>2. Begin(t, b) /\ is_connected /\ t \in InstrumentTools /\ t \in Tools
        /\ t \in InstrumentTools \cup {"get_option_chain"}
    BY <1>3, <2>1, Immediately DEF GetHistoricalData, Accepted, InstrumentTools
  <2>3. CASE Refuse("VALIDATION_ERROR")
    BY <2>2, <2>3, Immediately, Refusal, MapsImmediate
  <2>4. CASE Send("history", << Contract(a) >>, parse_duration(duration))
    BY <2>2, <2>4, FirstRequestMaps
  <2> QED
    BY <1>3, <2>3, <2>4 DEF GetHistoricalData
<1>4. ASSUME NEW a \in Chains, GetOptionChain(a) PROVE Calls!Invoke(Me)
  <2> DEFINE t == "get_option_chain"
  <2>1. Begin(t, a) /\ t \in Tools /\ t \in InstrumentTools \cup {"get_option_chain"}
    BY <1>4, Immediately DEF GetOptionChain
  <2>2. CASE ~is_connected /\ Refuse("IB_NOT_CONNECTED")
    BY <2>1, <2>2, Immediately, Refusal, MapsImmediate
  <2>3. CASE is_connected /\ Refuse("IB_INVALID_CONTRACT")
    BY <2>1, <2>3, Immediately, Refusal, MapsImmediate
  <2>4. CASE is_connected /\ Send("qualify", << Contract(Underlying(a)) >>, None)
    BY <2>1, <2>4, FirstRequestMaps
  <2> QED
    BY <1>4, <2>2, <2>3, <2>4 DEF GetOptionChain
<1>5. CASE ListFlexQueries
  BY <1>5, Immediately, Success, MapsImmediate DEF ListFlexQueries
<1>6. ASSUME NEW a \in FlexCalls, GetFlexQuery(a) PROVE Calls!Invoke(Me)
  <2>1. Begin("get_flex_query", a)
    BY <1>6 DEF GetFlexQuery
  <2>2. CASE Refuse("VALIDATION_ERROR")
    BY <2>1, <2>2, Immediately, Refusal, MapsImmediate
  <2>3. CASE pc' = "downloading" /\ UNCHANGED << reply, answer >>
    BY <2>1, <2>3, MapsDownload
  <2> QED
    BY <1>6, <2>2, <2>3 DEF GetFlexQuery
<1> QED
  BY <1>1, <1>2, <1>3, <1>4, <1>5, <1>6, RejectedMaps DEF Invoke

\* What ToolCalls lets a handler make of a reply.
LEMMA AfterReplies ==
  /\ "IB_INVALID_CONTRACT" \in Calls!AnswersTo("get_market_data", 1, "empty")
  /\ "IB_NO_MARKET_DATA" \in Calls!AnswersTo("get_market_data", 2, "empty")
  /\ "ok" \in Calls!AnswersTo("get_market_data", 2, "data")
  /\ \A r \in {"data", "empty"} : "ok" \in Calls!AnswersTo("get_historical_data", 1, r)
  /\ "IB_INVALID_CONTRACT" \in Calls!AnswersTo("get_contract_details", 1, "empty")
  /\ "ok" \in Calls!AnswersTo("get_contract_details", 1, "data")
  /\ "IB_INVALID_CONTRACT" \in Calls!AnswersTo("get_option_chain", 1, "empty")
  /\ "IB_NO_MARKET_DATA" \in Calls!AnswersTo("get_option_chain", 2, "empty")
  /\ {"ok", "IB_INVALID_CONTRACT", "VALIDATION_ERROR"}
       \subseteq Calls!AnswersTo("get_option_chain", 2, "data")
  /\ \A r \in {"data", "empty"} : "ok" \in Calls!AnswersTo("get_option_chain", 3, r)
  /\ Calls!ContinuesSection("get_market_data", 1, "data")
  /\ Calls!ContinuesSection("get_option_chain", 1, "data")
  /\ Calls!OpensSection("get_option_chain", 2, "data")
BY DEF Calls!AnswersTo, Calls!ContinuesSection, Calls!OpensSection, Calls!ResolvingTools

\* ... and of an exception.
LEMMA AfterExceptions ==
  ASSUME NEW t, NEW k
  PROVE  /\ "IB_NOT_CONNECTED" \in Calls!AnswersTo(t, k, "lost")
         /\ \A e \in Exceptions : map_exception(e) \in Calls!AnswersTo(t, k, "raised")
<1>1. Calls!AnswersTo(t, k, "lost") = {"IB_NOT_CONNECTED"}
  BY DEF Calls!AnswersTo
<1>2. Calls!AnswersTo(t, k, "raised") = Calls!RaisedCodes
  BY DEF Calls!AnswersTo
<1>3. ASSUME NEW e \in Exceptions
      PROVE  map_exception(e) \in Calls!RaisedCodes
  <2>1. PICK code : code = map_exception(e)
    OBVIOUS
  <2>2. code \in Codes /\ code # "ok" /\ code # "IB_NOT_CONNECTED"
    BY <2>1, CodesHaveCauses
  <2> QED
    BY <2>1, <2>2 DEF Codes, Calls!Codes, Calls!RaisedCodes
<1> QED
  BY <1>1, <1>2, <1>3

\* The reply that a handler goes on with, as ToolCalls counts and calls it.
LEMMA CountsAndCalls ==
  ASSUME CInv, pc = "awaiting", NEW t \in Tools, NEW k \in Nat, Got(t, k)
  PROVE  /\ DInv /\ tool = t /\ Consumed + 1 = k /\ reply # "pending"
         /\ Received = << >> => reply = "empty"
         /\ Received # << >> => reply = "data"
<1>1. /\ DInv /\ tool = t /\ Len(replies) = k /\ reply \in {"data", "empty"}
  BY DEF CInv, Got
<1>2. Consumed + 1 = k
  BY <1>1 DEF Consumed
<1> QED
  BY <1>1, <1>2 DEF CInv, EmptyIsEmpty, Received

LEMMA MarketDataQualifiedMaps ==
  ASSUME CInv, pc = "awaiting", HandlerKeeps, MarketDataQualified
  PROVE  Calls!Resume(Me)
<1>1. Got("get_market_data", 1) /\ "get_market_data" \in Tools /\ 1 \in Nat
  BY DEF MarketDataQualified, Tools, InstrumentTools
<1>2. CASE Received = << >> /\ Refuse("IB_INVALID_CONTRACT")
  BY <1>1, <1>2, CountsAndCalls, AfterReplies, Refusal, MapsLastAnswer
<1>3. CASE Received # << >> /\ Ask("tickers", << Resolved >>)
  BY <1>1, <1>3, CountsAndCalls, AfterReplies, MapsNextRequest
<1> QED
  BY <1>2, <1>3 DEF MarketDataQualified

LEMMA MarketDataQuotedMaps ==
  ASSUME CInv, pc = "awaiting", HandlerKeeps, MarketDataQuoted
  PROVE  Calls!Resume(Me)
<1>1. Got("get_market_data", 2) /\ "get_market_data" \in Tools /\ 2 \in Nat
  BY DEF MarketDataQuoted, Tools, InstrumentTools
<1>2. CASE Received = << >> /\ Refuse("IB_NO_MARKET_DATA")
  BY <1>1, <1>2, CountsAndCalls, AfterReplies, Refusal, MapsLastAnswer
<1>3. CASE Received # << >> /\ Answer(MarketData(args, Received[1]))
  BY <1>1, <1>3, CountsAndCalls, AfterReplies, Success, MapsLastAnswer
<1> QED
  BY <1>2, <1>3 DEF MarketDataQuoted

LEMMA HistoryReceivedMaps ==
  ASSUME CInv, pc = "awaiting", HandlerKeeps, HistoryReceived
  PROVE  Calls!Resume(Me)
<1>1. Got("get_historical_data", 1) /\ "get_historical_data" \in Tools /\ 1 \in Nat
  BY DEF HistoryReceived, Tools, InstrumentTools
<1>2. reply \in {"data", "empty"} /\ Answer(HistoricalBars(Received))
  BY DEF HistoryReceived, Got
<1> QED
  BY <1>1, <1>2, CountsAndCalls, AfterReplies, Success, MapsLastAnswer

LEMMA DetailsReceivedMaps ==
  ASSUME CInv, pc = "awaiting", HandlerKeeps, DetailsReceived
  PROVE  Calls!Resume(Me)
<1>1. Got("get_contract_details", 1) /\ "get_contract_details" \in Tools /\ 1 \in Nat
  BY DEF DetailsReceived, Tools, InstrumentTools
<1>2. CASE Received = << >> /\ Refuse("IB_INVALID_CONTRACT")
  BY <1>1, <1>2, CountsAndCalls, AfterReplies, Refusal, MapsLastAnswer
<1>3. CASE Received # << >> /\ Answer(DetailsToResponse(args, Received[1]))
  BY <1>1, <1>3, CountsAndCalls, AfterReplies, Success, MapsLastAnswer
<1> QED
  BY <1>2, <1>3 DEF DetailsReceived

LEMMA UnderlyingQualifiedMaps ==
  ASSUME CInv, pc = "awaiting", HandlerKeeps, UnderlyingQualified
  PROVE  Calls!Resume(Me)
<1>1. Got("get_option_chain", 1) /\ "get_option_chain" \in Tools /\ 1 \in Nat
  BY DEF UnderlyingQualified, Tools
<1>2. CASE Received = << >> /\ Refuse("IB_INVALID_CONTRACT")
  BY <1>1, <1>2, CountsAndCalls, AfterReplies, Refusal, MapsLastAnswer
<1>3. CASE Received # << >> /\ Ask("params", << Resolved >>)
  BY <1>1, <1>3, CountsAndCalls, AfterReplies, MapsNextRequest
<1> QED
  BY <1>2, <1>3 DEF UnderlyingQualified

\* An expiry is offered by some chain: there is one.
LEMMA OfferedBySome ==
  ASSUME NEW a, NEW chains, OfferedExpiry(a, chains)
  PROVE  chains # << >>
<1>1. ToSet(<< >>) = {}
  BY DEF ToSet
<1> QED
  BY <1>1 DEF OfferedExpiry, Expirations

LEMMA ChainReceivedMaps ==
  ASSUME CInv, pc = "awaiting", HandlerKeeps, ChainReceived
  PROVE  Calls!Resume(Me)
<1>1. Got("get_option_chain", 2) /\ "get_option_chain" \in Tools /\ 2 \in Nat
  BY DEF ChainReceived, Tools
<1>2. CASE Received = << >> /\ Refuse("IB_NO_MARKET_DATA")
  BY <1>1, <1>2, CountsAndCalls, AfterReplies, Refusal, MapsLastAnswer
<1>3. ASSUME Received # << >>, NEW data, Answer(data)
      PROVE  Calls!Resume(Me)
  BY <1>1, <1>3, CountsAndCalls, AfterReplies, Success, MapsLastAnswer
<1>4. ASSUME Received # << >>, NEW code \in {"IB_INVALID_CONTRACT", "VALIDATION_ERROR"},
             Refuse(code)
      PROVE  Calls!Resume(Me)
  BY <1>1, <1>4, CountsAndCalls, AfterReplies, Refusal, MapsLastAnswer
<1>5. ASSUME Received # << >>, NEW contracts, Ask("tickers", contracts)
      PROVE  Calls!Resume(Me)
  BY <1>1, <1>5, CountsAndCalls, AfterReplies, MapsNextRequest
<1>6. OfferedExpiry(args, Received) => Received # << >>
  BY OfferedBySome
<1> QED
  BY <1>2, <1>3, <1>4, <1>5, <1>6 DEF ChainReceived

LEMMA ChainQuotedMaps ==
  ASSUME CInv, pc = "awaiting", HandlerKeeps, ChainQuoted
  PROVE  Calls!Resume(Me)
<1>1. Got("get_option_chain", 3) /\ "get_option_chain" \in Tools /\ 3 \in Nat
  BY DEF ChainQuoted, Tools
<1>2. PICK data : Answer(data)
  BY DEF ChainQuoted
<1>3. reply \in {"data", "empty"}
  BY <1>1 DEF Got
<1> QED
  BY <1>1, <1>2, <1>3, CountsAndCalls, AfterReplies, Success, MapsLastAnswer

LEMMA RequestFailsMaps ==
  ASSUME CInv, pc = "awaiting", HandlerKeeps, RequestFails
  PROVE  Calls!Resume(Me)
<1>1. CASE reply = "lost" /\ Refuse(map_exception(ConnectionError))
  BY <1>1, LostIsNotConnected, AfterExceptions, Refusal, MapsLastAnswer DEF CInv
<1>2. CASE reply = "raised" /\ Refuse(map_exception(raised))
  <2>1. raised \in Exceptions
    BY <1>2, Waiting DEF CInv
  <2> QED
    BY <1>2, <2>1, AfterExceptions, Refusal, MapsLastAnswer DEF CInv
<1> QED
  BY <1>1, <1>2 DEF RequestFails

LEMMA ResumeMaps ==
  ASSUME CInv, Resume
  PROVE  Calls!Resume(Me)
<1>1. pc = "awaiting" /\ HandlerKeeps
  BY DEF Resume, HandlerKeeps
<1> QED
  BY <1>1, MarketDataQualifiedMaps, MarketDataQuotedMaps, HistoryReceivedMaps,
     DetailsReceivedMaps, UnderlyingQualifiedMaps, ChainReceivedMaps, ChainQuotedMaps,
     RequestFailsMaps
     DEF Resume
-----------------------------------------------------------------------------
(* The download, the client, the gateway and the connection.               *)

\* A step in which nothing of what ToolCalls sees changes.
LEMMA Unseen ==
  ASSUME UNCHANGED << is_connected, pc, tool, answer.code, TheStep, reply >>
  PROVE  UNCHANGED Calls!vars
<1>1. /\ Only(pc)' = Only(pc) /\ Only(tool)' = Only(tool) /\ Only(reply)' = Only(reply)
      /\ Only(answer.code)' = Only(answer.code) /\ Only(TheStep)' = Only(TheStep)
  BY DEF Only
<1>2. TheOwner' = TheOwner /\ TheRequests' = TheRequests
  BY DEF TheOwner, TheRequests
<1> QED
  BY <1>1, <1>2 DEF Calls!vars, Calls!connVars, TheStep, TheOwner, TheRequests

LEMMA DownloadEndsMaps ==
  ASSUME DInv, DownloadEnds
  PROVE  Calls!DownloadEnds(Me)
<1>1. pc = "downloading" /\ tool = "get_flex_query" /\ reply = "none"
      /\ tool' = tool /\ is_connected' = is_connected
  BY DEF DownloadEnds, DInv, Phase
<1>2. PICK code \in {"ok", "IB_FLEX_ERROR"} :
        pc' = "done" /\ reply' = "none" /\ answer'.code = code
  BY DEF DownloadEnds, Refuse, Answer, Respond
<1>3. Calls!Answer(Me, code)
  BY <1>2, MapsAnswer
<1>4. TheStep = 0 /\ TheStep' = 0
  BY <1>1 DEF TheStep
<1>5. Only(TheStep)' = Only(TheStep) /\ Only(tool)' = Only(tool)
  BY <1>1, <1>4 DEF Only
<1>6. TheOwner' = TheOwner /\ TheRequests' = TheRequests
  BY <1>1, <1>2 DEF TheOwner, TheRequests
<1>7. Only(pc)[Me] = "downloading"
  BY <1>1, OneCall
<1> QED
  BY <1>1, <1>3, <1>5, <1>6, <1>7
     DEF Calls!DownloadEnds, Calls!connVars, TheStep, TheOwner, TheRequests

LEMMA CollectMaps ==
  ASSUME DInv, Collect
  PROVE  Calls!Collect(Me)
<1>1. /\ pc = "done" /\ reply = "none" /\ pc' = "idle" /\ tool' = None
      /\ answer'.code = None /\ replies' = << >> /\ reply' = reply
      /\ is_connected' = is_connected
  BY DEF Collect, DInv, Phase
<1>2. TheStep' = 0
  <2>1. Len(replies') = 0
    BY <1>1
  <2> QED
    BY <1>1, <2>1 DEF TheStep, Consumed
<1>3. /\ Only(pc)' = Only("idle") /\ Only(tool)' = Only(None) /\ Only(reply)' = Only(reply)
      /\ Only(answer.code)' = Only(None) /\ Only(TheStep)' = Only(0)
  BY <1>1, <1>2 DEF Only
<1>4. TheOwner' = TheOwner /\ TheRequests' = TheRequests /\ TheRequests = {}
  BY <1>1 DEF TheOwner, TheRequests
<1>5. Only(pc)[Me] = "done"
  BY <1>1, OneCall
<1> QED
  BY <1>1, <1>3, <1>4, <1>5, OneCall
     DEF Calls!Collect, Calls!connVars, TheStep, TheOwner, TheRequests

\* A reply or an exception: it counts once the handler has gone on.
LEMMA MapsReply ==
  ASSUME DInv, reply = "pending", NEW r \in {"data", "empty", "raised"}, reply' = r,
         UNCHANGED << is_connected, pc, tool, answer >>, TheStep' = TheStep
  PROVE  Calls!GatewayReplies(Me)
<1>1. pc = "awaiting"
  BY OnlyHandlersWait
<1>2. /\ Only(pc)' = Only(pc) /\ Only(tool)' = Only(tool) /\ Only(reply)' = Only(r)
      /\ Only(answer.code)' = Only(answer.code) /\ Only(TheStep)' = Only(TheStep)
  BY DEF Only
<1>3. TheOwner' = TheOwner /\ TheRequests = {Me} /\ TheRequests' = {}
  BY DEF TheOwner, TheRequests
<1>4. Only(pc)[Me] = "awaiting"
  BY <1>1, OneCall
<1>5. Only(reply)' = [Only(reply) EXCEPT ![Me] = r]
  BY <1>2, OneCall
<1> QED
  BY <1>2, <1>3, <1>4, <1>5
     DEF Calls!GatewayReplies, Calls!connVars, TheStep, TheOwner, TheRequests

LEMMA GatewayRepliesMaps ==
  ASSUME DInv, GatewayReplies
  PROVE  Calls!GatewayReplies(Me)
<1>1. PICK r : /\ replies' = Append(replies, r)
               /\ reply' = IF r = << >> THEN "empty" ELSE "data"
  BY DEF GatewayReplies
<1>2. reply = "pending" /\ UNCHANGED << is_connected, pc, tool, answer >>
  BY DEF GatewayReplies
<1>3. Len(replies') = Len(replies) + 1 /\ Len(replies) \in Nat
  BY <1>1, Appended DEF DInv, IsSeq
<1>4. TheStep' = TheStep
  <2>1. Consumed = Len(replies)
    BY <1>2 DEF Consumed
  <2>2. reply' \in {"data", "empty"}
    BY <1>1
  <2>3. Consumed' = Len(replies)
    BY <1>3, <2>2 DEF Consumed
  <2> QED
    BY <1>2, <2>1, <2>3 DEF TheStep
<1>5. PICK q \in {"data", "empty", "raised"} : reply' = q
  BY <1>1
<1> QED
  BY <1>2, <1>4, <1>5, MapsReply

LEMMA RequestRaisesMaps ==
  ASSUME DInv, RequestRaises
  PROVE  Calls!GatewayReplies(Me)
<1>1. /\ reply = "pending" /\ reply' = "raised" /\ replies' = replies
      /\ UNCHANGED << is_connected, pc, tool, answer >>
  BY DEF RequestRaises
<1>2. TheStep' = TheStep
  BY <1>1 DEF TheStep, Consumed
<1> QED
  BY <1>1, <1>2, MapsReply

LEMMA LoseMaps ==
  ASSUME DInv, Lose
  PROVE  Calls!Lose
<1>1. /\ is_connected /\ is_connected' = FALSE
      /\ reply' = IF reply = "pending" THEN "lost" ELSE reply
      /\ UNCHANGED << pc, tool, replies, answer >>
  BY DEF Lose
<1>2. TheStep' = TheStep
  BY <1>1 DEF TheStep, Consumed
<1>3. /\ Only(pc)' = Only(pc) /\ Only(tool)' = Only(tool)
      /\ Only(answer.code)' = Only(answer.code) /\ Only(TheStep)' = Only(TheStep)
  BY <1>1, <1>2 DEF Only
<1>4. Only(reply)' = [c \in {Me} |-> IF Only(reply)[c] = "pending" THEN "lost"
                                     ELSE Only(reply)[c]]
  BY <1>1 DEF Only
<1>5. TheOwner' = TheOwner /\ TheRequests' = {}
  BY <1>1 DEF TheOwner, TheRequests
<1> QED
  BY <1>1, <1>3, <1>4, <1>5 DEF Calls!Lose, TheStep, TheOwner, TheRequests

LEMMA StepImplements ==
  ASSUME CInv, [Next]_vars
  PROVE  CallStep
<1> USE DEF CInv
<1>1. CASE Invoke
  BY <1>1, InvokeMaps, StepOfMine
<1>2. CASE Resume
  BY <1>2, ResumeMaps, StepOfMine
<1>3. CASE DownloadEnds
  BY <1>3, DownloadEndsMaps, StepOfMine
<1>4. CASE Collect
  BY <1>4, CollectMaps, StepOfMine
<1>5. CASE GatewayReplies
  BY <1>5, GatewayRepliesMaps, StepOfMine
<1>6. CASE RequestRaises
  BY <1>6, RequestRaisesMaps, StepOfMine
<1>7. CASE Lose
  BY <1>7, LoseMaps, StepOfMine
<1>8. CASE UNCHANGED vars
  <2>1. UNCHANGED << is_connected, pc, tool, answer.code, TheStep, reply >>
    BY <1>8 DEF vars, TheStep, Consumed
  <2> QED
    BY <2>1, Unseen DEF CallStep
<1> QED
  BY <1>1, <1>2, <1>3, <1>4, <1>5, <1>6, <1>7, <1>8 DEF Next

\* With their data the market data, contract and Flex tools still answer with
\* the codes, after the requests and on the connection that ToolCalls says
\* (the handlers of market.py, contracts.py and flex.py).
THEOREM Refinement == Spec => ImplementsToolCalls
<1>1. Init => CInv /\ Calls!Init
  <2> SUFFICES ASSUME Init PROVE CInv /\ Calls!Init
    OBVIOUS
  <2>1. CInv
    BY InitKeeps DEF Init, CInv, EmptyIsEmpty
  <2>2. TheStep = 0
    <3>1. Len(replies) = 0
      BY DEF Init
    <3> QED
      BY <3>1 DEF Init, TheStep, Consumed
  <2>3. TheOwner = None /\ TheRequests = {}
    BY DEF Init, TheOwner, TheRequests
  <2> QED
    BY <2>1, <2>2, <2>3 DEF Init, Calls!Init, Only, TheStep, TheOwner, TheRequests
<1>2. CInv /\ [Next]_vars => CInv'
  BY CInductive
<1>3. CInv /\ [Next]_vars => [Calls!Next]_(Calls!vars)
  BY StepImplements DEF CallStep
<1> QED
  BY <1>1, <1>2, <1>3, PTL DEF Spec, ImplementsToolCalls, Calls!Spec
==================================================================================
