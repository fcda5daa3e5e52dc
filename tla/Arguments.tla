------------------------------- MODULE Arguments -------------------------------
(***************************************************************************)
(* What the tools make of their arguments, of the settings and of the      *)
(* exceptions they meet, as pure operators: build_contract, parse_duration, *)
(* the registry of Flex queries, map_exception.                            *)
(*                                                                         *)
(* A symbol and a currency are sequences of three-letter parts, so that a  *)
(* currency pair is a sequence of two; << >> is the empty string.  Upper   *)
(* is str.upper.  None is an argument that was left out; where the code    *)
(* tests an argument for truth, "" counts as left out, too.                *)
(***************************************************************************)
EXTENDS Integers, SequencesExt

CONSTANTS None, Upper(_)

\* Nothing is missing that is there; and upper case stays as it is.
IbDurations == [value : Nat, unit : {"S", "D", "W", "M", "Y"}]
ASSUME NoneAssumption == None \notin Int \cup IbDurations /\ None # << >>
\* A text that is there and is not empty.
Given(text) == text \notin {None, ""}

ASSUME UpperAssumption == \A s \in {"STK", "OPT", "C", "P"} : Upper(s) = s

-----------------------------------------------------------------------------
(* utils/contracts.py                                                      *)

SUPPORTED_SEC_TYPES == {"STK", "OPT", "FUT", "CASH", "BOND", "IND"}

\* Slip: the right of an option is not asked for.
ValueErrorsButRight(a) ==
  \/ a.symbol = << >>
  \/ Upper(a.secType) \notin SUPPORTED_SEC_TYPES
  \/ Upper(a.secType) = "OPT" /\ None \in {a.expiry, a.strike}
  \/ Upper(a.secType) = "FUT" /\ a.expiry = None
\* Does build_contract raise ValueError?
ValueErrors(a) ==
  \/ a.symbol = << >>
  \/ Upper(a.secType) \notin SUPPORTED_SEC_TYPES
  \/ /\ Upper(a.secType) = "OPT"
     /\ None \in {a.expiry, a.strike, a.right} \/ Upper(a.right) \notin {"C", "P"}
  \/ Upper(a.secType) = "FUT" /\ a.expiry = None

\* Forex asserts that the pair has six letters.
Pair(a) == a.symbol \o a.currency
BadPair(a) == Upper(a.secType) = "CASH" /\ Len(Pair(a)) # 2

\* The contract, without a conId: every type takes the fields it knows.
Contract(a) ==
  LET sec == Upper(a.secType)
      exchange == IF sec = "CASH" /\ a.exchange = "" THEN "IDEALPRO" ELSE a.exchange
  IN [secType |-> sec, exchange |-> exchange, conId |-> 0,
      symbol |-> IF sec = "CASH" THEN << Pair(a)[1] >> ELSE a.symbol,
      currency |-> IF sec = "CASH" THEN << Pair(a)[2] >> ELSE a.currency,
      expiry |-> IF sec \in {"OPT", "FUT"} THEN a.expiry ELSE None,
      strike |-> IF sec = "OPT" THEN a.strike ELSE None,
      right |-> IF sec = "OPT" THEN Upper(a.right) ELSE None]

-----------------------------------------------------------------------------
(* utils/durations.py.  A duration is native, with a value and a unit; or  *)
(* ISO 8601, with a number for each date and each time unit, 0 for those   *)
(* it leaves out; or neither.                                              *)

SecondsIn == [H |-> 3600, M |-> 60, S |-> 1]

\* Slip: the time part wins over a date part.
TimeWins(d) ==
  LET dates == { u \in DOMAIN d.date : d.date[u] # 0 }
      seconds == d.time.H * SecondsIn.H + d.time.M * SecondsIn.M + d.time.S * SecondsIn.S
  IN CASE d.form = "native" -> [value |-> d.value, unit |-> d.unit]
       [] d.form = "iso" /\ seconds # 0 -> [value |-> seconds, unit |-> "S"]
       [] d.form = "iso" /\ seconds = 0 /\ \E u \in dates : dates = {u} ->
            LET u == CHOOSE u \in dates : TRUE IN [value |-> d.date[u], unit |-> u]
       [] OTHER -> None
\* The duration as IB writes it; None for a ValueError.
parse_duration(d) ==
  LET dates == { u \in DOMAIN d.date : d.date[u] # 0 }
      seconds == d.time.H * SecondsIn.H + d.time.M * SecondsIn.M + d.time.S * SecondsIn.S
  IN CASE d.form = "native" -> [value |-> d.value, unit |-> d.unit]
       [] d.form = "iso" /\ dates = {} /\ seconds # 0 -> [value |-> seconds, unit |-> "S"]
       [] d.form = "iso" /\ seconds = 0 /\ \E u \in dates : dates = {u} ->
            LET u == CHOOSE u \in dates : TRUE IN [value |-> d.date[u], unit |-> u]
       [] OTHER -> None

-----------------------------------------------------------------------------
(* tools/flex.py.  IB_FLEX_QUERIES is a list of entries, or None if it is  *)
(* unset, malformed or no list; an entry is one of a query with both its   *)
(* fields, None for one that is missing or no string.                      *)

parse_registry(raw) ==
  LET Validate(out, entry) ==
        IF None \in {entry.queryId, entry.queryName} THEN out ELSE Append(out, entry)
  IN IF raw = None THEN << >> ELSE FoldLeft(Validate, << >>, raw)

\* Slip: a name that is not configured is taken for an id.
NameAsId(id, name, registry) ==
  LET named == SelectInSeq(registry, LAMBDA q : q.queryName = name)
  IN CASE Given(id) /\ ~Given(name) -> [queryId |-> id, queryName |-> None]
       [] ~Given(id) /\ Given(name) ->
            [queryId |-> IF named = 0 THEN name ELSE registry[named].queryId, queryName |-> name]
       [] OTHER -> None
\* The query that queryId or queryName stands for, one of which must be given;
\* None for an error.
resolve_query(id, name, registry) ==
  LET named == SelectInSeq(registry, LAMBDA q : q.queryName = name)
      known == SelectInSeq(registry, LAMBDA q : q.queryId = id)
  IN CASE Given(id) /\ ~Given(name) ->
            [queryId |-> id, queryName |-> IF known = 0 THEN None ELSE registry[known].queryName]
       [] ~Given(id) /\ Given(name) /\ named # 0 ->
            [queryId |-> registry[named].queryId, queryName |-> name]
       [] OTHER -> None

-----------------------------------------------------------------------------
(* errors.py.  An exception is its type and the hints its message holds.   *)

TypeCodes ==
  [timeout |-> "IB_TIMEOUT", connection |-> "IB_NOT_CONNECTED",
   notImplemented |-> "NOT_IMPLEMENTED", validation |-> "VALIDATION_ERROR"]

Hints ==
  << << "not connected", "IB_NOT_CONNECTED" >>,
     << "no security definition", "IB_INVALID_CONTRACT" >>,
     << "ambiguous contract", "IB_INVALID_CONTRACT" >>,
     << "no market data permission", "IB_NO_MARKET_DATA" >>,
     << "market data is not subscribed", "IB_NO_MARKET_DATA" >>,
     << "requested market data is not subscribed", "IB_NO_MARKET_DATA" >>,
     << "flex", "IB_FLEX_ERROR" >>,
     << "account", "IB_ACCOUNT_NOT_FOUND" >> >>

\* Slip: the last hint wins.
LastHint(e) ==
  LET i == SelectLastInSeq(Hints, LAMBDA hint : hint[1] \in e.says)
  IN CASE e.type \in DOMAIN TypeCodes -> TypeCodes[e.type]
       [] e.type \notin DOMAIN TypeCodes /\ i # 0 -> Hints[i][2]
       [] OTHER -> "VALIDATION_ERROR"
\* The type of the exception first, then the first hint of its message.
map_exception(e) ==
  LET i == SelectInSeq(Hints, LAMBDA hint : hint[1] \in e.says)
  IN CASE e.type \in DOMAIN TypeCodes -> TypeCodes[e.type]
       [] e.type \notin DOMAIN TypeCodes /\ i # 0 -> Hints[i][2]
       [] OTHER -> "VALIDATION_ERROR"

ConnectionError == [type |-> "connection", says |-> {}]
AssertionError == [type |-> "assertion", says |-> {}]
===============================================================================
