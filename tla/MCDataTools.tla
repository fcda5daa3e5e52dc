----------------------------- MODULE MCDataTools -----------------------------
(***************************************************************************)
(* Instances of DataTools for TLC.                                         *)
(***************************************************************************)
EXTENDS DataTools

\* Lower case is used once, for a type and for a right.
MCUpper(s) == CASE s = "opt" -> "OPT" [] s = "c" -> "C" [] OTHER -> s

Stock == [symbol |-> << "SPY" >>, secType |-> "STK", exchange |-> "SMART",
          currency |-> << "USD" >>, expiry |-> None, strike |-> None, right |-> None]
AnOption == [Stock EXCEPT !.secType = "opt", !.expiry = "e1", !.strike = 10, !.right = "c"]
Future == [Stock EXCEPT !.secType = "FUT", !.expiry = "e1"]
Currency == [Stock EXCEPT !.symbol = << "EUR" >>, !.secType = "CASH"]

\* One of each kind, and each with what it needs missing or wrong.
MCInstruments ==
  { Stock, AnOption, Future, Currency,
    [Stock EXCEPT !.symbol = << >>], [Stock EXCEPT !.secType = "FOP"],
    [AnOption EXCEPT !.strike = None], [AnOption EXCEPT !.right = None],
    [AnOption EXCEPT !.right = "X"], [Future EXCEPT !.expiry = None],
    [Currency EXCEPT !.symbol = << "EUR", "USD" >>, !.currency = << >>, !.exchange = ""],
    [Currency EXCEPT !.symbol = << "EUR", "USD" >>] }

MCChains ==
  { [symbol |-> s, exchange |-> "SMART", currency |-> << "USD" >>, expiry |-> e, right |-> r]
    : s \in {<< "SPY" >>, << >>}, e \in {None, "", "e1", "e2"}, r \in {None, "c", "P", "X"} }

NoDate == [Y |-> 0, M |-> 0, W |-> 0, D |-> 0]
NoTime == [H |-> 0, M |-> 0, S |-> 0]
Iso(date, time) == [form |-> "iso", date |-> date, time |-> time]
Native(value, unit) ==
  [form |-> "native", value |-> value, unit |-> unit, date |-> NoDate, time |-> NoTime]

\* Native ones; ISO ones with at most two parts that are not zero, the time
\* ones of them up to more than an hour; and one that is neither.
MCDurations ==
  { Native(v, u) : v \in {0, 30}, u \in {"S", "D", "W", "M", "Y"} }
  \cup { Iso([[NoDate EXCEPT ![u] = v] EXCEPT ![w] = x], NoTime)
         : u, w \in DOMAIN NoDate, v, x \in {0, 1, 90} }
  \cup { Iso(NoDate, [[NoTime EXCEPT ![u] = v] EXCEPT ![w] = x])
         : u, w \in DOMAIN NoTime, v, x \in {0, 1, 90} }
  \cup { Iso([NoDate EXCEPT ![u] = 1], [NoTime EXCEPT ![w] = 1])
         : u \in DOMAIN NoDate, w \in DOMAIN NoTime }
  \cup { [form |-> "other", date |-> NoDate, time |-> NoTime] }

\* Unset; and with an entry that lacks a field, two queries of one name and
\* two names of one query.
Query(id, name) == [queryId |-> id, queryName |-> name]
MCRegistries ==
  { None,
    << Query(None, "trades"), Query("1", "trades"), Query("2", "trades"), Query("1", "cash") >> }
MCFlexCalls ==
  { [queryId |-> i, queryName |-> n, topic |-> t]
    : i \in {None, "", "1", "9"}, n \in {None, "", "trades", "cash", "gone"},
      t \in {None, "", "Trade", "Cash"} }

\* Two topics, of which one may be missing or may not parse.
MCReports ==
  { ("Trade" :> << "r1", "r2" >>), ("Trade" :> << "r1" >>) @@ ("Cash" :> None),
    ("Trade" :> << "r1" >>) @@ ("Cash" :> << "r3" >>), ("Trade" :> None), << >> }

\* Two chains with an expiry in common or not, one without a multiplier.
Chain(exchange, expirations, strikes, multiplier) ==
  [exchange |-> exchange, expirations |-> expirations, strikes |-> strikes,
   multiplier |-> multiplier]
MCParams ==
  LET smart == Chain("SMART", {"e1"}, {10, 20}, 100)
      other == Chain("", {"e1", "e2"}, {20}, None)
      small == Chain("CBOE", {"e2"}, {5}, 10)
      bare == Chain("CBOE", {"e1"}, {}, None)
  IN { << >>, << smart >>, << smart, other >>, << smart, small >>, << other >>, << bare >> }

NoBundles == [b \in ToSet(GREEKS_PRIORITY) |-> None]
Bundle(delta, iv) ==
  [n \in GreekNames |-> CASE n = "delta" -> delta [] n = "impliedVolatility" -> iv [] OTHER -> None]
\* Nothing; a model bundle full of NaN in front of the last trade's; a model
\* bundle that knows the volatility only.
MCQuotes ==
  { NoBundles,
    [NoBundles EXCEPT !["modelGreeks"] = Bundle(NaN, NaN), !["lastGreeks"] = Bundle(4, NaN)],
    [NoBundles EXCEPT !["modelGreeks"] = Bundle(None, 3), !["lastGreeks"] = Bundle(5, 5)] }

MCBars == { << >>, << 7 >>, << 7, NaN, 8 >> }

MCDetails ==
  { << >> } \cup
  { << [secType |-> s, exchange |-> None, expiry |-> "e1", realExpirationDate |-> d] >>
    : s \in {None, "OPT"}, d \in {None, "e2"} }

Exception(type, says) == [type |-> type, says |-> says]
\* Every type; every hint; and hints of two kinds in one message.
MCExceptions ==
  { Exception(t, {}) : t \in {"timeout", "notImplemented", "validation", "other"} }
  \cup { Exception("timeout", {"account"}) }
  \cup { Exception("other", {Hints[i][1]}) : i \in 2..Len(Hints) \ {6} }
  \cup { Exception("other", {"market data is not subscribed", "account"}),
         Exception("other", {"no security definition", "flex"}),
         Exception("other", {"flex", "account"}) }
===============================================================================
