-------------------------------- MODULE Greeks --------------------------------
(***************************************************************************)
(* get_portfolio_greeks, from a ticker to a line and from the lines to the *)
(* totals (tools/account.py, utils/black_scholes.py).                      *)
(*                                                                         *)
(* A bundle is None or a record of its greeks, its implied volatility and  *)
(* the price of the underlying, each a number, NaN or None; a ticker has   *)
(* one bundle under each name of Priority.  A contract is a record with    *)
(* the days left to its expiry, None if the expiry is missing or no date.  *)
(* Numbers are integers; the Black-Scholes formulas are a constant.        *)
(*                                                                         *)
(* _safe_float of account.py has no test for NaN (those of market.py and   *)
(* of orders.py have one): here NaN is a number like the others, not a     *)
(* missing one, and arithmetic carries it on.                              *)
(***************************************************************************)
EXTENDS Integers, SequencesExt

CONSTANTS
  None,                   \* Python's None
  NaN,                    \* a float that is not a number
  Formula(_, _, _, _, _)  \* the greeks for right, spot, strike, hours left and
                          \* volatility, all of them valid

\* Arithmetic and `x <= 0` on floats.
Times(x, w) == IF x = NaN THEN NaN ELSE x * w
Plus(x, y) == IF NaN \in {x, y} THEN NaN ELSE x + y
AtMostZero(x) == x # NaN /\ x <= 0

GreekNames == {"delta", "gamma", "theta", "vega"}
Priority == << "modelGreeks", "lastGreeks", "bidGreeks", "askGreeks" >>

Bundles(ticker) == [i \in DOMAIN Priority |-> ticker[Priority[i]]]

HasGreeks(bundle) == bundle # None /\ \E n \in GreekNames : bundle.greeks[n] # None
HasIv(bundle) == bundle # None /\ bundle.impliedVol # None
HasUnderlying(bundle) == bundle # None /\ bundle.undPrice # None

\* The greeks of the preferred bundle that has any, be they NaN; those it
\* lacks as 0.
GreeksOf(ticker) ==
  LET i == SelectInSeq(Bundles(ticker), HasGreeks)
      greeks == Bundles(ticker)[i].greeks
  IN IF i = 0 THEN None
     ELSE [n \in GreekNames |-> IF greeks[n] = None THEN 0 ELSE greeks[n]]

LastIv(ticker) ==
  LET i == SelectInSeq(Bundles(ticker), HasIv)
  IN IF i = 0 THEN None ELSE Bundles(ticker)[i].impliedVol

\* Only the model and the last bundle are asked for the price of the underlying.
UnderlyingSpot(ticker) ==
  LET sources == SubSeq(Bundles(ticker), 1, 2)
      i == SelectInSeq(sources, HasUnderlying)
  IN IF i = 0 THEN None ELSE sources[i].undPrice

\* An underlying at 0 counts as none; the price of the option takes its place.
Spot(ticker, marketPrice) ==
  IF UnderlyingSpot(ticker) \in {None, 0} THEN marketPrice ELSE UnderlyingSpot(ticker)

\* On the day of expiry an hour is left.
HoursLeft(days) == IF days = 0 THEN 1 ELSE 24 * days

ValidInputs(contract, spot, iv) ==
  /\ None \notin {spot, contract.strike, iv, contract.days}
  /\ ~AtMostZero(spot) /\ ~AtMostZero(contract.strike) /\ ~AtMostZero(iv)
  /\ contract.days >= 0
  /\ contract.right \in {"C", "P"}

FallbackGreeks(contract, spot, iv) ==
  CASE ~ValidInputs(contract, spot, iv) -> None
    [] ValidInputs(contract, spot, iv) /\ NaN \in {spot, contract.strike, iv} ->
         [n \in GreekNames |-> NaN]
    [] OTHER ->
         Formula(contract.right, spot, contract.strike, HoursLeft(contract.days), iv)

Weight(quantity, contract) ==
  quantity * (IF contract.multiplier \in {None, 0} THEN 100 ELSE contract.multiplier)

Weighted(greeks, weight) == [n \in GreekNames |-> Times(greeks[n], weight)]

\* The line of one option position.
Line(p, quantity, contract, ticker) ==
  LET model == GreeksOf(ticker)
      fallback == FallbackGreeks(contract, Spot(ticker, contract.marketPrice), LastIv(ticker))
      Of(source, greeks) ==
        [position |-> p, quantity |-> quantity, source |-> source, greeks |-> greeks]
      weight == Weight(quantity, contract)
  IN CASE model # None -> Of("model", Weighted(model, weight))
       [] model = None /\ fallback # None -> Of("fallback", Weighted(fallback, weight))
       [] OTHER -> Of("missing", None)

NoGreeks == [n \in GreekNames |-> 0]

AddLine(totals, line) ==
  IF line.source = "missing" THEN totals
  ELSE [n \in GreekNames |-> Plus(totals[n], line.greeks[n])]

Totals(lines) == FoldLeft(AddLine, NoGreeks, lines)
===============================================================================
