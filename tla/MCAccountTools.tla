---------------------------- MODULE MCAccountTools ----------------------------
(***************************************************************************)
(* Instances of AccountTools for TLC.                                      *)
(***************************************************************************)
EXTENDS AccountTools

CONSTANTS a1, a2, o1, o2, p1, p2, p3, p4

\* A completed order without an id, of another client, and an order of this
\* client and the other account.
MCOrderId == (o1 :> 0) @@ (o2 :> 5)

\* No account at all, one, or both.
MCLinked == {{}, {a1}, {a1, a2}}

MCAskedIds == {-1, 0, 5}

\* In portfolio order: an option of the other account, two options and a
\* stock of the account.
MCPositions == << p1, p2, p3, p4 >>
MCAccountOf == (o1 :> a1) @@ (o2 :> a2) @@ (p1 :> a2) @@ (p2 :> a1) @@ (p3 :> a1) @@ (p4 :> a1)

Option(right, days, multiplier) ==
  [secType |-> "OPT", right |-> right, strike |-> 50, days |-> days,
   multiplier |-> multiplier, marketPrice |-> 2]
\* One option has expired, one expires today, one has no multiplier.
MCContract ==
  (p1 :> Option("C", 0, 100)) @@ (p2 :> Option("C", 30, None)) @@
  (p3 :> Option("P", -1, 10)) @@ (p4 :> [Option("", None, None) EXCEPT !.secType = "STK"])

MCFormula(right, spot, strike, hours, iv) ==
  [n \in GreekNames |-> IF n = "delta" THEN (IF right = "C" THEN spot ELSE -spot) ELSE iv]

NoBundles == [b \in ToSet(Priority) |-> None]
Quote(delta, vega, iv, und) ==
  [greeks |-> [n \in GreekNames |-> CASE n = "delta" -> delta [] n = "vega" -> vega
                                       [] OTHER -> None],
   impliedVol |-> iv, undPrice |-> und]
OnlyIv == Quote(None, None, 3, 0)

\* Nothing; model greeks of which one is missing; a volatility only, in front of
\* nothing, or of NaN greeks and then better ones; a volatility that is NaN.
MCTickers ==
  { NoBundles,
    [NoBundles EXCEPT !["modelGreeks"] = Quote(7, None, 2, 51),
                      !["bidGreeks"] = Quote(9, 9, 9, 9)],
    [NoBundles EXCEPT !["modelGreeks"] = OnlyIv],
    [NoBundles EXCEPT !["modelGreeks"] = OnlyIv,
                      !["lastGreeks"] = Quote(NaN, NaN, NaN, NaN),
                      !["bidGreeks"] = Quote(4, 1, None, None)],
    [NoBundles EXCEPT !["modelGreeks"] = Quote(None, None, NaN, 51)] }
===============================================================================
