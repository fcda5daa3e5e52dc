---------------------------- MODULE DataTools_proofs ----------------------------
(***************************************************************************)
(* Proofs about DataTools: what a call asks for and answers, for every     *)
(* argument, registry and reply.                                           *)
(***************************************************************************)
EXTENDS DataTools, FoldLemmas, SequenceTheorems

-----------------------------------------------------------------------------
(* Sequences of anything.                                                  *)

IsSeq(s) == s \in Seq(ToSet(s))

LEMMA EmptyIsSeq == IsSeq(<< >>) /\ Len(<< >>) = 0
BY DEF IsSeq

\* A sequence and its extension by one.
LEMMA Appended ==
  ASSUME NEW s, IsSeq(s), NEW r
  PROVE  /\ IsSeq(Append(s, r)) /\ Len(s) \in Nat /\ DOMAIN s = 1..Len(s)
         /\ Len(Append(s, r)) = Len(s) + 1 /\ DOMAIN Append(s, r) = 1..(Len(s) + 1)
         /\ \A i \in 1..Len(s) : Append(s, r)[i] = s[i]
         /\ Append(s, r)[Len(s) + 1] = r
         /\ Last(Append(s, r)) = r
<1> DEFINE more == Append(s, r)
<1>1. s \in Seq(ToSet(s) \cup {r}) /\ Len(s) \in Nat /\ DOMAIN s = 1..Len(s)
  BY DEF IsSeq
<1>2. /\ more \in Seq(ToSet(s) \cup {r}) /\ Len(more) = Len(s) + 1
      /\ DOMAIN more = 1..(Len(s) + 1) /\ more[Len(s) + 1] = r
      /\ \A i \in 1..Len(s) : more[i] = s[i]
  BY <1>1
<1> HIDE DEF more
<1>3. IsSeq(more)
  <2>1. \A i \in 1..Len(more) : more[i] \in ToSet(more)
    BY <1>2 DEF ToSet
  <2> QED
    BY <1>2, <2>1 DEF IsSeq
<1>4. Last(more) = r
  BY <1>2 DEF Last
<1> QED
  BY <1>1, <1>2, <1>3, <1>4 DEF more

-----------------------------------------------------------------------------
(* The registry of Flex queries.                                           *)

Entry == [queryId : Text, queryName : Text]
Complete(entries) == { e \in entries : None \notin {e.queryId, e.queryName} }

\* parse_registry keeps complete entries of the setting and makes up none.
LEMMA RegistryKeeps ==
  ASSUME NEW raw, raw = None \/ raw \in Seq(Entry)
  PROVE  /\ parse_registry(raw) \in Seq(Entry)
         /\ \A i \in DOMAIN parse_registry(raw) :
              raw # None /\ parse_registry(raw)[i] \in Complete(ToSet(raw))
<1>1. CASE raw = None
  <2>1. parse_registry(raw) = << >>
    BY <1>1 DEF parse_registry
  <2>2. << >> \in Seq(Entry) /\ DOMAIN << >> = {}
    OBVIOUS
  <2> QED
    BY <2>1, <2>2
<1>2. CASE raw # None
  <2> DEFINE n == Len(raw)
             Validate(out, e) == IF None \in {e.queryId, e.queryName} THEN out ELSE Append(out, e)
             Kept == Complete(ToSet(raw))
             A == Seq(Kept)
             step == [x \in A \X (1..n) |-> Validate(x[1], raw[x[2]])]
             Fold(f) == f = [s \in SUBSET (1..n) |->
                               IF s = {} THEN << >> ELSE Validate(f[s \ {Max(s)}], raw[Max(s)])]
             h == CHOOSE f : Fold(f)
  <2>1. /\ raw \in Seq(Entry) /\ n \in Nat /\ DOMAIN raw = 1..n
        /\ \A i \in 1..n : raw[i] \in ToSet(raw)
    BY <1>2 DEF ToSet
  <2>2. << >> \in A /\ step \in StepsOf(A, n)
    <3>1. ASSUME NEW x \in A \X (1..n) PROVE Validate(x[1], raw[x[2]]) \in A
      BY <2>1 DEF Complete
    <3> QED
      BY <3>1 DEF StepsOf
  <2>3. parse_registry(raw) = h[1..n]
    BY <1>2, <2>1 DEF parse_registry, FoldLeft, MapThenFoldSet
  <2> HIDE DEF A
  <2>4. PICK g : Iterates(g, A, << >>, n, step)
    BY <2>1, <2>2, IterationExists
  <2>5. Fold(g)
    <3>1. g = [s \in SUBSET (1..n) |-> g[s]] /\ g[{}] = << >>
      BY <2>4 DEF Iterates
    <3>2. ASSUME NEW s \in SUBSET (1..n), s # {}
          PROVE  g[s] = Validate(g[s \ {Max(s)}], raw[Max(s)])
      <4>1. Max(s) \in 1..n /\ g[s \ {Max(s)}] \in A
        BY <2>4, <3>2 DEF Iterates
      <4>2. g[s] = step[<< g[s \ {Max(s)}], Max(s) >>]
        BY <2>4, <3>2 DEF Iterates
      <4> QED
        BY <4>1, <4>2
    <3>3. ASSUME NEW s \in SUBSET (1..n)
          PROVE  g[s] = IF s = {} THEN << >> ELSE Validate(g[s \ {Max(s)}], raw[Max(s)])
      BY <3>1, <3>2
    <3> QED
      BY <3>1, <3>3
  <2>6. Fold(h)
    BY <2>5
  <2> HIDE DEF h
  <2>7. FoldsBy(h, A, << >>, n, step)
    <3>1. h[{}] = << >>
      BY <2>6
    <3>2. ASSUME NEW s \in SUBSET (1..n), s # {}, h[s \ {Max(s)}] \in A
          PROVE  h[s] = step[<< h[s \ {Max(s)}], Max(s) >>]
      <4>1. Max(s) \in 1..n
        BY <2>4, <3>2 DEF Iterates
      <4> QED
        BY <2>6, <3>2, <4>1
    <3> QED
      BY <3>1, <3>2 DEF FoldsBy
  <2>8. h[1..n] \in A
    <3> HIDE DEF step
    <3>1. \A s \in SUBSET (1..n) : h[s] = g[s]
      BY <2>1, <2>2, <2>4, <2>7, IterationUnique
    <3> QED
      BY <2>4, <3>1 DEF Iterates
  <2>9. Kept \subseteq Entry
    BY <2>1 DEF Complete, ToSet
  <2> QED
    BY <1>2, <2>3, <2>8, <2>9 DEF A
<1> QED
  BY <1>1, <1>2

\* resolve_query takes one of id and name, and what it adds to the one it
\* takes is of one entry of the registry.
LEMMA ResolvesOne ==
  ASSUME NEW registry \in Seq(Entry), NEW id \in Text, NEW name \in Text,
         NEW query, query = resolve_query(id, name, registry), query # None
  PROVE  /\ query = [queryId |-> query.queryId, queryName |-> query.queryName]
         /\ Given(id) # Given(name)
         /\ Given(id) => /\ query.queryId = id
                         /\ query.queryName = None
                              \/ \E i \in DOMAIN registry : registry[i] = query
         /\ Given(name) => /\ query.queryName = name
                           /\ \E i \in DOMAIN registry : registry[i] = query
<1> DEFINE n == Len(registry)
           Named == { i \in 1..Len(registry) : registry[i].queryName = name }
           Known == { i \in 1..Len(registry) : registry[i].queryId = id }
<1>1. PICK named : named = SelectInSeq(registry, LAMBDA q : q.queryName = name)
  OBVIOUS
<1>2. PICK known : known = SelectInSeq(registry, LAMBDA q : q.queryId = id)
  OBVIOUS
<1>3. named = 0 \/ named \in Named
  <2>1. named = IF Named # {} THEN Min(Named) ELSE 0
    BY <1>1 DEF SelectInSeq
  <2>2. n \in Nat /\ Named \in SUBSET (1..n)
    OBVIOUS
  <2> HIDE DEF Named, n
  <2> QED
    BY <2>1, <2>2, FirstPlace
<1>4. known = 0 \/ known \in Known
  <2>1. known = IF Known # {} THEN Min(Known) ELSE 0
    BY <1>2 DEF SelectInSeq
  <2>2. n \in Nat /\ Known \in SUBSET (1..n)
    OBVIOUS
  <2> HIDE DEF Known, n
  <2> QED
    BY <2>1, <2>2, FirstPlace
<1>5. \A i \in 1..Len(registry) :
        registry[i] = [queryId |-> registry[i].queryId, queryName |-> registry[i].queryName]
  <2>1. ASSUME NEW e \in Entry
        PROVE  e = [queryId |-> e.queryId, queryName |-> e.queryName]
    BY DEF Entry
  <2> QED
    BY <2>1
<1>6. DOMAIN registry = 1..Len(registry)
  OBVIOUS
<1>7. CASE Given(id) /\ ~Given(name)
  <2>1. query = [queryId |-> id, queryName |-> IF known = 0 THEN None
                                                ELSE registry[known].queryName]
    BY <1>2, <1>7 DEF resolve_query
  <2>2. query = [queryId |-> query.queryId, queryName |-> query.queryName] /\ query.queryId = id
    BY <2>1
  <2>3. query.queryName = None \/ \E i \in DOMAIN registry : registry[i] = query
    BY <1>4, <1>5, <1>6, <2>1
  <2>4. Given(id) # Given(name)
    BY <1>7 DEF Given
  <2> QED
    BY <1>7, <2>2, <2>3, <2>4
<1>8. CASE ~Given(id) /\ Given(name) /\ named # 0
  <2>1. query = [queryId |-> registry[named].queryId, queryName |-> name]
    BY <1>1, <1>8 DEF resolve_query
  <2> QED
    BY <1>3, <1>5, <1>6, <1>8, <2>1 DEF Given
<1>9. ASSUME ~(Given(id) /\ ~Given(name)), ~(~Given(id) /\ Given(name) /\ named # 0)
      PROVE  FALSE
  BY <1>1, <1>9 DEF resolve_query
<1> QED
  BY <1>7, <1>8, <1>9
-----------------------------------------------------------------------------
(* The error codes.                                                        *)

Typed == DOMAIN TypeCodes
ContractHints == {"no security definition", "ambiguous contract"}
DataHints == {"no market data permission", "market data is not subscribed"}

LEMMA TypesSpelled ==
  /\ Typed = {"timeout", "connection", "notImplemented", "validation"}
  /\ TypeCodes["timeout"] = "IB_TIMEOUT" /\ TypeCodes["connection"] = "IB_NOT_CONNECTED"
  /\ TypeCodes["notImplemented"] = "NOT_IMPLEMENTED"
  /\ TypeCodes["validation"] = "VALIDATION_ERROR"
BY DEF Typed, TypeCodes

LEMMA HintsSpelled ==
  /\ Len(Hints) = 8
  /\ Hints[1][1] = "not connected" /\ Hints[1][2] = "IB_NOT_CONNECTED"
  /\ Hints[2][1] = "no security definition" /\ Hints[2][2] = "IB_INVALID_CONTRACT"
  /\ Hints[3][1] = "ambiguous contract" /\ Hints[3][2] = "IB_INVALID_CONTRACT"
  /\ Hints[4][1] = "no market data permission" /\ Hints[4][2] = "IB_NO_MARKET_DATA"
  /\ Hints[5][1] = "market data is not subscribed" /\ Hints[5][2] = "IB_NO_MARKET_DATA"
  /\ Hints[6][1] = "requested market data is not subscribed" /\ Hints[6][2] = "IB_NO_MARKET_DATA"
  /\ Hints[7][1] = "flex" /\ Hints[7][2] = "IB_FLEX_ERROR"
  /\ Hints[8][1] = "account" /\ Hints[8][2] = "IB_ACCOUNT_NOT_FOUND"
BY DEF Hints

\* The type of an exception decides; without one, the first hint.
LEMMA CodeOf ==
  ASSUME NEW e
  PROVE  /\ e.type \in Typed => map_exception(e) = TypeCodes[e.type]
         /\ e.type \notin Typed =>
              \/ /\ \A j \in 1..8 : Hints[j][1] \notin e.says
                 /\ map_exception(e) = "VALIDATION_ERROR"
              \/ \E i \in 1..8 :
                   /\ Hints[i][1] \in e.says /\ map_exception(e) = Hints[i][2]
                   /\ \A j \in 1..(i - 1) : Hints[j][1] \notin e.says
<1> DEFINE I == { j \in 1..Len(Hints) : Hints[j][1] \in e.says }
<1>1. PICK i : i = SelectInSeq(Hints, LAMBDA hint : hint[1] \in e.says)
  OBVIOUS
<1>2. i = IF I # {} THEN Min(I) ELSE 0
  BY <1>1 DEF SelectInSeq
<1>3. (i = 0 /\ I = {}) \/ (i \in I /\ i # 0 /\ \A m \in 1..(i - 1) : m \notin I)
  <2>1. I \in SUBSET (1..8) /\ 8 \in Nat
    BY HintsSpelled
  <2> HIDE DEF I
  <2> QED
    BY <1>2, <2>1, FirstPlace
<1>4. CASE e.type \in Typed
  BY <1>4 DEF map_exception, Typed
<1>5. CASE e.type \notin Typed /\ i = 0 /\ I = {}
  <2>1. map_exception(e) = "VALIDATION_ERROR"
    BY <1>1, <1>5 DEF map_exception, Typed
  <2> QED
    BY <1>5, <2>1, HintsSpelled
<1>6. CASE /\ e.type \notin Typed
           /\ i \in I /\ i # 0 /\ \A m \in 1..(i - 1) : m \notin I
  <2>1. map_exception(e) = Hints[i][2]
    BY <1>1, <1>6 DEF map_exception, Typed
  <2>2. i \in 1..8 /\ Hints[i][1] \in e.says
    BY <1>6, HintsSpelled
  <2>3. ASSUME NEW j \in 1..(i - 1) PROVE Hints[j][1] \notin e.says
    <3>1. j \notin I
      BY <1>6
    <3>2. j \in 1..8
      BY <2>2
    <3> QED
      BY <3>1, <3>2, HintsSpelled
  <2> QED
    BY <1>6, <2>1, <2>2, <2>3
<1> QED
  BY <1>3, <1>4, <1>5, <1>6

\* What each code says of an exception that a request raises.
LEMMA CodesHaveCauses ==
  ASSUME NEW e \in Exceptions, NEW code, code = map_exception(e)
  PROVE  /\ code \in Codes /\ code # "ok" /\ code # "IB_NOT_CONNECTED"
         /\ code = "IB_TIMEOUT" <=> e.type = "timeout"
         /\ code = "IB_INVALID_CONTRACT" =>
              e.type \notin Typed /\ \E h \in ContractHints : h \in e.says
         /\ code = "IB_NO_MARKET_DATA" =>
              /\ e.type \notin Typed /\ \E h \in DataHints : h \in e.says
              /\ \A h \in ContractHints : h \notin e.says
         /\ code \in {"IB_FLEX_ERROR", "IB_ACCOUNT_NOT_FOUND"} =>
              /\ e.type \notin Typed
              /\ \A h \in ContractHints \cup DataHints : h \notin e.says
         /\ code = "IB_FLEX_ERROR" => "flex" \in e.says
         /\ code = "IB_ACCOUNT_NOT_FOUND" => "account" \in e.says /\ "flex" \notin e.says
<1>1. /\ e.type # "connection" /\ "not connected" \notin e.says
      /\ "requested market data is not subscribed" \in e.says
           => "market data is not subscribed" \in e.says
  BY ExceptionsAssumption
<1>2. CASE e.type \in Typed
  <2>1. code = TypeCodes[e.type]
    BY <1>2, CodeOf
  <2> QED
    BY <1>1, <1>2, <2>1, TypesSpelled DEF Codes
<1>3. ASSUME e.type \notin Typed, \A j \in 1..8 : Hints[j][1] \notin e.says,
             code = "VALIDATION_ERROR"
      PROVE  code \in Codes /\ e.type # "timeout"
  BY <1>3, TypesSpelled DEF Codes
<1>4. ASSUME e.type \notin Typed, NEW i \in 1..8, Hints[i][1] \in e.says, code = Hints[i][2],
             \A j \in 1..(i - 1) : Hints[j][1] \notin e.says
      PROVE  /\ i # 1 /\ code \in Codes /\ e.type # "timeout"
             /\ i \in {2, 3} <=> code = "IB_INVALID_CONTRACT"
             /\ i \in {4, 5, 6} <=> code = "IB_NO_MARKET_DATA"
             /\ i = 7 <=> code = "IB_FLEX_ERROR"
             /\ i = 8 <=> code = "IB_ACCOUNT_NOT_FOUND"
             /\ \E h \in DataHints : i \in {4, 5, 6} => h \in e.says
             /\ i \in {2, 3} => \E h \in ContractHints : h \in e.says
             /\ i > 3 => \A h \in ContractHints : h \notin e.says
             /\ i > 6 => \A h \in DataHints : h \notin e.says
             /\ i > 7 => "flex" \notin e.says
  <2>1. i # 1
    BY <1>1, <1>4, HintsSpelled
  <2>2. i \in {2, 3, 4, 5, 6, 7, 8}
    BY <2>1
  <2>3. i > 3 => \A h \in ContractHints : h \notin e.says
    <3>1. i > 3 => 2 \in 1..(i - 1) /\ 3 \in 1..(i - 1)
      OBVIOUS
    <3> QED
      BY <1>4, <3>1, HintsSpelled DEF ContractHints
  <2>4. i > 6 => \A h \in DataHints : h \notin e.says
    <3>1. i > 6 => 4 \in 1..(i - 1) /\ 5 \in 1..(i - 1)
      OBVIOUS
    <3> QED
      BY <1>4, <3>1, HintsSpelled DEF DataHints
  <2>5. i > 7 => "flex" \notin e.says
    <3>1. i > 7 => 7 \in 1..(i - 1)
      OBVIOUS
    <3> QED
      BY <1>4, <3>1, HintsSpelled
  <2>6. /\ i \in {2, 3} => \E h \in ContractHints : h \in e.says
        /\ \E h \in DataHints : i \in {4, 5, 6} => h \in e.says
    BY <1>1, <1>4, <2>2, HintsSpelled DEF ContractHints, DataHints
  <2>7. /\ code \in Codes /\ e.type # "timeout"
        /\ i \in {2, 3} <=> code = "IB_INVALID_CONTRACT"
        /\ i \in {4, 5, 6} <=> code = "IB_NO_MARKET_DATA"
        /\ i = 7 <=> code = "IB_FLEX_ERROR"
        /\ i = 8 <=> code = "IB_ACCOUNT_NOT_FOUND"
    BY <1>4, <2>2, HintsSpelled, TypesSpelled DEF Codes
  <2> QED
    BY <2>1, <2>3, <2>4, <2>5, <2>6, <2>7
<1>5. CASE e.type \notin Typed /\ \E i \in 1..8 :
             /\ Hints[i][1] \in e.says /\ code = Hints[i][2]
             /\ \A j \in 1..(i - 1) : Hints[j][1] \notin e.says
  <2>1. PICK i \in 1..8 : /\ Hints[i][1] \in e.says /\ code = Hints[i][2]
                          /\ \A j \in 1..(i - 1) : Hints[j][1] \notin e.says
    BY <1>5
  <2>2. i = 7 => "flex" \in e.says
    BY <2>1, HintsSpelled
  <2>3. i = 8 => "account" \in e.says
    BY <2>1, HintsSpelled
  <2>4. i \in {2, 3, 4, 5, 6, 7, 8}
    BY <1>4, <1>5, <2>1
  <2>5. code # "ok" /\ code # "IB_NOT_CONNECTED" /\ code # "IB_TIMEOUT"
    BY <2>1, <2>4, HintsSpelled
  <2> QED
    BY <1>4, <1>5, <2>1, <2>2, <2>3, <2>4, <2>5
<1>6. CASE /\ e.type \notin Typed /\ \A j \in 1..8 : Hints[j][1] \notin e.says
           /\ code = "VALIDATION_ERROR"
  BY <1>3, <1>6
<1> QED
  BY <1>2, <1>5, <1>6, CodeOf

\* What the tools themselves raise.
LEMMA OwnErrors ==
  /\ map_exception(ConnectionError) = "IB_NOT_CONNECTED"
  /\ map_exception(AssertionError) = "VALIDATION_ERROR"
<1>1. map_exception(ConnectionError) = "IB_NOT_CONNECTED"
  <2>1. ConnectionError.type = "connection"
    BY DEF ConnectionError
  <2> QED
    BY <2>1, CodeOf, TypesSpelled
<1>2. map_exception(AssertionError) = "VALIDATION_ERROR"
  <2>1. AssertionError.type = "assertion" /\ AssertionError.says = {}
    BY DEF AssertionError
  <2>2. AssertionError.type \notin Typed
    BY <2>1, TypesSpelled
  <2> QED
    BY <2>1, <2>2, CodeOf
<1> QED
  BY <1>1, <1>2
-----------------------------------------------------------------------------
(* Durations.                                                              *)

Units(d) == { u \in DOMAIN d.date : d.date[u] # 0 }
Timed(d) == \E u \in DOMAIN d.time : d.time[u] # 0

\* What IB is asked for spans what the client asked for, and nothing that can
\* be said at once is refused.
LEMMA SpansAsAsked ==
  ASSUME NEW d \in Durations, NEW ib, ib = parse_duration(d)
  PROVE  /\ ib # None => \/ d.form = "native" /\ IbSpan(ib) = IbSpan(d)
                         \/ d.form = "iso" /\ IbSpan(ib) = IsoSpan(d)
         /\ ib = None => \/ d.form = "other"
                         \/ d.form = "iso" /\ Cardinality(Units(d)) # IF Timed(d) THEN 0 ELSE 1
<1> DEFINE dates == { u \in DOMAIN d.date : d.date[u] # 0 }
           seconds == d.time.H * SecondsIn.H + d.time.M * SecondsIn.M + d.time.S * SecondsIn.S
<1>1. CASE d.form = "native"
  <2>1. ib = [value |-> d.value, unit |-> d.unit]
    BY <1>1 DEF parse_duration
  <2>2. d.value \in Nat /\ d.unit \in {"S", "D", "W", "M", "Y"}
    BY <1>1, DurationsAssumption
  <2>3. ib \in IbDurations
    BY <2>1, <2>2 DEF IbDurations
  <2>4. ib # None
    BY <2>3, NoneAssumption
  <2>5. IbSpan(ib) = IbSpan(d)
    BY <2>1 DEF IbSpan
  <2> QED
    BY <1>1, <2>4, <2>5
<1>2. CASE d.form = "iso"
  <2>1. /\ d.date \in [{"Y", "M", "W", "D"} -> Nat] /\ d.time \in [{"H", "M", "S"} -> Nat]
    BY <1>2, DurationsAssumption
  <2>2. /\ DOMAIN d.date = {"Y", "M", "W", "D"} /\ DOMAIN d.time = {"H", "M", "S"}
        /\ d.date.Y \in Nat /\ d.date.M \in Nat /\ d.date.W \in Nat /\ d.date.D \in Nat
        /\ d.time.H \in Nat /\ d.time.M \in Nat /\ d.time.S \in Nat
    BY <2>1
  <2>3. seconds = 3600 * d.time.H + 60 * d.time.M + d.time.S /\ seconds \in Nat
    BY <2>2 DEF SecondsIn
  <2>4. Timed(d) <=> seconds # 0
    BY <2>2, <2>3 DEF Timed
  <2>5. CASE dates = {} /\ seconds # 0
    <3>1. ib = [value |-> seconds, unit |-> "S"]
      BY <1>2, <2>5 DEF parse_duration
    <3>2. ib # None
      <4>1. ib \in IbDurations
        BY <2>3, <3>1 DEF IbDurations
      <4> QED
        BY <4>1, NoneAssumption
    <3>3. d.date.Y = 0 /\ d.date.M = 0 /\ d.date.W = 0 /\ d.date.D = 0
      BY <2>2, <2>5
    <3>4. IbSpan(ib) = [months |-> 0, days |-> 0, seconds |-> seconds]
      BY <3>1 DEF IbSpan
    <3>5. IsoSpan(d) = [months |-> 0, days |-> 0, seconds |-> seconds]
      <4>1. /\ 12 * d.date.Y + d.date.M = 0 /\ 7 * d.date.W + d.date.D = 0
            /\ 3600 * d.time.H + 60 * d.time.M + d.time.S = seconds
        BY <2>3, <3>3
      <4> QED
        BY <4>1 DEF IsoSpan
    <3> QED
      BY <1>2, <3>2, <3>4, <3>5
  <2>6. CASE seconds = 0 /\ \E u \in dates : dates = {u}
    <3>1. PICK u \in dates : dates = {u}
      BY <2>6
    <3>2. u = CHOOSE v \in dates : TRUE
      BY <3>1
    <3>3. ib = [value |-> d.date[u], unit |-> u]
      BY <1>2, <2>6, <3>2 DEF parse_duration
    <3>4. u \in {"Y", "M", "W", "D"} /\ d.date[u] \in Nat
      BY <2>1, <2>2, <3>1
    <3>5. ib # None
      <4>1. ib \in IbDurations
        BY <3>3, <3>4 DEF IbDurations
      <4> QED
        BY <4>1, NoneAssumption
    <3>6. \A v \in {"Y", "M", "W", "D"} : v # u => d.date[v] = 0
      BY <2>2, <3>1
    <3>7. d.time.H = 0 /\ d.time.M = 0 /\ d.time.S = 0
      <4>1. 3600 * d.time.H + 60 * d.time.M + d.time.S = 0
        BY <2>3, <2>6
      <4>2. PICK h \in Nat, m \in Nat, s \in Nat : h = d.time.H /\ m = d.time.M /\ s = d.time.S
        BY <2>2
      <4>3. 3600 * h + 60 * m + s = 0
        BY <4>1, <4>2
      <4>4. h = 0 /\ m = 0 /\ s = 0
        BY <4>3
      <4> QED
        BY <4>2, <4>4
    <3> HIDE DEF dates, seconds
    <3>8. CASE u = "Y"
      <4>1. d.date.M = 0 /\ d.date.W = 0 /\ d.date.D = 0
        BY <3>6, <3>8
      <4>2. IbSpan(ib) = [months |-> 12 * d.date.Y, days |-> 0, seconds |-> 0]
        BY <3>3, <3>8 DEF IbSpan
      <4> QED
        BY <1>2, <2>2, <3>5, <3>7, <4>1, <4>2 DEF IsoSpan
    <3>9. CASE u = "M"
      <4>1. d.date.Y = 0 /\ d.date.W = 0 /\ d.date.D = 0
        BY <3>6, <3>9
      <4>2. IbSpan(ib) = [months |-> d.date.M, days |-> 0, seconds |-> 0]
        BY <3>3, <3>9 DEF IbSpan
      <4> QED
        BY <1>2, <2>2, <3>5, <3>7, <4>1, <4>2 DEF IsoSpan
    <3>10. CASE u = "W"
      <4>1. d.date.Y = 0 /\ d.date.M = 0 /\ d.date.D = 0
        BY <3>6, <3>10
      <4>2. IbSpan(ib) = [months |-> 0, days |-> 7 * d.date.W, seconds |-> 0]
        BY <3>3, <3>10 DEF IbSpan
      <4> QED
        BY <1>2, <2>2, <3>5, <3>7, <4>1, <4>2 DEF IsoSpan
    <3>11. CASE u = "D"
      <4>1. d.date.Y = 0 /\ d.date.M = 0 /\ d.date.W = 0
        BY <3>6, <3>11
      <4>2. IbSpan(ib) = [months |-> 0, days |-> d.date.D, seconds |-> 0]
        BY <3>3, <3>11 DEF IbSpan
      <4> QED
        BY <1>2, <2>2, <3>5, <3>7, <4>1, <4>2 DEF IsoSpan
    <3> QED
      BY <3>4, <3>8, <3>9, <3>10, <3>11
  <2>7. CASE /\ ~(dates = {} /\ seconds # 0)
             /\ ~(seconds = 0 /\ \E u \in dates : dates = {u})
    <3>1. ib = None
      BY <1>2, <2>7 DEF parse_duration
    <3>2. IsFiniteSet(dates)
      <4>1. IsFiniteSet({"Y"} \cup {"M"} \cup {"W"} \cup {"D"})
        <5>1. IsFiniteSet({"Y"} \cup {"M"})
          BY FS_Singleton, FS_AddElement
        <5>2. IsFiniteSet({"Y"} \cup {"M"} \cup {"W"})
          BY <5>1, FS_AddElement
        <5> QED
          BY <5>2, FS_AddElement
      <4>2. dates \in SUBSET ({"Y"} \cup {"M"} \cup {"W"} \cup {"D"})
        BY <2>2
      <4> HIDE DEF dates
      <4> QED
        BY <4>1, <4>2, FS_Subset
    <3>3. CASE seconds # 0
      <4>1. dates # {}
        BY <2>7, <3>3
      <4>2. Cardinality(dates) # 0
        BY <3>2, <4>1, FS_EmptySet
      <4> QED
        BY <1>2, <2>4, <3>1, <3>3, <4>2 DEF Units
    <3>4. CASE seconds = 0
      <4>1. ~\E u : dates = {u}
        BY <2>7, <3>4
      <4>2. Cardinality(dates) # 1
        <5> HIDE DEF dates
        <5> QED
          BY <3>2, <4>1, FS_Singleton
      <4> QED
        BY <1>2, <2>4, <3>1, <3>4, <4>2 DEF Units
    <3> QED
      BY <3>3, <3>4
  <2> QED
    BY <2>5, <2>6, <2>7
<1>3. CASE d.form = "other"
  BY <1>3 DEF parse_duration
<1> QED
  BY <1>1, <1>2, <1>3, DurationsAssumption

-----------------------------------------------------------------------------
(* Greeks and contracts.                                                   *)

\* The greeks taken from a quote are those of its first bundle with a number.
LEMMA GreeksExplained ==
  ASSUME NEW quote
  PROVE  Explained(extract_greeks(quote), quote)
<1> DEFINE HasAny(b) == quote[b] # None /\ \E n \in GreekNames : safe_float(quote[b][n]) # None
           Said(b, n) == quote[b] # None /\ quote[b][n] \notin {None, NaN}
           Silent(b) == \A n \in GreekNames : ~Said(b, n)
           I == { j \in 1..Len(GREEKS_PRIORITY) : HasAny(GREEKS_PRIORITY[j]) }
<1>1. PICK i : i = SelectInSeq(GREEKS_PRIORITY, HasAny)
  OBVIOUS
<1>2. i = IF I # {} THEN Min(I) ELSE 0
  BY <1>1 DEF SelectInSeq
<1>3. Len(GREEKS_PRIORITY) = 4 /\ DOMAIN GREEKS_PRIORITY = 1..4
  BY DEF GREEKS_PRIORITY
<1>4. (i = 0 /\ I = {}) \/ (i \in I /\ i # 0 /\ \A m \in 1..(i - 1) : m \notin I)
  <2>1. I \in SUBSET (1..4) /\ 4 \in Nat
    BY <1>3
  <2> HIDE DEF I
  <2> QED
    BY <1>2, <2>1, FirstPlace
<1>5. \A b : HasAny(b) <=> ~Silent(b)
  BY DEF safe_float
<1>6. \A j \in 1..4 : j \in I <=> ~Silent(GREEKS_PRIORITY[j])
  BY <1>3, <1>5
<1>7. extract_greeks(quote) =
        [n \in GreekNames |-> IF i = 0 THEN None
                              ELSE safe_float(quote[GREEKS_PRIORITY[i]][n])]
  BY <1>1 DEF extract_greeks
<1>8. CASE i = 0 /\ I = {}
  <2>1. \A j \in DOMAIN GREEKS_PRIORITY : Silent(GREEKS_PRIORITY[j])
    BY <1>3, <1>6, <1>8
  <2>2. \A n \in GreekNames : extract_greeks(quote)[n] = None
    BY <1>7, <1>8
  <2> QED
    BY <2>1, <2>2 DEF Explained
<1>9. CASE i \in I /\ i # 0 /\ \A m \in 1..(i - 1) : m \notin I
  <2>1. i \in 1..4
    BY <1>3, <1>9
  <2>2. i \in DOMAIN GREEKS_PRIORITY /\ ~Silent(GREEKS_PRIORITY[i])
    BY <1>3, <1>6, <1>9, <2>1
  <2>3. \A j \in 1..(i - 1) : Silent(GREEKS_PRIORITY[j])
    <3> SUFFICES ASSUME NEW j \in 1..(i - 1) PROVE Silent(GREEKS_PRIORITY[j])
      OBVIOUS
    <3>1. j \in 1..4 /\ j \notin I
      <4> HIDE DEF I
      <4> QED
        BY <1>9, <2>1
    <3> QED
      BY <1>6, <3>1
  <2>4. quote[GREEKS_PRIORITY[i]] # None
    BY <2>2
  <2>5. ASSUME NEW n \in GreekNames
        PROVE  extract_greeks(quote)[n] =
                 IF Said(GREEKS_PRIORITY[i], n) THEN quote[GREEKS_PRIORITY[i]][n] ELSE None
    BY <1>7, <1>9, <2>4 DEF safe_float
  <2> QED
    BY <2>2, <2>3, <2>5 DEF Explained
<1> QED
  BY <1>4, <1>8, <1>9

\* A sequence of two is its first and its second.
LEMMA TwoParts ==
  ASSUME NEW S, NEW p \in Seq(S), Len(p) = 2
  PROVE  << p[1] >> \o << p[2] >> = p
<1>1. PICK a \in S, b \in S : a = p[1] /\ b = p[2]
  OBVIOUS
<1>2. PICK s \in Seq(S) : s = << a >> /\ Len(s) = 1
  <2>1. << a >> \in Seq(S) /\ Len(<< a >>) = 1
    OBVIOUS
  <2> QED
    BY <2>1
<1>3. PICK t \in Seq(S) : t = << b >> /\ Len(t) = 1
  <2>1. << b >> \in Seq(S) /\ Len(<< b >>) = 1
    OBVIOUS
  <2> QED
    BY <2>1
<1>4. s \o t \in Seq(S) /\ Len(s \o t) = 2
  BY <1>2, <1>3
<1>5. \A i \in 1..2 : (s \o t)[i] = p[i]
  BY <1>1, <1>2, <1>3, <1>4
<1> QED
  BY <1>1, <1>2, <1>3, <1>4, <1>5, SeqEqual

KeepsExchange(c, a) ==
  \/ c.exchange = a.exchange
  \/ c.secType = "CASH" /\ a.exchange = "" /\ c.exchange = "IDEALPRO"

\* What a contract says of the instrument that it stands for.
LEMMA ContractAsAsked ==
  ASSUME NEW a, a.symbol \in Letters, a.currency \in Letters,
         ~ValueErrors(a), ~BadPair(a), NEW c, c = Contract(a)
  PROVE  /\ c.symbol \o c.currency = a.symbol \o a.currency /\ c.symbol # << >>
         /\ c.secType = Upper(a.secType) /\ c.secType \in SUPPORTED_SEC_TYPES
         /\ c.secType = "OPT" =>
              /\ None \notin {c.expiry, c.strike} /\ c.right \in {"C", "P"}
              /\ c.expiry = a.expiry /\ c.strike = a.strike /\ c.right = Upper(a.right)
         /\ c.secType = "FUT" => c.expiry # None /\ c.expiry = a.expiry
         /\ KeepsExchange(c, a)
         /\ c.secType = "CASH" => Len(c.symbol) = 1 /\ Len(c.currency) = 1
         /\ c.secType # "CASH" => c.symbol = a.symbol
<1>0. PICK pair : pair = Pair(a)
  OBVIOUS
<1>1. /\ c.secType = Upper(a.secType)
      /\ c.symbol = IF c.secType = "CASH" THEN << pair[1] >> ELSE a.symbol
      /\ c.currency = IF c.secType = "CASH" THEN << pair[2] >> ELSE a.currency
      /\ c.expiry = IF c.secType \in {"OPT", "FUT"} THEN a.expiry ELSE None
      /\ c.strike = IF c.secType = "OPT" THEN a.strike ELSE None
      /\ c.right = IF c.secType = "OPT" THEN Upper(a.right) ELSE None
  BY <1>0 DEF Contract
<1>4. KeepsExchange(c, a)
  BY DEF Contract, KeepsExchange
<1>2. CASE c.secType = "CASH"
  <2>1. pair \in Letters /\ Len(pair) = 2 /\ pair = a.symbol \o a.currency
    <3>1. a.symbol \o a.currency \in Letters
      BY DEF Letters
    <3> QED
      BY <1>0, <1>1, <1>2, <3>1 DEF BadPair, Pair
  <2>2. << pair[1] >> \o << pair[2] >> = pair
    BY <2>1, TwoParts DEF Letters
  <2>5. c.symbol # << >>
    BY <1>1, <1>2
  <2>6. Len(c.symbol) = 1 /\ Len(c.currency) = 1
    BY <1>1, <1>2
  <2> QED
    BY <1>1, <1>2, <1>4, <2>1, <2>2, <2>5, <2>6 DEF SUPPORTED_SEC_TYPES
<1>3. CASE c.secType # "CASH"
  BY <1>1, <1>3, <1>4 DEF ValueErrors
<1> QED
  BY <1>2, <1>3
-----------------------------------------------------------------------------
(* Option chains.                                                          *)

ChainSet == [exchange : STRING, expirations : SUBSET STRING,
             strikes : SUBSET Int, multiplier : Nat \cup {None}]

LEMMA ChainsTyped ==
  ASSUME NEW chains \in Params
  PROVE  /\ Len(chains) \in Nat /\ DOMAIN chains = 1..Len(chains)
         /\ \A i \in 1..Len(chains) :
              /\ chains[i].multiplier \in Nat \cup {None}
              /\ chains[i].strikes \in SUBSET Int /\ IsFiniteSet(chains[i].strikes)
<1>1. chains \in Seq(ChainSet) /\ \A i \in DOMAIN chains : IsFiniteSet(chains[i].strikes)
  BY RepliesAssumption DEF ChainSet
<1>2. Len(chains) \in Nat /\ DOMAIN chains = 1..Len(chains)
      /\ \A i \in 1..Len(chains) : chains[i] \in ChainSet
  BY <1>1
<1>3. \A c \in ChainSet : c.multiplier \in Nat \cup {None} /\ c.strikes \in SUBSET Int
  BY DEF ChainSet
<1> QED
  BY <1>1, <1>2, <1>3

LEMMA MultiplierCounts ==
  ASSUME NEW chains \in Params
  PROVE  Multiplier(chains) \in Nat
<1> DEFINE n == Len(chains)
           Known(m, chain) == IF chain.multiplier = None THEN m ELSE chain.multiplier
           A == Nat
           step == [x \in A \X (1..n) |-> Known(x[1], chains[x[2]])]
           Fold(f) == f = [s \in SUBSET (1..n) |->
                             IF s = {} THEN 100 ELSE Known(f[s \ {Max(s)}], chains[Max(s)])]
           h == CHOOSE f : Fold(f)
<1>1. n \in Nat /\ DOMAIN chains = 1..n /\ \A i \in 1..n : chains[i].multiplier \in Nat \cup {None}
  BY ChainsTyped
<1>2. 100 \in A /\ step \in StepsOf(A, n)
  <2>1. ASSUME NEW x \in A \X (1..n) PROVE Known(x[1], chains[x[2]]) \in A
    BY <1>1
  <2> QED
    BY <2>1 DEF StepsOf
<1>3. Multiplier(chains) = h[1..n]
  BY <1>1 DEF Multiplier, FoldLeft, MapThenFoldSet
<1>4. PICK g : Iterates(g, A, 100, n, step)
  BY <1>1, <1>2, IterationExists
<1>5. Fold(g)
  <2>1. g = [s \in SUBSET (1..n) |-> g[s]] /\ g[{}] = 100
    BY <1>4 DEF Iterates
  <2>2. ASSUME NEW s \in SUBSET (1..n), s # {}
        PROVE  g[s] = Known(g[s \ {Max(s)}], chains[Max(s)])
    <3>1. Max(s) \in 1..n /\ g[s \ {Max(s)}] \in A
      BY <1>4, <2>2 DEF Iterates
    <3>2. g[s] = step[<< g[s \ {Max(s)}], Max(s) >>]
      BY <1>4, <2>2 DEF Iterates
    <3> QED
      BY <3>1, <3>2
  <2>3. ASSUME NEW s \in SUBSET (1..n)
        PROVE  g[s] = IF s = {} THEN 100 ELSE Known(g[s \ {Max(s)}], chains[Max(s)])
    BY <2>1, <2>2
  <2> QED
    BY <2>1, <2>3
<1>6. Fold(h)
  BY <1>5
<1> HIDE DEF h
<1>7. FoldsBy(h, A, 100, n, step)
  <2>1. h[{}] = 100
    BY <1>6
  <2>2. ASSUME NEW s \in SUBSET (1..n), s # {}, h[s \ {Max(s)}] \in A
        PROVE  h[s] = step[<< h[s \ {Max(s)}], Max(s) >>]
    <3>1. Max(s) \in 1..n
      BY <1>4, <2>2 DEF Iterates
    <3> QED
      BY <1>6, <2>2, <3>1
  <2> QED
    BY <2>1, <2>2 DEF FoldsBy
<1>8. \A s \in SUBSET (1..n) : h[s] = g[s]
  <2> HIDE DEF step, A
  <2> QED
    BY <1>1, <1>2, <1>4, <1>7, IterationUnique
<1> QED
  BY <1>3, <1>4, <1>8 DEF Iterates

\* The strikes of all chains are finitely many.
LEMMA StrikesAreFinite ==
  ASSUME NEW chains \in Params
  PROVE  /\ Strikes(chains) \in SUBSET Int /\ IsFiniteSet(Strikes(chains))
         /\ Strikes(chains) = UNION { chain.strikes : chain \in ToSet(chains) }
<1> DEFINE n == Len(chains)
           Sets == { chain.strikes : chain \in ToSet(chains) }
           f == [i \in 1..n |-> chains[i].strikes]
<1>1. /\ n \in Nat /\ DOMAIN chains = 1..n
      /\ \A i \in 1..n : chains[i].strikes \in SUBSET Int /\ IsFiniteSet(chains[i].strikes)
  BY ChainsTyped
<1>2. /\ \A i \in 1..n : chains[i].strikes \in Sets
      /\ \A t \in Sets : \E i \in 1..n : t = chains[i].strikes
  BY <1>1 DEF ToSet
<1> HIDE DEF Sets
<1>3. f \in Surjection(1..n, Sets)
  BY <1>2 DEF Surjection
<1>4. IsFiniteSet(Sets)
  <2>1. IsFiniteSet(1..n)
    BY <1>1, FS_Interval
  <2> HIDE DEF f
  <2> QED
    BY <1>3, <2>1, FS_Surjection
<1>5. \A t \in Sets : IsFiniteSet(t) /\ t \in SUBSET Int
  BY <1>1, <1>2
<1>6. IsFiniteSet(UNION Sets) /\ UNION Sets \in SUBSET Int
  BY <1>4, <1>5, FS_UNION
<1> QED
  BY <1>6 DEF Strikes, Sets

LEMMA SortedHasAll ==
  ASSUME NEW T \in SUBSET Int, IsFiniteSet(T)
  PROVE  /\ Sorted(T) \in [1..Cardinality(T) -> T] /\ Cardinality(T) \in Nat
         /\ \A x \in T : \E i \in 1..Cardinality(T) : Sorted(T)[i] = x
<1>1. PICK list : list = Sorted(T)
  OBVIOUS
<1>2. list = CHOOSE l \in [1..Cardinality(T) -> T] : Ascends(l)
  BY <1>1 DEF Sorted, Ascends
<1>3. list \in [1..Cardinality(T) -> T] /\ Ascends(list)
  BY <1>2, InOrder
<1> QED
  BY <1>1, <1>3, EachOnce, FS_CardinalityType

\* The rights that a chain is asked for.
Rights(a) == IF a.right = None THEN {"C", "P"} ELSE {Upper(a.right)}

\* The descriptors of a chain: every strike with every right, each once.
LEMMA DescriptorsCover ==
  ASSUME NEW a, NEW chains \in Params
  PROVE  /\ Descriptors(a, chains) \in Seq(Strikes(chains) \X Rights(a))
         /\ \A x \in Strikes(chains), r \in Rights(a) :
              \E i \in DOMAIN Descriptors(a, chains) : Descriptors(a, chains)[i] = << x, r >>
         /\ Len(Descriptors(a, chains)) = Cardinality(Strikes(chains)) * Cardinality(Rights(a))
<1>1. PICK T : T = Strikes(chains) /\ T \in SUBSET Int /\ IsFiniteSet(T)
  BY StrikesAreFinite
<1>2. PICK strikes, k : /\ strikes = Sorted(T) /\ strikes \in [1..k -> T]
                        /\ k \in Nat /\ k = Cardinality(T)
                        /\ \A x \in T : \E i \in 1..k : strikes[i] = x
  BY <1>1, SortedHasAll
<1>3. strikes \in Seq(T) /\ Len(strikes) = k
  BY <1>2
<1>4. PICK d : d = Descriptors(a, chains)
  OBVIOUS
<1>5. CASE a.right = None
  <2>1. d = [i \in 1..(k * 2) |->
               << strikes[((i - 1) \div 2) + 1], << "C", "P" >>[((i - 1) % 2) + 1] >>]
    <3>1. Len(<< "C", "P" >>) = 2
      OBVIOUS
    <3> QED
      BY <1>1, <1>2, <1>3, <1>4, <1>5, <3>1 DEF Descriptors
  <2>2. Rights(a) = {"C", "P"}
    BY <1>5 DEF Rights
  <2>3. ASSUME NEW i \in 1..(k * 2)
        PROVE  /\ ((i - 1) \div 2) + 1 \in 1..k /\ ((i - 1) % 2) + 1 \in {1, 2}
    BY <1>2
  <2>4. ASSUME NEW i \in 1..(k * 2) PROVE d[i] \in T \X {"C", "P"}
    <3>1. PICK m \in 1..k, w \in {1, 2} : m = ((i - 1) \div 2) + 1 /\ w = ((i - 1) % 2) + 1
      BY <2>3
    <3>2. d[i] = << strikes[m], << "C", "P" >>[w] >>
      BY <2>1, <3>1
    <3>3. strikes[m] \in T /\ << "C", "P" >>[w] \in {"C", "P"}
      BY <1>2, <3>1
    <3> QED
      BY <3>2, <3>3
  <2>5. d \in Seq(T \X {"C", "P"}) /\ Len(d) = k * 2 /\ DOMAIN d = 1..(k * 2)
    <3>1. k * 2 \in Nat
      BY <1>2
    <3>2. d \in [1..(k * 2) -> T \X {"C", "P"}]
      BY <2>1, <2>4
    <3> QED
      BY <3>1, <3>2
  <2>6. ASSUME NEW x \in T, NEW r \in {"C", "P"}
        PROVE  \E i \in DOMAIN d : d[i] = << x, r >>
    <3>1. PICK m \in 1..k : strikes[m] = x
      BY <1>2
    <3>2. CASE r = "C"
      <4>1. /\ 2 * m - 1 \in 1..(k * 2) /\ (((2 * m - 1) - 1) \div 2) + 1 = m
            /\ (((2 * m - 1) - 1) % 2) + 1 = 1
        BY <1>2
      <4>2. d[2 * m - 1] = << x, r >>
        BY <2>1, <3>1, <3>2, <4>1
      <4> QED
        BY <2>5, <4>1, <4>2
    <3>3. CASE r = "P"
      <4>1. /\ 2 * m \in 1..(k * 2) /\ ((2 * m - 1) \div 2) + 1 = m
            /\ ((2 * m - 1) % 2) + 1 = 2
        BY <1>2
      <4>2. d[2 * m] = << x, r >>
        BY <2>1, <3>1, <3>3, <4>1
      <4> QED
        BY <2>5, <4>1, <4>2
    <3> QED
      BY <3>2, <3>3
  <2>7. Cardinality({"C", "P"}) = 2
    <3>1. IsFiniteSet({"C"}) /\ Cardinality({"C"}) = 1 /\ "P" \notin {"C"}
      BY FS_Singleton
    <3>2. Cardinality({"C"} \cup {"P"}) = 2
      BY <3>1, FS_AddElement
    <3>3. {"C", "P"} = {"C"} \cup {"P"}
      OBVIOUS
    <3> QED
      BY <3>2, <3>3
  <2> QED
    BY <1>1, <1>2, <1>4, <2>2, <2>5, <2>6, <2>7
<1>6. CASE a.right # None
  <2>1. PICK u : u = Upper(a.right) /\ Rights(a) = {u}
    BY <1>6 DEF Rights
  <2>2. d = [i \in 1..(k * 1) |-> << strikes[((i - 1) \div 1) + 1], << u >>[((i - 1) % 1) + 1] >>]
    <3>1. Len(<< u >>) = 1
      OBVIOUS
    <3> QED
      BY <1>1, <1>2, <1>3, <1>4, <1>6, <2>1, <3>1 DEF Descriptors
  <2>3. \A i \in 1..k : ((i - 1) \div 1) + 1 = i /\ ((i - 1) % 1) + 1 = 1
    BY <1>2
  <2>4. k * 1 = k
    BY <1>2
  <2>5. d = [i \in 1..k |-> << strikes[i], u >>]
    BY <2>2, <2>3, <2>4
  <2>6. d \in Seq(T \X {u}) /\ Len(d) = k /\ DOMAIN d = 1..k
    <3>1. d \in [1..k -> T \X {u}]
      BY <1>2, <2>5
    <3> QED
      BY <1>2, <3>1
  <2>7. ASSUME NEW x \in T, NEW r \in {u}
        PROVE  \E i \in DOMAIN d : d[i] = << x, r >>
    <3>1. PICK m \in 1..k : strikes[m] = x
      BY <1>2
    <3> QED
      BY <2>5, <2>6, <3>1
  <2>8. Cardinality({u}) = 1
    BY FS_Singleton
  <2> QED
    BY <1>1, <1>2, <1>4, <2>1, <2>4, <2>6, <2>7, <2>8
<1> QED
  BY <1>5, <1>6
-----------------------------------------------------------------------------
(* The inductive invariant: what a call has asked for, what it was told,   *)
(* and what its answer is made of.                                         *)

Refused(code) == [code |-> code, data |-> None]
Told(data) == [code |-> "ok", data |-> data]
Nothing == [code |-> None, data |-> None]
Request(kind, contracts, duration) ==
  [kind |-> kind, contracts |-> contracts, duration |-> duration]
TimedArguments == { WithDuration(a, d) : a \in Instruments, d \in Durations }

\* The arguments a of tool t.
Fits(t, a) ==
  /\ t \in {"get_market_data", "get_contract_details"} => a \in Instruments
  /\ t = "get_historical_data" => a \in Instruments \cup TimedArguments
  /\ t = "get_option_chain" => a \in Chains
  /\ t = "get_flex_query" => a \in FlexCalls
  /\ t = "list_flex_queries" => a = None

Good(a) == ~ValueErrors(a) /\ ~BadPair(a)
ResolvedBy(c, found) == [c EXCEPT !.conId = found[1]]
Snapshots(a, chains) ==
  [i \in DOMAIN Descriptors(a, chains) |-> OptionOf(a, Descriptors(a, chains)[i])]

\* The requests s of tool t with arguments a, given the replies r.
MarketSends(a, s, r) ==
  /\ Good(a) /\ Len(s) \in {1, 2} /\ Len(s) <= Len(r) + 1
  /\ s[1] = Request("qualify", << Contract(a) >>, None)
  /\ Len(s) = 2 => s[2] = Request("tickers", << ResolvedBy(Contract(a), r[1]) >>, None)
HistorySends(a, s) ==
  /\ Good(a) /\ Len(s) = 1
  /\ a \in TimedArguments /\ parse_duration(a.duration) # None
  /\ s[1] = Request("history", << Contract(a) >>, parse_duration(a.duration))
DetailsSends(a, s) ==
  /\ Good(a) /\ Len(s) = 1
  /\ s[1] = Request("details", << Contract(a) >>, None)
ChainSends(a, s, r) ==
  /\ ~ValueErrors(Underlying(a)) /\ Len(s) \in {1, 2, 3} /\ Len(s) <= Len(r) + 1
  /\ s[1] = Request("qualify", << Contract(Underlying(a)) >>, None)
  /\ Len(s) \in {2, 3} =>
       s[2] = Request("params", << ResolvedBy(Contract(Underlying(a)), r[1]) >>, None)
  /\ Len(s) = 3 =>
       /\ OfferedExpiry(a, r[2]) /\ GoodRight(a)
       /\ s[3] = Request("tickers", Snapshots(a, r[2]), None)
FlexSends(a, raw, s) ==
  FlexQuery(a, raw) # None /\ s = << [kind |-> "download", query |-> FlexQuery(a, raw).queryId] >>
Sends(t, a, raw, s, r) ==
  s # << >> =>
    /\ t \in Tools \ {"list_flex_queries"}
    /\ t = "get_market_data" => MarketSends(a, s, r)
    /\ t = "get_historical_data" => HistorySends(a, s)
    /\ t = "get_contract_details" => DetailsSends(a, s)
    /\ t = "get_option_chain" => ChainSends(a, s, r)
    /\ t = "get_flex_query" => FlexSends(a, raw, s)

\* Each reply is one to its request.
Replied(t, s, r) ==
  /\ Len(r) <= Len(s) /\ Len(s) <= Len(r) + 1
  /\ t \notin FlexTools => \A i \in 1..Len(r) : r[i] \in Replies(s[i])

\* The answer ans of a call that is done.
Declines(t, a, connected, s, r, e, ans) ==
  \/ ans = Refused("IB_NOT_CONNECTED") /\ ~connected /\ e = None /\ t \notin FlexTools
  \/ e \in Exceptions /\ ans = Refused(map_exception(e)) /\ s # << >> /\ t \notin FlexTools
  \/ /\ ans = Refused("IB_INVALID_CONTRACT") /\ e = None /\ t \notin FlexTools
     /\ \/ s = << >> /\ t \in InstrumentTools /\ ValueErrors(a)
        \/ s = << >> /\ t = "get_option_chain" /\ ValueErrors(Underlying(a))
        \/ r = << << >> >>
        \/ /\ t = "get_option_chain" /\ Len(r) = 2
           /\ Given(a.expiry) /\ ~OfferedExpiry(a, r[2])
  \/ /\ ans = Refused("VALIDATION_ERROR") /\ e = None
     /\ \/ t \in InstrumentTools /\ a \in Instruments
        \/ /\ t = "get_historical_data" /\ a \in TimedArguments
           /\ parse_duration(a.duration) = None
        \/ t = "get_option_chain" \/ t = "get_flex_query"
  \/ /\ ans = Refused("IB_NO_MARKET_DATA") /\ e = None /\ t \notin FlexTools
     /\ Len(r) = 2 /\ r[2] = << >>
  \/ ans = Refused("IB_FLEX_ERROR") /\ e = None /\ t = "get_flex_query"
Tells(t, a, raw, s, r, ans) ==
  \/ /\ t = "get_market_data" /\ Len(s) = 2 /\ Len(r) = 2 /\ r[2] # << >>
     /\ ans = Told(MarketData(a, r[2][1]))
  \/ t = "get_historical_data" /\ Len(r) = 1 /\ ans = Told(HistoricalBars(r[1]))
  \/ t = "get_contract_details" /\ Len(r) = 1 /\ ans = Told(DetailsToResponse(a, r[1][1]))
  \/ /\ t = "get_option_chain" /\ Len(s) = 2 /\ Len(r) = 2 /\ ~Given(a.expiry)
     /\ ans = Told([exchanges |-> Exchanges(r[2]), expirations |-> Expirations(r[2]),
                    strikes |-> Strikes(r[2]), multiplier |-> Multiplier(r[2])])
  \/ /\ t = "get_option_chain" /\ Len(s) = 2 /\ Len(r) = 2 /\ Given(a.expiry)
     /\ ans = Told([multiplier |-> Multiplier(r[2]), lines |-> << >>])
  \/ /\ t = "get_option_chain" /\ Len(s) = 3 /\ Len(r) = 3
     /\ ans = Told([multiplier |-> Multiplier(r[2]),
                    lines |-> OptionChainStrikes(a, r[2], r[3])])
  \/ t = "list_flex_queries" /\ ans = Told(parse_registry(raw))
  \/ /\ t = "get_flex_query" /\ s # << >>
     /\ \E report \in Reports :
          r = << report >> /\ ans = Told(FlexQueryResult(FlexQuery(a, raw), a, report))

Phase(p, t, a, raw, connected, s, r, rp, e, ans) ==
  /\ p = "idle" => /\ t = None /\ a = None /\ s = << >> /\ r = << >>
                   /\ rp = "none" /\ e = None /\ ans = Nothing
  /\ p = "awaiting" =>
       /\ t \in Tools \ FlexTools /\ s # << >> /\ ans = Nothing
       /\ rp \in {"pending", "data", "empty", "raised", "lost"}
       /\ rp \in {"data", "empty"} => Len(r) = Len(s)
       /\ rp \in {"pending", "raised", "lost"} => Len(s) = Len(r) + 1
       /\ rp = "lost" => ~connected
       /\ IF rp = "raised" THEN e \in Exceptions ELSE e = None
  /\ p = "downloading" =>
       /\ t = "get_flex_query" /\ s # << >> /\ r = << >> /\ ans = Nothing
       /\ rp = "none" /\ e = None
  /\ p = "done" =>
       /\ t \in Tools /\ rp = "none" /\ e \in Exceptions \cup {None}
       /\ \/ Declines(t, a, connected, s, r, e, ans)
          \/ e = None /\ Tells(t, a, raw, s, r, ans)

DInv ==
  /\ is_connected \in BOOLEAN /\ queries \in Registries
  /\ pc \in {"idle", "awaiting", "downloading", "done"}
  /\ IsSeq(sent) /\ IsSeq(replies)
  /\ Fits(tool, args)
  /\ Sends(tool, args, queries, sent, replies)
  /\ Replied(tool, sent, replies)
  /\ Phase(pc, tool, args, queries, is_connected, sent, replies, reply, raised, answer)
-----------------------------------------------------------------------------
(* What the invariant implies.                                             *)

LEMMA ArgumentFields ==
  /\ \A a \in Instruments : /\ a.symbol \in Letters /\ a.currency \in Letters
                            /\ "duration" \notin DOMAIN a
  /\ \A a \in Chains : a.symbol \in Letters /\ a.currency \in Letters
  /\ \A a \in FlexCalls : a.queryId \in Text /\ a.queryName \in Text
<1>1. ASSUME NEW a \in Instruments
      PROVE  a.symbol \in Letters /\ a.currency \in Letters /\ "duration" \notin DOMAIN a
  <2>1. a \in [symbol : Letters, secType : STRING, exchange : STRING,
               currency : Letters, expiry : Text, strike : Number, right : Text]
    BY ArgumentsAssumption
  <2> QED
    BY <2>1
<1>2. ASSUME NEW a \in Chains
      PROVE  a.symbol \in Letters /\ a.currency \in Letters
  <2>1. a \in [symbol : Letters, exchange : STRING, currency : Letters,
               expiry : Text, right : Text]
    BY ArgumentsAssumption
  <2> QED
    BY <2>1
<1>3. ASSUME NEW a \in FlexCalls
      PROVE  a.queryId \in Text /\ a.queryName \in Text
  <2>1. a \in [queryId : Text, queryName : Text, topic : Text]
    BY ArgumentsAssumption
  <2> QED
    BY <2>1
<1> QED
  BY <1>1, <1>2, <1>3

\* A duration changes nothing else of an instrument.
LEMMA TimedArgumentFields ==
  ASSUME NEW a \in TimedArguments
  PROVE  /\ a.symbol \in Letters /\ a.currency \in Letters
         /\ a.duration \in Durations /\ "duration" \in DOMAIN a
<1>1. PICK b \in Instruments, d \in Durations : a = WithDuration(b, d)
  BY DEF TimedArguments
<1>2. /\ {"symbol", "currency"} \subseteq DOMAIN b /\ b.symbol \in Letters /\ b.currency \in Letters
  <2>1. b \in [symbol : Letters, secType : STRING, exchange : STRING,
               currency : Letters, expiry : Text, strike : Number, right : Text]
    BY ArgumentsAssumption
  <2> QED
    BY <2>1
<1>3. /\ DOMAIN a = DOMAIN b \cup {"duration"}
      /\ \A f \in DOMAIN a : a[f] = IF f = "duration" THEN d ELSE b[f]
  BY <1>1 DEF WithDuration
<1>4. a.symbol = b.symbol /\ a.currency = b.currency /\ a.duration = d
  BY <1>2, <1>3
<1> QED
  BY <1>2, <1>3, <1>4

\* The contract of the underlying, resolved or not.
LEMMA UnderlyingContract ==
  ASSUME NEW a \in Chains, ~ValueErrors(Underlying(a)), NEW c, c = Contract(Underlying(a))
  PROVE  /\ c.secType = "STK" /\ c.symbol = a.symbol /\ c.currency = a.currency
         /\ a.symbol # << >> /\ c.exchange = a.exchange
<1>1. /\ Underlying(a).secType = "STK" /\ Underlying(a).symbol = a.symbol
      /\ Underlying(a).currency = a.currency /\ Underlying(a).exchange = a.exchange
  BY DEF Underlying
<1>2. Upper(Underlying(a).secType) = "STK"
  BY <1>1, UpperAssumption
<1>3. /\ c.secType = "STK" /\ c.symbol = a.symbol /\ c.currency = a.currency
      /\ c.exchange = a.exchange
  BY <1>1, <1>2 DEF Contract
<1> QED
  BY <1>1, <1>3 DEF ValueErrors

LEMMA ResolvedFields ==
  ASSUME NEW a, NEW found, NEW c, c = ResolvedBy(Contract(a), found), NEW d, d = Contract(a)
  PROVE  /\ c.conId = found[1] /\ c.secType = d.secType /\ c.symbol = d.symbol
         /\ c.currency = d.currency /\ c.expiry = d.expiry /\ c.strike = d.strike
         /\ c.right = d.right /\ c.exchange = d.exchange
BY DEF ResolvedBy, Contract

\* Each snapshot is asked for the option that its descriptor describes.
LEMMA SnapshotContract ==
  ASSUME NEW a \in Chains, NEW chains \in Params, OfferedExpiry(a, chains), GoodRight(a),
         NEW i \in DOMAIN Descriptors(a, chains),
         NEW c, c = OptionOf(a, Descriptors(a, chains)[i])
  PROVE  /\ c.secType = "OPT" /\ c.symbol = a.symbol /\ c.currency = a.currency
         /\ c.exchange = a.exchange /\ c.expiry = a.expiry /\ c.expiry # None
         /\ c.strike = Descriptors(a, chains)[i][1] /\ c.strike # None
         /\ c.right = Descriptors(a, chains)[i][2] /\ c.right \in {"C", "P"}
<1>1. PICK x, u : /\ Descriptors(a, chains)[i] = << x, u >>
                  /\ x \in Strikes(chains) /\ u \in Rights(a)
  <2>1. PICK d, S : d = Descriptors(a, chains) /\ S = Strikes(chains) \X Rights(a)
    OBVIOUS
  <2>2. d \in Seq(S) /\ i \in DOMAIN d
    BY <2>1, DescriptorsCover
  <2>3. d[i] \in S
    BY <2>2
  <2> QED
    BY <2>1, <2>3
<1>2. x \in Int
  BY <1>1, StrikesAreFinite
<1>3. u \in {"C", "P"}
  BY <1>1 DEF Rights, GoodRight
<1>4. Upper(u) = u /\ Upper("OPT") = "OPT"
  BY <1>3, UpperAssumption
<1> DEFINE b == [Underlying(a) EXCEPT !.secType = "OPT", !.expiry = a.expiry,
                                      !.strike = x, !.right = u]
<1>5. /\ b.secType = "OPT" /\ b.expiry = a.expiry /\ b.strike = x /\ b.right = u
      /\ b.symbol = a.symbol /\ b.currency = a.currency /\ b.exchange = a.exchange
  BY DEF Underlying
<1>6. c = Contract(b)
  BY <1>1 DEF OptionOf
<1> HIDE DEF b
<1>7. /\ c.secType = "OPT" /\ c.symbol = a.symbol /\ c.currency = a.currency
      /\ c.expiry = a.expiry /\ c.strike = x /\ c.right = u /\ c.exchange = a.exchange
  <2>1. Upper(b.secType) = "OPT" /\ Upper(b.right) = u
    BY <1>4, <1>5
  <2>2. /\ c.secType = "OPT" /\ c.symbol = b.symbol /\ c.currency = b.currency
        /\ c.expiry = b.expiry /\ c.strike = b.strike /\ c.right = u
        /\ c.exchange = b.exchange
    BY <1>6, <2>1 DEF Contract
  <2> QED
    BY <1>5, <2>2
<1>8. a.expiry # None
  BY DEF OfferedExpiry, Given
<1> QED
  BY <1>1, <1>2, <1>3, <1>7, <1>8, NoneAssumption

\* The replies to the requests of each tool.
LEMMA RepliesFit ==
  ASSUME NEW t, NEW a, NEW raw, NEW s, NEW r, IsSeq(s), IsSeq(r), s # << >>,
         Sends(t, a, raw, s, r), Replied(t, s, r)
  PROVE  /\ t = "get_option_chain" /\ Len(r) >= 2 /\ Len(s) >= 2 => r[2] \in Params
         /\ t = "get_option_chain" /\ Len(r) = 3 /\ Len(s) = 3 => r[3] \in Tickers(Snapshots(a, r[2]))
         /\ t = "get_market_data" /\ Len(r) = 2 => r[2] \in Tickers(s[2].contracts)
<1>1. Len(r) \in Nat /\ Len(s) \in Nat
  BY DEF IsSeq
<1>2. ASSUME t = "get_option_chain", Len(r) >= 2, Len(s) >= 2 PROVE r[2] \in Params
  <2>1. r[2] \in Replies(s[2])
    BY <1>1, <1>2 DEF Replied, FlexTools
  <2>2. s[2].kind = "params"
    BY <1>1, <1>2 DEF Sends, ChainSends, Request
  <2> QED
    BY <2>1, <2>2 DEF Replies
<1>3. ASSUME t = "get_option_chain", Len(r) = 3, Len(s) = 3
      PROVE  r[3] \in Tickers(Snapshots(a, r[2]))
  <2>1. r[3] \in Replies(s[3])
    BY <1>1, <1>3 DEF Replied, FlexTools
  <2>2. s[3].kind = "tickers" /\ s[3].contracts = Snapshots(a, r[2])
    BY <1>1, <1>3 DEF Sends, ChainSends, Request
  <2> QED
    BY <2>1, <2>2 DEF Replies
<1>4. ASSUME t = "get_market_data", Len(r) = 2 PROVE r[2] \in Tickers(s[2].contracts)
  <2>1. r[2] \in Replies(s[2])
    BY <1>1, <1>4 DEF Replied, FlexTools
  <2>2. s[2].kind = "tickers"
    BY <1>1, <1>4 DEF Sends, MarketSends, Request, Replied
  <2> QED
    BY <2>1, <2>2 DEF Replies
<1> QED
  BY <1>2, <1>3, <1>4
LEMMA CodesApart ==
  /\ None \notin Codes /\ None \notin Tools
  /\ {"ok", "IB_NOT_CONNECTED", "IB_INVALID_CONTRACT", "VALIDATION_ERROR", "IB_NO_MARKET_DATA",
      "IB_FLEX_ERROR"} \subseteq Codes
BY NamesAssumption DEF Codes

\* The length of what was sent and received.
LEMMA Lengths ==
  ASSUME DInv
  PROVE  /\ Len(sent) \in 0..3 /\ Len(sent) <= 3 /\ Len(replies) \in Nat /\ Len(replies) <= Len(sent)
         /\ DOMAIN sent = 1..Len(sent) /\ DOMAIN replies = 1..Len(replies)
         /\ sent = << >> => Len(sent) = 0
         /\ Len(sent) = 0 => sent = << >>
<1>1. /\ Len(sent) \in Nat /\ Len(replies) \in Nat
      /\ DOMAIN sent = 1..Len(sent) /\ DOMAIN replies = 1..Len(replies)
  BY DEF DInv, IsSeq
<1>2. Len(sent) = 0 <=> sent = << >>
  BY DEF DInv, IsSeq
<1>3. sent # << >> => Len(sent) <= 3
  <2> SUFFICES ASSUME sent # << >> PROVE Len(sent) <= 3
    OBVIOUS
  <2>1. Sends(tool, args, queries, sent, replies)
    BY DEF DInv
  <2>2. CASE tool = "get_market_data"
    <3>1. MarketSends(args, sent, replies)
      BY <2>1, <2>2 DEF Sends
    <3>2. Len(sent) = 1 \/ Len(sent) = 2
      BY <3>1 DEF MarketSends
    <3> QED
      BY <1>1, <3>2
  <2>3. CASE tool = "get_historical_data"
    <3>1. HistorySends(args, sent)
      BY <2>1, <2>3 DEF Sends
    <3> QED
      BY <3>1 DEF HistorySends
  <2>4. CASE tool = "get_contract_details"
    <3>1. DetailsSends(args, sent)
      BY <2>1, <2>4 DEF Sends
    <3> QED
      BY <3>1 DEF DetailsSends
  <2>5. CASE tool = "get_option_chain"
    <3>1. ChainSends(args, sent, replies)
      BY <2>1, <2>5 DEF Sends
    <3>2. PICK n \in Nat : n = Len(sent)
      BY <1>1
    <3>3. n \in {1, 2, 3}
      BY <3>1, <3>2 DEF ChainSends
    <3>4. n <= 3
      BY <3>3
    <3> QED
      BY <3>2, <3>4
  <2>6. CASE tool = "get_flex_query"
    <3>1. FlexSends(args, queries, sent)
      BY <2>1, <2>6 DEF Sends
    <3> QED
      BY <3>1 DEF FlexSends
  <2> QED
    BY <2>1, <2>2, <2>3, <2>4, <2>5, <2>6 DEF Sends, Tools, InstrumentTools, FlexTools
<1> QED
  BY <1>1, <1>2, <1>3 DEF DInv, Replied

\* The code of an answer, and what came with it.
LEMMA AnswerCodes ==
  ASSUME DInv
  PROVE  /\ pc # "done" => answer = Nothing
         /\ pc = "done" => answer.code \in Codes
         /\ answer.code = "ok" => /\ pc = "done" /\ raised = None
                                  /\ Tells(tool, args, queries, sent, replies, answer)
<1>1. Phase(pc, tool, args, queries, is_connected, sent, replies, reply, raised, answer)
      /\ pc \in {"idle", "awaiting", "downloading", "done"}
  BY DEF DInv
<1>2. pc # "done" => answer = Nothing
  BY <1>1 DEF Phase
<1>3. ASSUME pc = "done", Declines(tool, args, is_connected, sent, replies, raised, answer)
      PROVE  answer.code \in Codes /\ answer.code # "ok"
  <2>1. CASE raised \in Exceptions /\ answer = Refused(map_exception(raised))
    BY <2>1, CodesHaveCauses DEF Refused
  <2>2. CASE \E code \in Codes \ {"ok"} : answer = Refused(code)
    BY <2>2 DEF Refused
  <2>3. /\ "IB_NOT_CONNECTED" \in Codes \ {"ok"} /\ "IB_INVALID_CONTRACT" \in Codes \ {"ok"}
        /\ "VALIDATION_ERROR" \in Codes \ {"ok"} /\ "IB_NO_MARKET_DATA" \in Codes \ {"ok"}
        /\ "IB_FLEX_ERROR" \in Codes \ {"ok"}
    BY DEF Codes
  <2> QED
    BY <1>3, <2>1, <2>2, <2>3 DEF Declines
<1>4. ASSUME Tells(tool, args, queries, sent, replies, answer)
      PROVE  answer.code = "ok"
  BY <1>4 DEF Tells, Told
<1>5. pc = "done" => \/ Declines(tool, args, is_connected, sent, replies, raised, answer)
                     \/ raised = None /\ Tells(tool, args, queries, sent, replies, answer)
  BY <1>1 DEF Phase
<1>6. answer = Nothing => answer.code # "ok"
  BY CodesApart DEF Nothing
<1> QED
  BY <1>2, <1>3, <1>4, <1>5, <1>6, CodesApart

LEMMA SaysTypes == DInv => TypeOK
<1> SUFFICES ASSUME DInv PROVE TypeOK
  OBVIOUS
<1>1. /\ Fits(tool, args) /\ Sends(tool, args, queries, sent, replies)
      /\ Replied(tool, sent, replies) /\ IsSeq(sent) /\ IsSeq(replies)
      /\ Phase(pc, tool, args, queries, is_connected, sent, replies, reply, raised, answer)
      /\ pc \in {"idle", "awaiting", "downloading", "done"}
  BY DEF DInv
<1>2. tool \in Tools \cup {None}
  BY <1>1 DEF Phase, Tools, FlexTools
<1>3. tool # "get_historical_data" =>
        args \in Instruments \cup Chains \cup FlexCalls \cup {None}
  <2>1. tool = None => args = None
    BY <1>1, CodesApart DEF Phase, Tools, FlexTools
  <2> QED
    BY <1>1, <1>2, <2>1 DEF Fits, Tools, InstrumentTools, FlexTools
<1>4. reply \in {"none", "pending", "data", "empty", "raised", "lost"}
  BY <1>1 DEF Phase
<1>5. raised \in Exceptions \cup {None}
  BY <1>1 DEF Phase
<1>6. answer.code \in Codes \cup {None}
  BY AnswerCodes DEF Nothing
<1>7. ASSUME Answered("get_option_chain") PROVE answer.data.multiplier \in Nat
  <2>1. /\ tool = "get_option_chain" /\ Tells(tool, args, queries, sent, replies, answer)
    BY <1>7, AnswerCodes DEF Answered
  <2>2. /\ Len(sent) >= 2 /\ Len(replies) >= 2
        /\ answer.data.multiplier = Multiplier(replies[2])
    BY <2>1 DEF Tells, Told
  <2>3. replies[2] \in Params
    <3>1. sent # << >>
      BY <2>2, Lengths
    <3> QED
      BY <1>1, <2>1, <2>2, <3>1, RepliesFit
  <2> QED
    BY <2>2, <2>3, MultiplierCounts
<1> QED
  <2>1. is_connected \in BOOLEAN /\ queries \in Registries
    BY DEF DInv
  <2>2. Len(sent) <= 3 /\ Len(replies) <= Len(sent)
    BY Lengths
  <2> QED
    BY <1>1, <1>2, <1>3, <1>4, <1>5, <1>6, <1>7, <2>1, <2>2 DEF TypeOK

LEMMA SaysRequests == DInv => RequestsAsAsked
<1> DEFINE Fine(i, c) ==
             /\ c.symbol \o c.currency = args.symbol \o args.currency /\ c.symbol # << >>
             /\ c.secType = "OPT" => (None \notin {c.expiry, c.strike} /\ c.right \in {"C", "P"})
             /\ c.secType = "FUT" => c.expiry # None
             /\ c.secType \in {"OPT", "FUT"} => c.expiry = args.expiry
             /\ c.secType = "OPT" /\ tool \in InstrumentTools =>
                  c.strike = args.strike /\ c.right = Upper(args.right)
             /\ \/ c.exchange = args.exchange
                \/ c.secType = "CASH" /\ args.exchange = "" /\ c.exchange = "IDEALPRO"
             /\ c.secType = "CASH" => Len(c.symbol) = 1 /\ Len(c.currency) = 1
             /\ tool = "get_market_data" /\ i = 2 => c.conId = replies[1][1]
             /\ tool \in InstrumentTools => c.secType = Upper(args.secType)
<1> SUFFICES ASSUME DInv, tool \notin FlexTools, NEW i \in DOMAIN sent,
                    NEW c \in ToSet(sent[i].contracts)
             PROVE  Fine(i, c)
  BY DEF RequestsAsAsked
<1>1. /\ Fits(tool, args) /\ Sends(tool, args, queries, sent, replies) /\ sent # << >>
      /\ Replied(tool, sent, replies) /\ IsSeq(sent) /\ IsSeq(replies)
  BY Lengths DEF DInv
<1>2. i \in 1..Len(sent) /\ Len(sent) \in 1..3
  BY <1>1, Lengths
<1>3. ASSUME NEW d, sent[i].contracts = << d >> PROVE c = d
  BY <1>3 DEF ToSet
<1>4. ASSUME tool \in InstrumentTools, Good(args),
             \/ c = Contract(args)
             \/ c = ResolvedBy(Contract(args), replies[1]) /\ tool = "get_market_data",
             tool = "get_market_data" /\ i = 2 => c = ResolvedBy(Contract(args), replies[1])
      PROVE  Fine(i, c)
  <2>1. args.symbol \in Letters /\ args.currency \in Letters
    BY <1>1, <1>4, ArgumentFields, TimedArgumentFields DEF Fits, InstrumentTools
  <2>2. PICK d : d = Contract(args)
    OBVIOUS
  <2>3. /\ d.symbol \o d.currency = args.symbol \o args.currency /\ d.symbol # << >>
        /\ d.secType = Upper(args.secType)
        /\ d.secType = "OPT" => None \notin {d.expiry, d.strike} /\ d.right \in {"C", "P"}
        /\ d.secType = "FUT" => d.expiry # None
        /\ d.secType \in {"OPT", "FUT"} => d.expiry = args.expiry
        /\ d.secType = "OPT" => d.strike = args.strike /\ d.right = Upper(args.right)
        /\ KeepsExchange(d, args)
        /\ d.secType = "CASH" => Len(d.symbol) = 1 /\ Len(d.currency) = 1
    BY <1>4, <2>1, <2>2, ContractAsAsked DEF Good
  <2>4. /\ c.secType = d.secType /\ c.symbol = d.symbol /\ c.currency = d.currency
        /\ c.expiry = d.expiry /\ c.strike = d.strike /\ c.right = d.right
        /\ c.exchange = d.exchange
    BY <1>4, <2>2, ResolvedFields
  <2>5. tool = "get_market_data" /\ i = 2 => c.conId = replies[1][1]
    BY <1>4, <2>2, ResolvedFields
  <2> QED
    BY <2>3, <2>4, <2>5 DEF KeepsExchange
<1> HIDE DEF Fine
<1>5. CASE tool = "get_market_data"
  <2>1. MarketSends(args, sent, replies) /\ tool \in InstrumentTools
    BY <1>1, <1>5 DEF Sends, InstrumentTools
  <2>9. Good(args) /\ Len(sent) \in {1, 2}
    BY <2>1 DEF MarketSends
  <2>2. CASE i = 1
    <3>1. c = Contract(args)
      BY <1>3, <2>1, <2>2 DEF MarketSends, Request
    <3> QED
      BY <1>4, <1>5, <2>9, <2>1, <2>2, <3>1
  <2>3. CASE i = 2
    <3>1. c = ResolvedBy(Contract(args), replies[1])
      BY <1>2, <1>3, <2>1, <2>3 DEF MarketSends, Request
    <3> QED
      BY <1>4, <1>5, <2>9, <2>1, <2>3, <3>1
  <2> QED
    BY <1>2, <2>9, <2>2, <2>3
<1>6. CASE tool = "get_historical_data"
  <2>1. HistorySends(args, sent)
    BY <1>1, <1>6 DEF Sends
  <2>2. c = Contract(args)
    <3>1. i = 1
      BY <1>2, <2>1 DEF HistorySends
    <3> QED
      BY <1>3, <2>1, <3>1 DEF HistorySends, Request
  <2>3. Good(args) /\ tool \in InstrumentTools
    BY <1>6, <2>1 DEF HistorySends, InstrumentTools
  <2>4. tool = "get_market_data" /\ i = 2 => c = ResolvedBy(Contract(args), replies[1])
    BY <1>6
  <2> QED
    BY <1>4, <2>2, <2>3, <2>4
<1>7. CASE tool = "get_contract_details"
  <2>1. DetailsSends(args, sent)
    BY <1>1, <1>7 DEF Sends
  <2>2. c = Contract(args)
    <3>1. i = 1
      BY <1>2, <2>1 DEF DetailsSends
    <3> QED
      BY <1>3, <2>1, <3>1 DEF DetailsSends, Request
  <2>3. Good(args) /\ tool \in InstrumentTools
    BY <1>7, <2>1 DEF DetailsSends, InstrumentTools
  <2>4. tool = "get_market_data" /\ i = 2 => c = ResolvedBy(Contract(args), replies[1])
    BY <1>7
  <2> QED
    BY <1>4, <2>2, <2>3, <2>4
<1>8. CASE tool = "get_option_chain"
  <2>1. ChainSends(args, sent, replies) /\ args \in Chains /\ tool \notin InstrumentTools
    BY <1>1, <1>8 DEF Sends, Fits, InstrumentTools
  <2>2. ASSUME c.symbol = args.symbol, c.currency = args.currency, args.symbol # << >>,
               c.exchange = args.exchange,
               c.secType = "STK" \/ /\ c.secType = "OPT" /\ c.expiry # None /\ c.strike # None
                                    /\ c.expiry = args.expiry /\ c.right \in {"C", "P"}
        PROVE  Fine(i, c)
    BY <1>8, <2>1, <2>2 DEF Fine
  <2>3. PICK u : u = Contract(Underlying(args))
    OBVIOUS
  <2>4. /\ u.secType = "STK" /\ u.symbol = args.symbol /\ u.currency = args.currency
        /\ args.symbol # << >> /\ u.exchange = args.exchange
    BY <2>1, <2>3, UnderlyingContract DEF ChainSends
  <2>5. CASE i = 1
    <3>1. c = u
      BY <1>3, <2>1, <2>3, <2>5 DEF ChainSends, Request
    <3> QED
      BY <2>2, <2>4, <3>1
  <2>6. CASE i = 2
    <3>1. c = ResolvedBy(Contract(Underlying(args)), replies[1])
      BY <1>2, <1>3, <2>1, <2>6 DEF ChainSends, Request
    <3>2. /\ c.secType = u.secType /\ c.symbol = u.symbol /\ c.currency = u.currency
          /\ c.exchange = u.exchange
      BY <2>3, <3>1, ResolvedFields
    <3> QED
      BY <2>2, <2>4, <3>2
  <2>7. CASE i = 3
    <3>1. /\ Len(sent) = 3 /\ OfferedExpiry(args, replies[2]) /\ GoodRight(args)
          /\ sent[3].contracts = Snapshots(args, replies[2])
      BY <1>2, <2>1, <2>7 DEF ChainSends, Request
    <3>2. replies[2] \in Params
      <4>1. Len(replies) >= 2
        BY <1>1, <3>1, Lengths DEF Replied
      <4> QED
        BY <1>1, <1>8, <3>1, <4>1, RepliesFit
    <3>3. PICK j \in DOMAIN Descriptors(args, replies[2]) :
            c = OptionOf(args, Descriptors(args, replies[2])[j])
      BY <2>7, <3>1 DEF Snapshots, ToSet
    <3>4. /\ c.secType = "OPT" /\ c.symbol = args.symbol /\ c.currency = args.currency
          /\ c.expiry # None /\ c.strike # None /\ c.right \in {"C", "P"}
          /\ c.expiry = args.expiry /\ c.exchange = args.exchange
      BY <2>1, <3>1, <3>2, <3>3, SnapshotContract
    <3> QED
      BY <2>2, <2>4, <3>4
  <2>8. i \in {1, 2, 3}
    BY <1>2
  <2> QED
    BY <2>5, <2>6, <2>7, <2>8
<1> QED
  BY <1>1, <1>5, <1>6, <1>7, <1>8 DEF Sends, Tools, InstrumentTools, FlexTools
LEMMA SaysHistory == DInv => HistoryAsAsked
<1> SUFFICES ASSUME DInv, tool = "get_historical_data", "duration" \in DOMAIN args
             PROVE  HistoryAsAsked
  BY DEF HistoryAsAsked
<1>1. PICK d : d = args.duration
  OBVIOUS
<1>2. args \in TimedArguments /\ args \notin Instruments /\ d \in Durations
  <2>1. args \notin Instruments
    BY ArgumentFields
  <2>2. args \in Instruments \cup TimedArguments
    BY DEF DInv, Fits
  <2> QED
    BY <1>1, <2>1, <2>2, TimedArgumentFields
<1>3. ASSUME NEW i \in DOMAIN sent
      PROVE  \/ d.form = "native" /\ IbSpan(sent[i].duration) = IbSpan(d)
             \/ d.form = "iso" /\ IbSpan(sent[i].duration) = IsoSpan(d)
  <2>1. HistorySends(args, sent)
    BY Lengths DEF DInv, Sends
  <2>2. i = 1
    BY <2>1, Lengths DEF HistorySends
  <2>3. parse_duration(d) # None /\ sent[i].duration = parse_duration(d)
    BY <1>1, <2>1, <2>2 DEF HistorySends, Request
  <2> QED
    BY <1>2, <2>3, SpansAsAsked
<1>4. ASSUME sent = << >>, answer.code = "VALIDATION_ERROR"
      PROVE  \/ d.form = "other"
             \/ d.form = "iso" /\ Cardinality(Units(d)) # IF Timed(d) THEN 0 ELSE 1
  <2>1. pc = "done"
    BY <1>4, AnswerCodes, CodesApart DEF Nothing
  <2>2. Declines(tool, args, is_connected, sent, replies, raised, answer)
    <3>1. ~Tells(tool, args, queries, sent, replies, answer)
      BY <1>4 DEF Tells, Told
    <3> QED
      BY <2>1, <3>1 DEF DInv, Phase
  <2>3. parse_duration(d) = None
    BY <1>1, <1>2, <1>4, <2>2 DEF Declines, Refused
  <2> QED
    BY <1>2, <2>3, SpansAsAsked
<1>5. ASSUME answer.code = "ok"
      PROVE  /\ DOMAIN answer.data = DOMAIN replies[1]
             /\ \A i \in DOMAIN answer.data :
                  answer.data[i] = IF replies[1][i] = NaN THEN None ELSE replies[1][i]
  <2>1. answer.data = HistoricalBars(replies[1])
    BY <1>5, AnswerCodes DEF Tells, Told
  <2> QED
    BY <2>1 DEF HistoricalBars, safe_float
<1> QED
  BY <1>1, <1>3, <1>4, <1>5 DEF HistoryAsAsked, Units, Timed

LEMMA SaysDiscovery == DInv => DiscoveryNeverFetches
<1> SUFFICES ASSUME DInv, tool = "get_option_chain", Len(sent) = 3
             PROVE  \E chain \in ToSet(replies[2]) : args.expiry \in chain.expirations
  BY DEF DiscoveryNeverFetches
<1>1. ChainSends(args, sent, replies)
  BY Lengths DEF DInv, Sends
<1>2. args.expiry \in Expirations(replies[2])
  BY <1>1 DEF ChainSends, OfferedExpiry
<1> QED
  BY <1>2 DEF Expirations

\* The answer to a full chain, and the replies that it is made of.
LEMMA ChainAnswer ==
  ASSUME DInv, Answered("get_option_chain"), Len(replies) = 3
  PROVE  /\ args \in Chains /\ replies[2] \in Params
         /\ OfferedExpiry(args, replies[2]) /\ GoodRight(args)
         /\ replies[3] \in Tickers(Snapshots(args, replies[2]))
         /\ answer.data.lines = OptionChainStrikes(args, replies[2], replies[3])
<1>1. tool = "get_option_chain" /\ Tells(tool, args, queries, sent, replies, answer)
  BY AnswerCodes DEF Answered
<1>2. /\ Len(sent) = 3
      /\ answer.data.lines = OptionChainStrikes(args, replies[2], replies[3])
  BY <1>1 DEF Tells, Told
<1>3. sent # << >>
  BY <1>2, Lengths
<1>4. replies[2] \in Params /\ replies[3] \in Tickers(Snapshots(args, replies[2]))
  BY <1>1, <1>2, <1>3, RepliesFit DEF DInv
<1>5. args \in Chains
  BY <1>1 DEF DInv, Fits
<1>6. ChainSends(args, sent, replies)
  BY <1>1, <1>3 DEF DInv, Sends
<1>7. OfferedExpiry(args, replies[2]) /\ GoodRight(args)
  BY <1>2, <1>6 DEF ChainSends
<1> QED
  BY <1>2, <1>4, <1>5, <1>7

\* Tickers are those of the contracts asked for, one each, or none.
LEMMA TickersPaired ==
  ASSUME NEW contracts, NEW tickers \in Tickers(contracts), tickers # << >>
  PROVE  /\ DOMAIN tickers = DOMAIN contracts
         /\ \A i \in DOMAIN tickers : tickers[i].contract = contracts[i]
<1>1. PICK q \in [DOMAIN contracts -> Quotes] :
        tickers = [i \in DOMAIN contracts |-> [contract |-> contracts[i], quote |-> q[i]]]
  BY DEF Tickers
<1> QED
  BY <1>1

LEMMA SaysChain == DInv => ChainPaired
<1> SUFFICES ASSUME DInv, Answered("get_option_chain"), Given(args.expiry), Len(replies) = 3
             PROVE  ChainPaired
  BY DEF ChainPaired
<1>1. PICK a, chains, tickers, lines :
        /\ a = args /\ chains = replies[2] /\ tickers = replies[3] /\ lines = answer.data.lines
  OBVIOUS
<1>2. /\ a \in Chains /\ chains \in Params /\ OfferedExpiry(a, chains) /\ GoodRight(a)
      /\ tickers \in Tickers(Snapshots(a, chains))
      /\ lines = OptionChainStrikes(a, chains, tickers)
  BY <1>1, ChainAnswer
<1>3. PICK d, n : d = Descriptors(a, chains) /\ n = Len(d)
  OBVIOUS
<1>4. /\ d \in Seq(Strikes(chains) \X Rights(a)) /\ DOMAIN d = 1..n /\ n \in Nat
      /\ \A x \in Strikes(chains), u \in Rights(a) : \E i \in 1..n : d[i] = << x, u >>
      /\ n = Cardinality(Strikes(chains)) * Cardinality(Rights(a))
  <2>1. PICK S : S = Strikes(chains) \X Rights(a)
    OBVIOUS
  <2>2. d \in Seq(S)
    BY <1>2, <1>3, <2>1, DescriptorsCover
  <2>3. \A x \in Strikes(chains), u \in Rights(a) : \E i \in DOMAIN d : d[i] = << x, u >>
    BY <1>2, <1>3, DescriptorsCover, Zenon
  <2>4. n = Cardinality(Strikes(chains)) * Cardinality(Rights(a))
    BY <1>2, <1>3, DescriptorsCover, Zenon
  <2>5. DOMAIN d = 1..n /\ n \in Nat
    BY <1>3, <2>2
  <2> QED
    BY <2>1, <2>2, <2>3, <2>4, <2>5
<1>5. lines = [i \in DOMAIN tickers |->
                 [strike |-> d[i][1], right |-> d[i][2],
                  of |-> tickers[i].contract, greeks |-> extract_greeks(tickers[i].quote)]]
  BY <1>2, <1>3 DEF OptionChainStrikes
<1>6. tickers # << >> =>
        /\ DOMAIN tickers = 1..n
        /\ \A i \in 1..n : tickers[i].contract = OptionOf(a, d[i])
  <2>1. Snapshots(a, chains) = [i \in 1..n |-> OptionOf(a, d[i])]
    BY <1>3, <1>4 DEF Snapshots
  <2>2. PICK contracts : /\ contracts = Snapshots(a, chains) /\ tickers \in Tickers(contracts)
                         /\ DOMAIN contracts = 1..n
                         /\ \A i \in 1..n : contracts[i] = OptionOf(a, d[i])
    BY <1>2, <2>1
  <2>3. tickers # << >> => /\ DOMAIN tickers = DOMAIN contracts
                           /\ \A i \in DOMAIN tickers : tickers[i].contract = contracts[i]
    BY <2>2, TickersPaired
  <2> QED
    BY <2>2, <2>3
<1>7. ASSUME tickers # << >>
      PROVE  /\ { << line.strike, line.right >> : line \in ToSet(lines) }
                   = Strikes(chains) \X Rights(a)
             /\ Len(lines) = Cardinality(Strikes(chains)) * Cardinality(Rights(a))
  <2>1. DOMAIN lines = 1..n
    BY <1>5, <1>6, <1>7
  <2>2. \A i \in 1..n : lines[i].strike = d[i][1] /\ lines[i].right = d[i][2]
    BY <1>5, <1>6, <1>7
  <2>3. \A i \in 1..n : d[i] \in Strikes(chains) \X Rights(a)
    <3>1. PICK S : S = Strikes(chains) \X Rights(a)
      OBVIOUS
    <3> QED
      BY <1>4, <3>1
  <2>4. \A i \in 1..n : << lines[i].strike, lines[i].right >> = d[i]
    BY <2>2, <2>3
  <2>5. ASSUME NEW line \in ToSet(lines)
        PROVE  << line.strike, line.right >> \in Strikes(chains) \X Rights(a)
    <3>1. PICK i \in 1..n : line = lines[i]
      BY <2>1 DEF ToSet
    <3> QED
      BY <2>3, <2>4, <3>1
  <2>6. ASSUME NEW x \in Strikes(chains), NEW u \in Rights(a)
        PROVE  \E line \in ToSet(lines) : << line.strike, line.right >> = << x, u >>
    <3>1. PICK i \in 1..n : d[i] = << x, u >>
      BY <1>4
    <3>2. lines[i] \in ToSet(lines)
      BY <2>1 DEF ToSet
    <3> QED
      BY <2>4, <3>1, <3>2
  <2>7. Len(lines) = n
    <3>1. lines \in [1..n -> ToSet(lines)]
      <4>1. lines = [i \in 1..n |-> lines[i]]
        BY <1>5, <2>1
      <4>2. \A i \in 1..n : lines[i] \in ToSet(lines)
        BY <2>1 DEF ToSet
      <4> QED
        BY <4>1, <4>2
    <3> QED
      BY <1>4, <3>1
  <2>8. { << line.strike, line.right >> : line \in ToSet(lines) } = Strikes(chains) \X Rights(a)
    BY <2>5, <2>6
  <2> QED
    BY <1>4, <2>7, <2>8
<1>8. ASSUME NEW line \in ToSet(lines)
      PROVE  /\ line.of.strike = line.strike /\ line.of.right = line.right
             /\ line.of.expiry = a.expiry /\ line.of.symbol = a.symbol
  <2>1. PICK i \in DOMAIN tickers : line = lines[i]
    BY <1>5 DEF ToSet
  <2>2. tickers # << >>
    BY <2>1
  <2>3. /\ i \in DOMAIN Descriptors(a, chains) /\ line.of = OptionOf(a, d[i])
        /\ line.strike = d[i][1] /\ line.right = d[i][2]
    BY <1>3, <1>4, <1>5, <1>6, <2>1, <2>2
  <2> QED
    BY <1>2, <1>3, <2>3, SnapshotContract
<1>9. Strikes(chains) = UNION { chain.strikes : chain \in ToSet(chains) }
  BY <1>2, StrikesAreFinite
<1> QED
  BY <1>1, <1>7, <1>8, <1>9 DEF ChainPaired, Rights

LEMMA SaysGreeks == DInv => GreeksFromOneBundle
<1> SUFFICES ASSUME DInv PROVE GreeksFromOneBundle
  OBVIOUS
<1>1. ASSUME Answered("get_market_data")
      PROVE  /\ answer.data.of = Last(sent).contracts[1]
             /\ IF Upper(args.secType) = "OPT"
                THEN Explained(answer.data.greeks, Last(replies)[1].quote)
                ELSE answer.data.greeks = None
  <2>1. tool = "get_market_data" /\ Tells(tool, args, queries, sent, replies, answer)
    BY <1>1, AnswerCodes DEF Answered
  <2>2. /\ Len(sent) = 2 /\ Len(replies) = 2 /\ replies[2] # << >>
        /\ answer.data = MarketData(args, replies[2][1])
    BY <2>1 DEF Tells, Told
  <2>3. Last(sent) = sent[2] /\ Last(replies) = replies[2] /\ sent # << >>
    BY <2>2, Lengths DEF Last
  <2>4. MarketSends(args, sent, replies) /\ replies[2] \in Tickers(sent[2].contracts)
    BY <2>1, <2>2, <2>3, RepliesFit DEF DInv, Sends
  <2>5. PICK c : sent[2].contracts = << c >>
    BY <2>2, <2>4 DEF MarketSends, Request
  <2>6. replies[2][1].contract = sent[2].contracts[1]
    BY <2>2, <2>4, <2>5, TickersPaired
  <2>7. Upper(args.secType) # "FOP"
    BY <2>4 DEF MarketSends, Good, ValueErrors, SUPPORTED_SEC_TYPES
  <2> QED
    BY <2>2, <2>3, <2>6, <2>7, GreeksExplained DEF MarketData
<1>2. ASSUME Answered("get_option_chain"), Len(replies) = 3,
             NEW line \in ToSet(answer.data.lines)
      PROVE  \E ticker \in ToSet(replies[3]) :
               ticker.contract = line.of /\ Explained(line.greeks, ticker.quote)
  <2>1. answer.data.lines = OptionChainStrikes(args, replies[2], replies[3])
    BY <1>2, ChainAnswer
  <2>2. PICK i \in DOMAIN replies[3] : line = OptionChainStrikes(args, replies[2], replies[3])[i]
    BY <2>1 DEF OptionChainStrikes, ToSet
  <2>3. line.of = replies[3][i].contract /\ line.greeks = extract_greeks(replies[3][i].quote)
    BY <2>2 DEF OptionChainStrikes
  <2>4. replies[3][i] \in ToSet(replies[3])
    BY DEF ToSet
  <2> QED
    BY <2>3, <2>4, GreeksExplained
<1> QED
  BY <1>1, <1>2 DEF GreeksFromOneBundle

\* Without its fields, the underlying of a chain lacks a symbol.
LEMMA UnderlyingMisses ==
  ASSUME NEW a \in Chains, ValueErrors(Underlying(a))
  PROVE  a.symbol = << >>
<1>1. PICK b : b = Underlying(a)
  OBVIOUS
<1>2. b.symbol = a.symbol /\ Upper(b.secType) = "STK"
  BY <1>1, UpperAssumption DEF Underlying
<1> QED
  BY <1>1, <1>2 DEF ValueErrors, SUPPORTED_SEC_TYPES

LEMMA SaysErrors == DInv => ErrorsHaveCauses
<1> SUFFICES ASSUME DInv, pc = "done" PROVE ErrorsHaveCauses
  BY DEF ErrorsHaveCauses
<1>1. /\ Phase(pc, tool, args, queries, is_connected, sent, replies, reply, raised, answer)
      /\ Fits(tool, args) /\ tool \in Tools
  BY DEF DInv, Phase
<1>2. CASE raised \in Exceptions /\ answer = Refused(map_exception(raised))
  <2>1. answer.code = map_exception(raised) /\ raised # None
    BY <1>2, ExceptionsAssumption DEF Refused
  <2>2. Untyped <=> raised.type \notin Typed
    BY <2>1 DEF Untyped, Typed
  <2>3. SaysContract <=> \E h \in ContractHints : h \in raised.says
    BY <2>1 DEF SaysContract, Says, ContractHints
  <2>4. SaysData <=> \E h \in DataHints : h \in raised.says
    BY <2>1 DEF SaysData, Says, DataHints
  <2>5. Says("account") <=> "account" \in raised.says
    BY <2>1 DEF Says
  <2>6. Says("flex") <=> "flex" \in raised.says
    BY <2>1 DEF Says
  <2> HIDE DEF Untyped, SaysContract, SaysData, Says
  <2> QED
    BY <1>2, <2>1, <2>2, <2>3, <2>4, <2>5, <2>6, CodesHaveCauses DEF ErrorsHaveCauses
<1>3. CASE raised = None /\ answer = Refused("IB_NOT_CONNECTED") /\ ~is_connected
  BY <1>3 DEF ErrorsHaveCauses, Refused
<1>4. CASE /\ answer = Refused("IB_INVALID_CONTRACT") /\ raised = None
           /\ \/ sent = << >> /\ tool \in InstrumentTools /\ ValueErrors(args)
              \/ sent = << >> /\ tool = "get_option_chain" /\ ValueErrors(Underlying(args))
              \/ replies = << << >> >>
              \/ /\ tool = "get_option_chain" /\ Len(replies) = 2
                 /\ Given(args.expiry) /\ ~OfferedExpiry(args, replies[2])
  <2>1. ASSUME tool = "get_option_chain", ValueErrors(Underlying(args))
        PROVE  args.symbol = << >>
    BY <1>1, <2>1, UnderlyingMisses DEF Fits
  <2>2. ASSUME Given(args.expiry), ~OfferedExpiry(args, replies[2])
        PROVE  \A chain \in ToSet(replies[2]) : args.expiry \notin chain.expirations
    BY <2>2 DEF OfferedExpiry, Expirations
  <2> QED
    BY <1>4, <2>1, <2>2 DEF ErrorsHaveCauses, Refused
<1>5. CASE answer = Refused("VALIDATION_ERROR") /\ raised = None
  BY <1>5 DEF ErrorsHaveCauses, Refused
<1>6. CASE answer = Refused("IB_NO_MARKET_DATA") /\ raised = None /\ Len(replies) = 2
           /\ replies[2] = << >>
  BY <1>6 DEF ErrorsHaveCauses, Refused
<1>7. CASE answer = Refused("IB_FLEX_ERROR") /\ raised = None /\ tool = "get_flex_query"
  BY <1>7 DEF ErrorsHaveCauses, Refused
<1>8. CASE raised = None /\ Tells(tool, args, queries, sent, replies, answer)
  <2>1. answer.code = "ok"
    BY <1>8 DEF Tells, Told
  <2> QED
    BY <1>8, <2>1 DEF ErrorsHaveCauses
<1>9. \/ Declines(tool, args, is_connected, sent, replies, raised, answer)
      \/ raised = None /\ Tells(tool, args, queries, sent, replies, answer)
  BY <1>1 DEF Phase
<1> QED
  BY <1>2, <1>3, <1>4, <1>5, <1>6, <1>7, <1>8, <1>9 DEF Declines

\* The query that a call downloads.
LEMMA QueryNamed ==
  ASSUME NEW a \in FlexCalls, NEW raw \in Registries, NEW query,
         query = FlexQuery(a, raw), query # None
  PROVE  /\ Given(a.queryId) # Given(a.queryName)
         /\ a.queryId \in {None, "", query.queryId}
         /\ raw = None => query.queryName = None /\ ~Given(a.queryName)
         /\ Given(a.queryName) => /\ query.queryName = a.queryName
                                  /\ raw # None /\ query \in ToSet(raw)
         /\ query.queryName = None \/ (raw # None /\ query \in ToSet(raw))
         /\ query = [queryId |-> query.queryId, queryName |-> query.queryName]
<1>1. raw = None \/ raw \in Seq(Entry)
  BY ArgumentsAssumption DEF Entry
<1>2. PICK registry : registry = parse_registry(raw)
  OBVIOUS
<1>3. /\ registry \in Seq(Entry)
      /\ \A i \in DOMAIN registry : raw # None /\ registry[i] \in Complete(ToSet(raw))
  BY <1>1, <1>2, RegistryKeeps
<1>4. a.queryId \in Text /\ a.queryName \in Text
  BY ArgumentFields
<1>5. query = resolve_query(a.queryId, a.queryName, registry)
  BY <1>2 DEF FlexQuery
<1>6. ASSUME NEW i \in DOMAIN registry PROVE raw # None /\ registry[i] \in ToSet(raw)
  BY <1>3 DEF Complete
<1>7. /\ query = [queryId |-> query.queryId, queryName |-> query.queryName]
      /\ Given(a.queryId) # Given(a.queryName)
      /\ Given(a.queryId) =>
           /\ query.queryId = a.queryId
           /\ query.queryName = None \/ \E i \in DOMAIN registry : registry[i] = query
      /\ Given(a.queryName) =>
           query.queryName = a.queryName /\ \E i \in DOMAIN registry : registry[i] = query
  BY <1>3, <1>4, <1>5, ResolvesOne
<1>8. a.queryId \in {None, "", query.queryId}
  BY <1>7 DEF Given
<1> QED
  BY <1>6, <1>7, <1>8 DEF Given

LEMMA SaysFlexQuery == DInv => FlexRightQuery
<1> SUFFICES ASSUME DInv, tool = "get_flex_query", sent # << >> PROVE FlexRightQuery
  BY DEF FlexRightQuery
<1>1. PICK query : query = FlexQuery(args, queries)
  OBVIOUS
<1>2. query # None /\ sent[1].query = query.queryId
  BY <1>1 DEF DInv, Sends, FlexSends
<1>3. args \in FlexCalls /\ queries \in Registries
  BY DEF DInv, Fits
<1>4. /\ Given(args.queryId) # Given(args.queryName)
      /\ args.queryId \in {None, "", query.queryId}
      /\ Given(args.queryName) => /\ query.queryName = args.queryName
                                  /\ queries # None /\ query \in ToSet(queries)
      /\ query.queryName = None \/ (queries # None /\ query \in ToSet(queries))
      /\ query = [queryId |-> query.queryId, queryName |-> query.queryName]
  BY <1>1, <1>2, <1>3, QueryNamed DEF Given
<1>5. ASSUME answer.code = "ok" PROVE answer.data.query = query
  <2>1. Tells(tool, args, queries, sent, replies, answer)
    BY <1>5, AnswerCodes
  <2>2. PICK report \in Reports : answer = Told(FlexQueryResult(query, args, report))
    BY <1>1, <2>1 DEF Tells
  <2> QED
    BY <2>2 DEF Told, FlexQueryResult
<1> QED
  BY <1>2, <1>4, <1>5 DEF FlexRightQuery, Entries, Given

LEMMA SaysFlexAll == DInv => FlexAllOrRaw
<1> SUFFICES ASSUME DInv, Answered("get_flex_query") PROVE FlexAllOrRaw
  BY DEF FlexAllOrRaw
<1>1. Tells(tool, args, queries, sent, replies, answer) /\ tool = "get_flex_query"
  BY AnswerCodes DEF Answered
<1>2. PICK report, query :
        replies = << report >> /\ answer = Told(FlexQueryResult(query, args, report))
  BY <1>1 DEF Tells
<1>3. replies[1] = report /\ answer.data = FlexQueryResult(query, args, report)
  BY <1>2 DEF Told
<1>4. PICK topics : topics = AskedTopics(args, report)
  OBVIOUS
<1>5. \A t \in topics : Extract(report, t) = IF t \in DOMAIN report THEN report[t] ELSE << >>
  BY DEF Extract
<1>6. (\E t \in topics : Extract(report, t) = None)
        <=> \E t \in topics \cap DOMAIN report : report[t] = None
  BY <1>5, NoneAssumption
<1>7. CASE \E t \in topics : Extract(report, t) = None
  <2>1. answer.data.parsed = FALSE
    BY <1>3, <1>4, <1>7 DEF FlexQueryResult
  <2> QED
    BY <1>3, <1>4, <1>6, <1>7, <2>1 DEF FlexAllOrRaw, AskedTopics, Given
<1>8. CASE ~\E t \in topics : Extract(report, t) = None
  <2>1. answer.data.parsed = TRUE /\ answer.data.data = [t \in topics |-> Extract(report, t)]
    BY <1>3, <1>4, <1>8 DEF FlexQueryResult
  <2> QED
    BY <1>3, <1>4, <1>5, <1>6, <1>8, <2>1 DEF FlexAllOrRaw, AskedTopics, Given
<1> QED
  BY <1>7, <1>8

-----------------------------------------------------------------------------
(* The steps that handlers are made of keep the invariant.                 *)

\* The first request of a call, if it is alone.
LEMMA FirstRequest ==
  ASSUME NEW x, NEW s, s = Append(<< >>, x)
  PROVE  IsSeq(s) /\ Len(s) = 1 /\ s[1] = x /\ s # << >>
<1>1. s = << x >>
  OBVIOUS
<1>2. Len(<< x >>) = 1 /\ << x >>[1] = x /\ << x >> # << >>
  OBVIOUS
<1>3. IsSeq(s)
  BY EmptyIsSeq, Appended
<1> QED
  BY <1>1, <1>2, <1>3

\* What is not there is no tool: nothing is asked of it.
LEMMA NoToolFits == Fits(None, None)
BY NamesAssumption DEF Fits, Tools, InstrumentTools, FlexTools

LEMMA NothingSent ==
  ASSUME NEW t, NEW a, NEW raw
  PROVE  Sends(t, a, raw, << >>, << >>) /\ Replied(t, << >>, << >>)
BY EmptyIsSeq DEF Sends, Replied

\* A call begins in a session that waits for one.
LEMMA Begun ==
  ASSUME DInv, NEW t \in Tools, NEW a, Begin(t, a)
  PROVE  /\ is_connected \in BOOLEAN /\ queries \in Registries
         /\ is_connected' = is_connected /\ queries' = queries /\ tool' = t /\ args' = a
         /\ sent = << >> /\ replies = << >> /\ replies' = << >>
         /\ raised = None /\ raised' = None /\ answer = Nothing /\ reply = "none"
BY DEF DInv, Begin, Phase

LEMMA BeginRefuses ==
  ASSUME DInv, NEW t \in Tools, NEW a, Begin(t, a), Fits(t, a), NEW code, Refuse(code),
         UNCHANGED sent, Declines(t, a, is_connected, << >>, << >>, None, Refused(code))
  PROVE  DInv'
<1>1. pc' = "done" /\ answer' = Refused(code) /\ reply' = "none" /\ sent' = << >>
  BY Begun DEF Refuse, Respond, Refused
<1>2. Phase(pc, tool, args, queries, is_connected, sent, replies, reply, raised, answer)'
  BY <1>1, Begun DEF Phase
<1> QED
  BY <1>1, <1>2, Begun, EmptyIsSeq, NothingSent DEF DInv

LEMMA BeginAsks ==
  ASSUME DInv, NEW t \in Tools \ FlexTools, NEW a, Begin(t, a), Fits(t, a),
         NEW kind, NEW contracts, NEW duration, Send(kind, contracts, duration),
         \A s : Len(s) = 1 /\ s[1] = Request(kind, contracts, duration)
                  => Sends(t, a, queries, s, << >>)
  PROVE  DInv'
<1>1. t \in Tools
  OBVIOUS
<1>2. /\ pc' = "awaiting" /\ answer' = Nothing /\ reply' = "pending"
      /\ sent' = Append(<< >>, Request(kind, contracts, duration))
  BY <1>1, Begun DEF Send, Request
<1>3. IsSeq(sent)' /\ Len(sent') = 1 /\ sent'[1] = Request(kind, contracts, duration)
      /\ sent' # << >>
  <2>1. IsSeq(sent')
    BY <1>2, FirstRequest
  <2> QED
    BY <1>2, <2>1, FirstRequest DEF IsSeq
<1>4. IsSeq(replies)' /\ Len(replies') = 0
  <2>1. replies' = << >>
    BY <1>1, Begun
  <2> QED
    BY <2>1, EmptyIsSeq DEF IsSeq
<1>5. Replied(tool, sent, replies)'
  <2>1. /\ Len(replies') <= Len(sent') /\ Len(sent') <= Len(replies') + 1
        /\ \A i \in 1..Len(replies') : FALSE
    BY <1>3, <1>4
  <2> QED
    BY <2>1 DEF Replied
<1>6. Phase(pc, tool, args, queries, is_connected, sent, replies, reply, raised, answer)'
  BY <1>1, <1>2, <1>3, <1>4, Begun DEF Phase
<1>7. Sends(t, a, queries, sent', << >>)
  BY <1>3
<1> QED
  BY <1>1, <1>2, <1>3, <1>4, <1>5, <1>6, <1>7, Begun DEF DInv

\* What a handler knows when its request is answered.
HandlerKeeps == UNCHANGED << is_connected, queries, tool, args, replies, raised >>

LEMMA Waiting ==
  ASSUME DInv, pc = "awaiting"
  PROVE  /\ tool \in Tools \ FlexTools /\ tool \in Tools /\ sent # << >> /\ answer = Nothing
         /\ Len(replies) \in Nat /\ Len(sent) \in Nat
         /\ reply \in {"data", "empty"} => Len(replies) = Len(sent) /\ raised = None
         /\ reply = "lost" => ~is_connected /\ raised = None
         /\ reply = "raised" => raised \in Exceptions
         /\ raised \in Exceptions \cup {None}
         /\ reply = "pending" => Len(sent) = Len(replies) + 1 /\ raised = None
<1>1. Phase(pc, tool, args, queries, is_connected, sent, replies, reply, raised, answer)
  BY DEF DInv
<1>2. Len(replies) \in Nat /\ Len(sent) \in Nat
  BY DEF DInv, IsSeq
<1> QED
  BY <1>1, <1>2 DEF Phase

LEMMA HandlerRefuses ==
  ASSUME DInv, pc = "awaiting", HandlerKeeps, UNCHANGED sent, NEW code, Refuse(code),
         Declines(tool, args, is_connected, sent, replies, raised, Refused(code))
  PROVE  DInv'
<1>1. pc' = "done" /\ answer' = Refused(code) /\ reply' = "none"
  BY DEF Refuse, Respond, Refused
<1>2. Phase(pc, tool, args, queries, is_connected, sent, replies, reply, raised, answer)'
  BY <1>1, Waiting DEF Phase, HandlerKeeps
<1> QED
  BY <1>1, <1>2 DEF DInv, HandlerKeeps, IsSeq

LEMMA HandlerAnswers ==
  ASSUME DInv, pc = "awaiting", HandlerKeeps, UNCHANGED sent, NEW data, Answer(data),
         raised = None, Tells(tool, args, queries, sent, replies, Told(data))
  PROVE  DInv'
<1>1. pc' = "done" /\ answer' = Told(data) /\ reply' = "none"
  BY DEF Answer, Respond, Told
<1>2. Phase(pc, tool, args, queries, is_connected, sent, replies, reply, raised, answer)'
  BY <1>1, Waiting DEF Phase, HandlerKeeps
<1> QED
  BY <1>1, <1>2 DEF DInv, HandlerKeeps, IsSeq

LEMMA LostIsNotConnected == map_exception(ConnectionError) = "IB_NOT_CONNECTED"
<1>1. ConnectionError.type = "connection" /\ "connection" \in Typed
  BY DEF ConnectionError, Typed, TypeCodes
<1> QED
  BY <1>1, CodeOf, TypesSpelled

\* The sequence s is r and one element more.
Extends(s, r, x) ==
  /\ IsSeq(s) /\ Len(s) = Len(r) + 1
  /\ \A i \in 1..Len(r) : s[i] = r[i]
  /\ s[Len(r) + 1] = x

LEMMA HandlerAsks ==
  ASSUME DInv, pc = "awaiting", reply \in {"data", "empty"}, HandlerKeeps,
         NEW kind, NEW contracts, Ask(kind, contracts),
         \A s : Extends(s, sent, Request(kind, contracts, None))
                  => Sends(tool, args, queries, s, replies)
  PROVE  DInv'
<1>1. CASE is_connected /\ Send(kind, contracts, None)
  <2>1. /\ pc' = "awaiting" /\ answer' = Nothing /\ reply' = "pending"
        /\ sent' = Append(sent, Request(kind, contracts, None))
    BY <1>1, Waiting DEF Send, Request
  <2>2. /\ IsSeq(sent') /\ Len(sent') = Len(sent) + 1 /\ Len(sent) \in Nat
        /\ \A i \in 1..Len(sent) : sent'[i] = sent[i]
        /\ sent'[Len(sent) + 1] = Request(kind, contracts, None)
    BY <2>1, Appended DEF DInv
  <2>3. Sends(tool, args, queries, sent', replies)
    BY <2>2 DEF Extends
  <2>4. Len(replies) = Len(sent)
    BY Waiting
  <2>5. Replied(tool, sent', replies)
    <3>1. tool \notin FlexTools => \A i \in 1..Len(replies) : replies[i] \in Replies(sent[i])
      BY DEF DInv, Replied
    <3> QED
      BY <2>2, <2>4, <3>1 DEF Replied
  <2>6. sent' # << >>
    BY <2>2, EmptyIsSeq
  <2>7. Phase(pc, tool, args, queries, is_connected, sent, replies, reply, raised, answer)'
    BY <2>1, <2>2, <2>4, <2>6, Waiting DEF Phase, HandlerKeeps
  <2> QED
    BY <2>1, <2>2, <2>3, <2>5, <2>7 DEF DInv, HandlerKeeps, IsSeq
<1>2. CASE ~is_connected /\ Refuse(map_exception(ConnectionError)) /\ UNCHANGED sent
  <2>1. Refuse("IB_NOT_CONNECTED")
    BY <1>2, LostIsNotConnected
  <2>2. Declines(tool, args, is_connected, sent, replies, raised, Refused("IB_NOT_CONNECTED"))
    BY <1>2, Waiting DEF Declines
  <2> QED
    BY <1>2, <2>1, <2>2, HandlerRefuses
<1> QED
  BY <1>1, <1>2 DEF Ask

-----------------------------------------------------------------------------
(* Every action keeps the invariant.                                       *)

LEMMA InitKeeps == Init => DInv
<1> SUFFICES ASSUME Init PROVE DInv
  OBVIOUS
<1>1. Phase(pc, tool, args, queries, is_connected, sent, replies, reply, raised, answer)
  BY DEF Init, Phase, Nothing
<1> QED
  BY <1>1, EmptyIsSeq, NothingSent, NoToolFits DEF DInv, Init

LEMMA AssertionIsValidation == map_exception(AssertionError) = "VALIDATION_ERROR"
<1>1. PICK e : e = AssertionError
  OBVIOUS
<1>2. e.type \notin Typed /\ \A j \in 1..8 : Hints[j][1] \notin e.says
  BY <1>1, TypesSpelled DEF AssertionError
<1> QED
  BY <1>1, <1>2, CodeOf

LEMMA RejectedKeeps ==
  ASSUME DInv, NEW t \in InstrumentTools, NEW a \in Instruments, Rejected(t, a)
  PROVE  DInv'
<1>1. t \in Tools /\ t \notin FlexTools /\ Fits(t, a) /\ Begin(t, a) /\ UNCHANGED sent
  BY DEF Tools, InstrumentTools, FlexTools, Fits, Rejected
<1>2. CASE ~is_connected /\ Refuse("IB_NOT_CONNECTED")
  <2>1. Declines(t, a, is_connected, << >>, << >>, None, Refused("IB_NOT_CONNECTED"))
    BY <1>1, <1>2 DEF Declines
  <2> QED
    BY <1>1, <1>2, <2>1, BeginRefuses
<1>3. CASE ValueErrors(a) /\ Refuse("IB_INVALID_CONTRACT")
  <2>1. Declines(t, a, is_connected, << >>, << >>, None, Refused("IB_INVALID_CONTRACT"))
    BY <1>1, <1>3 DEF Declines
  <2> QED
    BY <1>1, <1>3, <2>1, BeginRefuses
<1>4. CASE Refuse(map_exception(AssertionError))
  <2>1. map_exception(AssertionError) = "VALIDATION_ERROR"
    BY AssertionIsValidation
  <2>2. Declines(t, a, is_connected, << >>, << >>, None, Refused("VALIDATION_ERROR"))
    BY <1>1 DEF Declines
  <2> QED
    BY <1>1, <1>4, <2>1, <2>2, BeginRefuses
<1> QED
  BY <1>2, <1>3, <1>4 DEF Rejected

LEMMA GetMarketDataKeeps ==
  ASSUME DInv, NEW a \in Instruments, GetMarketData(a)
  PROVE  DInv'
<1> DEFINE t == "get_market_data"
<1>1. /\ t \in Tools \ FlexTools /\ t \in Tools \ {"list_flex_queries"} /\ Fits(t, a)
      /\ Begin(t, a) /\ Good(a) /\ Send("qualify", << Contract(a) >>, None)
  BY DEF Tools, InstrumentTools, FlexTools, Fits, GetMarketData, Accepted, Good
<1>2. ASSUME NEW s, Len(s) = 1, s[1] = Request("qualify", << Contract(a) >>, None)
      PROVE  Sends(t, a, queries, s, << >>)
  <2>1. MarketSends(a, s, << >>)
    BY <1>1, <1>2, EmptyIsSeq DEF MarketSends
  <2> QED
    BY <1>1, <2>1 DEF Sends
<1> QED
  BY <1>1, <1>2, BeginAsks

LEMMA GetContractDetailsKeeps ==
  ASSUME DInv, NEW a \in Instruments, GetContractDetails(a)
  PROVE  DInv'
<1> DEFINE t == "get_contract_details"
<1>1. /\ t \in Tools \ FlexTools /\ t \in Tools \ {"list_flex_queries"} /\ Fits(t, a)
      /\ Begin(t, a) /\ Good(a) /\ Send("details", << Contract(a) >>, None)
  BY DEF Tools, InstrumentTools, FlexTools, Fits, GetContractDetails, Accepted, Good
<1>2. ASSUME NEW s, Len(s) = 1, s[1] = Request("details", << Contract(a) >>, None)
      PROVE  Sends(t, a, queries, s, << >>)
  <2>1. DetailsSends(a, s)
    BY <1>1, <1>2 DEF DetailsSends
  <2> QED
    BY <1>1, <2>1 DEF Sends
<1> QED
  BY <1>1, <1>2, BeginAsks

\* A duration is no part of what makes a contract.
LEMMA DurationAside ==
  ASSUME NEW a \in Instruments, NEW d, NEW b, b = WithDuration(a, d)
  PROVE  /\ b.duration = d /\ Contract(b) = Contract(a)
         /\ ValueErrors(b) = ValueErrors(a) /\ BadPair(b) = BadPair(a)
<1>1. a \in [symbol : Letters, secType : STRING, exchange : STRING,
             currency : Letters, expiry : Text, strike : Number, right : Text]
  BY ArgumentsAssumption
<1>2. /\ DOMAIN b = DOMAIN a \cup {"duration"}
      /\ \A f \in DOMAIN b : b[f] = IF f = "duration" THEN d ELSE a[f]
  BY DEF WithDuration
<1>3. /\ b.symbol = a.symbol /\ b.secType = a.secType /\ b.exchange = a.exchange
      /\ b.currency = a.currency /\ b.expiry = a.expiry /\ b.strike = a.strike
      /\ b.right = a.right /\ b.duration = d
  BY <1>1, <1>2
<1>4. Pair(b) = Pair(a)
  BY <1>3 DEF Pair
<1> QED
  BY <1>3, <1>4 DEF Contract, ValueErrors, BadPair

LEMMA GetHistoricalDataKeeps ==
  ASSUME DInv, NEW a \in Instruments, NEW duration \in Durations,
         GetHistoricalData(a, duration)
  PROVE  DInv'
<1> DEFINE t == "get_historical_data"
<1>1. PICK b : b = WithDuration(a, duration)
  OBVIOUS
<1>2. b.duration = duration /\ Contract(b) = Contract(a) /\ b \in TimedArguments
  BY <1>1, DurationAside DEF TimedArguments
<1>3. /\ t \in Tools \ FlexTools /\ t \in Tools /\ t \in Tools \ {"list_flex_queries"}
      /\ Fits(t, b) /\ Begin(t, b) /\ Good(b)
  BY <1>1, <1>2 DEF Tools, InstrumentTools, FlexTools, Fits, GetHistoricalData, Accepted, Good
<1>4. CASE parse_duration(duration) = None /\ Refuse("VALIDATION_ERROR") /\ UNCHANGED sent
  <2>1. Declines(t, b, is_connected, << >>, << >>, None, Refused("VALIDATION_ERROR"))
    BY <1>2, <1>4 DEF Declines
  <2> QED
    BY <1>3, <1>4, <2>1, BeginRefuses
<1>5. CASE /\ parse_duration(duration) # None
           /\ Send("history", << Contract(a) >>, parse_duration(duration))
  <2>1. ASSUME NEW s, Len(s) = 1,
               s[1] = Request("history", << Contract(a) >>, parse_duration(duration))
        PROVE  Sends(t, b, queries, s, << >>)
    <3>1. HistorySends(b, s)
      BY <1>2, <1>3, <1>5, <2>1 DEF HistorySends
    <3> QED
      BY <1>3, <3>1 DEF Sends
  <2> QED
    BY <1>3, <1>5, <2>1, BeginAsks
<1> QED
  BY <1>4, <1>5 DEF GetHistoricalData

LEMMA GetOptionChainKeeps ==
  ASSUME DInv, NEW a \in Chains, GetOptionChain(a)
  PROVE  DInv'
<1> DEFINE t == "get_option_chain"
<1>1. /\ t \in Tools \ FlexTools /\ t \in Tools /\ t \in Tools \ {"list_flex_queries"}
      /\ t \notin FlexTools /\ Fits(t, a) /\ Begin(t, a)
  BY DEF Tools, InstrumentTools, FlexTools, Fits, GetOptionChain
<1>2. CASE ~is_connected /\ Refuse("IB_NOT_CONNECTED") /\ UNCHANGED sent
  <2>1. Declines(t, a, is_connected, << >>, << >>, None, Refused("IB_NOT_CONNECTED"))
    BY <1>1, <1>2 DEF Declines
  <2> QED
    BY <1>1, <1>2, <2>1, BeginRefuses
<1>3. CASE ValueErrors(Underlying(a)) /\ Refuse("IB_INVALID_CONTRACT") /\ UNCHANGED sent
  <2>1. Declines(t, a, is_connected, << >>, << >>, None, Refused("IB_INVALID_CONTRACT"))
    BY <1>1, <1>3 DEF Declines
  <2> QED
    BY <1>1, <1>3, <2>1, BeginRefuses
<1>4. CASE /\ ~ValueErrors(Underlying(a))
           /\ Send("qualify", << Contract(Underlying(a)) >>, None)
  <2>1. ASSUME NEW s, Len(s) = 1,
               s[1] = Request("qualify", << Contract(Underlying(a)) >>, None)
        PROVE  Sends(t, a, queries, s, << >>)
    <3>1. ChainSends(a, s, << >>)
      BY <1>4, <2>1, EmptyIsSeq DEF ChainSends
    <3> QED
      BY <1>1, <3>1 DEF Sends
  <2> QED
    BY <1>1, <1>4, <2>1, BeginAsks
<1> QED
  BY <1>2, <1>3, <1>4 DEF GetOptionChain

LEMMA ListFlexQueriesKeeps ==
  ASSUME DInv, ListFlexQueries
  PROVE  DInv'
<1> DEFINE t == "list_flex_queries"
<1>1. t \in Tools /\ Fits(t, None) /\ Begin(t, None)
  BY DEF Tools, InstrumentTools, FlexTools, Fits, ListFlexQueries
<1>2. /\ pc' = "done" /\ reply' = "none" /\ sent' = << >>
      /\ answer' = Told(parse_registry(queries))
  BY <1>1, Begun DEF ListFlexQueries, Answer, Respond, Told
<1>3. Tells(t, None, queries, << >>, << >>, Told(parse_registry(queries)))
  BY DEF Tells
<1>4. Phase(pc, tool, args, queries, is_connected, sent, replies, reply, raised, answer)'
  BY <1>1, <1>2, <1>3, Begun DEF Phase
<1> QED
  BY <1>1, <1>2, <1>4, Begun, EmptyIsSeq, NothingSent DEF DInv

LEMMA GetFlexQueryKeeps ==
  ASSUME DInv, NEW a \in FlexCalls, GetFlexQuery(a)
  PROVE  DInv'
<1> DEFINE t == "get_flex_query"
<1>1. /\ t \in Tools /\ t \in Tools \ {"list_flex_queries"} /\ t \in FlexTools
      /\ Fits(t, a) /\ Begin(t, a)
  BY DEF Tools, InstrumentTools, FlexTools, Fits, GetFlexQuery
<1>2. PICK query : query = FlexQuery(a, queries)
  OBVIOUS
<1>3. CASE Refuse("VALIDATION_ERROR") /\ UNCHANGED sent
  <2>1. Declines(t, a, is_connected, << >>, << >>, None, Refused("VALIDATION_ERROR"))
    BY DEF Declines
  <2> QED
    BY <1>1, <1>3, <2>1, BeginRefuses
<1>4. CASE /\ query # None /\ pc' = "downloading"
           /\ sent' = << [kind |-> "download", query |-> query.queryId] >>
           /\ UNCHANGED << reply, answer >>
  <2>1. IsSeq(sent') /\ Len(sent') = 1 /\ sent' # << >>
    <3>1. sent' = Append(<< >>, [kind |-> "download", query |-> query.queryId])
      BY <1>4
    <3> QED
      BY <3>1, FirstRequest
  <2>2. FlexSends(a, queries, sent')
    BY <1>2, <1>4 DEF FlexSends
  <2>3. Sends(t, a, queries, sent', << >>)
    BY <1>1, <2>2 DEF Sends
  <2>4. Replied(t, sent', << >>)
    BY <1>1, <2>1, EmptyIsSeq DEF Replied
  <2>5. Phase(pc, tool, args, queries, is_connected, sent, replies, reply, raised, answer)'
    BY <1>1, <1>4, <2>1, Begun DEF Phase
  <2>6. IsSeq(sent)'
    BY <2>1 DEF IsSeq
  <2> QED
    BY <1>1, <1>4, <2>3, <2>4, <2>5, <2>6, Begun, EmptyIsSeq DEF DInv
<1> QED
  BY <1>2, <1>3, <1>4 DEF GetFlexQuery

-----------------------------------------------------------------------------
(* The handlers go on.                                                     *)

\* The requests behind a reply that a handler goes on with.
LEMMA GoesOn ==
  ASSUME DInv, pc = "awaiting", NEW t \in Tools, NEW k \in Nat, Got(t, k)
  PROVE  /\ tool = t /\ t \notin FlexTools /\ Len(replies) = k /\ Len(sent) = k
         /\ Received = replies[k] /\ Last(sent) = sent[k] /\ raised = None
         /\ reply \in {"data", "empty"} /\ sent # << >>
         /\ Fits(t, args) /\ Sends(t, args, queries, sent, replies)
<1>1. /\ tool = t /\ Len(replies) = k /\ Len(sent) = k /\ raised = None
      /\ reply \in {"data", "empty"} /\ sent # << >> /\ t \notin FlexTools
  BY Waiting DEF Got
<1> QED
  BY <1>1 DEF DInv, Received, Last

\* One reply, and that an empty one.
LEMMA OnlyReply ==
  ASSUME NEW r, IsSeq(r), Len(r) = 1, NEW x, r[1] = x
  PROVE  r = << x >>
<1>1. PICK S : S = ToSet(r)
  OBVIOUS
<1>2. r \in Seq(S)
  BY <1>1 DEF IsSeq
<1> QED
  BY <1>2

LEMMA MarketDataQualifiedKeeps ==
  ASSUME DInv, pc = "awaiting", HandlerKeeps, MarketDataQualified
  PROVE  DInv'
<1> DEFINE t == "get_market_data"
<1>1. t \in Tools /\ t \in Tools \ {"list_flex_queries"} /\ Got(t, 1) /\ t \in InstrumentTools
  BY DEF Tools, InstrumentTools, FlexTools, MarketDataQualified
<1>2. /\ tool = t /\ t \notin FlexTools /\ Len(replies) = 1 /\ Len(sent) = 1
      /\ Received = replies[1] /\ Last(sent) = sent[1] /\ raised = None
      /\ reply \in {"data", "empty"} /\ MarketSends(args, sent, replies)
  <2>1. 1 \in Nat
    OBVIOUS
  <2>2. sent # << >> /\ Sends(t, args, queries, sent, replies)
    BY <1>1, <2>1, GoesOn
  <2>3. MarketSends(args, sent, replies)
    BY <2>2 DEF Sends
  <2> QED
    BY <1>1, <2>1, <2>3, GoesOn
<1>3. CASE Received = << >> /\ Refuse("IB_INVALID_CONTRACT") /\ UNCHANGED sent
  <2>1. replies = << << >> >>
    BY <1>2, <1>3, OnlyReply DEF DInv
  <2>2. Declines(tool, args, is_connected, sent, replies, raised, Refused("IB_INVALID_CONTRACT"))
    BY <1>2, <2>1 DEF Declines
  <2> QED
    BY <1>3, <2>2, HandlerRefuses
<1>4. CASE Ask("tickers", << Resolved >>)
  <2>1. Resolved = ResolvedBy(Contract(args), replies[1])
    BY <1>2 DEF Resolved, ResolvedBy, MarketSends, Request
  <2>2. ASSUME NEW s, Extends(s, sent, Request("tickers", << Resolved >>, None))
        PROVE  Sends(tool, args, queries, s, replies)
    <3>1. Len(s) = 2 /\ s[1] = sent[1] /\ s[2] = Request("tickers", << Resolved >>, None)
      BY <1>2, <2>2 DEF Extends
    <3>2. Good(args) /\ s[1] = Request("qualify", << Contract(args) >>, None)
      BY <1>2, <3>1 DEF MarketSends
    <3>3. MarketSends(args, s, replies)
      BY <1>2, <2>1, <3>1, <3>2 DEF MarketSends
    <3> QED
      BY <1>1, <1>2, <3>3 DEF Sends
  <2> QED
    BY <1>2, <1>4, <2>2, HandlerAsks
<1> QED
  BY <1>3, <1>4 DEF MarketDataQualified

LEMMA MarketDataQuotedKeeps ==
  ASSUME DInv, pc = "awaiting", HandlerKeeps, MarketDataQuoted
  PROVE  DInv'
<1> DEFINE t == "get_market_data"
<1>1. t \in Tools /\ Got(t, 2) /\ UNCHANGED sent /\ 2 \in Nat
  BY DEF Tools, InstrumentTools, MarketDataQuoted
<1>2. /\ tool = t /\ t \notin FlexTools /\ Len(replies) = 2 /\ Len(sent) = 2
      /\ Received = replies[2] /\ raised = None
  BY <1>1, GoesOn
<1>3. CASE Received = << >> /\ Refuse("IB_NO_MARKET_DATA")
  <2>1. Declines(tool, args, is_connected, sent, replies, raised, Refused("IB_NO_MARKET_DATA"))
    BY <1>2, <1>3 DEF Declines
  <2> QED
    BY <1>1, <1>3, <2>1, HandlerRefuses
<1>4. CASE Received # << >> /\ Answer(MarketData(args, Received[1]))
  <2>1. Tells(tool, args, queries, sent, replies, Told(MarketData(args, Received[1])))
    BY <1>2, <1>4 DEF Tells
  <2> QED
    BY <1>1, <1>2, <1>4, <2>1, HandlerAnswers
<1> QED
  BY <1>3, <1>4 DEF MarketDataQuoted

LEMMA HistoryReceivedKeeps ==
  ASSUME DInv, pc = "awaiting", HandlerKeeps, HistoryReceived
  PROVE  DInv'
<1> DEFINE t == "get_historical_data"
<1>1. /\ t \in Tools /\ Got(t, 1) /\ UNCHANGED sent /\ 1 \in Nat
      /\ Answer(HistoricalBars(Received))
  BY DEF Tools, InstrumentTools, HistoryReceived
<1>2. tool = t /\ Len(replies) = 1 /\ Received = replies[1] /\ raised = None
  BY <1>1, GoesOn
<1>3. Tells(tool, args, queries, sent, replies, Told(HistoricalBars(Received)))
  BY <1>2 DEF Tells
<1> QED
  BY <1>1, <1>2, <1>3, HandlerAnswers

LEMMA DetailsReceivedKeeps ==
  ASSUME DInv, pc = "awaiting", HandlerKeeps, DetailsReceived
  PROVE  DInv'
<1> DEFINE t == "get_contract_details"
<1>1. t \in Tools /\ Got(t, 1) /\ UNCHANGED sent /\ 1 \in Nat
  BY DEF Tools, InstrumentTools, DetailsReceived
<1>2. /\ tool = t /\ t \notin FlexTools /\ Len(replies) = 1
      /\ Received = replies[1] /\ raised = None
  BY <1>1, GoesOn
<1>3. CASE Received = << >> /\ Refuse("IB_INVALID_CONTRACT")
  <2>1. replies = << << >> >>
    BY <1>2, <1>3, OnlyReply DEF DInv
  <2>2. Declines(tool, args, is_connected, sent, replies, raised, Refused("IB_INVALID_CONTRACT"))
    BY <1>2, <2>1 DEF Declines
  <2> QED
    BY <1>1, <1>3, <2>2, HandlerRefuses
<1>4. CASE Received # << >> /\ Answer(DetailsToResponse(args, Received[1]))
  <2>1. Tells(tool, args, queries, sent, replies, Told(DetailsToResponse(args, Received[1])))
    BY <1>2 DEF Tells
  <2> QED
    BY <1>1, <1>2, <1>4, <2>1, HandlerAnswers
<1> QED
  BY <1>3, <1>4 DEF DetailsReceived

\* The chain tool goes on with its k-th reply.
LEMMA ChainGoesOn ==
  ASSUME DInv, pc = "awaiting", NEW k \in Nat, Got("get_option_chain", k)
  PROVE  /\ tool = "get_option_chain" /\ tool \notin FlexTools
         /\ tool \in Tools \ {"list_flex_queries"}
         /\ Len(replies) = k /\ Len(sent) = k /\ Received = replies[k] /\ Last(sent) = sent[k]
         /\ raised = None /\ reply \in {"data", "empty"} /\ ChainSends(args, sent, replies)
<1> DEFINE t == "get_option_chain"
<1>1. t \in Tools /\ t # "list_flex_queries"
  BY DEF Tools
<1>2. sent # << >> /\ Sends(t, args, queries, sent, replies)
  BY <1>1, GoesOn
<1>3. ChainSends(args, sent, replies)
  BY <1>2 DEF Sends
<1> QED
  BY <1>1, <1>3, GoesOn

LEMMA UnderlyingQualifiedKeeps ==
  ASSUME DInv, pc = "awaiting", HandlerKeeps, UnderlyingQualified
  PROVE  DInv'
<1>1. Got("get_option_chain", 1) /\ 1 \in Nat
  BY DEF UnderlyingQualified
<1>2. /\ tool = "get_option_chain" /\ tool \notin FlexTools
      /\ tool \in Tools \ {"list_flex_queries"}
      /\ Len(replies) = 1 /\ Len(sent) = 1 /\ Received = replies[1] /\ Last(sent) = sent[1]
      /\ raised = None /\ reply \in {"data", "empty"} /\ ChainSends(args, sent, replies)
  BY <1>1, ChainGoesOn
<1>3. CASE Received = << >> /\ Refuse("IB_INVALID_CONTRACT") /\ UNCHANGED sent
  <2>1. replies = << << >> >>
    BY <1>2, <1>3, OnlyReply DEF DInv
  <2>2. Declines(tool, args, is_connected, sent, replies, raised, Refused("IB_INVALID_CONTRACT"))
    BY <1>2, <2>1 DEF Declines
  <2> QED
    BY <1>3, <2>2, HandlerRefuses
<1>4. CASE Ask("params", << Resolved >>)
  <2>1. Resolved = ResolvedBy(Contract(Underlying(args)), replies[1])
    BY <1>2 DEF Resolved, ResolvedBy, ChainSends, Request
  <2>2. ASSUME NEW s, Extends(s, sent, Request("params", << Resolved >>, None))
        PROVE  Sends(tool, args, queries, s, replies)
    <3>1. Len(s) = 2 /\ s[1] = sent[1] /\ s[2] = Request("params", << Resolved >>, None)
      BY <1>2, <2>2 DEF Extends
    <3>2. /\ ~ValueErrors(Underlying(args))
          /\ s[1] = Request("qualify", << Contract(Underlying(args)) >>, None)
      BY <1>2, <3>1 DEF ChainSends
    <3>3. ChainSends(args, s, replies)
      BY <1>2, <2>1, <3>1, <3>2 DEF ChainSends
    <3> QED
      BY <1>2, <3>3 DEF Sends
  <2> QED
    BY <1>2, <1>4, <2>2, HandlerAsks
<1> QED
  BY <1>3, <1>4 DEF UnderlyingQualified

LEMMA ChainReceivedKeeps ==
  ASSUME DInv, pc = "awaiting", HandlerKeeps, ChainReceived
  PROVE  DInv'
<1>1. Got("get_option_chain", 2) /\ 2 \in Nat
  BY DEF ChainReceived
<1>2. /\ tool = "get_option_chain" /\ tool \notin FlexTools
      /\ tool \in Tools \ {"list_flex_queries"}
      /\ Len(replies) = 2 /\ Len(sent) = 2 /\ Received = replies[2] /\ Last(sent) = sent[2]
      /\ raised = None /\ reply \in {"data", "empty"} /\ ChainSends(args, sent, replies)
  BY <1>1, ChainGoesOn
<1>3. CASE Received = << >> /\ Refuse("IB_NO_MARKET_DATA") /\ UNCHANGED sent
  <2>1. Declines(tool, args, is_connected, sent, replies, raised, Refused("IB_NO_MARKET_DATA"))
    BY <1>2, <1>3 DEF Declines
  <2> QED
    BY <1>3, <2>1, HandlerRefuses
<1>4. CASE /\ ~Given(args.expiry)
           /\ Answer([exchanges |-> Exchanges(Received), expirations |-> Expirations(Received),
                      strikes |-> Strikes(Received), multiplier |-> Multiplier(Received)])
           /\ UNCHANGED sent
  <2>1. Tells(tool, args, queries, sent, replies,
              Told([exchanges |-> Exchanges(Received), expirations |-> Expirations(Received),
                    strikes |-> Strikes(Received), multiplier |-> Multiplier(Received)]))
    BY <1>2, <1>4 DEF Tells
  <2> QED
    BY <1>2, <1>4, <2>1, HandlerAnswers
<1>5. CASE /\ Given(args.expiry) /\ ~OfferedExpiry(args, Received)
           /\ Refuse("IB_INVALID_CONTRACT") /\ UNCHANGED sent
  <2>1. Declines(tool, args, is_connected, sent, replies, raised, Refused("IB_INVALID_CONTRACT"))
    BY <1>2, <1>5 DEF Declines
  <2> QED
    BY <1>5, <2>1, HandlerRefuses
<1>6. CASE Refuse("VALIDATION_ERROR") /\ UNCHANGED sent
  <2>1. Declines(tool, args, is_connected, sent, replies, raised, Refused("VALIDATION_ERROR"))
    BY <1>2 DEF Declines
  <2> QED
    BY <1>6, <2>1, HandlerRefuses
<1>7. CASE /\ OfferedExpiry(args, Received) /\ GoodRight(args)
           /\ Ask("tickers", Snapshots(args, Received))
  <2>1. ASSUME NEW s, Extends(s, sent, Request("tickers", Snapshots(args, Received), None))
        PROVE  Sends(tool, args, queries, s, replies)
    <3>1. /\ Len(s) = 3 /\ s[1] = sent[1] /\ s[2] = sent[2]
          /\ s[3] = Request("tickers", Snapshots(args, Received), None)
      BY <1>2, <2>1 DEF Extends
    <3>2. /\ ~ValueErrors(Underlying(args))
          /\ s[1] = Request("qualify", << Contract(Underlying(args)) >>, None)
          /\ s[2] = Request("params", << ResolvedBy(Contract(Underlying(args)), replies[1]) >>, None)
      BY <1>2, <3>1 DEF ChainSends
    <3>3. ChainSends(args, s, replies)
      BY <1>2, <1>7, <3>1, <3>2 DEF ChainSends
    <3> QED
      BY <1>2, <3>3 DEF Sends
  <2> QED
    BY <1>2, <1>7, <2>1, HandlerAsks
<1>8. CASE /\ OfferedExpiry(args, Received)
           /\ Answer([multiplier |-> Multiplier(Received), lines |-> << >>])
           /\ UNCHANGED sent
  <2>1. Tells(tool, args, queries, sent, replies,
              Told([multiplier |-> Multiplier(Received), lines |-> << >>]))
    BY <1>2, <1>8 DEF Tells, OfferedExpiry
  <2> QED
    BY <1>2, <1>8, <2>1, HandlerAnswers
<1> QED
  BY <1>3, <1>4, <1>5, <1>6, <1>7, <1>8 DEF ChainReceived, Snapshots

LEMMA ChainQuotedKeeps ==
  ASSUME DInv, pc = "awaiting", HandlerKeeps, ChainQuoted
  PROVE  DInv'
<1> DEFINE data == [multiplier |-> Multiplier(replies[2]),
                    lines |-> OptionChainStrikes(args, replies[2], Received)]
<1>1. Got("get_option_chain", 3) /\ 3 \in Nat /\ UNCHANGED sent /\ Answer(data)
  BY DEF ChainQuoted
<1>2. /\ tool = "get_option_chain" /\ Len(replies) = 3 /\ Len(sent) = 3
      /\ Received = replies[3] /\ raised = None
  BY <1>1, ChainGoesOn
<1>3. Tells(tool, args, queries, sent, replies, Told(data))
  BY <1>2 DEF Tells
<1> HIDE DEF data
<1> QED
  BY <1>1, <1>2, <1>3, HandlerAnswers

LEMMA RequestFailsKeeps ==
  ASSUME DInv, pc = "awaiting", HandlerKeeps, RequestFails
  PROVE  DInv'
<1>1. UNCHANGED sent /\ tool \notin FlexTools /\ sent # << >>
  BY Waiting DEF RequestFails
<1>2. CASE reply = "lost" /\ Refuse(map_exception(ConnectionError))
  <2>1. Refuse("IB_NOT_CONNECTED")
    BY <1>2, LostIsNotConnected
  <2>2. Declines(tool, args, is_connected, sent, replies, raised, Refused("IB_NOT_CONNECTED"))
    BY <1>1, <1>2, Waiting DEF Declines
  <2> QED
    BY <1>1, <2>1, <2>2, HandlerRefuses
<1>3. CASE reply = "raised" /\ Refuse(map_exception(raised))
  <2>1. Declines(tool, args, is_connected, sent, replies, raised, Refused(map_exception(raised)))
    BY <1>1, <1>3, Waiting DEF Declines
  <2> QED
    BY <1>1, <1>3, <2>1, HandlerRefuses
<1> QED
  BY <1>2, <1>3 DEF RequestFails

-----------------------------------------------------------------------------
(* The download, the client, the gateway and the connection.               *)

LEMMA DownloadEndsKeeps ==
  ASSUME DInv, DownloadEnds
  PROVE  DInv'
<1>1. /\ UNCHANGED << is_connected, queries, tool, args, sent, raised >>
      /\ tool = "get_flex_query" /\ tool \in Tools /\ sent # << >> /\ replies = << >>
      /\ raised = None
  BY DEF DInv, Phase, DownloadEnds, Tools, FlexTools
<1>2. CASE Refuse("IB_FLEX_ERROR") /\ UNCHANGED replies
  <2>1. pc' = "done" /\ answer' = Refused("IB_FLEX_ERROR") /\ reply' = "none"
    BY <1>2 DEF Refuse, Respond, Refused
  <2>2. Declines(tool, args, is_connected, sent, replies, None, Refused("IB_FLEX_ERROR"))
    BY <1>1 DEF Declines
  <2>3. Phase(pc, tool, args, queries, is_connected, sent, replies, reply, raised, answer)'
    BY <1>1, <1>2, <2>1, <2>2 DEF Phase
  <2> QED
    BY <1>1, <1>2, <2>1, <2>3 DEF DInv, IsSeq
<1>3. ASSUME NEW report \in Reports,
             Answer(FlexQueryResult(FlexQuery(args, queries), args, report)),
             replies' = << report >>
      PROVE  DInv'
  <2>1. PICK result : result = FlexQueryResult(FlexQuery(args, queries), args, report)
    OBVIOUS
  <2>2. pc' = "done" /\ answer' = Told(result) /\ reply' = "none"
    BY <1>3, <2>1 DEF Answer, Respond, Told
  <2>3. Tells(tool, args, queries, sent, replies', Told(result))
    BY <1>1, <1>3, <2>1 DEF Tells
  <2>4. Phase(pc, tool, args, queries, is_connected, sent, replies, reply, raised, answer)'
    BY <1>1, <2>2, <2>3 DEF Phase
  <2>5. IsSeq(replies)' /\ Len(replies') = 1
    <3>1. replies' = Append(<< >>, report)
      BY <1>3
    <3>2. IsSeq(replies')
      BY <3>1, FirstRequest
    <3> QED
      BY <1>3, <3>2 DEF IsSeq
  <2>6. FlexSends(args, queries, sent)
    BY <1>1 DEF DInv, Sends
  <2>7. Sends(tool, args, queries, sent, replies')
    BY <1>1, <2>6 DEF Sends, FlexTools, InstrumentTools
  <2>8. Replied(tool, sent, replies')
    <3>1. Len(sent) = 1
      BY <2>6 DEF FlexSends
    <3> QED
      BY <1>1, <2>5, <3>1 DEF Replied, FlexTools
  <2> QED
    BY <1>1, <2>2, <2>4, <2>5, <2>7, <2>8 DEF DInv, IsSeq
<1> QED
  BY <1>2, <1>3 DEF DownloadEnds

LEMMA CollectKeeps ==
  ASSUME DInv, Collect
  PROVE  DInv'
<1>1. /\ pc' = "idle" /\ tool' = None /\ args' = None /\ raised' = None /\ answer' = Nothing
      /\ sent' = << >> /\ replies' = << >>
      /\ UNCHANGED << is_connected, queries, reply >>
  BY DEF Collect, Nothing
<1>2. reply' = "none"
  BY <1>1 DEF DInv, Phase, Collect
<1>3. Phase(pc, tool, args, queries, is_connected, sent, replies, reply, raised, answer)'
  BY <1>1, <1>2 DEF Phase
<1> QED
  BY <1>1, <1>3, EmptyIsSeq, NothingSent, NoToolFits DEF DInv

LEMMA OnlyHandlersWait ==
  ASSUME DInv, reply = "pending"
  PROVE  pc = "awaiting"
BY DEF DInv, Phase

\* What was asked depends on the replies before it only.
LEMMA RepliesGrow ==
  ASSUME NEW t, NEW a, NEW raw, NEW s, NEW r, NEW more, IsSeq(s), IsSeq(r),
         Sends(t, a, raw, s, r), Len(s) = Len(r) + 1,
         Len(more) = Len(r) + 1, \A i \in 1..Len(r) : more[i] = r[i]
  PROVE  Sends(t, a, raw, s, more)
<1>1. PICK n \in Nat : n = Len(r)
  BY DEF IsSeq
<1> SUFFICES ASSUME s # << >> PROVE Sends(t, a, raw, s, more)
  BY DEF Sends
<1>2. ASSUME t = "get_market_data" PROVE MarketSends(a, s, more)
  <2>1. MarketSends(a, s, r)
    BY <1>2 DEF Sends
  <2>2. Len(s) <= Len(more) + 1
    BY <1>1
  <2>3. ASSUME Len(s) = 2 PROVE more[1] = r[1]
    <3>1. 1 \in 1..Len(r)
      BY <1>1, <2>3
    <3> QED
      BY <3>1
  <2> QED
    BY <2>1, <2>2, <2>3 DEF MarketSends
<1>3. ASSUME t = "get_option_chain" PROVE ChainSends(a, s, more)
  <2>1. ChainSends(a, s, r)
    BY <1>3 DEF Sends
  <2>2. Len(s) <= Len(more) + 1
    BY <1>1
  <2>3. Len(s) \in {2, 3} => more[1] = r[1]
    BY <1>1
  <2>4. Len(s) = 3 => more[2] = r[2]
    BY <1>1
  <2> QED
    BY <2>1, <2>2, <2>3, <2>4 DEF ChainSends
<1> QED
  BY <1>2, <1>3 DEF Sends

LEMMA GatewayRepliesKeeps ==
  ASSUME DInv, GatewayReplies
  PROVE  DInv'
<1>1. /\ reply = "pending" /\ pc = "awaiting"
      /\ UNCHANGED << is_connected, queries, pc, tool, args, sent, raised, answer >>
  BY OnlyHandlersWait DEF GatewayReplies
<1>2. PICK r \in Replies(Last(sent)) :
        /\ replies' = Append(replies, r)
        /\ reply' = IF r = << >> THEN "empty" ELSE "data"
  BY DEF GatewayReplies
<1>3. /\ tool \in Tools \ FlexTools /\ sent # << >> /\ answer = Nothing
      /\ Len(sent) = Len(replies) + 1 /\ raised = None
      /\ Len(replies) \in Nat /\ Last(sent) = sent[Len(sent)]
  BY <1>1, Waiting DEF Last
<1>4. /\ IsSeq(replies') /\ Len(replies') = Len(replies) + 1
      /\ \A i \in 1..Len(replies) : replies'[i] = replies[i]
      /\ replies'[Len(replies) + 1] = r
  BY <1>2, Appended DEF DInv
<1>5. Sends(tool, args, queries, sent, replies')
  BY <1>3, <1>4, RepliesGrow DEF DInv
<1>6. Replied(tool, sent, replies')
  <2>1. \A i \in 1..Len(replies) : replies[i] \in Replies(sent[i])
    BY <1>3 DEF DInv, Replied
  <2>2. \A i \in 1..Len(replies') : replies'[i] \in Replies(sent[i])
    BY <1>2, <1>3, <1>4, <2>1
  <2> QED
    BY <1>3, <1>4, <2>2 DEF Replied
<1>7. Phase(pc, tool, args, queries, is_connected, sent, replies, reply, raised, answer)'
  BY <1>1, <1>2, <1>3, <1>4 DEF Phase
<1> QED
  BY <1>1, <1>4, <1>5, <1>6, <1>7 DEF DInv, IsSeq

LEMMA RequestRaisesKeeps ==
  ASSUME DInv, RequestRaises
  PROVE  DInv'
<1>1. /\ reply = "pending" /\ pc = "awaiting" /\ reply' = "raised" /\ raised' \in Exceptions
      /\ UNCHANGED << is_connected, queries, pc, tool, args, sent, replies, answer >>
  BY OnlyHandlersWait DEF RequestRaises
<1>2. Phase(pc, tool, args, queries, is_connected, sent, replies, reply, raised, answer)'
  BY <1>1, Waiting DEF Phase
<1> QED
  BY <1>1, <1>2 DEF DInv, IsSeq

LEMMA LoseKeeps ==
  ASSUME DInv, Lose
  PROVE  DInv'
<1>1. /\ is_connected' = FALSE /\ reply' = IF reply = "pending" THEN "lost" ELSE reply
      /\ UNCHANGED << queries, pc, tool, args, sent, replies, raised, answer >>
  BY DEF Lose
<1>2. Declines(tool, args, is_connected, sent, replies, raised, answer)
        => Declines(tool, args, FALSE, sent, replies, raised, answer)
  BY DEF Declines
<1>3. Phase(pc, tool, args, queries, FALSE, sent, replies, reply', raised, answer)
  BY <1>1, <1>2 DEF DInv, Phase
<1> QED
  BY <1>1, <1>3 DEF DInv, IsSeq

LEMMA ResumeKeeps ==
  ASSUME DInv, Resume
  PROVE  DInv'
<1>1. pc = "awaiting" /\ HandlerKeeps
  BY DEF Resume, HandlerKeeps
<1> QED
  BY <1>1, MarketDataQualifiedKeeps, MarketDataQuotedKeeps, HistoryReceivedKeeps,
     DetailsReceivedKeeps, UnderlyingQualifiedKeeps, ChainReceivedKeeps, ChainQuotedKeeps,
     RequestFailsKeeps
     DEF Resume

LEMMA DInductive == DInv /\ [Next]_vars => DInv'
<1> SUFFICES ASSUME DInv, [Next]_vars PROVE DInv'
  OBVIOUS
<1>1. CASE Invoke
  BY <1>1, GetMarketDataKeeps, GetContractDetailsKeeps, GetHistoricalDataKeeps, RejectedKeeps,
     GetOptionChainKeeps, ListFlexQueriesKeeps, GetFlexQueryKeeps
     DEF Invoke
<1>2. CASE UNCHANGED vars
  BY <1>2 DEF vars, DInv, IsSeq
<1> QED
  BY <1>1, <1>2, ResumeKeeps, DownloadEndsKeeps, CollectKeeps, GatewayRepliesKeeps,
     RequestRaisesKeeps, LoseKeeps
     DEF Next

-----------------------------------------------------------------------------
(* What holds of every call.                                               *)

LEMMA AlwaysDInv == Spec => []DInv
BY InitKeeps, DInductive, PTL DEF Spec

\* Every variable has its type, and the multiplier of every full or short
\* option chain is a number, whatever the gateway says of the chains.
THEOREM TypeCorrect == Spec => []TypeOK
BY AlwaysDInv, SaysTypes, PTL

\* Every contract that a request names is complete for its type and has the
\* symbol, expiry, strike, right and exchange that the client asked for, for
\* all arguments that the schemas let through (contracts.py, market.py).
THEOREM RequestsMatchArguments == Spec => []RequestsAsAsked
BY AlwaysDInv, SaysRequests, PTL

\* The history asked of the gateway spans what the client asked for, in either
\* notation, and every bar of the reply is in the answer (durations.py).
THEOREM HistoryMatchesDuration == Spec => []HistoryAsAsked
BY AlwaysDInv, SaysHistory, PTL

\* A full chain pairs every strike and right with the ticker of its own
\* contract, each once, for every set of strikes (market.py).
THEOREM ChainIsPaired == Spec => []ChainPaired
BY AlwaysDInv, SaysChain, PTL

\* Greeks are those of the first bundle that says anything (market.py).
THEOREM GreeksOfOneBundle == Spec => []GreeksFromOneBundle
BY AlwaysDInv, SaysGreeks, PTL

\* Snapshots are fetched only for an expiry that this call found on offer
\* (market.py).
THEOREM DiscoveryFetchesNothing == Spec => []DiscoveryNeverFetches
BY AlwaysDInv, SaysDiscovery, PTL

\* No error blames the wrong cause, for every exception that a request may
\* raise and every message (errors.py and the handlers' early returns).
THEOREM ErrorsNameTheirCause == Spec => []ErrorsHaveCauses
BY AlwaysDInv, SaysErrors, PTL

\* The query downloaded is the one named by exactly one of id and name, an
\* empty text being neither, whatever the registry (flex.py).
THEOREM RightQueryDownloaded == Spec => []FlexRightQuery
BY AlwaysDInv, SaysFlexQuery, PTL

\* A parsed Flex answer has every topic asked for, all of them for an empty
\* name as for none, or it is raw (flex.py).
THEOREM AllTopicsOrRaw == Spec => []FlexAllOrRaw
BY AlwaysDInv, SaysFlexAll, PTL
=============================================================================
