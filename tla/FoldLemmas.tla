------------------------------ MODULE FoldLemmas ------------------------------
(***************************************************************************)
(* What a fold from the left computes.  The operators of a fold are given  *)
(* here as functions, so that each lemma can be cited for every fold; and  *)
(* induction is stated of sets.                                            *)
(***************************************************************************)
EXTENDS Integers, SequencesExt, FiniteSetTheorems, WellFoundedInduction, TLAPS

\* Whatever holds of 0 and of the next number holds of all.
LEMMA SetInduction ==
  ASSUME NEW S, 0 \in S, \A n \in Nat : n \in S => n + 1 \in S
  PROVE  Nat \subseteq S
<1> SUFFICES ASSUME Nat \ S # {} PROVE FALSE
  OBVIOUS
<1>1. IsWellFoundedOn(OpToRel(<, Nat), Nat)
  BY NatLessThanWellFounded
<1>2. PICK x \in Nat \ S : \A y \in Nat \ S : ~(<< y, x >> \in OpToRel(<, Nat))
  <2>1. Nat \ S \subseteq Nat
    OBVIOUS
  <2> QED
    BY <1>1, <2>1, WFMin
<1>3. \A y \in Nat \ S : ~(y < x)
  BY <1>2 DEF OpToRel
<1>4. x # 0 /\ x - 1 \in Nat /\ x - 1 < x
  OBVIOUS
<1>5. x - 1 \in S
  BY <1>3, <1>4
<1>6. (x - 1) + 1 \in S
  BY <1>4, <1>5
<1> QED
  BY <1>6

\* The largest of a set of places.
LEMMA MaxPlace ==
  ASSUME NEW n \in Nat, NEW s \in SUBSET (1..(n + 1))
  PROVE  /\ n + 1 \in s => Max(s) = n + 1
         /\ n + 1 \notin s => s \in SUBSET (1..n)
<1>1. ASSUME n + 1 \in s PROVE Max(s) = n + 1
  <2>1. \A y \in s : y \in Int /\ n + 1 >= y
    OBVIOUS
  <2>2. \E x \in s : \A y \in s : x >= y
    BY <1>1, <2>1
  <2>3. Max(s) \in s /\ \A y \in s : Max(s) >= y
    BY <2>2 DEF Max
  <2>4. Max(s) >= n + 1 /\ n + 1 >= Max(s) /\ Max(s) \in Int
    BY <1>1, <2>1, <2>3
  <2> QED
    BY <2>4
<1> QED
  BY <1>1

\* Places are taken from the last to the first: the function that a fold
\* over n places defines exists.
StepsOf(A, n) == [A \X (1..n) -> A]
Iterates(g, A, base, n, step) ==
  /\ g \in [SUBSET (1..n) -> A]
  /\ g[{}] = base
  /\ \A s \in SUBSET (1..n) :
       s # {} => Max(s) \in s /\ g[s] = step[<< g[s \ {Max(s)}], Max(s) >>]

LEMMA IterationExists ==
  ASSUME NEW N \in Nat, NEW A, NEW base \in A, NEW step \in StepsOf(A, N)
  PROVE  \E g : Iterates(g, A, base, N, step)
<1> DEFINE S == { n \in Nat : n <= N => \E g : Iterates(g, A, base, n, step) }
<1>1. 0 \in S
  <2> DEFINE g == [s \in SUBSET (1..0) |-> base]
  <2>1. SUBSET (1..0) = {{}}
    OBVIOUS
  <2>2. Iterates(g, A, base, 0, step)
    BY <2>1 DEF Iterates
  <2> QED
    BY <2>2
<1>2. ASSUME NEW n \in Nat, n \in S PROVE n + 1 \in S
  <2> SUFFICES ASSUME n + 1 <= N PROVE \E h : Iterates(h, A, base, n + 1, step)
    OBVIOUS
  <2>1. PICK g : Iterates(g, A, base, n, step)
    BY <1>2
  <2> DEFINE h == [s \in SUBSET (1..(n + 1)) |->
                     IF n + 1 \in s THEN step[<< g[s \ {n + 1}], n + 1 >>] ELSE g[s]]
  <2>2. ASSUME NEW s \in SUBSET (1..(n + 1))
        PROVE  s \ {n + 1} \in SUBSET (1..n)
    OBVIOUS
  <2>3. h \in [SUBSET (1..(n + 1)) -> A]
    <3> SUFFICES ASSUME NEW s \in SUBSET (1..(n + 1)) PROVE h[s] \in A
      OBVIOUS
    <3>1. CASE n + 1 \in s
      <4>1. g[s \ {n + 1}] \in A
        BY <2>1, <2>2 DEF Iterates
      <4>2. << g[s \ {n + 1}], n + 1 >> \in A \X (1..N)
        BY <4>1
      <4> QED
        BY <3>1, <4>2 DEF StepsOf
    <3>2. CASE n + 1 \notin s
      BY <2>1, <3>2, MaxPlace DEF Iterates
    <3> QED
      BY <3>1, <3>2
  <2>4. \A s \in SUBSET (1..n) : s \in SUBSET (1..(n + 1)) /\ h[s] = g[s]
    <3> SUFFICES ASSUME NEW s \in SUBSET (1..n)
                 PROVE  s \in SUBSET (1..(n + 1)) /\ h[s] = g[s]
      OBVIOUS
    <3>1. s \in SUBSET (1..(n + 1)) /\ n + 1 \notin s
      OBVIOUS
    <3> QED
      BY <3>1
  <2>5. h[{}] = base
    BY <2>1, <2>4 DEF Iterates
  <2>6. ASSUME NEW s \in SUBSET (1..(n + 1)), s # {}
        PROVE  Max(s) \in s /\ h[s] = step[<< h[s \ {Max(s)}], Max(s) >>]
    <3>1. CASE n + 1 \in s
      <4>1. Max(s) = n + 1 /\ h[s \ {n + 1}] = g[s \ {n + 1}]
        BY <2>2, <2>4, <3>1, MaxPlace
      <4> QED
        BY <3>1, <4>1
    <3>2. CASE n + 1 \notin s
      <4>1. s \in SUBSET (1..n)
        BY <3>2, MaxPlace
      <4>2. Max(s) \in s /\ g[s] = step[<< g[s \ {Max(s)}], Max(s) >>]
        BY <2>1, <2>6, <4>1 DEF Iterates
      <4>3. s \ {Max(s)} \in SUBSET (1..n)
        BY <4>1
      <4> QED
        BY <2>4, <4>1, <4>2, <4>3
    <3> QED
      BY <3>1, <3>2
  <2>7. Iterates(h, A, base, n + 1, step)
    BY <2>3, <2>5, <2>6 DEF Iterates
  <2> QED
    BY <2>7
<1>3. Nat \subseteq S
  BY <1>1, <1>2, SetInduction
<1> QED
  BY <1>3

\* A function that folds with another expression of the same step: there is
\* no other function on the sets of places that does so.
FoldsBy(h, A, base, n, step) ==
  /\ h[{}] = base
  /\ \A s \in SUBSET (1..n) :
       s # {} /\ h[s \ {Max(s)}] \in A => h[s] = step[<< h[s \ {Max(s)}], Max(s) >>]

LEMMA IterationUnique ==
  ASSUME NEW N \in Nat, NEW A, NEW base \in A, NEW step \in StepsOf(A, N),
         NEW g, Iterates(g, A, base, N, step),
         NEW h, FoldsBy(h, A, base, N, step)
  PROVE  \A s \in SUBSET (1..N) : h[s] = g[s]
<1> DEFINE S == { n \in Nat : n <= N => \A s \in SUBSET (1..n) : h[s] = g[s] }
<1>1. 0 \in S
  <2>1. SUBSET (1..0) = {{}}
    OBVIOUS
  <2> QED
    BY <2>1 DEF Iterates, FoldsBy
<1>2. ASSUME NEW n \in Nat, n \in S PROVE n + 1 \in S
  <2> SUFFICES ASSUME n + 1 <= N PROVE \A s \in SUBSET (1..(n + 1)) : h[s] = g[s]
    BY n + 1 \in Nat
  <2> TAKE s \in SUBSET (1..(n + 1))
  <2>1. \A t \in SUBSET (1..n) : h[t] = g[t] /\ g[t] \in A
    <3>1. \A t \in SUBSET (1..n) : t \in SUBSET (1..N)
      OBVIOUS
    <3> QED
      BY <1>2, <3>1 DEF Iterates
  <2>2. CASE n + 1 \in s
    <3>1. s \in SUBSET (1..N) /\ s # {} /\ Max(s) = n + 1 /\ s \ {n + 1} \in SUBSET (1..n)
      BY <2>2, MaxPlace
    <3>2. h[s] = step[<< h[s \ {n + 1}], n + 1 >>]
      BY <2>1, <3>1 DEF FoldsBy
    <3>3. g[s] = step[<< g[s \ {n + 1}], n + 1 >>]
      BY <3>1 DEF Iterates
    <3> QED
      BY <2>1, <3>1, <3>2, <3>3
  <2>3. CASE n + 1 \notin s
    BY <2>1, <2>3, MaxPlace
  <2> QED
    BY <2>2, <2>3
<1>3. Nat \subseteq S
  BY <1>1, <1>2, SetInduction
<1> QED
  BY <1>3

\* What an iteration has made of the first k places, for every k.
Accumulates(acc, A, base, n, step) ==
  /\ acc \in [0..n -> A] /\ acc[0] = base
  /\ \A k \in 1..n : acc[k] = step[<< acc[k - 1], k >>]

LEMMA IterationByPlace ==
  ASSUME NEW N \in Nat, NEW A, NEW base \in A, NEW step \in StepsOf(A, N),
         NEW g, Iterates(g, A, base, N, step)
  PROVE  \E acc : Accumulates(acc, A, base, N, step) /\ acc[N] = g[1..N]
<1> DEFINE acc == [k \in 0..N |-> g[1..k]]
<1>1. acc \in [0..N -> A] /\ acc[0] = base
  <2>1. 1..0 = {} /\ \A k \in 0..N : 1..k \in SUBSET (1..N)
    OBVIOUS
  <2> QED
    BY <2>1 DEF Iterates
<1>2. ASSUME NEW k \in 1..N PROVE acc[k] = step[<< acc[k - 1], k >>]
  <2>1. /\ k - 1 \in Nat /\ 1..k \in SUBSET (1..((k - 1) + 1)) /\ (k - 1) + 1 = k
        /\ k \in 1..k /\ (1..k) \ {k} = 1..(k - 1) /\ 1..k \in SUBSET (1..N)
    OBVIOUS
  <2>2. Max(1..k) = k
    BY <2>1, MaxPlace
  <2>3. g[1..k] = step[<< g[(1..k) \ {Max(1..k)}], Max(1..k) >>]
    <3>1. 1..k # {}
      BY <2>1
    <3> QED
      BY <2>1, <3>1 DEF Iterates
  <2>4. acc[k] = g[1..k] /\ acc[k - 1] = g[1..(k - 1)]
    <3>1. k \in 0..N /\ k - 1 \in 0..N
      OBVIOUS
    <3> QED
      BY <3>1
  <2> QED
    BY <2>1, <2>2, <2>3, <2>4
<1>3. Accumulates(acc, A, base, N, step) /\ acc[N] = g[1..N]
  BY <1>1, <1>2 DEF Accumulates
<1> QED
  BY <1>3

\* A function that folds as the iteration does accumulates place by place.
LEMMA FoldByPlace ==
  ASSUME NEW N \in Nat, NEW A, NEW base \in A, NEW step \in StepsOf(A, N),
         NEW h, FoldsBy(h, A, base, N, step)
  PROVE  \E acc : Accumulates(acc, A, base, N, step) /\ acc[N] = h[1..N]
<1>1. PICK g : Iterates(g, A, base, N, step)
  BY IterationExists
<1>2. h[1..N] = g[1..N]
  <2>1. \A s \in SUBSET (1..N) : h[s] = g[s]
    BY <1>1, IterationUnique
  <2> QED
    BY <2>1
<1> QED
  BY <1>1, <1>2, IterationByPlace

\* There is one accumulation.
LEMMA AccumulatesOnce ==
  ASSUME NEW N \in Nat, NEW A, NEW base, NEW step, NEW a, NEW b,
         Accumulates(a, A, base, N, step), Accumulates(b, A, base, N, step)
  PROVE  a[N] = b[N]
<1> DEFINE S == { n \in Nat : n <= N => a[n] = b[n] }
<1>1. 0 \in S
  BY DEF Accumulates
<1>2. ASSUME NEW n \in Nat, n \in S PROVE n + 1 \in S
  <2> SUFFICES ASSUME n + 1 <= N PROVE a[n + 1] = b[n + 1]
    BY n + 1 \in Nat
  <2>1. n + 1 \in 1..N /\ (n + 1) - 1 = n /\ n <= N
    OBVIOUS
  <2>2. a[n] = b[n]
    BY <1>2, <2>1
  <2> QED
    BY <2>1, <2>2 DEF Accumulates
<1>3. Nat \subseteq S
  BY <1>1, <1>2, SetInduction
<1>4. N \in S /\ N <= N
  BY <1>3
<1> QED
  BY <1>4

-----------------------------------------------------------------------------
(* Sums, whose order does not matter.                                      *)

Adding(f, n) == [x \in Int \X (1..n) |-> x[1] + f[x[2]]]

LEMMA SumAnyOrder ==
  ASSUME NEW N \in Nat, NEW f \in [1..N -> Int], NEW g,
         Iterates(g, Int, 0, N, Adding(f, N))
  PROVE  \A s \in SUBSET (1..N) : \A x \in s : g[s] = f[x] + g[s \ {x}]
<1> DEFINE S == { n \in Nat : n <= N =>
                    \A s \in SUBSET (1..n) : \A x \in s : g[s] = f[x] + g[s \ {x}] }
<1>0. \A s \in SUBSET (1..N) : g[s] \in Int
  BY DEF Iterates
<1>1. 0 \in S
  <2>1. \A s \in SUBSET (1..0) : s = {}
    OBVIOUS
  <2> QED
    BY <2>1
<1>2. ASSUME NEW n \in Nat, n \in S PROVE n + 1 \in S
  <2> SUFFICES ASSUME n + 1 <= N, NEW s \in SUBSET (1..(n + 1)), NEW x \in s
               PROVE  g[s] = f[x] + g[s \ {x}]
    OBVIOUS
  <2>1. ASSUME NEW t \in SUBSET (1..(n + 1)), n + 1 \in t
        PROVE  g[t] = f[n + 1] + g[t \ {n + 1}]
    <3>1. t \in SUBSET (1..N) /\ t # {} /\ Max(t) = n + 1
      BY <2>1, MaxPlace
    <3>2. g[t] = Adding(f, N)[<< g[t \ {n + 1}], n + 1 >>]
      BY <3>1 DEF Iterates
    <3>3. t \ {n + 1} \in SUBSET (1..N) /\ n + 1 \in 1..N
      BY <3>1
    <3>4. g[t \ {n + 1}] \in Int /\ f[n + 1] \in Int
      BY <1>0, <3>3
    <3> QED
      BY <3>2, <3>3, <3>4 DEF Adding
  <2>2. CASE n + 1 \notin s
    <3>1. s \in SUBSET (1..n)
      BY <2>2, MaxPlace
    <3> QED
      BY <1>2, <3>1
  <2>3. CASE n + 1 \in s /\ x = n + 1
    BY <2>1, <2>3
  <2>4. CASE n + 1 \in s /\ x # n + 1
    <3> DEFINE r == s \ {n + 1}
    <3>1. /\ r \in SUBSET (1..n) /\ x \in r
          /\ s \ {x} \in SUBSET (1..(n + 1)) /\ n + 1 \in s \ {x}
          /\ (s \ {x}) \ {n + 1} = r \ {x}
      BY <2>4
    <3>2. g[s] = f[n + 1] + g[r] /\ g[s \ {x}] = f[n + 1] + g[r \ {x}]
      <4>1. g[s] = f[n + 1] + g[r]
        BY <2>1, <2>4
      <4>2. g[s \ {x}] = f[n + 1] + g[(s \ {x}) \ {n + 1}]
        BY <2>1, <3>1
      <4> QED
        BY <3>1, <4>1, <4>2
    <3>3. g[r] = f[x] + g[r \ {x}]
      BY <1>2, <3>1
    <3>4. r \ {x} \in SUBSET (1..N) /\ x \in 1..N /\ n + 1 \in 1..N
      BY <3>1
    <3>5. g[r \ {x}] \in Int /\ f[x] \in Int /\ f[n + 1] \in Int
      BY <1>0, <3>4
    <3> QED
      BY <3>2, <3>3, <3>5
  <2> QED
    BY <2>2, <2>3, <2>4
<1>3. N \in S
  <2>1. Nat \subseteq S
    BY <1>1, <1>2, SetInduction
  <2> QED
    BY <2>1
<1>4. N <= N
  OBVIOUS
<1> QED
  BY <1>3, <1>4, Zenon

\* The function with which MapThenSumSet adds: it takes any element first.
SumsUp(h, f, n) ==
  h = [s \in SUBSET (1..n) |->
        IF s = {} THEN 0
        ELSE LET x == CHOOSE x \in s : TRUE IN f[x] + h[s \ {x}]]

LEMMA SumBySet ==
  ASSUME NEW N \in Nat, NEW f \in [1..N -> Int], NEW g,
         Iterates(g, Int, 0, N, Adding(f, N))
  PROVE  /\ SumsUp(g, f, N)
         /\ \A h : SumsUp(h, f, N) => h[1..N] = g[1..N]
<1>1. ASSUME NEW s \in SUBSET (1..N), s # {}
      PROVE  (CHOOSE x \in s : TRUE) \in s
  BY <1>1
<1>2. SumsUp(g, f, N)
  <2>1. g = [s \in SUBSET (1..N) |-> g[s]] /\ g[{}] = 0
    BY DEF Iterates
  <2>2. ASSUME NEW s \in SUBSET (1..N)
        PROVE  g[s] = IF s = {} THEN 0
                      ELSE LET x == CHOOSE x \in s : TRUE IN f[x] + g[s \ {x}]
    <3>1. CASE s = {}
      <4>1. g[s] = 0
        BY <2>1, <3>1
      <4> QED
        BY <3>1, <4>1
    <3>2. CASE s # {}
      <4> DEFINE x == CHOOSE x \in s : TRUE
      <4>1. x \in s
        BY <1>1, <3>2
      <4>2. g[s] = f[x] + g[s \ {x}]
        <5> HIDE DEF x
        <5> QED
          BY <4>1, SumAnyOrder
      <4> QED
        BY <3>2, <4>2
    <3> QED
      BY <3>1, <3>2
  <2> QED
    BY <2>1, <2>2 DEF SumsUp
<1>3. ASSUME NEW h, SumsUp(h, f, N) PROVE h[1..N] = g[1..N]
  <2> DEFINE S == { n \in Nat : \A s \in SUBSET (1..N) : Cardinality(s) = n => h[s] = g[s] }
  <2>0. \A s \in SUBSET (1..N) : IsFiniteSet(s)
    <3>1. IsFiniteSet(1..N)
      BY FS_Interval
    <3> QED
      BY <3>1, FS_Subset
  <2>1. 0 \in S
    <3>1. h[{}] = 0 /\ g[{}] = 0
      <4>1. {} \in SUBSET (1..N)
        OBVIOUS
      <4> QED
        BY <1>3, <4>1 DEF SumsUp, Iterates
    <3> QED
      BY <2>0, <3>1, FS_EmptySet
  <2>2. ASSUME NEW n \in Nat, n \in S PROVE n + 1 \in S
    <3> SUFFICES ASSUME NEW s \in SUBSET (1..N), Cardinality(s) = n + 1 PROVE h[s] = g[s]
      OBVIOUS
    <3> DEFINE x == CHOOSE x \in s : TRUE
    <3>1. s # {} /\ x \in s
      BY <1>1, FS_EmptySet
    <3>2. Cardinality(s \ {x}) = n /\ s \ {x} \in SUBSET (1..N)
      <4>1. IsFiniteSet(s) /\ x \in s
        BY <2>0, <3>1
      <4>2. Cardinality(s \ {x}) = Cardinality(s) - 1
        BY <3>1, <4>1, FS_RemoveElement
      <4> QED
        BY <4>2
    <3>3. h[s \ {x}] = g[s \ {x}]
      BY <2>2, <3>2
    <3>4. h[s] = f[x] + h[s \ {x}] /\ g[s] = f[x] + g[s \ {x}]
      BY <1>2, <1>3, <3>1 DEF SumsUp
    <3> QED
      BY <3>3, <3>4
  <2>3. Nat \subseteq S
    BY <2>1, <2>2, SetInduction
  <2>4. 1..N \in SUBSET (1..N) /\ Cardinality(1..N) \in Nat
    BY <2>0, FS_CardinalityType
  <2> QED
    BY <2>3, <2>4
<1> QED
  BY <1>2, <1>3

-----------------------------------------------------------------------------
(* Searching a sequence.                                                   *)

LEMMA MinPlace ==
  ASSUME NEW n \in Nat, NEW s \in SUBSET (1..n), s # {}
  PROVE  Min(s) \in s /\ \A x \in s : Min(s) <= x
<1>1. IsWellFoundedOn(OpToRel(<, Nat), Nat)
  BY NatLessThanWellFounded
<1>2. PICK x \in s : \A y \in s : ~(<< y, x >> \in OpToRel(<, Nat))
  <2>1. s \subseteq Nat
    OBVIOUS
  <2> QED
    BY <1>1, <2>1, WFMin
<1>3. \A y \in s : x <= y
  <2>1. x \in Nat /\ \A y \in s : y \in Nat
    OBVIOUS
  <2>2. \A y \in s : ~(y < x)
    BY <1>2, <2>1 DEF OpToRel
  <2> QED
    BY <2>1, <2>2
<1> QED
  BY <1>3 DEF Min

\* SelectInSeq: the first place that is in s, 0 if there is none.
LEMMA FirstPlace ==
  ASSUME NEW n \in Nat, NEW s \in SUBSET (1..n),
         NEW i, i = IF s # {} THEN Min(s) ELSE 0
  PROVE  \/ i = 0 /\ s = {}
         \/ i \in s /\ i # 0 /\ \A m \in 1..(i - 1) : m \notin s
<1>1. CASE s # {}
  <2>1. i \in s /\ \A x \in s : i <= x
    BY <1>1, MinPlace
  <2>2. \A m \in 1..(i - 1) : m \in Int /\ ~(i <= m)
    BY <2>1
  <2> QED
    BY <2>1, <2>2
<1> QED
  BY <1>1

\* A finite set of numbers has a largest one.
LEMMA LargestOne ==
  ASSUME NEW T \in SUBSET Int, IsFiniteSet(T), T # {}
  PROVE  \E m \in T : \A x \in T : x <= m
<1> DEFINE HasLargest(U) == \E m \in U : \A x \in U : x <= m
           S == { n \in Nat : \A U \in SUBSET Int :
                    IsFiniteSet(U) /\ Cardinality(U) = n + 1 => HasLargest(U) }
<1>1. 0 \in S
  <2>1. ASSUME NEW U \in SUBSET Int, IsFiniteSet(U), Cardinality(U) = 0 + 1
        PROVE  HasLargest(U)
    <3>1. PICK x : U = {x}
      BY <2>1, FS_Singleton
    <3> QED
      BY <3>1
  <2> QED
    BY <2>1
<1>2. ASSUME NEW n \in Nat, n \in S PROVE n + 1 \in S
  <2>1. ASSUME NEW U \in SUBSET Int, IsFiniteSet(U), Cardinality(U) = (n + 1) + 1
        PROVE  HasLargest(U)
    <3>1. PICK x \in U : TRUE
      <4>1. U # {}
        BY <2>1, FS_EmptySet
      <4> QED
        BY <4>1
    <3>2. /\ U \ {x} \in SUBSET Int /\ IsFiniteSet(U \ {x})
          /\ Cardinality(U \ {x}) = n + 1
      BY <2>1, <3>1, FS_RemoveElement
    <3>3. PICK m \in U \ {x} : \A y \in U \ {x} : y <= m
      BY <1>2, <3>2
    <3>4. x \in Int /\ m \in Int /\ \A y \in U : y \in Int
      BY <3>3
    <3>5. CASE x <= m
      BY <3>3, <3>4, <3>5
    <3>6. CASE m <= x
      BY <3>3, <3>4, <3>6
    <3> QED
      BY <3>4, <3>5, <3>6
  <2> QED
    BY <2>1, n + 1 \in Nat
<1>3. Nat \subseteq S
  <2> HIDE DEF S
  <2> QED
    BY <1>1, <1>2, SetInduction
<1>4. Cardinality(T) - 1 \in Nat /\ (Cardinality(T) - 1) + 1 = Cardinality(T)
  BY FS_CardinalityType, FS_EmptySet
<1> QED
  BY <1>3, <1>4

\* A finite set of numbers can be put in order.
Ascends(list) == \A i, j \in DOMAIN list : i < j => list[i] < list[j]

LEMMA InOrder ==
  ASSUME NEW T \in SUBSET Int, IsFiniteSet(T)
  PROVE  \E list \in [1..Cardinality(T) -> T] : Ascends(list)
<1> DEFINE S == { n \in Nat : \A U \in SUBSET Int :
                    IsFiniteSet(U) /\ Cardinality(U) = n =>
                      \E list \in [1..n -> U] : Ascends(list) }
<1>1. 0 \in S
  <2>1. ASSUME NEW U \in SUBSET Int PROVE \E list \in [1..0 -> U] : Ascends(list)
    <3> DEFINE list == [i \in 1..0 |-> 0]
    <3>1. list \in [1..0 -> U] /\ Ascends(list)
      BY DEF Ascends
    <3> QED
      BY <3>1
  <2> QED
    BY <2>1
<1>2. ASSUME NEW n \in Nat, n \in S PROVE n + 1 \in S
  <2>1. ASSUME NEW U \in SUBSET Int, IsFiniteSet(U), Cardinality(U) = n + 1
        PROVE  \E list \in [1..(n + 1) -> U] : Ascends(list)
    <3>1. PICK m \in U : \A x \in U : x <= m
      <4>1. U # {}
        BY <2>1, FS_EmptySet
      <4> QED
        BY <2>1, <4>1, LargestOne
    <3>2. /\ U \ {m} \in SUBSET Int /\ IsFiniteSet(U \ {m})
          /\ Cardinality(U \ {m}) = n
      <4>1. IsFiniteSet(U \ {m}) /\ Cardinality(U \ {m}) = Cardinality(U) - 1
        BY <2>1, <3>1, FS_RemoveElement
      <4> QED
        BY <2>1, <4>1
    <3>3. PICK list \in [1..n -> U \ {m}] : Ascends(list)
      BY <1>2, <3>2
    <3> DEFINE longer == [i \in 1..(n + 1) |-> IF i = n + 1 THEN m ELSE list[i]]
    <3>4. \A i \in 1..(n + 1) : i \in 1..n \/ i = n + 1
      OBVIOUS
    <3>5. longer \in [1..(n + 1) -> U]
      BY <3>3, <3>4
    <3>6. ASSUME NEW i \in 1..(n + 1), NEW j \in 1..(n + 1), i < j
          PROVE  longer[i] < longer[j]
      <4>1. i \in 1..n /\ longer[i] = list[i] /\ list[i] \in U \ {m}
        BY <3>3, <3>6
      <4>2. CASE j = n + 1
        <5>1. longer[j] = m /\ list[i] <= m /\ list[i] # m /\ list[i] \in Int /\ m \in Int
          BY <3>1, <4>1, <4>2
        <5> QED
          BY <4>1, <5>1
      <4>3. CASE j \in 1..n
        <5>1. longer[j] = list[j] /\ DOMAIN list = 1..n
          BY <3>3, <4>3
        <5> QED
          BY <3>3, <3>6, <4>1, <4>3, <5>1 DEF Ascends
      <4> QED
        BY <3>4, <4>2, <4>3
    <3>7. Ascends(longer)
      BY <3>5, <3>6 DEF Ascends
    <3> QED
      BY <3>5, <3>7
  <2> QED
    BY <2>1, n + 1 \in Nat
<1>3. Nat \subseteq S
  <2> HIDE DEF S
  <2> QED
    BY <1>1, <1>2, SetInduction
<1> QED
  BY <1>3, FS_CardinalityType

\* What is in order has each number once, and what has as many places as the
\* set has numbers has each.
LEMMA EachOnce ==
  ASSUME NEW T \in SUBSET Int, IsFiniteSet(T),
         NEW list \in [1..Cardinality(T) -> T], Ascends(list)
  PROVE  /\ \A x \in T : \E i \in 1..Cardinality(T) : list[i] = x
         /\ \A i, j \in 1..Cardinality(T) : list[i] = list[j] => i = j
<1> DEFINE n == Cardinality(T)
<1>1. n \in Nat /\ IsFiniteSet(1..n) /\ Cardinality(1..n) = n
  BY FS_CardinalityType, FS_Interval
<1>2. ASSUME NEW i \in 1..n, NEW j \in 1..n, list[i] = list[j]
      PROVE  i = j
  <2>1. /\ i \in Int /\ j \in Int /\ list[i] \in Int /\ list[j] \in Int
        /\ DOMAIN list = 1..n
    <3>1. list[i] \in T /\ list[j] \in T /\ DOMAIN list = 1..n
      OBVIOUS
    <3>2. \A x \in T : x \in Int
      OBVIOUS
    <3>3. i \in Int /\ j \in Int
      BY <1>1
    <3> QED
      BY <3>1, <3>2, <3>3
  <2>2. ~(i < j)
    BY <1>2, <2>1 DEF Ascends
  <2>3. ~(j < i)
    BY <1>2, <2>1 DEF Ascends
  <2> QED
    BY <2>1, <2>2, <2>3
<1>3. list \in Injection(1..n, T)
  BY <1>2 DEF Injection, IsInjective
<1>4. list \in Surjection(1..n, T)
  BY <1>1, <1>3, FS_Injection
<1> QED
  BY <1>2, <1>4 DEF Surjection
=============================================================================
