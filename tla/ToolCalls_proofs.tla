---------------------------- MODULE ToolCalls_proofs ----------------------------
(***************************************************************************)
(* The lock discipline and the honesty of IB_NOT_CONNECTED, for any number *)
(* of concurrent calls of any tools.                                       *)
(***************************************************************************)
EXTENDS ToolCalls, TLAPS

USE ToolsAssumption, NoneAssumption

\* How far the requests of a call have got, and what its reply says about the
\* connection: nothing is held against a connection that is still there.
Progress ==
  \A c \in Calls :
    /\ pc[c] # "done" => step[c] <= 2
    /\ pc[c] = "idle" => step[c] = 0 /\ answer[c] = None
    /\ pc[c] = "waiting" => step[c] \in {0, 2}
    /\ pc[c] = "awaiting" => reply[c] # "none"
    /\ pc[c] = "downloading" => tool[c] = "get_flex_query"
    /\ reply[c] = "lost" => ~is_connected

IInv == TypeOK /\ Progress /\ LockHeldByItsUser /\ NotConnectedIsTrue

\* The codes a handler answers with are among the documented ones.
LEMMA AnswerCodes ==
  /\ \A t \in Tools : ImmediateAnswers(t) \subseteq Codes
  /\ \A t, k, r : AnswersTo(t, k, r) \subseteq Codes
BY DEF ImmediateAnswers, UncheckedAnswers, ArgumentErrors, LocalAnswers, AnswersTo, RaisedCodes,
       Codes

\* Only the loss of the connection is answered as such, and never as success.
LEMMA AnswerCauses ==
  ASSUME NEW t, NEW k, NEW r
  PROVE  /\ "IB_NOT_CONNECTED" \in AnswersTo(t, k, r) => r = "lost"
         /\ "ok" \in AnswersTo(t, k, r) => r \notin {"lost", "raised"}
BY DEF AnswersTo, RaisedCodes, Codes

-----------------------------------------------------------------------------
(* The queue of ib_lock.                                                   *)

InQueue(c, s) == \E i \in DOMAIN s : s[i] = c
EachOnce(s) == \A i, j \in DOMAIN s : s[i] = s[j] => i = j

\* A handler that queues is last.
LEMMA AppendFact ==
  ASSUME NEW s \in Seq(Calls), EachOnce(s), NEW c \in Calls, ~InQueue(c, s)
  PROVE  /\ Append(s, c) \in Seq(Calls)
         /\ EachOnce(Append(s, c))
         /\ \A d \in Calls : InQueue(d, Append(s, c)) <=> InQueue(d, s) \/ d = c
<1>1. /\ Append(s, c) \in Seq(Calls) /\ Len(Append(s, c)) = Len(s) + 1
      /\ \A i \in 1..Len(s) : Append(s, c)[i] = s[i]
      /\ Append(s, c)[Len(s) + 1] = c
      /\ DOMAIN s = 1..Len(s) /\ DOMAIN Append(s, c) = 1..(Len(s) + 1)
      /\ Len(s) \in Nat
  OBVIOUS
<1>2. EachOnce(Append(s, c))
  BY <1>1 DEF EachOnce, InQueue
<1>3. \A d \in Calls : InQueue(d, Append(s, c)) <=> InQueue(d, s) \/ d = c
  BY <1>1 DEF InQueue
<1> QED
  BY <1>1, <1>2, <1>3

\* The first in the queue is taken out of it.
LEMMA TailFact ==
  ASSUME NEW s \in Seq(Calls), EachOnce(s), s # << >>
  PROVE  /\ Tail(s) \in Seq(Calls)
         /\ EachOnce(Tail(s))
         /\ \A d \in Calls : InQueue(d, Tail(s)) <=> InQueue(d, s) /\ d # Head(s)
<1>1. /\ Tail(s) \in Seq(Calls) /\ Len(s) \in Nat \ {0} /\ Head(s) = s[1]
      /\ DOMAIN s = 1..Len(s) /\ DOMAIN Tail(s) = 1..(Len(s) - 1)
      /\ \A i \in 1..(Len(s) - 1) : Tail(s)[i] = s[i + 1]
  OBVIOUS
<1>2. EachOnce(Tail(s))
  BY <1>1 DEF EachOnce
<1>3. ASSUME NEW d \in Calls PROVE InQueue(d, Tail(s)) <=> InQueue(d, s) /\ d # Head(s)
  <2>1. ASSUME InQueue(d, Tail(s)) PROVE InQueue(d, s) /\ d # Head(s)
    BY <1>1, <2>1 DEF InQueue, EachOnce
  <2>2. ASSUME InQueue(d, s), d # Head(s) PROVE InQueue(d, Tail(s))
    <3>1. PICK i \in 1..Len(s) : s[i] = d
      BY <1>1, <2>2 DEF InQueue
    <3>2. i - 1 \in 1..(Len(s) - 1) /\ Tail(s)[i - 1] = d
      BY <1>1, <2>2, <3>1
    <3> QED
      BY <1>1, <3>2 DEF InQueue
  <2> QED
    BY <2>1, <2>2
<1> QED
  BY <1>1, <1>2, <1>3

\* A cancelled waiter leaves the queue, and nobody else does.
LEMMA RemoveAtFact ==
  ASSUME NEW s \in Seq(Calls), EachOnce(s), NEW k \in DOMAIN s
  PROVE  /\ RemoveAt(s, k) \in Seq(Calls)
         /\ EachOnce(RemoveAt(s, k))
         /\ \A d \in Calls : InQueue(d, RemoveAt(s, k)) <=> InQueue(d, s) /\ d # s[k]
<1> DEFINE r == RemoveAt(s, k)
<1>1. /\ Len(s) \in Nat \ {0} /\ DOMAIN s = 1..Len(s) /\ k \in 1..Len(s)
  OBVIOUS
<1>2. /\ SubSeq(s, 1, k - 1) \in Seq(Calls) /\ Len(SubSeq(s, 1, k - 1)) = k - 1
      /\ \A i \in 1..(k - 1) : SubSeq(s, 1, k - 1)[i] = s[i]
  BY <1>1
<1>3. /\ SubSeq(s, k + 1, Len(s)) \in Seq(Calls)
      /\ Len(SubSeq(s, k + 1, Len(s))) = Len(s) - k
      /\ \A i \in 1..(Len(s) - k) : SubSeq(s, k + 1, Len(s))[i] = s[k + i]
  BY <1>1
<1>4. /\ r \in Seq(Calls) /\ Len(r) = Len(s) - 1 /\ DOMAIN r = 1..(Len(s) - 1)
      /\ \A i \in 1..(Len(s) - 1) : r[i] = IF i < k THEN s[i] ELSE s[i + 1]
  <2> DEFINE p == SubSeq(s, 1, k - 1)
             q == SubSeq(s, k + 1, Len(s))
  <2>1. r = p \o q
    BY DEF RemoveAt
  <2> HIDE DEF p, q, r
  <2>2. /\ p \in Seq(Calls) /\ Len(p) = k - 1 /\ \A i \in 1..(k - 1) : p[i] = s[i]
        /\ q \in Seq(Calls) /\ Len(q) = Len(s) - k
        /\ \A i \in 1..(Len(s) - k) : q[i] = s[k + i]
    BY <1>2, <1>3 DEF p, q
  <2>3. r \in Seq(Calls) /\ Len(r) = Len(s) - 1 /\ DOMAIN r = 1..(Len(s) - 1)
    <3>1. r \in Seq(Calls) /\ Len(r) = Len(p) + Len(q)
      BY <2>1, <2>2
    <3>2. Len(r) = Len(s) - 1
      BY <1>1, <2>2, <3>1
    <3>3. DOMAIN r = 1..Len(r)
      BY <3>1
    <3> QED
      BY <3>1, <3>2, <3>3
  <2>4. ASSUME NEW i \in 1..(Len(s) - 1) PROVE r[i] = IF i < k THEN s[i] ELSE s[i + 1]
    <3>1. CASE i < k
      BY <1>1, <2>1, <2>2, <3>1
    <3>2. CASE ~(i < k)
      <4>1. i - (k - 1) \in 1..(Len(s) - k) /\ k + (i - (k - 1)) = i + 1
        BY <1>1, <3>2
      <4>2. r[i] = q[i - (k - 1)]
        BY <1>1, <2>1, <2>2, <3>2, <4>1
      <4> QED
        BY <2>2, <3>2, <4>1, <4>2
    <3> QED
      BY <3>1, <3>2
  <2> QED
    BY <2>3, <2>4
<1> HIDE DEF r
<1>5. EachOnce(r)
  BY <1>1, <1>4 DEF EachOnce
<1>6. ASSUME NEW d \in Calls PROVE InQueue(d, r) <=> InQueue(d, s) /\ d # s[k]
  <2>1. ASSUME InQueue(d, r) PROVE InQueue(d, s) /\ d # s[k]
    BY <1>1, <1>4, <2>1 DEF InQueue, EachOnce
  <2>2. ASSUME InQueue(d, s), d # s[k] PROVE InQueue(d, r)
    <3>1. PICK i \in 1..Len(s) : s[i] = d
      BY <1>1, <2>2 DEF InQueue
    <3>2. CASE i < k
      BY <1>1, <1>4, <3>1, <3>2 DEF InQueue
    <3>3. CASE i > k
      <4>1. i - 1 \in 1..(Len(s) - 1) /\ r[i - 1] = d
        BY <1>1, <1>4, <3>1, <3>3
      <4> QED
        BY <1>4, <4>1 DEF InQueue
    <3> QED
      BY <1>1, <2>2, <3>1, <3>2, <3>3
  <2> QED
    BY <2>1, <2>2
<1> QED
  BY <1>4, <1>5, <1>6 DEF r

-----------------------------------------------------------------------------
(* Steps of one handler.                                                   *)

\* A handler that goes to `new` keeps the discipline if it takes the lock
\* exactly to await, lets go of what it held, and is queued exactly to wait.
LEMMA LockStep ==
  ASSUME TypeOK, LockHeldByItsUser, NEW c \in Calls, NEW new \in PCs,
         pc' = [pc EXCEPT ![c] = new],
         owner' = IF new = "awaiting" THEN c ELSE IF owner = c THEN None ELSE owner,
         new = "awaiting" => owner \in {None, c},
         EachOnce(waiters'),
         \A d \in Calls :
           InQueue(d, waiters') <=> IF d = c THEN new = "waiting" ELSE InQueue(d, waiters)
  PROVE  LockHeldByItsUser'
<1>1. \A d \in Calls : pc'[d] = IF d = c THEN new ELSE pc[d]
  BY DEF TypeOK
<1>2. \A d \in Calls : owner' = d <=> pc'[d] = "awaiting"
  BY <1>1 DEF TypeOK, LockHeldByItsUser
<1>3. \A d \in Calls : pc'[d] = "waiting" <=> InQueue(d, waiters')
  BY <1>1 DEF LockHeldByItsUser, InQueue
<1> QED
  BY <1>2, <1>3 DEF LockHeldByItsUser, InQueue, EachOnce

\* The discipline says of the queue what the lemmas about queues need.
LEMMA QueueFacts ==
  ASSUME LockHeldByItsUser
  PROVE  EachOnce(waiters) /\ \A d \in Calls : pc[d] = "waiting" <=> InQueue(d, waiters)
BY DEF LockHeldByItsUser, EachOnce, InQueue

\* The same for a handler that neither is in the queue nor joins it.
LEMMA LockStepSameQueue ==
  ASSUME TypeOK, LockHeldByItsUser, NEW c \in Calls, NEW new \in PCs \ {"waiting"},
         pc[c] # "waiting", waiters' = waiters,
         pc' = [pc EXCEPT ![c] = new],
         owner' = IF new = "awaiting" THEN c ELSE IF owner = c THEN None ELSE owner,
         new = "awaiting" => owner \in {None, c}
  PROVE  LockHeldByItsUser'
<1>1. EachOnce(waiters') /\ ~InQueue(c, waiters)
  BY QueueFacts DEF EachOnce
<1>2. \A d \in Calls : InQueue(d, waiters') <=> InQueue(d, waiters)
  BY DEF InQueue
<1>3. \A d \in Calls :
        InQueue(d, waiters') <=> IF d = c THEN new = "waiting" ELSE InQueue(d, waiters)
  BY <1>1, <1>2
<1>4. new \in PCs
  OBVIOUS
<1> QED
  BY <1>1, <1>3, <1>4, LockStep

\* What each way to suspend or to end leaves of the types and of the progress.
Others(c) ==
  \A d \in Calls \ {c} :
    /\ pc'[d] = pc[d] /\ tool'[d] = tool[d] /\ step'[d] = step[d]
    /\ reply'[d] = reply[d] /\ answer'[d] = answer[d]

\* The calls that take no step keep their progress while the connection is
\* not restored.
LEMMA OthersProgress ==
  ASSUME TypeOK, Progress, NEW c \in Calls, Others(c), is_connected' => is_connected,
         /\ pc'[c] # "done" => step'[c] <= 2
         /\ pc'[c] = "idle" => step'[c] = 0 /\ answer'[c] = None
         /\ pc'[c] = "waiting" => step'[c] \in {0, 2}
         /\ pc'[c] = "awaiting" => reply'[c] # "none"
         /\ pc'[c] = "downloading" => tool'[c] = "get_flex_query"
         /\ reply'[c] = "lost" => ~is_connected'
  PROVE  Progress'
BY DEF TypeOK, Progress, Others

\* A call is invoked.
LEMMA InvokeStep ==
  ASSUME IInv, NEW c \in Calls, Invoke(c)
  PROVE  IInv'
<1> USE DEF IInv, TypeOK, PCs
<1>1. PICK t \in Tools :
        /\ tool' = [tool EXCEPT ![c] = t]
        /\ \/ /\ \E code \in ImmediateAnswers(t) : Answer(c, code)
              /\ UNCHANGED << owner, waiters, outstanding >>
           \/ /\ AsksGateway(t)
              /\ EnterSection(c)
           \/ /\ Downloads(t)
              /\ pc' = [pc EXCEPT ![c] = "downloading"]
              /\ UNCHANGED << reply, answer, owner, waiters, outstanding >>
  BY DEF Invoke
<1>2. pc[c] = "idle" /\ step[c] = 0 /\ answer[c] = None /\ UNCHANGED << connVars, step >>
  BY DEF Invoke, Progress
<1>3. owner # c /\ ~InQueue(c, waiters)
  BY <1>2, QueueFacts DEF LockHeldByItsUser
<1>4. CASE \E code \in ImmediateAnswers(t) : Answer(c, code)
           /\ UNCHANGED << owner, waiters, outstanding >>
  <2>1. PICK code \in ImmediateAnswers(t) : Answer(c, code)
    BY <1>4
  <2>2. code \in Codes
    BY <2>1, AnswerCodes
  <2>3. code = "IB_NOT_CONNECTED" => ~is_connected
    BY <2>1 DEF ImmediateAnswers, UncheckedAnswers, ArgumentErrors, LocalAnswers
  <2>4. TypeOK'
    BY <1>1, <1>2, <1>4, <2>1, <2>2 DEF Answer, connVars
  <2>5. Progress'
    BY <1>1, <1>2, <2>1, OthersProgress DEF Answer, connVars, Others
  <2>6. LockHeldByItsUser'
    BY <1>2, <1>3, <1>4, <2>1, LockStepSameQueue DEF Answer
  <2>7. NotConnectedIsTrue'
    BY <1>2, <2>1, <2>3 DEF Answer, NotConnectedIsTrue, connVars
  <2> QED
    BY <2>4, <2>5, <2>6, <2>7
<1>5. CASE EnterSection(c)
  <2>1. CASE owner = None /\ waiters = << >> /\ Await(c) /\ owner' = c /\ UNCHANGED waiters
    <3>1. TypeOK'
      BY <1>1, <1>2, <2>1 DEF Await, connVars
    <3>2. Progress'
      BY <1>1, <1>2, <2>1, OthersProgress DEF Await, connVars, Others
    <3>3. LockHeldByItsUser'
      BY <1>2, <1>3, <2>1, LockStepSameQueue DEF Await
    <3>4. NotConnectedIsTrue'
      BY <1>2, <2>1 DEF Await, NotConnectedIsTrue, connVars
    <3> QED
      BY <3>1, <3>2, <3>3, <3>4
  <2>2. CASE Queue(c) /\ UNCHANGED owner
    <3>1. waiters' = Append(waiters, c) /\ EachOnce(waiters')
          /\ \A d \in Calls : InQueue(d, waiters') <=> InQueue(d, waiters) \/ d = c
      BY <1>3, <2>2, QueueFacts, AppendFact DEF Queue
    <3>2. TypeOK'
      BY <1>1, <1>2, <2>2 DEF Queue, connVars
    <3>3. Progress'
      BY <1>1, <1>2, <2>2, OthersProgress DEF Queue, connVars, Others
    <3>4. LockHeldByItsUser'
      BY <1>3, <2>2, <3>1, LockStep DEF Queue
    <3>5. NotConnectedIsTrue'
      BY <1>2, <2>2 DEF Queue, NotConnectedIsTrue, connVars
    <3> QED
      BY <3>2, <3>3, <3>4, <3>5
  <2> QED
    BY <1>5, <2>1, <2>2 DEF EnterSection
<1>6. CASE /\ Downloads(t)
           /\ pc' = [pc EXCEPT ![c] = "downloading"]
           /\ UNCHANGED << reply, answer, owner, waiters, outstanding >>
  <2>1. t = "get_flex_query"
    BY <1>6 DEF Downloads
  <2>2. TypeOK'
    BY <1>1, <1>2, <1>6 DEF connVars
  <2>3. Progress'
    BY <1>1, <1>2, <1>6, <2>1, OthersProgress DEF connVars, Others, Progress
  <2>4. LockHeldByItsUser'
    BY <1>2, <1>3, <1>6, LockStepSameQueue
  <2>5. NotConnectedIsTrue'
    BY <1>2, <1>6 DEF NotConnectedIsTrue, connVars
  <2> QED
    BY <2>2, <2>3, <2>4, <2>5
<1> QED
  BY <1>1, <1>4, <1>5, <1>6

\* A waiter is handed the lock.
LEMMA AcquireStep ==
  ASSUME IInv, NEW c \in Calls, Acquire(c)
  PROVE  IInv'
<1> USE DEF IInv, TypeOK, PCs
<1>1. /\ owner = None /\ waiters # << >> /\ Head(waiters) = c /\ waiters' = Tail(waiters)
      /\ UNCHANGED << connVars, tool, step >>
  BY DEF Acquire
<1>2. /\ waiters' \in Seq(Calls) /\ EachOnce(waiters')
      /\ \A d \in Calls : InQueue(d, waiters') <=> InQueue(d, waiters) /\ d # c
  BY <1>1, QueueFacts, TailFact
<1>3. InQueue(c, waiters)
  BY <1>1 DEF InQueue
<1>4. pc[c] = "waiting" /\ step[c] \in {0, 2}
  BY <1>3, QueueFacts DEF Progress
<1>5. CASE is_connected /\ Await(c) /\ owner' = c
  <2>1. TypeOK'
    BY <1>1, <1>2, <1>5 DEF Await, connVars
  <2>2. Progress'
    BY <1>1, <1>4, <1>5, OthersProgress DEF Await, connVars, Others
  <2>3. LockHeldByItsUser'
    BY <1>1, <1>2, <1>5, LockStep DEF Await
  <2>4. NotConnectedIsTrue'
    BY <1>1, <1>5 DEF Await, NotConnectedIsTrue, connVars
  <2> QED
    BY <2>1, <2>2, <2>3, <2>4
<1>6. CASE ~is_connected /\ AcquireAndFail(c)
  <2>1. TypeOK'
    BY <1>1, <1>2, <1>6 DEF AcquireAndFail, Answer, connVars, Codes
  <2>2. Progress'
    BY <1>1, <1>4, <1>6, OthersProgress DEF AcquireAndFail, Answer, connVars, Others
  <2>3. LockHeldByItsUser'
    BY <1>1, <1>2, <1>6, LockStep DEF AcquireAndFail, Answer
  <2>4. NotConnectedIsTrue'
    BY <1>1, <1>6 DEF AcquireAndFail, Answer, NotConnectedIsTrue, connVars
  <2> QED
    BY <2>1, <2>2, <2>3, <2>4
<1> QED
  BY <1>5, <1>6 DEF Acquire

\* What a handler in a section ends with: an answer, and the lock released.
LEMMA EndOfSection ==
  ASSUME IInv, NEW c \in Calls, pc[c] = "awaiting",
         NEW code \in Codes, Answer(c, code), code = "IB_NOT_CONNECTED" => ~is_connected,
         owner' = None,
         step' \in [Calls -> 0..3], \A d \in Calls \ {c} : step'[d] = step[d],
         UNCHANGED << connVars, tool, waiters, outstanding >>
  PROVE  IInv'
<1> USE DEF IInv, TypeOK, PCs, Answer, connVars
<1>1. TypeOK'
  OBVIOUS
<1>2. Progress'
  BY OthersProgress DEF Others
<1>3. LockHeldByItsUser'
  <2>1. owner = c
    BY DEF LockHeldByItsUser
  <2> QED
    BY <2>1, LockStepSameQueue
<1>4. NotConnectedIsTrue'
  BY DEF NotConnectedIsTrue
<1> QED
  BY <1>1, <1>2, <1>3, <1>4

\* A handler sends its next request in the section it is in.
LEMMA NextRequest ==
  ASSUME IInv, NEW c \in Calls, pc[c] = "awaiting", Await(c), step'[c] <= 2,
         step' \in [Calls -> 0..3], \A d \in Calls \ {c} : step'[d] = step[d],
         UNCHANGED << connVars, tool, owner, waiters >>
  PROVE  IInv'
<1> USE DEF IInv, TypeOK, PCs, Await, connVars
<1>1. TypeOK'
  OBVIOUS
<1>2. Progress'
  BY OthersProgress DEF Others
<1>3. LockHeldByItsUser'
  <2>1. owner = c
    BY DEF LockHeldByItsUser
  <2> QED
    BY <2>1, LockStepSameQueue
<1>4. NotConnectedIsTrue'
  BY DEF NotConnectedIsTrue
<1> QED
  BY <1>1, <1>2, <1>3, <1>4

\* A handler goes on after the reply it awaited.
LEMMA ResumeStep ==
  ASSUME IInv, NEW c \in Calls, Resume(c)
  PROVE  IInv'
<1> USE DEF IInv, TypeOK
<1> DEFINE t == tool[c]
           k == step[c] + 1
           r == reply[c]
<1>1. /\ pc[c] = "awaiting" /\ r # "pending" /\ step[c] \in 0..2 /\ k \in 1..3
      /\ step' = [step EXCEPT ![c] = IF r \in {"lost", "raised"} THEN @ ELSE k]
      /\ UNCHANGED << connVars, tool >>
  BY DEF Resume, Progress
<1>2. step' \in [Calls -> 0..3] /\ \A d \in Calls \ {c} : step'[d] = step[d]
  BY <1>1
<1>3. ASSUME NEW code \in AnswersTo(t, k, r), Answer(c, code), owner' = None,
             UNCHANGED << waiters, outstanding >>
      PROVE  IInv'
  <2>1. code \in Codes
    BY <1>3, AnswerCodes
  <2>2. code = "IB_NOT_CONNECTED" => r = "lost"
    <3>1. "IB_NOT_CONNECTED" \in AnswersTo(t, k, r) => r = "lost"
      BY AnswerCauses
    <3> QED
      BY <1>3, <3>1
  <2>3. code = "IB_NOT_CONNECTED" => ~is_connected
    BY <2>2 DEF Progress
  <2> QED
    BY <1>1, <1>2, <1>3, <2>1, <2>3, EndOfSection
<1>4. CASE ContinuesSection(t, k, r) /\ Await(c) /\ UNCHANGED << owner, waiters >>
  <2>1. step'[c] <= 2
    BY <1>1, <1>4 DEF ContinuesSection
  <2> QED
    BY <1>1, <1>2, <1>4, <2>1, NextRequest
<1>5. CASE OpensSection(t, k, r) /\ Await(c) /\ UNCHANGED << owner, waiters >>
  <2>1. step'[c] <= 2
    BY <1>1, <1>5 DEF OpensSection
  <2> QED
    BY <1>1, <1>2, <1>5, <2>1, NextRequest
<1>6. CASE OpensSection(t, k, r) /\ Queue(c) /\ owner' = None
  <2>1. step'[c] = 2
    BY <1>1, <1>6 DEF OpensSection
  <2>2. owner = c /\ ~InQueue(c, waiters)
    BY <1>1, QueueFacts DEF LockHeldByItsUser
  <2>3. /\ waiters' = Append(waiters, c) /\ EachOnce(waiters')
        /\ \A d \in Calls : InQueue(d, waiters') <=> InQueue(d, waiters) \/ d = c
    BY <1>6, <2>2, QueueFacts, AppendFact DEF Queue
  <2>4. TypeOK'
    BY <1>1, <1>2, <1>6, <2>3 DEF Queue, connVars, PCs
  <2>5. Progress'
    BY <1>1, <1>2, <1>6, <2>1, OthersProgress DEF Queue, connVars, Others, PCs
  <2>6. LockHeldByItsUser'
    BY <1>6, <2>2, <2>3, LockStep DEF Queue, PCs
  <2>7. NotConnectedIsTrue'
    BY <1>1, <1>6 DEF Queue, NotConnectedIsTrue, connVars
  <2> QED
    BY <2>4, <2>5, <2>6, <2>7
<1>7. ASSUME ~is_connected, Answer(c, "IB_NOT_CONNECTED"), owner' = None,
             UNCHANGED << waiters, outstanding >>
      PROVE  IInv'
  <2>1. "IB_NOT_CONNECTED" \in Codes
    BY DEF Codes
  <2> QED
    BY <1>1, <1>2, <1>7, <2>1, EndOfSection
<1> QED
  BY <1>3, <1>4, <1>5, <1>6, <1>7 DEF Resume

\* A Flex download ends.
LEMMA DownloadEndsStep ==
  ASSUME IInv, NEW c \in Calls, DownloadEnds(c)
  PROVE  IInv'
<1> USE DEF IInv, TypeOK, PCs, Answer, connVars
<1>1. PICK code \in {"ok", "IB_FLEX_ERROR"} : Answer(c, code)
  BY DEF DownloadEnds
<1>2. /\ pc[c] = "downloading"
      /\ UNCHANGED << connVars, tool, step, owner, waiters, outstanding >>
  BY DEF DownloadEnds
<1>3. TypeOK'
  BY <1>1, <1>2 DEF Codes
<1>4. Progress'
  BY <1>1, <1>2, OthersProgress DEF Others
<1>5. LockHeldByItsUser'
  <2>1. owner # c
    BY <1>2 DEF LockHeldByItsUser
  <2> QED
    BY <1>1, <1>2, <2>1, LockStepSameQueue
<1>6. NotConnectedIsTrue'
  BY <1>1, <1>2 DEF NotConnectedIsTrue
<1> QED
  BY <1>3, <1>4, <1>5, <1>6

\* A call is cancelled, while it waits, awaits or downloads.
LEMMA CancelStep ==
  ASSUME IInv, NEW c \in Calls, Cancel(c)
  PROVE  IInv'
<1> USE DEF IInv, TypeOK, PCs, Answer, connVars
<1>1. /\ pc[c] \in {"waiting", "awaiting", "downloading"} /\ Answer(c, "cancelled")
      /\ owner' = IF owner = c THEN None ELSE owner
      /\ LeaveQueue(c)
      /\ UNCHANGED << connVars, tool, step, outstanding >>
  BY DEF Cancel
<1>2. waiters' \in Seq(Calls) /\ LockHeldByItsUser'
  <2>1. CASE pc[c] = "waiting"
    <3>1. PICK i \in DOMAIN waiters : waiters[i] = c /\ waiters' = RemoveAt(waiters, i)
      BY <1>1, <2>1 DEF LeaveQueue
    <3>2. /\ waiters' \in Seq(Calls) /\ EachOnce(waiters')
          /\ \A d \in Calls : InQueue(d, waiters') <=> InQueue(d, waiters) /\ d # c
      BY <3>1, QueueFacts, RemoveAtFact
    <3> QED
      BY <1>1, <3>2, LockStep
  <2>2. CASE pc[c] # "waiting"
    BY <1>1, <2>2, LockStepSameQueue DEF LeaveQueue
  <2> QED
    BY <2>1, <2>2
<1>3. TypeOK'
  BY <1>1, <1>2
<1>4. Progress'
  BY <1>1, OthersProgress DEF Others
<1>5. NotConnectedIsTrue'
  BY <1>1 DEF NotConnectedIsTrue
<1> QED
  BY <1>2, <1>3, <1>4, <1>5

\* A client takes its answer.
LEMMA CollectStep ==
  ASSUME IInv, NEW c \in Calls, Collect(c)
  PROVE  IInv'
<1> USE DEF IInv, TypeOK, PCs, Collect, connVars
<1>1. TypeOK'
  OBVIOUS
<1>2. Progress'
  <2>1. reply[c] = "lost" => ~is_connected
    BY DEF Progress
  <2> QED
    BY <2>1, OthersProgress DEF Others
<1>3. LockHeldByItsUser'
  <2>1. owner # c
    BY DEF LockHeldByItsUser
  <2> QED
    BY <2>1, LockStepSameQueue
<1>4. NotConnectedIsTrue'
  BY DEF NotConnectedIsTrue, Codes
<1> QED
  BY <1>1, <1>2, <1>3, <1>4

\* The steps of the gateway, the connection and the environment.
LEMMA OutsideStep ==
  ASSUME IInv,
         (\E c \in Calls : GatewayReplies(c)) \/ Lose \/ EditEnvironment \/ UNCHANGED vars
  PROVE  IInv'
<1> USE DEF IInv, TypeOK, PCs, connVars
<1> DEFINE Frame ==
             /\ UNCHANGED << has_account, pc, tool, step, answer, owner, waiters >>
             /\ is_connected' = is_connected \/ is_connected' = FALSE
             /\ outstanding' \subseteq Calls
<1>1. Frame
  <2>1. ASSUME NEW c \in Calls, GatewayReplies(c) PROVE Frame
    BY <2>1 DEF GatewayReplies
  <2>2. ASSUME Lose PROVE Frame
    BY <2>2 DEF Lose
  <2>3. ASSUME EditEnvironment PROVE Frame
    BY <2>3 DEF EditEnvironment
  <2>4. ASSUME UNCHANGED vars PROVE Frame
    BY <2>4 DEF vars
  <2> QED
    BY <2>1, <2>2, <2>3, <2>4
<1>2. env_valid' \in BOOLEAN
  <2>1. env_valid' = env_valid \/ env_valid' = ~env_valid
    BY DEF GatewayReplies, Lose, EditEnvironment, vars
  <2> QED
    BY <2>1
<1>3. /\ reply' \in [Calls -> {"none", "pending", "data", "empty", "raised", "lost"}]
      /\ \A c \in Calls :
           \/ reply'[c] = reply[c]
           \/ reply'[c] \in {"data", "empty", "raised"}
           \/ reply'[c] = "lost" /\ ~is_connected'
  BY DEF GatewayReplies, Lose, EditEnvironment, vars
<1>4. TypeOK'
  BY <1>1, <1>2, <1>3
<1>5. Progress'
  BY <1>1, <1>3 DEF Progress
<1>6. LockHeldByItsUser'
  BY <1>1 DEF LockHeldByItsUser
<1>7. NotConnectedIsTrue'
  BY <1>1 DEF NotConnectedIsTrue
<1> QED
  BY <1>4, <1>5, <1>6, <1>7

-----------------------------------------------------------------------------

\* The inductive invariant holds in every behaviour.
LEMMA Inductive == Spec => []IInv
<1>1. Init => IInv
  BY DEF Init, IInv, TypeOK, PCs, Progress, LockHeldByItsUser, NotConnectedIsTrue, Codes
<1>2. IInv /\ [Next]_vars => IInv'
  BY InvokeStep, AcquireStep, ResumeStep, DownloadEndsStep, CancelStep, CollectStep,
     OutsideStep DEF Next, Handler, Client
<1> QED
  BY <1>1, <1>2, PTL DEF Spec

\* Every variable keeps its type: every answer is one of the documented codes
\* and no call makes more than three requests (tools/*.py, errors.py).
THEOREM TypeCorrect == Spec => []TypeOK
BY Inductive, PTL DEF IInv

\* Whatever is answered, lost or cancelled, the lock is held by exactly the
\* handler in a section and queued for by exactly those that wait (every
\* async with ib_lock in tools/*.py).
THEOREM LockDiscipline == Spec => []LockHeldByItsUser
BY Inductive, PTL DEF IInv

\* However many calls are made, at most one awaits the gateway.
THEOREM Serialised == Spec => []OneRequestAtATime
<1>1. LockHeldByItsUser => OneRequestAtATime
  BY DEF LockHeldByItsUser, OneRequestAtATime
<1> QED
  BY <1>1, LockDiscipline, PTL

\* IB_NOT_CONNECTED is never said of a connection that is there.
THEOREM HonestAboutTheConnection == Spec => []NotConnectedIsTrue
BY Inductive, PTL DEF IInv

SuccessIsLive ==
  \A c \in Calls :
    answer[c] = None /\ answer'[c] = "ok" /\ tool'[c] \in GatewayTools
      => is_connected \/ reply[c] \in {"data", "empty"}

\* A success of a gateway tool is grounded in the connection or in a reply.
LEMMA SuccessStep ==
  ASSUME IInv, Next
  PROVE  SuccessIsLive
<1> SUFFICES ASSUME NEW c \in Calls, answer[c] = None, answer'[c] = "ok",
                    tool'[c] \in GatewayTools
             PROVE  is_connected \/ reply[c] \in {"data", "empty"}
  BY DEF SuccessIsLive
<1> USE DEF IInv, TypeOK
<1>0. answer'[c] # answer[c]
  BY DEF Codes
<1>1. ASSUME NEW d \in Calls, Invoke(d) PROVE is_connected
  <2>1. PICK t \in Tools :
          /\ tool' = [tool EXCEPT ![d] = t]
          /\ \/ \E code \in ImmediateAnswers(t) : Answer(d, code)
             \/ EnterSection(d)
             \/ UNCHANGED answer
    BY <1>1 DEF Invoke
  <2>2. PICK code \in ImmediateAnswers(t) : Answer(d, code)
    BY <1>0, <2>1 DEF EnterSection, Await, Queue
  <2>3. d = c /\ code = "ok"
    BY <1>0, <2>2 DEF Answer
  <2>4. t \in GatewayTools
    BY <2>1, <2>3
  <2> QED
    BY <2>2, <2>3, <2>4 DEF ImmediateAnswers
<1>2. ASSUME NEW d \in Calls, Acquire(d) PROVE FALSE
  <2>1. UNCHANGED answer \/ Answer(d, "IB_NOT_CONNECTED")
    BY <1>2 DEF Acquire, Await, AcquireAndFail
  <2> QED
    BY <1>0, <2>1 DEF Answer
<1>3. ASSUME NEW d \in Calls, Resume(d) PROVE reply[c] \in {"data", "empty"}
  <2>1. \/ \E code \in AnswersTo(tool[d], step[d] + 1, reply[d]) : Answer(d, code)
        \/ UNCHANGED answer
        \/ Answer(d, "IB_NOT_CONNECTED")
    BY <1>3 DEF Resume, Await, Queue
  <2>2. PICK code \in AnswersTo(tool[d], step[d] + 1, reply[d]) : Answer(d, code)
    BY <1>0, <2>1 DEF Answer
  <2>3. d = c /\ code = "ok"
    BY <1>0, <2>2 DEF Answer
  <2>4. reply[c] \notin {"lost", "raised"}
    <3>1. "ok" \in AnswersTo(tool[d], step[d] + 1, reply[d]) => reply[d] \notin {"lost", "raised"}
      BY AnswerCauses
    <3> QED
      BY <2>2, <2>3, <3>1
  <2>5. reply[c] \notin {"none", "pending"}
    BY <1>3, <2>3 DEF Resume, Progress
  <2> QED
    BY <2>4, <2>5
<1>4. ASSUME NEW d \in Calls, DownloadEnds(d) PROVE FALSE
  <2>1. d = c /\ tool'[c] = "get_flex_query"
    BY <1>0, <1>4 DEF DownloadEnds, Answer, Progress
  <2> QED
    BY <2>1 DEF GatewayTools
<1>5. ASSUME NEW d \in Calls, Cancel(d) \/ Collect(d) PROVE FALSE
  BY <1>0, <1>5, NoneAssumption DEF Cancel, Answer, Collect, Codes
<1>6. ASSUME (\E d \in Calls : GatewayReplies(d)) \/ Lose \/ EditEnvironment PROVE FALSE
  BY <1>0, <1>6 DEF GatewayReplies, Lose, EditEnvironment
<1> QED
  BY <1>1, <1>2, <1>3, <1>4, <1>5, <1>6 DEF Next, Handler, Client

\* No tool that needs the gateway succeeds on a lost connection, unless on a
\* reply that was there before (is_connected is checked first in every tool).
THEOREM NoStaleSuccess == Spec => NoSuccessAfterLoss
<1>1. IInv /\ [Next]_vars => [SuccessIsLive]_vars
  BY SuccessStep
<1> QED
  BY <1>1, Inductive, PTL DEF Spec, NoSuccessAfterLoss, SuccessIsLive

=============================================================================
