---------------------------- MODULE MatchingProofs ----------------------------
(***************************************************************************)
(* Proofs about Matching for any monitors, modes, pages, budget and         *)
(* answers of the language model: what the loop over the requests computes. *)
(***************************************************************************)
EXTENDS Matching, InductionLemmas

(* Requests of monitors and items, with texts from C. *)
RequestOf(C) == [item : Item, content : C, monitor : Monitor]

(* What the loop holds of requests from R. *)
Outcome(R) == [calls : Nat, matched : SUBSET R, problems : SUBSET R]

Nothing == [calls |-> 0, matched |-> {}, problems |-> {}]

-------------------------------------------------------------------------------
LEMMA NothingType == \A R : Nothing \in Outcome(R)
BY DEF Nothing, Outcome

(* What one request makes of the outcome so far, field by field. *)
Serves(acc, r, answers, next) ==
  /\ next.calls = IF Semantic(r) /\ acc.calls < MaxCalls THEN acc.calls + 1 ELSE acc.calls
  /\ next.matched =
       IF \/ Semantic(r) /\ acc.calls < MaxCalls /\ Verdict(r, answers) = "yes"
          \/ Mode[r.monitor] = "keyword" /\ KeywordFound(r)
       THEN acc.matched \cup {r} ELSE acc.matched
  /\ next.problems =
       IF Semantic(r) /\ (~(acc.calls < MaxCalls) \/ Verdict(r, answers) = "error")
       THEN acc.problems \cup {r} ELSE acc.problems

LEMMA OneRequest ==
  ASSUME NEW R, NEW acc \in Outcome(R), NEW r \in R, NEW answers
  PROVE  /\ EvaluateRequest(acc, r, answers) \in Outcome(R)
         /\ Serves(acc, r, answers, EvaluateRequest(acc, r, answers))
<1> USE DEF Serves
<1> DEFINE next == EvaluateRequest(acc, r, answers)
<1>1. acc = [calls |-> acc.calls, matched |-> acc.matched, problems |-> acc.problems]
      /\ acc.calls \in Nat /\ acc.matched \in SUBSET R /\ acc.problems \in SUBSET R
  BY DEF Outcome
<1>2. \A M \in SUBSET R, P \in SUBSET R, c \in Nat :
        [calls |-> c, matched |-> M, problems |-> P] \in Outcome(R)
  BY DEF Outcome
<1>3. MaxCalls \in Nat
  BY MatchingAssumption
<1>4. Semantic(r) => ~(Mode[r.monitor] = "keyword" /\ KeywordFound(r))
  BY DEF Semantic
<1>5. CASE Semantic(r)
  <2>1. next = EvaluateSemantic(acc, r, answers)
    BY <1>4, <1>5 DEF EvaluateRequest
  <2>2. CASE acc.calls >= MaxCalls
    <3>1. ~(acc.calls < MaxCalls)
      BY <1>1, <1>3, <2>2
    <3>2. next = [acc EXCEPT !.problems = @ \cup {r}]
      BY <2>1, <2>2, <3>1 DEF EvaluateSemantic
    <3>3. next = [calls |-> acc.calls, matched |-> acc.matched, problems |-> acc.problems \cup {r}]
      BY <1>1, <3>2
    <3>4. QED
      BY <1>1, <1>2, <1>4, <1>5, <3>1, <3>3
  <2>3. CASE acc.calls < MaxCalls /\ Verdict(r, answers) = "error"
    <3>0. ~(acc.calls >= MaxCalls)
      BY <1>1, <1>3, <2>3
    <3>1. next = [acc EXCEPT !.calls = @ + 1, !.problems = @ \cup {r}]
      BY <2>1, <2>3, <3>0 DEF EvaluateSemantic
    <3>2. next = [calls |-> acc.calls + 1, matched |-> acc.matched, problems |-> acc.problems \cup {r}]
      BY <1>1, <3>1
    <3>3. QED
      BY <1>1, <1>2, <1>4, <1>5, <2>3, <3>2
  <2>4. CASE acc.calls < MaxCalls /\ Verdict(r, answers) # "error"
    <3>0. ~(acc.calls >= MaxCalls)
      BY <1>1, <1>3, <2>4
    <3> DEFINE M == IF Verdict(r, answers) = "yes" THEN acc.matched \cup {r} ELSE acc.matched
    <3>1. next = [acc EXCEPT !.calls = @ + 1,
                             !.matched = IF Verdict(r, answers) = "yes" THEN @ \cup {r} ELSE @]
      BY <2>1, <2>4, <3>0 DEF EvaluateSemantic
    <3>2. next = [calls |-> acc.calls + 1, matched |-> M, problems |-> acc.problems]
      BY <1>1, <3>1
    <3>3. M \in SUBSET R
      BY <1>1
    <3>4. M = IF (Semantic(r) /\ acc.calls < MaxCalls /\ Verdict(r, answers) = "yes")
                   \/ (Mode[r.monitor] = "keyword" /\ KeywordFound(r))
              THEN acc.matched \cup {r} ELSE acc.matched
      BY <1>4, <1>5, <2>4
    <3>5. acc.calls + 1 \in Nat
      BY <1>1
    <3> HIDE DEF M
    <3>6. next \in Outcome(R)
      BY <1>1, <1>2, <3>2, <3>3, <3>5
    <3>7. next.calls = acc.calls + 1 /\ next.matched = M /\ next.problems = acc.problems
      BY <3>2
    <3>8. QED
      BY <1>5, <2>4, <3>4, <3>6, <3>7
  <2>5. QED
    BY <1>1, <1>3, <2>2, <2>3, <2>4
<1>6. CASE ~Semantic(r) /\ Mode[r.monitor] = "keyword" /\ KeywordFound(r)
  <2>1. next = [acc EXCEPT !.matched = @ \cup {r}]
    BY <1>6 DEF EvaluateRequest
  <2>2. next = [calls |-> acc.calls, matched |-> acc.matched \cup {r}, problems |-> acc.problems]
    BY <1>1, <2>1
  <2>3. QED
    BY <1>1, <1>2, <1>6, <2>2
<1>7. CASE ~Semantic(r) /\ ~(Mode[r.monitor] = "keyword" /\ KeywordFound(r))
  <2>1. next = acc
    BY <1>7 DEF EvaluateRequest
  <2>2. QED
    BY <1>7, <2>1
<1>8. QED
  BY <1>5, <1>6, <1>7

(* The loop runs: each value comes from the one before. *)
After(requests, answers) ==
  CHOOSE f : f = [k \in 0..Len(requests) |->
                    IF k = 0 THEN Nothing ELSE EvaluateRequest(f[k - 1], requests[k], answers)]

LEMMA EvaluateIsAfter ==
  ASSUME NEW requests, NEW answers
  PROVE  Evaluate(requests, answers) = After(requests, answers)[Len(requests)]
BY Zenon DEF Evaluate, After, Nothing

LEMMA AfterRuns ==
  ASSUME NEW R, NEW requests \in Seq(R), NEW answers
  PROVE  /\ After(requests, answers)[0] = Nothing
         /\ \A k \in 1..Len(requests) :
              After(requests, answers)[k] =
                EvaluateRequest(After(requests, answers)[k - 1], requests[k], answers)
         /\ \A k \in 0..Len(requests) : After(requests, answers)[k] \in Outcome(R)
<1> DEFINE n == Len(requests)
           step == [k \in 1..n |->
                      [acc \in Outcome(R) |-> EvaluateRequest(acc, requests[k], answers)]]
<1>1. n \in Nat /\ \A k \in 1..n : requests[k] \in R
  OBVIOUS
<1>2. step \in [1..n -> [Outcome(R) -> Outcome(R)]]
  BY <1>1, OneRequest
<1>3. PICK h \in [0..n -> Outcome(R)] : h[0] = Nothing /\ \A k \in 1..n : h[k] = step[k][h[k - 1]]
  <2> HIDE DEF step, n
  <2>1. Nothing \in Outcome(R)
    BY NothingType
  <2>2. QED
    <3> DEFINE A == Outcome(R)
               a0 == Nothing
    <3>1. a0 \in A /\ step \in [1..n -> [A -> A]] /\ n \in Nat
      BY <1>1, <1>2, <2>1
    <3> HIDE DEF A, a0
    <3>2. \E h \in [0..n -> A] : h[0] = a0 /\ \A k \in 1..n : h[k] = step[k][h[k - 1]]
      BY <3>1, LoopExists, SMTT(60)
    <3>3. QED
      BY <3>2 DEF A, a0
<1>4. ASSUME NEW k \in 1..n PROVE h[k] = EvaluateRequest(h[k - 1], requests[k], answers)
  <2>1. k - 1 \in 0..n
    BY <1>1
  <2>2. h[k - 1] \in Outcome(R)
    BY <2>1
  <2>3. step[k][h[k - 1]] = EvaluateRequest(h[k - 1], requests[k], answers)
    BY <2>2
  <2>4. QED
    BY <1>3, <2>3
<1>5. h = [k \in 0..n |-> IF k = 0 THEN Nothing ELSE EvaluateRequest(h[k - 1], requests[k], answers)]
  <2> HIDE DEF step
  <2>1. \A k \in 0..n : k = 0 \/ k \in 1..n
    BY <1>1
  <2> HIDE DEF n
  <2>2. \A k \in 0..n : h[k] = IF k = 0 THEN Nothing ELSE EvaluateRequest(h[k - 1], requests[k], answers)
    BY <1>3, <1>4, <2>1
  <2>3. QED
    BY <2>2
<1> DEFINE f == After(requests, answers)
<1>6. f = [k \in 0..n |-> IF k = 0 THEN Nothing ELSE EvaluateRequest(f[k - 1], requests[k], answers)]
  BY <1>5, Zenon DEF After
<1> HIDE DEF f, step
<1>7. f[0] = Nothing /\ \A k \in 1..n : f[k] = EvaluateRequest(f[k - 1], requests[k], answers)
  BY <1>1, <1>6
<1>8. \A k \in 0..n : f[k] \in Outcome(R)
  <2> DEFINE Typed == {k \in Nat : k \in 0..n => f[k] \in Outcome(R)}
  <2>1. 0 \in Typed
    BY <1>7, NothingType
  <2>2. ASSUME NEW k \in Nat, k \in Typed PROVE k + 1 \in Typed
    <3> SUFFICES ASSUME k + 1 \in 0..n PROVE f[k + 1] \in Outcome(R)
      OBVIOUS
    <3>1. k + 1 \in 1..n /\ k \in 0..n /\ (k + 1) - 1 = k
      BY <1>1
    <3> HIDE DEF n
    <3>2. f[k + 1] = EvaluateRequest(f[k], requests[k + 1], answers)
      BY <1>7, <3>1
    <3>3. f[k] \in Outcome(R) /\ requests[k + 1] \in R
      BY <1>1, <2>2, <3>1
    <3>4. QED
      BY <3>2, <3>3, OneRequest
  <2>3. Nat \subseteq Typed
    <3> HIDE DEF Typed
    <3> QED
      BY <2>1, <2>2, NatSetInduction
  <2>4. QED
    BY <1>1, <2>3
<1>9. QED
  BY <1>7, <1>8 DEF f

-------------------------------------------------------------------------------
(* Semantic requests among the first k. *)
Spent(requests, k) == Cardinality({j \in 1..k : Semantic(requests[j])})

(* The places, among the first k, of requests that match and that are reported. *)
MatchedAt(requests, answers, k) ==
  {j \in 1..k : \/ j \in Asked(requests) /\ Verdict(requests[j], answers) = "yes"
                \/ Mode[requests[j].monitor] = "keyword" /\ KeywordFound(requests[j])}
ReportedAt(requests, answers, k) ==
  {j \in 1..k : /\ Semantic(requests[j])
                /\ j \notin Asked(requests) \/ Verdict(requests[j], answers) = "error"}

LEMMA SpentStep ==
  ASSUME NEW requests, NEW k \in Nat
  PROVE  /\ Spent(requests, 0) = 0 /\ Spent(requests, k) \in Nat
         /\ Spent(requests, k + 1) =
              IF Semantic(requests[k + 1]) THEN Spent(requests, k) + 1 ELSE Spent(requests, k)
<1> DEFINE S(m) == {j \in 1..m : Semantic(requests[j])}
<1>1. S(0) = {}
  OBVIOUS
<1>2. IsFiniteSet(S(k))
  BY IntervalSize, FS_Subset
<1>3. S(k + 1) = IF Semantic(requests[k + 1]) THEN S(k) \cup {k + 1} ELSE S(k)
  <2>1. 1..(k + 1) = 1..k \cup {k + 1}
    OBVIOUS
  <2>2. QED
    BY <2>1
<1>4. k + 1 \notin S(k)
  OBVIOUS
<1>5. /\ Spent(requests, 0) = Cardinality(S(0)) /\ Spent(requests, k) = Cardinality(S(k))
      /\ Spent(requests, k + 1) = Cardinality(S(k + 1))
  BY DEF Spent
<1> HIDE DEF S
<1>6. Cardinality(S(k)) \in Nat /\ Cardinality(S(k) \cup {k + 1}) = Cardinality(S(k)) + 1
  BY <1>2, <1>4, FS_CardinalityType, FS_AddElement
<1>7. QED
  BY <1>1, <1>3, <1>5, <1>6, FS_EmptySet

(* After k requests the budget is spent on the first semantic ones among them. *)
LEMMA LoopInvariant ==
  ASSUME NEW R, NEW requests \in Seq(R), NEW answers, NEW n \in 0..Len(requests)
  PROVE  LET got == After(requests, answers)[n]
         IN /\ got.calls = IF Spent(requests, n) < MaxCalls THEN Spent(requests, n) ELSE MaxCalls
            /\ got.matched = {requests[j] : j \in MatchedAt(requests, answers, n)}
            /\ got.problems = {requests[j] : j \in ReportedAt(requests, answers, n)}
<1> DEFINE got(k) == After(requests, answers)[k]
           M(k) == MatchedAt(requests, answers, k)
           P(k) == ReportedAt(requests, answers, k)
           Holds(k) ==
             /\ got(k).calls = IF Spent(requests, k) < MaxCalls THEN Spent(requests, k) ELSE MaxCalls
             /\ got(k).matched = {requests[j] : j \in M(k)}
             /\ got(k).problems = {requests[j] : j \in P(k)}
           Good == {k \in Nat : k <= Len(requests) => Holds(k)}
<1>1. MaxCalls \in Nat /\ Len(requests) \in Nat
  BY MatchingAssumption
<1>2. 0 \in Good
  <2>1. got(0) = Nothing
    BY AfterRuns
  <2>2. M(0) = {} /\ P(0) = {}
    BY DEF MatchedAt, ReportedAt
  <2>3. Spent(requests, 0) = 0
    BY SpentStep
  <2> HIDE DEF got, M, P
  <2>4. Holds(0)
    BY <1>1, <2>1, <2>2, <2>3 DEF Nothing
  <2>5. QED
    BY <2>4
<1>3. ASSUME NEW k \in Nat, k \in Good PROVE k + 1 \in Good
  <2> SUFFICES ASSUME k + 1 <= Len(requests) PROVE Holds(k + 1)
    OBVIOUS
  <2> DEFINE r == requests[k + 1]
             spent == Spent(requests, k)
             found == Mode[r.monitor] = "keyword" /\ KeywordFound(r)
  <2>1. Holds(k)
    BY <1>1, <1>3
  <2>2. k + 1 \in 1..Len(requests) /\ k \in 0..Len(requests) /\ (k + 1) - 1 = k /\ r \in R
    BY <1>1
  <2>3. got(k + 1) = EvaluateRequest(got(k), r, answers) /\ got(k) \in Outcome(R)
    BY <2>2, AfterRuns
  <2>4. /\ got(k + 1).calls = IF Semantic(r) /\ got(k).calls < MaxCalls
                              THEN got(k).calls + 1 ELSE got(k).calls
        /\ got(k + 1).matched =
             IF (Semantic(r) /\ got(k).calls < MaxCalls /\ Verdict(r, answers) = "yes") \/ found
             THEN got(k).matched \cup {r} ELSE got(k).matched
        /\ got(k + 1).problems =
             IF Semantic(r) /\ (~(got(k).calls < MaxCalls) \/ Verdict(r, answers) = "error")
             THEN got(k).problems \cup {r} ELSE got(k).problems
    <3>1. Serves(got(k), r, answers, got(k + 1))
      <4> HIDE DEF got, r
      <4> QED
        BY <2>2, <2>3, OneRequest
    <3> HIDE DEF got
    <3>2. QED
      BY <3>1 DEF Serves
  <2>5. spent \in Nat /\ Spent(requests, k + 1) = IF Semantic(r) THEN spent + 1 ELSE spent
    BY SpentStep
  <2>6. got(k).calls < MaxCalls <=> spent < MaxCalls
    <3> HIDE DEF got, M, P, spent
    <3> QED
      BY <1>1, <2>1, <2>5 DEF spent
  <2>7. k + 1 \in Asked(requests) <=> Semantic(r) /\ got(k).calls < MaxCalls
    <3>1. k + 1 \in Asked(requests) <=> Semantic(r) /\ spent < MaxCalls
      BY <2>2 DEF Asked, Spent
    <3>2. QED
      BY <2>6, <3>1
  <2>8. \A j : j \in 1..(k + 1) <=> j \in 1..k \/ j = k + 1
    OBVIOUS
  <2>9. M(k + 1) = IF (Semantic(r) /\ got(k).calls < MaxCalls /\ Verdict(r, answers) = "yes") \/ found
                   THEN M(k) \cup {k + 1} ELSE M(k)
    <3> HIDE DEF got
    <3> QED
      BY <2>7, <2>8 DEF MatchedAt
  <2>10. P(k + 1) = IF Semantic(r) /\ (~(got(k).calls < MaxCalls) \/ Verdict(r, answers) = "error")
                    THEN P(k) \cup {k + 1} ELSE P(k)
    <3> HIDE DEF got
    <3> QED
      BY <2>7, <2>8 DEF ReportedAt
  <2> HIDE DEF got, M, P, found
  <2>11. got(k + 1).matched = {requests[j] : j \in M(k + 1)}
    BY <2>1, <2>4, <2>9
  <2>12. got(k + 1).problems = {requests[j] : j \in P(k + 1)}
    BY <2>1, <2>4, <2>10
  <2>13. got(k + 1).calls =
           IF Spent(requests, k + 1) < MaxCalls THEN Spent(requests, k + 1) ELSE MaxCalls
    BY <1>1, <2>1, <2>4, <2>5
  <2>14. QED
    BY <2>11, <2>12, <2>13
<1>4. Nat \subseteq Good
  <2> HIDE DEF Good
  <2> QED
    BY <1>2, <1>3, NatSetInduction
<1>5. QED
  BY <1>1, <1>4

(* For any requests, answers and budget: no more calls than the budget, the first
   requests served, everyone else reported (matching.py 244-273, 285-324). *)
THEOREM BudgetIsKept ==
  ASSUME NEW R, NEW requests \in Seq(R), NEW answers
  PROVE  /\ Evaluate(requests, answers).calls <= MaxCalls
         /\ FirstComeFirstServed(requests, answers)
         /\ Evaluate(requests, answers) \in Outcome(R)
<1> DEFINE n == Len(requests)
           got == After(requests, answers)[n]
<1>1. n \in 0..n /\ DOMAIN requests = 1..n /\ n \in Nat
  OBVIOUS
<1>2. Evaluate(requests, answers) = got /\ got \in Outcome(R)
  BY <1>1, EvaluateIsAfter, AfterRuns
<1>3. /\ got.calls = IF Spent(requests, n) < MaxCalls THEN Spent(requests, n) ELSE MaxCalls
      /\ got.matched = {requests[j] : j \in MatchedAt(requests, answers, n)}
      /\ got.problems = {requests[j] : j \in ReportedAt(requests, answers, n)}
  BY <1>1, LoopInvariant
<1>4. got.calls <= MaxCalls
  BY <1>1, <1>3, SpentStep, MatchingAssumption
<1> HIDE DEF got
<1>5. FirstComeFirstServed(requests, answers)
  <2>1. \A j \in Asked(requests) : j \in 1..n
    BY <1>1 DEF Asked
  <2>2. got.matched =
          {requests[k] : k \in {j \in Asked(requests) : Verdict(requests[j], answers) = "yes"}}
            \cup {requests[k] : k \in {j \in DOMAIN requests :
                    Mode[requests[j].monitor] = "keyword" /\ KeywordFound(requests[j])}}
    BY <1>1, <1>3, <2>1 DEF MatchedAt
  <2>3. got.problems =
          {requests[k] : k \in {j \in DOMAIN requests :
             /\ Semantic(requests[j])
             /\ j \notin Asked(requests) \/ Verdict(requests[j], answers) = "error"}}
    BY <1>1, <1>3 DEF ReportedAt
  <2>4. QED
    BY <1>2, <2>2, <2>3 DEF FirstComeFirstServed
<1>6. QED
  BY <1>2, <1>4, <1>5

-------------------------------------------------------------------------------
(* Requests are of monitors and of items of the page. *)
LEMMA BuildType ==
  ASSUME NEW C, NEW P, \A x \in P : x.item \in Item /\ x.content \in C,
         NEW page \in Seq(P), NEW kind, NEW monitors
  PROVE  BuildRequests(kind, monitors, page) \in Seq(RequestOf(C))
<1> DEFINE intents == Filtered(MonitorSeq, LAMBDA m : m \in EvaluatedBy(kind, monitors))
           Of(k) == [j \in DOMAIN intents |->
                       [item |-> page[k].item, content |-> page[k].content, monitor |-> intents[j]]]
           rows == [k \in DOMAIN page |-> Of(k)]
<1>1. intents \in Seq(Monitor)
  <2> DEFINE parts == [k \in DOMAIN MonitorSeq |->
                         IF MonitorSeq[k] \in EvaluatedBy(kind, monitors)
                         THEN <<MonitorSeq[k]>> ELSE <<>>]
  <2>1. intents = FlattenSeq(parts)
    BY DEF Filtered
  <2>2. \A k \in DOMAIN MonitorSeq : parts[k] \in Seq(Monitor)
    BY MatchingAssumption
  <2>3. parts \in [1..Len(MonitorSeq) -> Seq(Monitor)] /\ Len(MonitorSeq) \in Nat
    BY <2>2, MatchingAssumption
  <2>4. parts \in Seq(Seq(Monitor))
    <3> HIDE DEF parts
    <3> QED
      BY <2>3, SeqDef
  <2>5. QED
    BY <2>1, <2>4, FlattenType
<1> HIDE DEF intents
<1>2. ASSUME NEW k \in DOMAIN page PROVE Of(k) \in Seq(RequestOf(C))
  <2>1. page[k].item \in Item /\ page[k].content \in C
    OBVIOUS
  <2>2. \A j \in DOMAIN intents : intents[j] \in Monitor
    BY <1>1
  <2>3. Of(k) \in [1..Len(intents) -> RequestOf(C)] /\ Len(intents) \in Nat
    BY <1>1, <2>1, <2>2 DEF RequestOf
  <2>4. QED
    <3> HIDE DEF Of
    <3> QED
      BY <2>3, SeqDef
<1>3. BuildRequests(kind, monitors, page) = FlattenSeq(rows)
  BY DEF BuildRequests, intents
<1>4. rows \in Seq(Seq(RequestOf(C)))
  <2> HIDE DEF Of
  <2>1. rows \in [1..Len(page) -> Seq(RequestOf(C))] /\ Len(page) \in Nat
    BY <1>2
  <2> HIDE DEF rows
  <2>2. QED
    BY <2>1, SeqDef
<1>5. QED
  BY <1>3, <1>4, FlattenType
===============================================================================
