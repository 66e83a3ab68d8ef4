------------------------------- MODULE Matching -------------------------------
(* reddit/matching.py: which monitors match which items of one feed.

   An item's title and its body are the sets of their words, where one word may stand
   for all that are no monitor's keyword; what the language model says of a pair is
   given by answers[pair], "yes", "no" or "error" for whatever the call, or the reading
   of its reply, raises. *)
EXTENDS Integers, SequencesExt

CONSTANTS
  Monitor, MonitorSeq,   \* the monitors, and the order in which intents are built
  Mode, Keyword,         \* "keyword", "semantic" or "keyword_semantic", and a word
  NoModel,               \* the monitors of users for whom no language model is set
  Item, Comment,         \* the items, and those that are comments
  MaxCalls               \* CHATTERSIFT_SEMANTIC_MATCH_MAX_CALLS_PER_FEED

ASSUME MatchingAssumption == MonitorSeq \in Seq(Monitor) /\ MaxCalls \in Nat

(* A post matches by its title and its body, a comment by its body alone. *)
SearchableText(item, content) ==
  IF item \in Comment THEN content.body ELSE content.title \cup content.body

KeywordFound(r) == Keyword[r.monitor] \in SearchableText(r.item, r.content)

(* Requests that come to the semantic matcher. *)
Semantic(r) ==
  \/ Mode[r.monitor] = "semantic"
  \/ Mode[r.monitor] = "keyword_semantic" /\ KeywordFound(r)

(* The matcher's verdict: an error without a model; a comment without a body is refused
   unasked. *)
Verdict(r, answers) ==
  CASE r.monitor \in NoModel -> "error"
    [] r.monitor \notin NoModel /\ r.item \in Comment /\ r.content.body = {} -> "no"
    [] OTHER -> answers[<<r.item, r.monitor>>]

(* Faulty variant of EvaluateSemantic: only calls that return are counted. *)
EvaluateSemanticReturned(acc, r, answers) ==
  CASE acc.calls >= MaxCalls -> [acc EXCEPT !.problems = @ \cup {r}]
    [] acc.calls < MaxCalls /\ Verdict(r, answers) = "error" -> [acc EXCEPT !.problems = @ \cup {r}]
    [] OTHER -> [acc EXCEPT !.calls = @ + 1,
                            !.matched = IF Verdict(r, answers) = "yes" THEN @ \cup {r} ELSE @]

(* One semantic request: out of budget it is only reported; a call counts whatever
   comes of it. *)
EvaluateSemantic(acc, r, answers) ==
  CASE acc.calls >= MaxCalls -> [acc EXCEPT !.problems = @ \cup {r}]
    [] acc.calls < MaxCalls /\ Verdict(r, answers) = "error" ->
         [acc EXCEPT !.calls = @ + 1, !.problems = @ \cup {r}]
    [] OTHER -> [acc EXCEPT !.calls = @ + 1,
                            !.matched = IF Verdict(r, answers) = "yes" THEN @ \cup {r} ELSE @]

EvaluateRequest(acc, r, answers) ==
  CASE Semantic(r) -> EvaluateSemantic(acc, r, answers)
    [] Mode[r.monitor] = "keyword" /\ KeywordFound(r) -> [acc EXCEPT !.matched = @ \cup {r}]
    [] OTHER -> acc

(* The loop over the requests: its calls, and the requests matched and reported, after
   the first k of them. *)
Evaluate(requests, answers) ==
  LET after[k \in 0..Len(requests)] ==
        IF k = 0 THEN [calls |-> 0, matched |-> {}, problems |-> {}]
        ELSE EvaluateRequest(after[k - 1], requests[k], answers)
  IN after[Len(requests)]

-------------------------------------------------------------------------------
(* The requests of a page, item by item, for the monitors that the feed's kind
   evaluates; a page is a sequence of [item, content]. *)

(* SelectSeq, with a definition that proofs can unfold. *)
Filtered(seq, Test(_)) ==
  FlattenSeq([k \in DOMAIN seq |-> IF Test(seq[k]) THEN <<seq[k]>> ELSE <<>>])

EvaluatedBy(kind, monitors) ==
  {m \in monitors : CASE kind = "post_search" -> Mode[m] # "semantic"
                      [] kind = "post_stream" -> Mode[m] = "semantic"
                      [] kind = "comment_stream" -> TRUE}

BuildRequests(kind, monitors, page) ==
  FlattenSeq([k \in DOMAIN page |->
    LET intents == Filtered(MonitorSeq, LAMBDA m : m \in EvaluatedBy(kind, monitors))
    IN [j \in DOMAIN intents |->
          [item |-> page[k].item, content |-> page[k].content, monitor |-> intents[j]]]])

-------------------------------------------------------------------------------
(* What the loop computes, said without a loop: the first MaxCalls semantic requests
   are asked, the others and the ones that fail are reported. *)
Asked(requests) ==
  {k \in DOMAIN requests :
     /\ Semantic(requests[k])
     /\ Cardinality({j \in 1..(k - 1) : Semantic(requests[j])}) < MaxCalls}

FirstComeFirstServed(requests, answers) ==
  LET got   == Evaluate(requests, answers)
      asked == Asked(requests)
  IN /\ got.matched =
          {requests[k] : k \in {j \in asked : Verdict(requests[j], answers) = "yes"}}
            \cup {requests[k] : k \in {j \in DOMAIN requests :
                    Mode[requests[j].monitor] = "keyword" /\ KeywordFound(requests[j])}}
     /\ got.problems =
          {requests[k] : k \in {j \in DOMAIN requests :
             /\ Semantic(requests[j])
             /\ j \notin asked \/ Verdict(requests[j], answers) = "error"}}
===============================================================================
