------------------------------- MODULE Planning -------------------------------
(* reddit/planning.py: the Reddit feeds that the active monitors need.

   Subreddits and keywords stand for their normalised values.  Of a keyword's text
   only its place in case-folded order matters, Key[word]: two spellings of one
   keyword have the same key, and a query's fingerprint is that of its folded
   words. *)
EXTENDS Integers, Sequences, FiniteSets, Functions

CONSTANTS
  Monitor,
  Sub,              \* Sub[m]: the subreddit of monitor m
  Mode,             \* Mode[m]: "keyword", "semantic" or "keyword_semantic"
  Keyword,          \* Keyword[m]: a word, or NoWord for an empty field
  Described,        \* the monitors with a semantic description
  Word, NoWord, Key,
  MaxTerms,         \* CHATTERSIFT_REDDIT_SEARCH_QUERY_MAX_TERMS, 0 for no limit
  OAuthConfigured, PreferredFormat

(* The monitors are rows of a table, a filled keyword is a word, and the settings
   take no negative limit. *)
ASSUME PlanningAssumption ==
  /\ IsFiniteSet(Monitor)
  /\ Keyword \in [Monitor -> Word \cup {NoWord}]
  /\ Key \in [Word -> Int]
  /\ MaxTerms \in Nat

(* Monitors that yield an intent: a field that their mode needs is not empty. *)
Usable(m) ==
  /\ Mode[m] # "semantic" => Keyword[m] # NoWord
  /\ Mode[m] # "keyword"  => m \in Described

Intents(active) == {m \in active : Usable(m)}

(* oauth.reddit.com serves JSON only. *)
FeedFormat == IF OAuthConfigured THEN "json" ELSE PreferredFormat

-------------------------------------------------------------------------------
(* Searches *)

(* Faulty variant of SearchWords: only the plain keyword monitors. *)
PlainWords(active, sub) ==
  {Keyword[m] : m \in {n \in Intents(active) : Sub[n] = sub /\ Mode[n] = "keyword"}}

SearchWords(active, sub) ==
  {Keyword[m] : m \in {n \in Intents(active) : Sub[n] = sub /\ Mode[n] # "semantic"}}

(* Faulty variant of Orders: the set is not sorted. *)
AnyOrders(words) == {s \in [1..Cardinality(words) -> words] : Range(s) = words}

(* The words in the order of their folded text; the spellings of one word come in
   whatever order the process enumerates them. *)
Orders(words) ==
  {s \in [1..Cardinality(words) -> words] :
     /\ Range(s) = words
     /\ \A i, j \in DOMAIN s : i < j => Key[s[i]] <= Key[s[j]]}

(* Consecutive pieces of at most MaxTerms words. *)
Chunks(s) ==
  LET size == IF MaxTerms = 0 THEN Len(s) ELSE MaxTerms
      Piece(i) == SubSeq(s, i, IF i + size - 1 < Len(s) THEN i + size - 1 ELSE Len(s))
  IN {Piece(i) : i \in {j \in DOMAIN s : (j - 1) % size = 0}}

(* The fingerprint of the case-folded query. *)
Fingerprint(chunk) == [i \in DOMAIN chunk |-> Key[chunk[i]]]

-------------------------------------------------------------------------------
(* Feeds; two with the same identity are one. *)
Feed(kind, sub, print) == [kind |-> kind, format |-> FeedFormat, sub |-> sub, print |-> print]

SearchFeeds(sub, order) == {Feed("post_search", sub, Fingerprint(c)) : c \in Chunks(order)}

Subs(active) == {Sub[m] : m \in Intents(active)}

(* Semantic monitors read every new post; comments are always read from the stream. *)
StreamFeeds(active) ==
  {Feed("post_stream", Sub[m], <<>>) : m \in {n \in Intents(active) : Mode[n] = "semantic"}}
    \cup {Feed("comment_stream", sub, <<>>) : sub \in Subs(active)}

(* The searches of a subreddit, one set for each order of its words. *)
Searches(active, sub) == {SearchFeeds(sub, s) : s \in Orders(SearchWords(active, sub))}

Plan(active) ==
  StreamFeeds(active)
    \cup UNION {CHOOSE feeds \in Searches(active, sub) : TRUE : sub \in Subs(active)}

-------------------------------------------------------------------------------
(* What a plan promises. *)

Reads(m, f) ==
  /\ f.sub = Sub[m]
  /\ \/ f.kind = "comment_stream"
     \/ f.kind = "post_stream" /\ Mode[m] = "semantic"
     \/ /\ f.kind = "post_search" /\ Mode[m] # "semantic"
        /\ Key[Keyword[m]] \in Range(f.print)

(* Every usable monitor is served with comments and with posts, each search has at
   most MaxTerms words, and no feed is fetched for nobody. *)
ServesAll(active, plan) ==
  /\ \A m \in Intents(active), kinds \in {{"comment_stream"}, {"post_search", "post_stream"}} :
       \E f \in plan : Reads(m, f) /\ f.kind \in kinds
  /\ \A f \in plan : \E m \in Intents(active) : Reads(m, f)
  /\ MaxTerms # 0 => \A f \in plan : Len(f.print) <= MaxTerms
===============================================================================
