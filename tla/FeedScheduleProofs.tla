-------------------------- MODULE FeedScheduleProofs --------------------------
(***************************************************************************)
(* Proofs about FeedSchedule for any number of workers, monitors and feeds *)
(* and any intervals: its types, among them that overlapping failures and  *)
(* successes never put a feed off for longer than the longest backoff; and *)
(* that the plan serves every monitor and does not depend on the order in  *)
(* which keywords are enumerated.                                          *)
(***************************************************************************)
EXTENDS FeedSchedule, InductionLemmas

-------------------------------------------------------------------------------
(* The words of a subreddit's searches. *)
LEMMA SearchWordsFinite ==
  ASSUME NEW monitors \in SUBSET Monitor, NEW sub
  PROVE  IsFiniteSet(SearchWords(monitors, sub)) /\ SearchWords(monitors, sub) \in SUBSET Word
<1> DEFINE Asking == {n \in Intents(monitors) : Sub[n] = sub /\ Mode[n] # "semantic"}
           Asked == [n \in Asking |-> Keyword[n]]
<1>1. Asking \in SUBSET Monitor
  BY DEF Intents
<1>2. IsFiniteSet(Asking)
  BY <1>1, PlanningAssumption, FS_Subset
<1>3. SearchWords(monitors, sub) = {Keyword[n] : n \in Asking}
  BY DEF SearchWords
<1>4. Asked \in Surjection(Asking, SearchWords(monitors, sub))
  <2> HIDE DEF Asking
  <2> QED
    BY <1>3 DEF Surjection
<1>5. IsFiniteSet(SearchWords(monitors, sub))
  <2> HIDE DEF Asked, Asking
  <2> QED
    BY <1>2, <1>4, FS_Surjection
<1>6. \A n \in Asking : Keyword[n] \in Word
  BY PlanningAssumption DEF Intents, Usable
<1>7. QED
  BY <1>3, <1>5, <1>6

(* There is an order of the words, so that a search can be planned. *)
LEMMA OrderExists ==
  ASSUME NEW words \in SUBSET Word, IsFiniteSet(words)
  PROVE  Orders(words) # {}
<1>1. PICK s \in [1..Cardinality(words) -> words] :
        /\ Range(s) = words
        /\ \A i, j \in DOMAIN s : i < j => Key[s[i]] <= Key[s[j]]
  BY PlanningAssumption, SortedEnumeration
<1>2. QED
  BY <1>1 DEF Orders

(* Two orders of the words differ in the spellings of a keyword only. *)
LEMMA OrdersSpellAlike ==
  ASSUME NEW words \in SUBSET Word, IsFiniteSet(words),
         NEW s \in Orders(words), NEW t \in Orders(words),
         NEW i \in 1..Cardinality(words)
  PROVE  Key[s[i]] = Key[t[i]]
<1>1. /\ s \in [1..Cardinality(words) -> words] /\ Range(s) = words
      /\ \A k, j \in DOMAIN s : k < j => Key[s[k]] <= Key[s[j]]
  BY DEF Orders
<1>2. /\ t \in [1..Cardinality(words) -> words] /\ Range(t) = words
      /\ \A k, j \in DOMAIN t : k < j => Key[t[k]] <= Key[t[j]]
  BY DEF Orders
<1>3. Key \in [Word -> Int] /\ Key[s[i]] \in Int /\ Key[t[i]] \in Int
  BY <1>1, <1>2, PlanningAssumption
<1>4. ~(Key[s[i]] < Key[t[i]]) /\ ~(Key[t[i]] < Key[s[i]])
  BY <1>1, <1>2, <1>3, SortedKeysAgree
<1>5. QED
  BY <1>3, <1>4

-------------------------------------------------------------------------------
(* The pieces of a query of n words: where one begins and ends. *)
Size(n) == IF MaxTerms = 0 THEN n ELSE MaxTerms
Begins(n) == {i \in 1..n : (i - 1) % Size(n) = 0}
End(n, i) == IF i + Size(n) - 1 < n THEN i + Size(n) - 1 ELSE n

LEMMA Multiples ==
  ASSUME NEW x \in Nat, NEW size \in Nat \ {0}
  PROVE  /\ x % size \in 0..(size - 1) /\ x - (x % size) \in Nat
         /\ (x - (x % size)) % size = 0
<1>1. /\ x % size \in 0..(size - 1) /\ x \div size \in Nat
      /\ x = size * (x \div size) + (x % size)
  OBVIOUS
<1>2. (size * (x \div size)) % size = 0
  BY <1>1
<1>3. x - (x % size) = size * (x \div size)
  BY <1>1
<1>4. size * (x \div size) \in Nat
  BY <1>1
<1>5. QED
  BY <1>1, <1>2, <1>3, <1>4

(* Each place of the query lies in one of the pieces, none of which is empty or longer
   than the limit. *)
LEMMA PiecesCover ==
  ASSUME NEW n \in Nat
  PROVE  /\ \A i \in Begins(n) : /\ End(n, i) \in i..n
                                 /\ MaxTerms # 0 => End(n, i) - i + 1 <= MaxTerms
         /\ \A j \in 1..n : \E i \in Begins(n) : j \in i..End(n, i)
<1>1. n # 0 => Size(n) \in Nat \ {0}
  BY PlanningAssumption DEF Size
<1>2. ASSUME NEW i \in Begins(n)
      PROVE  End(n, i) \in i..n /\ (MaxTerms # 0 => End(n, i) - i + 1 <= MaxTerms)
  BY <1>1, <1>2, PlanningAssumption DEF Begins, End, Size
<1>3. ASSUME NEW j \in 1..n PROVE \E i \in Begins(n) : j \in i..End(n, i)
  <2> DEFINE r == (j - 1) % Size(n)
  <2>1. Size(n) \in Nat \ {0} /\ j - 1 \in Nat
    BY <1>1
  <2>2. r \in 0..(Size(n) - 1) /\ (j - 1) - r \in Nat /\ ((j - 1) - r) % Size(n) = 0
    <3> DEFINE x == j - 1
               size == Size(n)
    <3>1. x \in Nat /\ size \in Nat \ {0}
      BY <2>1
    <3> HIDE DEF x, size
    <3>2. x % size \in 0..(size - 1) /\ x - (x % size) \in Nat /\ (x - (x % size)) % size = 0
      BY <3>1, Multiples
    <3>3. QED
      BY <3>2 DEF x, size
  <2> HIDE DEF r
  <2>3. j - r \in 1..n /\ (j - r) - 1 = (j - 1) - r
    BY <2>1, <2>2
  <2>4. j - r \in Begins(n)
    BY <2>2, <2>3 DEF Begins
  <2>5. j \in (j - r)..End(n, j - r)
    BY <2>1, <2>2, <2>3 DEF End
  <2>6. QED
    BY <2>4, <2>5
<1>4. QED
  BY <1>2, <1>3

(* The keys of the words from place i to the end of its piece. *)
PieceKeys(n, s, i) == [k \in 1..(End(n, i) - i + 1) |-> Key[s[i + k - 1]]]

LEMMA ChunkPieces ==
  ASSUME NEW n \in Nat, NEW W, NEW s \in [1..n -> W]
  PROVE  Chunks(s) = {SubSeq(s, i, End(n, i)) : i \in Begins(n)}
<1>1. Len(s) = n /\ DOMAIN s = 1..n
  OBVIOUS
<1>2. QED
  BY <1>1 DEF Chunks, Begins, End, Size

(* The words of a piece. *)
LEMMA ChunkKeys ==
  ASSUME NEW n \in Nat, NEW W, NEW s \in [1..n -> W], NEW i \in Begins(n)
  PROVE  Fingerprint(SubSeq(s, i, End(n, i))) = PieceKeys(n, s, i)
<1>1. i \in 1..n /\ End(n, i) \in i..n
  BY PiecesCover DEF Begins
<1>2. SubSeq(s, i, End(n, i)) = [k \in 1..(End(n, i) - i + 1) |-> s[i + k - 1]]
  BY <1>1
<1>3. QED
  BY <1>2 DEF Fingerprint, PieceKeys

(* The searches of two orders of the same words are the same feeds. *)
LEMMA SearchFeedsAgree ==
  ASSUME NEW words \in SUBSET Word, IsFiniteSet(words), NEW sub,
         NEW s \in Orders(words), NEW t \in Orders(words)
  PROVE  SearchFeeds(sub, s) = SearchFeeds(sub, t)
<1> DEFINE n == Cardinality(words)
<1>1. n \in Nat /\ s \in [1..n -> words] /\ t \in [1..n -> words]
  BY FS_CardinalityType DEF Orders
<1>2. ASSUME NEW i \in Begins(n)
      PROVE  Fingerprint(SubSeq(s, i, End(n, i))) = Fingerprint(SubSeq(t, i, End(n, i)))
  <2>1. i \in 1..n /\ End(n, i) \in i..n
    BY <1>1, PiecesCover DEF Begins
  <2>2. \A k \in 1..(End(n, i) - i + 1) : i + k - 1 \in 1..n
    BY <1>1, <2>1
  <2>3. \A k \in 1..(End(n, i) - i + 1) : Key[s[i + k - 1]] = Key[t[i + k - 1]]
    BY <2>2, OrdersSpellAlike
  <2> HIDE DEF n
  <2>4. PieceKeys(n, s, i) = PieceKeys(n, t, i)
    BY <2>3 DEF PieceKeys
  <2>5. QED
    BY <1>1, <2>4, ChunkKeys
<1> HIDE DEF n
<1>3. SearchFeeds(sub, s) = {Feed("post_search", sub, Fingerprint(SubSeq(s, i, End(n, i)))) : i \in Begins(n)}
  <2>1. Chunks(s) = {SubSeq(s, i, End(n, i)) : i \in Begins(n)}
    BY <1>1, ChunkPieces
  <2>2. QED
    BY <2>1 DEF SearchFeeds
<1>4. SearchFeeds(sub, t) = {Feed("post_search", sub, Fingerprint(SubSeq(t, i, End(n, i)))) : i \in Begins(n)}
  <2>1. Chunks(t) = {SubSeq(t, i, End(n, i)) : i \in Begins(n)}
    BY <1>1, ChunkPieces
  <2>2. QED
    BY <2>1 DEF SearchFeeds
<1>5. QED
  BY <1>2, <1>3, <1>4

LEMMA OneSearch ==
  ASSUME NEW monitors \in SUBSET Monitor, NEW sub
  PROVE  \E s \in Orders(SearchWords(monitors, sub)) : Searches(monitors, sub) = {SearchFeeds(sub, s)}
<1> DEFINE words == SearchWords(monitors, sub)
<1>1. words \in SUBSET Word /\ IsFiniteSet(words)
  BY SearchWordsFinite
<1> HIDE DEF words
<1>2. PICK s : s \in Orders(words)
  BY <1>1, OrderExists
<1>3. \A t \in Orders(words) : SearchFeeds(sub, t) = SearchFeeds(sub, s)
  BY <1>1, <1>2, SearchFeedsAgree
<1>4. {SearchFeeds(sub, t) : t \in Orders(words)} = {SearchFeeds(sub, s)}
  BY <1>2, <1>3
<1>5. QED
  BY <1>2, <1>4 DEF Searches, words

-------------------------------------------------------------------------------
(* What the searches of a subreddit promise: each word is in one of them, each of them
   has a word, and none has too many. *)
LEMMA SearchesServe ==
  ASSUME NEW words \in SUBSET Word, IsFiniteSet(words), NEW sub, NEW s \in Orders(words)
  PROVE  /\ \A w \in words : \E f \in SearchFeeds(sub, s) : Key[w] \in Range(f.print)
         /\ \A f \in SearchFeeds(sub, s) :
              /\ f.sub = sub /\ f.kind = "post_search"
              /\ \E w \in words : Key[w] \in Range(f.print)
              /\ MaxTerms # 0 => Len(f.print) <= MaxTerms
<1> DEFINE n == Cardinality(words)
<1>1. n \in Nat /\ s \in [1..n -> words] /\ Range(s) = words
  BY FS_CardinalityType DEF Orders
<1> HIDE DEF n
<1>2. SearchFeeds(sub, s) = {Feed("post_search", sub, PieceKeys(n, s, i)) : i \in Begins(n)}
  <2>1. \A i \in Begins(n) : Fingerprint(SubSeq(s, i, End(n, i))) = PieceKeys(n, s, i)
    BY <1>1, ChunkKeys
  <2>2. SearchFeeds(sub, s) = {Feed("post_search", sub, Fingerprint(SubSeq(s, i, End(n, i)))) : i \in Begins(n)}
    <3>1. Chunks(s) = {SubSeq(s, i, End(n, i)) : i \in Begins(n)}
      BY <1>1, ChunkPieces
    <3>2. QED
      BY <3>1 DEF SearchFeeds
  <2>3. QED
    BY <2>1, <2>2
<1>3. ASSUME NEW w \in words PROVE \E f \in SearchFeeds(sub, s) : Key[w] \in Range(f.print)
  <2>1. PICK j \in 1..n : s[j] = w
    BY <1>1 DEF Range
  <2>2. PICK i \in Begins(n) : j \in i..End(n, i)
    BY <1>1, PiecesCover
  <2>3. i \in 1..n /\ End(n, i) \in i..n
    BY <1>1, PiecesCover DEF Begins
  <2>4. j - i + 1 \in 1..(End(n, i) - i + 1) /\ i + (j - i + 1) - 1 = j
    BY <1>1, <2>2, <2>3
  <2>5. PieceKeys(n, s, i)[j - i + 1] = Key[w]
    BY <2>1, <2>4 DEF PieceKeys
  <2>6. Key[w] \in Range(PieceKeys(n, s, i))
    BY <2>4, <2>5 DEF Range, PieceKeys
  <2>7. Feed("post_search", sub, PieceKeys(n, s, i)).print = PieceKeys(n, s, i)
    BY DEF Feed
  <2>8. QED
    BY <1>2, <2>6, <2>7
<1>4. ASSUME NEW f \in SearchFeeds(sub, s)
      PROVE  /\ f.sub = sub /\ f.kind = "post_search"
             /\ \E w \in words : Key[w] \in Range(f.print)
             /\ MaxTerms # 0 => Len(f.print) <= MaxTerms
  <2>1. PICK i \in Begins(n) : f = Feed("post_search", sub, PieceKeys(n, s, i))
    BY <1>2
  <2>2. i \in 1..n /\ End(n, i) \in i..n /\ (MaxTerms # 0 => End(n, i) - i + 1 <= MaxTerms)
    BY <1>1, PiecesCover DEF Begins
  <2>3. 1 \in 1..(End(n, i) - i + 1) /\ i + 1 - 1 = i
    BY <1>1, <2>2
  <2>4. PieceKeys(n, s, i)[1] = Key[s[i]]
    BY <2>3 DEF PieceKeys
  <2>5. Key[s[i]] \in Range(PieceKeys(n, s, i)) /\ s[i] \in words
    BY <1>1, <2>2, <2>3, <2>4 DEF Range, PieceKeys
  <2>6. Len(PieceKeys(n, s, i)) = End(n, i) - i + 1
    BY <1>1, <2>2 DEF PieceKeys
  <2>7. f.sub = sub /\ f.kind = "post_search" /\ f.print = PieceKeys(n, s, i)
    BY <2>1 DEF Feed
  <2>8. QED
    BY <2>2, <2>5, <2>6, <2>7
<1>5. QED
  BY <1>3, <1>4

(* The plan of any set of active monitors serves each of them, and nobody else. *)
LEMMA PlanServes ==
  ASSUME NEW monitors \in SUBSET Monitor
  PROVE  ServesAll(monitors, Plan(monitors))
<1> DEFINE Picked(sub) == CHOOSE feeds \in Searches(monitors, sub) : TRUE
           streams == StreamFeeds(monitors)
<1>1. Plan(monitors) = streams \cup UNION {Picked(sub) : sub \in Subs(monitors)}
  BY DEF Plan
<1>2. ASSUME NEW sub
      PROVE  /\ \A w \in SearchWords(monitors, sub) : \E f \in Picked(sub) : Key[w] \in Range(f.print)
             /\ \A f \in Picked(sub) :
                  /\ f.sub = sub /\ f.kind = "post_search"
                  /\ \E w \in SearchWords(monitors, sub) : Key[w] \in Range(f.print)
                  /\ MaxTerms # 0 => Len(f.print) <= MaxTerms
  <2>1. PICK s \in Orders(SearchWords(monitors, sub)) : Searches(monitors, sub) = {SearchFeeds(sub, s)}
    BY OneSearch
  <2>2. Picked(sub) = SearchFeeds(sub, s)
    BY <2>1
  <2>3. SearchWords(monitors, sub) \in SUBSET Word /\ IsFiniteSet(SearchWords(monitors, sub))
    BY SearchWordsFinite
  <2> HIDE DEF Picked
  <2>4. QED
    BY <2>2, <2>3, SearchesServe
<1> HIDE DEF Picked
<1>3. ASSUME NEW m \in Intents(monitors)
      PROVE  \E f \in streams : Reads(m, f) /\ f.kind = "comment_stream"
  <2>1. Feed("comment_stream", Sub[m], <<>>) \in streams
    BY DEF StreamFeeds, Subs
  <2>2. Reads(m, Feed("comment_stream", Sub[m], <<>>))
    BY DEF Reads, Feed
  <2>3. Feed("comment_stream", Sub[m], <<>>).kind = "comment_stream"
    BY DEF Feed
  <2>4. QED
    BY <2>1, <2>2, <2>3
<1>4. ASSUME NEW m \in Intents(monitors)
      PROVE  \E f \in Plan(monitors) : Reads(m, f) /\ f.kind \in {"post_search", "post_stream"}
  <2>1. CASE Mode[m] = "semantic"
    <3>1. Feed("post_stream", Sub[m], <<>>) \in streams
      BY <2>1 DEF StreamFeeds
    <3>2. Reads(m, Feed("post_stream", Sub[m], <<>>))
      BY <2>1 DEF Reads, Feed
    <3>3. Feed("post_stream", Sub[m], <<>>).kind = "post_stream"
      BY DEF Feed
    <3>4. QED
      BY <1>1, <3>1, <3>2, <3>3
  <2>2. CASE Mode[m] # "semantic"
    <3>1. Keyword[m] \in SearchWords(monitors, Sub[m]) /\ Sub[m] \in Subs(monitors)
      BY <2>2 DEF SearchWords, Subs
    <3>2. PICK f \in Picked(Sub[m]) : Key[Keyword[m]] \in Range(f.print)
      BY <1>2, <3>1
    <3>3. f.sub = Sub[m] /\ f.kind = "post_search"
      BY <1>2, <3>2
    <3>4. f \in Plan(monitors)
      BY <1>1, <3>1, <3>2
    <3>5. QED
      BY <2>2, <3>2, <3>3, <3>4 DEF Reads
  <2>3. QED
    BY <2>1, <2>2
<1>5. ASSUME NEW f \in streams
      PROVE  (\E m \in Intents(monitors) : Reads(m, f)) /\ f.print = <<>>
  <2>1. CASE f \in {Feed("post_stream", Sub[m], <<>>) : m \in {n \in Intents(monitors) : Mode[n] = "semantic"}}
    BY <2>1 DEF Feed, Reads
  <2>2. CASE f \in {Feed("comment_stream", sub, <<>>) : sub \in Subs(monitors)}
    BY <2>2 DEF Feed, Reads, Subs
  <2>3. QED
    BY <2>1, <2>2 DEF StreamFeeds
<1>6. ASSUME NEW sub \in Subs(monitors), NEW f \in Picked(sub)
      PROVE  (\E m \in Intents(monitors) : Reads(m, f)) /\ (MaxTerms # 0 => Len(f.print) <= MaxTerms)
  <2>1. PICK w \in SearchWords(monitors, sub) : Key[w] \in Range(f.print)
    BY <1>2
  <2>2. PICK m \in Intents(monitors) : Sub[m] = sub /\ Mode[m] # "semantic" /\ Keyword[m] = w
    BY <2>1 DEF SearchWords
  <2>3. Reads(m, f)
    BY <1>2, <2>1, <2>2 DEF Reads
  <2>4. QED
    BY <1>2, <2>3
<1>7. \A f \in Plan(monitors) : /\ \E m \in Intents(monitors) : Reads(m, f)
                                /\ MaxTerms # 0 => Len(f.print) <= MaxTerms
  <2>1. Len(<<>>) = 0 /\ (MaxTerms # 0 => 0 <= MaxTerms)
    BY PlanningAssumption
  <2>2. QED
    BY <1>1, <1>5, <1>6, <2>1
<1> HIDE DEF streams
<1>8. QED
  BY <1>1, <1>3, <1>4, <1>7 DEF ServesAll

-------------------------------------------------------------------------------
(* A worker that fetches or records has a feed in hand. *)
HasFeed == \A w \in Worker : pc[w] \in {"fetch", "write"} => cur[w] \in FeedSpec

IInv == TypeOK /\ HasFeed

RowType == [wait : 0..Longest, failures : 0..ManyFailures]

-------------------------------------------------------------------------------
LEMMA LongestFacts ==
  /\ Longest \in Nat /\ Interval \in 0..Longest
  /\ \A n \in 1..ManyFailures : Backoff(n) \in 0..Longest
BY ScheduleAssumption, BackoffAssumption DEF Longest

LEMMA PutType ==
  ASSUME TypeOK, NEW f \in FeedSpec, NEW wait \in 0..Longest, NEW failures \in 0..ManyFailures,
         Put(f, wait, failures)
  PROVE  DOMAIN rows' \subseteq FeedSpec /\ rows' \in [DOMAIN rows' -> RowType]
<1>1. [wait |-> wait, failures |-> failures] \in RowType
  BY DEF RowType
<1>2. \A g \in DOMAIN rows : rows[g] \in RowType
  BY DEF TypeOK, RowType
<1>3. DOMAIN rows' = DOMAIN rows \cup {f}
  BY DEF Put
<1>4. \A g \in DOMAIN rows' : rows'[g] = IF g = f THEN [wait |-> wait, failures |-> failures] ELSE rows[g]
  BY <1>3 DEF Put
<1>5. \A g \in DOMAIN rows' : rows'[g] \in RowType
  BY <1>1, <1>2, <1>3, <1>4
<1>6. rows' = [g \in DOMAIN rows' |-> rows'[g]]
  BY <1>3, <1>4 DEF Put
<1>7. QED
  BY <1>3, <1>5, <1>6 DEF TypeOK

LEMMA RowFacts == ASSUME TypeOK, NEW f PROVE Row(f) \in RowType
<1>1. NoRow \in RowType
  BY ScheduleAssumption, LongestFacts DEF NoRow, RowType
<1>2. QED
  BY <1>1 DEF TypeOK, Row, RowType

LEMMA GoesOnType ==
  ASSUME IInv, NEW w \in Worker, GoesOn(w)
  PROVE  /\ pc' \in [Worker -> {"idle", "next", "fetch", "write"}]
         /\ cur' \in [Worker -> FeedSpec \cup {NoFeed}]
         /\ HasFeed'
BY FeedsAssumption DEF IInv, TypeOK, GoesOn, HasFeed

-------------------------------------------------------------------------------
LEMMA InitInv == Init => IInv
BY FeedsAssumption, ScheduleAssumption DEF Init, IInv, TypeOK, HasFeed

LEMMA ListStep ==
  ASSUME IInv, NEW w \in Worker,
         \/ StartTick(w)
         \/ \E m \in active : RunNow(w, Sub[m])
         \/ \E f \in todo[w] : Take(w, f)
  PROVE  IInv'
<1> USE ScheduleAssumption DEF IInv, TypeOK, HasFeed
<1>1. CASE StartTick(w)
  BY <1>1 DEF StartTick, Due
<1>2. ASSUME NEW m \in active, RunNow(w, Sub[m]) PROVE IInv'
  <2>1. {RunNowFeed(Sub[m])} \in SUBSET FeedSpec
    BY FeedsAssumption
  <2> HIDE DEF IInv, TypeOK, HasFeed
  <2>2. todo' \in [Worker -> SUBSET FeedSpec]
    BY <1>2, <2>1 DEF RunNow, IInv, TypeOK
  <2>3. QED
    BY <1>2, <2>2 DEF RunNow, IInv, TypeOK, HasFeed
<1>3. ASSUME NEW f \in todo[w], Take(w, f) PROVE IInv'
  BY <1>3 DEF Take
<1>4. QED
  BY <1>1, <1>2, <1>3

LEMMA OutcomeStep ==
  ASSUME IInv, NEW w \in Worker, MarkSuccess(w) \/ MarkFailure(w) \/ MarkError(w)
  PROVE  IInv'
<1>1. pc[w] \in {"fetch", "write"} /\ cur[w] \in FeedSpec /\ GoesOn(w)
  BY DEF MarkSuccess, MarkFailure, MarkError, IInv, HasFeed
<1>2. DOMAIN rows' \subseteq FeedSpec /\ rows' \in [DOMAIN rows' -> RowType]
  <2>1. CASE MarkSuccess(w)
    BY <1>1, <2>1, PutType, LongestFacts, ScheduleAssumption DEF MarkSuccess, IInv
  <2>2. CASE MarkFailure(w)
    <3> DEFINE count == IF read[w] < ManyFailures THEN read[w] + 1 ELSE ManyFailures
    <3>1. count \in 1..ManyFailures
      BY ScheduleAssumption DEF IInv, TypeOK
    <3>2. Put(cur[w], Backoff(count), count)
      BY <2>2 DEF MarkFailure
    <3>3. Backoff(count) \in 0..Longest /\ count \in 0..ManyFailures
      BY <3>1, LongestFacts, ScheduleAssumption
    <3> HIDE DEF count
    <3>4. QED
      BY <1>1, <3>2, <3>3, PutType DEF IInv
  <2>3. CASE MarkError(w)
    BY <2>3 DEF MarkError, IInv, TypeOK, RowType
  <2>4. QED
    BY <2>1, <2>2, <2>3
<1>3. read' \in [Worker -> 0..ManyFailures]
  BY ScheduleAssumption DEF MarkSuccess, MarkFailure, MarkError, IInv, TypeOK
<1>4. todo' = todo /\ active' = active /\ plan' = plan /\ events' \in 0..MaxEvents
  BY <1>1, ScheduleAssumption DEF MarkSuccess, MarkFailure, MarkError, GoesOn, IInv, TypeOK
<1>5. QED
  BY <1>1, <1>2, <1>3, <1>4, GoesOnType DEF IInv, TypeOK, RowType

LEMMA FetchFailsStep == ASSUME IInv, NEW w \in Worker, FetchFails(w) PROVE IInv'
<1>1. Row(cur[w]).failures \in 0..ManyFailures
  BY RowFacts DEF IInv, RowType
<1>2. QED
  BY <1>1 DEF FetchFails, IInv, TypeOK, HasFeed

LEMMA KillStep == ASSUME IInv, NEW w \in Worker, Kill(w) PROVE IInv'
BY ScheduleAssumption DEF Kill, IInv, TypeOK, HasFeed

LEMMA EditStep == ASSUME IInv, NEW m \in Monitor, EditMonitor(m) PROVE IInv'
<1>1. active' \in SUBSET Monitor /\ plan' = Plan(active')
  BY DEF EditMonitor, IInv, TypeOK
<1>2. plan' \subseteq FeedSpec
  BY <1>1, FeedsAssumption
<1>3. events' \in 0..MaxEvents
  BY ScheduleAssumption DEF EditMonitor, IInv, TypeOK
<1>4. UNCHANGED <<rows, pc, todo, cur, read>>
  BY DEF EditMonitor, tick
<1>5. QED
  BY <1>1, <1>2, <1>3, <1>4 DEF IInv, TypeOK, HasFeed

LEMMA TimeStep == ASSUME IInv, Time PROVE IInv'
<1>1. \A f \in DOMAIN rows : rows[f] \in RowType
  BY DEF IInv, TypeOK, RowType
<1>2. ASSUME NEW f \in DOMAIN rows
      PROVE  (IF rows[f].wait > 0 THEN [rows[f] EXCEPT !.wait = @ - 1] ELSE rows[f]) \in RowType
  BY <1>1, LongestFacts DEF RowType
<1>3. DOMAIN rows' = DOMAIN rows /\ rows' \in [DOMAIN rows' -> RowType]
  BY <1>2 DEF Time
<1>4. QED
  BY <1>3 DEF Time, tick, IInv, TypeOK, HasFeed, RowType

LEMMA NextInv == IInv /\ [Next]_vars => IInv'
<1> SUFFICES ASSUME IInv, [Next]_vars PROVE IInv'
  OBVIOUS
<1>1. ASSUME NEW w \in Worker, StartTick(w) \/ (\E m \in active : RunNow(w, Sub[m])) PROVE IInv'
  BY <1>1, ListStep
<1>2. ASSUME NEW w \in Worker, Work(w) PROVE IInv'
  BY <1>2, ListStep, OutcomeStep, FetchFailsStep DEF Work
<1>3. ASSUME NEW w \in Worker, MarkError(w) \/ Kill(w) PROVE IInv'
  BY <1>3, OutcomeStep, KillStep
<1>4. CASE \E m \in Monitor : EditMonitor(m)
  BY <1>4, EditStep
<1>5. CASE Time
  BY <1>5, TimeStep
<1>6. CASE UNCHANGED vars
  BY <1>6 DEF vars, tick, IInv, TypeOK, HasFeed
<1>7. QED
  BY <1>1, <1>2, <1>3, <1>4, <1>5, <1>6 DEF Next

(* Every variable keeps its type, and no feed waits longer than the interval or the
   longest backoff, whatever outcomes overlap (scheduling.py 92-150, 183-186). *)
THEOREM TypeCorrect == Spec => []TypeOK
<1>1. IInv => TypeOK
  BY DEF IInv
<1>2. QED
  BY <1>1, InitInv, NextInv, PTL DEF Spec

-------------------------------------------------------------------------------
(* The plan is always the one of the active monitors. *)
PlanOfActive == active \subseteq Monitor /\ plan = Plan(active)

LEMMA PlanInv == Spec => []PlanOfActive
<1>1. Init => PlanOfActive
  BY DEF Init, PlanOfActive
<1>2. PlanOfActive /\ [Next]_vars => PlanOfActive'
  <2> SUFFICES ASSUME PlanOfActive, [Next]_vars PROVE PlanOfActive'
    OBVIOUS
  <2>1. CASE \E m \in Monitor : EditMonitor(m)
    BY <2>1 DEF EditMonitor, PlanOfActive
  <2>2. CASE UNCHANGED <<active, plan>>
    BY <2>2 DEF PlanOfActive
  <2>3. (\E m \in Monitor : EditMonitor(m)) \/ UNCHANGED <<active, plan>>
    BY DEF Next, Work, StartTick, RunNow, Take, MarkSuccess, FetchFails, MarkFailure, MarkError,
           Kill, Time, vars
  <2>4. QED
    BY <2>1, <2>2, <2>3
<1>3. QED
  BY <1>1, <1>2, PTL DEF Spec

(* The plan serves every usable monitor with comments and posts, fetches nothing for
   nobody, and keeps to the limit of words (planning.py). *)
THEOREM PlanServesMonitorsHolds == Spec => []PlanServesMonitors
<1>1. PlanOfActive => PlanServesMonitors
  BY PlanServes DEF PlanOfActive, PlanServesMonitors
<1>2. QED
  BY <1>1, PlanInv, PTL

(* Whatever order the spellings of a keyword are enumerated in, the same feeds are
   planned (planning.py, query_fingerprint). *)
THEOREM PlanIsStableHolds == Spec => []PlanIsStable
<1>1. PlanOfActive => PlanIsStable
  <2> SUFFICES ASSUME PlanOfActive, NEW m \in active PROVE Cardinality(Searches(active, Sub[m])) <= 1
    BY DEF PlanIsStable
  <2>1. PICK s : Searches(active, Sub[m]) = {SearchFeeds(Sub[m], s)}
    BY OneSearch DEF PlanOfActive
  <2>2. QED
    BY <2>1, FS_Singleton
<1>2. QED
  BY <1>1, PlanInv, PTL
===============================================================================
