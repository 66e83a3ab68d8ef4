-------------------------- MODULE RedditClientProofs --------------------------
(***************************************************************************)
(* Proofs about RedditClient for any number of threads and requests, any   *)
(* token lifetimes and any pages: its types, that the lock of the token    *)
(* cache, held from asking to caching, keeps old and refused tokens out of *)
(* it, and what the parsers make of any document.                          *)
(***************************************************************************)
EXTENDS RedditClient, InductionLemmas

(* The parsers: the items of a JSON document. *)
Ids(doc) == DOMAIN doc.nodes

(* The children of node n in document order, and n's own row, from the rows f of
   the nodes after it. *)
Kids(doc, f, n) ==
  FlattenSeq([k \in DOMAIN doc.nodes[n].kids |-> f[doc.nodes[n].kids[k]]])
Row(doc, f, n) ==
  CASE doc.nodes[n].kind \in {"t1", "t3"} -> <<n>> \o Kids(doc, f, n)
    [] doc.nodes[n].kind = "Listing"      -> Kids(doc, f, n)
    [] OTHER                              -> <<>>

(* The children of a node come after it. *)
LEMMA KidsAfter ==
  ASSUME NEW doc, JsonDocument(doc), NEW n \in Ids(doc)
  PROVE  /\ Len(doc.nodes) \in Nat /\ Ids(doc) = 1..Len(doc.nodes)
         /\ doc.nodes[n].kids \in Seq((n + 1)..Len(doc.nodes))
<1>1. doc.nodes \in Seq(Range(doc.nodes))
  BY DEF JsonDocument
<1>2. \A m \in DOMAIN doc.nodes : doc.nodes[m].kids \in Seq((m + 1)..Len(doc.nodes))
  BY Zenon DEF JsonDocument
<1>3. QED
  BY <1>1, <1>2 DEF Ids

Below(doc) == CHOOSE f : f = [n \in DOMAIN doc.nodes |-> Row(doc, f, n)]

LEMMA RowsType ==
  ASSUME NEW doc, JsonDocument(doc), NEW f, NEW n \in Ids(doc),
         \A m \in Ids(doc) : m > n => f[m] \in Seq(Ids(doc))
  PROVE  Row(doc, f, n) \in Seq(Ids(doc))
<1> DEFINE kids == doc.nodes[n].kids
           rows == [k \in DOMAIN kids |-> f[kids[k]]]
<1>1. /\ kids \in Seq((n + 1)..Len(doc.nodes)) /\ Ids(doc) = 1..Len(doc.nodes)
      /\ Len(doc.nodes) \in Nat
  BY KidsAfter
<1> HIDE DEF kids
<1>2. ASSUME NEW k \in DOMAIN kids PROVE f[kids[k]] \in Seq(Ids(doc))
  <2>1. kids[k] \in (n + 1)..Len(doc.nodes)
    BY <1>1
  <2>2. kids[k] \in Ids(doc) /\ kids[k] > n
    BY <1>1, <2>1
  <2>3. QED
    BY <2>2
<1>3. rows \in Seq(Seq(Ids(doc)))
  <2>1. rows \in [1..Len(kids) -> Seq(Ids(doc))] /\ Len(kids) \in Nat
    BY <1>1, <1>2
  <2> HIDE DEF rows
  <2>2. QED
    BY <2>1, SeqDef
<1>4. Kids(doc, f, n) \in Seq(Ids(doc))
  BY <1>3, FlattenType DEF Kids, kids
<1>5. <<n>> \o Kids(doc, f, n) \in Seq(Ids(doc)) /\ <<>> \in Seq(Ids(doc))
  BY <1>4
<1>6. QED
  BY <1>4, <1>5 DEF Row

(* A row is determined by the rows after it. *)
LEMMA RowsAgree ==
  ASSUME NEW doc, JsonDocument(doc), NEW f, NEW g, NEW n \in Ids(doc),
         \A m \in Ids(doc) : m > n => f[m] = g[m]
  PROVE  Row(doc, f, n) = Row(doc, g, n)
<1> DEFINE kids == doc.nodes[n].kids
<1>1. /\ kids \in Seq((n + 1)..Len(doc.nodes)) /\ Ids(doc) = 1..Len(doc.nodes)
      /\ Len(doc.nodes) \in Nat
  BY KidsAfter
<1> HIDE DEF kids
<1>2. ASSUME NEW k \in DOMAIN kids PROVE f[kids[k]] = g[kids[k]]
  <2>1. kids[k] \in (n + 1)..Len(doc.nodes)
    BY <1>1
  <2>2. kids[k] \in Ids(doc) /\ kids[k] > n
    BY <1>1, <2>1
  <2>3. QED
    BY <2>2
<1>3. [k \in DOMAIN kids |-> f[kids[k]]] = [k \in DOMAIN kids |-> g[kids[k]]]
  BY <1>2
<1>4. Kids(doc, f, n) = Kids(doc, g, n)
  BY <1>3 DEF Kids, kids
<1>5. QED
  BY <1>4 DEF Row

(* The recursion from the last node to the first has a solution. *)
LEMMA RowsExist ==
  ASSUME NEW doc, JsonDocument(doc)
  PROVE  Below(doc) = [n \in DOMAIN doc.nodes |-> Row(doc, Below(doc), n)]
<1> DEFINE N == Len(doc.nodes)
           A == [1..N -> Seq(1..N)]
           a0 == [n \in 1..N |-> <<>>]
           step == [k \in 1..N |-> [f \in A |-> [f EXCEPT ![N - k + 1] = Row(doc, f, N - k + 1)]]]
<1>1. N \in Nat /\ Ids(doc) = 1..N /\ DOMAIN doc.nodes = 1..N
  BY DEF JsonDocument, Ids
<1>2. ASSUME NEW f \in A, NEW n \in 1..N PROVE Row(doc, f, n) \in Seq(1..N)
  <2>1. \A m \in Ids(doc) : f[m] \in Seq(Ids(doc))
    BY <1>1
  <2> HIDE DEF A, N
  <2>2. QED
    BY <1>1, <2>1, RowsType
<1>3. step \in [1..N -> [A -> A]]
  <2>1. ASSUME NEW k \in 1..N, NEW f \in A
        PROVE  [f EXCEPT ![N - k + 1] = Row(doc, f, N - k + 1)] \in A
    <3>1. N - k + 1 \in 1..N
      BY <1>1
    <3>2. Row(doc, f, N - k + 1) \in Seq(1..N)
      BY <1>2, <3>1
    <3>3. QED
      BY <3>1, <3>2
  <2> HIDE DEF A
  <2>2. QED
    BY <2>1
<1>4. PICK h \in [0..N -> A] : h[0] = a0 /\ \A k \in 1..N : h[k] = step[k][h[k - 1]]
  <2>1. a0 \in A
    OBVIOUS
  <2>2. N \in Nat
    BY <1>1
  <2> HIDE DEF A, a0, step, N
  <2>3. QED
    BY <1>3, <2>1, <2>2, LoopExists, SMTT(60)
<1>5. ASSUME NEW k \in 1..N
      PROVE  /\ h[k - 1] \in A
             /\ h[k] = [h[k - 1] EXCEPT ![N - k + 1] = Row(doc, h[k - 1], N - k + 1)]
  <2>1. k - 1 \in 0..N
    BY <1>1
  <2>2. h[k - 1] \in A
    <3> HIDE DEF A, N
    <3> QED
      BY <2>1
  <2>3. step[k][h[k - 1]] = [h[k - 1] EXCEPT ![N - k + 1] = Row(doc, h[k - 1], N - k + 1)]
    <3> HIDE DEF A
    <3> QED
      BY <2>2
  <2>4. QED
    BY <1>4, <2>2, <2>3
<1> HIDE DEF step
(* The last k rows are right after k steps. *)
<1> DEFINE Right(f, k) == \A n \in 1..N : n > N - k => f[n] = Row(doc, f, n)
           Good == {k \in Nat : k <= N => Right(h[k], k)}
<1>6. 0 \in Good
  BY <1>1
<1>7. ASSUME NEW k \in Nat, k \in Good PROVE k + 1 \in Good
  <2> SUFFICES ASSUME k + 1 <= N PROVE Right(h[k + 1], k + 1)
    OBVIOUS
  <2> DEFINE at == N - k
             f == h[k]
             g == h[k + 1]
  <2>1. k + 1 \in 1..N /\ (k + 1) - 1 = k /\ N - (k + 1) + 1 = at /\ at \in 1..N /\ k <= N
    BY <1>1
  <2>2. f \in A /\ g = [f EXCEPT ![at] = Row(doc, f, at)]
    <3> HIDE DEF A, N, at
    <3> QED
      BY <1>5, <2>1
  <2>3. Right(f, k)
    BY <1>7, <2>1
  <2> HIDE DEF f, g
  <2>4. \A n \in 1..N : n # at => g[n] = f[n]
    BY <2>1, <2>2
  <2>5. g[at] = Row(doc, f, at)
    BY <2>1, <2>2
  <2>6. ASSUME NEW n \in 1..N, n >= at PROVE Row(doc, f, n) = Row(doc, g, n)
    <3>1. \A m \in Ids(doc) : m > n => f[m] = g[m]
      BY <1>1, <2>1, <2>4, <2>6
    <3> HIDE DEF at, N, A
    <3>2. QED
      BY <1>1, <3>1, RowsAgree
  <2>7. ASSUME NEW n \in 1..N, n > N - (k + 1) PROVE g[n] = Row(doc, g, n)
    <3>1. n >= at
      BY <1>1, <2>7
    <3>2. CASE n = at
      BY <2>5, <2>6, <3>1, <3>2
    <3>3. CASE n # at
      <4>1. n > N - k
        BY <1>1, <3>1, <3>3
      <4>2. QED
        BY <2>3, <2>4, <2>6, <3>1, <3>3, <4>1
    <3>4. QED
      BY <3>2, <3>3
  <2>8. QED
    BY <2>7 DEF g
<1>8. Nat \subseteq Good
  <2> HIDE DEF Good
  <2> QED
    BY <1>6, <1>7, NatSetInduction
<1>9. Right(h[N], N) /\ h[N] \in A
  <2>1. N \in 0..N /\ N <= N
    BY <1>1
  <2>2. h[N] \in A
    <3> HIDE DEF A, N
    <3> QED
      BY <2>1
  <2>3. QED
    BY <1>1, <1>8, <2>1, <2>2
<1>10. h[N] = [n \in DOMAIN doc.nodes |-> Row(doc, h[N], n)]
  <2>1. \A n \in 1..N : h[N][n] = Row(doc, h[N], n)
    BY <1>1, <1>9
  <2>2. DOMAIN h[N] = 1..N /\ h[N] = [n \in 1..N |-> h[N][n]]
    BY <1>9
  <2> HIDE DEF A, Good, Right
  <2>3. QED
    BY <1>1, <2>1, <2>2
<1>11. QED
  BY <1>10, Zenon DEF Below

LEMMA BelowType ==
  ASSUME NEW doc, JsonDocument(doc)
  PROVE  Below(doc) \in [Ids(doc) -> Seq(Ids(doc))]
<1> DEFINE N == Len(doc.nodes)
           f == Below(doc)
           Good == {k \in Nat : \A n \in 1..N : n > N - k => f[n] \in Seq(1..N)}
<1>1. N \in Nat /\ Ids(doc) = 1..N /\ DOMAIN doc.nodes = 1..N
  BY DEF JsonDocument, Ids
<1>2. f = [n \in 1..N |-> Row(doc, f, n)]
  BY <1>1, RowsExist
<1> HIDE DEF f
<1>3. 0 \in Good
  BY <1>1
<1>4. ASSUME NEW k \in Nat, k \in Good PROVE k + 1 \in Good
  <2> SUFFICES ASSUME NEW n \in 1..N, n > N - (k + 1) PROVE f[n] \in Seq(1..N)
    BY <1>1
  <2>1. \A m \in Ids(doc) : m > n => f[m] \in Seq(Ids(doc))
    BY <1>1, <1>4
  <2> HIDE DEF N, Good
  <2>2. Row(doc, f, n) \in Seq(Ids(doc))
    BY <1>1, <2>1, RowsType
  <2>3. QED
    BY <1>1, <1>2, <2>2
<1>5. Nat \subseteq Good
  <2> HIDE DEF Good
  <2> QED
    BY <1>3, <1>4, NatSetInduction
<1>6. \A n \in 1..N : f[n] \in Seq(1..N)
  BY <1>1, <1>5
<1>7. QED
  BY <1>1, <1>2, <1>6 DEF f

(* The items of a document are nodes of it. *)
LEMMA ItemsType ==
  ASSUME NEW doc, JsonDocument(doc)
  PROVE  JsonItems(doc) \in Seq(Ids(doc))
<1> DEFINE tops == [k \in DOMAIN doc.top |-> Below(doc)[doc.top[k]]]
<1>1. JsonItems(doc) = FlattenSeq(tops)
  BY Zenon DEF JsonItems, Below, Row, Kids
<1>2. doc.top \in Seq(Ids(doc))
  BY DEF JsonDocument, Ids
<1>3. tops \in Seq(Seq(Ids(doc)))
  <2>1. tops \in [1..Len(doc.top) -> Seq(Ids(doc))] /\ Len(doc.top) \in Nat
    BY <1>2, BelowType
  <2> HIDE DEF tops
  <2>2. QED
    BY <2>1, SeqDef
<1>4. QED
  BY <1>1, <1>3, FlattenType
-------------------------------------------------------------------------------
(* What the payloads of a document are made of. *)
NamesOf(doc)  == {doc.nodes[n].name : n \in Ids(doc)}
TitlesOf(doc) == {NoTitle} \cup {doc.nodes[n].title : n \in Ids(doc)}
BodiesOf(doc) == {JsonBody(doc.nodes[n]) : n \in Ids(doc)}
PayloadsOf(doc) ==
  [name : NamesOf(doc), type : {"post", "comment"}, title : TitlesOf(doc), body : BodiesOf(doc)]
Loop(doc) ==
  [payloads : Seq(PayloadsOf(doc)), seen : SUBSET NamesOf(doc), post : TitlesOf(doc)]

NothingRead == [payloads |-> <<>>, seen |-> {}, post |-> NoTitle]

LEMMA ItemTypes == \A name : ItemType(name) \in {"post", "comment", "none"}
BY DEF ItemType

LEMMA JsonPayloadType ==
  ASSUME NEW doc, NEW n \in Ids(doc), PayloadFromJson(doc.nodes[n]) # NoPayload
  PROVE  LET node == doc.nodes[n]
             p    == PayloadFromJson(node)
         IN /\ p \in PayloadsOf(doc)
            /\ p = [name |-> node.name, type |-> ItemType(node.name), title |-> node.title,
                    body |-> JsonBody(node)]
            /\ p.name = node.name /\ p.title = node.title
<1> DEFINE node == doc.nodes[n]
           p == PayloadFromJson(node)
<1>1. /\ node.name \in NamesOf(doc) /\ node.title \in TitlesOf(doc)
      /\ JsonBody(node) \in BodiesOf(doc)
  BY DEF NamesOf, TitlesOf, BodiesOf
<1>2. p = [name |-> node.name, type |-> ItemType(node.name), title |-> node.title,
           body |-> JsonBody(node)]
      /\ ItemType(node.name) # "none"
  BY DEF PayloadFromJson, Payload
<1>3. ItemType(node.name) \in {"post", "comment"}
  BY <1>2, ItemTypes
<1> HIDE DEF node, p
<1>4. p \in PayloadsOf(doc)
  BY <1>1, <1>2, <1>3 DEF PayloadsOf
<1>5. QED
  BY <1>2, <1>4 DEF node, p

(* What one round of the loop makes of its variables. *)
Borrows(acc, p) == p.type = "comment" /\ p.title = NoTitle /\ acc.post # NoTitle
Skips(acc, p) == p = NoPayload \/ p.name \in acc.seen
Reads(doc, acc, p, next) ==
  /\ Skips(acc, p) => next = acc
  /\ ~Skips(acc, p) =>
       /\ next.seen = acc.seen \cup {p.name}
       /\ next.post = IF p.type = "post" THEN p.title ELSE acc.post
       /\ \E q \in PayloadsOf(doc) :
            /\ next.payloads = Append(acc.payloads, q)
            /\ q.name = p.name /\ q.type = p.type
            /\ IF Borrows(acc, p) THEN q.title = acc.post ELSE q = p

LEMMA OneItem ==
  ASSUME NEW doc, NEW n \in Ids(doc), NEW acc \in Loop(doc)
  PROVE  /\ JsonStep(acc, doc.nodes[n]) \in Loop(doc)
         /\ Reads(doc, acc, PayloadFromJson(doc.nodes[n]), JsonStep(acc, doc.nodes[n]))
<1> DEFINE node == doc.nodes[n]
           p == PayloadFromJson(node)
           next == JsonStep(acc, node)
<1>1. /\ acc.payloads \in Seq(PayloadsOf(doc)) /\ acc.seen \in SUBSET NamesOf(doc)
      /\ acc.post \in TitlesOf(doc)
  BY DEF Loop
<1>2. CASE Skips(acc, p)
  <2>1. next = acc
    BY <1>2 DEF JsonStep, Skips
  <2>2. QED
    BY <1>2, <2>1 DEF Reads
<1>3. CASE ~Skips(acc, p)
  <2> DEFINE q == IF Borrows(acc, p) THEN [p EXCEPT !.title = acc.post] ELSE p
             post == IF p.type = "post" THEN p.title ELSE acc.post
  <2>1. next = [payloads |-> Append(acc.payloads, q), seen |-> acc.seen \cup {p.name}, post |-> post]
    BY <1>3, Zenon DEF JsonStep, Skips, Borrows
  <2>2. p \in PayloadsOf(doc)
    <3>1. p # NoPayload
      BY <1>3 DEF Skips
    <3>2. QED
      BY <3>1, JsonPayloadType
  <2> HIDE DEF p, next
  <2>3. p.name \in NamesOf(doc) /\ p.title \in TitlesOf(doc)
    BY <2>2 DEF PayloadsOf
  <2>4. /\ q \in PayloadsOf(doc) /\ q.name = p.name /\ q.type = p.type
        /\ IF Borrows(acc, p) THEN q.title = acc.post ELSE q = p
    <3>1. CASE Borrows(acc, p)
      <4>1. q = [p EXCEPT !.title = acc.post]
        BY <3>1
      <4>2. q \in PayloadsOf(doc) /\ q.name = p.name /\ q.type = p.type /\ q.title = acc.post
        BY <1>1, <2>2, <4>1 DEF PayloadsOf
      <4>3. QED
        BY <3>1, <4>2
    <3>2. CASE ~Borrows(acc, p)
      BY <2>2, <3>2
    <3>3. QED
      BY <3>1, <3>2
  <2>5. post \in TitlesOf(doc)
    BY <1>1, <2>3
  <2> HIDE DEF q, post
  <2>6. next \in Loop(doc)
    <3>1. Append(acc.payloads, q) \in Seq(PayloadsOf(doc)) /\ acc.seen \cup {p.name} \in SUBSET NamesOf(doc)
      BY <1>1, <2>3, <2>4
    <3>2. QED
      BY <2>1, <2>5, <3>1 DEF Loop
  <2>7. next.seen = acc.seen \cup {p.name} /\ next.post = post /\ next.payloads = Append(acc.payloads, q)
    BY <2>1
  <2>8. Reads(doc, acc, p, next)
    BY <1>3, <2>4, <2>7 DEF Reads, post
  <2>9. QED
    BY <2>6, <2>8 DEF p, next
<1>4. QED
  BY <1>2, <1>3

(* The loop over the items runs: each value comes from the one before. *)
AfterItems(doc) ==
  CHOOSE f : f = [k \in 0..Len(JsonItems(doc)) |->
                    IF k = 0 THEN NothingRead
                    ELSE JsonStep(f[k - 1], doc.nodes[JsonItems(doc)[k]])]

LEMMA ParseJsonIsAfter ==
  ASSUME NEW doc
  PROVE  ParseJson(doc) = AfterItems(doc)[Len(JsonItems(doc))].payloads
BY Zenon DEF ParseJson, AfterItems, NothingRead

LEMMA ItemsRun ==
  ASSUME NEW doc, JsonDocument(doc)
  PROVE  /\ AfterItems(doc)[0] = NothingRead
         /\ \A k \in 1..Len(JsonItems(doc)) :
              AfterItems(doc)[k] = JsonStep(AfterItems(doc)[k - 1], doc.nodes[JsonItems(doc)[k]])
         /\ \A k \in 0..Len(JsonItems(doc)) : AfterItems(doc)[k] \in Loop(doc)
<1> DEFINE items == JsonItems(doc)
           n == Len(items)
           step == [k \in 1..n |-> [acc \in Loop(doc) |-> JsonStep(acc, doc.nodes[items[k]])]]
<1>1. n \in Nat /\ \A k \in 1..n : items[k] \in Ids(doc)
  BY ItemsType
<1> HIDE DEF items
<1>2. step \in [1..n -> [Loop(doc) -> Loop(doc)]]
  BY <1>1, OneItem
<1>3. NothingRead \in Loop(doc)
  <2>1. <<>> \in Seq(PayloadsOf(doc)) /\ {} \in SUBSET NamesOf(doc) /\ NoTitle \in TitlesOf(doc)
    BY DEF TitlesOf
  <2>2. QED
    BY <2>1 DEF NothingRead, Loop
<1>4. PICK h \in [0..n -> Loop(doc)] :
        h[0] = NothingRead /\ \A k \in 1..n : h[k] = step[k][h[k - 1]]
  <2> DEFINE A == Loop(doc)
             a0 == NothingRead
  <2>1. a0 \in A /\ step \in [1..n -> [A -> A]] /\ n \in Nat
    BY <1>1, <1>2, <1>3
  <2> HIDE DEF A, a0, step, n
  <2>2. \E h \in [0..n -> A] : h[0] = a0 /\ \A k \in 1..n : h[k] = step[k][h[k - 1]]
    BY <2>1, LoopExists, SMTT(60)
  <2>3. QED
    BY <2>2 DEF A, a0
<1>5. ASSUME NEW k \in 1..n PROVE h[k] = JsonStep(h[k - 1], doc.nodes[items[k]])
  <2>1. k - 1 \in 0..n
    BY <1>1
  <2>2. h[k - 1] \in Loop(doc)
    BY <2>1
  <2>3. step[k][h[k - 1]] = JsonStep(h[k - 1], doc.nodes[items[k]])
    BY <2>2
  <2>4. QED
    BY <1>4, <2>3
<1>6. h = [k \in 0..n |-> IF k = 0 THEN NothingRead ELSE JsonStep(h[k - 1], doc.nodes[items[k]])]
  <2> HIDE DEF step
  <2>1. \A k \in 0..n : k = 0 \/ k \in 1..n
    BY <1>1
  <2> HIDE DEF n
  <2>2. \A k \in 0..n : h[k] = IF k = 0 THEN NothingRead ELSE JsonStep(h[k - 1], doc.nodes[items[k]])
    BY <1>4, <1>5, <2>1
  <2>3. QED
    BY <2>2
<1> DEFINE f == AfterItems(doc)
<1>7. f = [k \in 0..n |-> IF k = 0 THEN NothingRead ELSE JsonStep(f[k - 1], doc.nodes[items[k]])]
  BY <1>6, Zenon DEF AfterItems, items
<1> HIDE DEF f, step
<1>8. f[0] = NothingRead /\ \A k \in 1..n : f[k] = JsonStep(f[k - 1], doc.nodes[items[k]])
  BY <1>1, <1>7
<1>9. \A k \in 0..n : f[k] \in Loop(doc)
  <2> DEFINE Typed == {k \in Nat : k \in 0..n => f[k] \in Loop(doc)}
  <2>1. 0 \in Typed
    BY <1>3, <1>8
  <2>2. ASSUME NEW k \in Nat, k \in Typed PROVE k + 1 \in Typed
    <3> SUFFICES ASSUME k + 1 \in 0..n PROVE f[k + 1] \in Loop(doc)
      OBVIOUS
    <3>1. k + 1 \in 1..n /\ k \in 0..n /\ (k + 1) - 1 = k
      BY <1>1
    <3> HIDE DEF n
    <3>2. f[k + 1] = JsonStep(f[k], doc.nodes[items[k + 1]])
      BY <1>8, <3>1
    <3>3. f[k] \in Loop(doc) /\ items[k + 1] \in Ids(doc)
      BY <1>1, <2>2, <3>1
    <3>4. QED
      BY <3>2, <3>3, OneItem
  <2>3. Nat \subseteq Typed
    <3> HIDE DEF Typed
    <3> QED
      BY <2>1, <2>2, NatSetInduction
  <2>4. QED
    BY <1>1, <2>3
<1>10. QED
  BY <1>8, <1>9 DEF f, items

LEMMA PayloadsType ==
  ASSUME NEW doc, JsonDocument(doc)
  PROVE  ParseJson(doc) \in Seq(PayloadsOf(doc))
<1>1. Len(JsonItems(doc)) \in 0..Len(JsonItems(doc))
  BY ItemsType
<1>2. AfterItems(doc)[Len(JsonItems(doc))] \in Loop(doc)
  BY <1>1, ItemsRun
<1>3. QED
  BY <1>2, ParseJsonIsAfter DEF Loop

-------------------------------------------------------------------------------
(* Where the k-th payload comes from: the first item of its name, whose title it has, or
   the first payload's if there is none. *)
ItemPayload(doc, j) == PayloadFromJson(doc.nodes[JsonItems(doc)[j]])

ComesFrom(doc, got, k, j) ==
  /\ ItemPayload(doc, j) # NoPayload /\ ItemPayload(doc, j).name = got[k].name
  /\ \A i \in 1..(j - 1) : ItemPayload(doc, i) = NoPayload \/ ItemPayload(doc, i).name # got[k].name
  /\ got[k].title = IF ItemPayload(doc, j).title = NoTitle THEN got[1].title
                    ELSE ItemPayload(doc, j).title

(* Of all payloads the first one, and no other, is a post. *)
PostFirst(got) == \A k \in 1..Len(got) : got[k].type = "post" <=> k = 1

(* After n items: their names were seen, and when the first payload is the only post,
   its title is the one that is kept. *)
TitlesRead(doc, a, n) ==
  /\ \A i \in 1..n : ItemPayload(doc, i) = NoPayload \/ ItemPayload(doc, i).name \in a.seen
  /\ PostFirst(a.payloads) =>
       /\ \A k \in 1..Len(a.payloads) : \E j \in 1..n : ComesFrom(doc, a.payloads, k, j)
       /\ Len(a.payloads) # 0 => a.post = a.payloads[1].title

LEMMA TitlesOneItem ==
  ASSUME NEW doc, JsonDocument(doc), NEW n \in Nat, n + 1 \in 1..Len(JsonItems(doc)),
         NEW a \in Loop(doc), TitlesRead(doc, a, n),
         NEW b, Reads(doc, a, ItemPayload(doc, n + 1), b)
  PROVE  TitlesRead(doc, b, n + 1)
<1> DEFINE p == ItemPayload(doc, n + 1)
           m == Len(a.payloads)
<1>1. a.payloads \in Seq(PayloadsOf(doc)) /\ m \in Nat
  BY DEF Loop
<1>2. /\ 1..(n + 1) = 1..n \cup {n + 1} /\ n + 1 \in 1..(n + 1) /\ 1..n \subseteq 1..(n + 1)
      /\ (n + 1) - 1 = n
  OBVIOUS
<1>3. CASE Skips(a, p)
  <2>1. b = a /\ (p = NoPayload \/ p.name \in a.seen)
    BY <1>3 DEF Reads, Skips
  <2>2. \A i \in 1..(n + 1) : ItemPayload(doc, i) = NoPayload \/ ItemPayload(doc, i).name \in b.seen
    BY <1>2, <2>1 DEF TitlesRead
  <2>3. QED
    BY <1>2, <2>1, <2>2 DEF TitlesRead
<1>4. CASE ~Skips(a, p)
  <2>1. PICK q \in PayloadsOf(doc) :
          /\ b.payloads = Append(a.payloads, q)
          /\ q.name = p.name /\ q.type = p.type
          /\ IF Borrows(a, p) THEN q.title = a.post ELSE q = p
    BY <1>4 DEF Reads
  <2>2. /\ b.seen = a.seen \cup {p.name} /\ b.post = IF p.type = "post" THEN p.title ELSE a.post
        /\ p # NoPayload /\ p.name \notin a.seen
    BY <1>4 DEF Reads, Skips
  <2>3. q.type \in {"post", "comment"}
    BY DEF PayloadsOf
  <2> HIDE DEF p
  <2>4. \A i \in 1..(n + 1) : ItemPayload(doc, i) = NoPayload \/ ItemPayload(doc, i).name \in b.seen
    BY <1>2, <2>2 DEF TitlesRead, p
  <2>5. /\ Len(b.payloads) = m + 1 /\ b.payloads[m + 1] = q
        /\ \A k \in 1..m : b.payloads[k] = a.payloads[k]
        /\ 1..(m + 1) = 1..m \cup {m + 1} /\ m + 1 \in 1..(m + 1) /\ 1 \in 1..(m + 1)
    BY <1>1, <2>1
  <2> HIDE DEF m
  <2>6. ASSUME PostFirst(b.payloads)
        PROVE  /\ \A k \in 1..(m + 1) : \E j \in 1..(n + 1) : ComesFrom(doc, b.payloads, k, j)
               /\ b.post = b.payloads[1].title
    <3>1. \A i \in 1..n : ItemPayload(doc, i) = NoPayload \/ ItemPayload(doc, i).name # q.name
      BY <2>1, <2>2 DEF TitlesRead
    <3>2. CASE m = 0
      <4>1. q.type = "post" /\ b.payloads[1] = q
        BY <2>5, <2>6, <3>2 DEF PostFirst
      <4>2. q = p /\ b.post = q.title
        BY <2>1, <2>2, <4>1 DEF Borrows
      <4>3. ComesFrom(doc, b.payloads, 1, n + 1)
        BY <1>2, <2>2, <3>1, <4>1, <4>2 DEF ComesFrom, p
      <4>4. 1..(m + 1) = {1}
        BY <3>2
      <4>5. QED
        BY <1>2, <4>1, <4>2, <4>3, <4>4
    <3>3. CASE m # 0
      <4>1. 1 \in 1..m /\ m + 1 # 1 /\ m + 1 \notin 1..m
        BY <1>1, <3>3 DEF m
      <4>2. PostFirst(a.payloads)
        BY <2>5, <2>6 DEF PostFirst, m
      <4>3. /\ \A k \in 1..m : \E j \in 1..n : ComesFrom(doc, a.payloads, k, j)
            /\ a.post = a.payloads[1].title
        BY <3>3, <4>2 DEF TitlesRead, m
      <4>4. p.type = "comment" /\ b.post = a.post /\ b.payloads[1] = a.payloads[1]
        BY <2>1, <2>2, <2>3, <2>5, <2>6, <4>1 DEF PostFirst
      <4>5. \A k \in 1..m : \E j \in 1..(n + 1) : ComesFrom(doc, b.payloads, k, j)
        BY <1>2, <2>5, <4>1, <4>3, <4>4 DEF ComesFrom
      <4>6. q.title = IF p.title = NoTitle THEN b.payloads[1].title ELSE p.title
        BY <2>1, <4>3, <4>4 DEF Borrows
      <4>7. ComesFrom(doc, b.payloads, m + 1, n + 1)
        BY <1>2, <2>1, <2>2, <2>5, <3>1, <4>6 DEF ComesFrom, p
      <4>8. QED
        BY <1>2, <2>5, <4>3, <4>4, <4>5, <4>7
    <3>4. QED
      BY <3>2, <3>3
  <2>7. QED
    BY <2>4, <2>5, <2>6 DEF TitlesRead
<1>5. QED
  BY <1>3, <1>4

LEMMA TitlesKept ==
  ASSUME NEW doc, JsonDocument(doc), PostFirst(ParseJson(doc))
  PROVE  \A k \in 1..Len(ParseJson(doc)) : \E j \in 1..Len(JsonItems(doc)) :
           ComesFrom(doc, ParseJson(doc), k, j)
<1> DEFINE n == Len(JsonItems(doc))
           acc(k) == AfterItems(doc)[k]
           Good == {k \in Nat : k <= n => TitlesRead(doc, acc(k), k)}
<1>1. n \in Nat /\ \A k \in 1..n : JsonItems(doc)[k] \in Ids(doc)
  BY ItemsType
<1>2. 0 \in Good
  <2>1. acc(0) = NothingRead
    BY ItemsRun
  <2>2. Len(NothingRead.payloads) = 0
    BY DEF NothingRead
  <2>3. QED
    BY <2>1, <2>2 DEF TitlesRead
<1>3. ASSUME NEW k \in Nat, k \in Good PROVE k + 1 \in Good
  <2> SUFFICES ASSUME k + 1 <= n PROVE TitlesRead(doc, acc(k + 1), k + 1)
    OBVIOUS
  <2>1. k + 1 \in 1..n /\ k \in 0..n /\ (k + 1) - 1 = k /\ k <= n
    BY <1>1
  <2>2. TitlesRead(doc, acc(k), k)
    BY <1>3, <2>1
  <2>3. /\ JsonItems(doc)[k + 1] \in Ids(doc) /\ acc(k) \in Loop(doc)
        /\ acc(k + 1) = JsonStep(acc(k), doc.nodes[JsonItems(doc)[k + 1]])
    BY <1>1, <2>1, ItemsRun
  <2> HIDE DEF acc
  <2>4. Reads(doc, acc(k), ItemPayload(doc, k + 1), acc(k + 1))
    BY <2>3, OneItem DEF ItemPayload
  <2>5. QED
    BY <2>1, <2>2, <2>3, <2>4, TitlesOneItem
<1>4. Nat \subseteq Good
  <2> HIDE DEF Good
  <2> QED
    BY <1>2, <1>3, NatSetInduction
<1>5. TitlesRead(doc, acc(n), n)
  <2>1. n <= n
    BY <1>1
  <2> HIDE DEF acc
  <2>2. QED
    BY <1>1, <1>4, <2>1
<1>6. QED
  BY <1>5, ParseJsonIsAfter DEF TitlesRead
-------------------------------------------------------------------------------
(* The Atom form of a body, with or without the footer. *)
LEMMA BodyCut ==
  ASSUME NEW html, html \in Seq(Range(html)), NEW tail \in {<<>>, <<Footer>>}, NEW entry,
         entry.content = html \o tail
  PROVE  /\ IsPrefix(AtomBody(entry), html)
         /\ Footer \in ToSet(html) \/ AtomBody(entry) = html
<1> DEFINE W == Range(html) \cup {Footer}
           content == entry.content
           I == {i \in 1..Len(content) : content[i] = Footer}
           end == IF I # {} THEN Min(I) ELSE 0
           n == Len(html)
<1>1. /\ html \in Seq(W) /\ tail \in Seq(W) /\ content \in Seq(W) /\ n \in Nat
      /\ Len(content) = n + Len(tail) /\ Len(content) \in Nat /\ Len(tail) \in 0..1
  <2>1. html \in Seq(W)
    <3>1. Range(html) \subseteq W
      OBVIOUS
    <3> HIDE DEF W
    <3>2. QED
      BY <3>1
  <2>2. tail \in Seq(W) /\ Len(tail) \in 0..1
    <3>1. Footer \in W
      OBVIOUS
    <3> HIDE DEF W
    <3>2. <<>> \in Seq(W) /\ Len(<<>>) = 0 /\ <<Footer>> \in Seq(W) /\ Len(<<Footer>>) = 1
      BY <3>1
    <3>3. CASE tail = <<>>
      BY <3>2, <3>3
    <3>4. CASE tail = <<Footer>>
      BY <3>2, <3>4
    <3>5. QED
      BY <3>3, <3>4
  <2> HIDE DEF W
  <2>3. QED
    BY <2>1, <2>2
<1>2. /\ \A i \in 1..n : content[i] = html[i]
      /\ \A i \in 1..Len(content) : i <= n \/ (i = n + 1 /\ tail = <<Footer>>)
      /\ tail = <<Footer>> => Len(content) = n + 1 /\ content[n + 1] = Footer
      /\ tail = <<>> => content = html
  <2>1. tail = <<Footer>> => Len(tail) = 1 /\ tail[1] = Footer
    OBVIOUS
  <2>2. tail = <<>> => Len(tail) = 0
    OBVIOUS
  <2> HIDE DEF W
  <2>3. \A i \in 1..n : content[i] = html[i]
    BY <1>1
  <2>4. CASE tail = <<Footer>>
    <3>1. Len(content) = n + 1 /\ content[n + 1] = tail[1]
      BY <1>1, <2>1, <2>4
    <3>2. QED
      BY <1>1, <2>1, <2>3, <2>4, <3>1
  <2>5. CASE tail = <<>>
    <3>1. content = html
      BY <1>1, <2>5
    <3>2. tail # <<Footer>> /\ Len(content) = n
      BY <1>1, <2>1, <2>2, <2>5
    <3>3. QED
      BY <1>1, <2>3, <3>1, <3>2
  <2>6. QED
    BY <2>4, <2>5
<1>3. AtomBody(entry) = IF end = 0 THEN content ELSE SubSeq(content, 1, end - 1)
  BY DEF AtomBody, SelectInSeq
<1>4. CASE I = {}
  <2>1. tail = <<>>
    <3> HIDE DEF content
    <3>1. ASSUME tail = <<Footer>> PROVE FALSE
      <4>1. n + 1 \in 1..Len(content)
        BY <1>1, <1>2, <3>1
      <4>2. QED
        BY <1>2, <1>4, <3>1, <4>1
    <3>2. QED
      BY <3>1
  <2>2. AtomBody(entry) = html
    BY <1>2, <1>3, <1>4, <2>1
  <2> HIDE DEF end, content, I, W
  <2>3. IsPrefix(html, html)
    BY <1>1 DEF IsPrefix
  <2>4. QED
    BY <2>2, <2>3
<1>5. CASE I # {}
  <2>1. I \in SUBSET Nat
    BY <1>1
  <2>2. \E i \in I : \A j \in I : i <= j
    <3> HIDE DEF I
    <3> QED
      BY <1>5, <2>1, LeastNumber
  <2>3. Min(I) \in I /\ \A j \in I : Min(I) <= j
    <3> HIDE DEF I
    <3> QED
      BY <2>2 DEF Min
  <2>4. end = Min(I)
    BY <1>5
  <2> HIDE DEF end
  <2>5. /\ end \in 1..Len(content) /\ content[end] = Footer
        /\ \A j \in 1..Len(content) : content[j] = Footer => end <= j
    BY <2>3, <2>4
  <2> HIDE DEF I, content
  <2>6. end \in Nat /\ end # 0 /\ end <= n + 1
    BY <1>1, <1>2, <2>5
  <2>7. AtomBody(entry) = SubSeq(content, 1, end - 1)
    BY <1>3, <2>6
  <2>8. SubSeq(content, 1, end - 1) = SubSeq(html, 1, end - 1)
    <3>1. \A i \in 1..(end - 1) : content[i] = html[i]
      BY <1>2, <2>6
    <3>2. 1..Len(html) = 1..n /\ end - 1 <= n /\ end - 1 <= Len(content) /\ end - 1 \in Nat
      BY <1>1, <2>5, <2>6
    <3> HIDE DEF W
    <3>3. QED
      BY <1>1, <3>1, <3>2
  <2>9. IsPrefix(SubSeq(html, 1, end - 1), html)
    <3> DEFINE s == SubSeq(html, 1, end - 1)
    <3>1. /\ s \in Seq(W) /\ Len(s) = end - 1 /\ end - 1 <= Len(html)
      BY <1>1, <2>6
    <3>2. SubSeq(s, 1, Len(s)) = s
      BY <3>1
    <3> HIDE DEF s
    <3>3. SubSeq(html, 1, Len(s)) = s
      BY <3>1 DEF s
    <3>4. QED
      BY <3>1, <3>2, <3>3 DEF IsPrefix, s
  <2>10. CASE end = n + 1
    <3>1. SubSeq(html, 1, end - 1) = html
      BY <1>1, <2>10
    <3>2. QED
      BY <2>7, <2>8, <2>9, <3>1
  <2>11. CASE end # n + 1
    <3>1. end \in 1..n
      BY <1>1, <2>5, <2>6, <2>11
    <3>2. html[end] = Footer
      BY <1>2, <2>5, <3>1
    <3>3. Footer \in ToSet(html)
      BY <1>1, <3>1, <3>2 DEF ToSet
    <3>4. QED
      BY <2>7, <2>8, <2>9, <3>3
  <2>12. QED
    BY <2>10, <2>11
<1>6. QED
  BY <1>4, <1>5

(* What the Atom form a of a payload keeps of its JSON form p. *)
SameButFooter(a, p) == IsPrefix(a.body, p.body) /\ (Footer \in ToSet(p.body) \/ a = p)

LEMMA ByChanged ==
  ASSUME NEW title, NEW b, NEW c, title = [of |-> title.of, by |-> b]
  PROVE  [[title EXCEPT !.by = c] EXCEPT !.by = b] = title
<1>1. ASSUME NEW of, NEW x, NEW y
      PROVE  [[of |-> of, by |-> x] EXCEPT !.by = y] = [of |-> of, by |-> y]
  OBVIOUS
<1> DEFINE of == title.of
<1>2. title = [of |-> of, by |-> b]
  OBVIOUS
<1> HIDE DEF of
<1>3. QED
  BY <1>1, <1>2

LEMMA EntryMatches ==
  ASSUME NEW doc, JsonDocument(doc), NEW n \in Ids(doc), doc.nodes[n].html # <<>>
  PROVE  LET node == doc.nodes[n]
             a == PayloadFromAtom(AtomEntry(node))
             p == PayloadFromJson(node)
         IN /\ a = NoPayload <=> p = NoPayload
            /\ p # NoPayload => SameButFooter(a, p)
<1> DEFINE node == doc.nodes[n]
           e == AtomEntry(node)
           tail == IF ItemType(node.name) = "post" THEN <<Footer>> ELSE <<>>
<1>1. /\ node.title = [of |-> node.title.of, by |-> FALSE] /\ node.html \in Seq(Range(node.html))
  BY Zenon DEF JsonDocument, Ids
<1>2. /\ e.name = node.name /\ e.whole = node.whole /\ e.content = node.html \o tail
      /\ e.title = IF ItemType(node.name) = "comment" THEN [node.title EXCEPT !.by = TRUE] ELSE node.title
  BY DEF AtomEntry
<1>3. JsonBody(node) = node.html
  BY DEF JsonBody
<1>4. tail \in {<<>>, <<Footer>>}
  OBVIOUS
<1> HIDE DEF node, e, tail
<1>5. AtomTitle(e) = node.title
  <2>1. CASE ItemType(node.name) = "comment"
    <3>1. AtomTitle(e) = [[node.title EXCEPT !.by = TRUE] EXCEPT !.by = FALSE]
      BY <1>2, <2>1 DEF AtomTitle
    <3>2. [[node.title EXCEPT !.by = TRUE] EXCEPT !.by = FALSE] = node.title
      BY <1>1, ByChanged
    <3>3. QED
      BY <3>1, <3>2
  <2>2. CASE ItemType(node.name) # "comment"
    BY <1>2, <2>2 DEF AtomTitle
  <2>3. QED
    BY <2>1, <2>2
<1>6. /\ IsPrefix(AtomBody(e), node.html)
      /\ Footer \in ToSet(node.html) \/ AtomBody(e) = node.html
  BY <1>1, <1>2, <1>4, BodyCut
<1> DEFINE a == PayloadFromAtom(e)
           p == PayloadFromJson(node)
           none == ItemType(node.name) = "none" \/ ~node.whole
           Made(body) == [name |-> node.name, type |-> ItemType(node.name), title |-> node.title,
                          body |-> body]
<1>7. /\ a = IF none THEN NoPayload ELSE Made(AtomBody(e))
      /\ p = IF none THEN NoPayload ELSE Made(node.html)
  BY <1>2, <1>3, <1>5 DEF PayloadFromAtom, PayloadFromJson, Payload
<1>8. CASE none
  BY <1>7, <1>8 DEF node, e
<1>9. CASE ~none
  <2>1. a = Made(AtomBody(e)) /\ p = Made(node.html)
    BY <1>7, <1>9
  <2>2. \A body : Made(body).type = ItemType(node.name) /\ Made(body).body = body
    OBVIOUS
  <2>3. a # NoPayload /\ p # NoPayload
    BY <1>9, <2>1, <2>2 DEF NoPayload
  <2> HIDE DEF Made, a, p
  <2>4. SameButFooter(a, p)
    BY <1>6, <2>1, <2>2 DEF SameButFooter
  <2>5. QED
    BY <2>3, <2>4 DEF a, p, node, e
<1>10. QED
  BY <1>8, <1>9

-------------------------------------------------------------------------------
(* The items of a document as the Atom feed has them. *)
AtomOf(doc) ==
  [entries |-> [k \in DOMAIN JsonItems(doc) |-> AtomEntry(doc.nodes[JsonItems(doc)[k]])]]

Single(p) == IF p = NoPayload THEN <<>> ELSE <<p>>

FullDocument(doc) ==
  LET items == JsonItems(doc)
      names == {doc.nodes[n].name : n \in ToSet(items)}
  IN /\ Cardinality(names) = Len(items)
     /\ \A n \in ToSet(items) : doc.nodes[n].html # <<>> /\ doc.nodes[n].title # NoTitle

LEMMA NamesDiffer ==
  ASSUME NEW doc, JsonDocument(doc), FullDocument(doc)
  PROVE  \A i, j \in 1..Len(JsonItems(doc)) :
           doc.nodes[JsonItems(doc)[i]].name = doc.nodes[JsonItems(doc)[j]].name => i = j
<1> DEFINE items == JsonItems(doc)
           n == Len(items)
           name == [k \in 1..n |-> doc.nodes[items[k]].name]
           names == {doc.nodes[m].name : m \in ToSet(items)}
<1>1. n \in Nat /\ DOMAIN items = 1..n
  BY ItemsType
<1>2. name \in Surjection(1..n, names)
  BY <1>1 DEF ToSet, Surjection
<1>3. Cardinality(names) = n
  BY DEF FullDocument
<1>4. IsFiniteSet(1..n) /\ Cardinality(1..n) = Cardinality(names)
  BY <1>1, <1>3, IntervalSize
<1>5. name \in Injection(1..n, names)
  <2> HIDE DEF name, names, n
  <2> QED
    BY <1>2, <1>4, FS_SurjSameCardinalityImpliesInj
<1>6. QED
  BY <1>5 DEF Injection, IsInjective

(* With distinct names and all titles the loop keeps each payload as it is. *)
LEMMA PlainRead ==
  ASSUME NEW doc, JsonDocument(doc), FullDocument(doc)
  PROVE  ParseJson(doc) =
           FlattenSeq([k \in 1..Len(JsonItems(doc)) |->
                         Single(PayloadFromJson(doc.nodes[JsonItems(doc)[k]]))])
<1> DEFINE items == JsonItems(doc)
           n == Len(items)
           node(k) == doc.nodes[items[k]]
           seqs == [k \in 1..n |-> Single(PayloadFromJson(node(k)))]
           acc(k) == AfterItems(doc)[k]
<1>1. n \in Nat /\ \A k \in 1..n : items[k] \in Ids(doc) /\ items[k] \in ToSet(items)
  BY ItemsType DEF ToSet
<1>2. seqs \in Seq(Seq(PayloadsOf(doc))) /\ Len(seqs) = n
  <2>1. ASSUME NEW k \in 1..n PROVE Single(PayloadFromJson(node(k))) \in Seq(PayloadsOf(doc))
    <3>1. items[k] \in Ids(doc)
      BY <1>1
    <3>2. CASE PayloadFromJson(node(k)) = NoPayload
      BY <3>2 DEF Single
    <3>3. CASE PayloadFromJson(node(k)) # NoPayload
      <4>1. PayloadFromJson(node(k)) \in PayloadsOf(doc)
        <5> HIDE DEF items
        <5> QED
          BY <3>1, <3>3, JsonPayloadType
      <4>2. QED
        BY <3>3, <4>1 DEF Single
    <3>4. QED
      BY <3>2, <3>3
  <2>2. seqs \in [1..n -> Seq(PayloadsOf(doc))]
    <3> HIDE DEF node, n
    <3> QED
      BY <2>1
  <2> HIDE DEF seqs, n
  <2>3. QED
    BY <1>1, <2>2, SeqDef
<1>3. PICK h \in [0..n -> Seq(PayloadsOf(doc))] :
        /\ h[0] = <<>> /\ \A k \in 1..n : h[k] = h[k - 1] \o seqs[k]
        /\ FlattenSeq(seqs) = h[n]
  <2> HIDE DEF n, seqs
  <2> QED
    BY <1>2, FlattenRuns
<1> DEFINE Holds(k) == acc(k).payloads = h[k] /\ acc(k).seen \subseteq {node(j).name : j \in 1..k}
           Good == {k \in Nat : k <= n => Holds(k)}
<1>4. 0 \in Good
  <2>1. acc(0) = NothingRead
    BY ItemsRun
  <2>2. QED
    BY <1>3, <2>1 DEF NothingRead
<1>5. ASSUME NEW k \in Nat, k \in Good PROVE k + 1 \in Good
  <2> SUFFICES ASSUME k + 1 <= n PROVE Holds(k + 1)
    OBVIOUS
  <2> DEFINE a == acc(k)
             b == acc(k + 1)
             p == PayloadFromJson(node(k + 1))
  <2>1. /\ k + 1 \in 1..n /\ k \in 0..n /\ (k + 1) - 1 = k /\ k <= n
        /\ 1..(k + 1) = 1..k \cup {k + 1} /\ k + 1 \notin 1..k /\ 1..k \subseteq 1..n
    BY <1>1
  <2>2. Holds(k)
    BY <1>5, <2>1
  <2>3. items[k + 1] \in Ids(doc) /\ a \in Loop(doc) /\ b = JsonStep(a, node(k + 1))
    <3> HIDE DEF Holds
    <3> QED
      BY <1>1, <2>1, ItemsRun
  <2>4. Reads(doc, a, p, b)
    <3> HIDE DEF Holds, acc, items
    <3> QED
      BY <2>3, OneItem
  <2>5. h[k] \in Seq(PayloadsOf(doc))
    <3> HIDE DEF Holds, n
    <3> QED
      BY <2>1
  <2>6. h[k + 1] = h[k] \o Single(p)
    <3> HIDE DEF Holds, acc, items, node
    <3>1. seqs[k + 1] = Single(PayloadFromJson(node(k + 1)))
      BY <2>1
    <3>2. QED
      BY <1>3, <2>1, <3>1
  <2>7. CASE p = NoPayload
    <3>1. b = a
      BY <2>4, <2>7 DEF Reads, Skips
    <3>2. h[k + 1] = h[k]
      BY <2>5, <2>6, <2>7 DEF Single
    <3> HIDE DEF node, items, acc, p
    <3>3. QED
      BY <2>1, <2>2, <3>1, <3>2
  <2>8. CASE p # NoPayload
    <3>1. p.name = node(k + 1).name /\ p.title = node(k + 1).title /\ p.title # NoTitle
      <4>1. p.name = node(k + 1).name /\ p.title = node(k + 1).title
        <5> HIDE DEF Holds, acc, items
        <5> QED
          BY <2>3, <2>8, JsonPayloadType
      <4>2. node(k + 1).title # NoTitle
        BY <1>1, <2>1 DEF FullDocument
      <4>3. QED
        BY <4>1, <4>2
    <3>2. \A j \in 1..k : node(j).name # node(k + 1).name
      <4>1. \A j \in 1..k : j \in 1..n /\ j # k + 1
        BY <2>1
      <4> HIDE DEF Holds
      <4>2. QED
        BY <2>1, <4>1, NamesDiffer
    <3> HIDE DEF node, items, acc, p
    <3>3. p.name \notin a.seen
      BY <2>2, <3>1, <3>2
    <3>4. ~Skips(a, p) /\ ~Borrows(a, p)
      BY <2>8, <3>1, <3>3 DEF Skips, Borrows
    <3>5. PICK q \in PayloadsOf(doc) :
            /\ b.payloads = Append(a.payloads, q)
            /\ IF Borrows(a, p) THEN q.title = a.post ELSE q = p
      BY <2>4, <3>4 DEF Reads
    <3>6. b.seen = a.seen \cup {p.name}
      BY <2>4, <3>4 DEF Reads
    <3>7. q = p
      BY <3>4, <3>5
    <3>8. h[k + 1] = Append(h[k], p)
      <4>1. p \in PayloadsOf(doc)
        BY <3>7
      <4>2. Single(p) = <<p>>
        BY <2>8 DEF Single
      <4>3. QED
        BY <2>5, <2>6, <4>1, <4>2
    <3>9. b.payloads = h[k + 1]
      BY <2>2, <3>5, <3>7, <3>8
    <3>10. b.seen \subseteq {node(j).name : j \in 1..(k + 1)}
      BY <2>1, <2>2, <3>1, <3>6
    <3>11. QED
      BY <3>9, <3>10
  <2>9. QED
    BY <2>7, <2>8
<1>6. Nat \subseteq Good
  <2> HIDE DEF Good
  <2> QED
    BY <1>4, <1>5, NatSetInduction
<1>7. acc(n).payloads = h[n]
  <2>1. n <= n
    BY <1>1
  <2> HIDE DEF acc, node, items
  <2>2. QED
    BY <1>1, <1>6, <2>1
<1>8. QED
  BY <1>3, <1>7, ParseJsonIsAfter

(* Both forms of a full document give the same payloads, but for the footer. *)
LEMMA FormsMatch ==
  ASSUME NEW doc, JsonDocument(doc), FullDocument(doc)
  PROVE  /\ Len(ParseAtom(AtomOf(doc))) = Len(ParseJson(doc))
         /\ DOMAIN ParseAtom(AtomOf(doc)) = 1..Len(ParseJson(doc))
         /\ \A k \in 1..Len(ParseJson(doc)) :
              SameButFooter(ParseAtom(AtomOf(doc))[k], ParseJson(doc)[k])
<1> DEFINE items == JsonItems(doc)
           n == Len(items)
           A(k) == PayloadFromAtom(AtomEntry(doc.nodes[items[k]]))
           J(k) == PayloadFromJson(doc.nodes[items[k]])
           S == {A(k) : k \in 1..n}
           T == {J(k) : k \in 1..n}
           seqs == [k \in 1..n |-> Single(A(k))]
           others == [k \in 1..n |-> Single(J(k))]
           R == {x \in S \X T : SameButFooter(x[1], x[2])}
<1>1. /\ n \in Nat /\ DOMAIN items = 1..n
      /\ \A k \in 1..n : items[k] \in Ids(doc) /\ items[k] \in ToSet(items)
  BY ItemsType DEF ToSet
<1>2. ParseAtom(AtomOf(doc)) = FlattenSeq(seqs)
  <2>1. AtomOf(doc).entries = [k \in 1..n |-> AtomEntry(doc.nodes[items[k]])]
    BY <1>1 DEF AtomOf
  <2>2. DOMAIN AtomOf(doc).entries = 1..n
    BY <2>1
  <2>3. \A k \in 1..n : AtomOf(doc).entries[k] = AtomEntry(doc.nodes[items[k]])
    BY <2>1
  <2> HIDE DEF items, n
  <2>4. [k \in DOMAIN AtomOf(doc).entries |->
           IF PayloadFromAtom(AtomOf(doc).entries[k]) = NoPayload THEN <<>>
           ELSE <<PayloadFromAtom(AtomOf(doc).entries[k])>>] = seqs
    BY <2>2, <2>3 DEF Single
  <2>5. QED
    BY <2>4 DEF ParseAtom
<1>3. ParseJson(doc) = FlattenSeq(others)
  BY PlainRead
<1>4. ASSUME NEW k \in 1..n
      PROVE  (A(k) = NoPayload <=> J(k) = NoPayload) /\ (J(k) # NoPayload => SameButFooter(A(k), J(k)))
  <2>1. items[k] \in Ids(doc) /\ doc.nodes[items[k]].html # <<>>
    BY <1>1 DEF FullDocument
  <2> HIDE DEF items
  <2>2. QED
    BY <2>1, EntryMatches
<1> HIDE DEF items, A, J
<1>5. seqs \in Seq(Seq(S)) /\ others \in Seq(Seq(T)) /\ Len(seqs) = n /\ Len(others) = n
  <2>1. \A k \in 1..n : Single(A(k)) \in Seq(S) /\ Single(J(k)) \in Seq(T)
    BY DEF Single
  <2> HIDE DEF S, T
  <2>2. seqs \in [1..n -> Seq(S)] /\ others \in [1..n -> Seq(T)]
    BY <2>1
  <2> HIDE DEF seqs, others
  <2>3. QED
    BY <1>1, <2>2, SeqDef
<1>6. ASSUME NEW k \in 1..n
      PROVE  /\ Len(seqs[k]) = Len(others[k])
             /\ \A i \in 1..Len(seqs[k]) : <<seqs[k][i], others[k][i]>> \in R
  <2>1. seqs[k] = Single(A(k)) /\ others[k] = Single(J(k))
    OBVIOUS
  <2>2. CASE J(k) = NoPayload
    BY <1>4, <2>1, <2>2 DEF Single
  <2>3. CASE J(k) # NoPayload
    <3>1. seqs[k] = <<A(k)>> /\ others[k] = <<J(k)>>
      BY <1>4, <2>1, <2>3 DEF Single
    <3>2. <<A(k), J(k)>> \in R
      BY <1>4, <2>3
    <3> HIDE DEF R, seqs, others
    <3>3. QED
      BY <3>1, <3>2
  <2>4. QED
    BY <2>2, <2>3
<1> DEFINE atom == FlattenSeq(seqs)
           json == FlattenSeq(others)
<1>7. Len(atom) = Len(json) /\ \A i \in 1..Len(atom) : <<atom[i], json[i]>> \in R
  <2> HIDE DEF seqs, others, R, S, T, n
  <2> QED
    BY <1>5, <1>6, FlattenAligned
<1>8. atom \in Seq(S)
  <2> HIDE DEF seqs, S
  <2> QED
    BY <1>5, FlattenType
<1> HIDE DEF atom, json
<1>9. \A i \in 1..Len(json) : SameButFooter(atom[i], json[i])
  BY <1>7
<1>10. DOMAIN atom = 1..Len(json)
  BY <1>7, <1>8
<1>11. QED
  BY <1>2, <1>3, <1>7, <1>9, <1>10 DEF atom, json

-------------------------------------------------------------------------------
(* The client. *)
Requests ==
  [pc : {"idle", "token", "post", "come", "get", "drop", "read"},
   format : Format, left : Int, retry : BOOLEAN, token : Token, new : Token,
   life : Nat, since : Nat, cached : BOOLEAN, mark : Nat, page : AllPages,
   status : {"none", "raised", "ok"}]

(* A request in progress has a format. *)
FormatsKnown == \A t \in Thread : th[t].pc # "idle" => th[t].format \in {"rss", "json"}

(* Who asks for a token holds the lock. *)
LockHeld == \A t \in Thread : th[t].pc \in {"post", "come"} => lock = t

(* No token is newer than the last one issued; one on its way back is newer than
   those in use, than the cached one and than any that was out at the 401. *)
TokensInOrder ==
  /\ cache.token.no <= issued
  /\ \A t \in Thread : th[t].token.no <= issued /\ th[t].mark <= issued
  /\ \A t \in Thread : th[t].pc = "come" =>
       /\ th[t].new.no <= issued /\ cache.token.no < th[t].new.no
       /\ \A s \in Thread : th[s].token.no < th[t].new.no
       /\ th[t].retry => th[t].mark < th[t].new.no

(* The cache overrates a token by what its delivery took, at most PostTimeout; a token
   taken from it outlives the GET, which takes at most GetTimeout. *)
Timely ==
  /\ cache.expires <= cache.token.dies + PostTimeout
  /\ \A t \in Thread : th[t].pc = "come" => clock <= IssuedAt(t) + PostTimeout
  /\ \A t \in Thread : th[t].pc = "get" => clock <= th[t].since + GetTimeout
  /\ \A t \in Thread : th[t].cached =>
       th[t].pc = "get" /\ th[t].since + GetTimeout < th[t].token.dies

Safe == NewestCached /\ RejectedNotCached /\ RetryIsFresh

IInv == TypeOK /\ FormatsKnown /\ LockHeld /\ TokensInOrder /\ Timely /\ Safe

-------------------------------------------------------------------------------
LEMMA NewRequest ==
  ASSUME NEW pc \in {"idle", "token", "get", "read"}, NEW format \in Format, NEW left \in Int
  PROVE  Request(pc, format, left) \in Requests
BY DEF Request, Requests, Token, NoToken, AllPages

LEMMA SpecFormats == \A spec \in Specs : spec.format \in {"rss", "json"}
<1>1. \A kind, format, sub : FeedSpec(kind, format, sub).format = format
  BY DEF FeedSpec
<1>2. \A spec \in PlannedSpecs : spec.format = FeedFormat
  BY <1>1 DEF PlannedSpecs
<1>3. FeedFormat \in {"rss", "json"}
  BY ClientAssumption DEF FeedFormat
<1>4. QED
  BY <1>1, <1>2, <1>3 DEF Specs, RunNowSpec, OtherSpecs

(* Types after a step that changes one request. *)
LEMMA TypeStep ==
  ASSUME TypeOK, NEW t \in Thread, NEW r \in Requests, th' = [th EXCEPT ![t] = r],
         clock' \in Nat, issued' \in Nat, lock' \in Thread \cup {NoThread},
         cache' \in [token : Token, expires : Nat]
  PROVE  TypeOK'
BY DEF TypeOK, Requests

LEMMA InitInv == Init => IInv
<1> SUFFICES ASSUME Init PROVE IInv
  OBVIOUS
<1>1. \A t \in Thread : th[t] = Request("idle", "none", MaxRequests)
  BY DEF Init
<1>2. TypeOK
  <2>1. Request("idle", "none", MaxRequests) \in Requests
    BY NewRequest, ClientAssumption DEF Format
  <2>2. QED
    BY <2>1 DEF Init, TypeOK, Requests, NoCache, NoToken, Token
<1>3. FormatsKnown /\ LockHeld /\ TokensInOrder /\ Timely /\ Safe
  BY <1>1, ClientAssumption
     DEF Init, Request, IssuedAt, NoCache, NoToken, FormatsKnown, LockHeld, TokensInOrder, Timely, Safe,
         NewestCached, RejectedNotCached, RetryIsFresh
<1>4. QED
  BY <1>2, <1>3 DEF IInv

-------------------------------------------------------------------------------
(* A step that only changes th[t], to a request that has no token under way and
   neither asks for one nor sends one that the step gave it, keeps the invariant. *)
LEMMA QuietStep ==
  ASSUME IInv, NEW t \in Thread, NEW r \in Requests,
         th' = [th EXCEPT ![t] = r],
         r.pc # "idle" => r.format \in {"rss", "json"},
         r.pc \notin {"post", "come"},
         r.token.no = 0 \/ r.token = th[t].token,
         r.mark <= issued,
         ~r.retry, ~r.cached,
         r.pc = "get" => r.since = clock,
         lock' = lock \/ (lock' = NoThread /\ th[t].pc \in {"post", "come"}),
         UNCHANGED <<clock, cache, issued>>
  PROVE  IInv'
<1> USE DEF IInv
<1>1. \A s \in Thread : th'[s] = IF s = t THEN r ELSE th[s]
  BY DEF TypeOK
<1>2. TypeOK'
  BY DEF TypeOK, Requests
<1>3. LockHeld'
  BY <1>1 DEF LockHeld
<1>4. FormatsKnown'
  BY <1>1 DEF FormatsKnown
<1>5. \A s \in Thread : th'[s].token.no <= th[s].token.no
  BY <1>1 DEF TypeOK, Token
<1>6. TokensInOrder'
  BY <1>1, <1>5 DEF TokensInOrder, TypeOK, Token, Requests
<1>7. Timely'
  BY <1>1, ClientAssumption DEF Timely, IssuedAt, TypeOK
<1>8. Safe'
  <2>1. NewestCached'
    BY <1>1, <1>5 DEF Safe, NewestCached, TypeOK, Token
  <2>2. RejectedNotCached' /\ RetryIsFresh'
    BY <1>1 DEF Safe, RejectedNotCached, RetryIsFresh
  <2>3. QED
    BY <2>1, <2>2 DEF Safe
<1>9. QED
  BY <1>2, <1>3, <1>4, <1>6, <1>7, <1>8

LEMMA StartInv ==
  ASSUME IInv, NEW t \in Thread, NEW spec \in Specs, Start(t, spec)
  PROVE  IInv'
<1> DEFINE begun(pc) == Request(pc, spec.format, th[t].left - 1)
           r == IF BuildRequestSpec(spec) = NoRequest
                THEN [begun("idle") EXCEPT !.status = "raised"]
                ELSE IF OAuthConfigured THEN begun("token")
                ELSE [begun("get") EXCEPT !.since = clock]
<1>1. th' = [th EXCEPT ![t] = r] /\ UNCHANGED <<clock, lock, cache, issued>>
  BY DEF Start
<1>2. spec.format \in {"rss", "json"} /\ spec.format \in Format /\ th[t].left - 1 \in Int
  BY SpecFormats DEF IInv, TypeOK, Format
<1>3. \A pc \in {"idle", "token", "get"} : begun(pc) \in Requests
  BY <1>2, NewRequest
<1>4. r \in Requests /\ r.pc \in {"idle", "token", "get"}
  BY <1>3 DEF Requests, Request, IInv, TypeOK
<1>5. /\ r.format = spec.format /\ r.token = NoToken /\ r.mark = 0 /\ ~r.retry /\ ~r.cached
      /\ r.pc = "get" => r.since = clock
  BY DEF Request
<1> HIDE DEF r
<1>6. /\ r.token.no = 0 /\ r.mark <= issued /\ r.pc \notin {"post", "come"}
      /\ r.format \in {"rss", "json"} /\ UNCHANGED <<clock, cache, issued>>
  BY <1>1, <1>2, <1>4, <1>5 DEF IInv, TypeOK, NoToken
<1>7. QED
  BY <1>1, <1>4, <1>5, <1>6, QuietStep

LEMMA EndsInv ==
  ASSUME IInv, NEW t \in Thread, NEW status \in {"raised", "ok"}, Ends(t, status),
         lock' = lock \/ (lock' = NoThread /\ th[t].pc \in {"post", "come"}),
         UNCHANGED <<clock, cache, issued>>
  PROVE  IInv'
<1> DEFINE r == [Request("idle", th[t].format, th[t].left) EXCEPT !.status = status]
<1>1. th' = [th EXCEPT ![t] = r]
  BY DEF Ends
<1>2. Request("idle", th[t].format, th[t].left) \in Requests
  BY NewRequest DEF IInv, TypeOK
<1>3. r \in Requests /\ r.pc = "idle" /\ r.token = NoToken /\ r.mark = 0 /\ ~r.retry /\ ~r.cached
  BY <1>2 DEF Requests, Request
<1> HIDE DEF r
<1>4. r.token.no = 0 /\ r.mark <= issued
  BY <1>3 DEF IInv, TypeOK, NoToken
<1>5. QED
  BY <1>1, <1>3, <1>4, QuietStep

LEMMA GetAnsweredInv ==
  ASSUME IInv, NEW t \in Thread, GetAnswered(t)
  PROVE  IInv'
<1>1. PICK page \in Pages[t][th[t].format] :
        th' = [th EXCEPT ![t] = [Request("read", th[t].format, th[t].left) EXCEPT !.page = page]]
  BY DEF GetAnswered
<1> DEFINE r == [Request("read", th[t].format, th[t].left) EXCEPT !.page = page]
<1>2. th[t].format \in {"rss", "json"}
  BY DEF IInv, FormatsKnown, GetAnswered
<1>3. page \in AllPages
  BY <1>2 DEF AllPages
<1>4. Request("read", th[t].format, th[t].left) \in Requests
  BY NewRequest DEF IInv, TypeOK
<1>5. /\ r \in Requests /\ r.pc = "read" /\ r.format = th[t].format
      /\ r.token = NoToken /\ r.mark = 0 /\ ~r.retry /\ ~r.cached
  BY <1>3, <1>4 DEF Requests, Request
<1> HIDE DEF r
<1>6. th' = [th EXCEPT ![t] = r]
  BY <1>1 DEF r
<1>7. /\ r.token.no = 0 /\ r.mark <= issued /\ r.format \in {"rss", "json"}
      /\ UNCHANGED <<clock, lock, cache, issued>>
  BY <1>2, <1>5 DEF GetAnswered, IInv, TypeOK, NoToken
<1>8. QED
  BY <1>5, <1>6, <1>7, QuietStep

LEMMA TakeCachedInv ==
  ASSUME IInv, NEW t \in Thread, TakeCached(t)
  PROVE  IInv'
<1> USE ClientAssumption DEF IInv, TakeCached
<1>1. \A s \in Thread : s # t => th'[s] = th[s]
  BY DEF TypeOK
<1>2. th'[t] = [th[t] EXCEPT !.pc = "get", !.token = cache.token, !.since = clock, !.cached = TRUE]
  BY DEF TypeOK
<1>3. /\ th'[t].pc = "get" /\ th'[t].token = cache.token /\ ~th'[t].retry /\ th'[t].since = clock
      /\ th'[t].format = th[t].format /\ th'[t].mark = th[t].mark
  BY <1>2 DEF TypeOK
<1>4. TypeOK'
  <2> DEFINE r == [th[t] EXCEPT !.pc = "get", !.token = cache.token, !.since = clock, !.cached = TRUE]
  <2>1. r \in Requests
    BY DEF TypeOK, Requests, Token, NoToken
  <2>2. th' = [th EXCEPT ![t] = r]
    BY DEF TypeOK
  <2>3. /\ clock' \in Nat /\ issued' \in Nat /\ lock' \in Thread \cup {NoThread}
        /\ cache' \in [token : Token, expires : Nat]
    BY DEF TypeOK, Requests, Token, NoToken, NoCache
  <2> HIDE DEF r
  <2>4. QED
    BY <2>1, <2>2, <2>3, TypeStep
<1>5. \A s \in Thread : th[s].pc \notin {"post", "come"} /\ th'[s].pc \notin {"post", "come"}
  BY <1>1, <1>3 DEF LockHeld
<1>6. FormatsKnown' /\ LockHeld' /\ TokensInOrder'
  BY <1>1, <1>3, <1>5 DEF FormatsKnown, LockHeld, TokensInOrder
<1>10. Timely'
  <2>1. clock + GetTimeout < cache.token.dies
    BY DEF Usable, Timely, TypeOK, Token
  <2>2. QED
    BY <1>1, <1>3, <1>5, <2>1 DEF Timely, TypeOK, Token, IssuedAt
<1>7. NewestCached'
  BY <1>1, <1>3, <1>5 DEF Safe, NewestCached, TypeOK, Token
<1>8. RejectedNotCached' /\ RetryIsFresh'
  BY <1>1, <1>3 DEF Safe, RejectedNotCached, RetryIsFresh
<1>9. QED
  BY <1>4, <1>6, <1>7, <1>8, <1>10 DEF Safe

LEMMA AskTokenInv ==
  ASSUME IInv, NEW t \in Thread, AskToken(t)
  PROVE  IInv'
<1> USE ClientAssumption DEF IInv, AskToken
<1>1. \A s \in Thread : s # t => th'[s] = th[s]
  BY DEF TypeOK
<1>2. th'[t] = [th[t] EXCEPT !.pc = "post"]
  BY DEF TypeOK
<1>3. /\ th'[t].pc = "post" /\ th'[t].token = th[t].token /\ th'[t].cached = th[t].cached
      /\ th'[t].retry = th[t].retry /\ th'[t].format = th[t].format /\ th'[t].mark = th[t].mark
  BY <1>2 DEF TypeOK
<1>4. TypeOK'
  <2> DEFINE r == [th[t] EXCEPT !.pc = "post"]
  <2>1. r \in Requests
    BY DEF TypeOK, Requests, Token, NoToken
  <2>2. th' = [th EXCEPT ![t] = r]
    BY DEF TypeOK
  <2>3. /\ clock' \in Nat /\ issued' \in Nat /\ lock' \in Thread \cup {NoThread}
        /\ cache' \in [token : Token, expires : Nat]
    BY DEF TypeOK, Requests, Token, NoToken, NoCache
  <2> HIDE DEF r
  <2>4. QED
    BY <2>1, <2>2, <2>3, TypeStep
<1>5. \A s \in Thread : th[s].pc \notin {"post", "come"}
  BY DEF LockHeld
<1>6. FormatsKnown' /\ LockHeld' /\ TokensInOrder' /\ Timely'
  BY <1>1, <1>3, <1>5 DEF FormatsKnown, LockHeld, TokensInOrder, Timely, IssuedAt, TypeOK
<1>7. NewestCached' /\ RejectedNotCached' /\ RetryIsFresh'
  BY <1>1, <1>3, <1>5 DEF Safe, NewestCached, RejectedNotCached, RetryIsFresh
<1>8. QED
  BY <1>4, <1>6, <1>7 DEF Safe

LEMMA TokenIssuedInv ==
  ASSUME IInv, NEW t \in Thread, NEW life \in Lifetimes, TokenIssued(t, life)
  PROVE  IInv'
<1> USE ClientAssumption DEF IInv, TokenIssued
<1>1. \A s \in Thread : s # t => th'[s] = th[s]
  BY DEF TypeOK
<1>2. /\ th'[t].pc = "come" /\ th'[t].life = life
      /\ th'[t].new.no = issued + 1 /\ th'[t].new.dies = clock + life
      /\ th'[t].token = th[t].token /\ th'[t].retry = th[t].retry
      /\ th'[t].format = th[t].format /\ th'[t].mark = th[t].mark /\ th'[t].cached = th[t].cached
  BY DEF TypeOK
<1>3. life \in Nat /\ issued + 1 \in Nat /\ clock + life \in Nat
  BY DEF TypeOK
<1>4. TypeOK'
  <2> DEFINE r == [th[t] EXCEPT !.pc = "come", !.life = life,
                              !.new = [no |-> issued + 1, dies |-> clock + life]]
  <2>1. r \in Requests
    BY <1>3 DEF TypeOK, Requests, Token, NoToken
  <2>2. th' = [th EXCEPT ![t] = r]
    BY DEF TypeOK
  <2>3. /\ clock' \in Nat /\ issued' \in Nat /\ lock' \in Thread \cup {NoThread}
        /\ cache' \in [token : Token, expires : Nat]
    BY <1>3 DEF TypeOK, Requests, Token, NoToken, NoCache
  <2> HIDE DEF r
  <2>4. QED
    BY <2>1, <2>2, <2>3, TypeStep
<1>5. \A s \in Thread : s # t => th[s].pc \notin {"post", "come"}
  BY DEF LockHeld
<1>6. FormatsKnown' /\ LockHeld'
  BY <1>1, <1>2 DEF FormatsKnown, LockHeld
<1>7. TokensInOrder'
  BY <1>1, <1>2, <1>5 DEF TokensInOrder, TypeOK, Token
<1>8. Timely'
  BY <1>1, <1>2, <1>3, <1>5 DEF Timely, IssuedAt, TypeOK
<1>9. NewestCached'
  BY <1>1, <1>2, <1>5 DEF Safe, NewestCached, TokensInOrder, TypeOK, Token
<1>10. RejectedNotCached' /\ RetryIsFresh'
  BY <1>1, <1>2 DEF Safe, RejectedNotCached, RetryIsFresh
<1>11. QED
  BY <1>4, <1>6, <1>7, <1>8, <1>9, <1>10 DEF Safe

LEMMA TokenArrivesInv ==
  ASSUME IInv, NEW t \in Thread, TokenArrives(t)
  PROVE  IInv'
<1> USE ClientAssumption DEF IInv, TokenArrives
<1>1. \A s \in Thread : s # t => th'[s] = th[s]
  BY DEF TypeOK
<1>2. /\ th'[t].pc = "get" /\ th'[t].token = th[t].new /\ th'[t].since = clock
      /\ th'[t].cached = th[t].cached
      /\ th'[t].retry = th[t].retry /\ th'[t].format = th[t].format /\ th'[t].mark = th[t].mark
  BY DEF TypeOK
<1>3. cache' = [token |-> th[t].new, expires |-> clock + th[t].life]
  OBVIOUS
<1>4. TypeOK'
  <2> DEFINE r == [th[t] EXCEPT !.pc = "get", !.token = th[t].new,
                              !.new = NoToken, !.life = 0, !.since = clock]
  <2>1. r \in Requests
    BY DEF TypeOK, Requests, Token, NoToken
  <2>2. th' = [th EXCEPT ![t] = r]
    BY DEF TypeOK
  <2>3. /\ clock' \in Nat /\ issued' \in Nat /\ lock' \in Thread \cup {NoThread}
        /\ cache' \in [token : Token, expires : Nat]
    BY DEF TypeOK, Requests, Token, NoToken, NoCache
  <2> HIDE DEF r
  <2>4. QED
    BY <2>1, <2>2, <2>3, TypeStep
<1>5. \A s \in Thread : s # t => th[s].pc \notin {"post", "come"} /\ th'[s].pc \notin {"post", "come"}
  BY <1>1 DEF LockHeld
<1>6. FormatsKnown' /\ LockHeld'
  BY <1>1, <1>2, <1>5 DEF FormatsKnown, LockHeld
<1>7. TokensInOrder'
  <2>1. /\ th[t].new.no <= issued /\ \A r \in Thread : th[r].token.no < th[t].new.no
        /\ th[t].retry => th[t].mark < th[t].new.no
    BY DEF TokensInOrder
  <2>2. cache'.token.no <= issued'
    BY <2>1, <1>3
  <2>3. \A s \in Thread : th'[s].token.no <= issued' /\ th'[s].mark <= issued'
    BY <2>1, <1>1, <1>2 DEF TokensInOrder
  <2>4. \A s \in Thread : th'[s].pc # "come"
    BY <1>2, <1>5
  <2>5. QED
    BY <2>2, <2>3, <2>4 DEF TokensInOrder
<1>8. Timely'
  <2>1. clock + th[t].life <= th[t].new.dies + PostTimeout
    BY DEF Timely, IssuedAt, TypeOK, Token
  <2>2. ~th[t].cached
    BY DEF Timely
  <2>3. QED
    BY <1>1, <1>2, <1>3, <1>5, <2>1, <2>2 DEF Timely, IssuedAt, TypeOK, Token
<1>9. NewestCached'
  BY <1>1, <1>2, <1>3, <1>5 DEF NewestCached, TokensInOrder, TypeOK, Token
<1>10. RejectedNotCached' /\ RetryIsFresh'
  BY <1>1, <1>2, <1>3 DEF Safe, RejectedNotCached, RetryIsFresh, TokensInOrder, TypeOK, Token
<1>11. QED
  BY <1>4, <1>6, <1>7, <1>8, <1>9, <1>10 DEF Safe

LEMMA UnauthorizedInv ==
  ASSUME IInv, NEW t \in Thread, Unauthorized(t)
  PROVE  IInv'
<1>1. CASE OAuthConfigured /\ ~th[t].retry
  <2> DEFINE r == [th[t] EXCEPT !.pc = "drop", !.since = 0, !.cached = FALSE, !.mark = issued]
  <2>1. th' = [th EXCEPT ![t] = r] /\ UNCHANGED <<clock, lock, cache, issued>>
    BY <1>1 DEF Unauthorized, IInv, TypeOK
  <2>2. /\ r \in Requests /\ r.pc = "drop" /\ r.format = th[t].format
        /\ r.token = th[t].token /\ r.mark = issued /\ ~r.retry /\ ~r.cached
    BY <1>1 DEF IInv, TypeOK, Requests
  <2>3. r.format \in {"rss", "json"}
    BY <2>2 DEF IInv, FormatsKnown, Unauthorized
  <2> HIDE DEF r
  <2>4. r.mark <= issued
    BY <2>2 DEF IInv, TypeOK
  <2>5. QED
    BY <2>1, <2>2, <2>3, <2>4, QuietStep
<1>2. CASE ~(OAuthConfigured /\ ~th[t].retry)
  BY <1>2, EndsInv DEF Unauthorized
<1>3. QED
  BY <1>1, <1>2

LEMMA InvalidateInv ==
  ASSUME IInv, NEW t \in Thread, Invalidate(t)
  PROVE  IInv'
<1> USE ClientAssumption DEF IInv, Invalidate
<1>1. \A s \in Thread : s # t => th'[s] = th[s]
  BY DEF TypeOK
<1>2. /\ th'[t].pc = "token" /\ th'[t].token = th[t].token /\ th'[t].format = th[t].format
      /\ th'[t].mark = th[t].mark /\ th'[t].cached = th[t].cached
  BY DEF TypeOK
<1>3. cache'.token.no = 0 /\ cache'.token.dies = 0 /\ cache'.expires = 0 /\ cache' = NoCache
  BY DEF NoCache, NoToken
<1>4. TypeOK'
  <2> DEFINE r == [th[t] EXCEPT !.pc = "token", !.retry = TRUE]
  <2>1. r \in Requests
    BY DEF TypeOK, Requests, Token, NoToken
  <2>2. th' = [th EXCEPT ![t] = r]
    BY DEF TypeOK
  <2>3. /\ clock' \in Nat /\ issued' \in Nat /\ lock' \in Thread \cup {NoThread}
        /\ cache' \in [token : Token, expires : Nat]
    BY DEF TypeOK, Requests, Token, NoToken, NoCache
  <2> HIDE DEF r
  <2>4. QED
    BY <2>1, <2>2, <2>3, TypeStep
<1>5. \A s \in Thread : th[s].pc \notin {"post", "come"} /\ th'[s].pc \notin {"post", "come"}
  BY <1>1, <1>2 DEF LockHeld
<1>6. FormatsKnown' /\ LockHeld'
  BY <1>1, <1>2, <1>5 DEF FormatsKnown, LockHeld
<1>7. TokensInOrder' /\ Timely'
  BY <1>1, <1>2, <1>3, <1>5 DEF TokensInOrder, Timely, IssuedAt, TypeOK
<1>8. NewestCached' /\ RejectedNotCached' /\ RetryIsFresh'
  BY <1>1, <1>2, <1>3 DEF Safe, NewestCached, RejectedNotCached, RetryIsFresh, NoCache
<1>9. QED
  BY <1>4, <1>6, <1>7, <1>8 DEF Safe

LEMMA TickInv == ASSUME IInv, Tick PROVE IInv'
<1> USE ClientAssumption DEF IInv, Tick
<1>1. TypeOK' /\ FormatsKnown' /\ LockHeld' /\ TokensInOrder'
  BY DEF TypeOK, FormatsKnown, LockHeld, TokensInOrder
<1>2. Timely'
  BY DEF Timely, IssuedAt, TypeOK, Token
<1>3. Safe'
  BY DEF Safe, NewestCached, RejectedNotCached, RetryIsFresh
<1>4. QED
  BY <1>1, <1>2, <1>3

LEMMA StutterInv == ASSUME IInv, UNCHANGED vars PROVE IInv'
BY DEF IInv, vars, TypeOK, FormatsKnown, LockHeld, TokensInOrder, Timely, IssuedAt, Safe,
       NewestCached, RejectedNotCached, RetryIsFresh

-------------------------------------------------------------------------------
LEMMA NextInv == IInv /\ [Next]_vars => IInv'
<1> SUFFICES ASSUME IInv, [Next]_vars PROVE IInv'
  OBVIOUS
<1>1. ASSUME NEW t \in Thread, \E spec \in Specs : Start(t, spec) PROVE IInv'
  BY <1>1, StartInv
<1>2. ASSUME NEW t \in Thread, Own(t) PROVE IInv'
  <2>1. CASE TakeCached(t)
    BY <2>1, TakeCachedInv
  <2>2. CASE AskToken(t)
    BY <2>2, AskTokenInv
  <2>3. CASE TokenArrives(t)
    BY <2>3, TokenArrivesInv
  <2>4. CASE TokenRefused(t)
    BY <2>4, EndsInv DEF TokenRefused
  <2>5. CASE Invalidate(t)
    BY <2>5, InvalidateInv
  <2>6. CASE GetFails(t)
    BY <2>6, EndsInv DEF GetFails
  <2>7. CASE Parse(t)
    BY <2>7, EndsInv DEF Parse
  <2>8. QED
    BY <1>2, <2>1, <2>2, <2>3, <2>4, <2>5, <2>6, <2>7 DEF Own
<1>3. ASSUME NEW t \in Thread, Answer(t) PROVE IInv'
  BY <1>3, TokenIssuedInv, UnauthorizedInv, GetAnsweredInv DEF Answer
<1>4. CASE Tick
  BY <1>4, TickInv
<1>5. CASE UNCHANGED vars
  BY <1>5, StutterInv
<1>6. QED
  BY <1>1, <1>2, <1>3, <1>4, <1>5 DEF Next

(* The lock keeps the invariant on which everything below rests (auth.py 36-51). *)
THEOREM Invariance == Spec => []IInv
BY InitInv, NextInv, PTL DEF Spec

(* Every variable of the client keeps its type. *)
THEOREM TypeCorrect == Spec => []TypeOK
<1>1. IInv => TypeOK
  BY DEF IInv
<1>2. QED
  BY <1>1, Invariance, PTL

(* The cached token is the newest one that any request uses, however slowly answers
   come (auth.py 36-51). *)
THEOREM NewestTokenCached == Spec => []NewestCached
<1>1. IInv => NewestCached
  BY DEF IInv, Safe
<1>2. QED
  BY <1>1, Invariance, PTL

(* A refused token is not in the cache from the moment it was dropped until its request
   has another, whatever other requests do meanwhile (_fetcher.py 166-171). *)
THEOREM RejectedTokenStaysOut == Spec => []RejectedNotCached
<1>1. IInv => RejectedNotCached
  BY DEF IInv, Safe
<1>2. QED
  BY <1>1, Invariance, PTL

(* A retry carries a token issued after the 401 (_fetcher.py 166-171). *)
THEOREM RetriesAreFresh == Spec => []RetryIsFresh
<1>1. IInv => RetryIsFresh
  BY DEF IInv, Safe
<1>2. QED
  BY <1>1, Invariance, PTL

(* A token taken from the cache is alive until the GET it is sent with has its answer,
   when the buffer is at least what the token's delivery and a GET can take together
   (auth.py 44-45, 49-50, 72-79). *)
THEOREM TakenTokensAlive == Spec => []CachedTokensAlive
<1>1. IInv => CachedTokensAlive
  <2> SUFFICES ASSUME IInv, NEW t \in Thread, th[t].pc = "get", th[t].cached
               PROVE  th[t].token.dies > clock
    BY DEF CachedTokensAlive
  <2>1. clock <= th[t].since + GetTimeout /\ th[t].since + GetTimeout < th[t].token.dies
    BY DEF IInv, Timely
  <2>2. QED
    BY <2>1, ClientAssumption DEF IInv, TypeOK, Token
<1>2. QED
  BY <1>1, Invariance, PTL

-------------------------------------------------------------------------------
(* A page being parsed is one of its request's format. *)
PageOfFormat == \A t \in Thread : th[t].pc = "read" => th[t].page \in Pages[t][th[t].format]

LEMMA PageStep == IInv /\ PageOfFormat /\ [Next]_vars => PageOfFormat'
<1> SUFFICES ASSUME IInv, PageOfFormat, [Next]_vars, NEW s \in Thread, th'[s].pc = "read"
             PROVE  th'[s].page \in Pages[s][th'[s].format]
  BY DEF PageOfFormat
<1>1. th \in [Thread -> Requests]
  BY DEF IInv, TypeOK, Requests
<1>2. CASE th'[s] = th[s]
  BY <1>2 DEF PageOfFormat
<1>3. ASSUME NEW t \in Thread, NEW status, Ends(t, status) PROVE th'[s] = th[s]
  <2> DEFINE r == [Request("idle", th[t].format, th[t].left) EXCEPT !.status = status]
  <2>1. th' = [th EXCEPT ![t] = r] /\ r.pc = "idle"
    BY <1>3 DEF Ends, Request
  <2> HIDE DEF r
  <2>2. QED
    BY <1>1, <2>1
<1>4. ASSUME NEW t \in Thread, th'[s] # th[s],
             (\E spec \in Specs : Start(t, spec)) \/ Own(t) \/ Answer(t)
      PROVE  GetAnswered(s)
  <2>1. CASE \E spec \in Specs : Start(t, spec)
    BY <1>1, <1>4, <2>1 DEF Start, Request
  <2>2. CASE Own(t)
    <3>1. CASE TokenRefused(t) \/ GetFails(t) \/ Parse(t)
      BY <1>3, <1>4, <3>1 DEF TokenRefused, GetFails, Parse
    <3>2. CASE TakeCached(t) \/ AskToken(t) \/ TokenArrives(t) \/ Invalidate(t)
      <4>1. t = s
        BY <1>1, <1>4, <3>2 DEF TakeCached, AskToken, TokenArrives, Invalidate
      <4>2. th'[t].pc # "read"
        <5>1. CASE TakeCached(t) \/ TokenArrives(t)
          BY <1>1, <5>1 DEF TakeCached, TokenArrives, Requests
        <5>2. CASE AskToken(t) \/ Invalidate(t)
          BY <1>1, <5>2 DEF AskToken, Invalidate, Requests
        <5>3. QED
          BY <3>2, <5>1, <5>2
      <4>3. QED
        BY <4>1, <4>2
    <3>3. QED
      BY <2>2, <3>1, <3>2 DEF Own
  <2>3. CASE Answer(t)
    <3>1. CASE \E life \in Lifetimes : TokenIssued(t, life)
      BY <1>1, <1>4, <3>1 DEF TokenIssued
    <3>2. CASE Unauthorized(t)
      <4>1. th' = [th EXCEPT ![t].pc = "drop", ![t].mark = issued]
        BY <1>3, <1>4, <3>2 DEF Unauthorized
      <4>2. t = s
        BY <1>1, <1>4, <4>1
      <4>3. th'[t].pc # "read"
        BY <1>1, <4>1 DEF Requests
      <4>4. QED
        BY <4>2, <4>3
    <3>3. CASE GetAnswered(t)
      BY <1>1, <1>4, <3>3 DEF GetAnswered
    <3>4. QED
      BY <2>3, <3>1, <3>2, <3>3 DEF Answer
  <2>4. QED
    BY <1>4, <2>1, <2>2, <2>3
<1>5. CASE GetAnswered(s)
  <2>1. PICK page \in Pages[s][th[s].format] :
          th'[s] = [Request("read", th[s].format, th[s].left) EXCEPT !.page = page]
    BY <1>1, <1>5 DEF GetAnswered
  <2>2. th'[s].page = page /\ th'[s].format = th[s].format
    BY <2>1 DEF Request
  <2>3. QED
    BY <2>2
<1>6. CASE Tick \/ UNCHANGED vars
  BY <1>2, <1>6 DEF Tick, vars
<1>7. QED
  BY <1>2, <1>4, <1>5, <1>6 DEF Next

LEMMA PagesHeld == Spec => []PageOfFormat
<1>1. Init => PageOfFormat
  BY DEF Init, Request, PageOfFormat
<1>2. QED
  BY <1>1, PageStep, Invariance, PTL DEF Spec

LEMMA JsonRead ==
  ASSUME PageOfFormat, NEW t \in Thread, HasJson(t)
  PROVE  JsonDocument(th[t].page) /\ Parsed(t) = ParseJson(th[t].page)
BY PagesAssumption DEF PageOfFormat, HasJson, Parsed

(* Every payload on the page of one post has the title of the first item of its name, and
   an untitled comment the post's, for any document (parsers.py 50-91). *)
THEOREM CommentsKeepTheirPostHolds == Spec => []CommentsKeepTheirPost
<1>1. PageOfFormat => CommentsKeepTheirPost
  <2> SUFFICES ASSUME PageOfFormat, NEW t \in Thread, HasJson(t),
                      {k \in DOMAIN Parsed(t) : Parsed(t)[k].type = "post"} = {1},
                      NEW k \in DOMAIN Parsed(t)
               PROVE  \E j \in DOMAIN JsonItems(th[t].page) : ComesFrom(th[t].page, Parsed(t), k, j)
    BY Zenon DEF CommentsKeepTheirPost, ComesFrom, ItemPayload
  <2> DEFINE doc == th[t].page
             got == Parsed(t)
  <2>1. JsonDocument(doc) /\ got = ParseJson(doc)
    BY JsonRead
  <2>2. DOMAIN got = 1..Len(got) /\ DOMAIN JsonItems(doc) = 1..Len(JsonItems(doc))
    <3> HIDE DEF doc, got
    <3> QED
      BY <2>1, PayloadsType, ItemsType
  <2>3. PostFirst(got)
    BY <2>2 DEF PostFirst
  <2> HIDE DEF doc, got
  <2>4. \A i \in 1..Len(got) : \E j \in 1..Len(JsonItems(doc)) : ComesFrom(doc, got, i, j)
    BY <2>1, <2>3, TitlesKept
  <2>5. QED
    BY <2>2, <2>4 DEF doc, got
<1>2. QED
  BY <1>1, PagesHeld, PTL

(* A full document read as JSON and as Atom gives the same payloads, but for what
   follows a footer's words, for any document (parsers.py 61-111, 134-170). *)
THEOREM FormatsAgreeHolds == Spec => []FormatsAgree
<1>1. PageOfFormat => FormatsAgree
  <2> SUFFICES ASSUME PageOfFormat, NEW t \in Thread, HasJson(t), FullDocument(th[t].page)
               PROVE  LET atom == ParseAtom(AtomOf(th[t].page))
                      IN /\ Len(atom) = Len(Parsed(t))
                         /\ \A k \in DOMAIN atom : SameButFooter(atom[k], Parsed(t)[k])
    BY DEF FormatsAgree, FullDocument, AtomOf, SameButFooter
  <2>1. JsonDocument(th[t].page) /\ Parsed(t) = ParseJson(th[t].page)
    BY JsonRead
  <2>2. QED
    BY <2>1, FormsMatch
<1>2. QED
  BY <1>1, PagesHeld, PTL
===============================================================================
