------------------------------- MODULE Parsers -------------------------------
(* reddit/parsers.py: the two parsers that turn a response into item payloads.

   A JSON response is a table of nodes, [top |-> ids, nodes |-> <<node, ...>>],
   where a node names its children by their (larger) indices; an Atom response
   has its entries in [entries |-> <<entry, ...>>].  Of a field only what the parsers' branches tell
   apart is kept: a fullname stands for the identifier, a title for the text
   after whitespace and entities are normalised, and a body is the sequence of
   its words, in which Footer is the " submitted by " that Reddit appends to the
   Atom form of a post. *)
EXTENDS Integers, SequencesExt

CONSTANTS
  PostName,     \* fullnames that begin with t3_
  CommentName,  \* fullnames that begin with t1_
  Footer        \* the footer marker, as a word of a body

ItemName == PostName \cup CommentName

(* A title, and whether it reads "/u/<author> on <title>" as a comment's does in
   an Atom feed. *)
NoTitle == [of |-> "none", by |-> FALSE]
NoPayload == [name |-> "none", type |-> "none", title |-> NoTitle, body |-> <<>>]

(* The local item type of a fullname; other prefixes have none. *)
ItemType(name) == CASE name \in PostName    -> "post"
                    [] name \in CommentName -> "comment"
                    [] OTHER                -> "none"

(* An item is kept only when its type, subreddit, permalink and timestamp are
   known: node.whole stands for the last three. *)
Payload(node, title, body) ==
  IF ItemType(node.name) = "none" \/ ~node.whole THEN NoPayload
  ELSE [name |-> node.name, type |-> ItemType(node.name), title |-> title, body |-> body]

-------------------------------------------------------------------------------
(* JSON *)

JsonDocument(doc) ==
  /\ doc.nodes \in Seq(Range(doc.nodes)) /\ doc.top \in Seq(DOMAIN doc.nodes)
  /\ \A n \in DOMAIN doc.nodes :
       LET node == doc.nodes[n]
       IN /\ node.kids \in Seq((n + 1)..Len(doc.nodes))
          /\ node.title = [of |-> node.title.of, by |-> FALSE]
          /\ node.html \in Seq(Range(node.html))

JsonBody(node) == IF node.html # <<>> THEN node.html ELSE node.text

PayloadFromJson(node) == Payload(node, node.title, JsonBody(node))

(* The indices of the post and comment nodes in document order: a post or a
   comment stands before its replies, listings are only traversed, and other
   kinds are skipped with all that is below them. *)
JsonItems(doc) ==
  LET below[n \in DOMAIN doc.nodes] ==
        LET node == doc.nodes[n]
            kids == FlattenSeq([k \in DOMAIN node.kids |-> below[node.kids[k]]])
        IN CASE node.kind \in {"t1", "t3"} -> <<n>> \o kids
             [] node.kind = "Listing"      -> kids
             [] OTHER                      -> <<>>
  IN FlattenSeq([k \in DOMAIN doc.top |-> below[doc.top[k]]])

(* Faulty variant of JsonStep: an untitled comment stays so. *)
JsonStepUntitled(acc, node) ==
  LET p == PayloadFromJson(node)
  IN IF p = NoPayload \/ p.name \in acc.seen THEN acc
     ELSE [payloads |-> Append(acc.payloads, p),
           seen     |-> acc.seen \cup {p.name},
           post     |-> IF p.type = "post" THEN p.title ELSE acc.post]

(* One round of the loop over the items: skip what is no payload or was seen; a
   post's title is kept for the untitled comments that follow it. *)
JsonStep(acc, node) ==
  LET p == PayloadFromJson(node)
      borrows == p.type = "comment" /\ p.title = NoTitle /\ acc.post # NoTitle
  IN IF p = NoPayload \/ p.name \in acc.seen THEN acc
     ELSE [payloads |-> Append(acc.payloads,
                               IF borrows THEN [p EXCEPT !.title = acc.post] ELSE p),
           seen     |-> acc.seen \cup {p.name},
           post     |-> IF p.type = "post" THEN p.title ELSE acc.post]

(* The payloads, after the first k items and after all. *)
ParseJson(doc) ==
  LET items == JsonItems(doc)
      after[k \in 0..Len(items)] ==
        IF k = 0 THEN [payloads |-> <<>>, seen |-> {}, post |-> NoTitle]
        ELSE JsonStep(after[k - 1], doc.nodes[items[k]])
  IN after[Len(items)].payloads

-------------------------------------------------------------------------------
(* Atom *)

(* A comment's title loses the author's prefix; a post's is kept as it is. *)
AtomTitle(entry) ==
  IF ItemType(entry.name) = "comment" THEN [entry.title EXCEPT !.by = FALSE] ELSE entry.title

(* Faulty variant of AtomBody: the footer is taken for a part of the body. *)
AtomBodyWhole(entry) == entry.content

(* The content up to the first footer marker. *)
AtomBody(entry) ==
  LET end == SelectInSeq(entry.content, LAMBDA w : w = Footer)
  IN IF end = 0 THEN entry.content ELSE SubSeq(entry.content, 1, end - 1)

(* Reddit's Atom rendering of the post or comment of a JSON node. *)
AtomEntry(node) ==
  [name    |-> node.name,
   whole   |-> node.whole,
   title   |-> IF ItemType(node.name) = "comment" THEN [node.title EXCEPT !.by = TRUE] ELSE node.title,
   content |-> node.html \o (IF ItemType(node.name) = "post" THEN <<Footer>> ELSE <<>>)]

PayloadFromAtom(entry) == Payload(entry, AtomTitle(entry), AtomBody(entry))

(* Every entry that is a payload, in order; the Atom parser drops no duplicate. *)
ParseAtom(doc) ==
  FlattenSeq([k \in DOMAIN doc.entries |->
    LET p == PayloadFromAtom(doc.entries[k]) IN IF p = NoPayload THEN <<>> ELSE <<p>>])
===============================================================================
