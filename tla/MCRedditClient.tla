---------------------------- MODULE MCRedditClient ----------------------------
(* Small instances of RedditClient for TLC. *)
EXTENDS RedditClient

CONSTANTS t1, t2

MCPosts    == {"t3_a", "t3_b"}
MCComments == {"t1_a", "t1_b"}

Title(of) == [of |-> of, by |-> FALSE]
TitleOf   == [n \in MCPosts \cup {"t5_x"} |-> Title(n)]

Node(kind, name, title, html, whole, kids) ==
  [kind |-> kind, name |-> name, title |-> title, html |-> html, text |-> <<"raw">>,
   whole |-> whole, kids |-> kids]
Listing(kids) == Node("Listing", "none", NoTitle, <<>>, FALSE, kids)
Post(name, html, whole) == Node("t3", name, TitleOf[name], html, whole, <<>>)
Comment(name, title, kids) == Node("t1", name, title, <<"w">>, TRUE, kids)
Broken == Node("t1", "t1_a", NoTitle, <<"w">>, FALSE, <<>>)
Other  == Post("t5_x", <<"w">>, TRUE)

PostA == Post("t3_a", <<"w">>, TRUE)
PostB == Post("t3_b", <<"w">>, TRUE)
ComA  == Comment("t1_a", NoTitle, <<>>)
ComB  == Comment("t1_b", NoTitle, <<>>)
ComT  == Comment("t1_a", Title("t3_b"), <<>>)

(* A listing; and a post, then a comment with a reply and a node to skip. *)
Stream(nodes) ==
  [top |-> <<1>>, nodes |-> <<Listing([k \in DOMAIN nodes |-> k + 1])>> \o nodes]
Tree(post, c, reply) ==
  [top |-> <<1, 2>>,
   nodes |-> <<Listing(<<3>>), Listing(<<4, 7>>), post, [c EXCEPT !.kids = <<5>>],
               Listing(<<6>>), reply, Node("more", "t1_b", NoTitle, <<>>, TRUE, <<8>>), reply>>]

(* Every kind of body; repeated posts and comments, titled or not, among items that
   are no payload; replies below a comment. *)
JsonPages ==
  {Stream(<<Post("t3_a", html, TRUE)>>) : html \in {<<>>, <<"w", Footer, "v">>, <<Footer>>}}
    \cup {Stream(<<PostA, b, c>>) : b \in {PostA, PostB, Broken, Other, ComA},
                                   c \in {ComA, ComT, PostA}}
    \cup {Tree(a, b, c) : a \in {PostA, Other}, b \in {ComA, ComT, Broken}, c \in {ComA, ComB, Broken}}

AtomPages ==
  {[entries |-> <<AtomEntry(a), AtomEntry(ComT)>>] : a \in {PostA, Broken, ComT}}

MCPages == [t \in Thread |->
              IF t = t1 THEN [rss |-> AtomPages, json |-> JsonPages]
              ELSE [rss |-> {BadPage, [entries |-> <<>>]}, json |-> {BadPage, Stream(<<>>)}]]
==============================================================================
