------------------------------- MODULE MCRunNow -------------------------------
(* A small instance of RunNow, and the inbox in it, for TLC: a semantic monitor of
   one user and a keyword-semantic one of another, on a post and a comment. *)
EXTENDS RunNow

CONSTANTS s1, s2, u1, u2, m1, m2, p, c

MCOwner == [m \in Monitor |-> IF m = m2 /\ u2 \in User THEN u2 ELSE u1]
MCMode == [m \in Monitor |-> IF m = m1 THEN "semantic" ELSE "keyword_semantic"]
MCKeyword == [m \in Monitor |-> "k"]
MCMonitorSeq == <<m1, m2>>

Text(title, body) == [title |-> title, body |-> body]

(* An edited post; a comment, at first without a body.  "w" is any word but the keyword. *)
MCPages ==
  [post_stream    |-> {<<[item |-> p, content |-> Text({"k"}, {})]>>,
                       <<[item |-> p, content |-> Text({"w"}, {})]>>},
   post_search    |-> {<<[item |-> p, content |-> Text({"k"}, {})]>>},
   comment_stream |-> {<<[item |-> c, content |-> Text({"w", "k"}, {})]>>,
                       <<[item |-> c, content |-> Text({"w"}, {"k"})],
                         [item |-> p, content |-> Text({"k"}, {})]>>}]
===============================================================================
