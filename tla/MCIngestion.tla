----------------------------- MODULE MCIngestion -----------------------------
(* Small instances of Ingestion for TLC: feeds, items and monitors of one
   subreddit, with the tables that describe them. *)
EXTENDS Ingestion, TLC

CONSTANTS w1, w2, search, stream, comments, p1, c1, c2, mk, ms

MCMode == [m \in Monitor |-> IF m = mk THEN "keyword" ELSE "semantic"]
MCKind == [f \in Feed |-> CASE f = search -> "post_search"
                            [] f = stream -> "post_stream"
                            [] f = comments -> "comment_stream"]
MCRank == [f \in Feed |-> CASE f = comments -> 0 [] f = search -> 1 [] f = stream -> 2]
MCType == [i \in Item |-> IF i = p1 THEN "post" ELSE "comment"]
MCSub  == [x \in Feed \cup Item \cup Monitor |-> "r"]

(* The keyword stands in every version of c1, and in the others once edited. *)
MCHit == {h \in {mk} \X Item \X (1..MaxVersion) : h[2] = c1 \/ h[3] > 1}

WorkerSymmetry == Permutations({w1, w2})
==============================================================================
