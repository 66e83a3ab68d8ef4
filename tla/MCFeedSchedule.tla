---------------------------- MODULE MCFeedSchedule ----------------------------
(* A small instance of FeedSchedule for TLC: two spellings of one keyword and
   another keyword whose monitor needs a description as well, in one subreddit; a
   semantic monitor in another, and one without its description. *)
EXTENDS FeedSchedule

CONSTANTS w1, w2, k1, k2, kb, s1, s2

MCSub == [m \in Monitor |-> IF m = s1 THEN "q" ELSE "r"]
MCMode == [m \in Monitor |-> CASE m = kb -> "keyword_semantic"
                               [] m \in {s1, s2} -> "semantic"
                               [] OTHER -> "keyword"]
MCKeyword == [m \in Monitor |-> CASE m = k1 -> "Job"
                                  [] m = k2 -> "job"
                                  [] m = kb -> "ask"
                                  [] OTHER -> NoWord]
MCKey == [w \in Word |-> IF w = "ask" THEN 1 ELSE 2]

MCFeedSpec ==
  {[kind |-> "post_search", format |-> "rss", sub |-> "r", print |-> print] :
     print \in {<<1>>, <<2>>, <<1, 2>>, <<2, 1>>, <<2, 2>>}}
  \cup {[kind |-> kind, format |-> "rss", sub |-> sub, print |-> <<>>] :
          kind \in {"comment_stream", "post_stream"}, sub \in {"q", "r"}}

(* Fetched are a keyword monitor's search and comment stream, and a semantic
   monitor's post and comment stream. *)
MCFetched == {{k1}, {s1}}
===============================================================================
