----------------------------- MODULE FeedSchedule -----------------------------
(* reddit/scheduling.py with the tick of reddit/tasks.py and ingestion.py: workers
   fetch the due feeds of the plan, and a fetch's outcome decides when its feed is
   due again.

   Beat starts a tick (fetch_due_reddit_feeds, which beat calls without a limit) every
   minute on whichever worker is idle, so ticks overlap; each lists the due feeds
   once and then fetches them one by one.  "Run now" fetches the RSS post stream of
   a subreddit without asking whether it is due, but records it like the others.
   A worker stands at
     "next"   before the next feed of its list,
     "fetch"  fetching cur, up to and including the upsert of its items,
     "write"  in mark_feed_failure, having read the row of cur.
   next_fetch_at is kept as the time that is still to pass. *)
EXTENDS Planning

CONSTANTS
  Worker,
  FeedSpec, NoFeed,    \* the feeds that may be fetched
  Interval, BackoffBase, BackoffMax,   \* CHATTERSIFT_REDDIT_...: interval and backoff
  ManyFailures,   \* failures are counted up to here: more change nothing
  Fetched,        \* bound: the sets of active monitors whose plan is also fetched
  MaxEvents       \* bound: edits, manual runs, killed workers and failed statements

(* services.fetch_normalize_and_match *)
RunNowFeed(sub) == [kind |-> "post_stream", format |-> "rss", sub |-> sub, print |-> <<>>]

Backoff(n) ==
  LET seconds == BackoffBase * 2^(n - 1)
  IN IF seconds < BackoffMax THEN seconds ELSE BackoffMax

Longest == IF Interval > BackoffMax THEN Interval ELSE BackoffMax

ASSUME ScheduleAssumption ==
  /\ Interval \in Nat \ {0} /\ BackoffBase \in Nat \ {0} /\ BackoffMax \in Nat \ {0}
  /\ ManyFailures \in Nat \ {0}
  /\ Fetched \subseteq SUBSET Monitor /\ MaxEvents \in Nat

ASSUME FeedsAssumption ==
  /\ NoFeed \notin FeedSpec
  /\ \A monitors \in SUBSET Monitor : Plan(monitors) \subseteq FeedSpec
  /\ \A m \in Monitor : RunNowFeed(Sub[m]) \in FeedSpec

(* The backoff of a counted failure is a number of ticks, and the longest one from
   ManyFailures on. *)
ASSUME BackoffAssumption ==
  /\ \A n \in 1..ManyFailures : Backoff(n) \in 1..BackoffMax
  /\ Backoff(ManyFailures) = BackoffMax

VARIABLES
  active,     \* the active monitors
  plan,       \* the feeds planned for them
  rows,       \* SubredditFetchState of the feeds fetched so far
  pc, todo, cur, read,   \* each worker's tick
  events

tick == <<pc, todo, cur, read>>
vars == <<active, plan, rows, tick, events>>

-------------------------------------------------------------------------------
(* A row: next_fetch_at - now, 0 when that is past, and consecutive_failures. *)
NoRow == [wait |-> 0, failures |-> 0]

Row(f) == IF f \in DOMAIN rows THEN rows[f] ELSE NoRow

(* update_or_create *)
Put(f, wait, failures) ==
  rows' = [g \in DOMAIN rows \cup {f} |->
             IF g = f THEN [wait |-> wait, failures |-> failures] ELSE rows[g]]

Init ==
  /\ active \in SUBSET Monitor
  /\ plan = Plan(active)
  /\ rows = [f \in {} |-> NoRow]
  /\ pc = [w \in Worker |-> "idle"]
  /\ todo = [w \in Worker |-> {}]
  /\ cur = [w \in Worker |-> NoFeed]
  /\ read = [w \in Worker |-> 0]
  /\ events = 0

(* Faulty variant of Due: a feed that keeps failing is given up. *)
DueHealthy == {f \in plan : Row(f).wait = 0 /\ Row(f).failures < ManyFailures}

(* get_due_feed_specs without a limit. *)
Due == {f \in plan : Row(f).wait = 0}

(* A tick lists the due feeds once. *)
StartTick(w) ==
  /\ pc[w] = "idle" /\ Due # {} /\ active \in Fetched
  /\ pc' = [pc EXCEPT ![w] = "next"]
  /\ todo' = [todo EXCEPT ![w] = Due]
  /\ UNCHANGED <<active, plan, rows, cur, read, events>>

(* fetch_subreddit: a user's manual run, due or not. *)
RunNow(w, sub) ==
  /\ pc[w] = "idle" /\ events < MaxEvents
  /\ pc' = [pc EXCEPT ![w] = "next"]
  /\ todo' = [todo EXCEPT ![w] = {RunNowFeed(sub)}]
  /\ events' = events + 1
  /\ UNCHANGED <<active, plan, rows, cur, read>>

Take(w, f) ==
  /\ pc[w] = "next" /\ f \in todo[w]
  /\ pc' = [pc EXCEPT ![w] = "fetch"]
  /\ cur' = [cur EXCEPT ![w] = f]
  /\ todo' = [todo EXCEPT ![w] = @ \ {f}]
  /\ UNCHANGED <<active, plan, rows, read, events>>

(* The loop goes on with what is left of its list. *)
GoesOn(w) ==
  /\ pc' = [pc EXCEPT ![w] = IF todo[w] = {} THEN "idle" ELSE "next"]
  /\ cur' = [cur EXCEPT ![w] = NoFeed]
  /\ UNCHANGED todo

(* Faulty variant of MarkSuccess: the failures stay counted. *)
MarkSuccessOnly(w) ==
  /\ pc[w] = "fetch"
  /\ Put(cur[w], Interval, Row(cur[w]).failures)
  /\ GoesOn(w)
  /\ UNCHANGED <<active, plan, read, events>>

(* mark_feed_success after the items were upserted. *)
MarkSuccess(w) ==
  /\ pc[w] = "fetch"
  /\ Put(cur[w], Interval, 0)
  /\ GoesOn(w)
  /\ UNCHANGED <<active, plan, read, events>>

(* The fetch or the upsert raised: mark_feed_failure reads the row's count. *)
FetchFails(w) ==
  /\ pc[w] = "fetch"
  /\ pc' = [pc EXCEPT ![w] = "write"]
  /\ read' = [read EXCEPT ![w] = Row(cur[w]).failures]
  /\ UNCHANGED <<active, plan, rows, todo, cur, events>>

(* Faulty variants of MarkFailure: the count is not stored; the backoff has no
   maximum. *)
MarkFailureUncounted(w) ==
  /\ pc[w] = "write"
  /\ Put(cur[w], Backoff(1), 0)
  /\ read' = [read EXCEPT ![w] = 0]
  /\ GoesOn(w)
  /\ UNCHANGED <<active, plan, events>>
MarkFailureUncapped(w) ==
  /\ pc[w] = "write"
  /\ Put(cur[w], BackoffBase * 2^read[w], IF read[w] < ManyFailures THEN read[w] + 1 ELSE ManyFailures)
  /\ read' = [read EXCEPT ![w] = 0]
  /\ GoesOn(w)
  /\ UNCHANGED <<active, plan, events>>

(* It then writes one more than it read, whatever the row holds by now. *)
MarkFailure(w) ==
  LET count == IF read[w] < ManyFailures THEN read[w] + 1 ELSE ManyFailures
  IN /\ pc[w] = "write"
     /\ Put(cur[w], Backoff(count), count)
     /\ read' = [read EXCEPT ![w] = 0]
     /\ GoesOn(w)
     /\ UNCHANGED <<active, plan, events>>

(* Recording the outcome raises: the loop logs it and the feed stays as it was. *)
MarkError(w) ==
  /\ pc[w] \in {"fetch", "write"} /\ events < MaxEvents
  /\ events' = events + 1
  /\ read' = [read EXCEPT ![w] = 0]
  /\ GoesOn(w)
  /\ UNCHANGED <<active, plan, rows>>

(* The hard time limit kills the worker; what was on its list is left. *)
Kill(w) ==
  /\ pc[w] # "idle" /\ events < MaxEvents
  /\ events' = events + 1
  /\ pc' = [pc EXCEPT ![w] = "idle"]
  /\ todo' = [todo EXCEPT ![w] = {}]
  /\ cur' = [cur EXCEPT ![w] = NoFeed]
  /\ read' = [read EXCEPT ![w] = 0]
  /\ UNCHANGED <<active, plan, rows>>

(* A monitor is created, resumed, paused or deleted. *)
EditMonitor(m) ==
  /\ events < MaxEvents
  /\ active' = IF m \in active THEN active \ {m} ELSE active \cup {m}
  /\ plan' = Plan(active')
  /\ events' = events + 1
  /\ UNCHANGED <<rows, tick>>

Time ==
  /\ \E f \in DOMAIN rows : rows[f].wait > 0
  /\ rows' = [f \in DOMAIN rows |->
                IF rows[f].wait > 0 THEN [rows[f] EXCEPT !.wait = @ - 1] ELSE rows[f]]
  /\ UNCHANGED <<active, plan, tick, events>>

-------------------------------------------------------------------------------
Work(w) ==
  \/ \E f \in todo[w] : Take(w, f)
  \/ MarkSuccess(w)
  \/ FetchFails(w)
  \/ MarkFailure(w)

Next ==
  \/ \E w \in Worker :
       \/ StartTick(w)
       \/ \E m \in active : RunNow(w, Sub[m])
       \/ Work(w)
       \/ MarkError(w)
       \/ Kill(w)
  \/ \E m \in Monitor : EditMonitor(m)
  \/ Time

Spec == Init /\ [][Next]_vars

(* Time passes, beat goes on starting ticks on idle workers, and HTTP timeouts and
   lock waits end, so that every worker goes on. *)
FairSpec ==
  /\ Spec
  /\ WF_vars(Time)
  /\ WF_vars(\E w \in Worker : StartTick(w))
  /\ \A w \in Worker : WF_vars(Work(w))

-------------------------------------------------------------------------------
(* Types; no feed is put off for longer than the interval or the longest backoff. *)
TypeOK ==
  /\ active \subseteq Monitor /\ plan \subseteq FeedSpec
  /\ DOMAIN rows \subseteq FeedSpec
  /\ rows \in [DOMAIN rows -> [wait : 0..Longest, failures : 0..ManyFailures]]
  /\ pc \in [Worker -> {"idle", "next", "fetch", "write"}]
  /\ todo \in [Worker -> SUBSET FeedSpec]
  /\ cur \in [Worker -> FeedSpec \cup {NoFeed}]
  /\ read \in [Worker -> 0..ManyFailures]
  /\ events \in 0..MaxEvents

(* The plan of the active monitors serves each of them, and nobody else. *)
PlanServesMonitors == ServesAll(active, plan)

(* A process that enumerates the spellings of a keyword in another order plans the
   same feeds, so that their rows, and their backoff, are found again. *)
PlanIsStable == \A m \in active : Cardinality(Searches(active, Sub[m])) <= 1

(* A feed the plan keeps is fetched again and again, whatever fails before it or
   runs beside it. *)
FeedsAreServed ==
  \A f \in FeedSpec : []<>(f \notin plan \/ active \notin Fetched) \/ []<><<\E w \in Worker : Take(w, f)>>_vars

Failing(f)    == \E w \in Worker : cur[w] = f /\ FetchFails(w)
Succeeding(f) == \E w \in Worker : cur[w] = f /\ MarkSuccess(w)

(* A planned feed that stops failing comes back to the regular interval, although an
   overlapping failure may be recorded after its first success. *)
RecoveredFeedsReset ==
  \A f \in FeedSpec :
    <>[](f \in plan /\ active \in Fetched) /\ <>[][~Failing(f)]_vars => <>[](Row(f).failures = 0)

(* A planned feed that only fails reaches the longest backoff and stays there,
   although overlapping failures are counted once or count back. *)
FailingFeedsBackOff ==
  \A f \in FeedSpec :
    <>[](f \in plan /\ active \in Fetched) /\ <>[][~Succeeding(f)]_vars => <>[](Row(f).failures = ManyFailures)
===============================================================================
