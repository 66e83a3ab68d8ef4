------------------------------ MODULE Ingestion ------------------------------
(***************************************************************************)
(* The collection pipeline of reddit/ingestion.py: Celery workers take the *)
(* due feeds of a tick (or one feed of a manual run), fetch each from      *)
(* Reddit, and in one PostgreSQL transaction upsert the payloads into the  *)
(* RedditItem cache, evaluate the new or changed ones against the active   *)
(* monitors, insert Match rows and, once committed, enqueue the immediate  *)
(* notification task.  The feed's SubredditFetchState row is written after *)
(* the transaction.  Requests of the web application, the pruning tasks    *)
(* and Reddit itself run in between.                                       *)
(*                                                                         *)
(* Data kept: an item's fields are one opaque version number, 0 for no row *)
(* (or not published); a Match row is its unique key <<monitor, item>>;    *)
(* next_fetch_at is whether it has been reached.  READ COMMITTED: a        *)
(* transaction reads committed rows, and its own uncommitted rows lock out *)
(* every other writer of the same row.                                     *)
(***************************************************************************)
EXTENDS Integers, FiniteSets

CONSTANTS
  Worker,       \* Celery worker processes
  Feed,         \* planned feed identities (SubredditFetchState keys)
  Item,         \* reddit_id values
  Monitor,      \* primary keys of Monitor rows, used once each
  NoItem,       \* "no row in hand"
  Mode,         \* Mode[m]: the monitor's match_mode
  Kind,         \* Kind[f]: the feed's RedditFeedKind
  Type,         \* Type[i]: "post" or "comment"
  Sub,          \* Sub[x]: subreddit of a feed, an item or a monitor
  Rank,         \* Rank[f]: position in the sorted feed identities
  Hit,          \* <<m, i, v>>: m's keyword occurs in version v of i
  MaxVersion,   \* bound: publications and edits of one item on Reddit
  MaxFailures,  \* bound: consecutive_failures is kept up to this
  MaxFaults     \* bound: worker crashes and failed state writes

Modes == {"keyword", "semantic", "keyword_semantic"}
Kinds == {"comment_stream", "post_search", "post_stream"}
Versions == 0..MaxVersion
Pairs == Monitor \X Item

ASSUME IngestionConstants ==
  /\ NoItem \notin Item /\ Feed # {}
  /\ Mode \in [Monitor -> Modes]
  /\ Kind \in [Feed -> Kinds]
  /\ Rank \in [Feed -> Nat]
  /\ \A f, g \in Feed : Rank[f] = Rank[g] => f = g
  /\ Hit \subseteq Monitor \X Item \X (1..MaxVersion)
  /\ MaxVersion \in Nat /\ MaxFailures \in Nat \ {0} /\ MaxFaults \in Nat

VARIABLES
  reddit,      \* reddit[i]: version of i that Reddit serves
  monitors,    \* monitors[m]: "new", "active", "inactive" or "deleted"
  items,       \* items[i]: committed RedditItem row
  matches,     \* committed Match rows
  fetchState,  \* fetchState[f]: SubredditFetchState row
  announced,   \* pairs handed to send_immediate_match_notifications
  pc,          \* pc[w]: what worker w does next
  todo,        \* todo[w]: due feeds its task still has to take
  feed,        \* feed[w]: the feed in hand
  batch,       \* batch[w][i]: version of i in the fetched payloads, or 0
  pending,     \* pending[w]: payloads not upserted yet
  cursor,      \* cursor[w]: item whose row was just read, or NoItem
  seen,        \* seen[w]: what that read returned
  wrote,       \* wrote[w]: rows its open transaction inserted or updated
  active,      \* active[w]: monitors its intents were built from
  positive,    \* positive[w]: pairs decided (then created) as matches
  failures,    \* failures[w]: consecutive_failures it is about to write
  faults,      \* faults that happened so far
  committed,   \* history: pairs ever committed as a Match row
  origin       \* history: feed kind and active monitors behind items[i]

tx     == <<batch, pending, cursor, seen, wrote, active, positive>>
worker == <<pc, todo, feed, failures, tx>>
db     == <<monitors, items, matches, fetchState>>
hist   == <<committed, origin>>
vars   == <<reddit, db, announced, worker, faults, hist>>

WorkerStates ==
  {"idle", "next", "upsert", "commit", "announce", "succeed", "fail", "backoff"}

(* The types of the variables. *)
TypeOK ==
  /\ reddit \in [Item -> Versions]
  /\ monitors \in [Monitor -> {"new", "active", "inactive", "deleted"}]
  /\ items \in [Item -> Versions]
  /\ matches \subseteq Pairs
  /\ fetchState \in [Feed -> [due : BOOLEAN, failures : 0..MaxFailures]]
  /\ announced \subseteq Pairs
  /\ pc \in [Worker -> WorkerStates]
  /\ todo \in [Worker -> SUBSET Feed]
  /\ feed \in [Worker -> Feed]
  /\ batch \in [Worker -> [Item -> Versions]]
  /\ pending \in [Worker -> SUBSET Item]
  /\ cursor \in [Worker -> Item \cup {NoItem}]
  /\ seen \in [Worker -> Versions]
  /\ wrote \in [Worker -> SUBSET Item]
  /\ active \in [Worker -> SUBSET Monitor]
  /\ positive \in [Worker -> SUBSET Pairs]
  /\ failures \in [Worker -> 0..MaxFailures]
  /\ faults \in 0..MaxFaults
  /\ committed \subseteq Pairs
  /\ origin \in [Item -> [kind : Kinds, active : SUBSET Monitor]]

NoBatch == [i \in Item |-> 0]

Init ==
  /\ reddit = [i \in Item |-> 0]
  /\ monitors = [m \in Monitor |-> "new"]
  /\ items = NoBatch
  /\ matches = {} /\ announced = {} /\ committed = {}
  /\ fetchState = [f \in Feed |-> [due |-> TRUE, failures |-> 0]]
  /\ pc = [w \in Worker |-> "idle"]
  /\ todo = [w \in Worker |-> {}]
  /\ feed \in [Worker -> {CHOOSE f \in Feed : TRUE}]
  /\ batch = [w \in Worker |-> NoBatch]
  /\ pending = [w \in Worker |-> {}]
  /\ cursor = [w \in Worker |-> NoItem]
  /\ seen = [w \in Worker |-> 0]
  /\ wrote = [w \in Worker |-> {}]
  /\ active = [w \in Worker |-> {}]
  /\ positive = [w \in Worker |-> {}]
  /\ failures = [w \in Worker |-> 0]
  /\ faults = 0
  /\ origin = [i \in Item |-> [kind |-> "comment_stream", active |-> {}]]

------------------------------------------------------------------------------
(* Planning and scheduling, as far as the pipeline reads them. *)

ActiveMonitors == {m \in Monitor : monitors[m] = "active"}

(* The feed kinds that a monitor of one mode makes the planner request. *)
PlannedFor(mode) ==
  IF mode = "semantic" THEN {"post_stream", "comment_stream"}
                       ELSE {"post_search", "comment_stream"}

Planned(f) == \E m \in ActiveMonitors : Sub[m] = Sub[f] /\ Kind[f] \in PlannedFor(Mode[m])

DueFeeds == {f \in Feed : Planned(f) /\ fetchState[f].due}

(* The modes whose monitors are evaluated on the items of a feed kind. *)
Evaluates(kind, mode) ==
  CASE kind = "post_search"    -> mode \in {"keyword", "keyword_semantic"}
    [] kind = "post_stream"    -> mode = "semantic"
    [] kind = "comment_stream" -> TRUE

(* fetch_due_reddit_feeds: the due feeds are listed once for the whole tick. *)
StartTick(w) ==
  /\ pc[w] = "idle" /\ DueFeeds # {}
  /\ todo' = [todo EXCEPT ![w] = DueFeeds]
  /\ pc' = [pc EXCEPT ![w] = "next"]
  /\ UNCHANGED <<reddit, db, announced, feed, failures, tx, faults, hist>>

(* fetch_subreddit: "Run now" and a new monitor fetch the post stream, due or not. *)
RunNow(w, f) ==
  /\ pc[w] = "idle" /\ Kind[f] = "post_stream"
  /\ todo' = [todo EXCEPT ![w] = {f}]
  /\ pc' = [pc EXCEPT ![w] = "next"]
  /\ UNCHANGED <<reddit, db, announced, feed, failures, tx, faults, hist>>

(* The task takes its feeds in the order of their identities. *)
Take(w, f) ==
  /\ pc[w] = "next"
  /\ \A g \in todo[w] : Rank[f] <= Rank[g]
  /\ todo' = [todo EXCEPT ![w] = @ \ {f}]
  /\ feed' = [feed EXCEPT ![w] = f]

(* Faulty variant of Continue: the task handles one feed of its list. *)
ContinueOnce(w) == pc' = [pc EXCEPT ![w] = "idle"]

(* After a feed, whatever its outcome, the task goes on with the next one. *)
Continue(w) == pc' = [pc EXCEPT ![w] = IF todo[w] = {} THEN "idle" ELSE "next"]

------------------------------------------------------------------------------
(* Fetching. *)

(* Reddit serves f a window of what it holds: any of the items f can list. *)
Listed(f) == {i \in Item : /\ Sub[i] = Sub[f] /\ reddit[i] > 0
                           /\ (Type[i] = "comment") <=> (Kind[f] = "comment_stream")}

Fetch(w) ==
  /\ \E f \in todo[w], window \in SUBSET Item :
       /\ Take(w, f)
       /\ window \subseteq Listed(f)
       /\ batch' = [batch EXCEPT ![w] = [i \in Item |-> IF i \in window THEN reddit[i] ELSE 0]]
       /\ pending' = [pending EXCEPT ![w] = window]
  /\ pc' = [pc EXCEPT ![w] = "upsert"]
  /\ UNCHANGED <<reddit, db, announced, failures, cursor, seen, wrote, active, positive,
                 faults, hist>>

(* Faulty variant of FetchFails: the feed stays in the list and is retried. *)
FetchFailsKeepsFeed(w) ==
  /\ pc[w] = "next"
  /\ \E f \in todo[w] : /\ \A g \in todo[w] : Rank[f] <= Rank[g]
                        /\ feed' = [feed EXCEPT ![w] = f]
  /\ pc' = [pc EXCEPT ![w] = "fail"]
  /\ UNCHANGED <<reddit, db, announced, todo, failures, tx, faults, hist>>

FetchFails(w) ==
  /\ \E f \in todo[w] : Take(w, f)
  /\ pc' = [pc EXCEPT ![w] = "fail"]
  /\ UNCHANGED <<reddit, db, announced, failures, tx, faults, hist>>

------------------------------------------------------------------------------
(* The transaction of _upsert_and_match_payloads. *)

LockedByOther(w, i) == \E v \in Worker \ {w} : i \in wrote[v]

(* What the end of a transaction, committed or not, leaves of its local state. *)
EndTx(w) ==
  /\ pending' = [pending EXCEPT ![w] = {}]
  /\ cursor' = [cursor EXCEPT ![w] = NoItem]
  /\ seen' = [seen EXCEPT ![w] = 0]
  /\ wrote' = [wrote EXCEPT ![w] = {}]
  /\ active' = [active EXCEPT ![w] = {}]

(* An exception rolls the transaction back and reaches mark_feed_failure. *)
Rollback(w) ==
  /\ EndTx(w)
  /\ batch' = [batch EXCEPT ![w] = NoBatch]
  /\ positive' = [positive EXCEPT ![w] = {}]
  /\ pc' = [pc EXCEPT ![w] = "fail"]
  /\ UNCHANGED <<reddit, db, announced, todo, feed, failures, faults, hist>>

(* get_or_create's first SELECT; an unchanged row is left alone and not matched. *)
ReadItem(w, i) ==
  /\ pc[w] = "upsert" /\ cursor[w] = NoItem /\ i \in pending[w]
  /\ IF items[i] = batch[w][i]
       THEN /\ pending' = [pending EXCEPT ![w] = @ \ {i}]
            /\ UNCHANGED <<cursor, seen>>
       ELSE /\ cursor' = [cursor EXCEPT ![w] = i]
            /\ seen' = [seen EXCEPT ![w] = items[i]]
            /\ UNCHANGED pending
  /\ UNCHANGED <<reddit, db, announced, pc, todo, feed, failures, batch, wrote, active,
                 positive, faults, hist>>

(* The INSERT of a row that was not there, or the UPDATE of one that was. *)
WriteItem(w) ==
  /\ pc[w] = "upsert" /\ cursor[w] # NoItem /\ ~LockedByOther(w, cursor[w])
  /\ (seen[w] = 0) <=> (items[cursor[w]] = 0)
  /\ wrote' = [wrote EXCEPT ![w] = @ \cup {cursor[w]}]
  /\ pending' = [pending EXCEPT ![w] = @ \ {cursor[w]}]
  /\ cursor' = [cursor EXCEPT ![w] = NoItem]
  /\ seen' = [seen EXCEPT ![w] = 0]
  /\ UNCHANGED <<reddit, db, announced, pc, todo, feed, failures, batch, active, positive,
                 faults, hist>>

(* The INSERT met a row committed meanwhile: get_or_create reads that one. *)
InsertConflict(w) ==
  LET i == cursor[w] IN
  /\ pc[w] = "upsert" /\ i # NoItem /\ ~LockedByOther(w, i)
  /\ seen[w] = 0 /\ items[i] # 0
  /\ IF items[i] = batch[w][i]
       THEN /\ pending' = [pending EXCEPT ![w] = @ \ {i}]
            /\ cursor' = [cursor EXCEPT ![w] = NoItem]
            /\ UNCHANGED seen
       ELSE /\ seen' = [seen EXCEPT ![w] = items[i]]
            /\ UNCHANGED <<pending, cursor>>
  /\ UNCHANGED <<reddit, db, announced, pc, todo, feed, failures, batch, wrote, active,
                 positive, faults, hist>>

(* The row was pruned meanwhile: save(update_fields=...) raises DatabaseError. *)
UpdateVanished(w) ==
  /\ pc[w] = "upsert" /\ cursor[w] # NoItem
  /\ seen[w] # 0 /\ items[cursor[w]] = 0
  /\ ~LockedByOther(w, cursor[w])
  /\ Rollback(w)

WaitsFor(w, v) == w # v /\ cursor[w] # NoItem /\ cursor[w] \in wrote[v]

(* PostgreSQL aborts a transaction on a cycle of lock waits. *)
DeadlockVictim(w) ==
  /\ \E S \in SUBSET Worker :
       /\ w \in S
       /\ \A v \in S : (\E u \in S : WaitsFor(v, u)) /\ (\E u \in S : WaitsFor(u, v))
  /\ Rollback(w)

(* Faulty variant of Abort: no transaction.atomic, so written items stay. *)
AbortKeepsItems(w) ==
  /\ pc[w] \in {"upsert", "commit"}
  /\ items' = [i \in Item |-> IF i \in wrote[w] THEN batch[w][i] ELSE items[i]]
  /\ origin' = [i \in Item |-> IF i \in wrote[w]
                                 THEN [kind |-> Kind[feed[w]], active |-> ActiveMonitors]
                                 ELSE origin[i]]
  /\ EndTx(w)
  /\ batch' = [batch EXCEPT ![w] = NoBatch]
  /\ positive' = [positive EXCEPT ![w] = {}]
  /\ pc' = [pc EXCEPT ![w] = "fail"]
  /\ UNCHANGED <<reddit, monitors, matches, fetchState, announced, todo, feed, failures,
                 faults, committed>>

(* Database errors, the soft time limit or a full disk, anywhere in it. *)
Abort(w) == pc[w] \in {"upsert", "commit"} /\ Rollback(w)

(* Faulty variants of Requests: all fetched payloads are matched; the
   intents are not filtered by feed kind; only inserted rows are matched. *)
RequestsForAllPayloads(w) ==
  {p \in ActiveMonitors \X {i \in Item : batch[w][i] # 0} :
     Evaluates(Kind[feed[w]], Mode[p[1]]) /\ Sub[p[1]] = Sub[p[2]] /\ p \notin matches}
RequestsOfAnyKind(w) ==
  {p \in ActiveMonitors \X wrote[w] : Sub[p[1]] = Sub[p[2]] /\ p \notin matches}
RequestsForInserts(w) ==
  {p \in ActiveMonitors \X {i \in wrote[w] : items[i] = 0} :
     Evaluates(Kind[feed[w]], Mode[p[1]]) /\ Sub[p[1]] = Sub[p[2]] /\ p \notin matches}

(* Requests: changed payloads against the monitors the feed kind evaluates,
   less the pairs that have a Match row. *)
Requests(w) ==
  {p \in ActiveMonitors \X wrote[w] : /\ Evaluates(Kind[feed[w]], Mode[p[1]])
                                      /\ Sub[p[1]] = Sub[p[2]]
                                      /\ p \notin matches}

(* Decisions: keyword matching is exact; a semantic verdict may be negative,
   fail or be out of budget, and what has no verdict is not a match. *)
Decisions(w) ==
  LET hits == {p \in Requests(w) : <<p[1], p[2], batch[w][p[2]]>> \in Hit}
      sure == {p \in hits : Mode[p[1]] = "keyword"}
      open == {p \in hits : Mode[p[1]] = "keyword_semantic"}
                \cup {p \in Requests(w) : Mode[p[1]] = "semantic"}
  IN  {sure \cup S : S \in SUBSET open}

(* Faulty variant of MatchItems: send_task at once instead of on commit. *)
MatchItemsAnnouncing(w) ==
  /\ pc[w] = "upsert" /\ cursor[w] = NoItem /\ pending[w] = {}
  /\ active' = [active EXCEPT ![w] = ActiveMonitors]
  /\ \E decision \in Decisions(w) :
       /\ positive' = [positive EXCEPT ![w] = decision]
       /\ announced' = announced \cup decision
  /\ pc' = [pc EXCEPT ![w] = "commit"]
  /\ UNCHANGED <<reddit, db, todo, feed, failures, batch, pending, cursor, seen, wrote, faults,
                 hist>>

(* build_match_requests and evaluate_match_requests, from the intents of now. *)
MatchItems(w) ==
  /\ pc[w] = "upsert" /\ cursor[w] = NoItem /\ pending[w] = {}
  /\ active' = [active EXCEPT ![w] = ActiveMonitors]
  /\ \E decision \in Decisions(w) : positive' = [positive EXCEPT ![w] = decision]
  /\ pc' = [pc EXCEPT ![w] = "commit"]
  /\ UNCHANGED <<reddit, db, announced, todo, feed, failures, batch, pending, cursor, seen,
                 wrote, faults, hist>>

(* Match.monitor is a foreign key, checked at COMMIT.  Without it: *)
NoForeignKey(created) == TRUE

ForeignKeyHolds(created) == \A p \in created : monitors[p[1]] # "deleted"

(* get_or_create inserts the missing Match rows and COMMIT checks their keys;
   on_commit then holds the ids of the created rows. *)
Commit(w) ==
  LET created == positive[w] \ matches IN
  /\ pc[w] = "commit"
  /\ ForeignKeyHolds(created)
  /\ items' = [i \in Item |-> IF i \in wrote[w] THEN batch[w][i] ELSE items[i]]
  /\ matches' = matches \cup created
  /\ committed' = committed \cup created
  /\ origin' = [i \in Item |-> IF i \in wrote[w]
                                 THEN [kind |-> Kind[feed[w]], active |-> active[w]]
                                 ELSE origin[i]]
  /\ EndTx(w)
  /\ positive' = [positive EXCEPT ![w] = created]
  /\ pc' = [pc EXCEPT ![w] = IF created = {} THEN "succeed" ELSE "announce"]
  /\ UNCHANGED <<reddit, monitors, fetchState, announced, todo, feed, failures, batch, faults>>

(* The deferred foreign key check fails: the monitor was deleted meanwhile. *)
CommitRefused(w) ==
  /\ pc[w] = "commit"
  /\ ~ForeignKeyHolds(positive[w] \ matches)
  /\ Rollback(w)

------------------------------------------------------------------------------
(* After the transaction. *)

(* on_commit: one notification task for all rows this transaction created. *)
Announce(w) ==
  /\ pc[w] = "announce"
  /\ announced' = announced \cup positive[w]
  /\ positive' = [positive EXCEPT ![w] = {}]
  /\ pc' = [pc EXCEPT ![w] = "succeed"]
  /\ UNCHANGED <<reddit, db, todo, feed, failures, batch, pending, cursor, seen, wrote, active,
                 faults, hist>>

(* The broker refuses the task: committed work is then recorded as a failure. *)
BrokerDown(w) == pc[w] = "announce" /\ Rollback(w)

(* Faulty variant of MarkSuccess: the failure count is reduced, not cleared. *)
MarkSuccessReduces(w) ==
  /\ pc[w] = "succeed"
  /\ fetchState' = [fetchState EXCEPT
       ![feed[w]] = [due |-> FALSE, failures |-> @.failures - 1]]
  /\ batch' = [batch EXCEPT ![w] = NoBatch]
  /\ Continue(w)
  /\ UNCHANGED <<reddit, monitors, items, matches, announced, todo, feed, failures, pending,
                 cursor, seen, wrote, active, positive, faults, hist>>

(* mark_feed_success: not due before the next interval, no failures left. *)
MarkSuccess(w) ==
  /\ pc[w] = "succeed"
  /\ fetchState' = [fetchState EXCEPT ![feed[w]] = [due |-> FALSE, failures |-> 0]]
  /\ batch' = [batch EXCEPT ![w] = NoBatch]
  /\ Continue(w)
  /\ UNCHANGED <<reddit, monitors, items, matches, announced, todo, feed, failures, pending,
                 cursor, seen, wrote, active, positive, faults, hist>>

(* mark_feed_failure reads the counter ... *)
ReadFailures(w) ==
  /\ pc[w] = "fail"
  /\ failures' = [failures EXCEPT
       ![w] = IF fetchState[feed[w]].failures < MaxFailures
                THEN fetchState[feed[w]].failures + 1 ELSE MaxFailures]
  /\ pc' = [pc EXCEPT ![w] = "backoff"]
  /\ UNCHANGED <<reddit, db, announced, todo, feed, tx, faults, hist>>

(* Faulty variant of WriteFailure: the backoff is not stored. *)
WriteFailureNoBackoff(w) ==
  /\ pc[w] = "backoff"
  /\ fetchState' = [fetchState EXCEPT ![feed[w]] = [due |-> TRUE, failures |-> failures[w]]]
  /\ failures' = [failures EXCEPT ![w] = 0]
  /\ Continue(w)
  /\ UNCHANGED <<reddit, monitors, items, matches, announced, todo, feed, tx, faults, hist>>

(* ... and writes it back, with the backoff it gives, in a later statement. *)
WriteFailure(w) ==
  /\ pc[w] = "backoff"
  /\ fetchState' = [fetchState EXCEPT ![feed[w]] = [due |-> FALSE, failures |-> failures[w]]]
  /\ failures' = [failures EXCEPT ![w] = 0]
  /\ Continue(w)
  /\ UNCHANGED <<reddit, monitors, items, matches, announced, todo, feed, tx, faults, hist>>

(* The state row cannot be written: the feed stays as it was. *)
MarkError(w) ==
  /\ pc[w] \in {"succeed", "backoff"} /\ faults < MaxFaults
  /\ faults' = faults + 1
  /\ failures' = [failures EXCEPT ![w] = 0]
  /\ batch' = [batch EXCEPT ![w] = NoBatch]
  /\ Continue(w)
  /\ UNCHANGED <<reddit, db, announced, todo, feed, pending, cursor, seen, wrote, active,
                 positive, hist>>

(* The hard time limit or a restart kills the process; its task is not redelivered. *)
Crash(w) ==
  /\ pc[w] # "idle" /\ faults < MaxFaults
  /\ faults' = faults + 1
  /\ EndTx(w)
  /\ batch' = [batch EXCEPT ![w] = NoBatch]
  /\ positive' = [positive EXCEPT ![w] = {}]
  /\ failures' = [failures EXCEPT ![w] = 0]
  /\ todo' = [todo EXCEPT ![w] = {}]
  /\ pc' = [pc EXCEPT ![w] = "idle"]
  /\ UNCHANGED <<reddit, db, announced, feed, hist>>

------------------------------------------------------------------------------
(* What runs beside the workers. *)

Publish(i) ==
  /\ reddit[i] < MaxVersion
  /\ reddit' = [reddit EXCEPT ![i] = @ + 1]
  /\ UNCHANGED <<db, announced, worker, faults, hist>>

BecomeDue(f) ==
  /\ ~fetchState[f].due
  /\ fetchState' = [fetchState EXCEPT ![f].due = TRUE]
  /\ UNCHANGED <<reddit, monitors, items, matches, announced, worker, faults, hist>>

(* prune_expired: the DELETE waits for the locks on the rows it removes. *)
PruneItems(S) ==
  /\ S # {} /\ \A i \in S : items[i] # 0 /\ \A w \in Worker : i \notin wrote[w]
  /\ items' = [i \in Item |-> IF i \in S THEN 0 ELSE items[i]]
  /\ UNCHANGED <<reddit, monitors, matches, fetchState, announced, worker, faults, hist>>

ActivateMonitor(m) ==
  /\ monitors[m] \in {"new", "inactive"}
  /\ monitors' = [monitors EXCEPT ![m] = "active"]
  /\ UNCHANGED <<reddit, items, matches, fetchState, announced, worker, faults, hist>>

DeactivateMonitor(m) ==
  /\ monitors[m] = "active"
  /\ monitors' = [monitors EXCEPT ![m] = "inactive"]
  /\ UNCHANGED <<reddit, items, matches, fetchState, announced, worker, faults, hist>>

(* on_delete=CASCADE: the monitor's Match rows go with it. *)
DeleteMonitor(m) ==
  /\ monitors[m] \in {"active", "inactive"}
  /\ monitors' = [monitors EXCEPT ![m] = "deleted"]
  /\ matches' = {p \in matches : p[1] # m}
  /\ UNCHANGED <<reddit, items, fetchState, announced, worker, faults, hist>>

(* lead_delete, match dismissal's deletion and retention pruning. *)
RemoveMatch(p) ==
  /\ matches' = matches \ {p}
  /\ UNCHANGED <<reddit, monitors, items, fetchState, announced, worker, faults, hist>>

------------------------------------------------------------------------------
(* The write that ReadItem decided on, once no other transaction holds the row. *)
WriteRow(w) == WriteItem(w) \/ InsertConflict(w) \/ UpdateVanished(w)

(* A step of a busy worker that its process takes by itself. *)
Work(w) ==
  \/ Fetch(w) \/ FetchFails(w)
  \/ \E i \in pending[w] : ReadItem(w, i)
  \/ WriteRow(w) \/ DeadlockVictim(w)
  \/ MatchItems(w) \/ Commit(w) \/ CommitRefused(w)
  \/ Announce(w) \/ BrokerDown(w)
  \/ MarkSuccess(w) \/ ReadFailures(w) \/ WriteFailure(w)

Environment ==
  \/ \E i \in Item : Publish(i)
  \/ \E f \in Feed : BecomeDue(f)
  \/ \E S \in SUBSET Item : PruneItems(S)
  \/ \E m \in Monitor : ActivateMonitor(m) \/ DeactivateMonitor(m) \/ DeleteMonitor(m)
  \/ \E p \in matches : RemoveMatch(p)

Next ==
  \/ \E w \in Worker : StartTick(w) \/ Work(w) \/ Abort(w) \/ MarkError(w) \/ Crash(w)
  \/ \E w \in Worker, f \in Feed : RunNow(w, f)
  \/ Environment

Spec == Init /\ [][Next]_vars

(* A busy worker goes on.  Beat enqueues a tick every minute on a FIFO queue,
   so manual runs cannot keep a tick from the workers; PostgreSQL grants a row
   lock in the order of the waits, so no waiter is passed over forever. *)
FairSpec ==
  /\ Spec
  /\ SF_vars(\E w \in Worker : StartTick(w))
  /\ \A w \in Worker : WF_vars(Work(w)) /\ SF_vars(WriteRow(w))

------------------------------------------------------------------------------
(* Every Match row's monitor exists, although monitors are deleted by web
   requests while a worker evaluates them (ingestion.py 207-220). *)
MatchesHaveMonitors == \A p \in matches : monitors[p[1]] \in {"active", "inactive"}

(* A notification task never names a match that was not committed: the task
   is sent on commit, and a rolled back batch announces nothing. *)
AnnouncedWereCommitted == announced \subseteq committed

(* No keyword hit is missed: content cached by a feed that evaluates keyword
   monitors was matched, in the same transaction, for every keyword monitor
   then active, however the fetch was interleaved, retried or cut short
   (ingestion.py 178-233, @transaction.atomic). *)
KeywordHitsAreMatched ==
  \A i \in Item, m \in Monitor :
    /\ items[i] # 0 /\ Mode[m] = "keyword" /\ Sub[m] = Sub[i]
    /\ m \in origin[i].active /\ Evaluates(origin[i].kind, "keyword")
    /\ <<m, i, items[i]>> \in Hit
    => <<m, i>> \in committed

(* A Match row appears only with freshly written content, for a monitor that
   was active when the transaction read its intents, in a feed kind that
   evaluates its mode: nothing matches on an unchanged cached item. *)
MatchesComeWithContent ==
  [][\A p \in matches' \ matches :
       \E w \in Worker : /\ p[2] \in wrote[w] /\ p[1] \in active[w]
                         /\ Evaluates(Kind[feed[w]], Mode[p[1]])
                         /\ items'[p[2]] = batch[w][p[2]]]_vars

(* A feed that is due, with a monitor that needs it, is fetched and marked. *)
DueFeedsAreServed ==
  \A f \in Feed : f \in DueFeeds ~> f \notin DueFeeds

(* Every task ends: no feed, failure or lock wait keeps a worker forever. *)
TasksEnd == \A w \in Worker : pc[w] # "idle" ~> pc[w] = "idle"

(* matching.py 199: "every fetched item is evaluated against relevant intents".
   When a fetch succeeds, each monitor that the feed kind evaluates and that
   was active when the item's content was cached has been evaluated on it. *)
FetchedItemsEvaluated ==
  \A w \in Worker, i \in Item, m \in Monitor :
    /\ pc[w] = "succeed" /\ batch[w][i] # 0 /\ batch[w][i] = items[i]
    /\ Sub[m] = Sub[i] /\ monitors[m] = "active" /\ m \in origin[i].active
    /\ Evaluates(Kind[feed[w]], Mode[m])
    => Evaluates(origin[i].kind, Mode[m])
==============================================================================
