# Verification of ChatterSift

ChatterSift watches subreddits for its users. Users describe *monitors* (keywords, a semantic
description, or both); Celery workers fetch Reddit feeds, keep the items in a PostgreSQL cache,
match new content against the monitors and email the users about it. This directory holds TLA+
models of that program, TLC runs over small instances of them, and TLAPS proofs for instances of
any size. `PROJECT.json` maps every definition to the source lines it translates.

Paths below are relative to `src/chattersift/` unless they start with `config/`.

## 1. The system

| Component | State it keeps | Operations | Talks to |
|---|---|---|---|
| Ingestion (`reddit/ingestion.py`, `services.py`, `models.py`) | `RedditItem` cache; `Match` rows | `fetch_due_feeds`, `fetch_normalize_and_match`, the transaction `_upsert_and_match_payloads`, pruning | planning, scheduling, client, matching; alerts (`on_commit`) |
| Fetch tasks (`reddit/tasks.py`) | `FetchRun` log | `fetch_due_reddit_feeds` (beat), `fetch_subreddit` (Run now), `prune_unmatched_reddit_items` | ingestion; the runs page |
| Scheduling (`reddit/scheduling.py`, `policy.py`) | `SubredditFetchState`: next fetch, failures | `get_due_feed_specs`, `mark_feed_success`, `mark_feed_failure` | planning |
| Planning (`reddit/planning.py`) | none | intents of the active monitors, feed specs, keyword chunks, fingerprints | monitors |
| Matching (`reddit/matching.py`) | none; a call budget per feed | keyword and semantic verdicts, requests, diagnostics | language model |
| Client, token cache, parsers (`_fetcher.py`, `auth.py`, `clients.py`, `parsers.py`) | OAuth token behind a lock | fetch, one retry after 401, JSON/Atom to payloads | Reddit |
| Alerts (`alerts/`) | preference (`started_at`), schedules, `EmailMatchDelivery` | immediate dispatch, due dispatch, `send_mail`, its callback | ingestion's matches, monitors, mail server |
| Monitor registry (`tracking/querysets.py`, `views.py`) | `Monitor` rows | upsert, add, edit, delete, toggle, cadence | alerts (`ensure_email_delivery_state`) |
| Lead inbox and retention (`tracking/`) | lead status, `MatchDismissal`, retention preference | mark, delete, dismiss, prune, page | matches |
| Run now (`tracking/views.py`) | cooldown key in the cache | check, set, start `fetch_subreddit` | fetch tasks |

Everything runs at once: several worker processes, the web processes and beat share one
PostgreSQL database at READ COMMITTED. Web requests are transactions (`ATOMIC_REQUESTS`,
`config/settings/base.py:51`); in ingestion only `_upsert_and_match_payloads` is one, and
in alerts nothing is. Tasks are acknowledged when taken, so a killed task is not run again; the hard
limit is 300 s, the soft one 60 s. What keeps the system going is that beat queues the same work
again and the database says what is left to do.

### What is hard, and what would make it right

* **Overlap on one feed or item.** Two workers may hold the same due feed. Row locks serialise
  their upserts, one may wait for the other, find the row there, or deadlock with it. Content must
  be matched by exactly the transaction that caches it.
* **Failure in the middle.** A rollback must take the cached items along, or their matches are
  lost for good, since an unchanged item is never matched again.
* **Monitors change meanwhile.** Deletion races the insertion of matches; creation races the
  fetch that was to serve it.
* **Nothing is announced that is not committed**, and what is committed but not announced is
  found by the next due dispatch.
* **At-least-once email.** A mail is recorded by a callback after it was sent. Two dispatches may
  mail the same alert before either records it, but after the record none may, whatever is
  pruned, matched again or reconfigured. A digest must hold one user's own alerts only.
* **Feeds that fail.** Overlapping ticks read and write a feed's failure count apart; a failing
  feed must still back off, a recovered one return to the interval, and none be forgotten.
* **One token for all threads.** Reddit drops tokens, and their lifetime runs while they are on
  their way; a slow answer or another thread's 401 must not put a dead token back.
* **Leads that users threw away.** Items are pruned, fetched and matched again while requests hold
  leads they read before: nothing the user hid may return, nothing else may vanish.
* **Effects outside the transaction.** The cooldown key and the task queue take no part in the
  request's transaction.
* **Schedules that always advance.** A schedule moves on even if nothing could be sent; alerts
  must still arrive.

`PROJECT.json` "hazards" lists these and the others at their lines.

## 2. Modules

| Module | What it is |
|---|---|
| `Ingestion` | the collection pipeline, from due feeds to the announcement of matches |
| `MCIngestion`, `IngestionProofs` | its small instances; its types, inductive invariant and five safety theorems |
| `AlertContract` | the abstract specification of email alerts: open, selected, mailed, recorded |
| `AlertDelivery` | the two dispatch tasks, the mail tasks and what changes beside them |
| `MCAlertDelivery`, `AlertDeliveryProofs` | its small instances; its types, the rows behind a cadence, the refinement of `AlertContract` |
| `MonitorRegistry` | requests on monitors as transactions with row locks and the unique constraint |
| `MCMonitorRegistry`, `MonitorRegistryProofs` | its small instances; its types, inductive invariant and four safety theorems |
| `Planning` | pure: intents, keyword chunks and the feeds the active monitors need |
| `FeedSchedule` | the life of feed rows: due, fetched, backed off, recovered; extends `Planning` |
| `MCFeedSchedule`, `FeedScheduleProofs` | its small instance; its types, and that plans serve every monitor and are stable |
| `Parsers` | pure: JSON and Atom pages to payloads |
| `RedditClient` | threads that fetch through one token cache; extends `Parsers` |
| `MCRedditClient`, `RedditClientProofs` | its small instances; its types, inductive invariant, four properties of tokens and what the parsers return |
| `Matching` | pure: match requests, keyword verdicts, the semantic call budget |
| `LeadInbox` | leads, dismissals, retention and pruning; extends `Matching` |
| `RunNow` | creation of monitors, manual and automatic runs, the `FetchRun` log; extends `LeadInbox` |
| `MCRunNow`, `RunNowProofs` | its small instance; its types, inductive invariant and six theorems |
| `MatchingProofs` | what the loop over the match requests computes, used by `RunNowProofs` |
| `InductionLemmas` | induction over numbers, loops, flattened and sorted sequences, for the proofs |

Definitions named "Faulty variant" are one-bug versions of the definition that follows them. No
specification uses them; they show that each property can tell the code from a plausible mistake.

How the modules divide one system: `Ingestion` has the statements of a fetch's transaction and keeps
only who is evaluated; `Matching` has the evaluation and `RunNow` uses it with that transaction as one
step; `FeedSchedule` has the rows that `Ingestion` reduces to due or not; `MonitorRegistry` has the
statements behind the monitor changes that all others take as one step.

### Ingestion

A worker's `pc` follows one feed through `fetch_feed_normalize_and_match`: `next` (a feed is
taken from the list that `get_due_feed_specs` made once for the tick), `upsert` (the loop over
payloads in the transaction), `commit`, `announce` (the `on_commit` callback), then `succeed` or
`fail`/`backoff` (the marks). `ReadItem` is the first SELECT of `get_or_create`; `WriteItem`,
`InsertConflict` and `UpdateVanished` are what the INSERT or UPDATE then meets, once no other open
transaction has written the row. `MatchItems` builds intents, requests and decisions;
`Commit` makes everything visible at once, or `CommitRefused` when the deferred foreign key of a
new match has lost its monitor. `Rollback` is every exception in between; `Crash` is a killed
process. `mark_feed_failure` is two statements (`ReadFailures`, `WriteFailure`) because they are
not in a transaction. Reddit publishes and edits items (`Publish`), and serves any window of what
a feed can list, which also covers items a parser or `_is_valid` drops.

Data: the fields of an item are one version number, 0 for no row, so `save(update_fields)` writes
the version a payload carries; which keyword stands in which version is the constant `Hit`; a
semantic verdict may be yes or no, an error or an exhausted budget (both leave no match, as in
the code); `next_fetch_at` is whether it has been reached; a `Match` is its unique key. `committed`
and `origin` are history variables for the properties.

### AlertDelivery

A worker's `task` and `pc` follow `send_immediate_email_digests` (`notice`) or
`send_due_email_digests` (`retry`, its loop over users with immediate monitors, then `digest`, its
loop over due schedules). `left` is the evaluated queryset still to be handled, in any order (the
code sets none that matters), `Pick` runs the
query for pending matches, `Enqueue` or `Skip` is `_send_preference_digest` with its look-up of the
verified address, `Advance` saves the schedule. A mail in a slot is queued, accepted by the
server, and then recorded by the callback; `LoseMail` drops it at either point. `Die` ends a
dispatch anywhere. `SetCadence` stands for creation, reactivation and `update_group_cadence`,
each with its call of `ensure_email_delivery_state`; `Toggle` for pause and resume (a group
is one monitor here); `DeleteMonitor` for deletion with its cascade. `early` is the set of matches
older than the user's `started_at`.

Abstractions: a match made anew after a deletion keeps its place in the ids of an old immediate
task (its real id is new, so the model allows more); due-ness may advance between the two loops
(the code compares with a `now` taken at the start, so the model allows more); users are not
deleted; `last_sent_at` decides nothing.

`AlertContract` keeps four sets and says what a reader wants of alerts without tasks or tables.
The mapping: `open` is what the user should still be told (`Open`, stated apart from the query `Pending`), `selected` what a dispatch
holds or the broker has queued (`Selected`), `recorded` the `EmailMatchDelivery` rows. That a
recorded alert is not open, that only selected alerts are mailed, one user at a time, and only mailed ones recorded, is
then what the property `KeepsContract` checks of every step.

### MonitorRegistry

Each web session runs one request at a time, each in one transaction. `pc` is the kind of its next
statement: `Lookup` finds the rows of a WHERE clause, `Lock` is SELECT FOR UPDATE taking them one
by one as they become free and looking at them again, `Sweep` is UPDATE or DELETE doing the same.
`Keep`, `Reactivate`, `Miss` and `Insert` are the branches of `upsert_keywords`,
`upsert_from_intent` and `add_to_subreddit` for one keyword; `CheckClash` and `Write` are
`update_for_user`; `ChooseState` is `toggle_subreddit_group` up to its UPDATE; `EndSweep` is what
follows an UPDATE. A held row is copied into `own`, changed there, and put back by `Commit`; `Abort`
is every exception (also `MonitorPolicyError`, which the default policy never raises), deadlock or
kill. An INSERT or a rename waits for other transactions' rows with the same unique fields
(`Undecided`) and fails on committed ones (`Taken`).

Data: match mode, folded keyword and semantic fingerprint are one `Key`, letter case is the
`Spelling`; `semantic_description`, which the fingerprint stands for, and timestamps are left out.
`first()` may return any match (the code orders them, so the model allows more). Preference and
schedule rows appear at commit. A statement that finds no row to save ends the request without a
change, as the exception it raises would. The fetch that `monitor_create` starts is in `RunNow`.

### Planning and FeedSchedule

`Intents`, `SearchWords`, `Chunks`, `Feed` and `StreamFeeds` are the steps of `planning.py`. Words stand
for normalised keywords, and `Key` for their place in case-folded order, which is all that sorting and
the fingerprint of the folded query see. `build_search_query_groups_for_monitor_intents` sorts a set of
strings with a key under which two spellings are equal: their order is the process's, so `Searches` has every one.

`plan` is `Plan(active)`. A worker's `pc` is `next` (the loop of `fetch_due_feeds`), `fetch` (up to
the upsert) or `write` (`mark_feed_failure` between its query and `update_or_create`). A row is
`next_fetch_at` as time still to pass, and `consecutive_failures` counted to `ManyFailures`, from where
the backoff is at its maximum. `MarkSuccess`, `FetchFails` with `MarkFailure`, and `MarkError` (recording
raises) are how a fetch ends; `RunNow` fetches the RSS post stream due or not; `Kill` drops the rest of
a tick. Beat passes no limit, so ticks list all that is due.

### Parsers and RedditClient

A JSON response is a table of nodes with children, an Atom response a list of entries.
`JsonItems` is the traversal of listings and replies in document order, `JsonStep` a round of the loop of `ParseJson`, which skips
duplicates and gives an untitled comment the title of the post before it, `AtomTitle` and `AtomBody`
undo what Reddit adds to the Atom form. Timestamps, subreddit and permalink are one flag: all known or
not.

A thread's `pc` follows `fetch_and_parse`: `token`, `post`, `come` (in `get_bearer_token`; the last two
with the lock), `get`, `drop` (in `invalidate_cached_token` after a 401), `read`. Reddit issues tokens
whose lifetime starts when they are issued (`dies`), while the cache counts it from their arrival
(`expires`). Reddit may answer 401 to any token. `mark`, the tokens issued by the time of a 401, is a
history variable, and so are `since` and `cached`: when the GET under way began and whether its token was taken
from the cache.

httpx bounds each operation of a request (connecting, the TLS handshake, each write and read) and not the request as a
whole. How long a token request takes to be sent is left open; once Reddit has issued a token, its
answer takes at most one read, `PostTimeout` (15 s in `reddit/auth.py`). `GetTimeout` is the four operations of a
GET, 40 s with the default `CHATTERSIFT_REDDIT_HTTP_TIMEOUT_SECONDS` of 10 (each fetch has a client of its own and
does not wait for a connection). The refresh buffer of 60 s covers both (`ClientAssumption`). A setting
above 11.25 s and answers that trickle in over several reads are outside of that.

### Matching, LeadInbox and RunNow

Of an item's text only its set of words is kept, where one may stand for all that are no monitor's keyword; `answers` is what the
language model, and the reading of its reply, make of each pair. `Verdict` has the checks of the semantic matcher in
their order: monitors without a model (`NoModel`) fail, comments with an empty body are refused unasked, all others are
asked about. `Evaluate` is the loop over requests with its call budget.

A web request holds the lead it read (`OpenLead`) until it ends (`SaveLead`, `DeleteLead`), while
anything else happens: another request's deletion, a prune, a fetch. `save(update_fields)` of a row that is gone changes
nothing. The daily prune reads each user's preference (`ReadRetention`) and deletes by it later
(`PruneUser`); it may die between users. `PruneItems` deletes cached items by age, matched or not: leads
keep a row of their own, and the item is new to the next fetch. Every user, feed page and monitor may interleave with these. `hidden` is a history
variable: what a user ever hid, which `dismissed` must keep out of the feed. The feed is the matches feed
(`feed_for_user`); the leads list (`views.py:141`) filters by user and status only, so that a lead of a dismissed item is listed there.

Of the requests on monitors, `DeleteMonitors` (with the cascade of `tracking/models.py:69` to their leads), `PauseMonitor`
and `ToggleGroup` are here, and wait for the rows that an open `monitor_create` holds; adding to a group, editing and the
cadence leave leads alone and are in `MonitorRegistry` only. Fetches and the matches feed look at the `active` monitors.

`monitor_create` is `CreateMonitor`, `CheckCooldown`, `Trigger`, `CommitMonitor`, in one transaction that
the cache and the broker are not part of; `monitor_run_now_group` is `AskRun` and `Trigger`.
`fetch_subreddit` is `StartRun` (creates the `FetchRun`), `RunFetch` or `RunFails`, `EndRun`; `KillRun` is the
hard time limit. One subreddit stands for all, whose cooldown keys are apart. `sent` and `lost` are history variables.

## 3. Runs

| Run | Instance | What it shows |
|---|---|---|
| `ingestion_overlap` | 2 workers, 1 comment feed, 2 comments, 1 keyword monitor, 1 version, 1 fault | locks, conflicts, a lock cycle, abort, crash, prune, deletion: types and all four safety properties |
| `ingestion_feeds` | 1 worker, post search and post stream, 1 post edited once, keyword and semantic monitor | the feed kinds share the cache, and each matches only what it evaluates and wrote |
| `ingestion_live` | 2 workers, 1 feed, 1 comment edited once, 1 fault, fair | the keyword of an edit is matched whoever writes it; due feeds are fetched and marked, tasks end |
| `ingestion_evaluated` | 1 worker, search and stream, 1 post, 1 keyword monitor | violation: see below |
| `alerts_users` | 1 worker, 2 users with 1 monitor each, 1 item, 1 slot, 3 edits | types, the contract across users |
| `alerts_live` | 2 workers, 1 user, 1 monitor, 1 item, 1 slot, 2 edits, 1 fault, fair | the contract with overlapping dispatches and lost or duplicate mails; wanted alerts arrive |
| `registry` | 2 sessions, 2 users, 1 subreddit, 2 keys, 2 spellings, 3 rows, 3 requests | types, cadences served, columns changed by their requests only, batches complete |
| `registry_adds` | 2 sessions, 1 user, 1 key, 2 spellings, 2 requests | violation: see below |
| `client` | 2 threads with 1 request each, OAuth, lifetimes 1 and 3, buffer 2, both timeouts 1, clock to 2, 36 JSON pages | tokens newest, alive while they are used and fresh after a 401, requests end; comments keep their post, JSON and Atom agree |
| `client_formats` | the same | violation: see below |
| `schedule` | 2 workers, 5 monitors in 2 subreddits planned, 2 sets of them fetched, interval 1, backoff 2 up to 3, 1 event | plans serve every monitor and are stable; feeds are served, back off and recover |
| `inbox` | 2 sessions, 1 user, 1 worker, a semantic and a keyword-semantic monitor, a post and a comment, retention 0 or forever, cooldown 1, 1 call, 2 leads, 3 events; monitors come, pause and go | hidden items stay hidden, leads neither return, change nor vanish by accident, the budget is spent in order, cooldowns hold, prunes and runs end |

Deadlock is not checked: without monitors nothing is planned, and with its bounds used up an
instance may stop.

Bounds. Two workers, sessions or threads are enough for every pairwise race, and what three add (a longer
lock cycle) is covered by the proofs. An item needs two versions for an edit, and one feed kind
of each sort for the shared cache. `MaxFailures` caps `consecutive_failures`, which nothing but the
backoff reads. `MaxFaults` 1 lets a crash, a lost mail or a failed state write fall between any
two steps. Three edits let a monitor be set up, paused and
resumed, or change between two users' cadences; `MaxNotices` and the slots bound the queues.

Three registry requests are two that overlap after one that sets the stage, or three in a row; a batch
of two keywords and one more monitor need three rows.

In `client` the clock lets a token of lifetime 1 die on its way, one of lifetime 3 be cached beyond the buffer and
used up to its last tick, and one be refused while another is asked for. In `schedule`, plans are compared for every set
of the five monitors (two spellings of a word, a keyword with a description, a semantic monitor, and one
without its description, which yields no intent); ticks run for two of them, each with a search or a post stream beside a comment stream, so that
feeds are fetched one after the other; its one event is an edit, a manual run, a killed worker or a failed statement. In `inbox`, an event is a
user's request, a scheduled fetch or a fault: three are enough for a lead that is made, read by
one session and deleted by the other, or hidden and matched again; runs, prunes and time take none.
With one user the run cannot show that users are kept apart; the theorems of `RunNowProofs` do, for any number.

What the runs leave open. In `ingestion_overlap` content has one version and in `ingestion_live` there are two of one comment:
both with two comments are beyond TLC (over 12 million states in 5 minutes). `NoKeywordHitMissed` and `MatchesFollowWrites` are proved for any
of either, but that tasks end has not been checked across a lock cycle. One feed is in `ingestion_live`; that a failing feed does not hold up those
after it is `FeedsAreServed` in `schedule`. `alerts_live` has one user, so that it does not show how one user's failing digest delays
another's. `CooldownHolds` is of one session: two requests at once may both find the cooldown over and both fetch
(`tracking/views.py:403`).

Symmetry is used in the registry runs, over all sets but the cadences, and in `ingestion_overlap`, over
workers, none of which a definition names; the liveness runs use none.

### Fairness

`Ingestion!FairSpec`: a busy worker takes its next step (`WF`), a tick that could start again and
again does (`SF`, beat queues one every minute on a first-in-first-out queue), and a worker waiting
for a row lock gets it if it is free again and again (`SF`, PostgreSQL grants locks in order of the waits).
`AlertDelivery!FairSpec`: workers and mail tasks go on, time passes, beat's dispatch is taken, and
a slot that is free again and again is used (slots are a bound of the model; the broker's queue has none).
`RedditClient!FairSpec`: a thread goes on (`WF`), since its HTTP calls have timeouts; nothing is asked
of Reddit. `FeedSchedule!FairSpec`: time passes, beat starts ticks, workers go on. `RunNow!FairSpec`:
workers take what is queued and go on, and the daily prune starts and goes on. Faults are bounded, and no
fairness is asked of users, Reddit or ingestion.

### Findings

`ingestion_evaluated`: `reddit/matching.py:199` promises that "every fetched item is evaluated
against relevant intents". Only rows a fetch inserts or changes are matched
(`reddit/ingestion.py:206`), and the feed kind decides which monitors are evaluated (236-251). A post
first cached by the post stream, which Run now fetches and which evaluates semantic monitors only,
is unchanged when the keyword search returns it and is never evaluated for keywords.

`registry_adds`: `tracking/querysets.py:40` says of `MonitorAlreadyExistsError`: "Raised when an
add or edit would create a duplicate monitor in a group." The look-up ignores letter case but can lock only
rows that exist (243-253), and the constraint (`tracking/models.py:38`) respects letter case, so an add next to
the creation of the same keyword in another case commits a second one. Both are then matched.

`client_formats`: `reddit/planning.py:152` says "oauth.reddit.com only serves JSON — RSS URLs return
errors under OAuth." and plans JSON when credentials are set. Run now asks for the RSS post stream all the same
(`reddit/services.py:22-30`), of the OAuth host.

Smaller disagreements met while reading, which no run states:

* `reddit/_fetcher.py:137`: "normalize transport/status failures", but an error while a new token is fetched
  leaves `_send_request` as it came from `auth.py`.
* `reddit/planning.py:149`: "one COMMENT_STREAM/RSS per subreddit"; it has the preferred format.
* `tracking/views.py:400`: "with a 30-minute cooldown". It is read and set apart, so that overlapping
  requests each start a fetch (`CooldownHolds` says what does hold), and it stays set when the broker refuses the task or the request is rolled back.
* `reddit/scheduling.py:159`: "including jitter"; there is none.
* `reddit/tasks.py:106`: "old unmatched RedditItem cache rows"; the age alone decides.
* `templates/tracking/_runs_content.html:83`: runs appear "after the next scheduled fetch"; scheduled ticks
  create no `FetchRun`.
* The run that creating a monitor starts fetches the post stream only, and before the monitor is committed: a keyword monitor is not evaluated by it, a semantic one may be too late.
* `upsert_keywords` may leave a group with mixed cadences (`tracking/querysets.py:112`), which the dashboard shows as one.

## 4. Proofs

Ingestion (constants of any size, from `IngestionConstants`):

* `TypeCorrect`, `Invariance`, `MatchesKeepMonitors`, `OnlyCommittedAnnounced`, `NoKeywordHitMissed`
  and the action property `MatchesFollowWrites`.
* The properties are not inductive: they speak of committed rows, while what is committed was
  decided steps before. `IInv` adds what a worker may hold at each point: two open transactions
  write disjoint rows (`RowLocks`); rows are written only inside one (`TxState`); at the commit
  point the decisions are of its own rows, monitors and feed kind (`DecisionsSound`), contain every
  keyword hit among them unless the pair was committed before (`DecisionsComplete`), and its
  monitors are not yet to be created (`MonitorsExisted`). One lemma shows that a step leaves the
  other workers' part alone, one treats the worker's own step, one the environment; the shared part
  changes at `Commit`, where `DecisionsComplete` gives `KeywordHitsAreMatched`, the foreign key
  gives `MatchesHaveMonitors`.

AlertDelivery (from `AlertConstants`):

* `TypeCorrect`, `CadencesAreServed` (a cadence that asks for email has its baseline and schedule
  row) and `DeliveryKeepsContract`: `Spec => AlertContract!Spec` under the mapping.
* `IInv` adds that accepted mails are among the mailed ones (`AcceptedWereMailed`, so that a record follows a
  mail) and that only users with a baseline are on a dispatch's list (`ListedAreStarted`, so that
  what `Pick` selects is open). Each action is then a step of the contract: `Pick` selects, `Enqueue`, `Skip`,
  `Die` and `LoseMail` hand over or give up, `SendMail` mails, `RecordDelivery` records and closes,
  users, ingestion and the clock change what is open; the rest stutters.

MonitorRegistry (from `RegistryConstants`):

* `TypeCorrect`, `EmailIsServed` (`CadencesAreServed`), `ColumnsAreKept` (`ColumnsFollowRequests`),
  `BatchesTakeEffect` (`CreatesTakeEffect`), and `UsersKeepTheirRows` (`OwnRowsOnly`), which needs no interleaving to hold and
  is proved without a run.
* A commit writes what its session held, so `IInv` says what a held row may be (`HeldRow`): of the
  request's user, different from the committed one in the request's columns only (`Writes`), its cadence served,
  ensured, or to be ensured when the sweep ends. That needs the locks (`RowLocks`): no other commit changes
  a held row, and a row that is waited for was committed once, so that no new row takes its place.
  `LocalStep` shows that a step within a transaction leaves the others alone, `HoldInv` treats the steps
  that take or change a row, `CommitInv` the end.
* `BatchesTakeEffect` needs a second invariant (`BatchesInv`): a keyword of a batch that is no longer to be done is
  covered by an active row the session holds, or is the one it is waiting for. No step of another session
  takes a held row away, so that all are covered when the batch is committed.

RedditClient (from `ClientAssumption`; the buffer is at least what the token's answer and a GET may take, as with the code's defaults):

* `TypeCorrect`, `NewestTokenCached` (`NewestCached`), `RejectedTokenStaysOut` (`RejectedNotCached`),
  `RetriesAreFresh` (`RetryIsFresh`) and `TakenTokensAlive` (`CachedTokensAlive`).
* `IInv` adds that whoever asks for a token holds the lock (`LockHeld`), that tokens arrive in the order they
  were issued because of that (`TokensInOrder`), and that the cache overrates a token's life by what its delivery took, at most its timeout (`Timely`): the buffer covers that and the GET, so that a cached token
  is alive until the answer is there.

Parsers (in `RedditClientProofs`; from `PagesAssumption`: a page that is a JSON document is a `JsonDocument`, whose nodes
come before their children and whose titles are not those of an Atom comment):

* `CommentsKeepTheirPostHolds` and `FormatsAgreeHolds`, for any documents. A page being parsed is one of its
  request's format (`PageOfFormat`); the rest is about the parsers.
* The traversal is a recursion over the nodes, from the last to the first: `RowsExist` shows that it has a
  solution, `ItemsType` that its items are nodes of the document. `ItemsRun` unrolls the loop over the items, and
  `TitlesKept` is its invariant (`TitlesRead`): each payload comes from the first item of its name (`ComesFrom`) and has that item's
  title or, without one, the post's, which is the title carried along as long as the post is the one at the head (`PostFirst`).
* In a document with all names different, all titles and HTML bodies, no round skips a payload or borrows a title
  (`PlainRead`), so that both parsers flatten one payload or none per item (`FlattenAligned`); `EntryMatches` and
  `BodyCut` compare the two: the Atom body is the HTML body up to the first footer.

FeedSchedule (from `PlanningAssumption`, `ScheduleAssumption`, `FeedsAssumption`, `BackoffAssumption`):

* `TypeCorrect`, with `HasFeed` (a worker in a fetch has a feed): no feed is put off for longer than the interval
  or the longest backoff, for any plan, workers and faults.
* `PlanServesMonitorsHolds` and `PlanIsStableHolds`, for any monitors, keywords and limit on a search. The plan is always that of
  the active monitors (`PlanOfActive`). The words of a subreddit's searches are finitely many and can be sorted (`OrderExists`); each place of
  the sorted query lies in one of its pieces, none empty or too long (`PiecesCover`), so that each word is searched for; two sorted
  orders differ in the spellings of a keyword only (`OrdersSpellAlike`), which the fingerprint does not see.

Matching (in `MatchingProofs`; from `MatchingAssumption`): `BudgetIsKept`, for any requests, answers and budget. `LoopInvariant`:
after `n` requests as many calls were made as there were semantic requests among them, up to the budget, and
matched and reported are those of the first `n` that should be.

RunNow (from `InboxAssumption` and `RunNowAssumption`; any number of users, sessions, workers, monitors, items and leads):

* `TypeCorrect`, `HiddenItemsStayHidden`, `GoneLeadsStayGone` (`LeadsDoNotReturn`), `StatusesFollowRequests`, `LeadsKept`
  (`LeadsAreKept`), `CooldownsHold` and `BudgetSpentInOrder` (`BudgetIsSpentInOrder`, by `BudgetIsKept`).
* `IInv`: primary keys are given out once (`KeysOnce`), without which a request could change another lead than the
  one it read; what is hidden is dismissed; a prune's time is not to come and it deletes by what it read (`Times`); each session's last
  fetch is covered by the cooldown, and whoever is about to send one found it over (`CooldownCovers`).
* The types are not inductive either: `TypeInv` adds that a request which is to commit a monitor or save a lead
  has one (`SessionType`), and that a busy worker is in a run that was created (`RunsType`).

How loops are proved about. The library's induction theorems take a predicate as a parameter, which the provers
cannot instantiate. `InductionLemmas` has induction for a set of numbers instead (`NatSetInduction`), from the least number of a
set (`LeastNumber`), which comes from the well-foundedness of strict inclusion on finite sets. A recursive function is a
`CHOOSE`: `LoopExists` gives a function that satisfies its equation when each step keeps to a set, and so the
chosen one does. What a loop, `FlattenSeq` or a sorted enumeration computes is then an invariant over the number of steps.

Only model-checked: the liveness properties (fairness and ENABLED are out of the prover's reach) and the violations. Every
invariant and every action property of a passing run is proved. `CadencesAreServed` of `MonitorRegistry` is run and proved,
the `CadenceHasDelivery` of `AlertDeliveryProofs` is proved only. The assumptions on the constants are evaluated by the runs.

## 5. Not modelled

* Rendering, forms, routing, admin pages, accounts, extension points and deployment keep no state
  that the properties speak of (`PROJECT.json` gives the reason for each).
* Keyword extraction (one call to a language model whose answer the user edits) and text snippets
  (layout) change nothing that is stored.
* The admin mail about semantic errors (`reddit/ingestion.py` 353-407) swallows its own failures and decides nothing.
* Wording of queries and prompts, HTML and timestamps: conversions are modelled by what the branches tell apart.
* Settings: only what gives the models their atomicity, crashes, schedule and bounds.
* Collection lanes (`reddit/policy.py`): the default policy has one; other policies are not in the repository.

## 6. What is left

1. `Pipeline`: `Ingestion` and `AlertDelivery` composed over one `Match` table: a keyword hit that
   is cached is mailed or given up for a stated reason.
2. `MonitorRegistry` composed with the modules whose monitor changes it refines.
3. Step lemmas for the liveness properties that need no fairness: what a worker's next step makes smaller.
4. Paging of the leads and matches lists against a reference.
