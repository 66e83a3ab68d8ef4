--------------------------- MODULE IngestionProofs ---------------------------
(***************************************************************************)
(* Proofs about Ingestion: its type invariant and safety properties hold   *)
(* for every number of workers, feeds, items and monitors.  The inductive  *)
(* invariant IInv says what a worker may hold at each point of its task.   *)
(***************************************************************************)
EXTENDS Ingestion, TLAPS

(* Row locks: two open transactions never write the same item. *)
RowLocks == \A v, w \in Worker : v # w => wrote[v] \cap wrote[w] = {}

(* Written rows exist only inside a transaction; created matches that wait to
   be announced are committed. *)
TxState(w) ==
  /\ wrote[w] # {} => pc[w] \in {"upsert", "commit"}
  /\ pc[w] = "announce" => positive[w] \subseteq committed

(* What a transaction that is about to commit has decided: matches only of
   its rows and monitors, and every keyword hit among them, unless the pair
   had a row already; its monitors have existed. *)
DecisionsSound(w) ==
  pc[w] = "commit" =>
    \A p \in positive[w] : /\ p[1] \in active[w] /\ p[2] \in wrote[w]
                           /\ Evaluates(Kind[feed[w]], Mode[p[1]])

DecisionsComplete(w) ==
  pc[w] = "commit" =>
    \A i \in wrote[w], m \in active[w] :
      /\ Mode[m] = "keyword" /\ Sub[m] = Sub[i] /\ Evaluates(Kind[feed[w]], "keyword")
      /\ <<m, i, batch[w][i]>> \in Hit
      => <<m, i>> \in positive[w] \cup committed

MonitorsExisted(w) == pc[w] = "commit" => \A m \in active[w] : monitors[m] # "new"

WorkerInv(w) ==
  TxState(w) /\ DecisionsSound(w) /\ DecisionsComplete(w) /\ MonitorsExisted(w)

SharedInv ==
  /\ matches \subseteq committed
  /\ MatchesHaveMonitors /\ AnnouncedWereCommitted /\ KeywordHitsAreMatched

IInv == TypeOK /\ RowLocks /\ SharedInv /\ \A w \in Worker : WorkerInv(w)

------------------------------------------------------------------------------
LEMMA InitType == Init => TypeOK
BY IngestionConstants DEF Init, TypeOK, NoBatch, WorkerStates, Versions, Kinds

LEMMA NoRowIsAVersion == 0 \in Versions /\ NoBatch \in [Item -> Versions]
BY IngestionConstants DEF Versions, NoBatch

(* A decision is a set of requests: pairs of an active monitor whose mode the
   feed kind evaluates and a written item of its subreddit. *)
LEMMA DecisionsAreRequests ==
  ASSUME NEW w \in Worker, NEW d \in Decisions(w)
  PROVE  d \subseteq Requests(w)
BY DEF Decisions

LEMMA RequestsArePairs ==
  ASSUME TypeOK, NEW w \in Worker
  PROVE  Requests(w) \subseteq Pairs
BY DEF Requests, ActiveMonitors, Pairs, TypeOK

LEMMA RollbackType ==
  ASSUME TypeOK, NEW w \in Worker, Rollback(w)
  PROVE  TypeOK'
BY NoRowIsAVersion DEF TypeOK, Rollback, EndTx, WorkerStates, db, hist

LEMMA WriteRowType ==
  ASSUME TypeOK, NEW w \in Worker, WriteRow(w)
  PROVE  TypeOK'
<1> USE DEF TypeOK, db, hist
<1>1. CASE WriteItem(w)
  <2>1. cursor[w] \in Item
    BY <1>1 DEF WriteItem
  <2>2. QED
    BY <1>1, <2>1, NoRowIsAVersion DEF WriteItem
<1>2. CASE InsertConflict(w)
  <2>1. cursor[w] \in Item
    BY <1>2 DEF InsertConflict
  <2>2. CASE items[cursor[w]] = batch[w][cursor[w]]
    <3>1. /\ pending' = [pending EXCEPT ![w] = @ \ {cursor[w]}]
          /\ cursor' = [cursor EXCEPT ![w] = NoItem]
          /\ UNCHANGED seen
      BY <1>2, <2>2 DEF InsertConflict
    <3>2. QED
      BY <1>2, <2>1, <3>1 DEF InsertConflict
  <2>3. CASE items[cursor[w]] # batch[w][cursor[w]]
    BY <1>2, <2>1, <2>3 DEF InsertConflict
  <2>4. QED
    BY <2>2, <2>3
<1>3. CASE UpdateVanished(w)
  BY <1>3, RollbackType DEF UpdateVanished
<1>4. QED
  BY <1>1, <1>2, <1>3 DEF WriteRow

LEMMA TaskType ==
  ASSUME TypeOK, NEW w \in Worker,
         StartTick(w) \/ Fetch(w) \/ FetchFails(w) \/ (\E i \in pending[w] : ReadItem(w, i))
           \/ \E f \in Feed : RunNow(w, f)
  PROVE  TypeOK'
<1> USE DEF TypeOK, WorkerStates, db, tx, hist
<1>1. CASE StartTick(w)
  BY <1>1 DEF StartTick, DueFeeds
<1>2. CASE Fetch(w)
  <2>1. PICK f \in todo[w], window \in SUBSET Item :
          /\ Take(w, f)
          /\ batch' = [batch EXCEPT ![w] = [i \in Item |-> IF i \in window THEN reddit[i] ELSE 0]]
          /\ pending' = [pending EXCEPT ![w] = window]
    BY <1>2 DEF Fetch
  <2>2. [i \in Item |-> IF i \in window THEN reddit[i] ELSE 0] \in [Item -> Versions]
    BY NoRowIsAVersion
  <2>3. QED
    BY <1>2, <2>1, <2>2 DEF Fetch, Take
<1>3. CASE FetchFails(w)
  BY <1>3 DEF FetchFails, Take
<1>4. CASE \E i \in pending[w] : ReadItem(w, i)
  <2>1. PICK i \in pending[w] : ReadItem(w, i)
    BY <1>4
  <2>2. CASE items[i] = batch[w][i]
    <3>1. pending' = [pending EXCEPT ![w] = @ \ {i}] /\ UNCHANGED <<cursor, seen>>
      BY <2>1, <2>2 DEF ReadItem
    <3>2. QED
      BY <2>1, <3>1 DEF ReadItem
  <2>3. CASE items[i] # batch[w][i]
    <3>1. /\ cursor' = [cursor EXCEPT ![w] = i]
          /\ seen' = [seen EXCEPT ![w] = items[i]]
          /\ UNCHANGED pending
      BY <2>1, <2>3 DEF ReadItem
    <3>2. QED
      BY <2>1, <3>1 DEF ReadItem
  <2>4. QED
    BY <2>2, <2>3
<1>5. CASE \E f \in Feed : RunNow(w, f)
  BY <1>5 DEF RunNow
<1>6. QED
  BY <1>1, <1>2, <1>3, <1>4, <1>5

LEMMA MatchType ==
  ASSUME TypeOK, NEW w \in Worker, MatchItems(w) \/ Commit(w) \/ Announce(w)
  PROVE  TypeOK'
<1> USE DEF TypeOK, WorkerStates, db, hist
<1>1. CASE MatchItems(w)
  <2>1. PICK d \in Decisions(w) : positive' = [positive EXCEPT ![w] = d]
    BY <1>1 DEF MatchItems
  <2>2. d \subseteq Pairs
    BY <2>1, DecisionsAreRequests, RequestsArePairs
  <2>3. QED
    BY <1>1, <2>1, <2>2 DEF MatchItems, ActiveMonitors
<1>2. CASE Commit(w)
  BY <1>2, IngestionConstants DEF Commit, EndTx, Versions, Kinds
<1>3. CASE Announce(w)
  BY <1>3 DEF Announce
<1>4. QED
  BY <1>1, <1>2, <1>3

LEMMA MarkType ==
  ASSUME TypeOK, NEW w \in Worker,
         MarkSuccess(w) \/ ReadFailures(w) \/ WriteFailure(w) \/ MarkError(w) \/ Crash(w)
  PROVE  TypeOK'
<1> USE IngestionConstants DEF TypeOK, WorkerStates, db, tx, hist, Continue
<1>1. CASE MarkSuccess(w)
  BY <1>1 DEF MarkSuccess, NoBatch, Versions
<1>2. CASE ReadFailures(w)
  BY <1>2 DEF ReadFailures
<1>3. CASE WriteFailure(w)
  BY <1>3 DEF WriteFailure
<1>4. CASE MarkError(w)
  BY <1>4 DEF MarkError, NoBatch, Versions
<1>5. CASE Crash(w)
  BY <1>5 DEF Crash, EndTx, NoBatch, Versions
<1>6. QED
  BY <1>1, <1>2, <1>3, <1>4, <1>5

LEMMA EnvironmentType ==
  ASSUME TypeOK, Environment
  PROVE  TypeOK'
<1> USE IngestionConstants DEF TypeOK, db, worker, tx, hist
<1>1. CASE \E i \in Item : Publish(i)
  BY <1>1 DEF Publish, Versions
<1>2. CASE \E f \in Feed : BecomeDue(f)
  <2>1. PICK f \in Feed : BecomeDue(f)
    BY <1>2
  <2>2. [fetchState[f] EXCEPT !.due = TRUE] \in [due : BOOLEAN, failures : 0..MaxFailures]
    BY <2>1, fetchState[f] \in [due : BOOLEAN, failures : 0..MaxFailures]
  <2>3. fetchState' = [fetchState EXCEPT ![f] = [fetchState[f] EXCEPT !.due = TRUE]]
    BY <2>1 DEF BecomeDue
  <2>4. QED
    BY <2>1, <2>2, <2>3 DEF BecomeDue
<1>3. CASE \E S \in SUBSET Item : PruneItems(S)
  BY <1>3 DEF PruneItems, Versions
<1>4. CASE \E m \in Monitor : ActivateMonitor(m) \/ DeactivateMonitor(m) \/ DeleteMonitor(m)
  BY <1>4 DEF ActivateMonitor, DeactivateMonitor, DeleteMonitor
<1>5. CASE \E p \in matches : RemoveMatch(p)
  BY <1>5 DEF RemoveMatch
<1>6. QED
  BY <1>1, <1>2, <1>3, <1>4, <1>5 DEF Environment

(* Every variable keeps its type. *)
LEMMA NextType == TypeOK /\ [Next]_vars => TypeOK'
<1> SUFFICES ASSUME TypeOK, [Next]_vars PROVE TypeOK'
  OBVIOUS
<1>1. CASE UNCHANGED vars
  BY <1>1 DEF TypeOK, vars, db, worker, tx, hist
<1>2. CASE \E w \in Worker : StartTick(w) \/ Work(w) \/ Abort(w) \/ MarkError(w) \/ Crash(w)
  <2>1. PICK w \in Worker : StartTick(w) \/ Work(w) \/ Abort(w) \/ MarkError(w) \/ Crash(w)
    BY <1>2
  <2>2. CASE DeadlockVictim(w) \/ Abort(w) \/ CommitRefused(w) \/ BrokerDown(w)
    BY <2>2, RollbackType DEF DeadlockVictim, Abort, CommitRefused, BrokerDown
  <2>3. QED
    BY <2>1, <2>2, TaskType, WriteRowType, MatchType, MarkType DEF Work
<1>3. CASE \E w \in Worker, f \in Feed : RunNow(w, f)
  BY <1>3, TaskType
<1>4. CASE Environment
  BY <1>4, EnvironmentType
<1>5. QED
  BY <1>1, <1>2, <1>3, <1>4 DEF Next

(* The type invariant holds for all constants. *)
THEOREM TypeCorrect == Spec => []TypeOK
<1>1. QED
  BY InitType, NextType, PTL DEF Spec

------------------------------------------------------------------------------
(* A step that belongs to worker w. *)
WorkerStep(w) ==
  \/ StartTick(w) \/ Work(w) \/ Abort(w) \/ MarkError(w) \/ Crash(w)
  \/ \E f \in Feed : RunNow(w, f)

(* What a worker's step leaves alone: the other workers' local state, the
   monitors, and everything ever committed. *)
LEMMA OthersUntouched ==
  ASSUME TypeOK, NEW w \in Worker, NEW v \in Worker, v # w, WorkerStep(w)
  PROVE  /\ pc'[v] = pc[v] /\ feed'[v] = feed[v] /\ batch'[v] = batch[v]
         /\ wrote'[v] = wrote[v] /\ active'[v] = active[v] /\ positive'[v] = positive[v]
         /\ monitors' = monitors /\ committed \subseteq committed'
<1> USE DEF TypeOK, db, tx, hist, Rollback, EndTx, Continue, Take
<1>1. CASE StartTick(w) \/ \E f \in Feed : RunNow(w, f)
  BY <1>1 DEF StartTick, RunNow
<1>2. CASE Fetch(w) \/ FetchFails(w)
  BY <1>2 DEF Fetch, FetchFails
<1>3. CASE \E i \in pending[w] : ReadItem(w, i)
  BY <1>3 DEF ReadItem
<1>4. CASE WriteRow(w) \/ DeadlockVictim(w) \/ Abort(w)
  BY <1>4 DEF WriteRow, WriteItem, InsertConflict, UpdateVanished, DeadlockVictim, Abort
<1>5. CASE MatchItems(w)
  BY <1>5 DEF MatchItems
<1>6. CASE Commit(w) \/ CommitRefused(w)
  BY <1>6 DEF Commit, CommitRefused
<1>7. CASE Announce(w) \/ BrokerDown(w)
  BY <1>7 DEF Announce, BrokerDown
<1>8. CASE MarkSuccess(w) \/ ReadFailures(w) \/ WriteFailure(w)
  BY <1>8 DEF MarkSuccess, ReadFailures, WriteFailure
<1>9. CASE MarkError(w) \/ Crash(w)
  BY <1>9 DEF MarkError, Crash
<1>10. QED
  BY <1>1, <1>2, <1>3, <1>4, <1>5, <1>6, <1>7, <1>8, <1>9 DEF WorkerStep, Work

(* A keyword hit among the requests is never left undecided. *)
LEMMA DecisionsKeepKeywordHits ==
  ASSUME NEW w \in Worker, NEW d \in Decisions(w), NEW p \in Requests(w),
         Mode[p[1]] = "keyword", <<p[1], p[2], batch[w][p[2]]>> \in Hit
  PROVE  p \in d
BY DEF Decisions

(* MatchItems establishes what the commit relies on. *)
LEMMA MatchItemsDecides ==
  ASSUME IInv, NEW w \in Worker, MatchItems(w)
  PROVE  WorkerInv(w)'
<1> USE DEF IInv, TypeOK
<1>1. PICK d \in Decisions(w) : positive' = [positive EXCEPT ![w] = d]
  BY DEF MatchItems
<1>2. /\ positive'[w] = d /\ active'[w] = ActiveMonitors /\ pc'[w] = "commit"
      /\ UNCHANGED <<wrote, batch, feed, monitors, committed>>
  BY <1>1 DEF MatchItems, db, hist
<1>3. d \subseteq Requests(w)
  BY <1>1, DecisionsAreRequests
<1>4. TxState(w)'
  BY <1>2 DEF TxState
<1>5. DecisionsSound(w)'
  BY <1>2, <1>3 DEF DecisionsSound, Requests
<1>6. DecisionsComplete(w)'
  <2> SUFFICES ASSUME NEW i \in wrote[w], NEW m \in ActiveMonitors,
                      Mode[m] = "keyword", Sub[m] = Sub[i],
                      Evaluates(Kind[feed[w]], "keyword"),
                      <<m, i, batch[w][i]>> \in Hit, <<m, i>> \notin committed
               PROVE  <<m, i>> \in d
    BY <1>2 DEF DecisionsComplete
  <2>1. <<m, i>> \in Requests(w)
    BY DEF Requests, SharedInv
  <2>2. QED
    BY <1>1, <2>1, DecisionsKeepKeywordHits
<1>7. MonitorsExisted(w)'
  BY <1>2 DEF MonitorsExisted, ActiveMonitors
<1>8. QED
  BY <1>4, <1>5, <1>6, <1>7 DEF WorkerInv

(* Every other step of w leaves it outside the commit point, with no rows
   written unless it is in the middle of its upserts. *)
LEMMA OwnStep ==
  ASSUME IInv, NEW w \in Worker, WorkerStep(w)
  PROVE  WorkerInv(w)'
<1> USE DEF IInv, TypeOK, db, tx, hist, Rollback, EndTx, Continue, Take
<1> SUFFICES ASSUME ~MatchItems(w)
             PROVE  TxState(w)' /\ pc'[w] # "commit"
  BY MatchItemsDecides DEF WorkerInv, DecisionsSound, DecisionsComplete, MonitorsExisted
<1>a. TxState(w)
  BY DEF WorkerInv
<1>1. CASE StartTick(w) \/ \E f \in Feed : RunNow(w, f)
  BY <1>1, <1>a DEF StartTick, RunNow, TxState
<1>2. CASE Fetch(w) \/ FetchFails(w)
  BY <1>2, <1>a DEF Fetch, FetchFails, TxState
<1>3. CASE \E i \in pending[w] : ReadItem(w, i)
  BY <1>3, <1>a DEF ReadItem, TxState
<1>4. CASE WriteRow(w) \/ DeadlockVictim(w) \/ Abort(w)
  BY <1>4 DEF WriteRow, WriteItem, InsertConflict, UpdateVanished, DeadlockVictim, Abort, TxState
<1>5. CASE Commit(w)
  BY <1>5 DEF Commit, TxState
<1>6. CASE CommitRefused(w) \/ BrokerDown(w)
  BY <1>6 DEF CommitRefused, BrokerDown, TxState
<1>7. CASE Announce(w)
  BY <1>7, <1>a DEF Announce, TxState
<1>8. CASE MarkSuccess(w) \/ ReadFailures(w) \/ WriteFailure(w)
  BY <1>8, <1>a DEF MarkSuccess, ReadFailures, WriteFailure, TxState
<1>9. CASE MarkError(w) \/ Crash(w)
  BY <1>9, <1>a DEF MarkError, Crash, TxState
<1>10. QED
  BY <1>1, <1>2, <1>3, <1>4, <1>5, <1>6, <1>7, <1>8, <1>9 DEF WorkerStep, Work

(* The environment never takes back a commit, and a monitor is new only before
   anything refers to it. *)
LEMMA EnvironmentKeepsWorkers ==
  ASSUME IInv, Environment, NEW w \in Worker
  PROVE  WorkerInv(w)'
<1> USE DEF IInv, TypeOK, WorkerInv, TxState, DecisionsSound, DecisionsComplete,
            MonitorsExisted, db, worker, tx, hist
<1>1. /\ UNCHANGED <<pc, feed, batch, wrote, active, positive, committed>>
      /\ \A m \in Monitor : monitors[m] # "new" => monitors'[m] # "new"
  BY DEF Environment, Publish, BecomeDue, PruneItems, ActivateMonitor, DeactivateMonitor,
         DeleteMonitor, RemoveMatch
<1>2. TxState(w)' /\ DecisionsSound(w)' /\ DecisionsComplete(w)'
  BY <1>1
<1>3. MonitorsExisted(w)'
  BY <1>1
<1>4. QED
  BY <1>2, <1>3

LEMMA WorkersStep == IInv /\ Next => \A w \in Worker : WorkerInv(w)'
<1> SUFFICES ASSUME IInv, Next, NEW v \in Worker PROVE WorkerInv(v)'
  OBVIOUS
<1>1. CASE \E w \in Worker : WorkerStep(w)
  <2>1. PICK w \in Worker : WorkerStep(w)
    BY <1>1
  <2>2. CASE v = w
    BY <2>1, <2>2, OwnStep
  <2>3. CASE v # w
    <3>1. /\ pc'[v] = pc[v] /\ feed'[v] = feed[v] /\ batch'[v] = batch[v]
          /\ wrote'[v] = wrote[v] /\ active'[v] = active[v] /\ positive'[v] = positive[v]
          /\ monitors' = monitors /\ committed \subseteq committed'
      BY <2>1, <2>3, OthersUntouched DEF IInv
    <3>2. WorkerInv(v)
      BY DEF IInv
    <3>3. TxState(v)' /\ DecisionsSound(v)' /\ MonitorsExisted(v)'
      BY <3>1, <3>2 DEF WorkerInv, TxState, DecisionsSound, MonitorsExisted
    <3>4. DecisionsComplete(v)'
      BY <3>1, <3>2 DEF WorkerInv, DecisionsComplete
    <3>5. QED
      BY <3>3, <3>4 DEF WorkerInv
  <2>4. QED
    BY <2>2, <2>3
<1>2. CASE Environment
  BY <1>2, EnvironmentKeepsWorkers
<1>3. QED
  BY <1>1, <1>2 DEF Next, WorkerStep

(* Only WriteItem takes a row, and only one that nobody holds. *)
LEMMA LocksStep == IInv /\ Next => RowLocks'
<1> SUFFICES ASSUME IInv, Next PROVE RowLocks'
  OBVIOUS
<1> USE DEF IInv, TypeOK, RowLocks
<1>1. CASE \E w \in Worker : WriteItem(w)
  BY <1>1 DEF WriteItem, LockedByOther
<1>2. CASE ~\E w \in Worker : WriteItem(w)
  <2>1. \A w \in Worker : wrote'[w] \subseteq wrote[w]
    <3>1. CASE Environment
      BY <3>1 DEF Environment, Publish, BecomeDue, PruneItems, ActivateMonitor,
                  DeactivateMonitor, DeleteMonitor, RemoveMatch, worker, tx
    <3>2. CASE \E w \in Worker : WorkerStep(w)
      BY <1>2, <3>2 DEF WorkerStep, StartTick, RunNow, Work, Fetch, FetchFails, ReadItem,
           WriteRow, InsertConflict, UpdateVanished, DeadlockVictim, Abort, MatchItems, Commit,
           CommitRefused, Announce, BrokerDown, MarkSuccess, ReadFailures, WriteFailure,
           MarkError, Crash, Rollback, EndTx, tx
    <3>3. QED
      BY <3>1, <3>2 DEF Next, WorkerStep
  <2>2. QED
    BY <2>1
<1>3. QED
  BY <1>1, <1>2

------------------------------------------------------------------------------
(* The database after a commit. *)
LEMMA CommitKeepsShared ==
  ASSUME IInv, NEW w \in Worker, Commit(w)
  PROVE  SharedInv'
<1> USE DEF IInv, TypeOK, SharedInv
<1>1. /\ matches' = matches \cup positive[w] /\ committed' = committed \cup (positive[w] \ matches)
      /\ UNCHANGED <<monitors, announced>>
  BY DEF Commit
<1>2. matches' \subseteq committed' /\ AnnouncedWereCommitted'
  BY <1>1 DEF AnnouncedWereCommitted
<1>3. MatchesHaveMonitors'
  <2> SUFFICES ASSUME NEW p \in matches', p \notin matches
               PROVE  monitors[p[1]] \in {"active", "inactive"}
    BY <1>1 DEF MatchesHaveMonitors
  <2>1. p \in positive[w] /\ monitors[p[1]] # "deleted"
    BY <1>1 DEF Commit, ForeignKeyHolds
  <2>2. monitors[p[1]] # "new" /\ p[1] \in Monitor
    BY <2>1 DEF Commit, WorkerInv, DecisionsSound, MonitorsExisted
  <2>3. QED
    BY <2>1, <2>2
<1>4. KeywordHitsAreMatched'
  <2> SUFFICES ASSUME NEW i \in Item, NEW m \in Monitor,
                      items'[i] # 0, Mode[m] = "keyword", Sub[m] = Sub[i],
                      m \in origin'[i].active, Evaluates(origin'[i].kind, "keyword"),
                      <<m, i, items'[i]>> \in Hit
               PROVE  <<m, i>> \in committed'
    BY DEF KeywordHitsAreMatched
  <2>1. CASE i \in wrote[w]
    <3>1. /\ items'[i] = batch[w][i] /\ origin'[i].active = active[w]
          /\ origin'[i].kind = Kind[feed[w]]
      BY <2>1 DEF Commit
    <3>2. <<m, i>> \in positive[w] \cup committed
      BY <2>1, <3>1 DEF Commit, WorkerInv, DecisionsComplete
    <3>3. QED
      BY <1>1, <3>2
  <2>2. CASE i \notin wrote[w]
    <3>1. items'[i] = items[i] /\ origin'[i] = origin[i]
      BY <2>2 DEF Commit
    <3>2. QED
      BY <1>1, <3>1 DEF KeywordHitsAreMatched
  <2>3. QED
    BY <2>1, <2>2
<1>5. QED
  BY <1>2, <1>3, <1>4

LEMMA WorkersKeepShared ==
  ASSUME IInv, NEW w \in Worker, WorkerStep(w)
  PROVE  SharedInv'
<1> USE DEF IInv, SharedInv, MatchesHaveMonitors, AnnouncedWereCommitted, KeywordHitsAreMatched
<1>1. CASE Commit(w)
  BY <1>1, CommitKeepsShared
<1>2. CASE Announce(w)
  BY <1>2 DEF Announce, WorkerInv, TxState, db, hist
<1>3. CASE ~Commit(w) /\ ~Announce(w)
  <2>1. UNCHANGED <<monitors, items, matches, announced, committed, origin>>
    BY <1>3 DEF WorkerStep, StartTick, RunNow, Work, Fetch, FetchFails, ReadItem, WriteRow,
         WriteItem, InsertConflict, UpdateVanished, DeadlockVictim, Abort, MatchItems,
         CommitRefused, BrokerDown, MarkSuccess, ReadFailures, WriteFailure, MarkError, Crash,
         Rollback, EndTx, db, hist
  <2>2. QED
    BY <2>1
<1>4. QED
  BY <1>1, <1>2, <1>3

LEMMA EnvironmentKeepsShared ==
  ASSUME IInv, Environment
  PROVE  SharedInv'
<1> USE DEF IInv, TypeOK, SharedInv, MatchesHaveMonitors, AnnouncedWereCommitted,
            KeywordHitsAreMatched, db, hist
<1>1. CASE (\E i \in Item : Publish(i)) \/ (\E f \in Feed : BecomeDue(f))
  BY <1>1 DEF Publish, BecomeDue
<1>2. CASE \E S \in SUBSET Item : PruneItems(S)
  BY <1>2 DEF PruneItems
<1>3. CASE \E m \in Monitor : ActivateMonitor(m) \/ DeactivateMonitor(m)
  <2>1. \A m \in Monitor : monitors[m] \in {"active", "inactive"} =>
                          monitors'[m] \in {"active", "inactive"}
    BY <1>3 DEF ActivateMonitor, DeactivateMonitor
  <2>2. UNCHANGED <<items, matches, announced, hist>>
    BY <1>3 DEF ActivateMonitor, DeactivateMonitor
  <2>3. MatchesHaveMonitors'
    BY <2>1, <2>2 DEF Pairs
  <2>4. QED
    BY <2>2, <2>3
<1>4. CASE \E m \in Monitor : DeleteMonitor(m)
  BY <1>4 DEF DeleteMonitor, Pairs
<1>5. CASE \E p \in matches : RemoveMatch(p)
  BY <1>5 DEF RemoveMatch
<1>6. QED
  BY <1>1, <1>2, <1>3, <1>4, <1>5 DEF Environment

------------------------------------------------------------------------------
LEMMA InitInv == Init => IInv
<1> SUFFICES ASSUME Init PROVE IInv
  OBVIOUS
<1>1. TypeOK
  BY InitType
<1>2. RowLocks /\ SharedInv
  BY DEF Init, RowLocks, SharedInv, MatchesHaveMonitors, AnnouncedWereCommitted,
         KeywordHitsAreMatched, NoBatch
<1>3. \A w \in Worker : WorkerInv(w)
  BY DEF Init, WorkerInv, TxState, DecisionsSound, DecisionsComplete, MonitorsExisted
<1>4. QED
  BY <1>1, <1>2, <1>3 DEF IInv

LEMMA NextInv == IInv /\ [Next]_vars => IInv'
<1> SUFFICES ASSUME IInv, [Next]_vars PROVE IInv'
  OBVIOUS
<1>1. TypeOK'
  BY NextType DEF IInv
<1>2. CASE UNCHANGED vars
  BY <1>1, <1>2 DEF IInv, RowLocks, SharedInv, MatchesHaveMonitors, AnnouncedWereCommitted,
       KeywordHitsAreMatched, WorkerInv, TxState, DecisionsSound, DecisionsComplete,
       MonitorsExisted, vars, db, worker, tx, hist
<1>3. CASE Next
  <2>1. SharedInv'
    BY <1>3, WorkersKeepShared, EnvironmentKeepsShared DEF Next, WorkerStep
  <2>2. QED
    BY <1>1, <1>3, <2>1, LocksStep, WorkersStep DEF IInv
<1>4. QED
  BY <1>2, <1>3

(* The inductive invariant holds in every behaviour. *)
THEOREM Invariance == Spec => []IInv
<1>1. QED
  BY InitInv, NextInv, PTL DEF Spec

(* Every Match row's monitor exists. *)
THEOREM MatchesKeepMonitors == Spec => []MatchesHaveMonitors
<1>1. IInv => MatchesHaveMonitors
  BY DEF IInv, SharedInv
<1>2. QED
  BY <1>1, Invariance, PTL

(* A rolled back transaction is never announced. *)
THEOREM OnlyCommittedAnnounced == Spec => []AnnouncedWereCommitted
<1>1. IInv => AnnouncedWereCommitted
  BY DEF IInv, SharedInv
<1>2. QED
  BY <1>1, Invariance, PTL

(* Keyword hits of content cached by a feed that evaluates keywords are never missed. *)
THEOREM NoKeywordHitMissed == Spec => []KeywordHitsAreMatched
<1>1. IInv => KeywordHitsAreMatched
  BY DEF IInv, SharedInv
<1>2. QED
  BY <1>1, Invariance, PTL

(* Matches appear only with content that the same transaction wrote. *)
THEOREM MatchesFollowWrites == Spec => MatchesComeWithContent
<1> DEFINE A == \A p \in matches' \ matches :
       \E w \in Worker : /\ p[2] \in wrote[w] /\ p[1] \in active[w]
                         /\ Evaluates(Kind[feed[w]], Mode[p[1]])
                         /\ items'[p[2]] = batch[w][p[2]]
<1>1. IInv /\ [Next]_vars => [A]_vars
  <2> SUFFICES ASSUME IInv, Next, NEW p \in matches' \ matches
               PROVE  \E w \in Worker : /\ p[2] \in wrote[w] /\ p[1] \in active[w]
                                        /\ Evaluates(Kind[feed[w]], Mode[p[1]])
                                        /\ items'[p[2]] = batch[w][p[2]]
    OBVIOUS
  <2>1. PICK w \in Worker : Commit(w)
    BY DEF Next, Environment, Publish, BecomeDue, PruneItems, ActivateMonitor,
         DeactivateMonitor, DeleteMonitor, RemoveMatch, StartTick, RunNow, Work, Fetch,
         FetchFails, ReadItem, WriteRow, WriteItem, InsertConflict, UpdateVanished,
         DeadlockVictim, Abort, MatchItems, CommitRefused, Announce, BrokerDown, MarkSuccess,
         ReadFailures, WriteFailure, MarkError, Crash, Rollback, db
  <2>2. p \in positive[w] /\ pc[w] = "commit"
    BY <2>1 DEF Commit
  <2>3. /\ p[1] \in active[w] /\ p[2] \in wrote[w]
        /\ Evaluates(Kind[feed[w]], Mode[p[1]])
    BY <2>2 DEF IInv, WorkerInv, DecisionsSound
  <2>4. items'[p[2]] = batch[w][p[2]]
    BY <2>1, <2>3 DEF Commit, IInv, TypeOK
  <2>5. QED
    BY <2>3, <2>4
<1>2. QED
  BY <1>1, Invariance, PTL DEF Spec, MatchesComeWithContent
==============================================================================
