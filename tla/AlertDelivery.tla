---------------------------- MODULE AlertDelivery ----------------------------
(***************************************************************************)
(* Email alerts of alerts/services.py and alerts/tasks.py.  Celery workers *)
(* run send_immediate_match_notifications for the matches of one ingestion *)
(* batch and send_due_match_notifications on every beat; both select the   *)
(* undelivered matches of a user, queue a send_mail task, and a callback   *)
(* of that task records the delivery.  Meanwhile ingestion commits         *)
(* matches, retention and users remove them, and users change cadences,    *)
(* pause monitors and verify addresses.                                    *)
(*                                                                         *)
(* Data kept: a Match row is its key <<monitor, item>> and whether it was  *)
(* created before its user's started_at baseline; next_send_at is whether  *)
(* it has been reached; a mail is its recipient and the items it lists.    *)
(***************************************************************************)
EXTENDS Integers, FiniteSets

CONSTANTS
  Worker,     \* Celery worker processes that run the dispatch tasks
  User,
  Monitor,    \* Monitor rows
  Item,       \* reddit_item_id values
  Slot,       \* bound: send_mail tasks queued or running at once
  Owner,      \* Owner[m]: the monitor's user
  Periodic,   \* cadences with an interval (CADENCE_INTERVALS)
  MaxNotices, \* bound: queued send_immediate_match_notifications tasks
  MaxEdits,   \* bound: changes users make
  MaxFaults   \* bound: lost mails and dispatch tasks that die

Cadences == {"off", "immediate"} \cup Periodic
Pairs  == Monitor \X Item
Alerts == User \X Item
Jobs   == User \X (Cadences \ {"off"})
NoMail == [state |-> "free", to |-> CHOOSE u \in User : TRUE, items |-> {}]

ASSUME AlertConstants ==
  /\ User # {} /\ Owner \in [Monitor -> User]
  /\ "off" \notin Periodic /\ "immediate" \notin Periodic
  /\ MaxNotices \in Nat /\ MaxEdits \in Nat /\ MaxFaults \in Nat

VARIABLES
  monitors,   \* monitors[m]: is_active and notification_cadence
  matches,    \* committed Match rows
  early,      \* those created before the owner's started_at
  started,    \* users whose EmailNotificationPreference has started_at
  verified,   \* users with a verified EmailAddress
  schedule,   \* schedule[u][c]: EmailNotificationSchedule row
  delivered,  \* EmailMatchDelivery rows
  notices,    \* queued immediate tasks: the match ids of one batch each
  pc,         \* pc[w]: what worker w does next
  task,       \* task[w]: part of the dispatch code it is in
  ids,        \* ids[w]: matches its task is restricted to
  left,       \* left[w]: preferences or schedules still to handle
  job,        \* job[w]: the one in hand
  picked,     \* picked[w]: items of the digest in hand
  mail,       \* mail[k]: a send_mail task, or a free slot
  mailed,     \* alerts the mail server accepted
  edits,      \* changes users made so far
  faults      \* faults so far

settings == <<monitors, started, verified, schedule>>
dispatch == <<pc, task, ids, left, job, picked>>
vars == <<settings, matches, early, delivered, notices, dispatch, mail, mailed, edits, faults>>

(* The types of the variables. *)
TypeOK ==
  /\ monitors \in [Monitor -> [active : BOOLEAN, cadence : Cadences]]
  /\ matches \subseteq Pairs /\ early \subseteq matches
  /\ started \subseteq User /\ verified \subseteq User
  /\ schedule \in [User -> [Periodic -> {"none", "waiting", "due"}]]
  /\ delivered \subseteq Alerts /\ mailed \subseteq Alerts
  /\ notices \subseteq SUBSET Pairs
  /\ pc \in [Worker -> {"idle", "next", "send", "advance"}]
  /\ task \in [Worker -> {"notice", "retry", "digest"}]
  /\ ids \in [Worker -> SUBSET Pairs]
  /\ left \in [Worker -> SUBSET Jobs]
  /\ job \in [Worker -> Jobs]
  /\ picked \in [Worker -> SUBSET Item]
  /\ mail \in [Slot -> [state : {"free", "queued", "accepted"}, to : User, items : SUBSET Item]]
  /\ edits \in 0..MaxEdits /\ faults \in 0..MaxFaults

Init ==
  /\ monitors = [m \in Monitor |-> [active |-> FALSE, cadence |-> "off"]]
  /\ matches = {} /\ early = {} /\ delivered = {} /\ mailed = {} /\ notices = {}
  /\ started = {} /\ verified \in SUBSET User
  /\ schedule = [u \in User |-> [c \in Periodic |-> "none"]]
  /\ pc = [w \in Worker |-> "idle"]
  /\ task = [w \in Worker |-> "notice"]
  /\ ids = [w \in Worker |-> {}]
  /\ left = [w \in Worker |-> {}]
  /\ job \in [Worker -> {<<CHOOSE u \in User : TRUE, "immediate">>}]
  /\ picked = [w \in Worker |-> {}]
  /\ mail = [k \in Slot |-> NoMail]
  /\ edits = 0 /\ faults = 0

------------------------------------------------------------------------------
(* Selection of alerts. *)

(* Faulty variants of Pending: without the filter on the monitor's user;
   without the annotation already_delivered. *)
PendingOfAnyone(u, c, among) ==
  {i \in Item :
     /\ <<u, i>> \notin delivered
     /\ \E m \in Monitor : /\ <<m, i>> \in (matches \ early) \cap among
                           /\ monitors[m].active /\ monitors[m].cadence = c}
PendingAgain(u, c, among) ==
  {i \in Item :
     \E m \in Monitor : /\ <<m, i>> \in (matches \ early) \cap among
                        /\ Owner[m] = u /\ monitors[m].active /\ monitors[m].cadence = c}

(* _pending_matches_for_user: undelivered items of the user's active monitors
   at one cadence, among the given matches, since the baseline. *)
Pending(u, c, among) ==
  {i \in Item :
     /\ <<u, i>> \notin delivered
     /\ \E m \in Monitor : /\ <<m, i>> \in (matches \ early) \cap among
                           /\ Owner[m] = u /\ monitors[m].active /\ monitors[m].cadence = c}

------------------------------------------------------------------------------
(* The dispatch tasks. *)

(* send_immediate_email_digests loads the started users behind its matches. *)
StartNotice(w, batch) ==
  /\ pc[w] = "idle"
  /\ notices' = notices \ {batch}
  /\ task' = [task EXCEPT ![w] = "notice"]
  /\ ids' = [ids EXCEPT ![w] = batch]
  /\ left' = [left EXCEPT ![w] =
       {<<Owner[p[1]], "immediate">> : p \in {q \in batch \cap matches : Owner[q[1]] \in started}}]
  /\ pc' = [pc EXCEPT ![w] = "next"]
  /\ UNCHANGED <<settings, matches, early, delivered, job, picked, mail, mailed, edits, faults>>

(* Faulty variants of StartDue: every cadence of an active monitor is retried;
   none is. *)
StartDueAnyCadence(w) ==
  /\ pc[w] = "idle"
  /\ task' = [task EXCEPT ![w] = "retry"]
  /\ ids' = [ids EXCEPT ![w] = Pairs]
  /\ left' = [left EXCEPT ![w] =
       {<<Owner[m], monitors[m].cadence>> : m \in {n \in Monitor : monitors[n].active}}]
  /\ pc' = [pc EXCEPT ![w] = "next"]
  /\ UNCHANGED <<settings, matches, early, delivered, notices, job, picked, mail, mailed, edits,
                 faults>>
StartDueNoRetry(w) ==
  /\ pc[w] = "idle"
  /\ task' = [task EXCEPT ![w] = "retry"]
  /\ ids' = [ids EXCEPT ![w] = Pairs]
  /\ pc' = [pc EXCEPT ![w] = "next"]
  /\ UNCHANGED <<settings, matches, early, delivered, notices, left, job, picked, mail, mailed,
                 edits, faults>>

(* send_due_email_digests first retries the users of immediate monitors. *)
StartDue(w) ==
  /\ pc[w] = "idle"
  /\ task' = [task EXCEPT ![w] = "retry"]
  /\ ids' = [ids EXCEPT ![w] = Pairs]
  /\ left' = [left EXCEPT ![w] =
       {<<u, "immediate">> : u \in {v \in started : \E m \in Monitor :
          Owner[m] = v /\ monitors[m].active /\ monitors[m].cadence = "immediate"}}]
  /\ pc' = [pc EXCEPT ![w] = "next"]
  /\ UNCHANGED <<settings, matches, early, delivered, notices, job, picked, mail, mailed, edits,
                 faults>>

(* ... and then runs the query for the due schedules of started users. *)
LoadSchedules(w) ==
  /\ pc[w] = "next" /\ task[w] = "retry" /\ left[w] = {}
  /\ task' = [task EXCEPT ![w] = "digest"]
  /\ left' = [left EXCEPT ![w] = {j \in started \X Periodic : schedule[j[1]][j[2]] = "due"}]
  /\ UNCHANGED <<settings, matches, early, delivered, notices, pc, ids, job, picked, mail,
                 mailed, edits, faults>>

Pick(w) ==
  /\ pc[w] = "next"
  /\ \E j \in left[w] :
       /\ job' = [job EXCEPT ![w] = j]
       /\ left' = [left EXCEPT ![w] = @ \ {j}]
       /\ picked' = [picked EXCEPT ![w] = Pending(j[1], j[2], ids[w])]
  /\ pc' = [pc EXCEPT ![w] = "send"]
  /\ UNCHANGED <<settings, matches, early, delivered, notices, task, ids, mail, mailed, edits,
                 faults>>

(* Only a digest has a schedule to advance. *)
AfterSend(w) == pc' = [pc EXCEPT ![w] = IF task[w] = "digest" THEN "advance" ELSE "next"]

(* apply_async of send_mail, for a digest that lists something and whose user
   has a verified address when that is looked up. *)
Enqueue(w) ==
  /\ pc[w] = "send" /\ picked[w] # {} /\ job[w][1] \in verified
  /\ \E k \in Slot :
       /\ mail[k].state = "free"
       /\ mail' = [mail EXCEPT ![k] =
            [state |-> "queued", to |-> job[w][1], items |-> picked[w]]]
  /\ picked' = [picked EXCEPT ![w] = {}]
  /\ AfterSend(w)
  /\ UNCHANGED <<settings, matches, early, delivered, notices, task, ids, left, job, mailed,
                 edits, faults>>

Skip(w) ==
  /\ pc[w] = "send" /\ (picked[w] = {} \/ job[w][1] \notin verified)
  /\ picked' = [picked EXCEPT ![w] = {}]
  /\ AfterSend(w)
  /\ UNCHANGED <<settings, matches, early, delivered, notices, task, ids, left, job, mail,
                 mailed, edits, faults>>

(* The schedule moves on whether or not a digest was queued. *)
Advance(w) ==
  /\ pc[w] = "advance"
  /\ schedule' = [schedule EXCEPT ![job[w][1]][job[w][2]] = "waiting"]
  /\ pc' = [pc EXCEPT ![w] = "next"]
  /\ UNCHANGED <<monitors, started, verified, matches, early, delivered, notices, task, ids,
                 left, job, picked, mail, mailed, edits, faults>>

Finish(w) ==
  /\ pc[w] = "next" /\ left[w] = {} /\ task[w] # "retry"
  /\ ids' = [ids EXCEPT ![w] = {}]
  /\ pc' = [pc EXCEPT ![w] = "idle"]
  /\ UNCHANGED <<settings, matches, early, delivered, notices, task, left, job, picked, mail,
                 mailed, edits, faults>>

(* A time limit, a broker or database error, or a restart ends the task. *)
Die(w) ==
  /\ pc[w] # "idle" /\ faults < MaxFaults
  /\ faults' = faults + 1
  /\ pc' = [pc EXCEPT ![w] = "idle"]
  /\ ids' = [ids EXCEPT ![w] = {}]
  /\ left' = [left EXCEPT ![w] = {}]
  /\ picked' = [picked EXCEPT ![w] = {}]
  /\ UNCHANGED <<settings, matches, early, delivered, notices, task, job, mail, mailed, edits>>

------------------------------------------------------------------------------
(* The mail tasks. *)

Contents(k) == {mail[k].to} \X mail[k].items

SendMail(k) ==
  /\ mail[k].state = "queued"
  /\ mail' = [mail EXCEPT ![k].state = "accepted"]
  /\ mailed' = mailed \cup Contents(k)
  /\ UNCHANGED <<settings, matches, early, delivered, notices, dispatch, edits, faults>>

(* record_match_email_delivery, the callback of a send_mail that returned. *)
RecordDelivery(k) ==
  /\ mail[k].state = "accepted"
  /\ delivered' = delivered \cup Contents(k)
  /\ mail' = [mail EXCEPT ![k] = NoMail]
  /\ UNCHANGED <<settings, matches, early, notices, dispatch, mailed, edits, faults>>

(* The mail server refuses the mail, or a process dies before or after it
   took the mail: nothing is recorded. *)
LoseMail(k) ==
  /\ mail[k].state # "free" /\ faults < MaxFaults
  /\ faults' = faults + 1
  /\ mail' = [mail EXCEPT ![k] = NoMail]
  /\ UNCHANGED <<settings, matches, early, delivered, notices, dispatch, mailed, edits>>

------------------------------------------------------------------------------
(* What runs beside the dispatch. *)

(* An ingestion transaction commits a batch; announced says whether the
   broker took the task that on_commit sends. *)
CommitMatches(batch, announced) ==
  /\ batch # {} /\ batch \cap matches = {} /\ \A p \in batch : monitors[p[1]].active
  /\ Cardinality(notices) < MaxNotices
  /\ matches' = matches \cup batch
  /\ early' = early \cup {p \in batch : Owner[p[1]] \notin started}
  /\ notices' = IF announced THEN notices \cup {batch} ELSE notices
  /\ UNCHANGED <<settings, delivered, dispatch, mail, mailed, edits, faults>>

(* Retention pruning and lead deletion. *)
RemoveMatch(p) ==
  /\ matches' = matches \ {p}
  /\ early' = early \ {p}
  /\ UNCHANGED <<settings, delivered, notices, dispatch, mail, mailed, edits, faults>>

(* ensure_email_delivery_state: the baseline is set once, a schedule row is
   created once. *)
EnsureDeliveryState(u, c) ==
  IF c = "off" THEN UNCHANGED <<started, schedule>>
  ELSE /\ started' = started \cup {u}
       /\ schedule' = IF c \in Periodic /\ schedule[u][c] = "none"
                        THEN [schedule EXCEPT ![u][c] = "waiting"] ELSE schedule

(* A cadence is chosen: for a group, or for a monitor created or taken up. *)
SetCadence(m, c, active) ==
  /\ edits < MaxEdits /\ edits' = edits + 1
  /\ active \/ active = monitors[m].active
  /\ monitors' = [monitors EXCEPT ![m] = [active |-> active, cadence |-> c]]
  /\ EnsureDeliveryState(Owner[m], c)
  /\ UNCHANGED <<verified, matches, early, delivered, notices, dispatch, mail, mailed, faults>>

(* A monitor is paused, or resumed with the cadence it has. *)
Toggle(m) ==
  /\ edits < MaxEdits /\ edits' = edits + 1
  /\ monitors' = [monitors EXCEPT ![m].active = ~@]
  /\ UNCHANGED <<started, verified, schedule, matches, early, delivered, notices, dispatch,
                 mail, mailed, faults>>

(* A monitor is deleted, and its matches by the foreign key's cascade; as an
   inactive monitor without email it stands for one not created yet. *)
DeleteMonitor(m) ==
  /\ edits < MaxEdits /\ edits' = edits + 1
  /\ monitors' = [monitors EXCEPT ![m] = [active |-> FALSE, cadence |-> "off"]]
  /\ matches' = {p \in matches : p[1] # m}
  /\ early' = {p \in early : p[1] # m}
  /\ UNCHANGED <<started, verified, schedule, delivered, notices, dispatch, mail, mailed, faults>>

(* The user verifies the account address, or changes it to another. *)
VerifyAddress(u) ==
  /\ edits < MaxEdits /\ edits' = edits + 1
  /\ verified' = IF u \in verified THEN verified \ {u} ELSE verified \cup {u}
  /\ UNCHANGED <<monitors, started, schedule, matches, early, delivered, notices, dispatch,
                 mail, mailed, faults>>

BecomeDue(u, c) ==
  /\ schedule[u][c] = "waiting"
  /\ schedule' = [schedule EXCEPT ![u][c] = "due"]
  /\ UNCHANGED <<monitors, started, verified, matches, early, delivered, notices, dispatch,
                 mail, mailed, edits, faults>>

------------------------------------------------------------------------------
(* A step of a dispatch task that its process takes by itself. *)
Work(w) ==
  LoadSchedules(w) \/ Pick(w) \/ Enqueue(w) \/ Skip(w) \/ Advance(w) \/ Finish(w)

Deliver(k) == SendMail(k) \/ RecordDelivery(k)

Environment ==
  \/ \E batch \in SUBSET Pairs, announced \in BOOLEAN : CommitMatches(batch, announced)
  \/ \E p \in matches : RemoveMatch(p)
  \/ \E m \in Monitor, c \in Cadences, active \in BOOLEAN : SetCadence(m, c, active)
  \/ \E m \in Monitor : Toggle(m) \/ DeleteMonitor(m)
  \/ \E u \in User : VerifyAddress(u)
  \/ \E u \in User, c \in Periodic : BecomeDue(u, c)

Next ==
  \/ \E w \in Worker, batch \in notices : StartNotice(w, batch)
  \/ \E w \in Worker : StartDue(w) \/ Work(w) \/ Die(w)
  \/ \E k \in Slot : Deliver(k) \/ LoseMail(k)
  \/ Environment

Spec == Init /\ [][Next]_vars

(* Processes go on and time passes.  Beat queues a dispatch again and again;
   immediate tasks, queued beside it, cannot keep it from the workers. *)
FairSpec ==
  /\ Spec
  /\ SF_vars(\E w \in Worker : StartDue(w))
  /\ \A w \in Worker : WF_vars(Work(w)) /\ SF_vars(Enqueue(w))
  /\ \A k \in Slot : WF_vars(Deliver(k))
  /\ \A u \in User, c \in Periodic : WF_vars(BecomeDue(u, c))

------------------------------------------------------------------------------
(* What a user should still be told: undelivered items that an active monitor
   of the user's own, with email, matched since the user's baseline. *)
Open ==
  {a \in Alerts :
     /\ a[1] \in started /\ a \notin delivered
     /\ \E m \in Monitor : /\ Owner[m] = a[1] /\ <<m, a[2]>> \in matches \ early
                           /\ monitors[m].active /\ monitors[m].cadence # "off"}

(* Alerts in a digest that a dispatch holds or the broker has queued. *)
Selected == {a \in Alerts : \/ \E w \in Worker : a \in {job[w][1]} \X picked[w]
                            \/ \E k \in Slot : mail[k].state = "queued" /\ a \in Contents(k)}

Contract == INSTANCE AlertContract
              WITH open <- Open, selected <- Selected, recorded <- delivered

(* The dispatch keeps the contract: digests list only alerts that were open
   for their one recipient when selected, records follow accepted mails, and
   a recorded alert is never selected again, whatever is deleted, matched
   again or reconfigured in between (services.py 296-360, tasks.py 39-71). *)
KeepsContract == Contract!Spec

(* An alert that stays wanted at one cadence, for a user with a verified
   address, does not stay undelivered: lost tasks and mails are made up for. *)
AlertsArrive ==
  \A u \in User, c \in Cadences \ {"off"}, i \in Item :
    i \in Pending(u, c, Pairs) /\ u \in verified ~> ~(i \in Pending(u, c, Pairs) /\ u \in verified)
==============================================================================
