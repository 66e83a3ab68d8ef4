-------------------------------- MODULE RunNow --------------------------------
(* tracking/views.py (monitor_create, monitor_run_now_group) and reddit/tasks.py
   (fetch_subreddit), composed with LeadInbox: users start fetches of a subreddit
   that are logged as FetchRuns and make leads.

   A request reads the cooldown in the cache, and when it is over sets it and sends
   the task; the cache and the broker take no part in the transaction, so that
   monitor_create sends its fetch before the monitor it inserted is committed, and
   an error after that takes neither back.  A request in progress stands at
     "check"  with a monitor inserted, before it reads the cooldown,
     "send"   having read that the cooldown is over,
     "commit" before the end of monitor_create.
   A worker stands at "fetch" with a run just created, at "ok" or "failed" before it
   saves the run's outcome.  One subreddit stands for all: they share nothing here. *)
EXTENDS LeadInbox

CONSTANTS
  Worker,
  Cooldown         \* _RUN_NOW_COOLDOWN_SECONDS

ASSUME RunNowAssumption == Cooldown \in Nat \ {0}

VARIABLES
  cooldown,    \* run_now:<user>: when the cooldown ends
  queue,       \* the fetch_subreddit tasks sent and not begun: their users
  runs,        \* FetchRun, in order of creation
  worker,      \* the run each worker is in
  sent,        \* when each session last sent a fetch for each user
  lost         \* the runs whose worker was killed

runVars == <<cooldown, queue, runs, worker, sent, lost>>
vars == <<inboxVars, runVars>>

NoRun == [pc |-> "idle", run |-> 0, made |-> 0]

Never == 0 - Cooldown

Init ==
  /\ InboxInit
  /\ cooldown = [u \in User |-> 0]
  /\ queue = <<>>
  /\ runs = <<>>
  /\ worker = [w \in Worker |-> NoRun]
  /\ sent = [s \in Session |-> [u \in User |-> Never]]
  /\ lost = {}

-------------------------------------------------------------------------------
(* Requests *)

Ready(u) == cooldown[u] <= clock

LeavesInbox == UNCHANGED <<clock, items, leads, lastLead, dismissed, hidden, retention, pruner>>

(* monitor_create locks the monitor, or inserts it, when no open transaction has. *)
CreateMonitor(s, m) ==
  /\ Begin(s)
  /\ Unlocked({m})
  /\ session' = [session EXCEPT ![s] =
                   [Idle EXCEPT !.pc = "check", !.user = Owner[m], !.monitor = m]]
  /\ LeavesInbox /\ UNCHANGED <<monitors, active, runVars>>

(* It sends a fetch unless the cooldown runs. *)
CheckCooldown(s) ==
  /\ session[s].pc = "check"
  /\ session' = [session EXCEPT ![s].pc = IF Ready(session[s].user) THEN "send" ELSE "commit"]
  /\ LeavesInbox /\ UNCHANGED <<monitors, active, events, runVars>>

(* monitor_run_now_group of a user: refused while the cooldown runs. *)
AskRun(s, u) ==
  /\ Begin(s)
  /\ session' = IF Ready(u) THEN [session EXCEPT ![s] = [Idle EXCEPT !.pc = "send", !.user = u]]
                ELSE session
  /\ LeavesInbox /\ UNCHANGED <<monitors, active, runVars>>

(* After _trigger_subreddit_fetch only monitor_create has something to commit. *)
Triggered(s) ==
  IF session[s].monitor = Idle.monitor THEN Idle ELSE [session[s] EXCEPT !.pc = "commit"]

(* Faulty variants of Trigger: the cooldown is prolonged; only a manual run sets it. *)
TriggerProlongs(s) ==
  LET u == session[s].user
  IN /\ session[s].pc = "send"
     /\ cooldown' = [cooldown EXCEPT ![u] = (IF @ > clock THEN @ ELSE clock) + Cooldown]
     /\ queue' = Append(queue, u)
     /\ sent' = [sent EXCEPT ![s][u] = clock]
     /\ session' = [session EXCEPT ![s] = Triggered(s)]
     /\ LeavesInbox /\ UNCHANGED <<monitors, active, events, runs, worker, lost>>
TriggerManual(s) ==
  LET u == session[s].user
  IN /\ session[s].pc = "send"
     /\ cooldown' = IF session[s].monitor = Idle.monitor
                    THEN [cooldown EXCEPT ![u] = clock + Cooldown] ELSE cooldown
     /\ queue' = Append(queue, u)
     /\ sent' = [sent EXCEPT ![s][u] = clock]
     /\ session' = [session EXCEPT ![s] = Triggered(s)]
     /\ LeavesInbox /\ UNCHANGED <<monitors, active, events, runs, worker, lost>>

(* _trigger_subreddit_fetch *)
Trigger(s) ==
  LET u == session[s].user
  IN /\ session[s].pc = "send"
     /\ cooldown' = [cooldown EXCEPT ![u] = clock + Cooldown]
     /\ queue' = Append(queue, u)
     /\ sent' = [sent EXCEPT ![s][u] = clock]
     /\ session' = [session EXCEPT ![s] = Triggered(s)]
     /\ LeavesInbox /\ UNCHANGED <<monitors, active, events, runs, worker, lost>>

(* The broker refuses the task: the request fails with the cooldown already set. *)
TriggerFails(s) ==
  /\ session[s].pc = "send" /\ Event
  /\ cooldown' = [cooldown EXCEPT ![session[s].user] = clock + Cooldown]
  /\ Ended(s)
  /\ LeavesInbox /\ UNCHANGED <<monitors, active, queue, runs, worker, sent, lost>>

(* The monitor that was not there appears, and one that was paused is resumed. *)
CommitMonitor(s) ==
  /\ session[s].pc = "commit"
  /\ monitors' = monitors \cup {session[s].monitor}
  /\ active' = active \cup {session[s].monitor}
  /\ Ended(s)
  /\ LeavesInbox /\ UNCHANGED <<events, runVars>>

-------------------------------------------------------------------------------
(* fetch_subreddit *)

LeavesRequests == UNCHANGED <<monitors, active, session, cooldown, sent>>

(* A worker takes the next task and creates its FetchRun. *)
StartRun(w) ==
  /\ worker[w] = NoRun /\ queue # <<>>
  /\ queue' = Tail(queue)
  /\ runs' = Append(runs, [user |-> Head(queue), status |-> "running", made |-> 0])
  /\ worker' = [worker EXCEPT ![w] = [NoRun EXCEPT !.pc = "fetch", !.run = Len(runs) + 1]]
  /\ LeavesInbox /\ LeavesRequests /\ UNCHANGED <<events, lost>>

(* The post stream is fetched and its transaction committed, then announced; with the
   broker down that raises after the commit. *)
RunFetch(w, page) ==
  /\ worker[w].pc = "fetch"
  /\ Ingest("post_stream", page)
  /\ \/ worker' = [worker EXCEPT ![w].pc = "ok", ![w].made = lastLead' - lastLead] /\ UNCHANGED events
     \/ Event /\ worker' = [worker EXCEPT ![w].pc = "failed"]
  /\ LeavesRequests
  /\ UNCHANGED <<clock, dismissed, hidden, retention, pruner, queue, runs, lost>>

(* The client raises, or the soft time limit does, and nothing is kept. *)
RunFails(w) ==
  /\ worker[w].pc = "fetch"
  /\ worker' = [worker EXCEPT ![w].pc = "failed"]
  /\ LeavesInbox /\ LeavesRequests /\ UNCHANGED <<events, queue, runs, lost>>

(* Faulty variant of EndRun: only successful runs are saved. *)
EndRunSuccess(w) ==
  LET r == worker[w].run
  IN /\ worker[w].pc \in {"ok", "failed"}
     /\ runs' = IF worker[w].pc = "ok"
                THEN [runs EXCEPT ![r].status = "ok", ![r].made = worker[w].made] ELSE runs
     /\ worker' = [worker EXCEPT ![w] = NoRun]
     /\ LeavesInbox /\ LeavesRequests /\ UNCHANGED <<events, queue, lost>>

(* The outcome is saved: success, or failed (rate limited is one of its forms). *)
EndRun(w) ==
  LET r == worker[w].run
  IN /\ worker[w].pc \in {"ok", "failed"}
     /\ runs' = [runs EXCEPT ![r].status = worker[w].pc, ![r].made = worker[w].made]
     /\ worker' = [worker EXCEPT ![w] = NoRun]
     /\ LeavesInbox /\ LeavesRequests /\ UNCHANGED <<events, queue, lost>>

(* The hard time limit, or a soft one while the outcome is saved. *)
KillRun(w) ==
  /\ worker[w] # NoRun /\ Event
  /\ lost' = lost \cup {worker[w].run}
  /\ worker' = [worker EXCEPT ![w] = NoRun]
  /\ LeavesInbox /\ LeavesRequests /\ UNCHANGED <<queue, runs>>

-------------------------------------------------------------------------------
RunRequests(s) ==
  \/ \E m \in Monitor : CreateMonitor(s, m)
  \/ \E u \in User : AskRun(s, u)

Work(w) ==
  \/ StartRun(w)
  \/ RunFails(w)
  \/ \E page \in Pages["post_stream"] : RunFetch(w, page)
  \/ EndRun(w)

Next ==
  \/ \E s \in Session : RunRequests(s) \/ CheckCooldown(s) \/ Trigger(s) \/ TriggerFails(s) \/ CommitMonitor(s)
  \/ \E w \in Worker : Work(w) \/ KillRun(w)
  \/ InboxNext /\ UNCHANGED runVars

Spec == Init /\ [][Next]_vars

(* Workers take what is queued and their HTTP requests time out; beat goes on
   starting prunes, which end. *)
FairSpec ==
  /\ Spec
  /\ \A w \in Worker : WF_vars(Work(w))
  /\ WF_vars(StartPrune /\ UNCHANGED runVars)
  /\ WF_vars(Prune /\ UNCHANGED runVars)

-------------------------------------------------------------------------------
(* Types of the inbox and of the runs. *)
Lead == [id : 1..MaxLeads, monitor : Monitor, item : Item, status : {"new", "contacted"}, made : 0..MaxClock]

TypeOK ==
  /\ clock \in 0..MaxClock /\ monitors \subseteq Monitor /\ active \subseteq monitors
  /\ DOMAIN items \subseteq Item
  /\ leads \subseteq Lead /\ lastLead \in 0..MaxLeads
  /\ dismissed \subseteq User \X Item /\ hidden \subseteq User \X Item
  /\ retention \in [User -> Days]
  /\ session \in [Session -> [pc : {"idle", "lead", "check", "send", "commit"},
                              lead : Lead \cup {NoLead},
                              to : {"none", "new", "contacted", "deleted"},
                              user : User \cup {"none"}, monitor : Monitor \cup {"none"}]]
  /\ pruner \in [pc : {"idle", "read", "delete"}, left : SUBSET User, user : User \cup {"none"},
                 days : (Days \ {Forever}) \cup {0}, saw : Days \cup {0}, now : 0..MaxClock]
  /\ cooldown \in [User -> 0..MaxClock + Cooldown]
  /\ queue \in Seq(User)
  /\ runs \in Seq([user : User, status : {"running", "ok", "failed"}, made : 0..MaxLeads])
  /\ worker \in [Worker -> [pc : {"idle", "fetch", "ok", "failed"}, run : 0..Len(runs), made : 0..MaxLeads]]
  /\ lost \subseteq DOMAIN runs

(* One session gets one fetch per cooldown sent for a user: requests that overlap may
   each send one, and no others. *)
CooldownHolds ==
  [][\A s \in Session, u \in User :
       session[s].user = u /\ session'[s] # session[s] /\ Len(queue') > Len(queue) =>
         sent[s][u] + Cooldown <= clock]_vars

(* Every fetch that was sent is logged as a run that ends, unless its worker is killed;
   users send finitely many here. *)
RunsEnd ==
  <>[](queue = <<>> /\ \A k \in DOMAIN runs : runs[k].status = "running" => k \in lost)
===============================================================================
