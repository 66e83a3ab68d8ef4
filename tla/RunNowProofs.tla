----------------------------- MODULE RunNowProofs -----------------------------
(***************************************************************************)
(* Proofs about RunNow, and the inbox in it, for any number of sessions,   *)
(* users, workers, monitors, items and leads and any retention: what users *)
(* hid stays hidden, leads neither come back nor vanish nor change by      *)
(* themselves, the cooldown limits each session, the budget is spent in    *)
(* order, and every variable keeps its type.                               *)
(***************************************************************************)
EXTENDS RunNow, MatchingProofs

(* The shapes of leads and requests, of which only the fields matter here. *)
IsLead(x) == x = [id |-> x.id, monitor |-> x.monitor, item |-> x.item,
                  status |-> x.status, made |-> x.made]
IsRequest(r) == r \in [pc : {r.pc}, lead : {r.lead}, to : {r.to}, user : {r.user},
                       monitor : {r.monitor}]

(* Times are numbers, and the prune's is not to come. *)
Prunes == [pc : {"idle", "read", "delete"}, left : SUBSET User, user : User \cup {"none"},
           days : Nat, saw : Days \cup {0}, now : Nat]

Times ==
  /\ clock \in Nat
  /\ retention \in [User -> Days]
  /\ pruner \in Prunes
  /\ pruner.pc \in {"read", "delete"} => pruner.now <= clock
  /\ pruner.pc = "delete" => pruner.days = pruner.saw

(* Primary keys are given out once. *)
KeysOnce ==
  /\ lastLead \in Nat
  /\ \A x \in leads : IsLead(x) /\ x.id \in 1..lastLead /\ x.made \in Nat
  /\ \A x, y \in leads : x.id = y.id => x = y

HiddenAreDismissed == hidden \subseteq dismissed

RequestsAreTyped ==
  /\ session \in [Session -> {session[s] : s \in Session}]
  /\ \A s \in Session : IsRequest(session[s])
  /\ \A s \in Session : session[s].pc \in {"check", "send"} => session[s].user \in User
  /\ queue \in Seq(User)

(* A cooldown covers every fetch that was sent, and whoever is about to send one found
   it over. *)
CooldownCovers ==
  /\ cooldown \in [User -> Int]
  /\ sent \in [Session -> [User -> Int]]
  /\ \A s \in Session, u \in User : sent[s][u] <= clock /\ sent[s][u] + Cooldown <= cooldown[u]
  /\ \A s \in Session : session[s].pc = "send" => sent[s][session[s].user] + Cooldown <= clock

IInv == Times /\ KeysOnce /\ HiddenAreDismissed /\ RequestsAreTyped /\ CooldownCovers

-------------------------------------------------------------------------------
LEMMA NoPruneType == NoPrune \in Prunes /\ NoPrune.pc = "idle"
BY DEF NoPrune, Prunes

LEMMA InitInv == Init => IInv
<1> SUFFICES ASSUME Init PROVE IInv
  OBVIOUS
<1> USE InboxAssumption, RunNowAssumption DEF Init, InboxInit
<1>1. Times
  BY NoPruneType DEF Times
<1>2. KeysOnce /\ HiddenAreDismissed
  BY DEF KeysOnce, HiddenAreDismissed
<1>3. RequestsAreTyped
  BY DEF RequestsAreTyped, Idle, IsRequest
<1>4. CooldownCovers
  BY DEF CooldownCovers, Never, Idle
<1>5. QED
  BY <1>1, <1>2, <1>3, <1>4 DEF IInv

-------------------------------------------------------------------------------
(* Leads *)

(* What a fetch adds has new keys. *)
LEMMA IngestKeys ==
  ASSUME KeysOnce, clock \in Nat, NEW kind, NEW page, Ingest(kind, page)
  PROVE  /\ KeysOnce'
         /\ leads \subseteq leads'
         /\ \A x \in leads' : x \in leads \/ x.id > lastLead
<1>01. PICK matched : \E n \in 0..(MaxLeads - lastLead) : \E number \in Bijection(matched, 1..n) :
        leads' = leads \cup NewLeads(matched, number) /\ lastLead' = lastLead + n
  BY Zenon DEF Ingest
<1>02. PICK n \in 0..(MaxLeads - lastLead) : \E number \in Bijection(matched, 1..n) :
        leads' = leads \cup NewLeads(matched, number) /\ lastLead' = lastLead + n
  BY <1>01
<1>1. PICK number \in Bijection(matched, 1..n) :
        leads' = leads \cup NewLeads(matched, number) /\ lastLead' = lastLead + n
  BY <1>02
<1>2. n \in Nat /\ lastLead \in Nat
  BY InboxAssumption DEF KeysOnce
<1>3. /\ \A r \in matched : number[r] \in 1..n
      /\ \A r, q \in matched : number[r] = number[q] => r = q
  BY DEF Bijection, Injection, Surjection, IsInjective
<1>4. ASSUME NEW x \in NewLeads(matched, number)
      PROVE  IsLead(x) /\ x.id \in 1..(lastLead + n) /\ x.id > lastLead /\ x.made \in Nat
  <2>1. PICK r \in matched :
          x = [id |-> lastLead + number[r], monitor |-> r.monitor, item |-> r.item,
               status |-> "new", made |-> clock]
    BY <1>4 DEF NewLeads
  <2>2. x.id = lastLead + number[r] /\ number[r] \in 1..n
    BY <2>1, <1>3
  <2>3. IsLead(x)
    BY <2>1 DEF IsLead
  <2>4. x.made \in Nat
    BY <2>1
  <2>5. QED
    BY <2>2, <2>3, <2>4, <1>2
<1>5. ASSUME NEW x \in NewLeads(matched, number), NEW y \in NewLeads(matched, number), x.id = y.id
      PROVE  x = y
  <2>1. PICK r \in matched :
          x = [id |-> lastLead + number[r], monitor |-> r.monitor, item |-> r.item,
               status |-> "new", made |-> clock]
    BY <1>5 DEF NewLeads
  <2>2. PICK q \in matched :
          y = [id |-> lastLead + number[q], monitor |-> q.monitor, item |-> q.item,
               status |-> "new", made |-> clock]
    BY <1>5 DEF NewLeads
  <2>3. number[r] = number[q]
    <3>1. lastLead + number[r] = lastLead + number[q]
      BY <1>5, <2>1, <2>2
    <3>2. number[r] \in 1..n /\ number[q] \in 1..n
      BY <1>3
    <3>3. QED
      BY <3>1, <3>2, <1>2
  <2>4. QED
    BY <2>1, <2>2, <2>3, <1>3
<1>6. ASSUME NEW x \in leads', NEW y \in leads', x.id = y.id PROVE x = y
  <2>1. \A z \in leads : z.id <= lastLead
    BY <1>2 DEF KeysOnce
  <2>2. \A z \in leads' : z \in leads \/ z \in NewLeads(matched, number)
    BY <1>1
  <2>3. \A z \in NewLeads(matched, number) : z.id \in Int /\ z.id > lastLead
    BY <1>4, <1>2
  <2>4. QED
    BY <1>5, <1>6, <2>1, <2>2, <2>3, <1>2 DEF KeysOnce
<1>7. \A x \in leads' : IsLead(x) /\ x.id \in 1..lastLead' /\ x.made \in Nat
  <2>1. \A x \in leads : IsLead(x) /\ x.id \in 1..lastLead' /\ x.made \in Nat
    BY <1>1, <1>2 DEF KeysOnce
  <2>2. QED
    BY <2>1, <1>1, <1>4
<1>8. KeysOnce'
  BY <1>1, <1>2, <1>6, <1>7 DEF KeysOnce, IsLead
<1>9. QED
  BY <1>1, <1>4, <1>8

(* The steps that change leads. *)
Fetches == \E kind \in Kinds : \E page \in Pages[kind] : Ingest(kind, page)
Saves == \E s \in Session : SaveLead(s)
Deletes == \E s \in Session : DeleteLead(s)
Updates == \E s \in Session, u \in User, days \in Days : UpdateRetention(s, u, days)
Removes == \E s \in Session, gone \in SUBSET monitors : DeleteMonitors(s, gone)

LEMMA LeadSteps ==
  ASSUME [Next]_vars
  PROVE  \/ UNCHANGED <<leads, lastLead>>
         \/ Fetches \/ Saves \/ Deletes \/ Removes \/ Updates \/ PruneUser
<1> USE DEF LeavesInbox, inboxVars, runVars
<1>1. ASSUME NEW s \in Session,
             RunRequests(s) \/ CheckCooldown(s) \/ Trigger(s) \/ TriggerFails(s) \/ CommitMonitor(s)
      PROVE  UNCHANGED <<leads, lastLead>>
  BY <1>1 DEF RunRequests, CreateMonitor, AskRun, CheckCooldown, Trigger, TriggerFails, CommitMonitor
<1>2. ASSUME NEW w \in Worker, Work(w) \/ KillRun(w)
      PROVE  UNCHANGED <<leads, lastLead>> \/ Fetches
  <2>1. ASSUME NEW page \in Pages["post_stream"], RunFetch(w, page) PROVE Fetches
    BY <2>1 DEF RunFetch, Fetches, Kinds
  <2>2. ASSUME StartRun(w) \/ RunFails(w) \/ EndRun(w) \/ KillRun(w) PROVE UNCHANGED <<leads, lastLead>>
    BY <2>2 DEF StartRun, RunFails, EndRun, KillRun
  <2>3. QED
    BY <1>2, <2>1, <2>2 DEF Work
<1>3. ASSUME InboxNext
      PROVE  \/ UNCHANGED <<leads, lastLead>>
             \/ Fetches \/ Saves \/ Deletes \/ Removes \/ Updates \/ PruneUser
  <2>1. ASSUME NEW s \in Session, LeadRequests(s) \/ LeadEnds(s)
        PROVE  UNCHANGED <<leads, lastLead>> \/ Saves \/ Deletes \/ Updates
    BY <2>1 DEF LeadRequests, LeadEnds, OpenLead, Dismiss, Saves, Deletes, Updates
  <2>2. ASSUME NEW kind \in Kinds, NEW page \in Pages[kind], ScheduledFetch(kind, page) PROVE Fetches
    BY <2>2 DEF ScheduledFetch, Fetches
  <2>3. ASSUME StartPrune \/ KillPrune \/ PruneItems \/ NextPeriod PROVE UNCHANGED <<leads, lastLead>>
    BY <2>3 DEF StartPrune, KillPrune, PruneItems, NextPeriod, PrunesOnly
  <2>4. ASSUME Prune PROVE PruneUser \/ UNCHANGED <<leads, lastLead>>
    BY <2>4 DEF Prune, ReadRetention, PrunesOnly
  <2>5. ASSUME NEW s \in Session, MonitorRequests(s) PROVE UNCHANGED <<leads, lastLead>> \/ Removes
    <3>1. ASSUME NEW gone \in SUBSET monitors, DeleteMonitors(s, gone) PROVE Removes
      BY <3>1 DEF Removes
    <3>2. \A m \in monitors : {m} \in SUBSET monitors
      OBVIOUS
    <3>3. \A u : MonitorsOf(u) \in SUBSET monitors
      BY DEF MonitorsOf
    <3>4. ASSUME NEW x, PauseMonitor(s, x) \/ ToggleGroup(s, x) PROVE UNCHANGED <<leads, lastLead>>
      BY <3>4 DEF PauseMonitor, ToggleGroup, MonitorsOnly
    <3>5. QED
      BY <2>5, <3>1, <3>2, <3>3, <3>4 DEF MonitorRequests
  <2>6. QED
    BY <1>3, <2>1, <2>2, <2>3, <2>4, <2>5 DEF InboxNext
<1>4. CASE UNCHANGED vars
  BY <1>4 DEF vars
<1>5. QED
  BY <1>1, <1>2, <1>3, <1>4 DEF Next

(* What the requests on monitors leave alone. *)
LEMMA MonitorRequestsFrame ==
  ASSUME NEW s, MonitorRequests(s)
  PROVE  UNCHANGED <<clock, items, lastLead, dismissed, hidden, retention, session, pruner>>
BY DEF MonitorRequests, DeleteMonitors, PauseMonitor, ToggleGroup, MonitorsOnly

(* Fewer leads, and the same otherwise. *)
LEMMA FewerKeys ==
  ASSUME KeysOnce, leads' \subseteq leads, lastLead' = lastLead
  PROVE  KeysOnce'
BY DEF KeysOnce, IsLead

LEMMA SaveKeys ==
  ASSUME KeysOnce, NEW s \in Session, SaveLead(s)
  PROVE  /\ KeysOnce'
         /\ \A x \in leads : \E y \in leads' : y.id = x.id
         /\ \A y \in leads' : \E x \in leads :
              /\ y.id = x.id
              /\ y = x \/ (x.id = session[s].lead.id /\ y.status = session[s].to)
<1> DEFINE new(x) == IF x.id = session[s].lead.id THEN [x EXCEPT !.status = session[s].to] ELSE x
<1>1. leads' = {new(x) : x \in leads} /\ lastLead' = lastLead
  BY DEF SaveLead, LeadsOnly
<1>2. ASSUME NEW x \in leads
      PROVE  /\ new(x).id = x.id /\ IsLead(new(x)) /\ new(x).made = x.made
             /\ new(x) = x \/ (x.id = session[s].lead.id /\ new(x).status = session[s].to)
  <2>1. x = [id |-> x.id, monitor |-> x.monitor, item |-> x.item, status |-> x.status, made |-> x.made]
    BY DEF KeysOnce, IsLead
  <2>2. [x EXCEPT !.status = session[s].to] =
          [id |-> x.id, monitor |-> x.monitor, item |-> x.item, status |-> session[s].to, made |-> x.made]
    BY <2>1
  <2>3. QED
    BY <2>1, <2>2 DEF IsLead
<1> HIDE DEF new
<1>3. \A y \in leads' : \E x \in leads : y = new(x)
  BY <1>1
<1>4. KeysOnce'
  <2>1. \A y \in leads' : IsLead(y) /\ y.id \in 1..lastLead' /\ y.made \in Nat
    BY <1>1, <1>2, <1>3 DEF KeysOnce
  <2>2. ASSUME NEW y \in leads', NEW z \in leads', y.id = z.id PROVE y = z
    <3>1. PICK a \in leads : y = new(a)
      BY <1>3
    <3>2. PICK b \in leads : z = new(b)
      BY <1>3
    <3>3. a.id = b.id
      BY <2>2, <3>1, <3>2, <1>2
    <3>4. QED
      BY <3>1, <3>2, <3>3 DEF KeysOnce
  <2>3. QED
    BY <1>1, <2>1, <2>2 DEF KeysOnce, IsLead
<1>5. QED
  BY <1>1, <1>2, <1>3, <1>4

LEMMA KeysStep == ASSUME IInv, [Next]_vars PROVE KeysOnce'
<1> USE DEF IInv
<1>1. CASE UNCHANGED <<leads, lastLead>>
  BY <1>1 DEF KeysOnce, IsLead
<1>2. CASE Fetches
  BY <1>2, IngestKeys DEF Fetches, Times
<1>3. CASE Saves
  BY <1>3, SaveKeys DEF Saves
<1>4. CASE Deletes \/ Removes \/ Updates \/ PruneUser
  BY <1>4, FewerKeys DEF Deletes, Removes, Updates, DeleteLead, DeleteMonitors, UpdateRetention, PruneUser, Kept,
                         LeadsOnly, MonitorsOnly, PrunesOnly
<1>5. QED
  BY <1>1, <1>2, <1>3, <1>4, LeadSteps

-------------------------------------------------------------------------------
(* Times *)

LEMMA GoesOnTimes ==
  ASSUME Times, pruner.pc \in {"read", "delete"}, NEW left \in SUBSET User, PruneGoesOn(left),
         UNCHANGED <<clock, retention>>
  PROVE  Times'
<1> DEFINE next == [NoPrune EXCEPT !.pc = "read", !.left = left, !.now = pruner.now]
<1>1. next \in Prunes /\ next.pc = "read" /\ next.now = pruner.now
  BY DEF NoPrune, Prunes, Times
<1>2. pruner' = NoPrune \/ pruner' = next
  BY DEF PruneGoesOn
<1> HIDE DEF next
<1>3. QED
  BY <1>1, <1>2, NoPruneType DEF Times

LEMMA PruneTimes ==
  ASSUME Times, StartPrune \/ Prune \/ KillPrune
  PROVE  Times'
<1> USE DEF PrunesOnly
<1>1. CASE StartPrune
  <2> DEFINE first == [NoPrune EXCEPT !.pc = "read", !.left = User, !.now = clock]
  <2>1. first \in Prunes /\ first.pc = "read" /\ first.now = clock
    BY DEF NoPrune, Prunes, Times
  <2>2. pruner' = first /\ UNCHANGED <<clock, retention>>
    BY <1>1 DEF StartPrune
  <2> HIDE DEF first
  <2>3. QED
    BY <2>1, <2>2 DEF Times
<1>2. CASE PruneUser
  <2>1. pruner.left \ {pruner.user} \in SUBSET User
    BY DEF Times, Prunes
  <2>2. QED
    BY <1>2, <2>1, GoesOnTimes DEF PruneUser
<1>3. ASSUME NEW u \in User, ReadRetention(u) PROVE Times'
  <2>1. CASE retention[u] = Forever
    <3>1. pruner.left \ {u} \in SUBSET User
      BY DEF Times, Prunes
    <3>2. QED
      BY <1>3, <2>1, <3>1, GoesOnTimes DEF ReadRetention
  <2>2. CASE retention[u] # Forever
    <3> DEFINE next == [pruner EXCEPT !.pc = "delete", !.user = u, !.days = retention[u], !.saw = retention[u]]
    <3>1. retention[u] \in Days /\ retention[u] \in Nat
      BY <2>2, InboxAssumption DEF Times
    <3>2. next \in Prunes /\ next.now = pruner.now /\ next.days = next.saw
      BY <3>1 DEF Times, Prunes
    <3>3. pruner' = next /\ pruner.pc = "read" /\ UNCHANGED <<clock, retention>>
      BY <1>3, <2>2 DEF ReadRetention
    <3> HIDE DEF next
    <3>4. QED
      BY <3>2, <3>3 DEF Times
  <2>3. QED
    BY <2>1, <2>2
<1>4. CASE KillPrune
  BY <1>4, NoPruneType DEF KillPrune, Times
<1>5. QED
  BY <1>1, <1>2, <1>3, <1>4 DEF Prune

LEMMA TimesStep == ASSUME IInv, [Next]_vars PROVE Times'
<1> USE DEF LeavesInbox, inboxVars, runVars, IInv
<1>1. ASSUME NEW s \in Session,
             RunRequests(s) \/ CheckCooldown(s) \/ Trigger(s) \/ TriggerFails(s) \/ CommitMonitor(s)
      PROVE  UNCHANGED <<clock, retention, pruner>>
  BY <1>1 DEF RunRequests, CreateMonitor, AskRun, CheckCooldown, Trigger, TriggerFails, CommitMonitor
<1>2. ASSUME NEW w \in Worker, Work(w) \/ KillRun(w) PROVE UNCHANGED <<clock, retention, pruner>>
  BY <1>2 DEF Work, StartRun, RunFetch, RunFails, EndRun, KillRun
<1>3. ASSUME InboxNext PROVE UNCHANGED <<clock, retention, pruner>> \/ Times'
  <2>1. ASSUME NEW s \in Session, LeadEnds(s) PROVE UNCHANGED <<clock, retention, pruner>>
    BY <2>1 DEF LeadEnds, SaveLead, DeleteLead, LeadsOnly
  <2>2. ASSUME NEW s \in Session, LeadRequests(s) PROVE UNCHANGED <<clock, retention, pruner>> \/ Times'
    <3>1. ASSUME NEW u \in User, NEW days \in Days, UpdateRetention(s, u, days) PROVE Times'
      BY <3>1 DEF UpdateRetention, Times
    <3>2. QED
      BY <2>2, <3>1 DEF LeadRequests, OpenLead, Dismiss
  <2>3. ASSUME NEW kind \in Kinds, NEW page \in Pages[kind], ScheduledFetch(kind, page)
        PROVE  UNCHANGED <<clock, retention, pruner>>
    BY <2>3 DEF ScheduledFetch
  <2>4. ASSUME PruneItems PROVE UNCHANGED <<clock, retention, pruner>>
    BY <2>4 DEF PruneItems
  <2>5. ASSUME NextPeriod PROVE Times'
    BY <2>5 DEF NextPeriod, Times, Prunes
  <2>6. ASSUME NEW s \in Session, MonitorRequests(s) PROVE UNCHANGED <<clock, retention, pruner>>
    BY <2>6, MonitorRequestsFrame
  <2>7. QED
    BY <1>3, <2>1, <2>2, <2>3, <2>4, <2>5, <2>6, PruneTimes DEF InboxNext
<1>4. CASE UNCHANGED vars
  BY <1>4 DEF vars, Times
<1>5. ASSUME UNCHANGED <<clock, retention, pruner>> PROVE Times'
  BY <1>5 DEF Times
<1>6. QED
  BY <1>1, <1>2, <1>3, <1>4, <1>5 DEF Next

-------------------------------------------------------------------------------
(* Dismissals *)

LEMMA HiddenStep == ASSUME IInv, [Next]_vars PROVE HiddenAreDismissed'
<1> USE DEF LeavesInbox, inboxVars, runVars, IInv, HiddenAreDismissed
<1>1. ASSUME NEW s \in Session,
             RunRequests(s) \/ CheckCooldown(s) \/ Trigger(s) \/ TriggerFails(s) \/ CommitMonitor(s)
      PROVE  UNCHANGED <<dismissed, hidden>>
  BY <1>1 DEF RunRequests, CreateMonitor, AskRun, CheckCooldown, Trigger, TriggerFails, CommitMonitor
<1>2. ASSUME NEW w \in Worker, Work(w) \/ KillRun(w) PROVE UNCHANGED <<dismissed, hidden>>
  BY <1>2 DEF Work, StartRun, RunFetch, RunFails, EndRun, KillRun
<1>3. ASSUME InboxNext PROVE HiddenAreDismissed'
  <2>1. ASSUME NEW s \in Session, LeadRequests(s) \/ LeadEnds(s) PROVE HiddenAreDismissed'
    BY <2>1 DEF LeadRequests, OpenLead, Dismiss, UpdateRetention, LeadEnds, SaveLead, DeleteLead
  <2>2. ASSUME NEW kind \in Kinds, NEW page \in Pages[kind], ScheduledFetch(kind, page)
        PROVE  HiddenAreDismissed'
    BY <2>2 DEF ScheduledFetch
  <2>3. ASSUME StartPrune \/ Prune \/ KillPrune \/ PruneItems \/ NextPeriod PROVE HiddenAreDismissed'
    BY <2>3 DEF StartPrune, Prune, PruneUser, ReadRetention, KillPrune, PruneItems, NextPeriod, PrunesOnly
  <2>4. ASSUME NEW s \in Session, MonitorRequests(s) PROVE HiddenAreDismissed'
    BY <2>4, MonitorRequestsFrame
  <2>5. QED
    BY <1>3, <2>1, <2>2, <2>3, <2>4 DEF InboxNext
<1>4. CASE UNCHANGED vars
  BY <1>4 DEF vars
<1>5. QED
  BY <1>1, <1>2, <1>3, <1>4 DEF Next

-------------------------------------------------------------------------------
(* Requests and the cooldown *)

(* The steps that leave requests and cooldowns alone, with time going on. *)
Quiet ==
  /\ UNCHANGED <<session, cooldown, sent>>
  /\ clock' = clock \/ clock' = clock + 1
  /\ queue' = queue \/ (queue # <<>> /\ queue' = Tail(queue))

(* A session goes back to rest or begins a request on a lead. *)
Rests == \E s \in Session :
  /\ UNCHANGED <<cooldown, sent, clock, queue>>
  /\ \E lead, to : session' = [session EXCEPT ![s] = [Idle EXCEPT !.pc = "lead", !.lead = lead, !.to = to]]
                   \/ session' = [session EXCEPT ![s] = Idle]

Requested(s) ==
  \/ \E m \in Monitor : CreateMonitor(s, m)
  \/ \E u \in User : AskRun(s, u)
  \/ CheckCooldown(s) \/ Trigger(s) \/ TriggerFails(s)

LEMMA RequestSteps ==
  ASSUME [Next]_vars
  PROVE  Quiet \/ Rests \/ \E s \in Session : Requested(s)
<1> USE DEF LeavesInbox, LeavesRequests, inboxVars, runVars
<1>1. ASSUME NEW s \in Session, CommitMonitor(s) \/ (LeadEnds(s) /\ UNCHANGED runVars) PROVE Rests
  <2>1. Ended(s) /\ UNCHANGED <<cooldown, sent, clock, queue>>
    BY <1>1 DEF CommitMonitor, LeadEnds, SaveLead, DeleteLead, LeadsOnly
  <2>2. QED
    BY <2>1 DEF Ended, Rests
<1>2. ASSUME NEW s \in Session, LeadRequests(s), UNCHANGED runVars PROVE Quiet \/ Rests
  <2>1. ASSUME NEW lead \in leads, NEW to \in {"contacted", "new", "deleted"}, OpenLead(s, lead, to)
        PROVE  Rests
    BY <1>2, <2>1 DEF OpenLead, Rests
  <2>2. ASSUME NEW u \in User, (\E i \in Feed(u) : Dismiss(s, u, i)) \/ \E days \in Days : UpdateRetention(s, u, days)
        PROVE  Quiet
    BY <1>2, <2>2 DEF Dismiss, UpdateRetention, Quiet
  <2>3. QED
    BY <1>2, <2>1, <2>2 DEF LeadRequests
<1>3. ASSUME NEW w \in Worker, Work(w) \/ KillRun(w) PROVE Quiet
  <2>1. CASE StartRun(w)
    BY <2>1 DEF StartRun, Quiet
  <2>2. ASSUME NEW page \in Pages["post_stream"], RunFetch(w, page) PROVE Quiet
    BY <2>2 DEF RunFetch, Quiet
  <2>3. CASE RunFails(w) \/ EndRun(w) \/ KillRun(w)
    BY <2>3 DEF RunFails, EndRun, KillRun, Quiet
  <2>4. QED
    BY <1>3, <2>1, <2>2, <2>3 DEF Work
<1>4. ASSUME InboxNext, UNCHANGED runVars PROVE Quiet \/ Rests
  <2>1. ASSUME NEW kind \in Kinds, NEW page \in Pages[kind], ScheduledFetch(kind, page) PROVE Quiet
    BY <1>4, <2>1 DEF ScheduledFetch, Quiet
  <2>2. ASSUME StartPrune \/ Prune \/ KillPrune \/ PruneItems \/ NextPeriod PROVE Quiet
    BY <1>4, <2>2 DEF StartPrune, Prune, PruneUser, ReadRetention, KillPrune, PruneItems, NextPeriod,
                       PrunesOnly, Quiet
  <2>3. ASSUME NEW s \in Session, MonitorRequests(s) PROVE Quiet
    BY <1>4, <2>3, MonitorRequestsFrame DEF Quiet
  <2>4. QED
    BY <1>1, <1>2, <1>4, <2>1, <2>2, <2>3 DEF InboxNext
<1>5. CASE UNCHANGED vars
  BY <1>5 DEF vars, Quiet
<1>6. QED
  BY <1>1, <1>3, <1>4, <1>5 DEF Next, RunRequests, Requested

LEMMA RestsType ==
  ASSUME RequestsAreTyped, CooldownCovers, Rests
  PROVE  RequestsAreTyped' /\ CooldownCovers'
<1>1. PICK s \in Session :
        /\ UNCHANGED <<cooldown, sent, clock, queue>>
        /\ \E lead, to : session' = [session EXCEPT ![s] = [Idle EXCEPT !.pc = "lead", !.lead = lead, !.to = to]]
                         \/ session' = [session EXCEPT ![s] = Idle]
  BY DEF Rests
<1>2. IsRequest(session'[s]) /\ session'[s].pc \notin {"check", "send"}
  <2>1. CASE session' = [session EXCEPT ![s] = Idle]
    BY <2>1 DEF RequestsAreTyped, Idle, IsRequest
  <2>2. ASSUME NEW lead, NEW to,
               session' = [session EXCEPT ![s] = [Idle EXCEPT !.pc = "lead", !.lead = lead, !.to = to]]
        PROVE  IsRequest(session'[s]) /\ session'[s].pc \notin {"check", "send"}
    BY <2>2 DEF RequestsAreTyped, Idle, IsRequest
  <2>3. QED
    BY <1>1, <2>1, <2>2
<1>3. \A r \in Session : r # s => session'[r] = session[r]
  BY <1>1 DEF RequestsAreTyped
<1>4. session' \in [Session -> {session'[r] : r \in Session}]
  BY <1>1 DEF RequestsAreTyped
<1>5. QED
  BY <1>1, <1>2, <1>3, <1>4 DEF RequestsAreTyped, CooldownCovers, IsRequest

LEMMA QuietType ==
  ASSUME RequestsAreTyped, CooldownCovers, Times, Quiet
  PROVE  RequestsAreTyped' /\ CooldownCovers'
<1>1. queue' \in Seq(User)
  BY DEF Quiet, RequestsAreTyped
<1>2. RequestsAreTyped'
  BY <1>1 DEF Quiet, RequestsAreTyped, IsRequest
<1>3. clock' \in Nat /\ clock <= clock'
  BY DEF Quiet, Times
<1>4. \A s \in Session, u \in User : sent[s][u] \in Int
  BY DEF CooldownCovers
<1>5. \A s \in Session, u \in User : sent'[s][u] <= clock' /\ sent'[s][u] + Cooldown <= cooldown'[u]
  BY <1>3, <1>4 DEF Quiet, CooldownCovers, Times
<1>6. ASSUME NEW s \in Session, session'[s].pc = "send" PROVE sent'[s][session'[s].user] + Cooldown <= clock'
  <2>1. session[s].user \in User /\ sent[s][session[s].user] + Cooldown <= clock
    BY <1>6 DEF Quiet, RequestsAreTyped, CooldownCovers
  <2>2. QED
    BY <2>1, <1>3, <1>4, RunNowAssumption DEF Quiet, Times
<1>7. QED
  BY <1>2, <1>5, <1>6 DEF Quiet, CooldownCovers

(* After a step of one request, given what it does to that request. *)
LEMMA RequestType ==
  ASSUME RequestsAreTyped, CooldownCovers, Times, NEW s \in Session, NEW r,
         IsRequest(r), session' = [session EXCEPT ![s] = r],
         r.pc \in {"check", "send"} => r.user \in User,
         r.pc = "send" => cooldown[r.user] <= clock,
         UNCHANGED <<clock, cooldown, sent, queue>>
  PROVE  RequestsAreTyped' /\ CooldownCovers'
<1>1. session'[s] = r /\ \A q \in Session : q # s => session'[q] = session[q]
  BY DEF RequestsAreTyped
<1>2. session' \in [Session -> {session'[q] : q \in Session}]
  BY DEF RequestsAreTyped
<1>3. RequestsAreTyped'
  BY <1>1, <1>2 DEF RequestsAreTyped, IsRequest
<1>4. r.pc = "send" => sent[s][r.user] + Cooldown <= clock
  <2>1. SUFFICES ASSUME r.pc = "send" PROVE sent[s][r.user] + Cooldown <= clock
    OBVIOUS
  <2>2. r.user \in User
    BY <2>1
  <2>3. sent[s][r.user] + Cooldown <= cooldown[r.user] /\ cooldown[r.user] <= clock
    BY <2>1, <2>2 DEF CooldownCovers
  <2>4. sent[s][r.user] \in Int /\ cooldown[r.user] \in Int
    BY <2>2 DEF CooldownCovers
  <2>5. QED
    BY <2>3, <2>4, RunNowAssumption DEF Times
<1>5. \A q \in Session : session'[q].pc = "send" => sent[q][session'[q].user] + Cooldown <= clock
  BY <1>1, <1>4 DEF CooldownCovers
<1>6. QED
  BY <1>3, <1>5 DEF CooldownCovers

LEMMA TriggeredRequest ==
  ASSUME RequestsAreTyped, NEW s \in Session
  PROVE  IsRequest(Triggered(s)) /\ Triggered(s).pc \notin {"check", "send"}
<1>1. IsRequest(session[s])
  BY DEF RequestsAreTyped
<1>2. IsRequest([session[s] EXCEPT !.pc = "commit"])
  BY <1>1 DEF IsRequest
<1>3. [session[s] EXCEPT !.pc = "commit"].pc = "commit"
  BY <1>1 DEF IsRequest
<1>4. QED
  BY <1>2, <1>3 DEF Triggered, Idle, IsRequest

(* A fetch is sent or refused by the broker: the cooldown starts anew. *)
LEMMA TriggerType ==
  ASSUME RequestsAreTyped, CooldownCovers, Times, NEW s \in Session,
         Trigger(s) \/ TriggerFails(s)
  PROVE  RequestsAreTyped' /\ CooldownCovers'
<1> DEFINE u == session[s].user
<1>1. /\ session[s].pc = "send" /\ clock' = clock /\ u \in User
      /\ cooldown' = [cooldown EXCEPT ![u] = clock + Cooldown]
      /\ sent' = sent \/ sent' = [sent EXCEPT ![s][u] = clock]
      /\ queue' = queue \/ queue' = Append(queue, u)
  BY DEF Trigger, TriggerFails, LeavesInbox, RequestsAreTyped
<1>2. PICK r : session' = [session EXCEPT ![s] = r] /\ IsRequest(r) /\ r.pc \notin {"check", "send"}
  <2>1. IsRequest(Idle) /\ Idle.pc \notin {"check", "send"}
    BY DEF IsRequest, Idle
  <2>2. QED
    BY <2>1, TriggeredRequest DEF Trigger, TriggerFails, Ended
<1> HIDE DEF u
<1>3. session'[s] = r /\ \A q \in Session : q # s => session'[q] = session[q]
  BY <1>2 DEF RequestsAreTyped
<1>4. RequestsAreTyped'
  <2>1. session' \in [Session -> {session'[q] : q \in Session}]
    BY <1>2 DEF RequestsAreTyped
  <2>2. queue' \in Seq(User)
    BY <1>1 DEF RequestsAreTyped
  <2>3. QED
    BY <1>2, <1>3, <2>1, <2>2 DEF RequestsAreTyped, IsRequest
<1>5. clock \in Nat /\ Cooldown \in Nat /\ clock + Cooldown \in Int
  BY RunNowAssumption DEF Times
<1>6. cooldown' \in [User -> Int] /\ sent' \in [Session -> [User -> Int]]
  <2>0. sent[s] \in [User -> Int] /\ clock \in Int
    BY <1>5 DEF CooldownCovers
  <2>1. [sent[s] EXCEPT ![u] = clock] \in [User -> Int]
    BY <2>0, Zenon
  <2>2. cooldown' \in [User -> Int]
    BY <1>1, <1>5 DEF CooldownCovers
  <2>3. CASE sent' = [sent EXCEPT ![s][u] = clock]
    <3>1. sent' = [sent EXCEPT ![s] = [sent[s] EXCEPT ![u] = clock]]
      BY <2>3 DEF CooldownCovers
    <3>2. QED
      BY <2>1, <2>2, <3>1 DEF CooldownCovers
  <2>4. QED
    BY <1>1, <2>2, <2>3 DEF CooldownCovers
<1>7. \A q \in Session, v \in User : sent'[q][v] = sent[q][v] \/ (q = s /\ v = u /\ sent'[q][v] = clock)
  BY <1>1 DEF CooldownCovers
<1>8. ASSUME NEW q \in Session, NEW v \in User
      PROVE  sent'[q][v] <= clock' /\ sent'[q][v] + Cooldown <= cooldown'[v]
  <2>1. sent[q][v] \in Int /\ cooldown[v] \in Int /\ sent[q][v] <= clock /\ sent[q][v] + Cooldown <= cooldown[v]
    BY DEF CooldownCovers
  <2>2. cooldown'[v] = IF v = u THEN clock + Cooldown ELSE cooldown[v]
    BY <1>1 DEF CooldownCovers
  <2>3. QED
    BY <1>1, <1>5, <1>7, <2>1, <2>2
<1>9. ASSUME NEW q \in Session, session'[q].pc = "send" PROVE sent'[q][session'[q].user] + Cooldown <= clock'
  <2>1. q # s /\ session'[q] = session[q]
    BY <1>2, <1>3, <1>9
  <2>2. session[q].user \in User /\ sent[q][session[q].user] + Cooldown <= clock
    BY <1>9, <2>1 DEF RequestsAreTyped, CooldownCovers
  <2>3. QED
    BY <1>1, <1>7, <2>1, <2>2
<1>10. QED
  BY <1>4, <1>6, <1>8, <1>9 DEF CooldownCovers

LEMMA RequestedType ==
  ASSUME RequestsAreTyped, CooldownCovers, Times, NEW s \in Session, Requested(s)
  PROVE  RequestsAreTyped' /\ CooldownCovers'
<1>1. ASSUME NEW m \in Monitor, CreateMonitor(s, m) PROVE RequestsAreTyped' /\ CooldownCovers'
  <2> DEFINE r == [Idle EXCEPT !.pc = "check", !.user = Owner[m], !.monitor = m]
  <2>1. /\ session' = [session EXCEPT ![s] = r] /\ UNCHANGED <<clock, cooldown, sent, queue>>
    BY <1>1 DEF CreateMonitor, LeavesInbox, runVars
  <2>2. IsRequest(r) /\ r.pc = "check" /\ r.user = Owner[m]
    BY DEF Idle, IsRequest
  <2>3. Owner[m] \in User
    BY InboxAssumption
  <2> HIDE DEF r
  <2>4. QED
    BY <2>1, <2>2, <2>3, RequestType
<1>2. ASSUME NEW u \in User, AskRun(s, u) PROVE RequestsAreTyped' /\ CooldownCovers'
  <2> DEFINE r == IF Ready(u) THEN [Idle EXCEPT !.pc = "send", !.user = u] ELSE session[s]
  <2>1. session' = [session EXCEPT ![s] = r] /\ UNCHANGED <<clock, cooldown, sent, queue>>
    BY <1>2 DEF AskRun, LeavesInbox, runVars, RequestsAreTyped
  <2>2. IsRequest(r)
    BY DEF Idle, IsRequest, RequestsAreTyped
  <2>3. (r.pc = "send" /\ r.user = u /\ cooldown[u] <= clock) \/ (r = Idle /\ Idle.pc = "idle")
    BY <1>2 DEF AskRun, Begin, Ready, Idle
  <2> HIDE DEF r
  <2>4. QED
    BY <2>1, <2>2, <2>3, RequestType
<1>3. ASSUME CheckCooldown(s) PROVE RequestsAreTyped' /\ CooldownCovers'
  <2> DEFINE pc == IF Ready(session[s].user) THEN "send" ELSE "commit"
             r == [session[s] EXCEPT !.pc = pc]
  <2>1. session' = [session EXCEPT ![s] = r] /\ UNCHANGED <<clock, cooldown, sent, queue>>
    BY <1>3 DEF CheckCooldown, LeavesInbox, runVars, RequestsAreTyped
  <2>2. IsRequest(session[s])
    BY DEF RequestsAreTyped
  <2>3. IsRequest(r) /\ r.pc = pc /\ r.user = session[s].user
    BY <2>2 DEF IsRequest
  <2>4. session[s].user \in User
    BY <1>3 DEF CheckCooldown, RequestsAreTyped
  <2>5. pc \in {"send", "commit"} /\ (pc = "send" => cooldown[session[s].user] <= clock)
    BY DEF Ready
  <2> HIDE DEF r, pc
  <2>6. QED
    BY <2>1, <2>3, <2>4, <2>5, RequestType
<1>4. QED
  BY <1>1, <1>2, <1>3, TriggerType DEF Requested

-------------------------------------------------------------------------------
LEMMA NextInv == IInv /\ [Next]_vars => IInv'
<1> SUFFICES ASSUME IInv, [Next]_vars PROVE IInv'
  OBVIOUS
<1>1. Times' /\ KeysOnce' /\ HiddenAreDismissed'
  BY TimesStep, KeysStep, HiddenStep
<1>2. RequestsAreTyped' /\ CooldownCovers'
  BY RequestSteps, QuietType, RestsType, RequestedType DEF IInv
<1>3. QED
  BY <1>1, <1>2 DEF IInv

(* The invariant on which everything below rests: keys are given out once, hidden
   items are dismissed, and a cooldown covers what was sent. *)
THEOREM Invariance == Spec => []IInv
BY InitInv, NextInv, PTL DEF Spec

(* What a user deleted or dismissed never comes back to the feed, whatever is pruned,
   fetched and matched anew (views.py 123-129). *)
THEOREM HiddenItemsStayHidden == Spec => []HiddenStaysHidden
<1>1. IInv => HiddenStaysHidden
  BY DEF IInv, HiddenAreDismissed, HiddenStaysHidden, Feed
<1>2. QED
  BY <1>1, Invariance, PTL

(* A lead that is gone never reappears by a request that read it before
   (views.py 97-129). *)
THEOREM GoneLeadsStayGone == Spec => LeadsDoNotReturn
<1>1. ASSUME IInv, [Next]_vars, NEW x \in leads'
      PROVE  x.id \in Ids \/ x.id > lastLead
  <2> USE <1>1 DEF IInv, Ids
  <2>1. CASE UNCHANGED <<leads, lastLead>>
    BY <2>1
  <2>2. CASE Fetches
    BY <2>2, IngestKeys DEF Fetches, Times
  <2>3. CASE Saves
    BY <2>3, SaveKeys DEF Saves
  <2>4. CASE Deletes \/ Removes \/ Updates \/ PruneUser
    BY <2>4 DEF Deletes, Removes, Updates, DeleteLead, DeleteMonitors, UpdateRetention, PruneUser, Kept
  <2>5. QED
    BY <2>1, <2>2, <2>3, <2>4, LeadSteps
<1>2. IInv /\ [Next]_vars => [\A x \in leads' : x.id \in Ids \/ x.id > lastLead]_inboxVars
  BY <1>1
<1>3. QED
  BY <1>2, Invariance, PTL DEF Spec, LeadsDoNotReturn

(* A lead changes its status only when a request on that lead says so (views.py
   97-121, save(update_fields)). *)
THEOREM StatusesFollowRequests == Spec => StatusFollowsRequests
<1> DEFINE AsksFor(x, y) == \E s \in Session : session[s].lead.id = x.id /\ session[s].to = y.status
                                          /\ session'[s] = Idle
<1>1. ASSUME IInv, [Next]_vars, NEW x \in leads, NEW y \in leads', x.id = y.id, x # y
      PROVE  AsksFor(x, y)
  <2> USE <1>1
  <2>1. \A z \in leads : z.id = x.id => z = x
    BY DEF IInv, KeysOnce
  <2>2. y \notin leads
    BY <1>1, <2>1
  <2>3. x.id \in 1..lastLead /\ lastLead \in Nat
    BY DEF IInv, KeysOnce
  <2>4. ~Fetches
    BY <1>1, <2>2, <2>3, IngestKeys DEF Fetches, IInv, Times
  <2>5. ~UNCHANGED <<leads, lastLead>> /\ ~Deletes /\ ~Removes /\ ~Updates /\ ~PruneUser
    BY <2>2 DEF Deletes, Removes, Updates, DeleteLead, DeleteMonitors, UpdateRetention, PruneUser, Kept
  <2>6. PICK s \in Session : SaveLead(s)
    BY <1>1, <2>4, <2>5, LeadSteps DEF Saves
  <2>7. PICK z \in leads : y.id = z.id /\ (y = z \/ (z.id = session[s].lead.id /\ y.status = session[s].to))
    BY <2>6, SaveKeys DEF IInv
  <2>8. z = x
    BY <1>1, <2>1, <2>7
  <2>9. session'[s] = Idle
    BY <2>6 DEF SaveLead, Ended, IInv, RequestsAreTyped
  <2>10. QED
    BY <1>1, <2>7, <2>8, <2>9
<1> HIDE DEF AsksFor
<1>2. IInv /\ [Next]_vars =>
        [\A x \in leads, y \in leads' : x.id = y.id /\ x # y => AsksFor(x, y)]_inboxVars
  BY <1>1
<1>3. QED
  BY <1>2, Invariance, PTL DEF Spec, StatusFollowsRequests, AsksFor

(* A lead is lost only when its user deletes it or its monitor (models.py 69) or its
   retention is over; a prune that read an older choice goes by that one (querysets.py,
   prune_expired_for_user). *)
THEOREM LeadsKept == Spec => LeadsAreKept
<1> DEFINE Lost(x) ==
      LET u == Owner[x.monitor]
      IN \/ Expired(x, retention'[u], clock)
         \/ x.monitor \in monitors \ monitors'
         \/ \E s \in Session : session[s].lead.id = x.id /\ session[s].to = "deleted"
         \/ /\ pruner.pc = "delete" /\ pruner.user = u
            /\ pruner.saw # retention[u] /\ Expired(x, pruner.saw, clock)
<1>1. ASSUME IInv, [Next]_vars, NEW x \in leads, x.id \notin {y.id : y \in leads'}
      PROVE  Lost(x)
  <2> USE <1>1
  <2>1. \A y \in leads' : y.id # x.id
    BY <1>1
  <2>2. ~UNCHANGED <<leads, lastLead>>
    BY <2>1
  <2>3. ~Fetches
    BY <2>1, IngestKeys DEF Fetches, IInv, Times
  <2>4. ~Saves
    BY <2>1, SaveKeys DEF Saves, IInv
  <2>5. CASE Deletes
    BY <2>1, <2>5 DEF Deletes, DeleteLead
  <2>6. CASE Updates
    <3>1. PICK s \in Session, u \in User, days \in Days : UpdateRetention(s, u, days)
      BY <2>6 DEF Updates
    <3>2. Owner[x.monitor] = u /\ Expired(x, days, clock)
      BY <2>1, <3>1 DEF UpdateRetention, Kept
    <3>3. retention'[u] = days
      BY <3>1 DEF UpdateRetention, IInv, Times
    <3>4. QED
      BY <3>2, <3>3
  <2>7. CASE PruneUser
    <3>1. /\ pruner.pc = "delete" /\ Owner[x.monitor] = pruner.user
          /\ Expired(x, pruner.days, pruner.now) /\ retention' = retention
      BY <2>1, <2>7 DEF PruneUser, Kept, PrunesOnly
    <3>2. Expired(x, pruner.saw, clock)
      <4>1. /\ x.made \in Nat /\ clock \in Nat /\ pruner.now \in Nat /\ pruner.now <= clock
            /\ pruner.days = pruner.saw /\ pruner.days \in Nat
        BY <3>1 DEF IInv, Times, Prunes, KeysOnce
      <4>2. pruner.saw # Forever /\ x.made < pruner.now - pruner.saw
        BY <3>1, <4>1 DEF Expired
      <4>3. x.made < clock - pruner.saw
        BY <4>1, <4>2
      <4>4. QED
        BY <4>2, <4>3 DEF Expired
    <3>3. QED
      BY <3>1, <3>2
  <2>8. CASE Removes
    <3>1. PICK s \in Session, gone \in SUBSET monitors : DeleteMonitors(s, gone)
      BY <2>8 DEF Removes
    <3>2. QED
      BY <2>1, <3>1 DEF DeleteMonitors
  <2>9. QED
    BY <1>1, <2>2, <2>3, <2>4, <2>5, <2>6, <2>7, <2>8, LeadSteps
<1> HIDE DEF Lost
<1>2. IInv /\ [Next]_vars =>
        [\A x \in leads : x.id \notin {y.id : y \in leads'} => Lost(x)]_inboxVars
  BY <1>1
<1>3. QED
  BY <1>2, Invariance, PTL DEF Spec, LeadsAreKept, Lost

(* Each session sends a user's fetches at least a cooldown apart: only requests that
   overlap get more (views.py 382-405). *)
THEOREM CooldownsHold == Spec => CooldownHolds
<1>1. ASSUME IInv, [Next]_vars, NEW s \in Session, NEW u \in User,
             session[s].user = u, session'[s] # session[s], Len(queue') > Len(queue)
      PROVE  sent[s][u] + Cooldown <= clock
  <2> USE <1>1
  <2>1. queue \in Seq(User)
    BY <1>1 DEF IInv, RequestsAreTyped
  <2>2. queue' # queue /\ (queue # <<>> => queue' # Tail(queue))
    <3>1. Len(queue) \in Nat /\ (queue # <<>> => Len(Tail(queue)) = Len(queue) - 1)
      BY <2>1
    <3>2. QED
      BY <1>1, <3>1
  <2>3. ~Quiet /\ ~Rests
    BY <2>2 DEF Quiet, Rests
  <2>4. PICK q \in Session : Requested(q)
    BY <2>3, RequestSteps
  <2>5. Trigger(q)
    BY <2>2, <2>4 DEF Requested, CreateMonitor, AskRun, CheckCooldown, TriggerFails, runVars
  <2>6. q = s
    BY <2>5 DEF Trigger, IInv, RequestsAreTyped
  <2>7. QED
    BY <2>5, <2>6 DEF Trigger, IInv, CooldownCovers
<1>2. IInv /\ [Next]_vars =>
        [\A s \in Session, u \in User :
           session[s].user = u /\ session'[s] # session[s] /\ Len(queue') > Len(queue) =>
             sent[s][u] + Cooldown <= clock]_vars
  BY <1>1
<1>3. QED
  BY <1>2, Invariance, PTL DEF Spec, CooldownHolds

-------------------------------------------------------------------------------
(* What a fetch evaluates *)

Contents(page) == {x.content : x \in Range(page)}

LEMMA PageType ==
  ASSUME NEW kind \in Kinds, NEW page \in Pages[kind]
  PROVE  /\ page \in Seq(Range(page))
         /\ \A x \in Range(page) : x.item \in Item /\ x.content \in Contents(page)
BY InboxAssumption DEF Contents

LEMMA OpenRequestsType ==
  ASSUME NEW kind \in Kinds, NEW page \in Pages[kind]
  PROVE  OpenRequests(kind, page) \in Seq(RequestOf(Contents(page)))
<1> DEFINE P == Range(page)
           R == RequestOf(Contents(page))
           built == BuildRequests(kind, active, Fresh(page))
           taken == {Pair(x) : x \in leads}
<1>1. page \in Seq(P) /\ \A x \in P : x.item \in Item /\ x.content \in Contents(page)
  BY PageType
<1> HIDE DEF P
<1>2. Fresh(page) \in Seq(P)
  <2> DEFINE parts == [k \in DOMAIN page |->
               IF page[k].item \notin DOMAIN items \/ items[page[k].item].content # page[k].content
               THEN <<page[k]>> ELSE <<>>]
  <2>1. Fresh(page) = FlattenSeq(parts)
    BY DEF Fresh, Filtered
  <2>2. \A k \in DOMAIN page : parts[k] \in Seq(P)
    BY <1>1
  <2>3. parts \in [1..Len(page) -> Seq(P)] /\ Len(page) \in Nat
    BY <1>1, <2>2
  <2> HIDE DEF parts
  <2>4. parts \in Seq(Seq(P))
    BY <2>3, SeqDef
  <2>5. QED
    BY <2>1, <2>4, FlattenType
<1>3. built \in Seq(R)
  BY <1>1, <1>2, BuildType
<1> HIDE DEF built, R
<1> DEFINE rest == [k \in DOMAIN built |-> IF Pair(built[k]) \notin taken THEN <<built[k]>> ELSE <<>>]
<1>4. OpenRequests(kind, page) = FlattenSeq(rest)
  BY DEF OpenRequests, Filtered, built
<1>5. rest \in [1..Len(built) -> Seq(R)] /\ Len(built) \in Nat
  <2>1. \A k \in DOMAIN built : rest[k] \in Seq(R)
    BY <1>3
  <2>2. QED
    BY <1>3, <2>1
<1> HIDE DEF rest
<1>6. rest \in Seq(Seq(R))
  BY <1>5, SeqDef
<1>7. QED
  BY <1>4, <1>6, FlattenType DEF R

(* Whatever is cached and matched already, the semantic budget of a fetch is spent in
   the order of the page, failures included, and whoever is left out is reported
   (matching.py 244-273, 285-324). *)
THEOREM BudgetSpentInOrder == Spec => []BudgetIsSpentInOrder
<1>1. BudgetIsSpentInOrder
  <2> SUFFICES ASSUME NEW kind \in Kinds, NEW page \in Pages[kind],
                      NEW answers \in AnswersFor(OpenRequests(kind, page))
               PROVE  /\ Evaluate(OpenRequests(kind, page), answers).calls <= MaxCalls
                      /\ FirstComeFirstServed(OpenRequests(kind, page), answers)
    BY DEF BudgetIsSpentInOrder
  <2> QED
    BY OpenRequestsType, BudgetIsKept
<1>2. QED
  BY <1>1, PTL

-------------------------------------------------------------------------------
(* Types *)

Sessions == [pc : {"idle", "lead", "check", "send", "commit"}, lead : Lead \cup {NoLead},
             to : {"none", "new", "contacted", "deleted"},
             user : User \cup {"none"}, monitor : Monitor \cup {"none"}]

Pruners == [pc : {"idle", "read", "delete"}, left : SUBSET User, user : User \cup {"none"},
            days : (Days \ {Forever}) \cup {0}, saw : Days \cup {0}, now : 0..MaxClock]

Run == [user : User, status : {"running", "ok", "failed"}, made : 0..MaxLeads]

InboxType ==
  /\ clock \in 0..MaxClock
  /\ DOMAIN items \subseteq Item
  /\ leads \subseteq Lead /\ lastLead \in 0..MaxLeads

UserType ==
  /\ monitors \subseteq Monitor /\ active \subseteq monitors
  /\ dismissed \subseteq User \X Item /\ hidden \subseteq User \X Item
  /\ retention \in [User -> Days]

(* A request that is to commit a monitor has one, and one on a lead has read it. *)
Request(r) ==
  /\ r \in Sessions
  /\ r.pc \in {"check", "commit"} => r.monitor \in Monitor
  /\ r.pc = "lead" => r.lead \in Lead /\ r.to # "none"
  /\ r.pc \in {"check", "send"} => r.user \in User
SessionType == session \in [Session -> Sessions] /\ \A s \in Session : Request(session[s])

PrunerType == pruner \in Pruners

(* A busy worker is in a run that was created. *)
WorkOn(n) == [pc : {"fetch", "ok", "failed"}, run : 1..n, made : 0..MaxLeads]
RunsType ==
  /\ cooldown \in [User -> 0..(MaxClock + Cooldown)]
  /\ queue \in Seq(User)
  /\ runs \in Seq(Run)
  /\ worker \in [Worker -> {NoRun} \cup WorkOn(Len(runs))]
  /\ lost \subseteq 1..Len(runs)

TypeInv == InboxType /\ UserType /\ SessionType /\ PrunerType /\ RunsType

LEMMA NoPruneTyped == NoPrune \in Pruners
BY InboxAssumption DEF NoPrune, Pruners

LEMMA IdleTyped == Request(Idle)
BY DEF Idle, Request, Sessions

LEMMA InitType == Init => TypeInv
<1> SUFFICES ASSUME Init PROVE TypeInv
  OBVIOUS
<1> USE InboxAssumption, RunNowAssumption DEF Init, InboxInit
<1>1. InboxType
  BY DEF InboxType
<1>2. UserType
  BY DEF UserType
<1>3. SessionType
  BY IdleTyped DEF SessionType, Request
<1>4. PrunerType
  BY NoPruneTyped DEF PrunerType
<1>5. RunsType
  <2>1. cooldown \in [User -> 0..(MaxClock + Cooldown)]
    OBVIOUS
  <2>2. queue \in Seq(User) /\ runs \in Seq(Run) /\ lost \subseteq 1..Len(runs)
    OBVIOUS
  <2>3. worker \in [Worker -> {NoRun} \cup WorkOn(Len(runs))]
    OBVIOUS
  <2>4. QED
    BY <2>1, <2>2, <2>3 DEF RunsType
<1>6. QED
  BY <1>1, <1>2, <1>3, <1>4, <1>5 DEF TypeInv

-------------------------------------------------------------------------------
(* What a fetch adds is within the bounds. *)
LEMMA IngestType ==
  ASSUME InboxType, NEW kind \in Kinds, NEW page \in Pages[kind], Ingest(kind, page), clock' = clock
  PROVE  InboxType' /\ lastLead' - lastLead \in 0..MaxLeads
<1> DEFINE rs == OpenRequests(kind, page)
           R == RequestOf(Contents(page))
           pageItems == {page[k].item : k \in DOMAIN page}
<1>1. PICK matched \in {Evaluate(rs, answers).matched : answers \in AnswersFor(rs)} :
        \E n \in 0..(MaxLeads - lastLead) : \E number \in Bijection(matched, 1..n) :
          /\ DOMAIN items' = DOMAIN items \cup pageItems
          /\ leads' = leads \cup NewLeads(matched, number)
          /\ lastLead' = lastLead + n
  BY DEF Ingest
<1>2. PICK n \in 0..(MaxLeads - lastLead) : \E number \in Bijection(matched, 1..n) :
          /\ DOMAIN items' = DOMAIN items \cup pageItems
          /\ leads' = leads \cup NewLeads(matched, number)
          /\ lastLead' = lastLead + n
  BY <1>1
<1>3. PICK number \in Bijection(matched, 1..n) :
          /\ DOMAIN items' = DOMAIN items \cup pageItems
          /\ leads' = leads \cup NewLeads(matched, number)
          /\ lastLead' = lastLead + n
  BY <1>2
<1>4. matched \subseteq R
  <2>1. PICK answers \in AnswersFor(rs) : matched = Evaluate(rs, answers).matched
    BY <1>1
  <2>2. Evaluate(rs, answers) \in Outcome(R)
    BY OpenRequestsType, BudgetIsKept
  <2>3. QED
    BY <2>1, <2>2 DEF Outcome
<1> HIDE DEF rs
<1>5. pageItems \subseteq Item
  BY PageType DEF Range
<1>6. lastLead \in Nat /\ n \in Nat /\ lastLead + n <= MaxLeads /\ MaxLeads \in Nat
  BY InboxAssumption DEF InboxType
<1>7. \A r \in matched : number[r] \in 1..n
  BY DEF Bijection, Injection
<1>8. NewLeads(matched, number) \subseteq Lead
  <2> SUFFICES ASSUME NEW r \in matched
               PROVE  [id |-> lastLead + number[r], monitor |-> r.monitor, item |-> r.item,
                       status |-> "new", made |-> clock] \in Lead
    BY DEF NewLeads
  <2>1. r.monitor \in Monitor /\ r.item \in Item
    BY <1>4 DEF RequestOf
  <2>2. lastLead + number[r] \in 1..MaxLeads
    BY <1>6, <1>7
  <2>3. QED
    BY <2>1, <2>2 DEF Lead, InboxType
<1>9. lastLead' \in 0..MaxLeads /\ lastLead' - lastLead \in 0..MaxLeads
  BY <1>3, <1>6
<1>10. QED
  BY <1>3, <1>5, <1>8, <1>9 DEF InboxType, Lead

LEMMA InboxStep == ASSUME TypeInv, [Next]_vars PROVE InboxType'
<1> USE DEF LeavesInbox, inboxVars, runVars, TypeInv
<1> DEFINE Frame == UNCHANGED <<clock, items, leads, lastLead>>
<1>1. ASSUME Frame PROVE InboxType'
  BY <1>1 DEF InboxType, Lead
<1>2. ASSUME NEW s \in Session,
             RunRequests(s) \/ CheckCooldown(s) \/ Trigger(s) \/ TriggerFails(s) \/ CommitMonitor(s)
      PROVE  Frame
  BY <1>2 DEF RunRequests, CreateMonitor, AskRun, CheckCooldown, Trigger, TriggerFails, CommitMonitor
<1>3. ASSUME NEW w \in Worker, Work(w) \/ KillRun(w) PROVE InboxType'
  <2>1. ASSUME NEW page \in Pages["post_stream"], RunFetch(w, page) PROVE InboxType'
    BY <2>1, IngestType DEF RunFetch, Kinds
  <2>2. ASSUME StartRun(w) \/ RunFails(w) \/ EndRun(w) \/ KillRun(w) PROVE Frame
    BY <2>2 DEF StartRun, RunFails, EndRun, KillRun
  <2>3. QED
    BY <1>1, <1>3, <2>1, <2>2 DEF Work
<1>4. ASSUME NEW s \in Session, LeadRequests(s) PROVE InboxType'
  <2>1. ASSUME NEW lead, NEW to, OpenLead(s, lead, to) PROVE Frame
    BY <2>1 DEF OpenLead
  <2>2. ASSUME NEW u, NEW i, Dismiss(s, u, i) PROVE Frame
    BY <2>2 DEF Dismiss
  <2>3. ASSUME NEW u, NEW days, UpdateRetention(s, u, days) PROVE InboxType'
    BY <2>3 DEF UpdateRetention, Kept, InboxType, Lead
  <2>4. QED
    BY <1>1, <1>4, <2>1, <2>2, <2>3 DEF LeadRequests
<1>5. ASSUME NEW s \in Session, LeadEnds(s) PROVE InboxType'
  <2>1. ASSUME SaveLead(s) PROVE InboxType'
    <3>1. session[s].to \in {"new", "contacted"}
      BY <2>1 DEF SaveLead, SessionType, Request, Sessions
    <3>2. \A x \in leads : [x EXCEPT !.status = session[s].to] \in Lead
      BY <3>1 DEF InboxType, Lead
    <3>3. leads' \subseteq Lead
      BY <2>1, <3>2 DEF SaveLead, InboxType
    <3>4. UNCHANGED <<clock, items, lastLead>>
      BY <2>1 DEF SaveLead, LeadsOnly
    <3>5. QED
      BY <3>3, <3>4 DEF InboxType, Lead
  <2>2. ASSUME DeleteLead(s) PROVE InboxType'
    BY <2>2 DEF DeleteLead, LeadsOnly, InboxType, Lead
  <2>3. QED
    BY <1>5, <2>1, <2>2 DEF LeadEnds
<1>6. ASSUME NEW kind \in Kinds, NEW page \in Pages[kind], ScheduledFetch(kind, page) PROVE InboxType'
  BY <1>6, IngestType DEF ScheduledFetch
<1>7. ASSUME StartPrune \/ Prune \/ KillPrune PROVE InboxType'
  <2>1. CASE PruneUser
    BY <2>1 DEF PruneUser, Kept, PrunesOnly, InboxType, Lead
  <2>2. CASE StartPrune \/ KillPrune \/ \E u \in User : ReadRetention(u)
    <3>1. Frame
      BY <2>2 DEF StartPrune, KillPrune, ReadRetention, PrunesOnly
    <3>2. QED
      BY <1>1, <3>1
  <2>3. QED
    BY <1>7, <2>1, <2>2 DEF Prune
<1>8. ASSUME PruneItems PROVE InboxType'
  BY <1>8 DEF PruneItems, InboxType, Lead
<1>9. ASSUME NextPeriod PROVE InboxType'
  BY <1>9, InboxAssumption DEF NextPeriod, InboxType, Lead
<1>10. ASSUME NEW s \in Session, MonitorRequests(s) PROVE InboxType'
  <2>1. leads' \subseteq leads
    BY <1>10 DEF MonitorRequests, DeleteMonitors, PauseMonitor, ToggleGroup
  <2>2. QED
    BY <1>10, <2>1, MonitorRequestsFrame DEF InboxType, Lead
<1>11. CASE InboxNext
  BY <1>4, <1>5, <1>6, <1>7, <1>8, <1>9, <1>10, <1>11 DEF InboxNext
<1>12. CASE UNCHANGED vars
  BY <1>1, <1>12 DEF vars
<1>13. QED
  BY <1>1, <1>2, <1>3, <1>11, <1>12 DEF Next

LEMMA UserStep == ASSUME TypeInv, [Next]_vars PROVE UserType'
<1> USE DEF LeavesInbox, inboxVars, runVars, TypeInv
<1> DEFINE Frame == UNCHANGED <<monitors, active, dismissed, hidden, retention>>
<1>1. ASSUME Frame PROVE UserType'
  BY <1>1 DEF UserType
<1>2. ASSUME NEW s \in Session,
             RunRequests(s) \/ CheckCooldown(s) \/ Trigger(s) \/ TriggerFails(s)
      PROVE  Frame
  BY <1>2 DEF RunRequests, CreateMonitor, AskRun, CheckCooldown, Trigger, TriggerFails
<1>3. ASSUME NEW s \in Session, CommitMonitor(s) PROVE UserType'
  BY <1>3 DEF CommitMonitor, UserType, SessionType, Request
<1>4. ASSUME NEW w \in Worker, Work(w) \/ KillRun(w) PROVE Frame
  BY <1>4 DEF Work, StartRun, RunFetch, RunFails, EndRun, KillRun, LeavesRequests
<1>5. ASSUME NEW s \in Session, LeadRequests(s) PROVE UserType'
  <2>1. ASSUME NEW lead, NEW to, OpenLead(s, lead, to) PROVE Frame
    BY <2>1 DEF OpenLead
  <2>2. ASSUME NEW u \in User, NEW i \in Feed(u), Dismiss(s, u, i) PROVE UserType'
    <3>1. i \in Item
      BY DEF Feed, InboxType, Lead
    <3>2. QED
      BY <2>2, <3>1 DEF Dismiss, UserType
  <2>3. ASSUME NEW u \in User, NEW days \in Days, UpdateRetention(s, u, days) PROVE UserType'
    BY <2>3 DEF UpdateRetention, UserType
  <2>4. QED
    BY <1>1, <1>5, <2>1, <2>2, <2>3 DEF LeadRequests
<1>6. ASSUME NEW s \in Session, LeadEnds(s) PROVE UserType'
  <2>1. ASSUME DeleteLead(s) PROVE UserType'
    <3>1. session[s].lead \in Lead
      BY <2>1 DEF DeleteLead, SessionType, Request
    <3>2. <<Owner[session[s].lead.monitor], session[s].lead.item>> \in User \X Item
      BY <3>1, InboxAssumption DEF Lead
    <3>3. QED
      BY <2>1, <3>2 DEF DeleteLead, LeadsOnly, UserType
  <2>2. ASSUME SaveLead(s) PROVE Frame
    BY <2>2 DEF SaveLead, LeadsOnly
  <2>3. QED
    BY <1>1, <1>6, <2>1, <2>2 DEF LeadEnds
<1>7. ASSUME NEW kind \in Kinds, NEW page \in Pages[kind], ScheduledFetch(kind, page) PROVE Frame
  BY <1>7 DEF ScheduledFetch
<1>8. ASSUME StartPrune \/ Prune \/ KillPrune \/ PruneItems \/ NextPeriod PROVE Frame
  BY <1>8 DEF StartPrune, Prune, PruneUser, ReadRetention, KillPrune, PruneItems, NextPeriod, PrunesOnly
<1>9. ASSUME NEW s \in Session, MonitorRequests(s) PROVE UserType'
  <2>1. monitors' \subseteq Monitor /\ active' \subseteq monitors'
    <3>1. ASSUME NEW gone, DeleteMonitors(s, gone) PROVE monitors' \subseteq Monitor /\ active' \subseteq monitors'
      BY <3>1 DEF DeleteMonitors, UserType
    <3>2. ASSUME NEW m, PauseMonitor(s, m) PROVE monitors' \subseteq Monitor /\ active' \subseteq monitors'
      BY <3>2 DEF PauseMonitor, UserType
    <3>3. ASSUME NEW u, ToggleGroup(s, u) PROVE monitors' \subseteq Monitor /\ active' \subseteq monitors'
      BY <3>3 DEF ToggleGroup, MonitorsOf, UserType
    <3>4. QED
      BY <1>9, <3>1, <3>2, <3>3 DEF MonitorRequests
  <2>2. QED
    BY <1>9, <2>1, MonitorRequestsFrame DEF UserType
<1>10. CASE InboxNext
  BY <1>1, <1>5, <1>6, <1>7, <1>8, <1>9, <1>10 DEF InboxNext
<1>11. CASE UNCHANGED vars
  BY <1>1, <1>11 DEF vars
<1>12. QED
  BY <1>1, <1>2, <1>3, <1>4, <1>10, <1>11 DEF Next

(* After a step of one request, given what it makes of it. *)
LEMMA OneSession ==
  ASSUME SessionType, NEW s \in Session, NEW r, Request(r), session' = [session EXCEPT ![s] = r]
  PROVE  SessionType'
<1>1. \A q \in Session : session'[q] = IF q = s THEN r ELSE session[q]
  BY DEF SessionType
<1>2. \A q \in Session : Request(session'[q])
  BY <1>1 DEF SessionType
<1>3. r \in Sessions
  BY DEF Request
<1>4. session' \in [Session -> Sessions]
  BY <1>3 DEF SessionType
<1>5. SessionType' <=> session' \in [Session -> Sessions] /\ \A q \in Session : Request(session'[q])
  BY DEF SessionType, Request, Sessions, Lead
<1>6. QED
  BY <1>2, <1>4, <1>5

LEMMA SessionStep == ASSUME TypeInv, [Next]_vars PROVE SessionType'
<1> USE DEF inboxVars, runVars, TypeInv
<1>1. ASSUME UNCHANGED session PROVE SessionType'
  BY <1>1 DEF SessionType, Request, Sessions, Lead
<1>2. ASSUME NEW s \in Session, Ended(s) PROVE SessionType'
  BY <1>2, IdleTyped, OneSession DEF Ended
<1>3. ASSUME NEW s \in Session, RunRequests(s) PROVE SessionType'
  <2>1. ASSUME NEW m \in Monitor, CreateMonitor(s, m) PROVE SessionType'
    <3> DEFINE r == [Idle EXCEPT !.pc = "check", !.user = Owner[m], !.monitor = m]
    <3>1. Request(r)
      BY InboxAssumption DEF Idle, Request, Sessions
    <3>2. session' = [session EXCEPT ![s] = r]
      BY <2>1 DEF CreateMonitor
    <3> HIDE DEF r
    <3>3. QED
      BY <3>1, <3>2, OneSession
  <2>2. ASSUME NEW u \in User, AskRun(s, u) PROVE SessionType'
    <3> DEFINE r == [Idle EXCEPT !.pc = "send", !.user = u]
    <3>1. Request(r)
      BY DEF Idle, Request, Sessions
    <3>2. session' = [session EXCEPT ![s] = r] \/ session' = session
      BY <2>2 DEF AskRun
    <3> HIDE DEF r
    <3>3. QED
      BY <1>1, <3>1, <3>2, OneSession
  <2>3. QED
    BY <1>3, <2>1, <2>2 DEF RunRequests
<1>4. ASSUME NEW s \in Session, CheckCooldown(s) PROVE SessionType'
  <2> DEFINE pc == IF Ready(session[s].user) THEN "send" ELSE "commit"
             r == [session[s] EXCEPT !.pc = pc]
  <2>1. Request(session[s]) /\ session[s].pc = "check" /\ pc \in {"send", "commit"}
    BY <1>4 DEF CheckCooldown, SessionType
  <2> HIDE DEF pc
  <2>2. Request(r)
    BY <2>1 DEF Request, Sessions
  <2>3. session' = [session EXCEPT ![s] = r]
    BY <1>4 DEF CheckCooldown, SessionType, pc
  <2> HIDE DEF r
  <2>4. QED
    BY <2>2, <2>3, OneSession
<1>5. ASSUME NEW s \in Session, Trigger(s) PROVE SessionType'
  <2>1. Request(session[s]) /\ session' = [session EXCEPT ![s] = Triggered(s)]
    BY <1>5 DEF Trigger, SessionType
  <2>2. Request(Triggered(s))
    <3>1. CASE session[s].monitor = Idle.monitor
      BY <3>1, IdleTyped DEF Triggered
    <3>2. CASE session[s].monitor # Idle.monitor
      <4>1. session[s].monitor \in Monitor
        BY <2>1, <3>2 DEF Request, Sessions, Idle
      <4>2. Request([session[s] EXCEPT !.pc = "commit"])
        BY <2>1, <4>1 DEF Request, Sessions
      <4>3. QED
        BY <3>2, <4>2 DEF Triggered
    <3>3. QED
      BY <3>1, <3>2
  <2>3. QED
    BY <2>1, <2>2, OneSession
<1>6. ASSUME NEW s \in Session, TriggerFails(s) \/ CommitMonitor(s) \/ LeadEnds(s) PROVE SessionType'
  <2>1. Ended(s)
    BY <1>6 DEF TriggerFails, CommitMonitor, LeadEnds, SaveLead, DeleteLead
  <2>2. QED
    BY <1>2, <2>1
<1>7. ASSUME NEW w \in Worker, Work(w) \/ KillRun(w) PROVE UNCHANGED session
  BY <1>7 DEF Work, StartRun, RunFetch, RunFails, EndRun, KillRun, LeavesRequests
<1>8. ASSUME NEW s \in Session, LeadRequests(s) PROVE SessionType'
  <2>1. ASSUME NEW lead \in leads, NEW to \in {"contacted", "new", "deleted"}, OpenLead(s, lead, to)
        PROVE  SessionType'
    <3> DEFINE r == [Idle EXCEPT !.pc = "lead", !.lead = lead, !.to = to]
    <3>1. lead \in Lead
      BY DEF InboxType
    <3>2. Request(r)
      BY <3>1 DEF Idle, Request, Sessions
    <3>3. session' = [session EXCEPT ![s] = r]
      BY <2>1 DEF OpenLead
    <3> HIDE DEF r
    <3>4. QED
      BY <3>2, <3>3, OneSession
  <2>2. ASSUME NEW u, NEW i, Dismiss(s, u, i) PROVE UNCHANGED session
    BY <2>2 DEF Dismiss
  <2>3. ASSUME NEW u, NEW days, UpdateRetention(s, u, days) PROVE UNCHANGED session
    BY <2>3 DEF UpdateRetention
  <2>4. QED
    BY <1>1, <1>8, <2>1, <2>2, <2>3 DEF LeadRequests
<1>9. ASSUME NEW kind \in Kinds, NEW page \in Pages[kind], ScheduledFetch(kind, page) PROVE UNCHANGED session
  BY <1>9 DEF ScheduledFetch
<1>10. ASSUME StartPrune \/ Prune \/ KillPrune \/ PruneItems \/ NextPeriod PROVE UNCHANGED session
  BY <1>10 DEF StartPrune, Prune, PruneUser, ReadRetention, KillPrune, PruneItems, NextPeriod, PrunesOnly
<1>11. CASE InboxNext
  BY <1>1, <1>6, <1>8, <1>9, <1>10, <1>11, MonitorRequestsFrame DEF InboxNext
<1>12. CASE UNCHANGED vars
  BY <1>1, <1>12 DEF vars
<1>13. QED
  BY <1>1, <1>3, <1>4, <1>5, <1>6, <1>7, <1>11, <1>12 DEF Next

LEMMA PrunerStep == ASSUME TypeInv, [Next]_vars PROVE PrunerType'
<1> USE DEF LeavesInbox, inboxVars, runVars, TypeInv
<1>1. ASSUME UNCHANGED pruner PROVE PrunerType'
  BY <1>1 DEF PrunerType, Pruners
<1>2. ASSUME NEW next \in Pruners, pruner' = next PROVE PrunerType'
  BY <1>2 DEF PrunerType, Pruners
<1>3. ASSUME NEW left \in SUBSET User, PruneGoesOn(left) PROVE PrunerType'
  <2> DEFINE next == [NoPrune EXCEPT !.pc = "read", !.left = left, !.now = pruner.now]
  <2>1. pruner.now \in 0..MaxClock
    BY DEF PrunerType, Pruners
  <2>2. next \in Pruners
    BY <2>1 DEF NoPrune, Pruners
  <2>3. pruner' = NoPrune \/ pruner' = next
    BY <1>3 DEF PruneGoesOn
  <2> HIDE DEF next
  <2>4. QED
    BY <1>2, <2>2, <2>3, NoPruneTyped
<1>4. ASSUME StartPrune PROVE PrunerType'
  <2> DEFINE next == [NoPrune EXCEPT !.pc = "read", !.left = User, !.now = clock]
  <2>1. next \in Pruners
    BY DEF NoPrune, Pruners, InboxType
  <2>2. pruner' = next
    BY <1>4 DEF StartPrune
  <2> HIDE DEF next
  <2>3. QED
    BY <1>2, <2>1, <2>2
<1>5. ASSUME PruneUser PROVE PrunerType'
  <2>1. pruner.left \ {pruner.user} \in SUBSET User
    BY DEF PrunerType, Pruners
  <2>2. QED
    BY <1>3, <1>5, <2>1 DEF PruneUser
<1>6. ASSUME NEW u \in User, ReadRetention(u) PROVE PrunerType'
  <2>1. CASE retention[u] = Forever
    <3>1. pruner.left \ {u} \in SUBSET User
      BY DEF PrunerType, Pruners
    <3>2. QED
      BY <1>3, <1>6, <2>1, <3>1 DEF ReadRetention
  <2>2. CASE retention[u] # Forever
    <3> DEFINE next == [pruner EXCEPT !.pc = "delete", !.user = u, !.days = retention[u], !.saw = retention[u]]
    <3>1. retention[u] \in Days \ {Forever}
      BY <2>2 DEF UserType
    <3>2. next \in Pruners
      BY <3>1 DEF PrunerType, Pruners
    <3>3. pruner' = next
      BY <1>6, <2>2 DEF ReadRetention
    <3> HIDE DEF next
    <3>4. QED
      BY <1>2, <3>2, <3>3
  <2>3. QED
    BY <2>1, <2>2
<1>7. ASSUME KillPrune PROVE PrunerType'
  BY <1>2, <1>7, NoPruneTyped DEF KillPrune
<1>8. ASSUME NEW s \in Session,
             RunRequests(s) \/ CheckCooldown(s) \/ Trigger(s) \/ TriggerFails(s) \/ CommitMonitor(s)
      PROVE  UNCHANGED pruner
  BY <1>8 DEF RunRequests, CreateMonitor, AskRun, CheckCooldown, Trigger, TriggerFails, CommitMonitor
<1>9. ASSUME NEW w \in Worker, Work(w) \/ KillRun(w) PROVE UNCHANGED pruner
  BY <1>9 DEF Work, StartRun, RunFetch, RunFails, EndRun, KillRun
<1>10. ASSUME NEW s \in Session, LeadRequests(s) \/ LeadEnds(s) PROVE UNCHANGED pruner
  BY <1>10 DEF LeadRequests, OpenLead, Dismiss, UpdateRetention, LeadEnds, SaveLead, DeleteLead, LeadsOnly
<1>11. ASSUME NEW kind \in Kinds, NEW page \in Pages[kind], ScheduledFetch(kind, page) PROVE UNCHANGED pruner
  BY <1>11 DEF ScheduledFetch
<1>12. ASSUME PruneItems \/ NextPeriod PROVE UNCHANGED pruner
  BY <1>12 DEF PruneItems, NextPeriod
<1>13. CASE InboxNext
  BY <1>1, <1>4, <1>5, <1>6, <1>7, <1>10, <1>11, <1>12, <1>13, MonitorRequestsFrame DEF InboxNext, Prune
<1>14. CASE UNCHANGED vars
  BY <1>1, <1>14 DEF vars
<1>15. QED
  BY <1>1, <1>8, <1>9, <1>13, <1>14 DEF Next

LEMMA WorkGrows == \A m, n \in Nat : m <= n => WorkOn(m) \subseteq WorkOn(n)
BY DEF WorkOn

LEMMA RunsStep == ASSUME TypeInv, [Next]_vars PROVE RunsType'
<1> USE DEF LeavesRequests, inboxVars, runVars, TypeInv
<1> DEFINE Frame == UNCHANGED <<cooldown, queue, runs, worker, lost>>
<1>1. ASSUME Frame PROVE RunsType'
  BY <1>1 DEF RunsType, WorkOn
<1>2. ASSUME NEW s \in Session, RunRequests(s) \/ CheckCooldown(s) \/ CommitMonitor(s) PROVE Frame
  BY <1>2 DEF RunRequests, CreateMonitor, AskRun, CheckCooldown, CommitMonitor
<1>3. ASSUME NEW s \in Session, Trigger(s) \/ TriggerFails(s) PROVE RunsType'
  <2>1. session[s].user \in User
    BY <1>3 DEF Trigger, TriggerFails, SessionType, Request
  <2>2. clock + Cooldown \in 0..(MaxClock + Cooldown)
    BY InboxAssumption, RunNowAssumption DEF InboxType
  <2>3. cooldown' \in [User -> 0..(MaxClock + Cooldown)]
    BY <1>3, <2>1, <2>2 DEF Trigger, TriggerFails, RunsType
  <2>4. queue' \in Seq(User)
    <3> DEFINE u == session[s].user
    <3>1. queue' = Append(queue, u) \/ queue' = queue
      BY <1>3 DEF Trigger, TriggerFails
    <3>2. u \in User /\ queue \in Seq(User)
      BY <2>1 DEF RunsType
    <3> HIDE DEF u
    <3>3. QED
      BY <3>1, <3>2
  <2>5. UNCHANGED <<runs, worker, lost>>
    BY <1>3 DEF Trigger, TriggerFails
  <2>6. QED
    BY <2>3, <2>4, <2>5 DEF RunsType, WorkOn
<1>4. Len(runs) \in Nat /\ DOMAIN runs = 1..Len(runs)
  BY DEF RunsType
(* A worker goes on in its run. *)
<1>5. ASSUME NEW w \in Worker, NEW x \in {NoRun} \cup WorkOn(Len(runs)),
             worker' = [worker EXCEPT ![w] = x], UNCHANGED <<cooldown, queue, runs>>,
             lost' \subseteq 1..Len(runs)
      PROVE  RunsType'
  BY <1>5 DEF RunsType, WorkOn
<1>6. ASSUME NEW w \in Worker, worker[w] # NoRun PROVE worker[w] \in WorkOn(Len(runs))
  BY <1>6 DEF RunsType
<1>7. ASSUME NEW w \in Worker, worker[w].pc \in {"fetch", "ok", "failed"} PROVE worker[w] # NoRun
  BY <1>7 DEF NoRun
<1>8. ASSUME NEW w \in Worker, StartRun(w) PROVE RunsType'
  <2> DEFINE new == [NoRun EXCEPT !.pc = "fetch", !.run = Len(runs) + 1]
             run == [user |-> Head(queue), status |-> "running", made |-> 0]
  <2>1. /\ queue # <<>> /\ queue' = Tail(queue) /\ runs' = Append(runs, run)
        /\ worker' = [worker EXCEPT ![w] = new] /\ UNCHANGED <<cooldown, lost>>
    BY <1>8 DEF StartRun
  <2>2. run \in Run
    <3>1. Head(queue) \in User
      BY <2>1 DEF RunsType
    <3>2. QED
      BY <3>1, InboxAssumption DEF Run
  <2> HIDE DEF run
  <2>3. queue' \in Seq(User) /\ runs' \in Seq(Run) /\ Len(runs') = Len(runs) + 1
    BY <2>1, <2>2 DEF RunsType
  <2>4. new \in WorkOn(Len(runs'))
    <3> DEFINE n == Len(runs)
    <3>1. ASSUME NEW m \in Nat PROVE [NoRun EXCEPT !.pc = "fetch", !.run = m + 1] \in WorkOn(m + 1)
      <4>1. 0 \in 0..MaxLeads /\ m + 1 \in 1..(m + 1)
        BY InboxAssumption
      <4>2. NoRun \in [pc : {"idle"}, run : {0}, made : {0}]
        BY DEF NoRun
      <4>3. [NoRun EXCEPT !.pc = "fetch", !.run = m + 1] \in [pc : {"fetch"}, run : {m + 1}, made : {0}]
        BY <4>2
      <4>4. QED
        BY <4>1, <4>3 DEF WorkOn
    <3>2. n \in Nat /\ Len(runs') = n + 1
      BY <1>4, <2>3
    <3>3. QED
      BY <3>1, <3>2
  <2>5. WorkOn(Len(runs)) \subseteq WorkOn(Len(runs'))
    BY <1>4, <2>3, WorkGrows
  <2> HIDE DEF new
  <2>6. worker' \in [Worker -> {NoRun} \cup WorkOn(Len(runs'))]
    BY <2>1, <2>4, <2>5 DEF RunsType
  <2>7. lost' \subseteq 1..Len(runs')
    BY <1>4, <2>1, <2>3 DEF RunsType
  <2>8. cooldown' \in [User -> 0..(MaxClock + Cooldown)]
    BY <2>1 DEF RunsType
  <2>9. QED
    BY <2>3, <2>6, <2>7, <2>8 DEF RunsType, WorkOn, Run, NoRun
<1>9. ASSUME NEW w \in Worker, NEW page \in Pages["post_stream"], RunFetch(w, page) PROVE RunsType'
  <2>1. worker[w] \in WorkOn(Len(runs))
    BY <1>6, <1>7, <1>9 DEF RunFetch
  <2>2. lastLead' - lastLead \in 0..MaxLeads
    BY <1>9, IngestType DEF RunFetch, Kinds
  <2> DEFINE made == lastLead' - lastLead
             good == [worker[w] EXCEPT !.pc = "ok", !.made = made]
             bad == [worker[w] EXCEPT !.pc = "failed"]
  <2> HIDE DEF made
  <2>3. good \in WorkOn(Len(runs)) /\ bad \in WorkOn(Len(runs))
    BY <2>1, <2>2 DEF WorkOn, made
  <2>4. worker' = [worker EXCEPT ![w] = good] \/ worker' = [worker EXCEPT ![w] = bad]
    BY <1>9 DEF RunFetch, RunsType, made
  <2>5. UNCHANGED <<cooldown, queue, runs, lost>> /\ lost \subseteq 1..Len(runs)
    BY <1>9 DEF RunFetch, RunsType
  <2> HIDE DEF good, bad
  <2>6. QED
    BY <1>5, <2>3, <2>4, <2>5
<1>10. ASSUME NEW w \in Worker, RunFails(w) PROVE RunsType'
  <2> DEFINE bad == [worker[w] EXCEPT !.pc = "failed"]
  <2>1. worker[w] \in WorkOn(Len(runs))
    BY <1>6, <1>7, <1>10 DEF RunFails
  <2>2. bad \in WorkOn(Len(runs))
    BY <2>1 DEF WorkOn
  <2>3. worker' = [worker EXCEPT ![w] = bad]
    BY <1>10 DEF RunFails, RunsType
  <2>4. UNCHANGED <<cooldown, queue, runs, lost>> /\ lost \subseteq 1..Len(runs)
    BY <1>10 DEF RunFails, RunsType
  <2> HIDE DEF bad
  <2>5. QED
    BY <1>5, <2>2, <2>3, <2>4
<1>11. ASSUME NEW w \in Worker, EndRun(w) PROVE RunsType'
  <2> DEFINE r == worker[w].run
             run == [runs[r] EXCEPT !.status = worker[w].pc, !.made = worker[w].made]
  <2>1. worker[w] \in WorkOn(Len(runs))
    BY <1>6, <1>7, <1>11 DEF EndRun
  <2>2. /\ r \in 1..Len(runs) /\ worker[w].pc \in {"ok", "failed"} /\ worker[w].made \in 0..MaxLeads
    BY <1>11, <2>1 DEF EndRun, WorkOn
  <2>3. runs[r] \in Run
    BY <2>2 DEF RunsType
  <2>4. run \in Run
    BY <2>2, <2>3 DEF Run
  <2>5. runs' = [runs EXCEPT ![r] = run]
    BY <1>11, <2>2 DEF EndRun, RunsType
  <2> HIDE DEF run, r
  <2>6. runs' \in Seq(Run) /\ Len(runs') = Len(runs)
    BY <2>2, <2>4, <2>5 DEF RunsType
  <2>7. worker' \in [Worker -> {NoRun} \cup WorkOn(Len(runs))]
    BY <1>11 DEF EndRun, RunsType
  <2>8. UNCHANGED <<cooldown, queue, lost>>
    BY <1>11 DEF EndRun
  <2>9. QED
    BY <2>6, <2>7, <2>8 DEF RunsType, WorkOn, Run, NoRun
<1>12. ASSUME NEW w \in Worker, KillRun(w) PROVE RunsType'
  <2>1. worker[w] \in WorkOn(Len(runs))
    BY <1>6, <1>12 DEF KillRun
  <2>2. worker[w].run \in 1..Len(runs)
    BY <2>1 DEF WorkOn
  <2>3. lost' \subseteq 1..Len(runs)
    BY <1>12, <2>2 DEF KillRun, RunsType
  <2>4. UNCHANGED <<cooldown, queue, runs>> /\ worker' = [worker EXCEPT ![w] = NoRun]
    BY <1>12 DEF KillRun
  <2>5. QED
    BY <1>5, <2>3, <2>4
<1>13. CASE InboxNext /\ UNCHANGED runVars
  BY <1>1, <1>13
<1>14. CASE UNCHANGED vars
  BY <1>1, <1>14 DEF vars
<1>15. QED
  BY <1>1, <1>2, <1>3, <1>8, <1>9, <1>10, <1>11, <1>12, <1>13, <1>14 DEF Next, Work

LEMMA NextType == TypeInv /\ [Next]_vars => TypeInv'
BY InboxStep, UserStep, SessionStep, PrunerStep, RunsStep DEF TypeInv

(* Leads are of monitors and of items that were fetched, primary keys and times within
   their bounds, and the log of runs is of the workers' runs: nothing a request, a
   fetch, a prune or a fault does takes a variable out of its type, for any users,
   sessions, workers, monitors, items and pages. *)
THEOREM TypeCorrect == Spec => []TypeOK
<1>1. TypeInv => TypeOK
  <2> SUFFICES ASSUME TypeInv PROVE TypeOK
    OBVIOUS
  <2>1. Len(runs) \in Nat /\ DOMAIN runs = 1..Len(runs)
    BY DEF TypeInv, RunsType
  <2>2. worker \in [Worker -> [pc : {"idle", "fetch", "ok", "failed"}, run : 0..Len(runs), made : 0..MaxLeads]]
    <3> DEFINE All == [pc : {"idle", "fetch", "ok", "failed"}, run : 0..Len(runs), made : 0..MaxLeads]
    <3>1. NoRun \in All /\ WorkOn(Len(runs)) \subseteq All
      BY <2>1, InboxAssumption DEF NoRun, WorkOn
    <3> HIDE DEF All
    <3>2. worker \in [Worker -> All]
      BY <3>1 DEF TypeInv, RunsType
    <3>3. QED
      BY <3>2 DEF All
  <2>3. QED
    BY <2>1, <2>2 DEF TypeInv, TypeOK, InboxType, UserType, SessionType, Sessions, PrunerType, Pruners,
                      RunsType, Run
<1>2. QED
  BY <1>1, InitType, NextType, PTL DEF Spec
===============================================================================
