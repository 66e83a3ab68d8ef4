------------------------------- MODULE LeadInbox -------------------------------
(* tracking/views.py, tracking/querysets.py (MatchQuerySet and below),
   tracking/tasks.py, reddit/models.py (pruning): what users, fetches and prunes do
   to the leads.  Of the requests on monitors those are here that create, delete, pause
   or resume them (monitor_create is in RunNow); adding to a group, editing and the
   cadence, which leave the leads alone, are in MonitorRegistry.

   A request runs in one transaction (ATOMIC_REQUESTS): what it reads is read when
   it begins, what it writes appears when it ends, and a lead it read may be gone
   by then.  A fetch is one step here; Ingestion has its statements.  The
   daily prune reads each user's retention and deletes in two statements that no
   transaction joins.  Time is counted in periods: what is older than n of them was made more than
   n periods ago. *)
EXTENDS Matching

CONSTANTS
  Session, User,
  Owner, Existing,   \* Owner[m]: the user of monitor m; the monitors there are at first
  Forever, Days,     \* the retention choices, and "keep forever" among them
  DefaultDays,       \* DEFAULT_MATCH_RETENTION_DAYS
  ItemRetention,     \* CHATTERSIFT_REDDIT_ITEM_RETENTION_DAYS
  Pages,             \* Pages[kind]: what a fetch of that kind may return, an item once a page
  MaxClock,          \* bound: the last period
  MaxLeads,          \* bound: leads ever made
  MaxEvents          \* bound: requests of users, scheduled fetches and faults, together

Kinds == {"post_search", "post_stream", "comment_stream"}

ASSUME InboxAssumption ==
  /\ Owner \in [Monitor -> User] /\ Existing \subseteq Monitor
  /\ Forever \notin Nat /\ Days \subseteq Nat \cup {Forever}
  /\ \A kind \in Kinds : \A page \in Pages[kind] :
       page \in Seq(Range(page)) /\ \A x \in Range(page) : x.item \in Item
  /\ DefaultDays \in Days /\ ItemRetention \in Nat
  /\ MaxClock \in Nat /\ MaxLeads \in Nat /\ MaxEvents \in Nat

VARIABLES
  clock,      \* the period
  monitors,   \* Monitor: the committed ones
  active,     \* those of them that are not paused
  items,      \* RedditItem: content and fetched_at of the cached ones
  leads,      \* Match
  lastLead,   \* the last primary key given out
  dismissed,  \* MatchDismissal
  hidden,     \* the items each user ever deleted a lead of or dismissed
  retention,  \* MatchRetentionPreference, the default when there is no row
  session,    \* the request each session is in
  pruner,     \* prune_expired_matches
  events      \* how many there were

inboxVars == <<clock, monitors, active, items, leads, lastLead, dismissed, hidden, retention,
               session, pruner, events>>

NoLead == [id |-> 0]

(* A request in progress: the lead it read and what it makes of it, or the user and
   monitor of a fetch it may send. *)
Idle == [pc |-> "idle", lead |-> NoLead, to |-> "none", user |-> "none", monitor |-> "none"]

(* The users to come, the one at hand, the days it goes by, the preference it found
   and the time it started. *)
NoPrune == [pc |-> "idle", left |-> {}, user |-> "none", days |-> 0, saw |-> 0, now |-> 0]

InboxInit ==
  /\ clock = 0
  /\ monitors = Existing /\ active = Existing
  /\ items = [i \in {} |-> NoLead]
  /\ leads = {} /\ lastLead = 0
  /\ dismissed = {} /\ hidden = {}
  /\ retention = [u \in User |-> DefaultDays]
  /\ session = [s \in Session |-> Idle]
  /\ pruner = NoPrune
  /\ events = 0

Event == events < MaxEvents /\ events' = events + 1

-------------------------------------------------------------------------------
(* Fetches *)

Pair(x) == <<x.item, x.monitor>>

(* The items of a page that the cache does not hold with that content. *)
Fresh(page) ==
  Filtered(page, LAMBDA p : p.item \notin DOMAIN items \/ items[p.item].content # p.content)

(* The requests that have no lead yet. *)
OpenRequests(kind, page) ==
  Filtered(BuildRequests(kind, active, Fresh(page)),
           LAMBDA r : Pair(r) \notin {Pair(x) : x \in leads})

(* The answers a model may give to the requests rs; a pair nobody asks about gets "no". *)
AnswersFor(rs) ==
  LET asked == {Pair(rs[k]) : k \in {j \in DOMAIN rs : Semantic(rs[j])}}
  IN {[p \in Item \X Monitor |-> IF p \in asked THEN a[p] ELSE "no"] :
        a \in [asked -> {"yes", "no", "error"}]}

(* The leads of the matched requests, each with a primary key after the last one. *)
NewLeads(matched, number) ==
  {[id |-> lastLead + number[r], monitor |-> r.monitor, item |-> r.item,
    status |-> "new", made |-> clock] : r \in matched}

(* The transaction of a fetch: cache the page, evaluate what changed, keep matches. *)
Ingest(kind, page) ==
  LET rs == OpenRequests(kind, page)
      at(i) == CHOOSE k \in DOMAIN page : page[k].item = i
      pageItems == {page[k].item : k \in DOMAIN page}
  IN \E matched \in {Evaluate(rs, answers).matched : answers \in AnswersFor(rs)},
        n \in 0..(MaxLeads - lastLead) :
     \E number \in Bijection(matched, 1..n) :
       /\ items' = [i \in DOMAIN items \cup pageItems |->
                      IF i \notin pageItems THEN items[i]
                      ELSE [content |-> page[at(i)].content,
                            fetched |-> IF i \in DOMAIN items THEN items[i].fetched ELSE clock]]
       /\ leads' = leads \cup NewLeads(matched, number)
       /\ lastLead' = lastLead + n

(* A feed of the scheduler's tick. *)
ScheduledFetch(kind, page) ==
  /\ Event
  /\ Ingest(kind, page)
  /\ UNCHANGED <<clock, monitors, active, dismissed, hidden, retention, session, pruner>>

-------------------------------------------------------------------------------
(* Requests on leads *)

(* The matches feed of a user: leads of active monitors and undismissed items. *)
Feed(u) ==
  {x.item : x \in {y \in leads : /\ Owner[y.monitor] = u /\ y.monitor \in active
                                  /\ <<u, y.item>> \notin dismissed}}

Begin(s) == session[s] = Idle /\ Event

(* lead_mark_contacted, lead_mark_new and lead_delete read their lead. *)
OpenLead(s, lead, to) ==
  /\ Begin(s)
  /\ session' = [session EXCEPT ![s] = [Idle EXCEPT !.pc = "lead", !.lead = lead, !.to = to]]
  /\ UNCHANGED <<clock, monitors, active, items, leads, lastLead, dismissed, hidden, retention, pruner>>

Ended(s) == session' = [session EXCEPT ![s] = Idle]

(* A request on a lead changes leads, and more when it deletes. *)
LeadsOnly == UNCHANGED <<clock, monitors, active, items, lastLead, retention, pruner, events>>

(* Faulty variants of SaveLead: the whole row is saved, which puts back one that is
   gone; every lead of the item is updated. *)
SaveLeadWhole(s) ==
  LET lead == session[s].lead
  IN /\ session[s].pc = "lead" /\ session[s].to # "deleted"
     /\ leads' = {x \in leads : x.id # lead.id} \cup {[lead EXCEPT !.status = session[s].to]}
     /\ Ended(s)
     /\ LeadsOnly /\ UNCHANGED <<dismissed, hidden>>
SaveLeadOfItem(s) ==
  LET lead == session[s].lead
  IN /\ session[s].pc = "lead" /\ session[s].to # "deleted"
     /\ leads' = {IF x.item = lead.item THEN [x EXCEPT !.status = session[s].to] ELSE x : x \in leads}
     /\ Ended(s)
     /\ LeadsOnly /\ UNCHANGED <<dismissed, hidden>>

(* save(update_fields): the row of that primary key, or an error when it is gone. *)
SaveLead(s) ==
  LET lead == session[s].lead
  IN /\ session[s].pc = "lead" /\ session[s].to # "deleted"
     /\ leads' = {IF x.id = lead.id THEN [x EXCEPT !.status = session[s].to] ELSE x : x \in leads}
     /\ Ended(s)
     /\ LeadsOnly /\ UNCHANGED <<dismissed, hidden>>

(* Faulty variant of DeleteLead: the lead is deleted and nothing else. *)
DeleteLeadOnly(s) ==
  LET lead == session[s].lead
  IN /\ session[s].pc = "lead" /\ session[s].to = "deleted"
     /\ leads' = {x \in leads : x.id # lead.id}
     /\ hidden' = hidden \cup {<<Owner[lead.monitor], lead.item>>}
     /\ Ended(s)
     /\ LeadsOnly /\ UNCHANGED dismissed

(* The lead goes, if it is still there, and its item is dismissed. *)
DeleteLead(s) ==
  LET lead == session[s].lead
  IN /\ session[s].pc = "lead" /\ session[s].to = "deleted"
     /\ leads' = {x \in leads : x.id # lead.id}
     /\ dismissed' = dismissed \cup {<<Owner[lead.monitor], lead.item>>}
     /\ hidden' = hidden \cup {<<Owner[lead.monitor], lead.item>>}
     /\ Ended(s)
     /\ LeadsOnly

(* match_dismiss, from an item of the user's feed. *)
Dismiss(s, u, i) ==
  /\ Begin(s)
  /\ dismissed' = dismissed \cup {<<u, i>>}
  /\ hidden' = hidden \cup {<<u, i>>}
  /\ UNCHANGED <<clock, monitors, active, items, leads, lastLead, retention, session, pruner>>

-------------------------------------------------------------------------------
(* Requests on monitors.  One subreddit stands for all; what they change waits for the
   rows that an open monitor_create has locked. *)

MonitorsOf(u) == {m \in monitors : Owner[m] = u}

Unlocked(ms) == \A s \in Session : session[s].monitor \notin ms

MonitorsOnly == UNCHANGED <<clock, items, lastLead, dismissed, hidden, retention, session, pruner>>

(* monitor_delete and monitor_delete_group: the leads of the monitors go with them. *)
DeleteMonitors(s, gone) ==
  /\ Begin(s)
  /\ gone # {} /\ Unlocked(gone)
  /\ monitors' = monitors \ gone /\ active' = active \ gone
  /\ leads' = {x \in leads : x.monitor \notin gone}
  /\ MonitorsOnly

(* monitor_deactivate *)
PauseMonitor(s, m) ==
  /\ Begin(s)
  /\ m \in active /\ Unlocked({m})
  /\ active' = active \ {m}
  /\ MonitorsOnly /\ UNCHANGED <<monitors, leads>>

(* monitor_toggle_group: all are paused if one of them was active, or else resumed. *)
ToggleGroup(s, u) ==
  /\ Begin(s)
  /\ MonitorsOf(u) # {} /\ Unlocked(MonitorsOf(u))
  /\ active' = IF MonitorsOf(u) \cap active # {} THEN active \ MonitorsOf(u)
               ELSE active \cup MonitorsOf(u)
  /\ MonitorsOnly /\ UNCHANGED <<monitors, leads>>

-------------------------------------------------------------------------------
(* Retention *)

Expired(lead, days, now) == days # Forever /\ lead.made < now - days

Kept(u, days, now) == {x \in leads : ~(Owner[x.monitor] = u /\ Expired(x, days, now))}

(* match_retention_update: the new choice prunes at once. *)
UpdateRetention(s, u, days) ==
  /\ Begin(s)
  /\ retention' = [retention EXCEPT ![u] = days]
  /\ leads' = Kept(u, days, clock)
  /\ UNCHANGED <<clock, monitors, active, items, lastLead, dismissed, hidden, session, pruner>>

PrunesOnly == UNCHANGED <<clock, monitors, active, items, lastLead, dismissed, hidden, retention, session, events>>

(* Beat starts prune_expired_matches; its reference time is the one of its start, and
   without a lead from before that it changes nothing. *)
StartPrune ==
  /\ pruner = NoPrune /\ \E x \in leads : x.made < clock
  /\ pruner' = [NoPrune EXCEPT !.pc = "read", !.left = User, !.now = clock]
  /\ PrunesOnly /\ UNCHANGED leads

(* The next user, or the end of the task. *)
PruneGoesOn(left) ==
  pruner' = IF left = {} THEN NoPrune
            ELSE [NoPrune EXCEPT !.pc = "read", !.left = left, !.now = pruner.now]

(* Faulty variant of ReadRetention: an empty choice is taken for the default. *)
ReadRetentionDefault(u) ==
  /\ pruner.pc = "read" /\ u \in pruner.left
  /\ pruner' = [pruner EXCEPT !.pc = "delete", !.user = u, !.saw = retention[u],
                              !.days = IF retention[u] = Forever THEN DefaultDays ELSE retention[u]]
  /\ PrunesOnly /\ UNCHANGED leads

(* prune_expired_for_user reads the preference ... *)
ReadRetention(u) ==
  /\ pruner.pc = "read" /\ u \in pruner.left
  /\ IF retention[u] = Forever THEN PruneGoesOn(pruner.left \ {u})
     ELSE pruner' = [pruner EXCEPT !.pc = "delete", !.user = u,
                                   !.days = retention[u], !.saw = retention[u]]
  /\ PrunesOnly /\ UNCHANGED leads

(* Faulty variant of PruneUser: only leads that were contacted are pruned. *)
PruneUserContacted ==
  /\ pruner.pc = "delete"
  /\ leads' = Kept(pruner.user, pruner.days, pruner.now) \cup {x \in leads : x.status = "new"}
  /\ PruneGoesOn(pruner.left \ {pruner.user})
  /\ PrunesOnly

(* ... and deletes by what it read. *)
PruneUser ==
  /\ pruner.pc = "delete"
  /\ leads' = Kept(pruner.user, pruner.days, pruner.now)
  /\ PruneGoesOn(pruner.left \ {pruner.user})
  /\ PrunesOnly

(* The task dies; the users it had not come to wait for the next one. *)
KillPrune ==
  /\ pruner # NoPrune
  /\ Event
  /\ pruner' = NoPrune
  /\ UNCHANGED <<clock, monitors, active, items, leads, lastLead, dismissed, hidden, retention, session>>

(* RedditItem.prune_expired: matched or not, by the time an item was first fetched. *)
PruneItems ==
  /\ \E i \in DOMAIN items : items[i].fetched < clock - ItemRetention
  /\ items' = [i \in {j \in DOMAIN items : items[j].fetched >= clock - ItemRetention} |-> items[i]]
  /\ UNCHANGED <<clock, monitors, active, leads, lastLead, dismissed, hidden, retention, session, pruner, events>>

NextPeriod ==
  /\ clock < MaxClock
  /\ clock' = clock + 1
  /\ UNCHANGED <<monitors, active, items, leads, lastLead, dismissed, hidden, retention, session, pruner, events>>

-------------------------------------------------------------------------------
LeadRequests(s) ==
  \/ \E lead \in leads, to \in {"contacted", "new", "deleted"} : OpenLead(s, lead, to)
  \/ \E u \in User : \E i \in Feed(u) : Dismiss(s, u, i)
  \/ \E u \in User, days \in Days : UpdateRetention(s, u, days)

MonitorRequests(s) ==
  \/ \E m \in monitors : DeleteMonitors(s, {m}) \/ PauseMonitor(s, m)
  \/ \E u \in User : DeleteMonitors(s, MonitorsOf(u)) \/ ToggleGroup(s, u)

LeadEnds(s) == SaveLead(s) \/ DeleteLead(s)

Prune == PruneUser \/ \E u \in User : ReadRetention(u)

InboxNext ==
  \/ \E s \in Session : LeadRequests(s) \/ MonitorRequests(s) \/ LeadEnds(s)
  \/ \E kind \in Kinds : \E page \in Pages[kind] : ScheduledFetch(kind, page)
  \/ StartPrune
  \/ Prune
  \/ KillPrune
  \/ PruneItems
  \/ NextPeriod

-------------------------------------------------------------------------------
Ids == {x.id : x \in leads}

(* A user who deleted a lead or dismissed an item never finds the item in the matches
   feed again, although it may be pruned, fetched, edited and matched anew, for
   another monitor or the same. *)
HiddenStaysHidden == \A u \in User : \A i \in Feed(u) : <<u, i>> \notin hidden

(* A lead that is gone does not come back by a request that read it before: what
   appears has a primary key that no lead ever had. *)
LeadsDoNotReturn == [][\A x \in leads' : x.id \in Ids \/ x.id > lastLead]_inboxVars

(* A lead changes only at the request of its user for that very lead. *)
StatusFollowsRequests ==
  [][\A x \in leads, y \in leads' :
       x.id = y.id /\ x # y =>
         \E s \in Session : session[s].lead.id = x.id /\ session[s].to = y.status
                            /\ session'[s] = Idle]_inboxVars

(* A lead disappears before its time only when its user deletes it or its monitor, and
   then none but the leads of the monitors that go; a prune goes by the owner's choice,
   or by the one it read before the owner changed it. *)
LeadsAreKept ==
  [][\A x \in leads :
       LET u == Owner[x.monitor]
       IN x.id \notin {y.id : y \in leads'} =>
            \/ Expired(x, retention'[u], clock)
            \/ x.monitor \in monitors \ monitors'
            \/ \E s \in Session : session[s].lead.id = x.id /\ session[s].to = "deleted"
            \/ /\ pruner.pc = "delete" /\ pruner.user = u
               /\ pruner.saw # retention[u] /\ Expired(x, pruner.saw, clock)]_inboxVars

(* A lead beyond its user's retention is deleted, unless the user chooses a longer one. *)
Overdue(k) == \E x \in leads : x.id = k /\ Expired(x, retention[Owner[x.monitor]], clock)
ExpiredLeadsGo == \A k \in 1..MaxLeads : Overdue(k) ~> ~Overdue(k)

(* What a fetch would ask now: the semantic budget is spent in the order of the page,
   failures included, and whoever is left out is reported. *)
BudgetIsSpentInOrder ==
  \A kind \in Kinds : \A page \in Pages[kind] :
    LET rs == OpenRequests(kind, page)
    IN \A answers \in AnswersFor(rs) :
         /\ Evaluate(rs, answers).calls <= MaxCalls
         /\ FirstComeFirstServed(rs, answers)
===============================================================================
