--------------------------- MODULE MonitorRegistry ---------------------------
(***************************************************************************)
(* Monitor rows and the requests that change them, of MonitorQuerySet in   *)
(* tracking/querysets.py and its views.  Each request is one PostgreSQL    *)
(* transaction (ATOMIC_REQUESTS) at READ COMMITTED: every statement sees   *)
(* what is committed when it starts and its own writes, SELECT FOR UPDATE, *)
(* UPDATE and DELETE wait for a row that another transaction holds and     *)
(* then look at it again, and the unique constraint waits for uncommitted  *)
(* rows.  Several sessions, of one or more users, run requests at once.    *)
(*                                                                         *)
(* Data kept: match mode, folded keyword and semantic fingerprint of a     *)
(* monitor are one Key; the letter case of its keyword is its Spelling.    *)
(* A row that is held is copied into its holder's transaction.             *)
(***************************************************************************)
EXTENDS Integers, FiniteSets

CONSTANTS
  Session,     \* web processes, each with at most one request
  User,
  Subreddit,
  Key,         \* match mode, keyword up to case and semantic fingerprint
  Spelling,    \* letter cases of a keyword
  Cadence,     \* notification cadences, "off" among them
  Default,     \* the cadence of a first monitor
  MaxId,       \* bound: Monitor primary keys, each used once
  MaxRequests  \* bound: requests

ASSUME RegistryConstants ==
  /\ "off" \in Cadence /\ Default \in Cadence
  /\ MaxId \in Nat /\ MaxRequests \in Nat

Id   == 1..MaxId
Word == Key \X Spelling
Row  == [user : User, sub : Subreddit, word : Word, active : BOOLEAN, cadence : Cadence]

(* What one request asks for; each kind uses some of the fields. *)
OneWord == {"add", "edit"}
ById    == {"edit", "deactivate", "delete"}
Kinds   == OneWord \cup ById \cup {"create", "toggle", "cadence", "delete_group"}
Request ==
  [kind : Kinds, user : User, sub : Subreddit, words : SUBSET Word, cadence : Cadence,
   id : Id, active : BOOLEAN]

VARIABLES
  rows,     \* rows[id]: committed content of a Monitor row
  live,     \* ids of the committed rows
  last,     \* the primary key sequence
  served,   \* <<user, cadence>> with committed preference and schedule rows
  pc,       \* pc[s]: the kind of statement session s runs next
  req,      \* req[s]: its request
  todo,     \* todo[s]: keywords still to handle
  hand,     \* hand[s]: the keyword in hand, if any
  cand,     \* cand[s]: rows its statement found and has not got to yet
  own,      \* own[s]: the rows its transaction holds, as it would leave them
  gone,     \* gone[s]: rows it deletes
  ensured,  \* ensured[s]: <<user, cadence>> it has ensured
  requests  \* requests so far

db   == <<rows, live, served>>
tx   == <<todo, hand, cand, own, gone, ensured>>
vars == <<db, last, pc, req, tx, requests>>

Held(s) == DOMAIN own[s]

NoRows    == [id \in {} |-> id]
NoRequest == [kind |-> "none"]
Owned     == UNION {[ids -> Row] : ids \in SUBSET Id}
Served    == SUBSET (User \X (Cadence \ {"off"}))

(* The types of the variables. *)
TypeOK ==
  /\ live \subseteq Id /\ last \in 0..MaxId /\ requests \in 0..MaxRequests
  /\ DOMAIN rows = Id /\ \A id \in live : rows[id] \in Row
  /\ served \in Served
  /\ pc \in [Session -> {"idle", "lookup", "lock", "insert", "write", "sweep", "commit"}]
  /\ req \in [Session -> Request \cup {NoRequest}]
  /\ \A s \in Session : pc[s] # "idle" => req[s] \in Request
  /\ todo \in [Session -> SUBSET Word] /\ hand \in [Session -> SUBSET Word]
  /\ cand \in [Session -> SUBSET Id]
  /\ own \in [Session -> Owned]
  /\ gone \in [Session -> SUBSET Id] /\ \A s \in Session : gone[s] \subseteq Held(s)
  /\ ensured \in [Session -> Served]

Init ==
  /\ rows = [id \in Id |-> NoRequest] /\ live = {} /\ last = 0 /\ served = {}
  /\ pc = [s \in Session |-> "idle"]
  /\ req = [s \in Session |-> NoRequest]
  /\ todo = [s \in Session |-> {}]
  /\ hand = [s \in Session |-> {}]
  /\ cand = [s \in Session |-> {}]
  /\ own = [s \in Session |-> NoRows]
  /\ gone = [s \in Session |-> {}]
  /\ ensured = [s \in Session |-> {}]
  /\ requests = 0

------------------------------------------------------------------------------
(* Requests that the forms let through. *)
Requests ==
  {r \in Request :
     /\ CASE r.kind = "create"   -> r.words # {} /\ \A v, w \in r.words : v[1] = w[1] => v = w
          [] r.kind \in OneWord  -> Cardinality(r.words) = 1
          [] OTHER               -> r.words = {}
     /\ r.kind \notin ById => r.id = 1
     /\ r.kind \notin {"create", "cadence"} => r.cadence = Default
     /\ ~r.active}

Begin(s, r) ==
  /\ pc[s] = "idle" /\ requests < MaxRequests
  /\ requests' = requests + 1
  /\ req' = [req EXCEPT ![s] = r]
  /\ todo' = [todo EXCEPT ![s] = r.words]
  /\ pc' = [pc EXCEPT ![s] = "lookup"]
  /\ UNCHANGED <<db, last, hand, cand, own, gone, ensured>>

(* The rows that a request's WHERE clause selects. *)
Where(r, words, id, row) ==
  /\ row.user = r.user
  /\ r.kind \in ById => id = r.id
  /\ r.kind \notin ById => row.sub = r.sub
  /\ r.kind \in {"create", "add"} => \E w \in words : row.word[1] = w[1]
  /\ r.kind = "deactivate" => row.active

(* A statement finds its rows; what it does to them waits for each. *)
Lookup(s) ==
  /\ pc[s] = "lookup"
  /\ \E words \in IF todo[s] = {} THEN {{}} ELSE {{w} : w \in todo[s]} :
       /\ hand' = [hand EXCEPT ![s] = words]
       /\ todo' = [todo EXCEPT ![s] = @ \ words]
       /\ cand' = [cand EXCEPT ![s] = {id \in live : Where(req[s], words, id, rows[id])}]
  /\ pc' = [pc EXCEPT ![s] =
       IF req[s].kind \in {"create", "add", "edit", "toggle"} THEN "lock" ELSE "sweep"]
  /\ UNCHANGED <<db, last, req, own, gone, ensured, requests>>

Free(s, id) == \A t \in Session \ {s} : id \notin Held(t)

Hold(s, id, row) ==
  own' = [own EXCEPT ![s] = [x \in Held(s) \cup {id} |-> IF x = id THEN row ELSE own[s][x]]]

(* Faulty variant of Lock: a plain SELECT, for rows that are saved whole. *)
LockNothing(s) ==
  /\ pc[s] = "lock"
  /\ \E id \in cand[s] :
       /\ IF id \in live /\ Where(req[s], hand[s], id, rows[id])
            THEN /\ Hold(s, id, rows[id])
                 /\ cand' = [cand EXCEPT ![s] = IF req[s].kind = "toggle" THEN @ \ {id} ELSE {}]
            ELSE /\ cand' = [cand EXCEPT ![s] = @ \ {id}]
                 /\ UNCHANGED own
  /\ UNCHANGED <<db, last, pc, req, todo, hand, gone, ensured, requests>>

(* SELECT FOR UPDATE: first() stops at the first row that is still there and
   still meant, a whole group takes them all. *)
Lock(s) ==
  /\ pc[s] = "lock"
  /\ \E id \in cand[s] :
       /\ Free(s, id)
       /\ IF id \in live /\ Where(req[s], hand[s], id, rows[id])
            THEN /\ Hold(s, id, rows[id])
                 /\ cand' = [cand EXCEPT ![s] = IF req[s].kind = "toggle" THEN @ \ {id} ELSE {}]
            ELSE /\ cand' = [cand EXCEPT ![s] = @ \ {id}]
                 /\ UNCHANGED own
  /\ UNCHANGED <<db, last, pc, req, todo, hand, gone, ensured, requests>>

Locked(s) == pc[s] = "lock" /\ cand[s] = {}
Found(s)  == {id \in Held(s) : \E w \in hand[s] : own[s][id].word[1] = w[1]}
NextWord(s) == pc' = [pc EXCEPT ![s] = IF todo[s] = {} THEN "commit" ELSE "lookup"]

(* Faulty variant of Ensure: without the early return for "off". *)
EnsureAny(s, c) == ensured' = [ensured EXCEPT ![s] = @ \cup {<<req[s].user, c>>}]

(* ensure_email_delivery_state. *)
Ensure(s, c) ==
  ensured' = [ensured EXCEPT ![s] = IF c = "off" THEN @ ELSE @ \cup {<<req[s].user, c>>}]

------------------------------------------------------------------------------
(* upsert_keywords, upsert_from_intent and add_to_subreddit. *)

(* Faulty variant of Keep: a paused monitor is kept paused. *)
KeepAny(s) ==
  /\ Locked(s) /\ req[s].kind \in {"create", "add"}
  /\ Found(s) # {}
  /\ NextWord(s)
  /\ UNCHANGED <<db, last, req, tx, requests>>

(* The monitor is active: nothing to create, MonitorAlreadyExistsError to add. *)
Keep(s) ==
  /\ Locked(s) /\ req[s].kind \in {"create", "add"}
  /\ \E id \in Found(s) : own[s][id].active
  /\ NextWord(s)
  /\ UNCHANGED <<db, last, req, tx, requests>>

(* Faulty variant of Reactivate: the new cadence gets no schedule. *)
ReactivateOnly(s) ==
  /\ Locked(s) /\ req[s].kind \in {"create", "add"}
  /\ \E id \in Found(s) :
       /\ ~own[s][id].active
       /\ Hold(s, id, [own[s][id] EXCEPT !.active = TRUE, !.cadence =
            IF req[s].kind = "create" THEN req[s].cadence ELSE @])
  /\ NextWord(s)
  /\ UNCHANGED <<db, last, req, todo, hand, cand, gone, ensured, requests>>

Reactivate(s) ==
  /\ Locked(s) /\ req[s].kind \in {"create", "add"}
  /\ \E id \in Found(s) :
       /\ ~own[s][id].active
       /\ IF req[s].kind = "create"
            THEN /\ Hold(s, id, [own[s][id] EXCEPT !.active = TRUE, !.cadence = req[s].cadence])
                 /\ Ensure(s, req[s].cadence)
            ELSE /\ Hold(s, id, [own[s][id] EXCEPT !.active = TRUE])
                 /\ UNCHANGED ensured
  /\ NextWord(s)
  /\ UNCHANGED <<db, last, req, todo, hand, cand, gone, requests>>

(* No such monitor: one that is added takes the cadence of a sibling. *)
Miss(s) ==
  LET siblings == {id \in live : rows[id].user = req[s].user /\ rows[id].sub = req[s].sub} IN
  /\ Locked(s) /\ req[s].kind \in {"create", "add"} /\ Found(s) = {}
  /\ IF req[s].kind = "create" THEN UNCHANGED req
     ELSE \E c \in IF siblings = {} THEN {Default} ELSE {rows[id].cadence : id \in siblings} :
            req' = [req EXCEPT ![s].cadence = c]
  /\ pc' = [pc EXCEPT ![s] = "insert"]
  /\ UNCHANGED <<db, last, tx, requests>>

(* The unique constraint on user, subreddit, mode, keyword and fingerprint:
   a committed row that another transaction leaves as it is, ... *)
Taken(s, row) ==
  \E id \in live \ Held(s) :
    rows[id].user = row.user /\ rows[id].sub = row.sub /\ rows[id].word = row.word

(* ... or one that another transaction adds, renames or deletes and that is
   waited for. *)
Undecided(s, row) ==
  \E t \in Session \ {s} : \E id \in Held(t) :
    /\ own[t][id].user = row.user /\ own[t][id].sub = row.sub
    /\ \/ own[t][id].word = row.word /\ (id \in live => rows[id].word # row.word)
       \/ id \in live /\ rows[id].word = row.word /\ (id \in gone[t] \/ own[t][id].word # row.word)

Insert(s) ==
  /\ pc[s] = "insert" /\ last < MaxId
  /\ \E w \in hand[s] :
       LET row == [user |-> req[s].user, sub |-> req[s].sub, word |-> w, active |-> TRUE,
                   cadence |-> req[s].cadence]
       IN  /\ ~Taken(s, row) /\ ~Undecided(s, row)
           /\ Hold(s, last + 1, row)
  /\ last' = last + 1
  /\ Ensure(s, req[s].cadence)
  /\ NextWord(s)
  /\ UNCHANGED <<db, req, todo, hand, cand, gone, requests>>

------------------------------------------------------------------------------
(* update_for_user. *)

(* The clash check, and MonitorAlreadyExistsError if there is one. *)
CheckClash(s) ==
  /\ Locked(s) /\ req[s].kind = "edit"
  /\ \E id \in Held(s), w \in hand[s] :
       pc' = [pc EXCEPT ![s] =
         IF \E x \in live \ {id} : /\ rows[x].user = req[s].user /\ rows[x].sub = own[s][id].sub
                                   /\ rows[x].word[1] = w[1]
           THEN "commit" ELSE "write"]
  /\ UNCHANGED <<db, last, req, tx, requests>>

Write(s) ==
  /\ pc[s] = "write"
  /\ \E id \in Held(s), w \in hand[s] :
       LET row == [own[s][id] EXCEPT !.word = w]
       IN  ~Taken(s, row) /\ ~Undecided(s, row) /\ Hold(s, id, row)
  /\ pc' = [pc EXCEPT ![s] = "commit"]
  /\ UNCHANGED <<db, last, req, todo, hand, cand, gone, ensured, requests>>

------------------------------------------------------------------------------
(* toggle_subreddit_group, update_group_cadence, monitor_deactivate and the
   deletions. *)

(* The state is decided from the locked rows; the UPDATE finds its rows anew. *)
ChooseState(s) ==
  /\ Locked(s) /\ req[s].kind = "toggle"
  /\ IF Held(s) = {}
       THEN /\ pc' = [pc EXCEPT ![s] = "commit"]
            /\ UNCHANGED <<req, cand>>
       ELSE /\ pc' = [pc EXCEPT ![s] = "sweep"]
            /\ req' = [req EXCEPT ![s].active = \A id \in Held(s) : ~own[s][id].active]
            /\ cand' = [cand EXCEPT ![s] = {id \in live : Where(req[s], {}, id, rows[id])}]
  /\ UNCHANGED <<db, last, todo, hand, own, gone, ensured, requests>>

Swept(r, row) ==
  CASE r.kind \in {"toggle", "deactivate"} -> [row EXCEPT !.active = r.active]
    [] r.kind = "cadence"                  -> [row EXCEPT !.cadence = r.cadence]
    [] OTHER                               -> row

(* UPDATE or DELETE of one more row, if it is still there. *)
Sweep(s) ==
  /\ pc[s] = "sweep"
  /\ \E id \in cand[s] :
       /\ Free(s, id)
       /\ cand' = [cand EXCEPT ![s] = @ \ {id}]
       /\ IF id \in live
            THEN /\ Hold(s, id, Swept(req[s], IF id \in Held(s) THEN own[s][id] ELSE rows[id]))
                 /\ gone' = [gone EXCEPT ![s] =
                      IF req[s].kind \in {"delete", "delete_group"} THEN @ \cup {id} ELSE @]
            ELSE UNCHANGED <<own, gone>>
  /\ UNCHANGED <<db, last, pc, req, todo, hand, ensured, requests>>

EndSweep(s) ==
  /\ pc[s] = "sweep" /\ cand[s] = {}
  /\ IF req[s].kind = "cadence" THEN Ensure(s, req[s].cadence) ELSE UNCHANGED ensured
  /\ pc' = [pc EXCEPT ![s] = "commit"]
  /\ UNCHANGED <<db, last, req, todo, hand, cand, own, gone, requests>>

------------------------------------------------------------------------------
Reset(s) ==
  /\ pc' = [pc EXCEPT ![s] = "idle"]
  /\ req' = [req EXCEPT ![s] = NoRequest]
  /\ todo' = [todo EXCEPT ![s] = {}]
  /\ hand' = [hand EXCEPT ![s] = {}]
  /\ cand' = [cand EXCEPT ![s] = {}]
  /\ own' = [own EXCEPT ![s] = NoRows]
  /\ gone' = [gone EXCEPT ![s] = {}]
  /\ ensured' = [ensured EXCEPT ![s] = {}]
  /\ UNCHANGED <<last, requests>>

Commit(s) ==
  /\ pc[s] = "commit"
  /\ rows' = [id \in Id |-> IF id \in Held(s) THEN own[s][id] ELSE rows[id]]
  /\ live' = (live \cup Held(s)) \ gone[s]
  /\ served' = served \cup ensured[s]
  /\ Reset(s)

(* IntegrityError, DoesNotExist, a deadlock or a killed process: rolled back. *)
Abort(s) ==
  /\ pc[s] \notin {"idle", "commit"}
  /\ UNCHANGED db
  /\ Reset(s)

Next ==
  \E s \in Session :
    \/ \E r \in Requests : Begin(s, r)
    \/ Lookup(s) \/ Lock(s) \/ Keep(s) \/ Reactivate(s) \/ Miss(s) \/ Insert(s)
    \/ CheckClash(s) \/ Write(s) \/ ChooseState(s) \/ Sweep(s) \/ EndSweep(s)
    \/ Commit(s) \/ Abort(s)

Spec == Init /\ [][Next]_vars

------------------------------------------------------------------------------
(* A monitor with email always has committed preference and schedule rows,
   whichever request of whichever session gave it its cadence, and whatever
   was rolled back (querysets.py 145-150, 273-293, 399-400). *)
CadencesAreServed ==
  \A id \in live : rows[id].cadence # "off" => <<rows[id].user, rows[id].cadence>> \in served

(* The columns that a request r writes of the monitor id. *)
Writes(r, id, old, new) ==
  /\ new.user = old.user /\ new.sub = old.sub
  /\ new.word # old.word => r.kind = "edit" /\ id = r.id
  /\ new.cadence # old.cadence => r.kind \in {"create", "cadence"} /\ new.cadence = r.cadence
  /\ new.active # old.active =>
       r.kind \in {"toggle", "deactivate"} \/ (r.kind \in {"create", "add"} /\ new.active)

(* Row locks and update_fields keep the columns of a monitor apart: what it
   watches changes only by an edit of it, whether it is active only by a pause,
   resumption, creation or addition, its cadence only by a request that chooses
   one, and to that one; no request of its user or of another writes back a
   column as it was when it read the row (querysets.py 127, 243, 307, 344-352). *)
ColumnsFollowRequests ==
  [][\A id \in live \cap live' : rows'[id] # rows[id] =>
       \E s \in Session : /\ pc[s] = "commit" /\ pc'[s] = "idle"
                          /\ req[s].user = rows[id].user
                          /\ Writes(req[s], id, rows[id], rows'[id])]_vars

(* A request changes, deletes or renames only monitors of its own user. *)
OwnRowsOnly ==
  [][\A id \in live : (id \notin live' \/ rows'[id] # rows[id]) =>
       \E s \in Session : pc[s] = "commit" /\ pc'[s] = "idle" /\ req[s].user = rows[id].user]_vars

(* When a batch is committed, each of its keywords has an active monitor, even
   if others pause, rename or delete monitors at the same time. *)
CreatesTakeEffect ==
  [][\A s \in Session : pc[s] = "commit" /\ pc'[s] = "idle" /\ req[s].kind = "create" =>
       \A w \in req[s].words : \E id \in live' :
         /\ rows'[id].user = req[s].user /\ rows'[id].sub = req[s].sub
         /\ rows'[id].word[1] = w[1] /\ rows'[id].active]_vars

(* querysets.py 40: "Raised when an add or edit would create a duplicate
   monitor in a group".  So none commits a monitor that differs from another of
   its group in spelling at most. *)
NoDuplicates ==
  \A s \in Session : pc[s] = "commit" /\ req[s].kind \in OneWord =>
    \A id \in Held(s), x \in live \ Held(s) :
      id \notin live \/ own[s][id].word # rows[id].word =>
        \/ rows[x].user # own[s][id].user \/ rows[x].sub # own[s][id].sub
        \/ rows[x].word[1] # own[s][id].word[1]
==============================================================================
