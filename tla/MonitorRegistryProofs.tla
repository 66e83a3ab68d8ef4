------------------------ MODULE MonitorRegistryProofs ------------------------
(***************************************************************************)
(* Proofs about MonitorRegistry for every number of sessions, users,       *)
(* keywords and requests: its types, that a cadence is served, that        *)
(* requests change only rows of their user and rename only what they edit, *)
(* and that a committed batch has a monitor for each of its keywords.      *)
(***************************************************************************)
EXTENDS MonitorRegistry, TLAPS

(* A row in a transaction belongs to the request's user, is the one to edit if
   one is edited, differs from a committed row in the request's columns only, and
   its cadence is served, or will be when the sweep that sets it ends. *)
HeldRow(s, id) ==
  LET row == own[s][id] IN
  /\ row.user = req[s].user
  /\ req[s].kind = "edit" => id = req[s].id
  /\ id \in live => Writes(req[s], id, rows[id], row)
  /\ row.cadence # "off" =>
       \/ <<row.user, row.cadence>> \in served \cup ensured[s]
       \/ pc[s] = "sweep" /\ req[s].kind = "cadence" /\ row.cadence = req[s].cadence

(* What one session holds and is about to touch. *)
SessionInv(s) ==
  /\ pc[s] = "idle" => Held(s) = {} /\ cand[s] = {}
  /\ pc[s] = "insert" => req[s].kind \in {"create", "add"}
  /\ pc[s] = "sweep" => req[s].kind # "edit"
  /\ pc[s] = "write" => req[s].kind = "edit"
  /\ Held(s) \subseteq 1..last /\ cand[s] \subseteq 1..last
  /\ \A id \in Held(s) : HeldRow(s, id)
  /\ \A id \in cand[s] \cap live : rows[id].user = req[s].user

(* Row locks, and that a row which is waited for is not a new one. *)
RowLocks ==
  /\ \A s, t \in Session : s # t => Held(s) \cap Held(t) = {}
  /\ \A s, t \in Session : cand[s] \cap Held(t) \subseteq live

IInv ==
  /\ TypeOK /\ CadencesAreServed /\ RowLocks
  /\ live \subseteq 1..last
  /\ \A s \in Session : SessionInv(s)

------------------------------------------------------------------------------
(* Types. *)

(* What Hold does to the transactions. *)
LEMMA Holding ==
  ASSUME TypeOK, NEW s \in Session, NEW id \in Id, NEW row \in Row, Hold(s, id, row)
  PROVE  /\ own' \in [Session -> Owned]
         /\ own'[s][id] = row
         /\ \A x \in Held(s) \ {id} : own'[s][x] = own[s][x]
         /\ Held(s)' = Held(s) \cup {id}
         /\ \A t \in Session : t # s => own'[t] = own[t]
<1> DEFINE new == [x \in Held(s) \cup {id} |-> IF x = id THEN row ELSE own[s][x]]
<1>1. own[s] \in Owned
  BY DEF TypeOK
<1>2. PICK ids \in SUBSET Id : own[s] \in [ids -> Row]
  BY <1>1 DEF Owned
<1>3. Held(s) \in SUBSET Id /\ own[s] \in [Held(s) -> Row]
  BY <1>2 DEF Held
<1>4. new \in [Held(s) \cup {id} -> Row]
  BY <1>3
<1>5. new \in Owned
  BY <1>3, <1>4 DEF Owned
<1>6. own' = [own EXCEPT ![s] = new]
  BY DEF Hold
<1>7. own'[s] = new /\ \A t \in Session : t # s => own'[t] = own[t]
  BY <1>6 DEF TypeOK
<1>8. own' \in [Session -> Owned]
  BY <1>5, <1>6 DEF TypeOK
<1>9. QED
  BY <1>7, <1>8 DEF Held

LEMMA HeldType ==
  ASSUME TypeOK, NEW s \in Session
  PROVE  /\ Held(s) \subseteq Id
         /\ \A id \in Held(s) : own[s][id] \in Row
<1>1. PICK ids \in SUBSET Id : own[s] \in [ids -> Row]
  BY DEF TypeOK, Owned
<1>2. QED
  BY <1>1 DEF Held

LEMMA NoRowsType == NoRows \in Owned /\ DOMAIN NoRows = {}
<1>1. NoRows \in [{} -> Row] /\ {} \in SUBSET Id
  BY DEF NoRows
<1>2. QED
  BY <1>1 DEF Owned, NoRows

LEMMA EnsureType ==
  ASSUME TypeOK, NEW s \in Session, req[s] \in Request, NEW c \in Cadence, Ensure(s, c)
  PROVE  ensured' \in [Session -> Served]
<1>1. req[s].user \in User
  BY DEF Request
<1>2. ensured[s] \in Served
  BY DEF TypeOK
<1>3. CASE c = "off"
  BY <1>3 DEF Ensure, TypeOK
<1>4. CASE c # "off"
  <2>1. ensured[s] \cup {<<req[s].user, c>>} \in Served
    BY <1>1, <1>2, <1>4 DEF Served
  <2>2. ensured' = [ensured EXCEPT ![s] = ensured[s] \cup {<<req[s].user, c>>}]
    BY <1>4 DEF Ensure
  <2>3. QED
    BY <2>1, <2>2 DEF TypeOK
<1>5. QED
  BY <1>3, <1>4

LEMMA InsertType ==
  ASSUME TypeOK, NEW s \in Session, Insert(s)
  PROVE  TypeOK'
<1>1. pc[s] # "idle" /\ req[s] \in Request
  BY DEF TypeOK, Insert
<1>2. PICK w \in hand[s] :
        Hold(s, last + 1, [user |-> req[s].user, sub |-> req[s].sub, word |-> w,
                           active |-> TRUE, cadence |-> req[s].cadence])
  BY DEF Insert
<1>3. w \in Word
  BY DEF TypeOK
<1>4. [user |-> req[s].user, sub |-> req[s].sub, word |-> w,
       active |-> TRUE, cadence |-> req[s].cadence] \in Row
  BY <1>1, <1>3 DEF Request, Row
<1>5. last + 1 \in Id /\ last' \in 0..MaxId
  BY RegistryConstants DEF TypeOK, Insert, Id
<1>6. /\ own' \in [Session -> Owned]
      /\ Held(s)' = Held(s) \cup {last + 1}
      /\ \A t \in Session : t # s => own'[t] = own[t]
  BY <1>2, <1>4, <1>5, Holding
<1>7. \A t \in Session : gone'[t] \subseteq Held(t)'
  BY <1>6 DEF TypeOK, Insert, Held
<1>8. ensured' \in [Session -> Served]
  <2>1. req[s].cadence \in Cadence
    BY <1>1 DEF Request
  <2>2. QED
    BY <1>1, <2>1, EnsureType DEF Insert
<1>9. QED
  BY <1>1, <1>5, <1>6, <1>7, <1>8 DEF TypeOK, Insert, NextWord, db

(* The steps that take a row or change one that is held. *)
LEMMA HoldType ==
  ASSUME TypeOK, NEW s \in Session, NEW id \in Id, NEW row \in Row, Hold(s, id, row),
         gone' = gone
  PROVE  own' \in [Session -> Owned] /\ \A t \in Session : gone'[t] \subseteq Held(t)'
<1>1. /\ own' \in [Session -> Owned]
      /\ Held(s)' = Held(s) \cup {id}
      /\ \A t \in Session : t # s => own'[t] = own[t]
  BY Holding
<1>2. QED
  BY <1>1 DEF TypeOK, Held

LEMMA LockType ==
  ASSUME TypeOK, NEW s \in Session, Lock(s)
  PROVE  TypeOK'
<1>1. PICK id \in cand[s] :
        IF id \in live /\ Where(req[s], hand[s], id, rows[id])
          THEN /\ Hold(s, id, rows[id])
               /\ cand' = [cand EXCEPT ![s] = IF req[s].kind = "toggle" THEN @ \ {id} ELSE {}]
          ELSE /\ cand' = [cand EXCEPT ![s] = @ \ {id}]
               /\ UNCHANGED own
  BY DEF Lock
<1>2. id \in Id /\ cand' \in [Session -> SUBSET Id]
  BY <1>1 DEF TypeOK
<1>3. own' \in [Session -> Owned] /\ \A t \in Session : gone'[t] \subseteq Held(t)'
  <2>1. CASE id \in live /\ Where(req[s], hand[s], id, rows[id])
    <3>1. rows[id] \in Row /\ gone' = gone
      BY <2>1 DEF TypeOK, Lock
    <3>2. QED
      BY <1>1, <1>2, <2>1, <3>1, HoldType
  <2>2. CASE ~(id \in live /\ Where(req[s], hand[s], id, rows[id]))
    BY <1>1, <2>2 DEF TypeOK, Lock, Held
  <2>3. QED
    BY <2>1, <2>2
<1>4. QED
  BY <1>2, <1>3 DEF TypeOK, Lock, db

LEMMA ReactivateType ==
  ASSUME TypeOK, NEW s \in Session, Reactivate(s)
  PROVE  TypeOK'
<1>1. req[s] \in Request /\ req[s].cadence \in Cadence
  BY DEF TypeOK, Reactivate, Locked, Request
<1>2. PICK id \in Found(s) :
        IF req[s].kind = "create"
          THEN /\ Hold(s, id, [own[s][id] EXCEPT !.active = TRUE, !.cadence = req[s].cadence])
               /\ Ensure(s, req[s].cadence)
          ELSE /\ Hold(s, id, [own[s][id] EXCEPT !.active = TRUE])
               /\ UNCHANGED ensured
  BY DEF Reactivate
<1>3. id \in Id /\ own[s][id] \in Row
  BY <1>2, HeldType DEF Found
<1>4. /\ [own[s][id] EXCEPT !.active = TRUE] \in Row
      /\ [own[s][id] EXCEPT !.active = TRUE, !.cadence = req[s].cadence] \in Row
  BY <1>1, <1>3 DEF Row
<1>5. own' \in [Session -> Owned] /\ \A t \in Session : gone'[t] \subseteq Held(t)'
  <2>1. gone' = gone
    BY DEF Reactivate
  <2>2. CASE req[s].kind = "create"
    BY <1>2, <1>3, <1>4, <2>1, <2>2, HoldType
  <2>3. CASE req[s].kind # "create"
    BY <1>2, <1>3, <1>4, <2>1, <2>3, HoldType
  <2>4. QED
    BY <2>2, <2>3
<1>6. ensured' \in [Session -> Served]
  <2>1. CASE req[s].kind = "create"
    BY <1>1, <1>2, <2>1, EnsureType
  <2>2. CASE req[s].kind # "create"
    BY <1>2, <2>2 DEF TypeOK
  <2>3. QED
    BY <2>1, <2>2
<1>7. QED
  BY <1>5, <1>6 DEF TypeOK, Reactivate, NextWord, db, Locked

LEMMA WriteType ==
  ASSUME TypeOK, NEW s \in Session, Write(s)
  PROVE  TypeOK'
<1>1. PICK id \in Held(s), w \in hand[s] : Hold(s, id, [own[s][id] EXCEPT !.word = w])
  BY DEF Write
<1>2. id \in Id /\ own[s][id] \in Row /\ w \in Word /\ gone' = gone
  BY HeldType DEF TypeOK, Write
<1>3. [own[s][id] EXCEPT !.word = w] \in Row
  BY <1>2 DEF Row
<1>4. own' \in [Session -> Owned] /\ \A t \in Session : gone'[t] \subseteq Held(t)'
  BY <1>1, <1>2, <1>3, HoldType
<1>5. QED
  BY <1>4 DEF TypeOK, Write, db

LEMMA SweptType ==
  ASSUME NEW r \in Request, NEW row \in Row
  PROVE  Swept(r, row) \in Row
BY DEF Swept, Row, Request

LEMMA SweepType ==
  ASSUME TypeOK, NEW s \in Session, Sweep(s)
  PROVE  TypeOK'
<1>1. req[s] \in Request
  BY DEF TypeOK, Sweep
<1> DEFINE before(id) == IF id \in Held(s) THEN own[s][id] ELSE rows[id]
<1>2. PICK id \in cand[s] :
        /\ cand' = [cand EXCEPT ![s] = @ \ {id}]
        /\ IF id \in live
             THEN /\ Hold(s, id, Swept(req[s], before(id)))
                  /\ gone' = [gone EXCEPT ![s] =
                       IF req[s].kind \in {"delete", "delete_group"} THEN @ \cup {id} ELSE @]
             ELSE UNCHANGED <<own, gone>>
  BY DEF Sweep
<1>3. id \in Id /\ cand' \in [Session -> SUBSET Id]
  BY <1>2 DEF TypeOK
<1>4. /\ own' \in [Session -> Owned]
      /\ gone' \in [Session -> SUBSET Id] /\ \A t \in Session : gone'[t] \subseteq Held(t)'
  <2>1. CASE id \in live
    <3>1. before(id) \in Row
      BY <2>1, HeldType DEF TypeOK
    <3>2. Swept(req[s], before(id)) \in Row
      BY <1>1, <3>1, SweptType
    <3>3. /\ own' \in [Session -> Owned]
          /\ Held(s)' = Held(s) \cup {id}
          /\ \A t \in Session : t # s => own'[t] = own[t]
      BY <1>2, <1>3, <2>1, <3>2, Holding
    <3>4. QED
      BY <1>2, <1>3, <2>1, <3>3 DEF TypeOK, Held
  <2>2. CASE id \notin live
    BY <1>2, <2>2 DEF TypeOK, Held
  <2>3. QED
    BY <2>1, <2>2
<1>5. QED
  BY <1>3, <1>4 DEF TypeOK, Sweep, db

(* The steps that leave the rows of every transaction alone. *)
LEMMA PlainType ==
  ASSUME TypeOK, NEW s \in Session,
         (\E r \in Requests : Begin(s, r)) \/ Lookup(s) \/ Keep(s) \/ Miss(s) \/ CheckClash(s)
           \/ ChooseState(s) \/ EndSweep(s)
  PROVE  TypeOK'
<1>1. CASE \E r \in Requests : Begin(s, r)
  <2>1. PICK r \in Requests : Begin(s, r)
    BY <1>1
  <2>2. r \in Request /\ r.words \subseteq Word
    BY DEF Requests, Request
  <2>3. requests' \in 0..MaxRequests
    BY <2>1, RegistryConstants DEF Begin, TypeOK
  <2>4. QED
    BY <2>1, <2>2, <2>3 DEF Begin, TypeOK, db, Held
<1>2. CASE Lookup(s)
  <2>1. PICK words \in IF todo[s] = {} THEN {{}} ELSE {{w} : w \in todo[s]} :
          /\ hand' = [hand EXCEPT ![s] = words]
          /\ todo' = [todo EXCEPT ![s] = @ \ words]
          /\ cand' = [cand EXCEPT ![s] = {id \in live : Where(req[s], words, id, rows[id])}]
    BY <1>2 DEF Lookup
  <2>2. words \subseteq Word
    BY <2>1 DEF TypeOK
  <2>3. {id \in live : Where(req[s], words, id, rows[id])} \subseteq Id
    BY DEF TypeOK
  <2>4. QED
    BY <1>2, <2>1, <2>2, <2>3 DEF Lookup, TypeOK, db, Held
<1>3. CASE Keep(s)
  BY <1>3 DEF Keep, Locked, NextWord, TypeOK, db, tx, Held
<1>4. CASE Miss(s)
  <2>1. req[s] \in Request
    BY <1>4 DEF Miss, Locked, TypeOK
  <2>2. req' \in [Session -> Request \cup {NoRequest}] /\ req'[s] \in Request
        /\ \A t \in Session : t # s => req'[t] = req[t]
    <3> DEFINE siblings == {id \in live : rows[id].user = req[s].user /\ rows[id].sub = req[s].sub}
    <3>1. CASE req[s].kind = "create"
      BY <1>4, <2>1, <3>1 DEF Miss, TypeOK
    <3>2. CASE req[s].kind # "create"
      <4>1. PICK c \in IF siblings = {} THEN {Default} ELSE {rows[id].cadence : id \in siblings} :
              req' = [req EXCEPT ![s].cadence = c]
        BY <1>4, <3>2 DEF Miss
      <4>2. c \in Cadence
        <5>1. \A id \in siblings : rows[id].cadence \in Cadence
          BY DEF TypeOK, Row
        <5>2. QED
          BY <4>1, <5>1, RegistryConstants
      <4>3. [req[s] EXCEPT !.cadence = c] \in Request
        BY <2>1, <4>2 DEF Request
      <4>4. QED
        BY <4>1, <4>3 DEF TypeOK
    <3>3. QED
      BY <3>1, <3>2
  <2>3. QED
    BY <1>4, <2>2 DEF Miss, TypeOK, db, tx, Held
<1>5. CASE CheckClash(s)
  <2>1. pc' \in [Session -> {"idle", "lookup", "lock", "insert", "write", "sweep", "commit"}]
        /\ \A t \in Session : pc'[t] # "idle" => pc[t] # "idle"
    BY <1>5 DEF CheckClash, Locked, TypeOK
  <2>2. QED
    BY <1>5, <2>1 DEF CheckClash, TypeOK, db, tx, Held
<1>6. CASE ChooseState(s)
  <2>1. req[s] \in Request
    BY <1>6 DEF ChooseState, Locked, TypeOK
  <2>2. CASE Held(s) = {}
    BY <1>6, <2>1, <2>2 DEF ChooseState, TypeOK, db, Held
  <2>3. CASE Held(s) # {}
    <3>1. [req[s] EXCEPT !.active = \A id \in Held(s) : ~own[s][id].active] \in Request
      BY <2>1 DEF Request
    <3>2. {id \in live : Where(req[s], {}, id, rows[id])} \subseteq Id
      BY DEF TypeOK
    <3>3. req' \in [Session -> Request \cup {NoRequest}] /\ req'[s] \in Request
          /\ \A t \in Session : t # s => req'[t] = req[t]
      BY <1>6, <2>3, <3>1 DEF ChooseState, TypeOK
    <3>4. cand' \in [Session -> SUBSET Id]
      BY <1>6, <2>3, <3>2 DEF ChooseState, TypeOK
    <3>5. QED
      BY <1>6, <2>3, <3>3, <3>4 DEF ChooseState, TypeOK, db, Held
  <2>4. QED
    BY <2>2, <2>3
<1>7. CASE EndSweep(s)
  <2>1. req[s] \in Request /\ req[s].cadence \in Cadence
    BY <1>7 DEF EndSweep, TypeOK, Request
  <2>2. ensured' \in [Session -> Served]
    <3>1. CASE req[s].kind = "cadence"
      BY <1>7, <2>1, <3>1, EnsureType DEF EndSweep
    <3>2. CASE req[s].kind # "cadence"
      BY <1>7, <3>2 DEF EndSweep, TypeOK
    <3>3. QED
      BY <3>1, <3>2
  <2>3. QED
    BY <1>7, <2>2 DEF EndSweep, TypeOK, db, Held
<1>8. QED
  BY <1>1, <1>2, <1>3, <1>4, <1>5, <1>6, <1>7

LEMMA ResetType ==
  ASSUME TypeOK, NEW s \in Session, Reset(s)
  PROVE  /\ pc' \in [Session -> {"idle", "lookup", "lock", "insert", "write", "sweep", "commit"}]
         /\ req' \in [Session -> Request \cup {NoRequest}]
         /\ \A t \in Session : pc'[t] # "idle" => req'[t] \in Request
         /\ todo' \in [Session -> SUBSET Word] /\ hand' \in [Session -> SUBSET Word]
         /\ cand' \in [Session -> SUBSET Id]
         /\ own' \in [Session -> Owned]
         /\ gone' \in [Session -> SUBSET Id] /\ \A t \in Session : gone'[t] \subseteq Held(t)'
         /\ ensured' \in [Session -> Served]
         /\ last' = last /\ requests' = requests
BY NoRowsType DEF Reset, TypeOK, Held, Served

LEMMA CommitType ==
  ASSUME TypeOK, NEW s \in Session, Commit(s)
  PROVE  TypeOK'
<1>1. live' = (live \cup Held(s)) \ gone[s] /\ live' \subseteq Id
  BY HeldType DEF Commit, TypeOK
<1>2. \A id \in live' : rows'[id] \in Row
  BY <1>1, HeldType DEF Commit, TypeOK
<1>3. DOMAIN rows' = Id /\ served' \in Served
  BY DEF Commit, TypeOK, Served
<1>4. QED
  BY <1>1, <1>2, <1>3, ResetType DEF Commit, TypeOK

LEMMA AbortType ==
  ASSUME TypeOK, NEW s \in Session, Abort(s)
  PROVE  TypeOK'
BY ResetType DEF Abort, TypeOK, db

LEMMA StepType == TypeOK /\ [Next]_vars => TypeOK'
<1> SUFFICES ASSUME TypeOK, [Next]_vars PROVE TypeOK'
  OBVIOUS
<1>1. CASE UNCHANGED vars
  BY <1>1 DEF vars, db, tx, TypeOK, Held
<1>2. CASE Next
  <2> PICK s \in Session :
         \/ \E r \in Requests : Begin(s, r)
         \/ Lookup(s) \/ Lock(s) \/ Keep(s) \/ Reactivate(s) \/ Miss(s) \/ Insert(s)
         \/ CheckClash(s) \/ Write(s) \/ ChooseState(s) \/ Sweep(s) \/ EndSweep(s)
         \/ Commit(s) \/ Abort(s)
    BY <1>2 DEF Next
  <2> QED
    BY PlainType, LockType, ReactivateType, InsertType, WriteType, SweepType, CommitType,
       AbortType
<1>3. QED
  BY <1>1, <1>2

LEMMA InitType == Init => TypeOK
BY RegistryConstants, NoRowsType DEF Init, TypeOK, Served, Held

------------------------------------------------------------------------------
(* A step of one session within its transaction: the others see nothing of it. *)
LEMMA LocalStep ==
  ASSUME IInv, TypeOK', NEW s \in Session, db' = db, last' \in {last, last + 1},
         \A t \in Session \ {s} :
           /\ pc'[t] = pc[t] /\ req'[t] = req[t] /\ own'[t] = own[t]
           /\ cand'[t] = cand[t] /\ ensured'[t] = ensured[t],
         SessionInv(s)',
         \A id \in Held(s)' \ Held(s) : id = last + 1 \/ (id \in live /\ Free(s, id)),
         cand'[s] \subseteq cand[s] \/ cand'[s] \subseteq live
  PROVE  IInv'
<1>1. live' = live /\ rows' = rows /\ served' = served
  BY DEF db
<1>2. last \in Nat /\ 1..last \subseteq 1..last'
  BY RegistryConstants DEF IInv, TypeOK
<1>3. CadencesAreServed' /\ live' \subseteq 1..last'
  BY <1>1, <1>2 DEF IInv, CadencesAreServed
<1>4. \A t \in Session \ {s} : Held(t)' = Held(t) /\ Held(t) \subseteq 1..last
  BY DEF Held, IInv, SessionInv
<1>5. \A t \in Session : SessionInv(t)'
  <2> SUFFICES ASSUME NEW t \in Session \ {s} PROVE SessionInv(t)'
    OBVIOUS
  <2>1. SessionInv(t)
    BY DEF IInv
  <2>2. \A id \in Held(t) : HeldRow(t, id)'
    BY <1>1, <2>1 DEF SessionInv, HeldRow
  <2>3. QED
    BY <1>1, <1>2, <1>4, <2>1, <2>2 DEF SessionInv
<1>6. \A t \in Session \ {s} : Held(s)' \cap Held(t)' = {}
  <2> SUFFICES ASSUME NEW t \in Session \ {s}, NEW id \in Held(s)', id \in Held(t)
               PROVE  FALSE
    BY <1>4
  <2>1. CASE id \in Held(s)
    BY <2>1 DEF IInv, RowLocks
  <2>2. CASE id \notin Held(s)
    BY <1>2, <1>4, <2>2 DEF Free
  <2>3. QED
    BY <2>1, <2>2
<1>7. \A u, t \in Session : u # t => Held(u)' \cap Held(t)' = {}
  BY <1>4, <1>6 DEF IInv, RowLocks
<1>8. \A t \in Session : cand[t] \cap Held(s)' \subseteq live
  <2> SUFFICES ASSUME NEW t \in Session, NEW id \in cand[t] \cap Held(s)', id \notin Held(s)
               PROVE  id \in live
    BY DEF IInv, RowLocks
  <2>1. id \in 1..last
    BY DEF IInv, SessionInv
  <2>2. QED
    BY <1>2, <2>1
<1>9. \A u, t \in Session : cand'[u] \cap Held(t)' \subseteq live'
  BY <1>1, <1>4, <1>8 DEF IInv, RowLocks
<1>10. QED
  BY <1>3, <1>5, <1>7, <1>9 DEF IInv, RowLocks

(* The rows of a session stay as they are when neither they nor what its
   request is about change. *)
LEMMA HeldRowStays ==
  ASSUME NEW s \in Session, NEW id, HeldRow(s, id), db' = db, own'[s][id] = own[s][id],
         req'[s].kind = req[s].kind, req'[s].user = req[s].user, req'[s].id = req[s].id,
         req'[s].cadence = req[s].cadence, ensured[s] \subseteq ensured'[s],
         pc[s] # "sweep" \/ req[s].kind # "cadence" \/ (pc'[s] = "sweep" /\ req'[s] = req[s])
  PROVE  HeldRow(s, id)'
BY DEF HeldRow, Writes, db

LEMMA PlainInv ==
  ASSUME IInv, TypeOK', NEW s \in Session,
         (\E r \in Requests : Begin(s, r)) \/ Lookup(s) \/ Keep(s) \/ Miss(s) \/ CheckClash(s)
           \/ ChooseState(s) \/ EndSweep(s)
  PROVE  IInv'
<1> USE DEF IInv
<1>1. db' = db /\ last' = last /\ own' = own /\ Held(s)' = Held(s)
  BY DEF Begin, Lookup, Keep, Miss, CheckClash, ChooseState, EndSweep, tx, Held
<1>2. \A t \in Session \ {s} :
        /\ pc'[t] = pc[t] /\ req'[t] = req[t] /\ own'[t] = own[t]
        /\ cand'[t] = cand[t] /\ ensured'[t] = ensured[t]
  BY DEF Begin, Lookup, Keep, Miss, CheckClash, ChooseState, EndSweep, tx, TypeOK, NextWord, Ensure
<1>3. SessionInv(s) /\ live \subseteq 1..last
  OBVIOUS
<1>4. SessionInv(s)' /\ (cand'[s] \subseteq cand[s] \/ cand'[s] \subseteq live)
  <2>1. CASE \E r \in Requests : Begin(s, r)
    <3>1. PICK r \in Requests : Begin(s, r)
      BY <2>1
    <3>2. Held(s) = {} /\ cand[s] = {} /\ cand' = cand /\ pc'[s] = "lookup"
      BY <1>3, <3>1 DEF Begin, SessionInv, TypeOK
    <3>3. QED
      BY <1>1, <3>2 DEF SessionInv
  <2>2. CASE Lookup(s)
    <3>1. PICK words :
            cand' = [cand EXCEPT ![s] = {id \in live : Where(req[s], words, id, rows[id])}]
      BY <2>2 DEF Lookup
    <3>2. cand'[s] = {id \in live : Where(req[s], words, id, rows[id])}
      BY <3>1 DEF TypeOK
    <3>3. /\ req' = req /\ ensured' = ensured /\ pc[s] = "lookup"
          /\ pc'[s] \in {"lock", "sweep"}
          /\ pc'[s] = "sweep" => req[s].kind # "edit"
      BY <2>2 DEF Lookup, TypeOK
    <3>4. \A id \in cand'[s] : rows[id].user = req[s].user
      BY <3>2 DEF Where
    <3>5. \A id \in Held(s) : HeldRow(s, id)'
      BY <1>1, <1>3, <3>3, HeldRowStays DEF SessionInv
    <3>6. QED
      BY <1>1, <1>3, <3>2, <3>3, <3>4, <3>5 DEF SessionInv, db
  <2>3. CASE Keep(s) \/ CheckClash(s)
    <3>1. /\ req' = req /\ ensured' = ensured /\ cand' = cand /\ pc[s] = "lock"
          /\ pc'[s] \in {"lookup", "commit", "write"}
          /\ pc'[s] = "write" => req[s].kind = "edit"
      BY <2>3 DEF Keep, CheckClash, Locked, NextWord, TypeOK, tx
    <3>2. \A id \in Held(s) : HeldRow(s, id)'
      BY <1>1, <1>3, <3>1, HeldRowStays DEF SessionInv
    <3>3. QED
      BY <1>1, <1>3, <3>1, <3>2 DEF SessionInv, db
  <2>4. CASE Miss(s)
    <3>1. /\ ensured' = ensured /\ cand' = cand /\ pc[s] = "lock" /\ pc'[s] = "insert"
          /\ req[s].kind \in {"create", "add"}
      BY <2>4 DEF Miss, Locked, TypeOK, tx
    <3>2. req[s] \in Request
      BY <3>1 DEF TypeOK
    <3>3. req'[s].kind = req[s].kind /\ req'[s].user = req[s].user /\ req'[s].id = req[s].id
      <4>1. CASE req[s].kind = "create"
        BY <2>4, <4>1 DEF Miss
      <4>2. CASE req[s].kind # "create"
        <5>1. PICK c : req' = [req EXCEPT ![s].cadence = c]
          BY <2>4, <4>2 DEF Miss
        <5>2. req'[s] = [req[s] EXCEPT !.cadence = c]
          BY <5>1 DEF TypeOK
        <5>3. QED
          BY <3>2, <5>2 DEF Request
      <4>3. QED
        BY <4>1, <4>2
    <3>4. ASSUME NEW id \in Held(s) PROVE HeldRow(s, id)'
      <4>1. HeldRow(s, id)
        BY <1>3 DEF SessionInv
      <4>2. req[s].kind = "create" \/ req[s].kind = "add"
        BY <2>4 DEF Miss
      <4>3. req[s].kind = "create" => req'[s] = req[s]
        BY <2>4 DEF Miss
      <4>4. QED
        BY <1>1, <3>1, <3>3, <4>1, <4>2, <4>3 DEF HeldRow, Writes, db
    <3>5. QED
      BY <1>1, <1>3, <3>1, <3>3, <3>4 DEF SessionInv, db
  <2>5. CASE ChooseState(s)
    <3>1. /\ ensured' = ensured /\ pc[s] = "lock" /\ pc'[s] \in {"commit", "sweep"}
          /\ req[s].kind = "toggle" /\ req[s] \in Request
      BY <2>5 DEF ChooseState, Locked, TypeOK
    <3>2. req'[s].kind = req[s].kind /\ req'[s].user = req[s].user /\ req'[s].id = req[s].id
      <4>1. CASE Held(s) = {}
        BY <2>5, <4>1 DEF ChooseState
      <4>2. CASE Held(s) # {}
        <5>1. req'[s] = [req[s] EXCEPT !.active = \A id \in Held(s) : ~own[s][id].active]
          BY <2>5, <4>2 DEF ChooseState, TypeOK
        <5>2. QED
          BY <3>1, <5>1 DEF Request
      <4>3. QED
        BY <4>1, <4>2
    <3>3. \/ cand'[s] = cand[s]
          \/ cand'[s] = {id \in live : Where(req[s], {}, id, rows[id])}
      BY <2>5 DEF ChooseState, TypeOK
    <3>4. \A id \in cand'[s] \cap live : rows[id].user = req[s].user
      BY <1>3, <3>3 DEF SessionInv, Where
    <3>5. ASSUME NEW id \in Held(s) PROVE HeldRow(s, id)'
      <4>1. HeldRow(s, id)
        BY <1>3 DEF SessionInv
      <4>2. QED
        BY <1>1, <3>1, <3>2, <4>1 DEF HeldRow, Writes, db
    <3>6. QED
      BY <1>1, <1>3, <3>1, <3>2, <3>3, <3>4, <3>5 DEF SessionInv, db
  <2>6. CASE EndSweep(s)
    <3>1. /\ req' = req /\ cand' = cand /\ pc[s] = "sweep" /\ pc'[s] = "commit"
      BY <2>6 DEF EndSweep, TypeOK
    <3>2. ASSUME NEW id \in Held(s) PROVE HeldRow(s, id)'
      <4>1. HeldRow(s, id)
        BY <1>3 DEF SessionInv
      <4>2. CASE req[s].kind # "cadence"
        <5>1. ensured' = ensured
          BY <2>6, <4>2 DEF EndSweep
        <5>2. QED
          BY <1>1, <3>1, <4>1, <4>2, <5>1, HeldRowStays
      <4>3. CASE req[s].kind = "cadence"
        <5>1. /\ ensured[s] \subseteq ensured'[s]
              /\ req[s].cadence # "off" => <<req[s].user, req[s].cadence>> \in ensured'[s]
          BY <2>6, <4>3 DEF EndSweep, Ensure, TypeOK
        <5>2. QED
          BY <1>1, <3>1, <4>1, <5>1 DEF HeldRow, db
      <4>4. QED
        BY <4>2, <4>3
    <3>3. QED
      BY <1>1, <1>3, <3>1, <3>2 DEF SessionInv, db
  <2>7. QED
    BY <2>1, <2>2, <2>3, <2>4, <2>5, <2>6
<1>5. \A id \in Held(s)' \ Held(s) : id = last + 1 \/ (id \in live /\ Free(s, id))
  BY <1>1
<1>6. QED
  BY <1>1, <1>2, <1>4, <1>5, LocalStep

(* A row that session s may take, or has. *)
Takeable(s, id) == id \in Held(s) \/ id = last + 1 \/ (id \in live /\ Free(s, id))

(* The steps that take a row, or change one that is held, leave the others alone. *)
LEMMA HoldInv ==
  ASSUME IInv, TypeOK', NEW s \in Session, NEW id \in Id, NEW row \in Row, Hold(s, id, row),
         db' = db, last' \in {last, last + 1}, id \in 1..last',
         Takeable(s, id),
         \A t \in Session \ {s} :
           /\ pc'[t] = pc[t] /\ req'[t] = req[t] /\ cand'[t] = cand[t] /\ ensured'[t] = ensured[t],
         req'[s] = req[s], pc[s] # "idle", pc'[s] # "idle", cand'[s] \subseteq cand[s],
         ensured[s] \subseteq ensured'[s],
         pc'[s] = "insert" => req[s].kind \in {"create", "add"},
         pc'[s] = "sweep" => req[s].kind # "edit",
         pc'[s] = "write" => req[s].kind = "edit",
         pc[s] # "sweep" \/ req[s].kind # "cadence" \/ pc'[s] = "sweep",
         HeldRow(s, id)'
  PROVE  IInv'
<1>1. /\ \A x \in Held(s) \ {id} : own'[s][x] = own[s][x]
      /\ Held(s)' = Held(s) \cup {id}
      /\ \A t \in Session : t # s => own'[t] = own[t]
  BY Holding DEF IInv
<1>2. SessionInv(s)
  BY DEF IInv
<1>3. ASSUME NEW x \in Held(s)' PROVE HeldRow(s, x)'
  <2>1. CASE x = id
    BY <2>1
  <2>2. CASE x # id
    <3>1. x \in Held(s) /\ own'[s][x] = own[s][x]
      BY <1>1, <2>2
    <3>2. HeldRow(s, x)
      BY <1>2, <3>1 DEF SessionInv
    <3>3. QED
      BY <3>1, <3>2 DEF HeldRow, db
  <2>3. QED
    BY <2>1, <2>2
<1>4. 1..last \subseteq 1..last'
  BY RegistryConstants DEF IInv, TypeOK
<1>5. SessionInv(s)'
  BY <1>1, <1>2, <1>3, <1>4 DEF SessionInv, db
<1>6. \A x \in Held(s)' \ Held(s) : x = last + 1 \/ (x \in live /\ Free(s, x))
  BY <1>1 DEF Takeable
<1>7. QED
  BY <1>1, <1>5, <1>6, LocalStep

LEMMA LockInv ==
  ASSUME IInv, TypeOK', NEW s \in Session, Lock(s)
  PROVE  IInv'
<1>1. PICK id \in cand[s] :
        /\ Free(s, id)
        /\ IF id \in live /\ Where(req[s], hand[s], id, rows[id])
             THEN /\ Hold(s, id, rows[id])
                  /\ cand' = [cand EXCEPT ![s] = IF req[s].kind = "toggle" THEN @ \ {id} ELSE {}]
             ELSE /\ cand' = [cand EXCEPT ![s] = @ \ {id}]
                  /\ UNCHANGED own
  BY DEF Lock
<1>2. /\ db' = db /\ last' = last /\ pc' = pc /\ req' = req /\ ensured' = ensured
      /\ pc[s] = "lock"
  BY DEF Lock
<1>3. cand'[s] \subseteq cand[s] /\ \A t \in Session \ {s} : cand'[t] = cand[t]
  BY <1>1 DEF IInv, TypeOK
<1>4. SessionInv(s)
  BY DEF IInv
<1>5. CASE id \in live /\ Where(req[s], hand[s], id, rows[id])
  <2>1. id \in Id /\ rows[id] \in Row /\ id \in 1..last
    BY <1>5 DEF IInv, TypeOK
  <2>2. own'[s][id] = rows[id]
    BY <1>1, <1>5, <2>1, Holding DEF IInv
  <2>3. rows[id].cadence # "off" => <<rows[id].user, rows[id].cadence>> \in served
    BY <1>5 DEF IInv, CadencesAreServed
  <2>4. rows[id].user = req[s].user /\ (req[s].kind = "edit" => id = req[s].id)
    BY <1>5 DEF Where, ById
  <2>5. HeldRow(s, id)'
    BY <1>2, <2>2, <2>3, <2>4 DEF HeldRow, Writes, db
  <2>6. Takeable(s, id)
    BY <1>1, <1>5 DEF Takeable
  <2>7. QED
    BY <1>1, <1>2, <1>3, <1>5, <2>1, <2>5, <2>6, HoldInv
<1>6. CASE ~(id \in live /\ Where(req[s], hand[s], id, rows[id]))
  <2>1. own' = own /\ Held(s)' = Held(s)
    BY <1>1, <1>6 DEF Held
  <2>2. \A x \in Held(s) : HeldRow(s, x)'
    BY <1>2, <1>4, <2>1 DEF SessionInv, HeldRow, db
  <2>3. SessionInv(s)'
    BY <1>2, <1>3, <1>4, <2>1, <2>2 DEF SessionInv, db
  <2>4. QED
    BY <1>2, <1>3, <2>1, <2>3, LocalStep
<1>7. QED
  BY <1>5, <1>6

LEMMA ReactivateInv ==
  ASSUME IInv, TypeOK', NEW s \in Session, Reactivate(s)
  PROVE  IInv'
<1>1. PICK id \in Found(s) :
        IF req[s].kind = "create"
          THEN /\ Hold(s, id, [own[s][id] EXCEPT !.active = TRUE, !.cadence = req[s].cadence])
               /\ Ensure(s, req[s].cadence)
          ELSE /\ Hold(s, id, [own[s][id] EXCEPT !.active = TRUE])
               /\ UNCHANGED ensured
  BY DEF Reactivate
<1>2. /\ db' = db /\ last' = last /\ req' = req /\ cand' = cand /\ pc[s] = "lock"
      /\ pc'[s] \in {"commit", "lookup"} /\ \A t \in Session \ {s} : pc'[t] = pc[t]
  BY DEF Reactivate, Locked, NextWord, IInv, TypeOK
<1>3. /\ ensured[s] \subseteq ensured'[s] /\ \A t \in Session \ {s} : ensured'[t] = ensured[t]
      /\ req[s].kind = "create" /\ req[s].cadence # "off" =>
           <<req[s].user, req[s].cadence>> \in ensured'[s]
  BY <1>1 DEF Ensure, IInv, TypeOK
<1>4. SessionInv(s) /\ req[s].cadence \in Cadence
  BY <1>2 DEF IInv, TypeOK, Request
<1>5. id \in Held(s) /\ id \in Id /\ own[s][id] \in Row /\ id \in 1..last /\ HeldRow(s, id)
  BY <1>1, <1>4, HeldType DEF Found, IInv, SessionInv
<1>6. PICK row \in Row :
        /\ Hold(s, id, row) /\ row.user = own[s][id].user /\ row.word = own[s][id].word
        /\ row.sub = own[s][id].sub /\ row.active
        /\ row.cadence = IF req[s].kind = "create" THEN req[s].cadence ELSE own[s][id].cadence
  <2>1. CASE req[s].kind = "create"
    <3> DEFINE new == [own[s][id] EXCEPT !.active = TRUE, !.cadence = req[s].cadence]
    <3>1. /\ new \in Row /\ Hold(s, id, new) /\ new.user = own[s][id].user
          /\ new.word = own[s][id].word /\ new.cadence = req[s].cadence
          /\ new.sub = own[s][id].sub /\ new.active
      BY <1>1, <1>4, <1>5, <2>1 DEF Row
    <3>2. QED
      BY <2>1, <3>1
  <2>2. CASE req[s].kind # "create"
    <3> DEFINE new == [own[s][id] EXCEPT !.active = TRUE]
    <3>1. /\ new \in Row /\ Hold(s, id, new) /\ new.user = own[s][id].user
          /\ new.word = own[s][id].word /\ new.cadence = own[s][id].cadence
          /\ new.sub = own[s][id].sub /\ new.active
      BY <1>1, <1>5, <2>2 DEF Row
    <3>2. QED
      BY <2>2, <3>1
  <2>3. QED
    BY <2>1, <2>2
<1>7. own'[s][id] = row
  BY <1>5, <1>6, Holding DEF IInv
<1>8. HeldRow(s, id)'
  <2>1. id \in live => Writes(req[s], id, rows[id], row)
    <3>1. req[s].kind \in {"create", "add"}
      BY DEF Reactivate
    <3>2. QED
      BY <1>5, <1>6, <3>1 DEF HeldRow, Writes
  <2>2. QED
    BY <1>2, <1>3, <1>5, <1>6, <1>7, <2>1 DEF HeldRow, db
<1>9. \A t \in Session \ {s} :
        /\ pc'[t] = pc[t] /\ req'[t] = req[t] /\ cand'[t] = cand[t] /\ ensured'[t] = ensured[t]
  BY <1>2, <1>3
<1>10. /\ pc[s] # "idle" /\ pc'[s] \notin {"idle", "insert", "sweep", "write"} /\ pc[s] # "sweep"
       /\ req'[s] = req[s] /\ cand'[s] \subseteq cand[s] /\ id \in 1..last'
       /\ db' = db /\ last' \in {last, last + 1} /\ ensured[s] \subseteq ensured'[s]
       /\ id \in Id /\ Takeable(s, id) /\ Hold(s, id, row)
  BY <1>2, <1>3, <1>5, <1>6 DEF Takeable
<1>11. QED
  BY <1>8, <1>9, <1>10, HoldInv

LEMMA InsertInv ==
  ASSUME IInv, TypeOK', NEW s \in Session, Insert(s)
  PROVE  IInv'
<1>1. /\ db' = db /\ last' = last + 1 /\ req' = req /\ cand' = cand /\ pc[s] = "insert"
      /\ pc'[s] \in {"commit", "lookup"} /\ \A t \in Session \ {s} : pc'[t] = pc[t]
  BY DEF Insert, NextWord, IInv, TypeOK
<1>2. /\ ensured[s] \subseteq ensured'[s] /\ \A t \in Session \ {s} : ensured'[t] = ensured[t]
      /\ req[s].cadence # "off" => <<req[s].user, req[s].cadence>> \in ensured'[s]
  BY DEF Insert, Ensure, IInv, TypeOK
<1>3. req[s] \in Request /\ last \in Nat /\ req[s].kind # "edit"
  BY <1>1, RegistryConstants DEF IInv, TypeOK, SessionInv
<1>4. PICK id \in Id : id = last + 1 /\ id \in 1..last' /\ id \notin live
  BY <1>1, <1>3, RegistryConstants DEF Insert, Id, IInv
<1>5. PICK row \in Row : /\ Hold(s, id, row)
                         /\ row.user = req[s].user /\ row.cadence = req[s].cadence
  <2>1. PICK w \in hand[s] :
          Hold(s, id, [user |-> req[s].user, sub |-> req[s].sub, word |-> w,
                       active |-> TRUE, cadence |-> req[s].cadence])
    BY <1>4 DEF Insert
  <2>2. w \in Word
    BY DEF IInv, TypeOK
  <2>3. [user |-> req[s].user, sub |-> req[s].sub, word |-> w,
         active |-> TRUE, cadence |-> req[s].cadence] \in Row
    BY <1>3, <2>2 DEF Request, Row
  <2>4. QED
    BY <2>1, <2>3
<1>6. own'[s][id] = row
  BY <1>5, Holding DEF IInv
<1>7. HeldRow(s, id)'
  BY <1>1, <1>2, <1>3, <1>4, <1>5, <1>6 DEF HeldRow, db
<1>8. \A t \in Session \ {s} :
        /\ pc'[t] = pc[t] /\ req'[t] = req[t] /\ cand'[t] = cand[t] /\ ensured'[t] = ensured[t]
  BY <1>1, <1>2
<1>9. /\ pc[s] # "idle" /\ pc'[s] \notin {"idle", "insert", "sweep", "write"} /\ pc[s] # "sweep"
      /\ req'[s] = req[s] /\ cand'[s] \subseteq cand[s] /\ id \in 1..last'
      /\ db' = db /\ last' \in {last, last + 1} /\ ensured[s] \subseteq ensured'[s]
      /\ Takeable(s, id) /\ Hold(s, id, row)
  BY <1>1, <1>2, <1>4, <1>5 DEF Takeable
<1>10. QED
  BY <1>7, <1>8, <1>9, HoldInv

LEMMA WriteInv ==
  ASSUME IInv, TypeOK', NEW s \in Session, Write(s)
  PROVE  IInv'
<1>1. PICK id \in Held(s), w \in hand[s] : Hold(s, id, [own[s][id] EXCEPT !.word = w])
  BY DEF Write
<1>2. /\ db' = db /\ last' = last /\ req' = req /\ cand' = cand /\ ensured' = ensured
      /\ pc[s] = "write" /\ pc'[s] = "commit" /\ \A t \in Session \ {s} : pc'[t] = pc[t]
  BY DEF Write, IInv, TypeOK
<1>3. SessionInv(s) /\ w \in Word
  BY DEF IInv, TypeOK
<1>4. id \in Id /\ own[s][id] \in Row /\ id \in 1..last /\ HeldRow(s, id)
  BY <1>3, HeldType DEF IInv, SessionInv
<1>5. req[s].kind = "edit"
  BY <1>2, <1>3 DEF SessionInv
<1>6. PICK row \in Row : /\ Hold(s, id, row)
                         /\ row.user = own[s][id].user /\ row.cadence = own[s][id].cadence
                         /\ row.sub = own[s][id].sub /\ row.active = own[s][id].active
  BY <1>1, <1>3, <1>4 DEF Row
<1>7. own'[s][id] = row
  BY <1>4, <1>6, Holding DEF IInv
<1>8. HeldRow(s, id)'
  BY <1>2, <1>4, <1>5, <1>6, <1>7 DEF HeldRow, Writes, db
<1>9. \A t \in Session \ {s} :
        /\ pc'[t] = pc[t] /\ req'[t] = req[t] /\ cand'[t] = cand[t] /\ ensured'[t] = ensured[t]
  BY <1>2
<1>10. /\ pc[s] # "idle" /\ pc'[s] \notin {"idle", "insert", "sweep", "write"} /\ pc[s] # "sweep"
       /\ req'[s] = req[s] /\ cand'[s] \subseteq cand[s] /\ id \in 1..last'
       /\ db' = db /\ last' \in {last, last + 1} /\ ensured[s] \subseteq ensured'[s]
       /\ id \in Id /\ Takeable(s, id) /\ Hold(s, id, row)
  BY <1>2, <1>4, <1>6 DEF Takeable
<1>11. QED
  BY <1>8, <1>9, <1>10, HoldInv

LEMMA SweepInv ==
  ASSUME IInv, TypeOK', NEW s \in Session, Sweep(s)
  PROVE  IInv'
<1> DEFINE before(id) == IF id \in Held(s) THEN own[s][id] ELSE rows[id]
<1>1. PICK id \in cand[s] :
        /\ Free(s, id)
        /\ cand' = [cand EXCEPT ![s] = @ \ {id}]
        /\ IF id \in live THEN Hold(s, id, Swept(req[s], before(id))) ELSE UNCHANGED own
  BY DEF Sweep
<1>2. /\ db' = db /\ last' = last /\ pc' = pc /\ req' = req /\ ensured' = ensured
      /\ pc[s] = "sweep"
  BY DEF Sweep
<1>3. cand'[s] = cand[s] \ {id} /\ \A t \in Session \ {s} : cand'[t] = cand[t]
  BY <1>1 DEF IInv, TypeOK
<1>4. SessionInv(s) /\ req[s].kind # "edit" /\ req[s] \in Request
  BY <1>2 DEF IInv, SessionInv, TypeOK
<1>5. CASE id \in live
  <2>1. id \in Id /\ id \in 1..last /\ rows[id] \in Row /\ rows[id].user = req[s].user
    BY <1>4, <1>5 DEF IInv, TypeOK, SessionInv
  <2>2. /\ before(id) \in Row /\ before(id).user = req[s].user
        /\ Writes(req[s], id, rows[id], before(id))
        /\ before(id).cadence # "off" =>
             \/ <<before(id).user, before(id).cadence>> \in served \cup ensured[s]
             \/ req[s].kind = "cadence" /\ before(id).cadence = req[s].cadence
    <3>1. CASE id \in Held(s)
      <4>1. HeldRow(s, id) /\ own[s][id] \in Row
        BY <1>4, <3>1, HeldType DEF SessionInv, IInv
      <4>2. QED
        BY <1>4, <1>5, <3>1, <4>1 DEF HeldRow
    <3>2. CASE id \notin Held(s)
      BY <1>5, <2>1, <3>2 DEF IInv, CadencesAreServed, Writes
    <3>3. QED
      BY <3>1, <3>2
  <2>3. PICK row \in Row :
          /\ Hold(s, id, row) /\ row.user = req[s].user /\ Writes(req[s], id, rows[id], row)
          /\ row.cadence = IF req[s].kind = "cadence" THEN req[s].cadence ELSE before(id).cadence
    <3>1. Swept(req[s], before(id)) \in Row
      BY <1>4, <2>2, SweptType
    <3>2. /\ Swept(req[s], before(id)).user = before(id).user
          /\ Writes(req[s], id, rows[id], Swept(req[s], before(id)))
          /\ Swept(req[s], before(id)).cadence =
               IF req[s].kind = "cadence" THEN req[s].cadence ELSE before(id).cadence
      BY <2>2 DEF Swept, Row, Writes
    <3>3. QED
      BY <1>1, <1>5, <2>2, <3>1, <3>2
  <2>4. own'[s][id] = row
    BY <2>1, <2>3, Holding DEF IInv
  <2>5. HeldRow(s, id)'
    BY <1>2, <1>4, <2>1, <2>2, <2>3, <2>4 DEF HeldRow, db
  <2>6. Takeable(s, id)
    BY <1>1, <1>5 DEF Takeable
  <2>7. QED
    BY <1>2, <1>3, <1>4, <2>1, <2>3, <2>5, <2>6, HoldInv
<1>6. CASE id \notin live
  <2>1. own' = own /\ Held(s)' = Held(s)
    BY <1>1, <1>6 DEF Held
  <2>2. \A x \in Held(s) : HeldRow(s, x)'
    BY <1>2, <1>4, <2>1 DEF SessionInv, HeldRow, db
  <2>3. SessionInv(s)'
    BY <1>2, <1>3, <1>4, <2>1, <2>2 DEF SessionInv, db
  <2>4. QED
    BY <1>2, <1>3, <2>1, <2>3, LocalStep
<1>7. QED
  BY <1>5, <1>6

------------------------------------------------------------------------------
(* The ends of a transaction. *)

LEMMA ResetFacts ==
  ASSUME TypeOK, NEW s \in Session, Reset(s)
  PROVE  /\ pc'[s] = "idle" /\ Held(s)' = {} /\ cand'[s] = {} /\ last' = last
         /\ \A t \in Session \ {s} :
              /\ pc'[t] = pc[t] /\ req'[t] = req[t] /\ own'[t] = own[t] /\ Held(t)' = Held(t)
              /\ cand'[t] = cand[t] /\ ensured'[t] = ensured[t]
<1>1. own'[s] = NoRows /\ \A t \in Session \ {s} : own'[t] = own[t]
  BY DEF Reset, TypeOK
<1>2. QED
  BY <1>1, NoRowsType DEF Reset, TypeOK, Held

LEMMA AbortInv ==
  ASSUME IInv, TypeOK', NEW s \in Session, Abort(s)
  PROVE  IInv'
<1>1. db' = db /\ Reset(s) /\ TypeOK
  BY DEF Abort, IInv
<1>2. SessionInv(s)'
  BY <1>1, ResetFacts DEF SessionInv
<1>3. QED
  BY <1>1, <1>2, ResetFacts, LocalStep

(* A commit replaces what its session holds, which no other holds. *)
LEMMA CommitInv ==
  ASSUME IInv, TypeOK', NEW s \in Session, Commit(s)
  PROVE  IInv'
<1>1. /\ pc[s] = "commit" /\ Reset(s) /\ TypeOK /\ SessionInv(s) /\ live \subseteq 1..last
      /\ live' = (live \cup Held(s)) \ gone[s] /\ gone[s] \subseteq Held(s)
      /\ served' = served \cup ensured[s]
      /\ Held(s) \subseteq Id
  BY HeldType DEF Commit, IInv, TypeOK
<1>2. \A id \in Id : rows'[id] = IF id \in Held(s) THEN own[s][id] ELSE rows[id]
  BY DEF Commit
<1>3. \A t \in Session \ {s} : \A id \in Held(t) :
        /\ id \notin Held(s) /\ id \in Id /\ (id \in live' <=> id \in live)
        /\ rows'[id] = rows[id]
  <2>1. \A t \in Session \ {s} : Held(t) \subseteq Id /\ Held(t) \cap Held(s) = {}
    BY HeldType DEF IInv, RowLocks
  <2>2. QED
    BY <1>1, <1>2, <2>1
<1>4. CadencesAreServed'
  <2> SUFFICES ASSUME NEW id \in live', rows'[id].cadence # "off"
               PROVE  <<rows'[id].user, rows'[id].cadence>> \in served'
    BY DEF CadencesAreServed
  <2>1. id \in Id
    BY DEF TypeOK
  <2>2. CASE id \in Held(s)
    <3>1. HeldRow(s, id) /\ rows'[id] = own[s][id]
      BY <1>1, <1>2, <2>1, <2>2 DEF SessionInv
    <3>2. QED
      BY <1>1, <3>1 DEF HeldRow
  <2>3. CASE id \notin Held(s)
    <3>1. id \in live /\ rows'[id] = rows[id]
      BY <1>1, <1>2, <2>1, <2>3
    <3>2. QED
      BY <1>1, <3>1 DEF IInv, CadencesAreServed
  <2>4. QED
    BY <2>2, <2>3
<1>5. live' \subseteq 1..last'
  BY <1>1, ResetFacts DEF SessionInv
<1>6. RowLocks'
  <2>1. \A t, u \in Session : t # u => Held(t)' \cap Held(u)' = {}
    BY <1>1, ResetFacts DEF IInv, RowLocks
  <2>2. \A t, u \in Session : cand'[t] \cap Held(u)' \subseteq live'
    <3> SUFFICES ASSUME NEW t \in Session \ {s}, NEW u \in Session \ {s},
                        NEW id \in cand[t] \cap Held(u)
                 PROVE  id \in live'
      BY <1>1, ResetFacts
    <3>1. QED
      BY <1>3 DEF IInv, RowLocks
  <2>3. QED
    BY <2>1, <2>2 DEF RowLocks
<1>7. ASSUME NEW t \in Session PROVE SessionInv(t)'
  <2>1. CASE t = s
    BY <1>1, <2>1, ResetFacts DEF SessionInv
  <2>2. CASE t # s
    <3>1. /\ pc'[t] = pc[t] /\ req'[t] = req[t] /\ own'[t] = own[t] /\ Held(t)' = Held(t)
          /\ cand'[t] = cand[t] /\ ensured'[t] = ensured[t] /\ last' = last
      BY <1>1, <2>2, ResetFacts
    <3>2. SessionInv(t)
      BY DEF IInv
    <3>3. \A id \in Held(t) : HeldRow(t, id)'
      BY <1>1, <1>3, <2>2, <3>1, <3>2 DEF SessionInv, HeldRow
    <3>4. ASSUME NEW id \in cand[t], id \in live' PROVE rows'[id].user = req[t].user
      <4>1. id \in Id
        BY <3>4 DEF TypeOK
      <4>2. id \in live
        BY <1>1, <3>4 DEF IInv, RowLocks
      <4>3. rows[id].user = req[t].user
        BY <3>2, <4>2 DEF SessionInv
      <4>4. CASE id \in Held(s)
        <5>1. HeldRow(s, id)
          BY <1>1, <4>4 DEF SessionInv
        <5>2. QED
          BY <1>2, <4>1, <4>2, <4>3, <4>4, <5>1 DEF HeldRow, Writes
      <4>5. CASE id \notin Held(s)
        BY <1>2, <4>1, <4>3, <4>5
      <4>6. QED
        BY <4>4, <4>5
    <3>5. QED
      BY <3>1, <3>2, <3>3, <3>4 DEF SessionInv
  <2>3. QED
    BY <2>1, <2>2
<1>8. QED
  BY <1>4, <1>5, <1>6, <1>7 DEF IInv

LEMMA StepInv == IInv /\ [Next]_vars => IInv'
<1> SUFFICES ASSUME IInv, [Next]_vars PROVE IInv'
  OBVIOUS
<1>1. TypeOK'
  BY StepType DEF IInv
<1>2. CASE UNCHANGED vars
  BY <1>2 DEF vars, db, tx, IInv, TypeOK, CadencesAreServed, RowLocks, SessionInv, HeldRow, Held
<1>3. CASE Next
  <2> PICK s \in Session :
         \/ \E r \in Requests : Begin(s, r)
         \/ Lookup(s) \/ Lock(s) \/ Keep(s) \/ Reactivate(s) \/ Miss(s) \/ Insert(s)
         \/ CheckClash(s) \/ Write(s) \/ ChooseState(s) \/ Sweep(s) \/ EndSweep(s)
         \/ Commit(s) \/ Abort(s)
    BY <1>3 DEF Next
  <2> QED
    BY <1>1, PlainInv, LockInv, ReactivateInv, InsertInv, WriteInv, SweepInv, CommitInv, AbortInv
<1>4. QED
  BY <1>2, <1>3

LEMMA InitInv == Init => IInv
<1> SUFFICES ASSUME Init PROVE IInv
  OBVIOUS
<1>1. \A s \in Session : Held(s) = {}
  BY NoRowsType DEF Init, Held
<1>2. QED
  BY <1>1, InitType DEF Init, IInv, CadencesAreServed, RowLocks, SessionInv

------------------------------------------------------------------------------
(* The inductive invariant holds of every request history: what a transaction
   holds belongs to its user and is locked, and its cadences get served. *)
THEOREM Invariance == Spec => []IInv
<1>1. QED
  BY InitInv, StepInv, PTL DEF Spec

(* Rows, requests and open transactions keep their types. *)
THEOREM TypeCorrect == Spec => []TypeOK
<1>1. IInv => TypeOK
  BY DEF IInv
<1>2. QED
  BY <1>1, Invariance, PTL

(* A monitor with email has its committed preference and schedule rows
   (querysets.py 145-150, 273-293, 399-400). *)
THEOREM EmailIsServed == Spec => []CadencesAreServed
<1>1. IInv => CadencesAreServed
  BY DEF IInv
<1>2. QED
  BY <1>1, Invariance, PTL

(* Only a commit changes committed rows, and only those its session holds. *)
LEMMA RowsChangeAtCommit ==
  ASSUME IInv, [Next]_vars, NEW id \in live, id \notin live' \/ rows'[id] # rows[id]
  PROVE  \E s \in Session :
           /\ pc[s] = "commit" /\ pc'[s] = "idle" /\ HeldRow(s, id)
           /\ id \in live' => rows'[id] = own[s][id]
<1>1. CASE db' = db
  BY <1>1 DEF db
<1>2. CASE db' # db
  <2>1. PICK s \in Session : Commit(s)
    BY <1>2 DEF Next, vars, Begin, Lookup, Lock, Keep, Reactivate, Miss, Insert, CheckClash,
             Write, ChooseState, Sweep, EndSweep, Abort
  <2>2. /\ pc[s] = "commit" /\ pc'[s] = "idle" /\ id \in Id
        /\ live' = (live \cup Held(s)) \ gone[s] /\ gone[s] \subseteq Held(s)
        /\ rows'[id] = IF id \in Held(s) THEN own[s][id] ELSE rows[id]
    BY <2>1 DEF Commit, Reset, IInv, TypeOK
  <2>3. id \in Held(s)
    BY <2>2
  <2>4. HeldRow(s, id)
    BY <2>3 DEF IInv, SessionInv
  <2>5. QED
    BY <2>2, <2>3, <2>4
<1>3. QED
  BY <1>1, <1>2

(* A request changes, deletes or renames only monitors of its own user. *)
THEOREM UsersKeepTheirRows == Spec => OwnRowsOnly
<1>1. IInv /\ [Next]_vars =>
        [\A id \in live : (id \notin live' \/ rows'[id] # rows[id]) =>
           \E s \in Session : pc[s] = "commit" /\ pc'[s] = "idle" /\ req[s].user = rows[id].user]_vars
  <2> SUFFICES ASSUME IInv, [Next]_vars, NEW id \in live, id \notin live' \/ rows'[id] # rows[id]
               PROVE  \E s \in Session :
                        pc[s] = "commit" /\ pc'[s] = "idle" /\ req[s].user = rows[id].user
    OBVIOUS
  <2>1. PICK s \in Session : pc[s] = "commit" /\ pc'[s] = "idle" /\ HeldRow(s, id)
    BY RowsChangeAtCommit
  <2>2. QED
    BY <2>1 DEF HeldRow, Writes
<1>2. QED
  BY <1>1, Invariance, PTL DEF Spec, OwnRowsOnly

(* Of a monitor, requests change only the columns they are about
   (querysets.py 127, 243, 307, 344-352). *)
THEOREM ColumnsAreKept == Spec => ColumnsFollowRequests
<1>1. IInv /\ [Next]_vars =>
        [\A id \in live \cap live' : rows'[id] # rows[id] =>
           \E s \in Session : /\ pc[s] = "commit" /\ pc'[s] = "idle"
                              /\ req[s].user = rows[id].user
                              /\ Writes(req[s], id, rows[id], rows'[id])]_vars
  <2> SUFFICES ASSUME IInv, [Next]_vars, NEW id \in live, id \in live', rows'[id] # rows[id]
               PROVE  \E s \in Session : /\ pc[s] = "commit" /\ pc'[s] = "idle"
                                         /\ req[s].user = rows[id].user
                                         /\ Writes(req[s], id, rows[id], rows'[id])
    OBVIOUS
  <2>1. PICK s \in Session : /\ pc[s] = "commit" /\ pc'[s] = "idle" /\ HeldRow(s, id)
                             /\ rows'[id] = own[s][id]
    BY RowsChangeAtCommit
  <2>2. Writes(req[s], id, rows[id], rows'[id]) /\ own[s][id].user = req[s].user
    BY <2>1 DEF HeldRow
  <2>3. QED
    BY <2>1, <2>2 DEF Writes
<1>2. QED
  BY <1>1, Invariance, PTL DEF Spec, ColumnsFollowRequests

------------------------------------------------------------------------------
(* Batches. *)

(* Session s holds an active monitor for keyword w, in the group of its request. *)
Covered(s, w) ==
  \E id \in Held(s) :
    /\ own[s][id].user = req[s].user /\ own[s][id].sub = req[s].sub
    /\ own[s][id].word[1] = w[1] /\ own[s][id].active

(* Each keyword of a batch is still to handle, in hand, or covered by a row that is
   held; its keywords differ in more than spelling, so that the row taken for one is
   not taken again for another. *)
BatchInv(s) ==
  pc[s] # "idle" /\ req[s].kind = "create" =>
    /\ pc[s] \in {"lookup", "lock", "insert", "commit"}
    /\ pc[s] = "lookup" => todo[s] # {}
    /\ pc[s] = "commit" => todo[s] = {}
    /\ gone[s] = {} /\ todo[s] \subseteq req[s].words
    /\ \A v, w \in req[s].words : v[1] = w[1] => v = w
    /\ pc[s] \in {"lock", "insert"} => \E w \in req[s].words : hand[s] = {w}
    /\ \A id \in Held(s) : own[s][id].sub = req[s].sub
    /\ \A w \in req[s].words \ todo[s] :
         Covered(s, w) \/ (pc[s] \in {"lock", "insert"} /\ w \in hand[s])

BatchesInv == \A s \in Session : BatchInv(s)

(* A step of one session leaves the transactions of the others alone. *)
LEMMA OthersStay ==
  ASSUME TypeOK, NEW s \in Session, NEW t \in Session, t # s,
         \/ \E r \in Requests : Begin(s, r)
         \/ Lookup(s) \/ Lock(s) \/ Keep(s) \/ Reactivate(s) \/ Miss(s) \/ Insert(s)
         \/ CheckClash(s) \/ Write(s) \/ ChooseState(s) \/ Sweep(s) \/ EndSweep(s)
         \/ Commit(s) \/ Abort(s)
  PROVE  /\ pc'[t] = pc[t] /\ req'[t] = req[t] /\ todo'[t] = todo[t] /\ hand'[t] = hand[t]
         /\ own'[t] = own[t] /\ gone'[t] = gone[t]
<1>1. pc'[t] = pc[t]
  BY DEF TypeOK, Begin, Lookup, Lock, Keep, Reactivate, Miss, Insert, CheckClash, Write,
         ChooseState, Sweep, EndSweep, Commit, Abort, Reset, NextWord
<1>2. req'[t] = req[t]
  BY DEF TypeOK, Begin, Lookup, Lock, Keep, Reactivate, Miss, Insert, CheckClash, Write,
         ChooseState, Sweep, EndSweep, Commit, Abort, Reset
<1>3. todo'[t] = todo[t] /\ hand'[t] = hand[t] /\ gone'[t] = gone[t]
  BY DEF TypeOK, Begin, Lookup, Lock, Keep, Reactivate, Miss, Insert, CheckClash, Write,
         ChooseState, Sweep, EndSweep, Commit, Abort, Reset, tx
<1>4. own'[t] = own[t]
  BY DEF TypeOK, Begin, Lookup, Lock, Keep, Reactivate, Miss, Insert, CheckClash, Write,
         ChooseState, Sweep, EndSweep, Commit, Abort, Reset, tx, Hold
<1>5. QED
  BY <1>1, <1>2, <1>3, <1>4

(* The keyword in hand is done with: it is covered, and the others stay so. *)
LEMMA WordDone ==
  ASSUME IInv, NEW s \in Session, BatchInv(s), req[s].kind = "create",
         pc[s] \in {"lock", "insert"}, req' = req, todo' = todo, gone' = gone, NextWord(s),
         \A w \in req[s].words : Covered(s, w) => Covered(s, w)',
         \A w \in hand[s] : Covered(s, w)',
         \A id \in Held(s)' : own'[s][id].sub = req[s].sub
  PROVE  BatchInv(s)'
<1>1. pc'[s] = IF todo[s] = {} THEN "commit" ELSE "lookup"
  BY DEF NextWord, IInv, TypeOK
<1>2. \A w \in req[s].words \ todo[s] : Covered(s, w)'
  BY DEF BatchInv
<1>3. QED
  BY <1>1, <1>2 DEF BatchInv

LEMMA BatchBegin ==
  ASSUME IInv, NEW s \in Session, NEW r \in Requests, Begin(s, r) PROVE BatchInv(s)'
<1>1. /\ pc[s] = "idle" /\ pc'[s] = "lookup" /\ req'[s] = r /\ todo'[s] = r.words
      /\ gone' = gone /\ own' = own
  BY DEF Begin, IInv, TypeOK
<1>2. Held(s)' = {} /\ gone'[s] = {}
  BY <1>1 DEF IInv, SessionInv, TypeOK, Held
<1>3. r.kind = "create" => r.words # {} /\ \A v, w \in r.words : v[1] = w[1] => v = w
  BY DEF Requests, OneWord
<1>4. QED
  BY <1>1, <1>2, <1>3 DEF BatchInv

LEMMA BatchLookup ==
  ASSUME IInv, NEW s \in Session, BatchInv(s), Lookup(s) PROVE BatchInv(s)'
<1> SUFFICES ASSUME req[s].kind = "create" PROVE BatchInv(s)'
  BY DEF BatchInv, Lookup
<1>1. pc[s] = "lookup" /\ pc'[s] = "lock" /\ req' = req /\ own' = own /\ gone' = gone
  BY DEF Lookup, IInv, TypeOK
<1>2. PICK w \in todo[s] : hand'[s] = {w} /\ todo'[s] = todo[s] \ {w}
  BY <1>1 DEF Lookup, IInv, TypeOK, BatchInv
<1>3. \A v : Covered(s, v) => Covered(s, v)'
  BY <1>1 DEF Covered, Held
<1>4. QED
  BY <1>1, <1>2, <1>3 DEF BatchInv, Held

LEMMA BatchLock ==
  ASSUME IInv, NEW s \in Session, BatchInv(s), Lock(s) PROVE BatchInv(s)'
<1> SUFFICES ASSUME req[s].kind = "create" PROVE BatchInv(s)'
  BY DEF BatchInv, Lock
<1>1. /\ pc[s] = "lock" /\ pc' = pc /\ req' = req /\ todo' = todo /\ hand' = hand /\ gone' = gone
  BY DEF Lock
<1>2. PICK w \in req[s].words : hand[s] = {w}
  BY <1>1 DEF BatchInv
<1>3. PICK id \in cand[s] :
        IF id \in live /\ Where(req[s], hand[s], id, rows[id])
          THEN Hold(s, id, rows[id]) ELSE UNCHANGED own
  BY DEF Lock
<1>4. CASE own' = own
  BY <1>1, <1>4 DEF BatchInv, Covered, Held
<1>5. CASE id \in live /\ Where(req[s], hand[s], id, rows[id])
  <2>1. id \in Id /\ rows[id] \in Row
    BY <1>5 DEF IInv, TypeOK
  <2>2. /\ own'[s][id] = rows[id] /\ Held(s)' = Held(s) \cup {id}
        /\ \A x \in Held(s) \ {id} : own'[s][x] = own[s][x]
    BY <1>3, <1>5, <2>1, Holding DEF IInv
  <2>3. rows[id].sub = req[s].sub /\ rows[id].word[1] = w[1]
    BY <1>2, <1>5 DEF Where, ById
  <2>4. ASSUME NEW v \in req[s].words, v # w, Covered(s, v) PROVE Covered(s, v)'
    <3>1. PICK x \in Held(s) :
            /\ own[s][x].user = req[s].user /\ own[s][x].sub = req[s].sub
            /\ own[s][x].word[1] = v[1] /\ own[s][x].active
      BY <2>4 DEF Covered
    <3>2. x # id
      <4>1. HeldRow(s, x)
        BY DEF IInv, SessionInv
      <4>2. ASSUME x = id PROVE FALSE
        <5>1. own[s][x].word = rows[id].word
          BY <1>1, <1>5, <4>1, <4>2 DEF HeldRow, Writes
        <5>2. v[1] = w[1]
          BY <2>3, <3>1, <5>1
        <5>3. QED
          BY <1>1, <2>4, <5>2 DEF BatchInv
      <4>3. QED
        BY <4>2
    <3>3. x \in Held(s)' /\ own'[s][x] = own[s][x]
      BY <2>2, <3>2
    <3>4. QED
      BY <1>1, <3>1, <3>3 DEF Covered
  <2>5. \A x \in Held(s)' : own'[s][x].sub = req[s].sub
    BY <1>1, <2>2, <2>3 DEF BatchInv
  <2>6. QED
    BY <1>1, <1>2, <2>4, <2>5 DEF BatchInv
<1>6. QED
  BY <1>3, <1>4, <1>5

LEMMA BatchKeep ==
  ASSUME IInv, NEW s \in Session, BatchInv(s), Keep(s) PROVE BatchInv(s)'
<1> SUFFICES ASSUME req[s].kind = "create" PROVE BatchInv(s)'
  BY DEF BatchInv, Keep
<1>1. /\ pc[s] = "lock" /\ req' = req /\ todo' = todo /\ gone' = gone /\ own' = own
      /\ NextWord(s)
  BY DEF Keep, Locked, tx
<1>2. PICK w \in req[s].words : hand[s] = {w}
  BY <1>1 DEF BatchInv
<1>3. Covered(s, w)
  <2>1. PICK id \in Found(s) : own[s][id].active
    BY DEF Keep
  <2>2. id \in Held(s) /\ own[s][id].word[1] = w[1]
    BY <1>2 DEF Found
  <2>3. own[s][id].user = req[s].user /\ own[s][id].sub = req[s].sub
    BY <1>1, <2>2 DEF IInv, SessionInv, HeldRow, BatchInv
  <2>4. QED
    BY <2>1, <2>2, <2>3 DEF Covered
<1>4. \A v : Covered(s, v) => Covered(s, v)'
  BY <1>1 DEF Covered, Held
<1>5. \A id \in Held(s)' : own'[s][id].sub = req[s].sub
  BY <1>1 DEF BatchInv, Held
<1>6. QED
  BY <1>1, <1>2, <1>3, <1>4, <1>5, WordDone

LEMMA BatchReactivate ==
  ASSUME IInv, NEW s \in Session, BatchInv(s), Reactivate(s) PROVE BatchInv(s)'
<1> SUFFICES ASSUME req[s].kind = "create" PROVE BatchInv(s)'
  BY DEF BatchInv, Reactivate
<1>1. pc[s] = "lock" /\ req' = req /\ todo' = todo /\ gone' = gone /\ NextWord(s)
  BY DEF Reactivate, Locked
<1>2. PICK w \in req[s].words : hand[s] = {w}
  BY <1>1 DEF BatchInv
<1> DEFINE new(id) == [own[s][id] EXCEPT !.active = TRUE, !.cadence = req[s].cadence]
<1>3. PICK id \in Found(s) : Hold(s, id, new(id))
  BY DEF Reactivate
<1>4. /\ id \in Held(s) /\ id \in Id /\ own[s][id] \in Row /\ own[s][id].word[1] = w[1]
      /\ own[s][id].user = req[s].user /\ own[s][id].sub = req[s].sub
  BY <1>1, <1>2, <1>3, HeldType DEF Found, IInv, SessionInv, HeldRow, BatchInv
<1>5. /\ new(id) \in Row /\ new(id).active /\ new(id).word = own[s][id].word
      /\ new(id).user = own[s][id].user /\ new(id).sub = own[s][id].sub
  <2>1. req[s].cadence \in Cadence
    BY <1>1 DEF IInv, TypeOK, Request
  <2>2. QED
    BY <1>4, <2>1 DEF Row
<1> HIDE DEF new
<1>6. /\ own'[s][id] = new(id) /\ Held(s)' = Held(s)
      /\ \A x \in Held(s) \ {id} : own'[s][x] = own[s][x]
  <2>1. new(id) \in Row /\ id \in Id /\ TypeOK
    BY <1>4, <1>5 DEF IInv
  <2>2. PICK row \in Row : row = new(id) /\ Hold(s, id, row)
    BY <1>3, <2>1
  <2>3. /\ own'[s][id] = row /\ Held(s)' = Held(s) \cup {id}
        /\ \A x \in Held(s) \ {id} : own'[s][x] = own[s][x]
    BY <2>1, <2>2, Holding
  <2>4. QED
    BY <1>4, <2>2, <2>3
<1>7. ASSUME NEW v \in req[s].words, Covered(s, v) PROVE Covered(s, v)'
  <2>1. PICK x \in Held(s) :
          /\ own[s][x].user = req[s].user /\ own[s][x].sub = req[s].sub
          /\ own[s][x].word[1] = v[1] /\ own[s][x].active
    BY <1>7 DEF Covered
  <2>2. /\ x \in Held(s)' /\ own'[s][x].user = req[s].user /\ own'[s][x].sub = req[s].sub
        /\ own'[s][x].word[1] = v[1] /\ own'[s][x].active
    BY <1>5, <1>6, <2>1
  <2>3. QED
    BY <1>1, <2>2 DEF Covered
<1>8. Covered(s, w)'
  BY <1>1, <1>4, <1>5, <1>6 DEF Covered
<1>9. \A x \in Held(s)' : own'[s][x].sub = req[s].sub
  BY <1>1, <1>4, <1>5, <1>6 DEF BatchInv
<1>10. QED
  BY <1>1, <1>2, <1>7, <1>8, <1>9, WordDone

LEMMA BatchInsert ==
  ASSUME IInv, NEW s \in Session, BatchInv(s), Insert(s) PROVE BatchInv(s)'
<1> SUFFICES ASSUME req[s].kind = "create" PROVE BatchInv(s)'
  BY DEF BatchInv, Insert
<1>1. pc[s] = "insert" /\ req' = req /\ todo' = todo /\ gone' = gone /\ NextWord(s)
  BY DEF Insert
<1>2. PICK w \in req[s].words : hand[s] = {w}
  BY <1>1 DEF BatchInv
<1> DEFINE new == [user |-> req[s].user, sub |-> req[s].sub, word |-> w, active |-> TRUE,
                   cadence |-> req[s].cadence]
<1>3. Hold(s, last + 1, new)
  BY <1>2 DEF Insert
<1>4. new \in Row /\ last + 1 \in Id /\ last + 1 \notin Held(s)
  <2>1. req[s] \in Request /\ w \in Word
    BY <1>1, <1>2 DEF IInv, TypeOK
  <2>2. last \in Nat /\ last + 1 \in Id
    BY RegistryConstants DEF Insert, IInv, TypeOK, Id
  <2>3. Held(s) \subseteq 1..last
    BY DEF IInv, SessionInv
  <2>4. QED
    BY <2>1, <2>2, <2>3 DEF Request, Row
<1>5. /\ new.user = req[s].user /\ new.sub = req[s].sub /\ new.word = w /\ new.active
  OBVIOUS
<1> HIDE DEF new
<1>6. /\ own'[s][last + 1] = new /\ Held(s)' = Held(s) \cup {last + 1}
      /\ \A x \in Held(s) : own'[s][x] = own[s][x]
  BY <1>3, <1>4, Holding DEF IInv
<1>7. \A v \in req[s].words : Covered(s, v) => Covered(s, v)'
  BY <1>1, <1>6 DEF Covered
<1>8. Covered(s, w)'
  BY <1>1, <1>5, <1>6 DEF Covered
<1>9. \A x \in Held(s)' : own'[s][x].sub = req[s].sub
  BY <1>1, <1>5, <1>6 DEF BatchInv
<1>10. QED
  BY <1>1, <1>2, <1>7, <1>8, <1>9, WordDone

(* The other steps are not those of a batch, or end it. *)
LEMMA BatchOther ==
  ASSUME IInv, NEW s \in Session, BatchInv(s),
         Miss(s) \/ CheckClash(s) \/ Write(s) \/ ChooseState(s) \/ Sweep(s) \/ EndSweep(s)
           \/ Commit(s) \/ Abort(s)
  PROVE  BatchInv(s)'
<1>1. CASE Miss(s)
  <2>1. CASE req[s].kind = "create"
    <3>1. /\ pc[s] = "lock" /\ pc'[s] = "insert" /\ req' = req /\ todo' = todo /\ hand' = hand
          /\ own' = own /\ gone' = gone
      BY <1>1, <2>1 DEF Miss, Locked, tx, IInv, TypeOK
    <3>2. QED
      BY <2>1, <3>1 DEF BatchInv, Covered, Held
  <2>2. CASE req[s].kind # "create"
    <3>1. PICK c : req' = [req EXCEPT ![s].cadence = c]
      BY <1>1, <2>2 DEF Miss
    <3>2. req[s] \in Request /\ req'[s] = [req[s] EXCEPT !.cadence = c]
      BY <1>1, <3>1 DEF IInv, TypeOK, Miss, Locked
    <3>3. req'[s].kind = req[s].kind
      BY <3>2 DEF Request
    <3>4. QED
      BY <2>2, <3>3 DEF BatchInv
  <2>3. QED
    BY <2>1, <2>2
<1>2. CASE CheckClash(s) \/ Write(s)
  <2>1. req' = req /\ req[s].kind = "edit"
    BY <1>2 DEF CheckClash, Write, IInv, SessionInv
  <2>2. QED
    BY <2>1 DEF BatchInv
<1>3. CASE ChooseState(s)
  <2>1. req[s].kind = "toggle" /\ req[s] \in Request
    BY <1>3 DEF ChooseState, Locked, IInv, TypeOK
  <2>2. req'[s].kind = "toggle"
    <3>1. CASE Held(s) = {}
      BY <1>3, <2>1, <3>1 DEF ChooseState
    <3>2. CASE Held(s) # {}
      <4>1. req'[s] = [req[s] EXCEPT !.active = \A id \in Held(s) : ~own[s][id].active]
        BY <1>3, <3>2 DEF ChooseState, IInv, TypeOK
      <4>2. QED
        BY <2>1, <4>1 DEF Request
    <3>3. QED
      BY <3>1, <3>2
  <2>3. QED
    BY <2>2 DEF BatchInv
<1>4. CASE Sweep(s) \/ EndSweep(s)
  <2>1. pc[s] = "sweep" /\ req' = req
    BY <1>4 DEF Sweep, EndSweep
  <2>2. req[s].kind # "create"
    BY <2>1 DEF BatchInv
  <2>3. QED
    BY <2>1, <2>2 DEF BatchInv
<1>5. CASE Commit(s) \/ Abort(s)
  <2>1. pc'[s] = "idle"
    BY <1>5 DEF Commit, Abort, Reset, IInv, TypeOK
  <2>2. QED
    BY <2>1 DEF BatchInv
<1>6. QED
  BY <1>1, <1>2, <1>3, <1>4, <1>5

LEMMA BatchStep == IInv /\ BatchesInv /\ [Next]_vars => BatchesInv'
<1> SUFFICES ASSUME IInv, BatchesInv, [Next]_vars, NEW t \in Session PROVE BatchInv(t)'
  BY DEF BatchesInv
<1>1. BatchInv(t)
  BY DEF BatchesInv
<1>2. CASE UNCHANGED vars
  BY <1>1, <1>2 DEF vars, tx, BatchInv, Covered, Held
<1>3. CASE Next
  <2> PICK s \in Session :
         \/ \E r \in Requests : Begin(s, r)
         \/ Lookup(s) \/ Lock(s) \/ Keep(s) \/ Reactivate(s) \/ Miss(s) \/ Insert(s)
         \/ CheckClash(s) \/ Write(s) \/ ChooseState(s) \/ Sweep(s) \/ EndSweep(s)
         \/ Commit(s) \/ Abort(s)
    BY <1>3 DEF Next
  <2>1. CASE t = s
    BY <1>1, <2>1, BatchBegin, BatchLookup, BatchLock, BatchKeep, BatchReactivate, BatchInsert,
       BatchOther
  <2>2. CASE t # s
    <3>1. /\ pc'[t] = pc[t] /\ req'[t] = req[t] /\ todo'[t] = todo[t] /\ hand'[t] = hand[t]
          /\ own'[t] = own[t] /\ gone'[t] = gone[t]
      BY <2>2, OthersStay DEF IInv
    <3>2. QED
      BY <1>1, <3>1 DEF BatchInv, Covered, Held
  <2>3. QED
    BY <2>1, <2>2
<1>4. QED
  BY <1>2, <1>3

LEMMA Batches == Spec => []BatchesInv
<1>1. Init => BatchesInv
  BY DEF Init, BatchesInv, BatchInv
<1>2. QED
  BY <1>1, BatchStep, Invariance, PTL DEF Spec

(* When a batch is committed, each of its keywords has an active monitor in its group,
   whatever others do meanwhile (querysets.py 96-170). *)
THEOREM BatchesTakeEffect == Spec => CreatesTakeEffect
<1> DEFINE Effect(s) ==
      pc[s] = "commit" /\ pc'[s] = "idle" /\ req[s].kind = "create" =>
        \A w \in req[s].words : \E id \in live' :
          /\ rows'[id].user = req[s].user /\ rows'[id].sub = req[s].sub
          /\ rows'[id].word[1] = w[1] /\ rows'[id].active
<1>1. IInv /\ BatchesInv /\ [Next]_vars => [\A s \in Session : Effect(s)]_vars
  <2> SUFFICES ASSUME IInv, BatchesInv, [Next]_vars, NEW s \in Session,
                      pc[s] = "commit", pc'[s] = "idle", req[s].kind = "create",
                      NEW w \in req[s].words
               PROVE  \E id \in live' :
                        /\ rows'[id].user = req[s].user /\ rows'[id].sub = req[s].sub
                        /\ rows'[id].word[1] = w[1] /\ rows'[id].active
    OBVIOUS
  <2>1. PICK t \in Session :
         \/ \E r \in Requests : Begin(t, r)
         \/ Lookup(t) \/ Lock(t) \/ Keep(t) \/ Reactivate(t) \/ Miss(t) \/ Insert(t)
         \/ CheckClash(t) \/ Write(t) \/ ChooseState(t) \/ Sweep(t) \/ EndSweep(t)
         \/ Commit(t) \/ Abort(t)
    BY DEF Next, vars
  <2>2. t = s
    BY <2>1, OthersStay DEF IInv
  <2>3. Commit(s)
    BY <2>1, <2>2 DEF Begin, Lookup, Lock, Keep, Locked, Reactivate, Miss, Insert, CheckClash, Write,
                      ChooseState, Sweep, EndSweep, Abort
  <2>4. Covered(s, w) /\ gone[s] = {}
    BY DEF BatchesInv, BatchInv
  <2>5. PICK id \in Held(s) :
          /\ own[s][id].user = req[s].user /\ own[s][id].sub = req[s].sub
          /\ own[s][id].word[1] = w[1] /\ own[s][id].active
    BY <2>4 DEF Covered
  <2>6. id \in live' /\ rows'[id] = own[s][id]
    BY <2>3, <2>4, HeldType DEF Commit, IInv
  <2>7. QED
    BY <2>5, <2>6
<1>2. QED
  BY <1>1, Invariance, Batches, PTL DEF Spec, CreatesTakeEffect
==============================================================================
