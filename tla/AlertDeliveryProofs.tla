------------------------- MODULE AlertDeliveryProofs -------------------------
(***************************************************************************)
(* Proofs about AlertDelivery for every number of workers, users, monitors *)
(* and mails in flight: its types, that a cadence always has the rows it   *)
(* needs to be served, and that the dispatch implements AlertContract.     *)
(***************************************************************************)
EXTENDS AlertDelivery, TLAPS

(* A monitor whose cadence asks for email has what delivers it: a baseline,
   and a schedule row for a periodic cadence (schedules.py 53-60). *)
CadenceHasDelivery ==
  \A m \in Monitor : monitors[m].cadence # "off" =>
    /\ Owner[m] \in started
    /\ monitors[m].cadence \in Periodic => schedule[Owner[m]][monitors[m].cadence] # "none"

(* The mail server took every mail that waits for its callback. *)
AcceptedWereMailed ==
  \A k \in Slot : mail[k].state = "accepted" => Contents(k) \subseteq mailed

(* Only users with a baseline are on a dispatch's list. *)
ListedAreStarted == \A w \in Worker : \A j \in left[w] : j[1] \in started

IInv == TypeOK /\ CadenceHasDelivery /\ AcceptedWereMailed /\ ListedAreStarted

Mails == [state : {"free", "queued", "accepted"}, to : User, items : SUBSET Item]

------------------------------------------------------------------------------
LEMMA NoMailType == NoMail \in Mails /\ NoMail.state = "free"
BY AlertConstants DEF NoMail, Mails

LEMMA PendingItems ==
  ASSUME NEW u, NEW c, NEW among
  PROVE  Pending(u, c, among) \subseteq Item
BY DEF Pending

(* What a started user's query at one cadence selects is open. *)
LEMMA PendingIsOpen ==
  ASSUME NEW u \in started, NEW c \in Cadences \ {"off"}, NEW among, TypeOK
  PROVE  {u} \X Pending(u, c, among) \subseteq Open
<1> SUFFICES ASSUME NEW i \in Pending(u, c, among)
             PROVE  <<u, i>> \in Open
  OBVIOUS
<1>1. u \in User /\ i \in Item
  BY DEF TypeOK, Pending
<1>2. QED
  BY <1>1 DEF Pending, Open, Alerts

------------------------------------------------------------------------------
LEMMA InitInv == Init => IInv
<1> SUFFICES ASSUME Init PROVE IInv
  OBVIOUS
<1> USE AlertConstants DEF Init
<1>1. <<CHOOSE u \in User : TRUE, "immediate">> \in Jobs
  BY DEF Jobs, Cadences
<1>2. TypeOK
  <2>1. job \in [Worker -> Jobs]
    BY <1>1
  <2>2. mail \in [Slot -> Mails]
    BY NoMailType
  <2>3. monitors \in [Monitor -> [active : BOOLEAN, cadence : Cadences]]
    BY DEF Cadences
  <2>4. schedule \in [User -> [Periodic -> {"none", "waiting", "due"}]]
    OBVIOUS
  <2>5. QED
    BY <2>1, <2>2, <2>3, <2>4 DEF TypeOK, Mails
<1>3. CadenceHasDelivery /\ AcceptedWereMailed /\ ListedAreStarted
  BY NoMailType DEF CadenceHasDelivery, AcceptedWereMailed, ListedAreStarted
<1>4. QED
  BY <1>2, <1>3 DEF IInv

------------------------------------------------------------------------------
(* Types. *)

LEMMA DispatchType ==
  ASSUME TypeOK, NEW w \in Worker,
         (\E batch \in notices : StartNotice(w, batch)) \/ StartDue(w) \/ LoadSchedules(w)
           \/ Pick(w) \/ Skip(w) \/ Finish(w) \/ Die(w)
  PROVE  TypeOK'
<1> USE AlertConstants DEF TypeOK, settings, AfterSend, Jobs, Cadences
<1>1. CASE \E batch \in notices : StartNotice(w, batch)
  <2>1. PICK batch \in notices : StartNotice(w, batch)
    BY <1>1
  <2>2. \A p \in batch \cap matches : <<Owner[p[1]], "immediate">> \in Jobs
    BY DEF Pairs
  <2>3. QED
    BY <2>1, <2>2 DEF StartNotice
<1>2. CASE StartDue(w)
  BY <1>2 DEF StartDue
<1>3. CASE LoadSchedules(w)
  BY <1>3 DEF LoadSchedules
<1>4. CASE Pick(w)
  BY <1>4, PendingItems DEF Pick
<1>5. CASE Skip(w)
  BY <1>5 DEF Skip
<1>6. CASE Finish(w)
  BY <1>6 DEF Finish
<1>7. CASE Die(w)
  BY <1>7 DEF Die
<1>8. QED
  BY <1>1, <1>2, <1>3, <1>4, <1>5, <1>6, <1>7

LEMMA ScheduleType ==
  ASSUME TypeOK, NEW u \in User, NEW c, NEW s \in {"waiting", "due"},
         schedule' = [schedule EXCEPT ![u][c] = s]
  PROVE  schedule' \in [User -> [Periodic -> {"none", "waiting", "due"}]]
<1>1. [schedule[u] EXCEPT ![c] = s] \in [Periodic -> {"none", "waiting", "due"}]
  BY DEF TypeOK
<1>2. QED
  BY <1>1 DEF TypeOK

LEMMA AdvanceType ==
  ASSUME TypeOK, NEW w \in Worker, Advance(w)
  PROVE  TypeOK'
<1>1. schedule' \in [User -> [Periodic -> {"none", "waiting", "due"}]]
  BY ScheduleType DEF Advance, TypeOK, Jobs
<1>2. QED
  BY <1>1 DEF TypeOK, Advance

LEMMA MailType ==
  ASSUME TypeOK,
         (\E w \in Worker : Enqueue(w)) \/ \E k \in Slot : Deliver(k) \/ LoseMail(k)
  PROVE  TypeOK'
<1> USE DEF TypeOK, settings, dispatch
<1>1. CASE \E w \in Worker : Enqueue(w)
  <2>1. PICK w \in Worker : Enqueue(w)
    BY <1>1
  <2>2. [state |-> "queued", to |-> job[w][1], items |-> picked[w]] \in Mails
    BY DEF Mails, Jobs
  <2>3. mail' \in [Slot -> Mails]
    BY <2>1, <2>2 DEF Enqueue, Mails
  <2>4. QED
    BY <2>1, <2>3 DEF Enqueue, AfterSend, Mails
<1>2. CASE \E k \in Slot : Deliver(k) \/ LoseMail(k)
  <2>1. PICK k \in Slot : Deliver(k) \/ LoseMail(k)
    BY <1>2
  <2>2. Contents(k) \subseteq Alerts
    BY DEF Contents, Alerts
  <2>3. CASE SendMail(k)
    <3>1. [mail[k] EXCEPT !.state = "accepted"] \in Mails
      BY mail[k] \in Mails DEF Mails
    <3>2. mail' = [mail EXCEPT ![k] = [mail[k] EXCEPT !.state = "accepted"]]
      BY <2>3 DEF SendMail
    <3>3. mail' \in [Slot -> Mails]
      BY <3>1, <3>2 DEF Mails
    <3>4. QED
      BY <2>2, <2>3, <3>3 DEF SendMail, Mails
  <2>4. CASE RecordDelivery(k)
    BY <2>2, <2>4, NoMailType DEF RecordDelivery, Mails
  <2>5. CASE LoseMail(k)
    BY <2>5, NoMailType, AlertConstants DEF LoseMail, Mails
  <2>6. QED
    BY <2>1, <2>3, <2>4, <2>5 DEF Deliver
<1>3. QED
  BY <1>1, <1>2

LEMMA EnvironmentType ==
  ASSUME TypeOK, Environment
  PROVE  TypeOK'
<1> USE AlertConstants DEF TypeOK, settings, dispatch
<1>1. CASE \E batch \in SUBSET Pairs, announced \in BOOLEAN : CommitMatches(batch, announced)
  BY <1>1 DEF CommitMatches
<1>2. CASE \E p \in matches : RemoveMatch(p)
  BY <1>2 DEF RemoveMatch
<1>3. CASE \E m \in Monitor, c \in Cadences, active \in BOOLEAN : SetCadence(m, c, active)
  <2>1. PICK m \in Monitor, c \in Cadences, active \in BOOLEAN : SetCadence(m, c, active)
    BY <1>3
  <2>2. schedule' \in [User -> [Periodic -> {"none", "waiting", "due"}]] /\ started' \subseteq User
    BY <2>1, ScheduleType DEF SetCadence, EnsureDeliveryState
  <2>3. QED
    BY <2>1, <2>2 DEF SetCadence
<1>4. CASE \E m \in Monitor : Toggle(m)
  <2>1. PICK m \in Monitor : Toggle(m)
    BY <1>4
  <2>2. [monitors[m] EXCEPT !.active = ~@] \in [active : BOOLEAN, cadence : Cadences]
    BY monitors[m] \in [active : BOOLEAN, cadence : Cadences]
  <2>3. monitors' = [monitors EXCEPT ![m] = [monitors[m] EXCEPT !.active = ~@]]
    BY <2>1 DEF Toggle
  <2>4. monitors' \in [Monitor -> [active : BOOLEAN, cadence : Cadences]]
    BY <2>2, <2>3
  <2>5. QED
    BY <2>1, <2>4 DEF Toggle
<1>5. CASE \E m \in Monitor : DeleteMonitor(m)
  BY <1>5 DEF DeleteMonitor, Cadences
<1>6. CASE \E u \in User : VerifyAddress(u)
  BY <1>6 DEF VerifyAddress
<1>7. CASE \E u \in User, c \in Periodic : BecomeDue(u, c)
  BY <1>7, ScheduleType DEF BecomeDue
<1>8. QED
  BY <1>1, <1>2, <1>3, <1>4, <1>5, <1>6, <1>7 DEF Environment

LEMMA NextType == TypeOK /\ [Next]_vars => TypeOK'
<1> SUFFICES ASSUME TypeOK, [Next]_vars PROVE TypeOK'
  OBVIOUS
<1>1. CASE UNCHANGED vars
  BY <1>1 DEF TypeOK, vars, settings, dispatch
<1>2. CASE Next
  BY <1>2, DispatchType, AdvanceType, MailType, EnvironmentType DEF Next, Work
<1>3. QED
  BY <1>1, <1>2

(* The type invariant holds for all constants. *)
THEOREM TypeCorrect == Spec => []TypeOK
<1>1. Init => TypeOK
  BY InitInv DEF IInv
<1>2. QED
  BY <1>1, NextType, PTL DEF Spec

------------------------------------------------------------------------------
(* Cadences and the rows that serve them. *)

LEMMA ScheduleKept ==
  ASSUME TypeOK, NEW v \in User, NEW c, NEW s \in {"waiting", "due"},
         schedule' = [schedule EXCEPT ![v][c] = s]
  PROVE  \A u \in User, d \in Periodic : schedule[u][d] # "none" => schedule'[u][d] # "none"
BY DEF TypeOK

LEMMA CadenceStep == IInv /\ [Next]_vars => CadenceHasDelivery'
<1> SUFFICES ASSUME IInv, [Next]_vars PROVE CadenceHasDelivery'
  OBVIOUS
<1> USE AlertConstants DEF IInv, TypeOK, CadenceHasDelivery
<1>1. CASE \E m \in Monitor, c \in Cadences, active \in BOOLEAN : SetCadence(m, c, active)
  <2>1. PICK m \in Monitor, c \in Cadences, active \in BOOLEAN : SetCadence(m, c, active)
    BY <1>1
  <2>2. /\ monitors'[m].cadence = c
        /\ \A n \in Monitor : n # m => monitors'[n] = monitors[n]
    BY <2>1 DEF SetCadence
  <2>3. started \subseteq started'
    BY <2>1 DEF SetCadence, EnsureDeliveryState
  <2>4. \A u \in User, d \in Periodic : schedule[u][d] # "none" => schedule'[u][d] # "none"
    <3>1. schedule' = schedule \/ schedule' = [schedule EXCEPT ![Owner[m]][c] = "waiting"]
      BY <2>1 DEF SetCadence, EnsureDeliveryState
    <3>2. Owner[m] \in User
      OBVIOUS
    <3>3. CASE schedule' = schedule
      BY <3>3
    <3>4. CASE schedule' = [schedule EXCEPT ![Owner[m]][c] = "waiting"]
      BY <3>2, <3>4, ScheduleKept
    <3>5. QED
      BY <3>1, <3>3, <3>4
  <2>5. c # "off" => /\ Owner[m] \in started'
                     /\ c \in Periodic => schedule'[Owner[m]][c] # "none"
    BY <2>1 DEF SetCadence, EnsureDeliveryState
  <2> SUFFICES ASSUME NEW n \in Monitor, monitors'[n].cadence # "off"
               PROVE  /\ Owner[n] \in started'
                      /\ monitors'[n].cadence \in Periodic
                         => schedule'[Owner[n]][monitors'[n].cadence] # "none"
    OBVIOUS
  <2>6. CASE n = m
    <3>1. monitors'[n].cadence = c
      BY <2>2, <2>6
    <3>2. QED
      BY <2>5, <2>6, <3>1
  <2>7. CASE n # m
    BY <2>2, <2>3, <2>4, <2>7
  <2>8. QED
    BY <2>6, <2>7
<1>2. CASE \E m \in Monitor : Toggle(m)
  <2>1. \A n \in Monitor : monitors'[n].cadence = monitors[n].cadence
    BY <1>2 DEF Toggle
  <2>2. UNCHANGED <<started, schedule>>
    BY <1>2 DEF Toggle
  <2>3. QED
    BY <2>1, <2>2
<1>3. CASE \E m \in Monitor : DeleteMonitor(m)
  <2>1. \A n \in Monitor : monitors'[n].cadence \in {"off", monitors[n].cadence}
    BY <1>3 DEF DeleteMonitor
  <2>2. UNCHANGED <<started, schedule>>
    BY <1>3 DEF DeleteMonitor
  <2>3. QED
    BY <2>1, <2>2
<1>4. CASE (\E w \in Worker : Advance(w)) \/ \E u \in User, c \in Periodic : BecomeDue(u, c)
  <2>1. \A u \in User, d \in Periodic : schedule[u][d] # "none" => schedule'[u][d] # "none"
    BY <1>4, ScheduleKept DEF Advance, BecomeDue, Jobs
  <2>2. UNCHANGED <<monitors, started>>
    BY <1>4 DEF Advance, BecomeDue
  <2>3. QED
    BY <2>1, <2>2
<1>5. CASE UNCHANGED <<monitors, started, schedule>>
  BY <1>5
<1>6. QED
  BY <1>1, <1>2, <1>3, <1>4, <1>5 DEF Next, Environment, Work, Deliver, vars, settings, StartNotice,
     StartDue, LoadSchedules, Pick, Enqueue, Skip, Finish, Die, SendMail, RecordDelivery,
     LoseMail, CommitMatches, RemoveMatch, VerifyAddress

LEMMA AcceptedStep == IInv /\ [Next]_vars => AcceptedWereMailed'
<1> SUFFICES ASSUME IInv, [Next]_vars PROVE AcceptedWereMailed'
  OBVIOUS
<1> USE DEF IInv, TypeOK, AcceptedWereMailed
<1>1. mailed \subseteq mailed'
  BY DEF Next, Environment, Work, Deliver, vars, StartNotice, StartDue, LoadSchedules, Pick,
     Enqueue, Skip, Advance, Finish, Die, SendMail, RecordDelivery, LoseMail, CommitMatches,
     RemoveMatch, SetCadence, Toggle, DeleteMonitor, VerifyAddress, BecomeDue
<1>2. CASE \E k \in Slot : SendMail(k)
  BY <1>1, <1>2 DEF SendMail, Contents
<1>3. CASE \A k \in Slot : mail'[k] = mail[k] \/ mail'[k].state # "accepted"
  BY <1>1, <1>3 DEF Contents
<1>4. CASE ~\E k \in Slot : SendMail(k)
  <2>1. \A k \in Slot : mail'[k] = mail[k] \/ mail'[k].state # "accepted"
    <3>1. CASE \E w \in Worker : Enqueue(w)
      BY <3>1 DEF Enqueue
    <3>2. CASE \E k \in Slot : RecordDelivery(k) \/ LoseMail(k)
      BY <3>2, NoMailType DEF RecordDelivery, LoseMail
    <3>3. CASE UNCHANGED mail
      BY <3>3
    <3>4. QED
      BY <1>4, <3>1, <3>2, <3>3 DEF Next, Environment, Work, Deliver, vars, StartNotice,
         StartDue, LoadSchedules, Pick, Skip, Advance, Finish, Die, CommitMatches, RemoveMatch,
         SetCadence, Toggle, DeleteMonitor, VerifyAddress, BecomeDue
  <2>2. QED
    BY <1>3, <2>1
<1>5. QED
  BY <1>2, <1>4

LEMMA ListedStep == IInv /\ [Next]_vars => ListedAreStarted'
<1> SUFFICES ASSUME IInv, [Next]_vars PROVE ListedAreStarted'
  OBVIOUS
<1> USE DEF IInv, TypeOK, ListedAreStarted
<1>1. started \subseteq started'
  BY DEF Next, Environment, Work, Deliver, vars, settings, StartNotice, StartDue, LoadSchedules,
     Pick, Enqueue, Skip, Advance, Finish, Die, SendMail, RecordDelivery, LoseMail, CommitMatches,
     RemoveMatch, SetCadence, EnsureDeliveryState, Toggle, DeleteMonitor, VerifyAddress, BecomeDue
<1>2. CASE \E w \in Worker, batch \in notices : StartNotice(w, batch)
  BY <1>1, <1>2 DEF StartNotice
<1>3. CASE \E w \in Worker : StartDue(w) \/ LoadSchedules(w)
  BY <1>1, <1>3 DEF StartDue, LoadSchedules
<1>4. CASE \A w \in Worker : left'[w] \subseteq left[w]
  BY <1>1, <1>4
<1>5. CASE \E w \in Worker : Pick(w) \/ Die(w)
  BY <1>4, <1>5 DEF Pick, Die
<1>6. CASE UNCHANGED left
  BY <1>4, <1>6
<1>7. QED
  BY <1>2, <1>3, <1>5, <1>6 DEF Next, Environment, Work, Deliver, vars, dispatch, Enqueue, Skip,
     Advance, Finish, SendMail, RecordDelivery, LoseMail, CommitMatches, RemoveMatch, SetCadence,
     Toggle, DeleteMonitor, VerifyAddress, BecomeDue

LEMMA NextInv == IInv /\ [Next]_vars => IInv'
BY NextType, CadenceStep, AcceptedStep, ListedStep DEF IInv

(* A cadence that asks for email always has its baseline and schedule rows. *)
THEOREM CadencesAreServed == Spec => []CadenceHasDelivery
<1>1. IInv => CadenceHasDelivery
  BY DEF IInv
<1>2. QED
  BY <1>1, InitInv, NextInv, PTL DEF Spec

------------------------------------------------------------------------------
(* The steps of the dispatch are steps of the contract. *)

LEMMA OpenUnchanged ==
  ASSUME UNCHANGED <<monitors, matches, early, started, delivered>>
  PROVE  Open' = Open
BY DEF Open

LEMMA SelectedUnchanged ==
  ASSUME UNCHANGED <<job, picked, mail>>
  PROVE  Selected' = Selected
BY DEF Selected, Contents

LEMMA OpenIsUndelivered == Open \subseteq Contract!Alerts \ delivered
BY DEF Open, Alerts, Contract!Alerts

(* Users, ingestion and the clock may only change what is open. *)
LEMMA EnvironmentChanges ==
  ASSUME Environment
  PROVE  Contract!Change
<1>1. UNCHANGED <<job, picked, mail, mailed, delivered>>
  BY DEF Environment, CommitMatches, RemoveMatch, SetCadence, Toggle, DeleteMonitor,
     VerifyAddress, BecomeDue, dispatch
<1>2. Open' \subseteq Contract!Alerts \ delivered
  BY <1>1 DEF Open, Alerts, Contract!Alerts
<1>3. QED
  BY <1>1, <1>2, SelectedUnchanged DEF Contract!Change

LEMMA PickSelects ==
  ASSUME IInv, NEW w \in Worker, Pick(w)
  PROVE  Contract!Select
<1> USE DEF IInv, TypeOK
<1>1. Open' = Open /\ UNCHANGED <<mailed, delivered, mail>>
  BY OpenUnchanged DEF Pick, settings
<1>2. PICK j \in left[w] : /\ job' = [job EXCEPT ![w] = j]
                           /\ picked' = [picked EXCEPT ![w] = Pending(j[1], j[2], ids[w])]
  BY DEF Pick
<1>3. {j[1]} \X Pending(j[1], j[2], ids[w]) \subseteq Open
  <2>1. j[1] \in started
    BY <1>2 DEF ListedAreStarted
  <2>2. left[w] \subseteq User \X (Cadences \ {"off"})
    BY DEF Jobs
  <2>3. j[2] \in Cadences \ {"off"}
    BY <1>2, <2>2
  <2>4. QED
    BY <2>1, <2>3, PendingIsOpen
<1>4. Selected' \subseteq Selected \cup Open
  <2> SUFFICES ASSUME NEW a \in Selected' PROVE a \in Selected \cup Open
    OBVIOUS
  <2>1. a \in Alerts
    BY DEF Selected
  <2>2. CASE \E k \in Slot : mail'[k].state = "queued" /\ a \in Contents(k)'
    BY <1>1, <2>1, <2>2 DEF Selected, Contents
  <2>3. CASE a \in {job'[w][1]} \X picked'[w]
    BY <1>2, <1>3, <2>3
  <2>4. CASE \E v \in Worker \ {w} : a \in {job'[v][1]} \X picked'[v]
    BY <1>2, <2>1, <2>4 DEF Selected
  <2>5. QED
    BY <2>2, <2>3, <2>4 DEF Selected
<1>5. QED
  BY <1>1, <1>4 DEF Contract!Select

(* A digest passes from its dispatch to the broker, or is given up. *)
LEMMA HandOverSelects ==
  ASSUME IInv, (\E w \in Worker : Enqueue(w) \/ Skip(w) \/ Die(w)) \/ \E k \in Slot : LoseMail(k)
  PROVE  Contract!Select
<1> USE DEF IInv, TypeOK
<1>1. Open' = Open /\ UNCHANGED <<mailed, delivered, job>>
  BY OpenUnchanged DEF Enqueue, Skip, Die, LoseMail, settings, dispatch
<1>2. Selected' \subseteq Selected
  <2>1. CASE \E w \in Worker : Enqueue(w)
    <3>1. PICK w \in Worker : Enqueue(w)
      BY <2>1
    <3>2. PICK k \in Slot :
            mail' = [mail EXCEPT ![k] =
              [state |-> "queued", to |-> job[w][1], items |-> picked[w]]]
      BY <3>1 DEF Enqueue
    <3>3. Contents(k)' = {job[w][1]} \X picked[w]
      BY <3>2 DEF Contents
    <3>4. \A l \in Slot \ {k} : mail'[l] = mail[l] /\ Contents(l)' = Contents(l)
      BY <3>2 DEF Contents
    <3>5. \A v \in Worker : picked'[v] \subseteq picked[v]
      BY <3>1 DEF Enqueue
    <3>6. QED
      BY <1>1, <3>3, <3>4, <3>5 DEF Selected
  <2>2. CASE \E w \in Worker : Skip(w) \/ Die(w)
    <3>1. (\A v \in Worker : picked'[v] \subseteq picked[v]) /\ UNCHANGED mail
      BY <2>2 DEF Skip, Die
    <3>2. QED
      BY <1>1, <3>1 DEF Selected, Contents
  <2>3. CASE \E k \in Slot : LoseMail(k)
    <3>1. UNCHANGED picked /\ \A k \in Slot : mail'[k] = mail[k] \/ mail'[k].state = "free"
      BY <2>3, NoMailType DEF LoseMail, dispatch
    <3>2. QED
      BY <1>1, <3>1 DEF Selected, Contents
  <2>4. QED
    BY <2>1, <2>2, <2>3
<1>3. QED
  BY <1>1, <1>2 DEF Contract!Select

LEMMA SendMails ==
  ASSUME IInv, NEW k \in Slot, SendMail(k)
  PROVE  Contract!Mail
<1> USE DEF IInv, TypeOK
<1>1. Open' = Open /\ UNCHANGED <<delivered, job, picked>>
  BY OpenUnchanged DEF SendMail, settings, dispatch
<1>2. /\ mail[k].to \in User /\ mail[k].items \in SUBSET Item
      /\ Contents(k) \subseteq Selected
      /\ mailed' = mailed \cup Contents(k)
  BY DEF SendMail, Contents, Selected, Alerts
<1>3. Selected' \subseteq Selected
  <2>1. \A l \in Slot : mail'[l] = mail[l] \/ mail'[l].state = "accepted"
    BY DEF SendMail
  <2>2. QED
    BY <1>1, <2>1 DEF Selected, Contents
<1>4. QED
  BY <1>1, <1>2, <1>3 DEF Contract!Mail, Contents

LEMMA RecordsDeliveries ==
  ASSUME IInv, NEW k \in Slot, RecordDelivery(k)
  PROVE  Contract!Record
<1> USE DEF IInv, TypeOK
<1>1. Contents(k) \subseteq mailed /\ delivered' = delivered \cup Contents(k)
  BY DEF RecordDelivery, AcceptedWereMailed
<1>2. Open' = Open \ Contents(k)
  <2>1. UNCHANGED <<monitors, matches, early, started>>
    BY DEF RecordDelivery, settings
  <2>2. QED
    BY <1>1, <2>1 DEF Open
<1>3. Selected' = Selected
  <2>1. \A l \in Slot : mail'[l] = mail[l] \/ (l = k /\ mail'[l].state = "free")
    BY NoMailType DEF RecordDelivery
  <2>2. QED
    BY <2>1 DEF Selected, Contents, RecordDelivery, dispatch
<1>4. QED
  BY <1>1, <1>2, <1>3 DEF Contract!Record, RecordDelivery

LEMMA StepKeepsContract == IInv /\ [Next]_vars => [Contract!Next]_(Contract!vars)
<1> SUFFICES ASSUME IInv, [Next]_vars PROVE [Contract!Next]_(Contract!vars)
  OBVIOUS
<1>1. CASE UNCHANGED <<job, picked, mail, monitors, matches, early, started, delivered, mailed>>
  BY <1>1, OpenUnchanged, SelectedUnchanged DEF Contract!vars
<1>2. CASE Environment
  BY <1>2, EnvironmentChanges DEF Contract!Next
<1>3. CASE \E k \in Slot : Deliver(k) \/ LoseMail(k)
  BY <1>3, SendMails, RecordsDeliveries, HandOverSelects DEF Deliver, Contract!Next
<1>4. CASE \E w \in Worker : Pick(w) \/ Enqueue(w) \/ Skip(w) \/ Die(w)
  BY <1>4, PickSelects, HandOverSelects DEF Contract!Next
<1>5. CASE (\E w \in Worker, batch \in notices : StartNotice(w, batch))
           \/ \E w \in Worker : StartDue(w) \/ LoadSchedules(w) \/ Advance(w) \/ Finish(w)
  BY <1>1, <1>5 DEF StartNotice, StartDue, LoadSchedules, Advance, Finish, settings
<1>6. CASE UNCHANGED vars
  BY <1>1, <1>6 DEF vars, settings, dispatch
<1>7. QED
  BY <1>2, <1>3, <1>4, <1>5, <1>6 DEF Next, Work

(* The dispatch implements the contract: every behaviour of it, with whatever
   overlap, loss or reconfiguration, is one that AlertContract allows. *)
THEOREM DeliveryKeepsContract == Spec => KeepsContract
<1>1. Init => Contract!Init
  BY NoMailType DEF Init, Contract!Init, Open, Selected, Contents
<1>2. QED
  BY <1>1, InitInv, NextInv, StepKeepsContract, PTL DEF Spec, KeepsContract, Contract!Spec
==============================================================================
