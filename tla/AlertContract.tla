---------------------------- MODULE AlertContract ----------------------------
(***************************************************************************)
(* What the alerts component promises about email, apart from how tasks    *)
(* and tables achieve it.  An alert is a user and a Reddit item.  It is    *)
(* open while the user should still be told of the item; a task selects    *)
(* open alerts for a digest; a mailed digest goes to one user and holds    *)
(* selected alerts only; what is recorded as delivered was mailed.  A      *)
(* recorded alert is never open again, so no later digest selects it; two  *)
(* digests that were selected before the record may both be mailed.        *)
(***************************************************************************)
CONSTANTS User, Item

VARIABLES
  open,      \* alerts that should still be sent
  selected,  \* alerts in digests that are being prepared or queued
  mailed,    \* alerts in mails the mail server accepted
  recorded   \* alerts recorded as delivered

Alerts == User \X Item
vars == <<open, selected, mailed, recorded>>

Init == open = {} /\ selected = {} /\ mailed = {} /\ recorded = {}

(* Monitors, matches or settings change. *)
Change ==
  /\ open' \subseteq Alerts \ recorded
  /\ UNCHANGED <<selected, mailed, recorded>>

(* Digests are prepared from open alerts, or given up. *)
Select ==
  /\ selected' \subseteq selected \cup open
  /\ UNCHANGED <<open, mailed, recorded>>

Mail ==
  /\ \E u \in User, S \in SUBSET Item : /\ {u} \X S \subseteq selected
                                        /\ mailed' = mailed \cup ({u} \X S)
  /\ selected' \subseteq selected
  /\ UNCHANGED <<open, recorded>>

Record ==
  /\ \E S \in SUBSET mailed : recorded' = recorded \cup S /\ open' = open \ S
  /\ UNCHANGED <<selected, mailed>>

Next == Change \/ Select \/ Mail \/ Record

Spec == Init /\ [][Next]_vars
==============================================================================
