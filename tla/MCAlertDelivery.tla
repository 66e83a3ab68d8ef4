--------------------------- MODULE MCAlertDelivery ---------------------------
(* Small instances of AlertDelivery for TLC. *)
EXTENDS AlertDelivery, TLC

CONSTANTS w1, w2, u1, u2, m1, m2, i1, i2, k1, k2

(* Two monitors belong to one user unless there is a second user. *)
MCOwner == [m \in Monitor |-> IF m = m2 /\ u2 \in User THEN u2 ELSE u1]

Symmetry == Permutations({k1, k2}) \cup Permutations({w1, w2})
==============================================================================
