-------------------------- MODULE MCMonitorRegistry --------------------------
(* Small instances of MonitorRegistry for TLC.  No definition names a session,
   user, keyword or spelling, so each of these sets is symmetric. *)
EXTENDS MonitorRegistry, TLC

CONSTANTS s1, s2, u1, u2, r1, k1, k2, lower, title

Symmetry ==
  Permutations(Session) \cup Permutations(User) \cup Permutations(Key) \cup Permutations(Spelling)
==============================================================================
