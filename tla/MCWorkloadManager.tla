------------------------- MODULE MCWorkloadManager -------------------------
EXTENDS WorkloadManager, TLC
CONSTANTS a, b, s1, s2, t1, t2
MCSymmetry == Permutations({a, b})

\* Plain pods with failing calls and a crash, and pods of auto-update units.
MCSettings == {
  [specs |-> {s1, s2}, auths |-> {}, faults |-> 2, crashes |-> 1],
  [specs |-> {s1}, auths |-> {t1, t2}, faults |-> 0, crashes |-> 0] }

MCAutoUpdate == {[specs |-> {s1}, auths |-> {t1}, faults |-> 0, crashes |-> 0]}
=============================================================================
