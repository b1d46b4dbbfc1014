---------------------------- MODULE MCFdTracking ----------------------------
(* A process of two threads and, for the reuse of a pid, one of one thread.   *)
EXTENDS FdTracking, TLC

CONSTANTS p1, p2, t1, t2, t3

ProcessOfThread == [t \in {t1, t2, t3} |-> IF t = t3 THEN p2 ELSE p1]
SingleThread == [t \in {t1} |-> p1]
Overlapping == Permutations({t1, t2})

=============================================================================
