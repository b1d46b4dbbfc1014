----------------------------- MODULE MCWriteLock -----------------------------
(* A VACUUM may hold the lock beyond either timeout, no other statement may.  *)
EXTENDS WriteLock

CONSTANTS recorder1, recorder2, prune1, load1

Holds == [s \in Statements |-> CASE s = "flush" -> 1
                                 [] s = "delete" -> 2
                                 [] s = "vacuum" -> 4
                                 [] s = "load" -> 2]

=============================================================================
