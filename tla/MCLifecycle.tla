----------------------------- MODULE MCLifecycle -----------------------------
(* Three pids, of which pid2 is a digit longer than pid1.                    *)
EXTENDS Lifecycle

CONSTANTS pid1, pid2, pid3, c1, c2, k1

\* Written over pid2, pid1 leaves the last digit of pid2, which makes it pid3.
OverwriteLonger ==
    [k \in Pids \X Pids |-> IF k = <<pid2, pid1>> THEN pid3 ELSE k[2]]

=============================================================================
