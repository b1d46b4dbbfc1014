------------------------------ MODULE MCQuestions ------------------------------
(* A server whose name has a capital in one of its spellings.                *)
EXTENDS Questions, TLC

CONSTANTS pid1, pid2, server, Server, file1, file2,
          addr1, port1

LowerCase == [n \in Names |-> IF n = Server THEN server ELSE n]

\* No property tells one pid or one file from another.
Symmetry == Permutations(Pids) \cup Permutations(Files)

=============================================================================
