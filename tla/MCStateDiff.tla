----------------------------- MODULE MCStateDiff -----------------------------
(* Rows for the scan: a name, a missing name, a name that is the text of a    *)
(* pid, pid 0, and paths in one column, in the other or in none.              *)
EXTENDS StateDiff

Texts == [pid \in {0, 1, 2} |-> <<"0", "1", "2">>[pid + 1]]

Process(kind, pid, comm) ==
    [kind |-> kind, pid |-> pid, comm |-> comm, path |-> "", oldPath |-> ""]
File(kind, path, oldPath) ==
    [kind |-> kind, pid |-> 1, comm |-> "a", path |-> path, oldPath |-> oldPath]

SomeRows ==
    {Process("create", 1, "a"), Process("create", 2, "a"), Process("create", 1, ""),
     Process("create", 0, ""), Process("exit", 1, "a"), Process("exit", 1, ""),
     Process("exit", 2, "1"), Process("exit", 0, ""),
     File("write", "f", ""), File("write", "", "f"), File("write", "", ""),
     File("change", "f", "g"), File("remove", "f", ""),
     Process("listen", 1, "a"), Process("connect", 1, "a"), Process("other", 1, "a")}

=============================================================================
