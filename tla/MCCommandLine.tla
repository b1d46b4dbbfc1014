---------------------------- MODULE MCCommandLine ----------------------------
(* Texts of every form, a path that is a default, and tokens for each branch *)
(* of the two scans, of the reader they are compared with too.               *)
EXTENDS CommandLine

Flag(name) == [name |-> name, hasValue |-> FALSE, value |-> ""]
Inline(name, value) == [name |-> name, hasValue |-> TRUE, value |-> value]

SomeFlags ==
    [t \in {"--db", "--db=", "--pidfile", "--ignore-path", "-ignore-path=/proc",
               "--json", "--json=x", "--foreground"} |->
        CASE t = "--db=" -> Inline("db", "")
          [] t = "-ignore-path=/proc" -> Inline("ignore-path", "/proc")
          [] t = "--json=x" -> Inline("json", "x")
          [] t = "--db" -> Flag("db")
          [] t = "--pidfile" -> Flag("pidfile")
          [] t = "--ignore-path" -> Flag("ignore-path")
          [] t = "--json" -> Flag("json")
          [] t = "--foreground" -> Flag("foreground")]

SomeTexts == DOMAIN SomeFlags \cup {"x", "/proc", "start", "query", "sql"}
SomeDefaults == <<"/proc", "/sys">>
Truths == {"true", "false"}

Quotes == {"quote", "backtick", "[", "]", "-", "/", "*", ";", Newline}
Names == {"quote", "backtick", ";", "select"}
Words == {Fence, Newline, "select", "with", "delete", "(", ")", ";"}

=============================================================================
