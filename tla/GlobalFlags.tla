----------------------------- MODULE GlobalFlags -----------------------------
(***************************************************************************)
(* The global flags of the command line (internal/cli parseGlobalFlags),   *)
(* before the name of the command and behind it, and the arguments that    *)
(* ltm start gives to the daemon (daemonArgs), which parses them again.    *)
(*                                                                         *)
(* An argument is a text; Flags says which texts have the form of a flag.  *)
(***************************************************************************)
EXTENDS Integers, Sequences

CONSTANTS Flags,         \* [text -> [name, hasValue, value]]: "-x", "--x" and "--x=v"
          TruthValues,   \* the texts that strconv.ParseBool accepts
          DefaultPaths,  \* the texts of the ignore paths of defaultConfig
          DefaultDB, DefaultPidFile

\* Of the texts that daemonArgs writes, three are flags that take the next argument,
\* and the command itself is none.
ASSUME FlagsAssumption ==
    /\ \A text \in {"--db", "--pidfile", "--ignore-path"} :
          text \in DOMAIN Flags /\ ~Flags[text].hasValue
    /\ Flags["--db"].name = "db"
    /\ Flags["--pidfile"].name = "pidfile"
    /\ Flags["--ignore-path"].name = "ignore-path"
    /\ "daemon" \notin DOMAIN Flags
    /\ "--foreground" \in DOMAIN Flags => Flags["--foreground"].name = "foreground"
    /\ DefaultPaths \in Seq(STRING)

Valued == {"db", "pidfile", "ignore-path"}

splitFlag(arg) ==
    IF arg \in DOMAIN Flags THEN Flags[arg]
    ELSE [name |-> "", hasValue |-> FALSE, value |-> ""]

IsFlag(arg) == splitFlag(arg).name # ""

defaultConfig == [db |-> DefaultDB, pidfile |-> DefaultPidFile, ignore |-> DefaultPaths]

\* The last setting counts, and ignore paths add up.
Set(cfg, name, value) ==
    CASE name = "db" -> [cfg EXCEPT !.db = value]
      [] name = "pidfile" -> [cfg EXCEPT !.pidfile = value]
      [] name = "ignore-path" -> [cfg EXCEPT !.ignore = Append(@, value)]

\* One iteration of the loop over the arguments, which stays where it is at the
\* first text that is not a global flag.
ParseFlag(args, p) ==
    LET flag == splitFlag(args[p.at])
        isLast == p.at = Len(args)
    IN  IF ~p.ok \/ p.at > Len(args) \/ flag.name \notin Valued \cup {"json"}
        THEN p
        ELSE IF flag.name = "json"
        THEN [p EXCEPT !.ok = flag.hasValue => flag.value \in TruthValues, !.at = @ + 1]
        ELSE IF flag.hasValue
        THEN [p EXCEPT !.cfg = Set(@, flag.name, flag.value), !.at = @ + 1]
        ELSE IF isLast
        THEN [p EXCEPT !.ok = FALSE]
        ELSE [p EXCEPT !.cfg = Set(@, flag.name, args[p.at + 1]), !.at = @ + 2]

\* The loop has at most one iteration for each argument.
ParseLoop(args, cfg) ==
    LET loop[n \in 0..Len(args)] ==
            IF n = 0 THEN [ok |-> TRUE, at |-> 1, cfg |-> cfg]
            ELSE ParseFlag(args, loop[n - 1])
    IN  loop

parseGlobalFlags(args, cfg) ==
    LET parsed == ParseLoop(args, cfg)[Len(args)]
    IN  [ok |-> parsed.ok, cfg |-> parsed.cfg, rest |-> SubSeq(args, parsed.at, Len(args))]

\* Execute, and the command that it finds: both parse, the second what the first leaves.
Execute(args) ==
    LET first == parseGlobalFlags(args, defaultConfig)
        second[f \in {first}] == parseGlobalFlags(Tail(f.rest), f.cfg)
    IN  IF ~first.ok \/ first.rest = <<>>
        THEN [ok |-> FALSE, command |-> "", cfg |-> defaultConfig, rest |-> <<>>]
        ELSE [ok |-> second[first].ok, command |-> first.rest[1], cfg |-> second[first].cfg,
              rest |-> second[first].rest]

-----------------------------------------------------------------------------
(* The arguments of the daemon.                                            *)

IsDefault(path) == \E i \in DOMAIN DefaultPaths : DefaultPaths[i] = path

CustomPaths(paths) ==
    LET custom[n \in 0..Len(paths)] ==
            IF n = 0 THEN <<>>
            ELSE IF IsDefault(paths[n]) THEN custom[n - 1]
            ELSE Append(custom[n - 1], paths[n])
    IN  custom

customIgnorePaths(paths) == CustomPaths(paths)[Len(paths)]

IgnoreArgs(paths) ==
    [i \in 1..(2 * Len(paths)) |-> IF i % 2 = 1 THEN "--ignore-path" ELSE paths[i \div 2]]

\* Mutant: the ignore paths come last.
daemonArgsLast(cfg) ==
    <<"--db", cfg.db, "--pidfile", cfg.pidfile, "daemon", "--foreground">>
        \o IgnoreArgs(customIgnorePaths(cfg.ignore))

daemonArgs(cfg) ==
    <<"--db", cfg.db, "--pidfile", cfg.pidfile>>
        \o IgnoreArgs(customIgnorePaths(cfg.ignore))
        \o <<"daemon", "--foreground">>

=============================================================================
