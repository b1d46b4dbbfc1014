----------------------------- MODULE CommandLine -----------------------------
(***************************************************************************)
(* The command line up to the work of its commands: the global flags of    *)
(* ltm start and what the daemon makes of them, and ltm query and ltm sql  *)
(* (internal/cli runQuery, runAgentQuery, execReadOnlySQL), which take SQL *)
(* from the arguments, or a question that goes to an agent, whose output   *)
(* becomes SQL, and to the built-in templates when anything about the      *)
(* agent fails.                                                            *)
(*                                                                         *)
(* The agent is a process with a pipe for its output.  The deadline of two *)
(* minutes covers the agent and the statement; when it passes, the process *)
(* is killed, but not what that process has started, which may keep the    *)
(* pipe open: Cmd.Run returns when nobody has it open any more.            *)
(***************************************************************************)
EXTENDS GlobalFlags, SqlText

CONSTANTS Texts, MaxArgs,           \* the arguments typed
          SQLTokens, MaxSQL,        \* the SQL typed
          AgentTokens, MaxOutput    \* the output of an agent

ASSUME TextAssumption ==
    /\ DOMAIN Flags \subseteq Texts
    /\ {MaxArgs, MaxSQL, MaxOutput} \subseteq Nat

VARIABLES pc,
          args,     \* the arguments, until the command has them
          child,    \* the arguments of the daemon that ltm start starts
          text,     \* the SQL of the command line, or the output of the agent
          agent,    \* the process, or how it has ended
          children, \* a process of the agent has the pipe open
          late,     \* the deadline has passed
          sql,      \* the statement for the store
          printed,  \* what has gone, or was lost on the way, to standard output
          exit      \* the result of the command

argVars == <<args, child>>
queryVars == <<text, agent, children, late, sql, printed>>
vars == <<pc, argVars, queryVars, exit>>

Init ==
    /\ pc = "arguments"
    /\ args = <<>>
    /\ child = <<>>
    /\ text = <<>>
    /\ agent = "none"
    /\ children = FALSE
    /\ late = FALSE
    /\ sql = <<>>
    /\ printed = <<>>
    /\ exit = "none"

Go(from, to) == pc = from /\ pc' = to

Leave(from, result) ==
    /\ Go(from, "exited")
    /\ exit' = result

-----------------------------------------------------------------------------
(* The arguments.                                                          *)

Type(arg) ==
    /\ Go("arguments", "arguments")
    /\ Len(args) < MaxArgs
    /\ args' = Append(args, arg)
    /\ UNCHANGED <<child, queryVars, exit>>

\* The command of the arguments typed so far, if there is one.
Run == Execute(args)

UnknownFlag(run) == run.rest # <<>> /\ IsFlag(run.rest[1])

\* A flag without its value, or a flag that the command does not know.
Refused(run) ==
    /\ ~run.ok \/ (run.command \in {"start", "query", "sql"} /\ UnknownFlag(run))
    /\ Leave("arguments", "error")
    /\ UNCHANGED <<argVars, queryVars>>

\* Start, up to the child; Lifecycle has the rest of it.
Start(run) ==
    /\ run.ok /\ run.command = "start" /\ ~UnknownFlag(run)
    /\ child' = daemonArgs(run.cfg)
    /\ Leave("arguments", "ok")
    /\ UNCHANGED <<args, queryVars>>

HasSQL(run) ==
    run.command = "sql" \/ (run.command = "query" /\ run.rest # <<>> /\ run.rest[1] = "sql")

\* Of its arguments a question or a statement is all that is modelled from here.
Query(run) ==
    /\ run.ok /\ run.command \in {"query", "sql"} /\ ~UnknownFlag(run)
    /\ Go("arguments", IF HasSQL(run) THEN "sql"
                       ELSE IF run.rest = <<>> THEN "no question" ELSE "question")
    /\ args' = <<>>
    /\ UNCHANGED <<child, queryVars, exit>>

TypeSQL(token) ==
    /\ Go("sql", "sql")
    /\ Len(text) < MaxSQL
    /\ text' = Append(text, token)
    /\ UNCHANGED <<argVars, agent, children, late, sql, printed, exit>>

\* Without a statement the schema is printed, if it can be.
RunSQL ==
    /\ sql' = TrimSpace(text)
    /\ \/ /\ sql' = <<>>
          /\ Leave("sql", "ok")
          /\ printed' = <<"schema">>
       \/ /\ sql' = <<>>
          /\ Leave("sql", "error")
          /\ printed' \in {<<>>, <<"partial">>}
       \/ /\ sql' # <<>>
          /\ Go("sql", "raw")
          /\ UNCHANGED <<printed, exit>>
    /\ UNCHANGED <<argVars, text, agent, children, late>>

\* There is no question, or the agent to ask is not on the PATH.
NoQuestion ==
    /\ pc \in {"no question", "question"}
    /\ Leave(pc, "error")
    /\ UNCHANGED <<argVars, queryVars>>

\* No agent is named, by --agent or by LTM_AGENT.
AskTemplates ==
    /\ Go("question", "templates")
    /\ UNCHANGED <<argVars, queryVars, exit>>

AskAgent ==
    /\ Go("question", "agent")
    /\ agent' = "running"
    /\ children' \in BOOLEAN
    /\ UNCHANGED <<argVars, text, late, sql, printed, exit>>

-----------------------------------------------------------------------------
(* The agent (external), and Cmd.Run.                                      *)

Output(token) ==
    /\ pc = "agent"
    /\ agent = "running" \/ children
    /\ Len(text) < MaxOutput
    /\ text' = Append(text, token)
    /\ UNCHANGED <<pc, argVars, agent, children, late, sql, printed, exit>>

AgentExits ==
    /\ agent = "running"
    /\ agent' \in {"succeeded", "failed"}
    /\ UNCHANGED <<pc, argVars, text, children, late, sql, printed, exit>>

ChildrenEnd ==
    /\ children
    /\ children' = FALSE
    /\ UNCHANGED <<pc, argVars, text, agent, late, sql, printed, exit>>

\* Mutant: the command is not tied to the context.
DeadlineUnnoticed ==
    /\ pc \in {"agent", "raw"}
    /\ ~late
    /\ late' = TRUE
    /\ UNCHANGED <<pc, argVars, text, agent, children, sql, printed, exit>>

Deadline ==
    /\ pc \in {"agent", "raw"}
    /\ ~late
    /\ late' = TRUE
    /\ agent' = IF agent = "running" THEN "failed" ELSE agent
    /\ UNCHANGED <<pc, argVars, text, children, sql, printed, exit>>

\* GenerateSQL, with the warning and the return to runQuery when it fails.
GenerateSQL ==
    /\ agent \in {"succeeded", "failed"}
    /\ ~children
    /\ \E found \in {IF agent = "succeeded" THEN ExtractSQL(text) ELSE {}} :
          IF found = {}
          THEN Go("agent", "templates") /\ UNCHANGED sql
          ELSE Go("agent", "raw") /\ sql' \in found
    /\ UNCHANGED <<argVars, text, agent, children, late, printed, exit>>

-----------------------------------------------------------------------------
(* The store and the output.                                               *)

ForAgent == agent # "none"

\* An error of the statement or of its output: the templates are next when the
\* statement is an agent's.
Failed(from) ==
    IF ForAgent THEN Go(from, "templates") /\ UNCHANGED exit ELSE Leave(from, "error")

\* The store opens and SQLite runs the statement to its last row.
RawSQL ==
    /\ ~late
    /\ ~HasMultipleStatements(sql)
    /\ Go("raw", "print")
    /\ UNCHANGED <<argVars, queryVars, exit>>

\* There is no database, no single statement, an error of SQLite, the deadline,
\* or a row more than fit.
RawSQLFails ==
    /\ Failed("raw")
    /\ UNCHANGED <<argVars, queryVars>>

\* Mutant: the answer of an agent is followed by that of the templates.
PrintAndGoOn ==
    /\ printed' = Append(printed, IF ForAgent THEN "agent" ELSE "sql")
    /\ IF ForAgent THEN Go("print", "templates") /\ UNCHANGED exit
       ELSE Leave("print", "ok")
    /\ UNCHANGED <<argVars, text, agent, children, late, sql>>

\* The writer of the table forgets a write that failed before its last flush.
PrintTable ==
    /\ printed' \in {Append(printed, IF ForAgent THEN "agent" ELSE "sql"),
                    Append(printed, "lost")}
    /\ Leave("print", "ok")
    /\ UNCHANGED <<argVars, text, agent, children, late, sql>>

\* A write fails and is noticed; some of the table may be out.
PrintTableFails ==
    /\ printed' \in {printed, Append(printed, "partial")}
    /\ Failed("print")
    /\ UNCHANGED <<argVars, text, agent, children, late, sql>>

\* Nothing looks at the errors of printQueryResult.
Templates ==
    /\ printed' \in {Append(printed, "template"), Append(printed, "lost")}
    /\ Leave("templates", "ok")
    /\ UNCHANGED <<argVars, text, agent, children, late, sql>>

TemplatesFail ==
    /\ printed' \in {printed, Append(printed, "partial")}
    /\ Leave("templates", "error")
    /\ UNCHANGED <<argVars, text, agent, children, late, sql>>

-----------------------------------------------------------------------------

Command ==
    \/ \E run \in {Run} : Refused(run)
    \/ \E run \in {Run} : Start(run)
    \/ \E run \in {Run} : Query(run)
    \/ RunSQL
    \/ NoQuestion \/ AskTemplates \/ AskAgent
    \/ GenerateSQL \/ RawSQL \/ RawSQLFails
    \/ PrintTable \/ PrintTableFails \/ Templates \/ TemplatesFail

Next ==
    \/ \E arg \in Texts : Type(arg)
    \/ \E token \in SQLTokens : TypeSQL(token)
    \/ \E token \in AgentTokens : Output(token)
    \/ AgentExits \/ ChildrenEnd \/ Deadline
    \/ Command

\* The command takes its steps, and time passes; nothing makes an agent exit, or
\* what it has started.  The first conjunct is the weak fairness of Command
\* behind the arguments: only Command changes pc, and CanRun is when it can.
CanRun ==
    \/ pc \in {"raw", "print", "templates"}
    \/ pc = "agent" /\ agent # "running" /\ ~children
Fairness ==
    /\ []<>~CanRun \/ []<><<pc' # pc>>_pc
    /\ WF_late(Deadline)

FairSpec == Init /\ [][Next]_vars /\ Fairness

-----------------------------------------------------------------------------

\* What the daemon reads from its arguments is what start has read from its own:
\* the database, the pid file and the paths to ignore, given before the command or
\* behind it, once or several times, and whatever their texts look like
\* (daemonArgs, customIgnorePaths and two passes of parseGlobalFlags each).
ChildConfigIsParents ==
    child # <<>> =>
        \A daemon \in {Execute(child)}, start \in {Run} :
            LET Paths(cfg) == {cfg.ignore[i] : i \in DOMAIN cfg.ignore}
            IN  /\ daemon.ok /\ daemon.command = "daemon" /\ daemon.rest = <<"--foreground">>
                /\ daemon.cfg.db = start.cfg.db /\ daemon.cfg.pidfile = start.cfg.pidfile
                /\ Paths(daemon.cfg) = Paths(start.cfg)

\* hasMultipleStatements walks quotes, bracketed names and comments by leaps
\* (storage/query.go); a reader that takes one character at a time finds a second
\* statement in the same texts, when nothing in them is quoted with backticks.
ScannerIsExact ==
    WithoutBackticks(text) => (HasMultipleStatements(text) <=> SecondStatement(text))

ForAgentSQL == ForAgent /\ sql # <<>>

\* The scan of package agent and that of package storage are two copies.  What
\* ExtractSQL lets through is a single statement for that of package storage, and a
\* SELECT: one that begins it, or the one that its WITH leads to, the first outside
\* parentheses, quotes and comments, never a WITH of something else (backticks
\* excepted, as above).
ExtractedRuns ==
    ForAgentSQL /\ WithoutBackticks(sql) => ~SecondStatement(sql) /\ IsSelect(sql)

\* However the agent, the store and the output fail: the command succeeds if and
\* only if the last thing it has printed is an answer, and it answers once, so an
\* agent's table is never followed by that of a template.  An answer lost on the
\* way out, unseen by the command, counts as its answer.
SuccessIsOneAnswer ==
    LET answers == {i \in DOMAIN printed : printed[i] # "partial"}
    IN  /\ exit = "ok" <=> answers # {} \/ child # <<>>
        /\ answers \subseteq {Len(printed)}

\* What the variables hold.
Tokens == SQLTokens \cup AgentTokens
Prints == {"partial", "agent", "sql", "template", "lost", "schema"}

TypeOK ==
    /\ pc \in {"arguments", "sql", "no question", "question", "agent", "raw", "print",
               "templates", "exited"}
    /\ args \in Seq(Texts)
    /\ {text, sql} \subseteq Seq(Tokens)
    /\ agent \in {"none", "running", "succeeded", "failed"}
    /\ {children, late} \subseteq BOOLEAN
    /\ printed \in Seq(Prints)
    /\ exit \in {"none", "ok", "error"}

\* Until it exits, a command has started no daemon and printed nothing it stands by.
Unfinished ==
    pc # "exited" =>
        exit = "none" /\ child = <<>> /\ \A i \in DOMAIN printed : printed[i] = "partial"

\* The daemon's arguments come from those of start, which stay as they were.
Started == child # <<>> => child = daemonArgs(Run.cfg)

\* There is no statement before an agent has answered, and no agent before it is asked.
Asked ==
    /\ pc \in {"arguments", "sql", "no question", "question"} => agent = "none"
    /\ pc \in {"arguments", "sql", "no question", "question", "agent"} => sql = <<>>

\* Together with them, two of the properties above are inductive.
CommandInv ==
    TypeOK /\ Unfinished /\ Started /\ Asked /\ ExtractedRuns /\ SuccessIsOneAnswer

\* A question put to an agent comes to its end, though the agent may hang:
\* runAgentQuery limits it to two minutes.  That is as long as nothing the agent
\* has started keeps its pipe open.
QueryEnds == pc = "agent" ~> exit # "none" \/ children

=============================================================================
