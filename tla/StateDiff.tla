------------------------------ MODULE StateDiff ------------------------------
(***************************************************************************)
(* ltm diff (internal/diff Engine.Diff): one scan over the rows of a time  *)
(* range, in the order of their timestamps, that sorts them into the lists *)
(* of a report.  Each row adds one entry at most to a list, so a list is   *)
(* the set of the positions of its rows in the scan.                       *)
(***************************************************************************)
EXTENDS Integers, Sequences, FiniteSets

CONSTANTS Rows,      \* rows of the table, without their timestamps
          Times,     \* the timestamps in the range
          Limit,     \* the LIMIT of the query: 50000
          HotCount,  \* the writes that make a writer hot: 3
          PidText,   \* the decimal form of each pid
          Blank      \* a text of nothing but blanks

\* "create": exec, fork and clone.  "change": rename, truncate, chmod, chown and
\* mkdir.  "remove": unlink and rmdir.  "listen": bind too.  "connect": send too.
Kinds == {"create", "exit", "write", "change", "remove", "listen", "connect", "other"}

ASSUME DiffAssumption ==
    /\ Rows \subseteq [kind : Kinds, pid : DOMAIN PidText, comm : STRING,
                       path : STRING, oldPath : STRING]
    /\ PidText \in [DOMAIN PidText -> STRING]
    /\ Blank \in STRING
    /\ Times \subseteq Nat
    /\ Limit \in Nat
    /\ HotCount \in Nat \ {0}

VARIABLES events,      \* the rows read so far, with their timestamps
          listed,      \* the report, but for its hot writers
          seenNewPID,
          lastExit,    \* the position of the last exit of each key, or 0
          writes,      \* the positions of the writes of each path
          hot,         \* the paths of the hot writers
          done

vars == <<events, listed, seenNewPID, lastExit, writes, hot, done>>

Lists == {"new", "exited", "modified", "deleted", "listeners", "outbound", "restarts"}
Event == [row : Rows, ts : Times]

-----------------------------------------------------------------------------

FirstNonEmpty(a, b) == IF a # Blank THEN a ELSE b
ModifiedPath(row) == FirstNonEmpty(row.path, row.oldPath)

\* Blank for a row that is to have no key.
RestartKey(row) ==
    IF row.comm # Blank THEN row.comm
    ELSE IF row.pid # 0 THEN PidText[row.pid] ELSE Blank

Keys == {RestartKey(row) : row \in Rows}
Paths == {ModifiedPath(row) : row \in Rows}

Init ==
    /\ events = <<>>
    /\ listed = [l \in Lists |-> {}]
    /\ seenNewPID = {}
    /\ lastExit = [k \in Keys |-> 0]
    /\ writes = [p \in Paths |-> {}]
    /\ hot = {}
    /\ done = FALSE

-----------------------------------------------------------------------------
(* The cases of the loop; n is the position of the row.                    *)

List(n, lists) ==
    listed' = [l \in Lists |-> IF l \in lists THEN listed[l] \cup {n} ELSE listed[l]]

\* Mutant: every creation is listed.
IsNewAlways(row) == TRUE

\* A creation fires several events: the first of a pid counts.
IsNew(row) == row.pid \notin seenNewPID

\* Mutant: an exit at the same time counts.
IsRestartAtOnce(row, ts) == lastExit[RestartKey(row)] # 0

IsRestart(row, ts) ==
    LET exit == lastExit[RestartKey(row)]
    IN  exit # 0 /\ events[exit].ts < ts

Create(n, row, ts) ==
    /\ row.kind = "create"
    /\ List(n, {l \in {"new", "restarts"} :
                  (l = "new" /\ IsNew(row)) \/ (l = "restarts" /\ IsRestart(row, ts))})
    /\ seenNewPID' = seenNewPID \cup {row.pid}
    /\ UNCHANGED <<lastExit, writes>>

Exit(n, row) ==
    /\ row.kind = "exit"
    /\ List(n, {"exited"})
    /\ lastExit' = IF RestartKey(row) = Blank
                   THEN lastExit
                   ELSE [lastExit EXCEPT ![RestartKey(row)] = n]
    /\ UNCHANGED <<seenNewPID, writes>>

Modify(n, row) ==
    LET path == ModifiedPath(row)
    IN  /\ row.kind \in {"write", "change"}
        /\ List(n, {l \in {"modified"} : path # Blank})
        /\ writes' = IF row.kind = "write" /\ path # Blank
                     THEN [writes EXCEPT ![path] = writes[path] \cup {n}]
                     ELSE writes
        /\ UNCHANGED <<seenNewPID, lastExit>>

ListsOf(kind) ==
    {l \in {"deleted", "listeners", "outbound"} :
        \/ kind = "remove" /\ l = "deleted"
        \/ kind = "listen" /\ l = "listeners"
        \/ kind = "connect" /\ l = "outbound"}

Other(n, row) ==
    /\ row.kind \in {"remove", "listen", "connect", "other"}
    /\ List(n, ListsOf(row.kind))
    /\ UNCHANGED <<seenNewPID, lastExit, writes>>

\* Mutant: a query without a limit.
Unlimited(n) == TRUE

WithinLimit(n) == n <= Limit

\* The next row of the query, ORDER BY ts.
Read(row, ts) ==
    LET n == Len(events) + 1
    IN  /\ ~done
        /\ WithinLimit(n)
        /\ \A i \in DOMAIN events : events[i].ts <= ts
        /\ events' = Append(events, [row |-> row, ts |-> ts])
        /\ Create(n, row, ts) \/ Exit(n, row) \/ Modify(n, row) \/ Other(n, row)
        /\ UNCHANGED <<hot, done>>

\* Mutant: one write more is needed.
FinishOffByOne ==
    /\ ~done
    /\ done' = TRUE
    /\ hot' = {p \in Paths : Cardinality(writes[p]) > HotCount}
    /\ UNCHANGED <<events, listed, seenNewPID, lastExit, writes>>

Finish ==
    /\ ~done
    /\ done' = TRUE
    /\ hot' = {p \in Paths : Cardinality(writes[p]) >= HotCount}
    /\ UNCHANGED <<events, listed, seenNewPID, lastExit, writes>>

\* The report is printed.
Printed == done /\ UNCHANGED vars

Next == (\E row \in Rows, ts \in Times : Read(row, ts)) \/ Finish \/ Printed

Spec == Init /\ [][Next]_vars

-----------------------------------------------------------------------------
(* The report against the rows it is about.                                *)

TypeOK ==
    /\ events \in Seq(Event)
    /\ Len(events) <= Limit
    /\ listed \in [Lists -> SUBSET (DOMAIN events)]
    /\ seenNewPID \subseteq DOMAIN PidText
    /\ lastExit \in [Keys -> {0} \cup DOMAIN events]
    /\ writes \in [Paths -> SUBSET (DOMAIN events)]
    /\ hot \subseteq Paths
    /\ done \in BOOLEAN

Kind(i) == events[i].row.kind
Key(i) == RestartKey(events[i].row)

\* docs/cli.md, "creation deduped by pid": a pid is listed as new with the first
\* of its creations and with no other, though the fork, the clone and the exec
\* of one process come as three rows, mixed with those of others.
NewProcessesAreFirst ==
    \A i \in DOMAIN events :
        i \in listed["new"] <=>
            /\ Kind(i) = "create"
            /\ \A j \in 1..(i - 1) :
                  Kind(j) = "create" => events[j].row.pid # events[i].row.pid

\* i is the creation of what exited at j and has not exited again since.
RestartOf(i, j) ==
    /\ Kind(j) = "exit" /\ Key(j) = Key(i) /\ Key(j) # Blank
    /\ events[j].ts < events[i].ts
    /\ \A m \in (j + 1)..(i - 1) : ~(Kind(m) = "exit" /\ Key(m) = Key(i))

\* A restart is a creation after the last exit of the same name, or of the same
\* pid where names are missing, and every such creation is listed.
RestartsFollowExits ==
    \A i \in DOMAIN events :
        i \in listed["restarts"] <=>
            Kind(i) = "create" /\ \E j \in 1..(i - 1) : RestartOf(i, j)

WritesOf(p) ==
    {i \in DOMAIN events : Kind(i) = "write" /\ ModifiedPath(events[i].row) = p}

\* A path is hot for its content writes alone, whoever wrote and by whichever of
\* its two paths a row names it; a row without a path counts for none.
HotWritersAreHot ==
    done => hot = {p \in Paths \ {Blank} : Cardinality(WritesOf(p)) >= HotCount}

\* lastExit holds the last exit of each key, and none for a missing key.
ExitsInv ==
    \A k \in Keys :
        /\ lastExit[k] # 0 => k # Blank /\ Kind(lastExit[k]) = "exit" /\ Key(lastExit[k]) = k
        /\ k # Blank => \A i \in DOMAIN events :
                           Kind(i) = "exit" /\ Key(i) = k => i <= lastExit[k]

\* The working state of the scan, as a function of the rows it has read.
ScanInv ==
    /\ TypeOK
    /\ NewProcessesAreFirst
    /\ RestartsFollowExits
    /\ HotWritersAreHot
    /\ seenNewPID = {events[i].row.pid : i \in {j \in DOMAIN events : Kind(j) = "create"}}
    /\ \A p \in Paths : writes[p] = IF p = Blank THEN {} ELSE WritesOf(p)
    /\ ExitsInv

=============================================================================
