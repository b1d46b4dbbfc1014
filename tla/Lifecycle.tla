------------------------------ MODULE Lifecycle ------------------------------
(***************************************************************************)
(* ltm start and ltm stop (internal/cli runStart, runStop), the pid file   *)
(* between them, and the life of the daemons they control (runDaemon):     *)
(* commands that overlap, a daemon that ends by itself, pids that the      *)
(* system gives to other processes.                                        *)
(***************************************************************************)
EXTENDS Naturals, FiniteSets

CONSTANTS Pids,
          Starts, Stops,  \* the commands that can run at a time
          Overwrite,      \* what a pid makes of the text of another one
          NoPid           \* no pid: no file, an empty one, or no command

ASSUME LifecycleAssumption ==
    /\ NoPid \notin Pids
    /\ Overwrite \in [Pids \X Pids -> Pids]

VARIABLES proc,     \* the state of each pid
          start,    \* each start: its control point and its child
          stop,     \* each stop: the pid it has read
          pidFile,
          started   \* history: the daemons whose start has succeeded

vars == <<proc, start, stop, pidFile, started>>

\* "opening": before signalContext, with the default action of SIGTERM.
\* "recording": in svc.Run.  "stopping": its context is done.  "closing":
\* svc.Run has returned, and the default action is back.
Daemon == {"opening", "recording", "stopping", "closing"}
ProcState == Daemon \cup {"free", "zombie", "other"}

Idle == [pc |-> "idle", pid |-> NoPid]

Init ==
    /\ proc = [p \in Pids |-> "free"]
    /\ start = [c \in Starts |-> Idle]
    /\ stop = [k \in Stops |-> NoPid]
    /\ pidFile = NoPid
    /\ started = {}

-----------------------------------------------------------------------------
(* ltm start: it looks neither at the pid file nor for another daemon.     *)

Spawn(c, p) ==
    /\ start[c] = Idle
    /\ proc[p] = "free"
    /\ start' = [start EXCEPT ![c] = [pc |-> "truncate", pid |-> p]]
    /\ proc' = [proc EXCEPT ![p] = "opening"]
    /\ started' = started \ {p}
    /\ UNCHANGED <<stop, pidFile>>

\* os.WriteFile truncates the file when it opens it, and then writes.
Truncate(c) ==
    /\ start[c].pc = "truncate"
    /\ start' = [start EXCEPT ![c].pc = "write"]
    /\ pidFile' = NoPid
    /\ UNCHANGED <<proc, stop, started>>

\* Another start may have written since the truncation; the end of a longer
\* pid then stays behind a shorter one.
Write(c) ==
    LET p == start[c].pid
    IN  /\ start[c].pc = "write"
        /\ pidFile' = IF pidFile = NoPid THEN p ELSE Overwrite[<<pidFile, p>>]
        /\ started' = started \cup {p}
        /\ start' = [start EXCEPT ![c] = Idle]
        /\ UNCHANGED <<proc, stop>>

\* Mutant: the child is left behind.
StartFailsOnly(c) ==
    /\ start[c].pc \in {"truncate", "write"}
    /\ start' = [start EXCEPT ![c] = Idle]
    /\ UNCHANGED <<proc, stop, pidFile, started>>

\* The file cannot be opened, or written: the child is killed.
StartFails(c) ==
    LET p == start[c].pid
    IN  /\ start[c].pc \in {"truncate", "write"}
        /\ start' = [start EXCEPT ![c] = Idle]
        /\ proc' = [proc EXCEPT ![p] = "zombie"]
        /\ UNCHANGED <<stop, pidFile, started>>

-----------------------------------------------------------------------------
(* ltm stop.                                                               *)

\* Mutant: the handlers are removed when the first signal comes.
TerminatedAtOnce(state) ==
    IF state \in Daemon \ {"recording"} THEN "zombie"
    ELSE IF state = "recording" THEN "stopping" ELSE state

\* Mutant: the context of the service is not the one the signal cancels.
TerminatedNever(state) == IF state \in {"opening", "closing"} THEN "zombie" ELSE state

\* What SIGTERM makes of a process: while signalContext has its handler, the
\* first cancels the context and the next are dropped.
Terminated(state) ==
    IF state \in {"opening", "closing"} THEN "zombie"
    ELSE IF state = "recording" THEN "stopping" ELSE state

ReadPidFile(k) ==
    /\ stop[k] = NoPid
    /\ pidFile # NoPid
    /\ stop' = [stop EXCEPT ![k] = pidFile]
    /\ UNCHANGED <<proc, start, pidFile, started>>

\* FindProcess and Signal: an error when there is no such process.
Signal(k) ==
    LET p == stop[k]
    IN  /\ p # NoPid
        /\ proc' = [proc EXCEPT ![p] = Terminated(proc[p])]
        /\ stop' = [stop EXCEPT ![k] = NoPid]
        /\ UNCHANGED <<start, pidFile, started>>

-----------------------------------------------------------------------------
(* The daemon, and the system's part (external).                           *)

Become(p, from, to) ==
    /\ proc[p] = from
    /\ proc' = [proc EXCEPT ![p] = to]
    /\ UNCHANGED <<start, stop, pidFile, started>>

Opened(p) == Become(p, "opening", "recording")
OpenFails(p) == Become(p, "opening", "zombie")

\* The collector or a write fails: the service stops itself.
ServiceFails(p) == Become(p, "recording", "stopping")

\* svc.Run has flushed and returns, the handlers are removed.
Flushed(p) == Become(p, "stopping", "closing")

\* The store is closed.  Nobody removes the pid file.
Exit(p) == Become(p, "closing", "zombie")

\* Mutant: the start waits for its child on the side.
ReapAtOnce(p) == Become(p, "zombie", "free")

\* A zombie waits for its parent: init, once the start is over, which does not
\* wait for it.
Reap(p) == (\A c \in Starts : start[c].pid # p) /\ Become(p, "zombie", "free")

OtherBegins(p) == Become(p, "free", "other")
OtherEnds(p) == Become(p, "other", "free")

-----------------------------------------------------------------------------

StartStep(c) == (\E p \in Pids : Spawn(c, p)) \/ Truncate(c) \/ Write(c) \/ StartFails(c)
DaemonStep(p) == Opened(p) \/ OpenFails(p) \/ Flushed(p) \/ Exit(p)
SystemStep(p) == ServiceFails(p) \/ Reap(p) \/ OtherBegins(p) \/ OtherEnds(p)

Next ==
    \/ \E c \in Starts : StartStep(c)
    \/ \E k \in Stops : ReadPidFile(k) \/ Signal(k)
    \/ \E p \in Pids : DaemonStep(p) \/ SystemStep(p)

Spec == Init /\ [][Next]_vars

\* A stop that has read the file goes on, and daemons run.
FairSpec ==
    /\ Spec
    /\ \A k \in Stops : WF_vars(Signal(k))
    /\ \A p \in Pids : WF_vars(DaemonStep(p))

-----------------------------------------------------------------------------

\* Types; a start in progress is the parent of a process that has not been
\* reaped, and of no other start's.
TypeOK ==
    /\ proc \in [Pids -> ProcState]
    /\ start \in [Starts -> [pc : {"idle", "truncate", "write"}, pid : Pids \cup {NoPid}]]
    /\ stop \in [Stops -> Pids \cup {NoPid}]
    /\ pidFile \in Pids \cup {NoPid}
    /\ started \subseteq Pids
    /\ \A c \in Starts : start[c].pc = "idle" <=> start[c].pid = NoPid
    /\ \A c, d \in Starts : start[c].pid = start[d].pid /\ start[c].pid # NoPid => c = d

\* The pid a start would kill is its child's, alive or a zombie: when it fails,
\* no other process is hit, however long ago the child ended by itself.
KillHitsTheChild ==
    \A c \in Starts :
        start[c].pid # NoPid => proc[start[c].pid] \in Daemon \cup {"zombie"}

\* A start that reports an error leaves no daemon: one that runs is being
\* started, or its start has succeeded.
FailedStartLeavesNoDaemon ==
    \A p \in Pids :
        proc[p] \in Daemon => p \in started \/ \E c \in Starts : start[c].pid = p

\* A daemon that records ends only after its last flush, unless its own start
\* kills it: neither a second stop, nor one that comes during the flush, nor
\* one that read the pid of an earlier daemon interrupts it.
EndsAfterLastFlush ==
    [][\A p \in Pids :
          /\ proc[p] \in {"recording", "stopping"}
          /\ proc'[p] \notin {"recording", "stopping", "closing"}
          => \E c \in Starts : start[c].pid = p /\ start'[c] = Idle]_vars

\* The daemon that a stop has read the pid of ends, in whatever phase the
\* signal finds it.
StopEndsDaemon ==
    \A k \in Stops, p \in Pids :
        stop[k] = p /\ proc[p] \in Daemon ~> proc[p] \notin Daemon

=============================================================================
