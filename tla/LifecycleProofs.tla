--------------------------- MODULE LifecycleProofs ---------------------------
(***************************************************************************)
(* What Lifecycle promises, for any number of pids and of commands that    *)
(* overlap.                                                                *)
(***************************************************************************)
EXTENDS Lifecycle, TLAPS

\* The conjunction is inductive: a new child takes a free pid, so no start in
\* progress has it, and no pid is free again while its start is.
ProcessInv == TypeOK /\ KillHitsTheChild /\ FailedStartLeavesNoDaemon

LEMMA InitEstablishesInv == Init => ProcessInv
BY LifecycleAssumption
   DEF Init, Idle, ProcessInv, TypeOK, KillHitsTheChild, FailedStartLeavesNoDaemon,
       ProcState, Daemon

-----------------------------------------------------------------------------
(* What each command and each process keeps.                               *)

LEMMA StartKeepsInv ==
    ASSUME ProcessInv, NEW c \in Starts, StartStep(c)
    PROVE  ProcessInv'
<1> USE LifecycleAssumption DEF ProcState, Daemon, Idle
<1>1. ASSUME NEW p \in Pids, Spawn(c, p) PROVE ProcessInv'
  <2>1. \A d \in Starts : start[d].pid # p
    BY <1>1 DEF Spawn, ProcessInv, KillHitsTheChild
  <2>2. TypeOK'
    BY <1>1, <2>1 DEF Spawn, ProcessInv, TypeOK
  <2>3. KillHitsTheChild'
    BY <1>1, <2>1 DEF Spawn, ProcessInv, TypeOK, KillHitsTheChild
  <2>4. FailedStartLeavesNoDaemon'
    BY <1>1 DEF Spawn, ProcessInv, TypeOK, FailedStartLeavesNoDaemon
  <2> QED
    BY <2>2, <2>3, <2>4 DEF ProcessInv
<1>2. CASE Truncate(c)
  BY <1>2 DEF Truncate, ProcessInv, TypeOK, KillHitsTheChild, FailedStartLeavesNoDaemon
<1>3. CASE Write(c)
  <2>1. start[c].pid \in Pids
    BY <1>3 DEF Write, ProcessInv, TypeOK
  <2>2. pidFile' \in Pids
    BY <1>3, <2>1 DEF Write, ProcessInv, TypeOK
  <2>3. TypeOK'
    BY <1>3, <2>1, <2>2 DEF Write, ProcessInv, TypeOK
  <2>4. KillHitsTheChild'
    BY <1>3 DEF Write, ProcessInv, TypeOK, KillHitsTheChild
  <2>5. FailedStartLeavesNoDaemon'
    BY <1>3 DEF Write, ProcessInv, TypeOK, FailedStartLeavesNoDaemon
  <2> QED
    BY <2>3, <2>4, <2>5 DEF ProcessInv
<1>4. CASE StartFails(c)
  <2>1. TypeOK'
    BY <1>4 DEF StartFails, ProcessInv, TypeOK
  <2>2. KillHitsTheChild'
    BY <1>4 DEF StartFails, ProcessInv, TypeOK, KillHitsTheChild
  <2>3. FailedStartLeavesNoDaemon'
    BY <1>4 DEF StartFails, ProcessInv, TypeOK, FailedStartLeavesNoDaemon
  <2> QED
    BY <2>1, <2>2, <2>3 DEF ProcessInv
<1> QED
  BY <1>1, <1>2, <1>3, <1>4 DEF StartStep

LEMMA StopKeepsInv ==
    ASSUME ProcessInv, NEW k \in Stops, ReadPidFile(k) \/ Signal(k)
    PROVE  ProcessInv'
<1> USE LifecycleAssumption DEF ProcState, Daemon
<1>1. CASE ReadPidFile(k)
  BY <1>1 DEF ReadPidFile, ProcessInv, TypeOK, KillHitsTheChild, FailedStartLeavesNoDaemon
<1>2. CASE Signal(k)
  BY <1>2 DEF Signal, Terminated, ProcessInv, TypeOK, KillHitsTheChild,
              FailedStartLeavesNoDaemon
<1> QED
  BY <1>1, <1>2

LEMMA ProcessKeepsInv ==
    ASSUME ProcessInv, NEW p \in Pids, DaemonStep(p) \/ SystemStep(p)
    PROVE  ProcessInv'
<1> USE DEF ProcState, Daemon, ProcessInv, TypeOK, KillHitsTheChild,
            FailedStartLeavesNoDaemon, Become
<1>1. CASE DaemonStep(p)
  BY <1>1 DEF DaemonStep, Opened, OpenFails, Flushed, Exit
<1>2. CASE Reap(p)
  BY <1>2 DEF Reap
<1>3. CASE ServiceFails(p) \/ OtherBegins(p) \/ OtherEnds(p)
  BY <1>3 DEF ServiceFails, OtherBegins, OtherEnds
<1> QED
  BY <1>1, <1>2, <1>3 DEF SystemStep

\* No behaviour leaves it.
THEOREM ProcessInvHolds == Spec => []ProcessInv
<1>1. ASSUME ProcessInv, [Next]_vars PROVE ProcessInv'
  <2>1. CASE UNCHANGED vars
    BY <1>1, <2>1 DEF vars, ProcessInv, TypeOK, KillHitsTheChild, FailedStartLeavesNoDaemon
  <2> QED
    BY <1>1, <2>1, StartKeepsInv, StopKeepsInv, ProcessKeepsInv DEF Next
<1> QED
  BY <1>1, InitEstablishesInv, PTL DEF Spec

-----------------------------------------------------------------------------

\* The types, and one start for each child.
THEOREM Typing == Spec => []TypeOK
BY ProcessInvHolds, PTL DEF ProcessInv

\* The kill of runStart's error path never hits a process that is not its child.
THEOREM KillIsSafe == Spec => []KillHitsTheChild
BY ProcessInvHolds, PTL DEF ProcessInv

\* No daemon survives a start that reported an error.
THEOREM NoOrphanOfAFailedStart == Spec => []FailedStartLeavesNoDaemon
BY ProcessInvHolds, PTL DEF ProcessInv

\* Whatever the stops that overlap, the last flush of a daemon is not cut
\* short by them.
THEOREM LastFlushCompletes == Spec => EndsAfterLastFlush
<1> DEFINE Graceful ==
      \A p \in Pids :
          /\ proc[p] \in {"recording", "stopping"}
          /\ proc'[p] \notin {"recording", "stopping", "closing"}
          => \E c \in Starts : start[c].pid = p /\ start'[c] = Idle
<1>1. ASSUME ProcessInv, [Next]_vars PROVE [Graceful]_vars
  <2>1. ASSUME NEW c \in Starts, StartStep(c) PROVE Graceful
    BY <1>1, <2>1 DEF StartStep, Spawn, Truncate, Write, StartFails, ProcessInv, TypeOK
  <2>2. ASSUME NEW k \in Stops, ReadPidFile(k) \/ Signal(k) PROVE Graceful
    BY <1>1, <2>2 DEF ReadPidFile, Signal, Terminated, ProcessInv, TypeOK
  <2>3. ASSUME NEW p \in Pids, DaemonStep(p) \/ SystemStep(p) PROVE Graceful
    BY <1>1, <2>3 DEF DaemonStep, SystemStep, Become, Opened, OpenFails, Flushed, Exit,
                      ServiceFails, Reap, OtherBegins, OtherEnds, ProcessInv, TypeOK
  <2> QED
    BY <1>1, <2>1, <2>2, <2>3 DEF Next
<1> QED
  BY <1>1, ProcessInvHolds, PTL DEF Spec, EndsAfterLastFlush

=============================================================================
