--------------------------- MODULE WriteLockProofs ---------------------------
(***************************************************************************)
(* Proofs about WriteLock, for any writers, timeouts and lengths of        *)
(* statements.  The clock of a flush is the time it waited behind others   *)
(* plus the time it has held the lock: that is the inductive invariant     *)
(* from which a timeout is traced to the others.                           *)
(***************************************************************************)
EXTENDS WriteLock, TLAPS

\* A failed writer is not executing, a recorder executes flushes only, and the
\* clock of a statement is made of waiting and of a flush's own share.
Share(w) == IF w \in Recorders /\ lock = w THEN held ELSE 0

Clocks ==
    /\ \A w \in failed : Idle(w)
    /\ \A r \in Recorders : stmt[r] \in {"none", "flush"}
    /\ \A w \in Writers : ~Idle(w) => elapsed[w] = behind[w] + Share(w)

LockInv == TypeOK /\ Clocks /\ TimeoutsAreContention /\ SpaceIsOwed

LEMMA InitLockInv == Init => LockInv
  <1> SUFFICES ASSUME Init  PROVE LockInv
    OBVIOUS
  <1>1. TypeOK
    BY WriteLockAssumption DEF Init, TypeOK, Idle, Waited, Writers, Statements
  <1>2. Clocks
    BY WriteLockAssumption DEF Init, Clocks, Idle, Writers
  <1>3. TimeoutsAreContention /\ SpaceIsOwed
    BY DEF Init, TimeoutsAreContention, SpaceIsOwed
  <1> QED  BY <1>1, <1>2, <1>3 DEF LockInv

\* Starting a statement.
LEMMA StartKeeps ==
    ASSUME LockInv, NEW w \in Writers, NEW s \in Statements \ {"vacuum"},
           Start(w, s), w \in Recorders => s = "flush"
    PROVE  LockInv'
  <1> USE DEF Start, Execute, Idle
  <1>1. TypeOK'
    BY WriteLockAssumption DEF LockInv, TypeOK, Waited, Writers, Statements
  <1>2. Clocks'
    BY WriteLockAssumption, SMTT(30)
    DEF LockInv, TypeOK, Clocks, Share, Writers, Statements
  <1>3. TimeoutsAreContention'
    BY DEF LockInv, TypeOK, TimeoutsAreContention
  <1>4. SpaceIsOwed'
    BY DEF LockInv, TypeOK, SpaceIsOwed, Writers
  <1> QED  BY <1>1, <1>2, <1>3, <1>4 DEF LockInv

LEMMA AcquireKeeps ==
    ASSUME LockInv, NEW w \in Writers, Acquire(w)  PROVE LockInv'
  <1> USE DEF Acquire, Idle
  <1>1. TypeOK'
    BY WriteLockAssumption DEF LockInv, TypeOK, Waited, Writers, Statements
  <1>2. Clocks'
    BY WriteLockAssumption DEF LockInv, TypeOK, Clocks, Share, Writers
  <1>3. TimeoutsAreContention' /\ SpaceIsOwed'
    BY DEF LockInv, TimeoutsAreContention, SpaceIsOwed
  <1> QED  BY <1>1, <1>2, <1>3 DEF LockInv

LEMMA CommitRowsKeeps ==
    ASSUME LockInv, NEW w \in Writers, CommitRows(w)  PROVE LockInv'
  <1> USE DEF CommitRows, Execute, Release, Idle
  <1>1. TypeOK'
    BY WriteLockAssumption DEF LockInv, TypeOK, Waited, Writers, Statements
  <1>2. Clocks'
    BY WriteLockAssumption, SMTT(30) DEF LockInv, TypeOK, Clocks, Share, Writers
  <1>3. TimeoutsAreContention'
    BY DEF LockInv, TypeOK, Clocks, TimeoutsAreContention
  <1>4. SpaceIsOwed'
    BY DEF LockInv, TypeOK, SpaceIsOwed, Writers
  <1> QED  BY <1>1, <1>2, <1>3, <1>4 DEF LockInv

LEMMA CommitDeleteKeeps ==
    ASSUME LockInv, NEW p \in Prunes, NEW vacuum \in BOOLEAN, CommitDelete(p, vacuum)
    PROVE  LockInv'
  <1> USE DEF CommitDelete, NextAfterDelete, Execute, Release, Idle
  <1>0. NextAfterDelete(old, vacuum) \in {"none", "vacuum"}
    OBVIOUS
  <1>1. TypeOK'
    <2>1. old' \in BOOLEAN /\ free' \in BOOLEAN /\ owed' \in BOOLEAN
      BY Zenon DEF LockInv, TypeOK
    <2>2. stmt' \in [Writers -> Statements \cup {"none"}] /\ lock' = NoOne
      BY <1>0 DEF LockInv, TypeOK, Writers, Statements
    <2> QED
      BY <2>1, <2>2, WriteLockAssumption
      DEF LockInv, TypeOK, Waited, Writers, Statements
  <1>2. Clocks'
    BY WriteLockAssumption, SMTT(30) DEF LockInv, TypeOK, Clocks, Share, Writers
  <1>3. TimeoutsAreContention'
    BY DEF LockInv, TypeOK, Clocks, TimeoutsAreContention
  <1>4. SpaceIsOwed'
    BY DEF LockInv, TypeOK, SpaceIsOwed, Writers
  <1> QED  BY <1>1, <1>2, <1>3, <1>4 DEF LockInv

LEMMA CommitVacuumKeeps ==
    ASSUME LockInv, NEW p \in Prunes, CommitVacuum(p)  PROVE LockInv'
  <1> USE DEF CommitVacuum, Execute, Release, Idle
  <1>1. TypeOK'
    BY WriteLockAssumption DEF LockInv, TypeOK, Waited, Writers, Statements
  <1>2. Clocks'
    BY WriteLockAssumption, SMTT(30) DEF LockInv, TypeOK, Clocks, Share, Writers
  <1>3. TimeoutsAreContention'
    BY DEF LockInv, TypeOK, Clocks, TimeoutsAreContention
  <1>4. SpaceIsOwed'
    BY DEF SpaceIsOwed
  <1> QED  BY <1>1, <1>2, <1>3, <1>4 DEF LockInv

\* What a rolled back statement leaves, whether or not it timed out.
LEMMA AbandonKeeps ==
    ASSUME LockInv, NEW w \in Writers, Abandon(w),
           failed' \in {failed, failed \cup {w}}
    PROVE  TypeOK' /\ Clocks' /\ SpaceIsOwed'
  <1> USE DEF Abandon, Release, Idle
  <1>1. TypeOK'
    BY WriteLockAssumption DEF LockInv, TypeOK, Waited, Writers, Statements
  <1>2. Clocks'
    BY WriteLockAssumption, SMTT(30) DEF LockInv, TypeOK, Clocks, Share, Writers
  <1>3. SpaceIsOwed'
    BY DEF LockInv, TypeOK, SpaceIsOwed, Writers
  <1> QED  BY <1>1, <1>2, <1>3

\* The step that the property is about: the clock of the writer that fails.
LEMMA FailKeeps ==
    ASSUME LockInv, NEW w \in Writers, Fail(w)  PROVE LockInv'
  <1>1. TypeOK' /\ Clocks' /\ SpaceIsOwed'
    BY AbandonKeeps DEF Fail
  <1>2. elapsed[w] = behind[w] + Share(w) /\ behind' = behind
    BY DEF LockInv, Clocks, Fail, TimedOut, Abandon
  <1>3. \/ behind[w] >= Busy
        \/ w \in Recorders /\ behind[w] + MaxHold["flush"] >= WriteTimeout
    <2>1. CASE lock # w /\ elapsed[w] >= Busy
      BY <1>2, <2>1 DEF LockInv, TypeOK, Share
    <2>2. CASE w \in Recorders /\ elapsed[w] >= WriteTimeout
      <3>1. behind[w] \in Nat /\ MaxHold["flush"] \in Nat /\ held \in Nat
            /\ WriteTimeout \in Nat
        BY WriteLockAssumption DEF LockInv, TypeOK, Statements
      <3>2. lock = w => held <= MaxHold["flush"]
        BY <2>2, WriteLockAssumption DEF LockInv, TypeOK, Clocks, Idle, Writers
      <3> QED  BY <1>2, <2>2, <3>1, <3>2 DEF Share
    <2> QED  BY <2>1, <2>2 DEF Fail, TimedOut
  <1>4. TimeoutsAreContention'
    BY <1>2, <1>3 DEF LockInv, TimeoutsAreContention, Fail
  <1> QED  BY <1>1, <1>4 DEF LockInv

LEMMA InterruptKeeps ==
    ASSUME LockInv, NEW w \in Writers, Interrupt(w)  PROVE LockInv'
  <1>1. TypeOK' /\ Clocks' /\ SpaceIsOwed'
    BY AbandonKeeps DEF Interrupt
  <1>2. TimeoutsAreContention'
    BY DEF LockInv, TimeoutsAreContention, Interrupt, Abandon
  <1> QED  BY <1>1, <1>2 DEF LockInv

\* A tick is added to the wait of every writer but the holder, and to the
\* holder's share.
LEMMA TickKeeps ==
    ASSUME LockInv, Tick  PROVE LockInv'
  <1> USE DEF Tick, Idle
  <1>1. TypeOK'
    BY WriteLockAssumption, SMTT(30)
    DEF LockInv, TypeOK, Waited, Writers, Statements, Counts, TimedOut
  <1>2. Clocks'
    BY WriteLockAssumption, SMTT(30)
    DEF LockInv, TypeOK, Clocks, Share, Writers, Counts
  <1>3. TimeoutsAreContention'
    BY DEF LockInv, TypeOK, Clocks, TimeoutsAreContention
  <1>4. SpaceIsOwed'
    BY DEF LockInv, SpaceIsOwed
  <1> QED  BY <1>1, <1>2, <1>3, <1>4 DEF LockInv

LEMMA StepKeepsLockInv == LockInv /\ [Next]_vars => LockInv'
  <1> SUFFICES ASSUME LockInv, [Next]_vars  PROVE LockInv'
    OBVIOUS
  <1>1. ASSUME NEW r \in Recorders, Flush(r)  PROVE LockInv'
    BY <1>1, StartKeeps DEF Flush, Writers, Statements
  <1>2. ASSUME NEW p \in Prunes, Prune(p)  PROVE LockInv'
    BY <1>2, StartKeeps, WriteLockAssumption DEF Prune, Writers, Statements
  <1>3. ASSUME NEW b \in Loads, Load(b)  PROVE LockInv'
    BY <1>3, StartKeeps, WriteLockAssumption DEF Load, Writers, Statements
  <1>4. CASE UNCHANGED vars
    BY <1>4 DEF vars, LockInv, TypeOK, Clocks, Share, TimeoutsAreContention,
                SpaceIsOwed, Idle, Waited
  <1> QED
    BY <1>1, <1>2, <1>3, <1>4, CommitDeleteKeeps, CommitVacuumKeeps, AcquireKeeps,
       CommitRowsKeeps, FailKeeps, InterruptKeeps, TickKeeps
    DEF Next

\* The types, the limits of both timeouts included, for any writers.
THEOREM LockTypeCorrect == Spec => []TypeOK
  <1>1. LockInv => TypeOK
    BY DEF LockInv
  <1> QED  BY InitLockInv, StepKeepsLockInv, <1>1, PTL DEF Spec

\* Whatever ends a recorder by a timeout held the lock for that long, for any
\* number of writers, any timeouts and any lengths of statements (flushWrite,
\* busy_timeout).
THEOREM OnlyContentionEndsARecorder == Spec => []TimeoutsAreContention
  <1>1. LockInv => TimeoutsAreContention
    BY DEF LockInv
  <1> QED  BY InitLockInv, StepKeepsLockInv, <1>1, PTL DEF Spec

\* No VACUUM that is due is lost but by a failure, an interruption or the choice
\* of the user (Store.Prune), however many prunes run at a time.
THEOREM SpaceIsAccountedFor == Spec => []SpaceIsOwed
  <1>1. LockInv => SpaceIsOwed
    BY DEF LockInv
  <1> QED  BY InitLockInv, StepKeepsLockInv, <1>1, PTL DEF Spec

=============================================================================
