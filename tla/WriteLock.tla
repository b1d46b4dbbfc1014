------------------------------ MODULE WriteLock ------------------------------
(***************************************************************************)
(* The writers of one database file and SQLite's write lock: the flushes   *)
(* of the recorders, ltm prune with or without --vacuum, ltm benchmark.    *)
(* A statement waits for the lock as long as the busy timeout of its       *)
(* connection allows (storage.Open) and holds it until its transaction     *)
(* ends; a flush as a whole, waiting included, has the timeout of          *)
(* flushWrite.  Time is a count of ticks.                                  *)
(***************************************************************************)
EXTENDS Naturals

CONSTANTS Recorders,     \* daemons that flush
          Prunes, Loads, \* prune and benchmark commands that can run at a time
          NoOne,
          Busy,          \* busy_timeout, in ticks
          WriteTimeout,  \* flushWriteTimeout, in ticks
          MaxHold        \* the longest each statement may hold the lock

Writers == Recorders \cup Prunes \cup Loads
Statements == {"flush", "delete", "vacuum", "load"}

ASSUME WriteLockAssumption ==
    /\ NoOne \notin Writers
    /\ Recorders \cap (Prunes \cup Loads) = {}
    /\ Prunes \cap Loads = {}
    /\ Busy \in Nat \ {0}
    /\ WriteTimeout \in Nat \ {0}
    /\ MaxHold \in [Statements -> Nat]

VARIABLES lock,     \* the writer that holds the lock
          stmt,     \* what each writer executes
          elapsed,  \* ticks since it began to, as its timeout counts them
          held,     \* ticks since the holder took the lock
          failed,   \* the writers that last returned an error of a timeout
          old,      \* there are rows before the cutoff
          free,     \* the file has pages that a VACUUM would give back
          behind,   \* history: ticks a writer has waited while another held
          owed      \* history: a prune has left the pages of its rows behind

vars == <<lock, stmt, elapsed, held, failed, old, free, behind, owed>>

Idle(w) == stmt[w] = "none"

Init ==
    /\ lock = NoOne
    /\ stmt = [w \in Writers |-> "none"]
    /\ elapsed = [w \in Writers |-> 0]
    /\ held = 0
    /\ failed = {}
    /\ old \in BOOLEAN
    /\ free = FALSE
    /\ behind = [w \in Writers |-> 0]
    /\ owed = FALSE

-----------------------------------------------------------------------------
(* A writer executes one statement after the other.                        *)

\* Mutant: one context with a timeout serves all the flushes.
ExecuteInOldContext(w, s) ==
    /\ stmt' = [stmt EXCEPT ![w] = s]
    /\ behind' = [behind EXCEPT ![w] = 0]
    /\ UNCHANGED elapsed

Execute(w, s) ==
    /\ stmt' = [stmt EXCEPT ![w] = s]
    /\ elapsed' = [elapsed EXCEPT ![w] = 0]
    /\ behind' = [behind EXCEPT ![w] = 0]

Start(w, s) ==
    /\ Idle(w)
    /\ Execute(w, s)
    /\ failed' = failed \ {w}
    /\ UNCHANGED <<lock, held, old, free, owed>>

\* The service ends when a write has failed.
Flush(r) == r \notin failed /\ Start(r, "flush")

Prune(p) == Start(p, "delete")

\* An empty benchmark executes nothing.
Load(b) == Start(b, "load")

\* Several writers that wait poll the lock, and any of them may find it free.
Acquire(w) ==
    /\ ~Idle(w)
    /\ lock = NoOne
    /\ lock' = w
    /\ held' = 0
    /\ UNCHANGED <<stmt, elapsed, failed, old, free, behind, owed>>

Release(w) == lock' = IF lock = w THEN NoOne ELSE lock

\* InsertEvents commits.  The rows may come before the cutoff of a later prune,
\* and take free pages.
CommitRows(w) ==
    /\ lock = w
    /\ stmt[w] \in {"flush", "load"}
    /\ Execute(w, "none")
    /\ Release(w)
    /\ old' \in {old, TRUE}
    /\ free' \in {free, FALSE}
    /\ UNCHANGED <<held, failed, owed>>

\* Mutant: VACUUM is tied to the wrong one of two conditions.
NextAfterDeleteOfNothing(n, vacuum) == IF vacuum /\ ~n THEN "vacuum" ELSE "none"

\* A DELETE of no rows is followed by no VACUUM.
NextAfterDelete(n, vacuum) == IF vacuum /\ n THEN "vacuum" ELSE "none"

CommitDelete(p, vacuum) ==
    LET next == NextAfterDelete(old, vacuum)
    IN  /\ lock = p
        /\ stmt[p] = "delete"
        /\ Execute(p, next)
        /\ Release(p)
        /\ old' = FALSE
        /\ free' = (free \/ old)
        /\ owed' = (owed \/ (old /\ ~vacuum))
        /\ UNCHANGED <<held, failed>>

CommitVacuum(p) ==
    /\ lock = p
    /\ stmt[p] = "vacuum"
    /\ Execute(p, "none")
    /\ Release(p)
    /\ free' = FALSE
    /\ owed' = FALSE
    /\ UNCHANGED <<held, failed, old>>

-----------------------------------------------------------------------------
(* Statements that do not complete: their transaction is rolled back.      *)

Abandon(w) ==
    /\ ~Idle(w)
    /\ stmt' = [stmt EXCEPT ![w] = "none"]
    /\ Release(w)
    /\ owed' = (owed \/ stmt[w] = "vacuum")
    /\ UNCHANGED <<elapsed, held, old, free, behind>>

\* Mutant: the whole flush is not limited.
TimedOutWaiting(w) == ~Idle(w) /\ lock # w /\ elapsed[w] >= Busy

TimedOut(w) ==
    /\ ~Idle(w)
    /\ \/ lock # w /\ elapsed[w] >= Busy
       \/ w \in Recorders /\ elapsed[w] >= WriteTimeout

Fail(w) ==
    /\ TimedOut(w)
    /\ Abandon(w)
    /\ failed' = failed \cup {w}

\* A command may be interrupted.
Interrupt(c) ==
    /\ c \notin Recorders
    /\ Abandon(c)
    /\ UNCHANGED failed

-----------------------------------------------------------------------------

Counts(w) == ~Idle(w) /\ (lock # w \/ w \in Recorders)

\* Before a tick is over a writer that waits has found a free lock, a statement
\* that is done has committed and one that has timed out has returned.
Tick ==
    /\ lock # NoOne
    /\ held < MaxHold[stmt[lock]]
    /\ \A w \in Writers : ~TimedOut(w)
    /\ held' = held + 1
    /\ elapsed' = [w \in Writers |-> IF Counts(w) THEN elapsed[w] + 1 ELSE elapsed[w]]
    /\ behind' = [w \in Writers |-> IF ~Idle(w) /\ lock # w THEN behind[w] + 1
                                    ELSE behind[w]]
    /\ UNCHANGED <<lock, stmt, failed, old, free, owed>>

Next ==
    \/ \E r \in Recorders : Flush(r)
    \/ \E p \in Prunes : \/ Prune(p)
                         \/ \E vacuum \in BOOLEAN : CommitDelete(p, vacuum)
                         \/ CommitVacuum(p)
    \/ \E b \in Loads : Load(b)
    \/ \E w \in Writers : Acquire(w) \/ CommitRows(w) \/ Fail(w) \/ Interrupt(w)
    \/ Tick

Spec == Init /\ [][Next]_vars

-----------------------------------------------------------------------------

Waited(w) == ~Idle(w) /\ lock # w

\* The lock is with a writer that executes a statement, and no statement keeps
\* it, or waits for it, beyond its time.
TypeOK ==
    /\ lock \in Writers \cup {NoOne}
    /\ stmt \in [Writers -> Statements \cup {"none"}]
    /\ elapsed \in [Writers -> Nat]
    /\ held \in Nat
    /\ failed \in SUBSET Writers
    /\ old \in BOOLEAN /\ free \in BOOLEAN /\ owed \in BOOLEAN
    /\ behind \in [Writers -> Nat]
    /\ lock # NoOne => ~Idle(lock) /\ held <= MaxHold[stmt[lock]]
    /\ \A w \in Writers : Waited(w) => elapsed[w] <= Busy
    /\ \A r \in Recorders : ~Idle(r) => elapsed[r] <= WriteTimeout

\* A write error ends the recorder, and flushWrite gives up after five seconds
\* even while it executes.  So a recorder ends by a timeout only when, within
\* one flush, others held the lock for all of the busy timeout or for all of the
\* write timeout but the flush's own share, as one VACUUM can; statements that
\* together hold it for less never end a recorder, in whatever order the writers
\* find it free.  A command fails only behind a whole busy timeout.
TimeoutsAreContention ==
    \A w \in failed :
        \/ behind[w] >= Busy
        \/ w \in Recorders /\ behind[w] + MaxHold["flush"] >= WriteTimeout

\* Store.Prune commits its DELETE before it asks for a VACUUM.  The pages of
\* deleted rows stay in the file only if a prune was run without --vacuum, or if
\* its VACUUM failed or was interrupted: nothing else loses a VACUUM.  A second
\* prune --vacuum does not make up for it, for it finds no row to delete.
SpaceIsOwed == free => owed \/ \E p \in Prunes : stmt[p] = "vacuum"

=============================================================================
