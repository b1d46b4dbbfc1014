-------------------------------- MODULE Store --------------------------------
(***************************************************************************)
(* internal/storage as the processes that share the database file see it:  *)
(* the events table, whose row ids SQLite numbers with AUTOINCREMENT, the  *)
(* writers that insert batches and prune, and the two queries the tail     *)
(* reads it with.  A statement or a transaction is one step.               *)
(*                                                                         *)
(* A row has the timestamp of its event, which need not follow the order   *)
(* of the ids: CPUs reserve and stamp events independently, and ltm        *)
(* benchmark stamps its events ahead of the clock.                         *)
(***************************************************************************)
EXTENDS Integers, FiniteSets

CONSTANTS MaxID,       \* bound on the rows ever inserted
          MaxTime,     \* bound on the clock and on the timestamps
          MaxInsert,   \* bound on the rows of one transaction
          Punctual     \* every event is stored in the instant it happens

ASSUME StoreAssumption ==
    /\ MaxID \in Nat
    /\ MaxTime \in Nat \ {0}
    /\ MaxInsert \in Nat
    /\ Punctual \in BOOLEAN

VARIABLES table,      \* the rows
          sequence,   \* the largest id given so far (sqlite_sequence)
          now         \* the wall clock

storeVars == <<table, sequence, now>>

\* "match" is what a reader's predicate says of the other columns.
Content == [ts : 1..MaxTime, match : BOOLEAN]
Row == [id : 1..MaxID, ts : 1..MaxTime, match : BOOLEAN]

StoreInit ==
    /\ table = {}
    /\ sequence = 0
    /\ now = 1

NewRow(id, c) == [id |-> id, ts |-> c.ts, match |-> c.match]

\* Mutant: without AUTOINCREMENT SQLite continues from the largest id present.
InsertReusingIDs(batch) ==
    LET n == Cardinality(DOMAIN batch)
        last == IF table = {} THEN 0
                ELSE CHOOSE m \in {r.id : r \in table} : \A r \in table : r.id <= m
    IN  /\ last + n <= MaxID
        /\ \A i \in DOMAIN batch : Punctual => batch[i].ts = now
        /\ table' = table \cup {NewRow(last + i, batch[i]) : i \in DOMAIN batch}
        /\ sequence' = last + n
        /\ UNCHANGED now

InsertEvents(batch) ==
    LET n == Cardinality(DOMAIN batch)
    IN  /\ sequence + n <= MaxID
        /\ \A i \in DOMAIN batch : Punctual => batch[i].ts = now
        /\ table' = table \cup {NewRow(sequence + i, batch[i]) : i \in DOMAIN batch}
        /\ sequence' = sequence + n
        /\ UNCHANGED now

Prune(cutoff) ==
    /\ table' = {r \in table : r.ts >= cutoff}
    /\ UNCHANGED <<sequence, now>>

TimePasses ==
    /\ now < MaxTime
    /\ now' = now + 1
    /\ UNCHANGED <<table, sequence>>

StoreNext ==
    \/ \E n \in 1..MaxInsert : \E batch \in [1..n -> Content] : InsertEvents(batch)
    \/ \E cutoff \in 1..(MaxTime + 1) : Prune(cutoff)
    \/ TimePasses

-----------------------------------------------------------------------------
(* ORDER BY ... LIMIT: the rows with fewer than limit rows before them.    *)

FirstByID(rows, limit) ==
    {r \in rows : Cardinality({q \in rows : q.id < r.id}) < limit}

Earlier(q, r) == q.ts < r.ts \/ (q.ts = r.ts /\ q.id < r.id)
FirstByTime(rows, limit) ==
    {r \in rows : Cardinality({q \in rows : Earlier(q, r)}) < limit}

\* Mutant: the tail reads in the order of the timestamps.
EventsAfterIDByTime(afterID, limit) ==
    FirstByTime({r \in table : r.id > afterID}, limit)

\* Mutant: the row at the cursor is read again.
EventsFromID(afterID, limit) ==
    FirstByID({r \in table : r.id >= afterID}, limit)

EventsAfterID(afterID, limit) ==
    FirstByID({r \in table : r.id > afterID}, limit)

Query(from, to, limit) ==
    FirstByTime({r \in table : from <= r.ts /\ r.ts <= to}, limit)

\* COALESCE(MAX(id), 0), as a relation between the table and its value.
IsLatestEventID(id) ==
    \/ table = {} /\ id = 0
    \/ \E r \in table : r.id = id /\ \A q \in table : q.id <= id

=============================================================================
