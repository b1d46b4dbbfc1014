----------------------------- MODULE WatchProofs -----------------------------
(* CursorInv, and with it the safety properties of Watch, for every number of *)
(* rows, every limit and every clock.                                         *)
EXTENDS Watch, FiniteSetTheorems, TLAPS

USE StoreAssumption, WatchAssumption

\* A query with a limit that returns a row returns every candidate with a
\* smaller id: no row is skipped over by LIMIT.
LEMMA FirstByIDIsClosed ==
    ASSUME NEW rows, IsFiniteSet(rows), NEW limit \in Nat,
           \A r \in rows : r.id \in Nat,
           NEW q \in FirstByID(rows, limit), NEW r \in rows, r.id <= q.id
    PROVE  r \in FirstByID(rows, limit)
<1> DEFINE Below(x) == {y \in rows : y.id < x.id}
<1>1. Below(r) \subseteq Below(q) /\ Below(q) \subseteq rows
  BY DEF FirstByID
<1>2. IsFiniteSet(Below(q)) /\ IsFiniteSet(Below(r))
  BY <1>1, FS_Subset
<1>3. Cardinality(Below(r)) <= Cardinality(Below(q))
  BY <1>1, <1>2, FS_Subset
<1>4. Cardinality(Below(r)) \in Nat /\ Cardinality(Below(q)) \in Nat
  BY <1>2, FS_CardinalityType
<1>5. Cardinality(Below(q)) < limit
  BY DEF FirstByID
<1>6. Cardinality(Below(r)) < limit
  BY <1>3, <1>4, <1>5
<1> QED
  BY <1>6 DEF FirstByID

-----------------------------------------------------------------------------
(* The steps of other processes.                                              *)

\* A transaction adds rows beyond every cursor.
LEMMA InsertKeepsCursorInv ==
    ASSUME CursorInv, UNCHANGED watchVars,
           NEW n \in 1..MaxInsert, NEW batch \in [1..n -> Content], InsertEvents(batch)
    PROVE  CursorInv'
<1> DEFINE added == {NewRow(sequence + i, batch[i]) : i \in DOMAIN batch}
<1>1. n \in Nat /\ DOMAIN batch = 1..n
  OBVIOUS
<1>2. Cardinality(DOMAIN batch) = n /\ IsFiniteSet(DOMAIN batch)
  BY <1>1, FS_Interval
<1>3. table' = table \cup added /\ sequence' = sequence + n
      /\ sequence + n <= MaxID /\ UNCHANGED now
  BY <1>2 DEF InsertEvents
<1>4. sequence \in Nat /\ lastID \in 0..sequence
  BY DEF CursorInv, TypeOK
<1>5. \A r \in added : r \in Row /\ sequence < r.id /\ r.id <= sequence + n
  <2> SUFFICES ASSUME NEW i \in 1..n
               PROVE  LET r == NewRow(sequence + i, batch[i])
                      IN  r \in Row /\ sequence < r.id /\ r.id <= sequence + n
    BY <1>1
  <2>1. batch[i].ts \in 1..MaxTime /\ batch[i].match \in BOOLEAN
    BY DEF Content
  <2>2. sequence + i \in 1..MaxID
    BY <1>1, <1>3, <1>4
  <2> QED
    BY <1>1, <1>4, <2>1, <2>2 DEF NewRow, Row
<1>6. IsFiniteSet(added)
  <2> DEFINE f == [i \in 1..n |-> NewRow(sequence + i, batch[i])]
  <2>1. f \in Surjection(1..n, added)
    BY <1>1 DEF Surjection
  <2> QED
    BY <1>1, <1>2, <2>1, FS_Surjection
<1>7. IsFiniteSet(table')
  BY <1>3, <1>6, FS_Union DEF CursorInv, TypeOK
<1>8. TypeOK'
  <2>1. table' \subseteq Row
    BY <1>3, <1>5 DEF CursorInv, TypeOK
  <2>2. sequence' \in 0..MaxID /\ lastID' \in 0..sequence'
    BY <1>1, <1>3, <1>4 DEF watchVars
  <2>3. \A r \in table' : r.id <= sequence'
    BY <1>1, <1>3, <1>4, <1>5 DEF CursorInv, TypeOK, Row
  <2> QED
    BY <1>3, <1>7, <2>1, <2>2, <2>3 DEF CursorInv, TypeOK, watchVars
<1>9. CursorSkipsNothing'
  BY <1>3, <1>4, <1>5 DEF CursorInv, CursorSkipsNothing, Row, watchVars
<1> QED
  BY <1>8, <1>9 DEF CursorInv, NeverShownTwice, watchVars

\* Deleting rows takes no id from the sequence.
LEMMA PruneKeepsCursorInv ==
    ASSUME CursorInv, UNCHANGED watchVars, NEW cutoff, Prune(cutoff)
    PROVE  CursorInv'
<1>1. table' \subseteq table /\ UNCHANGED <<sequence, now>>
  BY DEF Prune
<1>2. IsFiniteSet(table')
  BY <1>1, FS_Subset DEF CursorInv, TypeOK
<1>3. TypeOK'
  BY <1>1, <1>2 DEF CursorInv, TypeOK, watchVars
<1>4. CursorSkipsNothing'
  BY <1>1 DEF CursorInv, CursorSkipsNothing, watchVars
<1> QED
  BY <1>3, <1>4 DEF CursorInv, NeverShownTwice, watchVars

\* Time passes for the clock alone.
LEMMA TimeKeepsCursorInv ==
    ASSUME CursorInv, UNCHANGED watchVars, TimePasses
    PROVE  CursorInv'
<1>1. TypeOK'
  BY DEF CursorInv, TypeOK, TimePasses, watchVars
<1> QED
  BY <1>1 DEF CursorInv, CursorSkipsNothing, NeverShownTwice, TimePasses, watchVars

-----------------------------------------------------------------------------
(* The steps of the watcher.                                                  *)

\* Printing rows beyond the cursor and moving it past them prints nothing twice
\* and stays within the ids given.
LEMMA ShowAndAdvance ==
    ASSUME CursorInv, UNCHANGED storeVars,
           NEW events \in SUBSET table, \A r \in events : lastID < r.id,
           Show(events), Advance(events)
    PROVE  /\ lastID' \in lastID..sequence
           /\ shown' \in [1..MaxID -> Nat]
           /\ NeverShownTwice'
           /\ \A id \in 1..MaxID : id <= lastID => shown'[id] = shown[id]
           /\ \A id \in 1..MaxID : shown'[id] > 0 => id <= lastID'
           /\ \A r \in events : r.match => shown'[r.id] = 1
           /\ \A r \in events : r.id <= lastID'
           /\ lastID' = lastID \/ \E q \in events : lastID' = q.id
<1>1. /\ table \subseteq Row /\ sequence \in Nat /\ lastID \in 0..sequence
      /\ shown \in [1..MaxID -> Nat]
      /\ \A r \in table : r.id <= sequence
      /\ \A id \in 1..MaxID : shown[id] <= 1 /\ (shown[id] > 0 => id <= lastID)
  BY DEF CursorInv, TypeOK, NeverShownTwice
<1>2. \A r \in events : r.id \in 1..MaxID /\ r.id <= sequence /\ lastID < r.id
  BY <1>1 DEF Row
<1>3. \/ lastID' = lastID /\ \A r \in events : r.id <= lastID
      \/ \E q \in events : lastID' = q.id /\ \A r \in events : r.id <= q.id
  BY DEF Advance
<1>4. /\ lastID' \in lastID..sequence
      /\ \A r \in events : r.id <= lastID'
  BY <1>1, <1>2, <1>3
<1>5. shown' \in [1..MaxID -> Nat]
  BY <1>1 DEF Show
<1>6. \A id \in 1..MaxID :
          shown'[id] = IF \E r \in events : r.id = id /\ r.match
                       THEN shown[id] + 1 ELSE shown[id]
  BY <1>1 DEF Show
<1>7. ASSUME NEW id \in 1..MaxID
      PROVE  /\ shown'[id] <= 1
             /\ id <= lastID => shown'[id] = shown[id]
             /\ shown'[id] > 0 => id <= lastID'
  <2>1. CASE \E r \in events : r.id = id /\ r.match
    <3>1. lastID < id /\ id <= lastID'
      BY <1>2, <1>4, <2>1
    <3>2. shown[id] = 0
      BY <1>1, <3>1
    <3> QED
      BY <1>1, <1>6, <2>1, <3>1, <3>2
  <2>2. CASE ~ \E r \in events : r.id = id /\ r.match
    BY <1>1, <1>4, <1>6, <2>2
  <2> QED
    BY <2>1, <2>2
<1>8. ASSUME NEW r \in events, r.match
      PROVE  shown'[r.id] = 1
  <2>1. shown[r.id] = 0
    BY <1>1, <1>2
  <2> QED
    BY <1>2, <1>6, <1>8, <2>1
<1> QED
  BY <1>3, <1>4, <1>5, <1>7, <1>8 DEF NeverShownTwice

\* Opening and leaving touch neither the table nor the cursor.
LEMMA OpenKeepsCursorInv ==
    ASSUME CursorInv, OpenNew \/ OpenSince \/ Leave
    PROVE  CursorInv'
<1>1. TypeOK'
  BY DEF CursorInv, TypeOK, OpenNew, OpenSince, Leave, storeVars
<1> QED
  BY <1>1 DEF CursorInv, CursorSkipsNothing, NeverShownTwice, OpenNew, OpenSince,
         Leave, storeVars

\* The backfill prints rows of any id below the cursor it sets; the tail it
\* starts owes only rows beyond.
LEMMA BackfillKeepsCursorInv ==
    ASSUME CursorInv, Backfill
    PROVE  CursorInv'
<1> DEFINE events == Query(From, to, Limit)
<1>1. events \subseteq table
  BY DEF Query, FirstByTime
<1>2. lastID = 0 /\ base = 0
  BY DEF CursorInv, TypeOK, Backfill
<1>3. \A r \in events : lastID < r.id
  BY <1>1, <1>2 DEF CursorInv, TypeOK, Row
<1>4. Show(events) /\ Advance(events) /\ UNCHANGED <<storeVars, to>>
  BY DEF Backfill
<1> HIDE DEF events
<1>5. /\ lastID' \in lastID..sequence
      /\ shown' \in [1..MaxID -> Nat]
      /\ NeverShownTwice'
      /\ \A id \in 1..MaxID : shown'[id] > 0 => id <= lastID'
  BY <1>1, <1>3, <1>4, ShowAndAdvance
<1>6. \/ wPC' = "latest" /\ lastID' = 0 /\ base' = 0
      \/ wPC' = "tail" /\ base' = lastID'
  BY <1>2 DEF Backfill, StartTail
<1>7. TypeOK'
  BY <1>2, <1>4, <1>5, <1>6 DEF CursorInv, TypeOK, storeVars
<1>8. CursorSkipsNothing'
  BY <1>4, <1>6, <1>7 DEF CursorSkipsNothing, TypeOK, Row
<1> QED
  BY <1>5, <1>6, <1>7, <1>8 DEF CursorInv

\* The tail starts at the newest row: it owes nothing yet.
LEMMA ReadLatestKeepsCursorInv ==
    ASSUME CursorInv, ReadLatest
    PROVE  CursorInv'
<1>1. lastID = 0 /\ UNCHANGED <<storeVars, to, shown>>
      /\ wPC' = "tail" /\ base' = lastID' /\ lastID' \in 0..MaxID
  BY DEF CursorInv, ReadLatest, StartTail
<1>2. lastID' <= sequence
  BY <1>1 DEF ReadLatest, IsLatestEventID, CursorInv, TypeOK
<1>3. TypeOK'
  BY <1>1, <1>2 DEF CursorInv, TypeOK, storeVars
<1>4. CursorSkipsNothing'
  BY <1>1, <1>3 DEF CursorSkipsNothing, TypeOK, Row
<1> QED
  BY <1>1, <1>3, <1>4 DEF CursorInv, NeverShownTwice

\* A poll, complete or cut short by a failed write: the rows it returns are all
\* those up to the new cursor.
LEMMA PollKeepsCursorInv ==
    ASSUME CursorInv, NEW n \in Nat, wPC = "tail", wPC' \in {"tail", "returned"},
           Show(EventsAfterID(lastID, n)), Advance(EventsAfterID(lastID, n)),
           UNCHANGED <<storeVars, to, base>>
    PROVE  CursorInv'
<1> DEFINE rows == {r \in table : r.id > lastID}
           events == EventsAfterID(lastID, n)
<1>1. events = FirstByID(rows, n) /\ events \subseteq rows /\ rows \subseteq table
  BY DEF EventsAfterID, FirstByID
<1>2. lastID \in Nat /\ table \subseteq Row /\ IsFiniteSet(rows)
  BY FS_Subset DEF CursorInv, TypeOK
<1>3. \A r \in rows : r.id \in Nat /\ lastID < r.id
  BY <1>2 DEF Row
<1>4. Show(events) /\ Advance(events) /\ UNCHANGED storeVars
  OBVIOUS
<1>5. ASSUME NEW q \in events, NEW r \in rows, r.id <= q.id
      PROVE  r \in events
  BY <1>1, <1>2, <1>3, <1>5, FirstByIDIsClosed
<1> HIDE DEF events
<1>6. /\ lastID' \in lastID..sequence
      /\ shown' \in [1..MaxID -> Nat]
      /\ NeverShownTwice'
      /\ \A id \in 1..MaxID : id <= lastID => shown'[id] = shown[id]
      /\ \A id \in 1..MaxID : shown'[id] > 0 => id <= lastID'
      /\ \A r \in events : r.match => shown'[r.id] = 1
      /\ lastID' = lastID \/ \E q \in events : lastID' = q.id
  BY <1>1, <1>3, <1>4, ShowAndAdvance
<1>7. TypeOK'
  BY <1>6 DEF CursorInv, TypeOK, storeVars
<1>8. CursorSkipsNothing'
  <2> SUFFICES ASSUME NEW r \in table, r.match, base < r.id, r.id <= lastID'
               PROVE  shown'[r.id] = 1
    BY DEF CursorSkipsNothing, storeVars
  <2>1. r.id \in 1..MaxID
    BY <1>2 DEF Row
  <2>2. CASE r.id <= lastID
    BY <1>6, <2>1, <2>2 DEF CursorInv, CursorSkipsNothing
  <2>3. CASE lastID < r.id
    <3>1. PICK q \in events : lastID' = q.id
      BY <1>2, <1>6, <2>1, <2>3
    <3>2. r \in events
      BY <1>5, <2>3, <3>1
    <3> QED
      BY <1>6, <3>2
  <2> QED
    BY <1>2, <2>1, <2>2, <2>3
<1> QED
  BY <1>6, <1>7, <1>8 DEF CursorInv

-----------------------------------------------------------------------------

\* The cursor invariant holds of every execution.
THEOREM CursorInvariance == Spec => []CursorInv
<1>1. Init => CursorInv
  <2> SUFFICES ASSUME Init PROVE CursorInv
    OBVIOUS
  <2>1. IsFiniteSet(table)
    BY FS_EmptySet DEF Init, StoreInit
  <2> QED
    BY <2>1 DEF Init, StoreInit, CursorInv, TypeOK, CursorSkipsNothing, NeverShownTwice
<1>2. CursorInv /\ [Next]_vars => CursorInv'
  <2> SUFFICES ASSUME CursorInv, [Next]_vars PROVE CursorInv'
    OBVIOUS
  <2>1. CASE StoreNext /\ UNCHANGED watchVars
    BY <2>1, InsertKeepsCursorInv, PruneKeepsCursorInv, TimeKeepsCursorInv DEF StoreNext
  <2>2. CASE Start
    BY <2>2, OpenKeepsCursorInv, BackfillKeepsCursorInv, ReadLatestKeepsCursorInv DEF Start
  <2>3. CASE Poll
    BY <2>3, PollKeepsCursorInv DEF Poll
  <2>4. CASE PollFails
    <3>1. PICK n \in 0..(Limit - 1) : /\ Show(EventsAfterID(lastID, n))
                                      /\ Advance(EventsAfterID(lastID, n))
      BY <2>4 DEF PollFails
    <3> QED
      BY <2>4, <3>1, PollKeepsCursorInv DEF PollFails
  <2>5. CASE Leave
    BY <2>5, OpenKeepsCursorInv
  <2>6. CASE UNCHANGED vars
    BY <2>6 DEF CursorInv, TypeOK, CursorSkipsNothing, NeverShownTwice,
                vars, storeVars, watchVars
  <2> QED
    BY <2>1, <2>2, <2>3, <2>4, <2>5, <2>6 DEF Next
<1> QED
  BY <1>1, <1>2, PTL DEF Spec

\* Types, and every cursor within the ids given.
THEOREM WatchTypeCorrect == Spec => []TypeOK
<1>1. CursorInv => TypeOK
  BY DEF CursorInv
<1> QED
  BY <1>1, CursorInvariance, PTL

\* The tail prints every matching row its cursor passes.
THEOREM TailIsGapless == Spec => []CursorSkipsNothing
<1>1. CursorInv => CursorSkipsNothing
  BY DEF CursorInv
<1> QED
  BY <1>1, CursorInvariance, PTL

\* Backfill and tail together print no row twice.
THEOREM NoRepeats == Spec => []NeverShownTwice
<1>1. CursorInv => NeverShownTwice
  BY DEF CursorInv
<1> QED
  BY <1>1, CursorInvariance, PTL

=============================================================================
