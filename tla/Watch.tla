-------------------------------- MODULE Watch --------------------------------
(***************************************************************************)
(* ltm watch (internal/cli runWatch, watchStep): one process that shows    *)
(* the rows since a given time, or none, and then tails the table by id    *)
(* while other processes insert into it and prune it.                      *)
(***************************************************************************)
EXTENDS Store

CONSTANTS From,    \* the time of --since, where it is given
          Limit    \* --limit

\* A --limit of 0 means the default: 500 to tail, 200 to backfill.
ASSUME WatchAssumption ==
    /\ From \in 1..MaxTime
    /\ Limit \in Nat \ {0}

VARIABLES wPC,      \* "open", "backfill", "latest", "tail" or "returned"
          to,       \* the time.Now() of the backfill, 0 without --since
          lastID,
          shown,    \* how often each row has been printed
          base      \* history: lastID when the tail began

watchVars == <<wPC, to, lastID, shown, base>>
vars == <<storeVars, watchVars>>

Init ==
    /\ StoreInit
    /\ wPC = "open"
    /\ to = 0
    /\ lastID = 0
    /\ shown = [id \in 1..MaxID |-> 0]
    /\ base = 0

-----------------------------------------------------------------------------

\* Hand the rows that match to the output.
Show(rows) ==
    shown' = [id \in 1..MaxID |->
                shown[id] + (IF \E r \in rows : r.id = id /\ r.match THEN 1 ELSE 0)]

\* Mutant: only a row that is printed moves the cursor.
AdvanceToShown(rows) ==
    \/ /\ \A r \in rows : r.match => r.id <= lastID
       /\ lastID' = lastID
    \/ \E r \in rows :
          /\ r.match
          /\ \A q \in rows : q.match => q.id <= r.id
          /\ r.id > lastID
          /\ lastID' = r.id

\* Every row moves the cursor, printed or not.
Advance(rows) ==
    \/ /\ \A r \in rows : r.id <= lastID
       /\ lastID' = lastID
    \/ \E r \in rows :
          /\ \A q \in rows : q.id <= r.id
          /\ r.id > lastID
          /\ lastID' = r.id

StartTail == wPC' = "tail" /\ base' = lastID'

\* Without --since there is no backfill.
OpenNew ==
    /\ wPC = "open"
    /\ wPC' = "latest"
    /\ UNCHANGED <<storeVars, to, lastID, shown, base>>

\* Filter.Validate refuses a time in the future.
OpenSince ==
    /\ wPC = "open"
    /\ wPC' = IF From <= now THEN "backfill" ELSE "returned"
    /\ to' = now
    /\ UNCHANGED <<storeVars, lastID, shown, base>>

Backfill ==
    /\ wPC = "backfill"
    /\ LET events == Query(From, to, Limit)
       IN  Show(events) /\ Advance(events)
    /\ IF lastID' = 0 THEN wPC' = "latest" /\ base' = base ELSE StartTail
    /\ UNCHANGED <<storeVars, to>>

ReadLatest ==
    /\ wPC = "latest"
    /\ lastID' \in 0..MaxID /\ IsLatestEventID(lastID')
    /\ StartTail
    /\ UNCHANGED <<storeVars, to, shown>>

\* watchStep, on a tick.
Poll ==
    /\ wPC = "tail"
    /\ LET events == EventsAfterID(lastID, Limit)
       IN  Show(events) /\ Advance(events)
    /\ UNCHANGED <<storeVars, wPC, to, base>>

\* watchStep fails to write the row after the first n.
PollFails ==
    /\ wPC = "tail"
    /\ wPC' = "returned"
    /\ \E n \in 0..(Limit - 1) :
          LET events == EventsAfterID(lastID, n)
          IN  /\ \E r \in EventsAfterID(lastID, n + 1) \ events : r.match
              /\ Show(events)
              /\ Advance(events)
    /\ UNCHANGED <<storeVars, to, base>>

\* A signal, or an error of a query.
Leave ==
    /\ wPC # "returned"
    /\ wPC' = "returned"
    /\ UNCHANGED <<storeVars, to, lastID, shown, base>>

Start == OpenNew \/ OpenSince \/ Backfill \/ ReadLatest

Next == (StoreNext /\ UNCHANGED watchVars) \/ Start \/ Poll \/ PollFails \/ Leave

Spec == Init /\ [][Next]_vars

\* The ticker ticks, and the process runs.
FairSpec == Spec /\ WF_vars(Start) /\ WF_vars(Poll)

-----------------------------------------------------------------------------

\* Types, and the orders between them: no cursor beyond the ids given.
TypeOK ==
    /\ table \subseteq Row /\ IsFiniteSet(table)
    /\ sequence \in 0..MaxID
    /\ \A r \in table : r.id <= sequence
    /\ now \in 1..MaxTime
    /\ wPC \in {"open", "backfill", "latest", "tail", "returned"}
    /\ to \in 0..now
    /\ lastID \in 0..sequence
    /\ base \in 0..lastID
    /\ shown \in [1..MaxID -> Nat]

\* The cursor of the tail never passes a row without printing it, whatever is
\* inserted and pruned, in batches larger or smaller than the limit: ids grow
\* with the commits and are never used again.
CursorSkipsNothing ==
    \A r \in table : r.match /\ base < r.id /\ r.id <= lastID => shown[r.id] = 1

\* No row is printed twice, by the backfill and by the tail for instance, whose
\* orders differ.
NeverShownTwice == \A id \in 1..MaxID : shown[id] <= 1

\* What makes both inductive: a row is printed no later than the cursor
\* passes it, and nothing is printed before the first query has returned.
CursorInv ==
    /\ TypeOK
    /\ CursorSkipsNothing
    /\ NeverShownTwice
    /\ \A id \in 1..MaxID : shown[id] > 0 => id <= lastID
    /\ wPC \in {"open", "backfill", "latest"} => lastID = 0

\* A row that matches and is newer than the cursor is printed, unless it is
\* pruned first or the command ends: rows that do not match, however many, do
\* not hold the cursor back.
NewRowsAreShown ==
    \A id \in 1..MaxID :
        (wPC = "tail" /\ lastID < id /\ \E r \in table : r.id = id /\ r.match)
            ~> (shown[id] = 1 \/ wPC = "returned" \/ ~ \E r \in table : r.id = id)

-----------------------------------------------------------------------------
(* What the documentation says.                                            *)

SkippedSince ==
    {r \in table : r.match /\ From <= r.ts /\ r.id <= lastID /\ shown[r.id] = 0}

\* docs/cli.md: with --since the command will "Backfill from this time, then
\* tail", so every row from that time on is in one part or in the other.
BackfillMeetsTail == to # 0 /\ wPC = "tail" => SkippedSince = {}

=============================================================================
