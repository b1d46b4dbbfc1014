---------------------------- MODULE DropAccounting ----------------------------
(***************************************************************************)
(* What the dropped_before column says of the losses: the recorder with    *)
(* the sums over the column that the documentation tells a user to take.   *)
(***************************************************************************)
EXTENDS Recorder

\* A delta of the counters survives the conversion to int64 and back: a counter
\* of 2^64 values is far from full.
ASSUME WordAssumption == 2 * MaxEvents < Word

SumDropped(s) ==
    LET total[n \in 0..Len(s)] ==
            IF n = 0 THEN 0 ELSE total[n - 1] + s[n].dropped
    IN  total[Len(s)]

\* SUM(dropped_before) never counts a loss that did not happen, as long as the
\* kernel counters can be read: each delta is taken once and put on one event
\* (EventSource.Run, lastKernelDropped; flush, lastDropped).
NoOverReport ==
    LookupMayFail \/ SumDropped(rows) <= ringDrops + dropped

NothingDiscarded ==
    /\ overflow = {}
    /\ abandoned = {}
    /\ \A n \in 1..emitted : KindOf[n] # "ignored"

\* When no event that carried a delta was discarded on the way, a clean stop
\* leaves every kernel loss that was sampled in the table, through batches,
\* malformed records and the drain of a cancelled collector.
SampledLossesReported ==
    CleanStop /\ NothingDiscarded => SumDropped(rows) = lastKernelDropped

\* The dropped_before column never reports a loss that did not happen, and
\* reports every kernel loss that was sampled when no carrier was discarded.
ColumnReportsLosses == NoOverReport /\ SampledLossesReported

-----------------------------------------------------------------------------
(* The inductive invariant behind it.                                      *)

\* What the events between the ring and the table carry.
Carried == SumDropped(rows) + SumDropped(batch) + SumDropped(ingest)
             + SumDropped(in) + SumDropped(hand)

NoneNegative(s) == \A i \in DOMAIN s : s[i].dropped >= 0

\* An event carries nothing until it is sampled; what the carriers hold is never
\* more than the deltas taken from the two counters, and all of it as long as no
\* carrier was discarded, even when a failed lookup makes a delta negative and
\* the next one gives it back.
DropInv ==
    /\ \A i \in DOMAIN ring : ring[i].dropped = 0
    /\ srcPC = "sample" => hand[1].dropped = 0
    /\ lastKernelDropped <= ringDrops
    /\ LookupMayFail \/
          /\ NoneNegative(rows) /\ NoneNegative(batch) /\ NoneNegative(ingest)
          /\ NoneNegative(in) /\ NoneNegative(hand)
          /\ Carried <= lastKernelDropped + lastDropped
    /\ NothingDiscarded => Carried = lastKernelDropped + lastDropped

-----------------------------------------------------------------------------
(* What the documentation and the comments say.                            *)

\* docs/recording.md: failed reservations and channel overflow "increment
\* dropped_before on a later persisted row".  So once a row persisted is later
\* than every loss, a cleanly stopped table accounts for all of them.
LossesReachALaterRow ==
    CleanStop /\ (\E n \in IdsOf(rows) : \A m \in ringLost \cup overflow : m < n)
        => SumDropped(rows) = Cardinality(ringLost \cup overflow)

=============================================================================
