------------------------------ MODULE Recorder ------------------------------
(***************************************************************************)
(* The recording daemon, internal/daemon Service.runWithSource: the        *)
(* two-stage pipeline and its shutdown protocol.                           *)
(*                                                                         *)
(*   kernel ring -> EventSource.Run -> in -> Collector.Run -> ingest       *)
(*               -> flushLoop -> events table                              *)
(*                                                                         *)
(* It composes CaptureSource, Collector and FlushLoop with the goroutine   *)
(* of runWithSource, which waits for a cancellation or a result, cancels,  *)
(* joins the collector, closes ingest and joins the flush loop.  A channel *)
(* of capacity 1 that carries a result is the variable that holds it       *)
(* ("none" until it is sent).                                              *)
(***************************************************************************)
EXTENDS Integers, Sequences, FiniteSets

CONSTANTS MaxEvents, KindOf, RingCap, InCap, Word, LookupMayFail,
          IngestCap, BatchSize, MaxBatch

ASSUME EventsAssumption ==
    /\ MaxEvents \in Nat
    /\ KindOf \in [1..MaxEvents -> {"keep", "ignored", "malformed"}]
ASSUME CapacityAssumption ==
    /\ RingCap \in Nat \ {0}
    /\ InCap \in Nat \ {0}
    /\ IngestCap \in Nat \ {0}
    /\ BatchSize \in Nat \ {0}
    /\ MaxBatch \in Nat \ {0}
ASSUME KernelAssumption ==
    /\ Word \in Nat \ {0}
    /\ LookupMayFail \in BOOLEAN

VARIABLES emitted, ring, ringDrops, ringLost,
          srcPC, hand, lastKernelDropped, readerOpen, srcErr, abandoned,
          in, inClosed, colPC, draining, colErr, dropped, overflow,
          ingest, ingestClosed,
          flPC, finishing, batch, lastDropped, rows, flErr,
          ctxDone,     \* the context runWithSource derives is cancelled
          svcPC,       \* control point of runWithSource
          flushDone,   \* the select took the result of the flush loop
          runErr       \* the error runWithSource returns

kernelVars == <<emitted, ring, ringDrops, ringLost>>
srcVars == <<srcPC, hand, lastKernelDropped, readerOpen, srcErr, abandoned>>
colVars == <<inClosed, colPC, draining, colErr, dropped, overflow>>
flVars == <<flPC, finishing, batch, lastDropped, rows, flErr>>
svcVars == <<ctxDone, ingestClosed, svcPC, flushDone, runErr>>
vars == <<kernelVars, srcVars, in, colVars, ingest, flVars, svcVars>>

Src == INSTANCE CaptureSource
Col == INSTANCE Collector
Fl == INSTANCE FlushLoop

Init ==
    /\ Src!Init
    /\ Col!Init
    /\ Fl!Init
    /\ ctxDone = FALSE
    /\ ingestClosed = FALSE
    /\ svcPC = "wait"
    /\ flushDone = FALSE
    /\ runErr = "nil"

-----------------------------------------------------------------------------
(* Steps of the components.                                                *)

Kernel == Src!Kernel /\ UNCHANGED <<colVars, ingest, flVars, svcVars>>
SourceFails == Src!Fail /\ UNCHANGED <<colVars, ingest, flVars, svcVars>>
SourceRun == Src!Run /\ UNCHANGED <<colVars, ingest, flVars, svcVars>>
CloseReader == Src!CloseReader /\ UNCHANGED <<colVars, ingest, flVars, svcVars>>

sourceLocal == <<hand, lastKernelDropped, readerOpen, abandoned>>
Worker == /\ Col!Worker
          /\ UNCHANGED <<kernelVars, sourceLocal, flVars, svcVars>>
CollectorRun == /\ Col!Run
                /\ UNCHANGED <<kernelVars, sourceLocal, flVars, svcVars>>

upstream == <<kernelVars, srcVars, in, inClosed, colPC, draining, colErr,
              overflow>>
Receive == Fl!Receive /\ UNCHANGED <<upstream, svcPC, flushDone, runErr>>
FlushRun == Fl!Run /\ UNCHANGED <<upstream, svcPC, flushDone, runErr>>
Tick == Fl!Tick /\ UNCHANGED <<upstream, svcPC, flushDone, runErr>>

-----------------------------------------------------------------------------
(* The goroutine of runWithSource.                                         *)

pipeline == <<kernelVars, srcVars, in, colVars, ingest, flVars>>

\* SIGINT or SIGTERM, by ltm stop or by the service manager.
Signal ==
    /\ ~ctxDone
    /\ ctxDone' = TRUE
    /\ UNCHANGED <<pipeline, ingestClosed, svcPC, flushDone, runErr>>

\* The three cases of the select.  Each is followed by cancel().
WaitCancelled ==
    /\ svcPC = "wait"
    /\ ctxDone
    /\ svcPC' = "joinCollector"
    /\ UNCHANGED <<pipeline, ctxDone, ingestClosed, flushDone, runErr>>

WaitCollector ==
    /\ svcPC = "wait"
    /\ colErr # "none"
    /\ runErr' = colErr
    /\ ctxDone' = TRUE
    /\ svcPC' = "close"
    /\ UNCHANGED <<pipeline, ingestClosed, flushDone>>

\* Mutant: a failed flush loop is not noticed.
WaitFlushNil ==
    /\ svcPC = "wait"
    /\ flErr = "nil"
    /\ runErr' = flErr
    /\ flushDone' = TRUE
    /\ ctxDone' = TRUE
    /\ svcPC' = "joinCollector"
    /\ UNCHANGED <<pipeline, ingestClosed>>

WaitFlush ==
    /\ svcPC = "wait"
    /\ flErr # "none"
    /\ runErr' = flErr
    /\ flushDone' = TRUE
    /\ ctxDone' = TRUE
    /\ svcPC' = "joinCollector"
    /\ UNCHANGED <<pipeline, ingestClosed>>

\* Mutant: the result of a join is received and not looked at.
MergeNothing(err) == runErr

\* The first error is the one that is returned.
Merge(err) == IF runErr = "nil" THEN err ELSE runErr

\* Mutant: ingest is closed without waiting for the collector.
JoinNothing ==
    /\ svcPC = "joinCollector"
    /\ svcPC' = "close"
    /\ UNCHANGED <<pipeline, ctxDone, ingestClosed, flushDone, runErr>>

JoinCollector ==
    /\ svcPC = "joinCollector"
    /\ colErr # "none"
    /\ runErr' = Merge(colErr)
    /\ svcPC' = "close"
    /\ UNCHANGED <<pipeline, ctxDone, ingestClosed, flushDone>>

\* Mutant: the flush loop is not joined.
CloseAndReturn ==
    /\ svcPC = "close"
    /\ ingestClosed' = TRUE
    /\ svcPC' = "returned"
    /\ UNCHANGED <<pipeline, ctxDone, flushDone, runErr>>

CloseIngest ==
    /\ svcPC = "close"
    /\ ingestClosed' = TRUE
    /\ svcPC' = IF flushDone THEN "returned" ELSE "joinFlush"
    /\ UNCHANGED <<pipeline, ctxDone, flushDone, runErr>>

JoinFlush ==
    /\ svcPC = "joinFlush"
    /\ flErr # "none"
    /\ runErr' = Merge(flErr)
    /\ svcPC' = "returned"
    /\ UNCHANGED <<pipeline, ctxDone, ingestClosed, flushDone>>

Service == \/ WaitCancelled \/ WaitCollector \/ WaitFlush
           \/ JoinCollector \/ CloseIngest \/ JoinFlush

\* The process ends when runWithSource returns.
Terminated ==
    /\ svcPC = "returned"
    /\ UNCHANGED vars

-----------------------------------------------------------------------------

Next ==
    \/ Kernel \/ SourceFails \/ SourceRun \/ CloseReader
    \/ Worker \/ CollectorRun
    \/ FlushRun \/ Tick
    \/ Signal \/ Service
    \/ Terminated

Spec == Init /\ [][Next]_vars

\* Every goroutine that can run does, and the ticker ticks.  Receive competes
\* with the ticker in a select, whose choice is uniform, so it is not passed
\* over forever.  Nothing makes the kernel emit, a signal come or a call fail.
Fairness ==
    /\ WF_vars(SourceRun)
    /\ WF_vars(CloseReader)
    /\ WF_vars(Worker)
    /\ WF_vars(CollectorRun)
    /\ WF_vars(FlushRun)
    /\ SF_vars(Receive)
    /\ WF_vars(Tick)
    /\ WF_vars(Service)

FairSpec == Spec /\ Fairness

-----------------------------------------------------------------------------
(* Safety.                                                                 *)

Events == [id : 1..MaxEvents, dropped : Int]
EventIds == SUBSET (1..MaxEvents)

Bounded(s, cap) == s \in Seq(Events) /\ Len(s) <= cap

CaptureTypeOK ==
    /\ emitted \in 0..MaxEvents
    /\ Bounded(ring, RingCap)
    /\ ringDrops \in Nat
    /\ ringLost \in EventIds
    /\ srcPC \in {"setup", "open", "read", "sample", "send", "returned",
                  "closed", "exited"}
    /\ hand \in Seq(Events)
    /\ Len(hand) = (IF srcPC \in {"sample", "send"} THEN 1 ELSE 0)
    /\ lastKernelDropped \in Nat
    /\ readerOpen \in BOOLEAN
    /\ srcErr \in {"none", "nil", "capture"}
    /\ abandoned \in EventIds

CollectorTypeOK ==
    /\ Bounded(in, InCap)
    /\ inClosed \in BOOLEAN
    /\ colPC \in {"loop", "count", "finish", "returned"}
    /\ draining \in BOOLEAN
    /\ colErr \in {"none", "nil", "capture"}
    /\ dropped \in Nat
    /\ overflow \in EventIds
    /\ Bounded(ingest, IngestCap)

FlushTypeOK ==
    /\ flPC \in {"select", "drain", "flush", "insert", "returned"}
    /\ finishing \in BOOLEAN
    /\ batch \in Seq(Events)
    /\ Len(batch) <= MaxBatch \/ Len(batch) <= BatchSize
    /\ lastDropped \in Nat
    /\ rows \in Seq(Events)
    /\ flErr \in {"none", "nil", "store"}

ServiceTypeOK ==
    /\ ctxDone \in BOOLEAN
    /\ ingestClosed \in BOOLEAN
    /\ svcPC \in {"wait", "joinCollector", "close", "joinFlush", "returned"}
    /\ flushDone \in BOOLEAN
    /\ runErr \in {"nil", "capture", "store"}

\* The type of every variable; no buffer ever holds more than its capacity.
TypeOK == CaptureTypeOK /\ CollectorTypeOK /\ FlushTypeOK /\ ServiceTypeOK

\* A send on a closed channel panics.  ingest is closed only after the
\* collector, its sole sender, has returned (runWithSource, steps 2 and 3), and
\* in only after the source has.
NoSendOnClosedChannel ==
    /\ ingestClosed => colPC = "returned"
    /\ inClosed => srcPC \in {"closed", "exited"}

\* The events on their way, the oldest first.
Flow == rows \o batch \o ingest \o in \o hand \o ring

IdsOf(s) == {s[i].id : i \in DOMAIN s}
Increasing(s) == \A i, j \in DOMAIN s : i < j => s[i].id < s[j].id

\* Events reach the table in capture order and none is in two places: no
\* channel, batch or drain loop reorders or duplicates (package daemon, "run is
\* the for-select consumer").
FifoOrder == Increasing(Flow)

Lost == ringLost \cup overflow \cup abandoned

\* The two counters count the lost events, except for the one whose AddInt64
\* is still to come.
CountersMatchLosses ==
    /\ Cardinality(ringLost) = ringDrops
    /\ Cardinality(overflow) = dropped + (IF colPC = "count" THEN 1 ELSE 0)

\* An event that should be kept is on its way, in the table or among the events
\* lost for one of the reasons the code knows of, never in two of those, and
\* the two counters that become dropped_before count those that are lost.
EveryEventAccountedFor ==
    /\ \A n \in 1..emitted :
          /\ KindOf[n] = "keep" => n \in IdsOf(Flow) \cup Lost
          /\ n \in Lost => n \notin IdsOf(Flow)
    /\ CountersMatchLosses

CleanStop == svcPC = "returned" /\ flErr = "nil"

\* When the service has returned and no write failed, every event a channel or
\* the batch held is in the table: the shutdown order of runWithSource drains
\* the pipeline.
CleanStopPersistsAll ==
    CleanStop => hand = <<>> /\ in = <<>> /\ ingest = <<>> /\ batch = <<>>

\* runDaemon closes the store when the service returns, so no goroutine of the
\* pipeline may be left to write to it or to wait for an event.
AllJoined ==
    svcPC = "returned" =>
        /\ flPC = "returned"
        /\ colPC = "returned"
        /\ srcPC = "exited" /\ ~readerOpen

\* A result is never lost to a race between the cancellation, the closed
\* channel and the other result (Collector.Run, "a source error cannot be lost
\* to a select race"): what failed makes runWithSource return an error.
ErrorsSurface ==
    svcPC = "returned" =>
        /\ runErr = "nil" <=> srcErr = "nil" /\ flErr # "store"
        /\ runErr = "capture" => srcErr = "capture"
        /\ runErr = "store" => flErr = "store"

\* The table never misses more than one overflow of the collector: an event is
\* only turned away from a full queue, so a later flush reports it, except
\* when that flush reads the counter between the lost send and its AddInt64.
OverflowReported == CleanStop => dropped <= lastDropped + 1

-----------------------------------------------------------------------------
(* The inductive invariant behind the control properties.  Its conjuncts   *)
(* say who has gone, at each control point, and what the channels then     *)
(* hold.                                                                   *)

SourceInv ==
    /\ inClosed <=> srcPC \in {"closed", "exited"}
    /\ srcErr = "none" <=> srcPC \in {"setup", "open", "read", "sample", "send"}
    /\ readerOpen => srcErr = "none"

CollectorInv ==
    /\ colPC \in {"finish", "returned"} => inClosed /\ in = <<>>
    /\ colErr = "none" <=> colPC # "returned"
    /\ colPC = "returned" => srcPC = "exited" /\ colErr = srcErr

FlushInv ==
    /\ finishing => ingestClosed /\ ingest = <<>>
    /\ finishing => flPC \in {"flush", "insert", "returned"}
    /\ flErr = "none" <=> flPC # "returned"
    /\ flErr = "nil" => finishing /\ batch = <<>>
    /\ flPC = "select" => Len(batch) < BatchSize

ServiceInv ==
    /\ svcPC \in {"close", "joinFlush", "returned"} => colPC = "returned"
    /\ ingestClosed <=> svcPC \in {"joinFlush", "returned"}
    /\ svcPC = "returned" => flErr # "none"
    /\ svcPC = "wait" => runErr = "nil" /\ ~flushDone
    /\ svcPC = "joinFlush" => ~flushDone
    /\ flushDone => flErr = "store" /\ runErr = "store"
    /\ svcPC = "joinCollector" /\ ~flushDone => runErr = "nil"
    /\ svcPC \in {"close", "joinFlush"} /\ ~flushDone => runErr = srcErr

\* Two or more overflows are unreported only while the event that made the
\* queue full, or one after it, has yet to be stamped.
Unreported == dropped + (IF colPC = "count" THEN 1 ELSE 0) - lastDropped
OverflowInv ==
    /\ lastDropped <= dropped
    /\ Unreported >= 2 /\ flErr # "store"
          => ingest # <<>> \/ (batch # <<>> /\ flPC # "insert")

ControlInv == /\ SourceInv /\ CollectorInv /\ FlushInv /\ ServiceInv
              /\ OverflowInv /\ ErrorsSurface

IInv == TypeOK /\ ControlInv

-----------------------------------------------------------------------------
(* Refinement.                                                             *)

IdSeq(s) == [i \in DOMAIN s |-> s[i].id]

Log == INSTANCE EventLog
         WITH log <- IdSeq(rows),
              pending <- IdSeq(batch \o ingest),
              status <- IF flErr = "store" THEN "failed"
                        ELSE IF svcPC = "returned" THEN "stopped"
                        ELSE "recording"

\* The recorder implements the log it promises.
ImplementsEventLog == Log!Spec

-----------------------------------------------------------------------------
(* Liveness.                                                               *)

\* A stop, or the failure of a stage, always ends the service, whatever is full,
\* blocked or failing: no goroutine waits for another that has gone (flushLoop
\* reads until close, the collector never blocks on ingest, the source selects
\* on the context), and a failed stage does not leave the service recording
\* nothing.
ServiceEnds ==
    ctxDone \/ srcErr = "capture" \/ flErr = "store" ~> svcPC = "returned"

\* An event the queue has accepted becomes durable unless a write fails.
AcceptedBecomesDurable ==
    \A n \in 1..MaxEvents :
        n \in IdsOf(ingest \o batch) ~> n \in IdsOf(rows) \/ flErr = "store"

=============================================================================
