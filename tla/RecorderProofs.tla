---------------------------- MODULE RecorderProofs ----------------------------
(***************************************************************************)
(* The control properties of Recorder, for every value of its constants.   *)
(* IInv is the conjunction of the types and of what holds at each control  *)
(* point of the four goroutines; it is inductive, and each property follows *)
(* from it alone.                                                          *)
(***************************************************************************)
EXTENDS DropAccounting, FiniteSetTheorems, SequenceTheorems,
        WellFoundedInduction, TLAPS

(* Queues.                                                                 *)

\* The empty channel is within every capacity.
LEMMA EmptyQueue ==
  ASSUME NEW cap \in Nat
  PROVE  Bounded(<<>>, cap)
  BY DEF Bounded

\* A guarded send keeps a channel within its capacity.
LEMMA PutType ==
  ASSUME NEW s, NEW cap \in Nat, Bounded(s, cap), Len(s) < cap,
         NEW e \in Events
  PROVE  Bounded(Append(s, e), cap)
  BY DEF Bounded

\* A receive yields an event and keeps the channel within its capacity.
LEMMA TakeType ==
  ASSUME NEW s, NEW cap \in Nat, Bounded(s, cap), s # <<>>
  PROVE  Head(s) \in Events /\ Bounded(Tail(s), cap)
  BY HeadTailProperties DEF Bounded

\* So does sending the one event the source holds.
LEMMA JoinType ==
  ASSUME NEW s, NEW cap \in Nat, Bounded(s, cap), Len(s) < cap,
         NEW h \in Seq(Events), Len(h) = 1
  PROVE  Bounded(s \o h, cap)
  BY ConcatProperties DEF Bounded

\* The hand of the source that holds an event.
LEMMA OneEvent ==
  ASSUME NEW e \in Events
  PROVE  <<e>> \in Seq(Events) /\ Len(<<e>>) = 1
  OBVIOUS

\* The empty sequence is a sequence of events.
LEMMA NoEvent == <<>> \in Seq(Events) /\ Len(<<>>) = 0
  OBVIOUS

\* Setting dropped_before keeps an event an event.
LEMMA StampedType ==
  ASSUME NEW ev \in Events, NEW n \in Int
  PROVE  [ev EXCEPT !.dropped = n] \in Events
  BY DEF Events

-----------------------------------------------------------------------------
(* Types.                                                                  *)

\* The initial states are well typed.
LEMMA InitType == Init => TypeOK
<1> SUFFICES ASSUME Init PROVE TypeOK
  OBVIOUS
<1> USE EventsAssumption, CapacityAssumption
        DEF Init, Src!Init, Col!Init, Fl!Init, EventIds
<1>1. Bounded(ring, RingCap) /\ Bounded(in, InCap) /\ Bounded(ingest, IngestCap)
  BY EmptyQueue
<1>2. CaptureTypeOK
  <2>1. /\ hand \in Seq(Events)
        /\ Len(hand) = (IF srcPC \in {"sample", "send"} THEN 1 ELSE 0)
    BY NoEvent
  <2>2. ringLost \in EventIds /\ abandoned \in EventIds
    OBVIOUS
  <2>3. /\ emitted \in 0..MaxEvents
        /\ ringDrops \in Nat
        /\ lastKernelDropped \in Nat
        /\ srcPC = "setup"
        /\ readerOpen = FALSE
        /\ srcErr = "none"
    OBVIOUS
  <2> HIDE DEF Init, EventIds
  <2> QED
    BY <1>1, <2>1, <2>2, <2>3 DEF CaptureTypeOK
<1>3. CollectorTypeOK
  BY <1>1 DEF CollectorTypeOK
<1>4. FlushTypeOK
  <2>1. batch \in Seq(Events) /\ Len(batch) <= BatchSize /\ rows \in Seq(Events)
    BY NoEvent
  <2> QED
    BY <2>1 DEF FlushTypeOK
<1>5. ServiceTypeOK
  BY DEF ServiceTypeOK
<1> QED
  BY <1>2, <1>3, <1>4, <1>5 DEF TypeOK

\* The steps of the kernel and of EventSource.Run keep the types of what they
\* write; an event that is emitted gets a number within the bound.
LEMMA CaptureType ==
  ASSUME TypeOK, Src!Kernel \/ Src!Fail \/ Src!Run \/ Src!CloseReader
  PROVE  CaptureTypeOK' /\ Bounded(in, InCap)'
<1> USE EventsAssumption, CapacityAssumption
        DEF TypeOK, CaptureTypeOK, CollectorTypeOK, EventIds, Src!kernelVars,
            Src!runVars, Src!Return
<1>1. CASE Src!Submit
  <2>1. Src!Event(emitted + 1) \in Events /\ emitted + 1 \in 1..MaxEvents
    BY <1>1 DEF Src!Submit, Src!Event, Events
  <2> QED
    BY <1>1, <2>1, PutType DEF Src!Submit
<1>2. CASE Src!ReserveFails
  BY <1>2 DEF Src!ReserveFails
<1>3. CASE Src!SetupFails
  BY <1>3 DEF Src!SetupFails
<1>4. CASE Src!ReadFails
  BY <1>4 DEF Src!ReadFails
<1>5. CASE Src!Attach
  BY <1>5 DEF Src!Attach
<1>6. CASE Src!OpenReader
  BY <1>6 DEF Src!OpenReader
<1>7. CASE Src!ReadRecord
  <2>1. Head(ring) \in Events /\ Bounded(Tail(ring), RingCap)
    BY <1>7, TakeType DEF Src!ReadRecord
  <2>2. hand' \in Seq(Events) /\ Len(hand') = 1
    BY <1>7, <2>1, OneEvent DEF Src!ReadRecord
  <2> QED
    BY <1>7, <2>1, <2>2 DEF Src!ReadRecord
<1>8. CASE Src!SkipMalformed
  BY <1>8, TakeType DEF Src!SkipMalformed
<1>9. CASE Src!ReadClosed
  BY <1>9 DEF Src!ReadClosed
<1>10. CASE Src!SampleDrops
  <2>1. PICK total \in Src!SampledTotals :
            /\ hand' = <<[hand[1] EXCEPT !.dropped = Src!DropDelta(total)]>>
            /\ lastKernelDropped' = total
    BY <1>10 DEF Src!SampleDrops
  <2>2. total \in Nat
    BY DEF Src!SampledTotals
  <2>3. Src!DropDelta(total) \in Int
    BY <2>2, KernelAssumption DEF Src!DropDelta, Src!AsInt64
  <2>4. hand[1] \in Events
    <3>1. hand \in Seq(Events) /\ Len(hand) = 1
      BY <1>10 DEF Src!SampleDrops
    <3> QED
      BY <3>1, ElementOfSeq
  <2>5. hand' \in Seq(Events) /\ Len(hand') = 1
    BY <2>1, <2>3, <2>4, StampedType, OneEvent
  <2> QED
    BY <1>10, <2>1, <2>2, <2>5 DEF Src!SampleDrops
<1>11. CASE Src!Send
  BY <1>11, JoinType, NoEvent DEF Src!Send
<1>12. CASE Src!SendCancelled
  <2>1. hand[1] \in Events
    <3>1. hand \in Seq(Events) /\ Len(hand) = 1
      BY <1>12 DEF Src!SendCancelled
    <3> QED
      BY <3>1, ElementOfSeq
  <2>2. hand[1].id \in 1..MaxEvents
    BY <2>1 DEF Events
  <2>3. abandoned' \in EventIds
    BY <1>12, <2>2 DEF Src!SendCancelled
  <2>4. hand' \in Seq(Events) /\ Len(hand') = 0
    <3>1. hand' = <<>>
      BY <1>12 DEF Src!SendCancelled
    <3> HIDE DEF TypeOK, CaptureTypeOK
    <3> QED
      BY <3>1, NoEvent
  <2>5. /\ srcPC' = "returned" /\ srcErr' = "nil" /\ readerOpen' = FALSE
        /\ UNCHANGED <<emitted, ring, ringDrops, ringLost, lastKernelDropped, in>>
    BY <1>12 DEF Src!SendCancelled
  <2> HIDE DEF EventIds
  <2> QED
    BY <2>3, <2>4, <2>5
<1>13. CASE Src!CloseReader
  BY <1>13 DEF Src!CloseReader
<1> QED
  BY <1>1, <1>2, <1>3, <1>4, <1>5, <1>6, <1>7, <1>8, <1>9, <1>10, <1>11,
     <1>12, <1>13 DEF Src!Kernel, Src!Fail, Src!Run

\* The steps of the worker and of Collector.Run keep the types of what they
\* write.
LEMMA CollectorType ==
  ASSUME TypeOK, Col!Worker \/ Col!Run
  PROVE  /\ CollectorTypeOK'
         /\ srcPC' \in {"setup", "open", "read", "sample", "send", "returned",
                       "closed", "exited"}
         /\ srcPC' \in {"sample", "send"} <=> srcPC \in {"sample", "send"}
<1> USE CapacityAssumption
        DEF TypeOK, CaptureTypeOK, CollectorTypeOK
<1>1. CASE Col!CloseIn
  BY <1>1 DEF Col!CloseIn
<1>2. CASE Col!ReportResult
  BY <1>2 DEF Col!ReportResult
<1>3. CASE Col!ObserveCancel
  BY <1>3 DEF Col!ObserveCancel
<1>4. CASE Col!Ignore
  BY <1>4, TakeType DEF Col!Ignore
<1>5. CASE Col!Forward
  BY <1>5, TakeType, PutType DEF Col!Forward
<1>6. CASE Col!Overflow
  <2>1. Head(in) \in Events /\ Bounded(Tail(in), InCap)
    BY <1>6, TakeType DEF Col!Overflow
  <2>2. overflow' \in EventIds
    BY <1>6, <2>1 DEF Col!Overflow, EventIds, Events
  <2> QED
    BY <1>6, <2>1, <2>2 DEF Col!Overflow
<1>7. CASE Col!CountDrop
  BY <1>7 DEF Col!CountDrop
<1>8. CASE Col!SeeClosed
  BY <1>8 DEF Col!SeeClosed
<1>9. CASE Col!Finish
  BY <1>9 DEF Col!Finish
<1> QED
  BY <1>1, <1>2, <1>3, <1>4, <1>5, <1>6, <1>7, <1>8, <1>9
  DEF Col!Worker, Col!Run

\* The steps of eventBatcher.run keep the types of what they write.  That a
\* batch stays within its size needs FlushInv: run waits for an event only while
\* the batch is shorter than BatchSize.
LEMMA FlushType ==
  ASSUME TypeOK, FlushInv, Fl!Run \/ Fl!Tick
  PROVE  /\ FlushTypeOK'
         /\ Bounded(ingest, IngestCap)'
<1> USE CapacityAssumption
        DEF TypeOK, CollectorTypeOK, FlushTypeOK, Fl!Flushed
<1>1. ASSUME Fl!Take
      PROVE  /\ batch' \in Seq(Events) /\ Len(batch') = Len(batch) + 1
             /\ Bounded(ingest, IngestCap)'
  <2>1. Head(ingest) \in Events /\ Bounded(Tail(ingest), IngestCap)
    BY <1>1, TakeType DEF Fl!Take
  <2> QED
    BY <1>1, <2>1, AppendProperties DEF Fl!Take
<1>2. CASE Fl!Receive
  <2>1. Len(batch) + 1 <= BatchSize
    BY <1>2 DEF Fl!Receive, FlushInv
  <2> QED
    BY <1>1, <1>2, <2>1 DEF Fl!Receive
<1>3. CASE Fl!Drain
  BY <1>1, <1>3 DEF Fl!Drain
<1>4. CASE Fl!DrainDone
  BY <1>4 DEF Fl!DrainDone
<1>5. CASE Fl!SeeClosed
  BY <1>5 DEF Fl!SeeClosed
<1>6. CASE Fl!FlushEmpty
  BY <1>6 DEF Fl!FlushEmpty
<1>7. CASE Fl!Stamp
  <2>1. batch[1] \in Events /\ 1 \in 1..Len(batch)
    BY <1>7, ElementOfSeq, LenProperties, EmptySeq DEF Fl!Stamp
  <2>2. CASE dropped > lastDropped
    <3> DEFINE n == batch[1].dropped + (dropped - lastDropped)
               ev == [batch[1] EXCEPT !.dropped = n]
    <3>1. ev \in Events
      <4>1. n \in Int
        BY <2>1 DEF Events
      <4> HIDE DEF n
      <4> QED
        BY <2>1, <4>1, StampedType
    <3>2. batch' = [batch EXCEPT ![1] = ev] /\ lastDropped' = dropped
      BY <1>7, <2>2 DEF Fl!Stamp
    <3>3. batch' \in Seq(Events) /\ Len(batch') = Len(batch)
      BY <2>1, <3>1, <3>2, ExceptSeq
    <3> QED
      BY <1>7, <3>2, <3>3 DEF Fl!Stamp
  <2>3. CASE ~(dropped > lastDropped)
    BY <1>7, <2>3 DEF Fl!Stamp
  <2> QED
    BY <2>2, <2>3
<1>8. CASE Fl!Insert
  <2>1. rows' \in Seq(Events)
    BY <1>8, ConcatProperties DEF Fl!Insert
  <2>2. batch' \in Seq(Events) /\ Len(batch') <= BatchSize
    BY <1>8, NoEvent DEF Fl!Insert
  <2> QED
    BY <1>8, <2>1, <2>2 DEF Fl!Insert
<1>9. CASE Fl!InsertFails
  BY <1>9 DEF Fl!InsertFails
<1>10. CASE Fl!Tick
  BY <1>10 DEF Fl!Tick
<1> QED
  BY <1>2, <1>3, <1>4, <1>5, <1>6, <1>7, <1>8, <1>9, <1>10 DEF Fl!Run

\* Every step of the recorder keeps the types.
LEMMA NextType ==
  ASSUME IInv, [Next]_vars
  PROVE  TypeOK'
<1> USE DEF IInv, TypeOK, colVars, flVars, svcVars
<1>1. CASE Kernel \/ SourceFails \/ SourceRun \/ CloseReader
  <2>1. /\ Src!Kernel \/ Src!Fail \/ Src!Run \/ Src!CloseReader
        /\ UNCHANGED <<inClosed, colPC, draining, colErr, dropped, overflow,
                       ingest, flPC, finishing, batch, lastDropped, rows, flErr,
                       ingestClosed, svcPC, flushDone, runErr, ctxDone>>
    BY <1>1 DEF Kernel, SourceFails, SourceRun, CloseReader
  <2>2. CaptureTypeOK' /\ Bounded(in, InCap)'
    BY <2>1, CaptureType
  <2> QED
    BY <2>1, <2>2 DEF CollectorTypeOK, FlushTypeOK, ServiceTypeOK, Bounded
<1>2. CASE Worker \/ CollectorRun
  <2>1. /\ Col!Worker \/ Col!Run
        /\ UNCHANGED <<kernelVars, sourceLocal, flVars, svcVars, srcErr>>
    BY <1>2 DEF Worker, CollectorRun, Col!Worker, Col!Run, Col!CloseIn,
                Col!ReportResult, Col!ObserveCancel, Col!Ignore, Col!Forward,
                Col!Overflow, Col!CountDrop, Col!SeeClosed, Col!Finish
  <2>2. /\ CollectorTypeOK'
        /\ srcPC' \in {"setup", "open", "read", "sample", "send", "returned",
                      "closed", "exited"}
        /\ srcPC' \in {"sample", "send"} <=> srcPC \in {"sample", "send"}
    BY <2>1, CollectorType
  <2> QED
    BY <2>1, <2>2 DEF kernelVars, sourceLocal, CaptureTypeOK, FlushTypeOK,
                      ServiceTypeOK, Bounded
<1>3. CASE FlushRun \/ Tick
  <2>1. /\ Fl!Run \/ Fl!Tick
        /\ UNCHANGED <<upstream, svcPC, flushDone, runErr, ingestClosed, ctxDone,
                       dropped>>
    BY <1>3 DEF FlushRun, Tick, Fl!Run, Fl!Receive, Fl!Drain, Fl!DrainDone,
                Fl!SeeClosed, Fl!FlushEmpty, Fl!Stamp, Fl!Insert,
                Fl!InsertFails, Fl!Tick
  <2>2. FlushTypeOK' /\ Bounded(ingest, IngestCap)'
    BY <2>1, FlushType DEF ControlInv
  <2> QED
    BY <2>1, <2>2 DEF upstream, kernelVars, srcVars, CaptureTypeOK,
                      CollectorTypeOK, ServiceTypeOK, Bounded
<1>4. CASE Signal \/ Service
  <2>1. UNCHANGED pipeline /\ ServiceTypeOK'
    BY <1>4 DEF Signal, Service, WaitCancelled, WaitCollector, WaitFlush,
                JoinCollector, CloseIngest, JoinFlush, Merge, ServiceTypeOK,
                CollectorTypeOK, FlushTypeOK
  <2> QED
    BY <2>1 DEF pipeline, kernelVars, srcVars, CaptureTypeOK, CollectorTypeOK,
                FlushTypeOK, Bounded
<1>5. CASE UNCHANGED vars
  BY <1>5 DEF vars, kernelVars, srcVars, CaptureTypeOK, CollectorTypeOK,
              FlushTypeOK, ServiceTypeOK, Bounded
<1> QED
  BY <1>1, <1>2, <1>3, <1>4, <1>5 DEF Next, Terminated

-----------------------------------------------------------------------------
(* The control invariant, one lemma per group of actions.                  *)

\* The control invariant holds initially.
LEMMA InitControl == Init => ControlInv
  BY CapacityAssumption
  DEF Init, Src!Init, Col!Init, Fl!Init, ControlInv, SourceInv, CollectorInv,
      FlushInv, ServiceInv, OverflowInv, Unreported, ErrorsSurface

\* The source keeps the control invariant: once it has returned it changes
\* nothing, and what it can still do concerns no other goroutine.
LEMMA SourceControl ==
  ASSUME IInv, Kernel \/ SourceFails \/ SourceRun \/ CloseReader
  PROVE  ControlInv'
<1>1. /\ Src!Kernel \/ Src!Fail \/ Src!Run \/ Src!CloseReader
      /\ UNCHANGED <<inClosed, colPC, draining, colErr, dropped, overflow,
                     ingest, flPC, finishing, batch, lastDropped, rows, flErr,
                     ingestClosed, svcPC, flushDone, runErr, ctxDone>>
  BY DEF Kernel, SourceFails, SourceRun, CloseReader, colVars, flVars, svcVars
<1>2. /\ srcErr # "none" => UNCHANGED <<srcPC, srcErr, in, readerOpen>>
      /\ SourceInv'
  BY <1>1
  DEF IInv, TypeOK, CaptureTypeOK, ControlInv, SourceInv, Src!Kernel, Src!Fail,
      Src!Run, Src!Submit, Src!ReserveFails, Src!SetupFails, Src!ReadFails,
      Src!Attach, Src!OpenReader, Src!ReadRecord, Src!SkipMalformed,
      Src!ReadClosed, Src!SampleDrops, Src!Send, Src!SendCancelled,
      Src!CloseReader, Src!Return, Src!Attached, Src!kernelVars, Src!runVars
<1>3. CollectorInv'
  BY <1>1, <1>2 DEF IInv, ControlInv, CollectorInv, SourceInv
<1>4. FlushInv' /\ OverflowInv'
  BY <1>1 DEF IInv, ControlInv, FlushInv, OverflowInv, Unreported
<1>5. ServiceInv' /\ ErrorsSurface'
  BY <1>1, <1>2
  DEF IInv, ControlInv, ServiceInv, ErrorsSurface, CollectorInv, SourceInv
<1> QED
  BY <1>2, <1>3, <1>4, <1>5 DEF ControlInv

\* The collector keeps it: an overflow leaves the queue full, and after Run has
\* returned nothing of the collector changes.
LEMMA CollectorControl ==
  ASSUME IInv, Worker \/ CollectorRun
  PROVE  ControlInv'
<1>1. UNCHANGED <<hand, readerOpen, srcErr, flPC, finishing, batch, lastDropped,
                  flErr, ctxDone, ingestClosed, svcPC, flushDone, runErr>>
  BY DEF Worker, CollectorRun, Col!Worker, Col!Run, Col!CloseIn,
         Col!ReportResult, Col!ObserveCancel, Col!Ignore, Col!Forward,
         Col!Overflow, Col!CountDrop, Col!SeeClosed, Col!Finish, sourceLocal,
         flVars, svcVars
<1>2. SourceInv' /\ CollectorInv'
  BY <1>1
  DEF IInv, TypeOK, CaptureTypeOK, CollectorTypeOK, ControlInv, SourceInv,
      CollectorInv, Worker, CollectorRun, Col!Worker, Col!Run, Col!CloseIn,
      Col!ReportResult, Col!ObserveCancel, Col!Ignore, Col!Forward,
      Col!Overflow, Col!CountDrop, Col!SeeClosed, Col!Finish
\* Run is over once the service has gone past the join.
<1>3. colPC = "returned" => UNCHANGED <<ingest, dropped, colPC, colErr>>
  BY DEF Worker, CollectorRun, Col!Worker, Col!Run, Col!CloseIn,
         Col!ReportResult, Col!ObserveCancel, Col!Ignore, Col!Forward,
         Col!Overflow, Col!CountDrop, Col!SeeClosed, Col!Finish
<1>4. FlushInv'
  BY <1>1, <1>3 DEF IInv, ControlInv, FlushInv, ServiceInv
<1>5. ServiceInv' /\ ErrorsSurface'
  BY <1>1, <1>3 DEF IInv, ControlInv, ServiceInv, ErrorsSurface
<1>6. OverflowInv'
  <2>1. \/ UNCHANGED <<dropped, colPC, ingest>>
        \/ /\ Col!Overflow
        \/ /\ Col!CountDrop
        \/ /\ UNCHANGED dropped
           /\ colPC # "count" /\ colPC' # "count"
           /\ ingest' = ingest \/ ingest' = Append(ingest, Head(in))
    BY DEF Worker, CollectorRun, Col!Worker, Col!Run, Col!CloseIn,
           Col!ReportResult, Col!ObserveCancel, Col!Ignore, Col!Forward,
           Col!SeeClosed, Col!Finish
  <2>2. CASE UNCHANGED <<dropped, colPC, ingest>>
    BY <1>1, <2>2 DEF IInv, ControlInv, OverflowInv, Unreported
  <2>3. CASE Col!Overflow
    <3>1. Len(ingest) >= IngestCap /\ UNCHANGED <<dropped, ingest>>
      BY <2>3 DEF Col!Overflow
    <3>2. ingest # <<>>
      BY <3>1, CapacityAssumption
    <3> QED
      BY <1>1, <3>1, <3>2 DEF IInv, ControlInv, OverflowInv
  <2>4. CASE Col!CountDrop
    BY <1>1, <2>4
    DEF IInv, TypeOK, CollectorTypeOK, FlushTypeOK, ControlInv, OverflowInv,
        Unreported, Col!CountDrop
  <2>5. CASE /\ UNCHANGED dropped
             /\ colPC # "count" /\ colPC' # "count"
             /\ ingest' = ingest \/ ingest' = Append(ingest, Head(in))
    <3>1. ingest # <<>> => ingest' # <<>>
      BY <2>5 DEF IInv, TypeOK, CollectorTypeOK, Bounded
    <3> QED
      BY <1>1, <2>5, <3>1 DEF IInv, ControlInv, OverflowInv, Unreported
  <2> QED
    BY <2>1, <2>2, <2>3, <2>4, <2>5
<1> QED
  BY <1>2, <1>4, <1>5, <1>6 DEF ControlInv

\* The flush loop keeps it: it finishes only on a closed and empty queue, and a
\* stamp takes the whole counter.
LEMMA FlushControl ==
  ASSUME IInv, FlushRun \/ Tick
  PROVE  ControlInv'
<1>1. UNCHANGED <<srcPC, srcErr, readerOpen, in, inClosed, colPC, colErr, dropped,
                  svcPC, flushDone, runErr, ingestClosed>>
  BY DEF FlushRun, Tick, Fl!Run, Fl!Receive, Fl!Drain, Fl!DrainDone,
         Fl!SeeClosed, Fl!FlushEmpty, Fl!Stamp, Fl!Insert, Fl!InsertFails,
         Fl!Tick, upstream, srcVars
<1>2. SourceInv' /\ CollectorInv'
  BY <1>1 DEF IInv, ControlInv, SourceInv, CollectorInv
<1>3. flPC # "returned"
  BY DEF FlushRun, Tick, Fl!Run, Fl!Receive, Fl!Drain, Fl!DrainDone,
         Fl!SeeClosed, Fl!FlushEmpty, Fl!Stamp, Fl!Insert, Fl!InsertFails,
         Fl!Tick
<1>4. flErr = "none" /\ svcPC # "returned" /\ ~flushDone
  BY <1>3 DEF IInv, TypeOK, FlushTypeOK, ControlInv, FlushInv, ServiceInv
<1>5. ServiceInv' /\ ErrorsSurface'
  BY <1>1, <1>4 DEF IInv, ControlInv, ServiceInv, ErrorsSurface
<1>0. /\ FlushInv /\ OverflowInv
      /\ finishing \in BOOLEAN
      /\ dropped \in Nat /\ lastDropped \in Nat
      /\ batch \in Seq(Events) /\ Bounded(ingest, IngestCap)
      /\ ingestClosed <=> svcPC \in {"joinFlush", "returned"}
  BY DEF IInv, TypeOK, CollectorTypeOK, FlushTypeOK, ControlInv, ServiceInv
<1>e. Len(<<>>) < BatchSize /\ Len(<<>>) = 0
  BY CapacityAssumption
<1> USE <1>0, <1>1, <1>4 DEF FlushInv, OverflowInv, Unreported, Fl!Flushed
<1>6. ASSUME Fl!Receive PROVE FlushInv' /\ OverflowInv'
  <2>1. ingest # <<>> /\ flPC = "select" /\ finishing = FALSE
    BY <1>6 DEF Fl!Receive, Fl!Take
  <2>2. batch' # <<>> /\ Len(batch') = Len(batch) + 1
    BY <1>6, <2>1, TakeType, AppendProperties, CapacityAssumption
    DEF Fl!Receive, Fl!Take
  <2>3. FlushInv'
    BY <1>6, <2>1, <2>2, CapacityAssumption DEF Fl!Receive, ServiceInv
  <2>4. OverflowInv'
    BY <1>6, <2>1, <2>2 DEF Fl!Receive
  <2> QED
    BY <2>3, <2>4
<1>7. ASSUME Fl!Drain PROVE FlushInv' /\ OverflowInv'
  <2>1. ingest # <<>> /\ flPC = "drain" /\ finishing = FALSE
    BY <1>7 DEF Fl!Drain, Fl!Take
  <2>2. batch' # <<>>
    BY <1>7, <2>1, TakeType, AppendProperties, CapacityAssumption
    DEF Fl!Drain, Fl!Take
  <2> QED
    BY <1>7, <2>1, <2>2 DEF Fl!Drain
<1>8. ASSUME Fl!DrainDone PROVE FlushInv' /\ OverflowInv'
  BY <1>8 DEF Fl!DrainDone
<1>9. ASSUME Fl!SeeClosed PROVE FlushInv' /\ OverflowInv'
  BY <1>9 DEF Fl!SeeClosed
<1>10. ASSUME Fl!FlushEmpty PROVE FlushInv' /\ OverflowInv'
  BY <1>10, <1>e DEF Fl!FlushEmpty
<1>11. ASSUME Fl!Stamp PROVE FlushInv' /\ OverflowInv'
  <2>1. lastDropped' = dropped
    BY <1>11 DEF Fl!Stamp
  <2>2. OverflowInv'
    BY <2>1
  <2> QED
    BY <1>11, <2>2 DEF Fl!Stamp
<1>12. ASSUME Fl!Insert PROVE FlushInv' /\ OverflowInv'
  BY <1>12, <1>e DEF Fl!Insert
<1>13. ASSUME Fl!InsertFails PROVE FlushInv' /\ OverflowInv'
  BY <1>13 DEF Fl!InsertFails
<1>14. ASSUME Fl!Tick PROVE FlushInv' /\ OverflowInv'
  BY <1>14 DEF Fl!Tick
<1>15. FlushInv' /\ OverflowInv'
  BY <1>6, <1>7, <1>8, <1>9, <1>10, <1>11, <1>12, <1>13, <1>14
  DEF FlushRun, Tick, Fl!Run
<1> QED
  BY <1>2, <1>5, <1>15 DEF ControlInv

\* runWithSource keeps it: each join waits for the result it needs.
LEMMA ServiceControl ==
  ASSUME IInv, Signal \/ Service
  PROVE  ControlInv'
<1>1. UNCHANGED <<srcPC, srcErr, readerOpen, in, inClosed, colPC, colErr, dropped,
                  ingest, flPC, finishing, batch, lastDropped, flErr>>
  BY DEF Signal, Service, WaitCancelled, WaitCollector, WaitFlush,
         JoinCollector, CloseIngest, JoinFlush, pipeline, srcVars, colVars, flVars
<1>2. SourceInv' /\ CollectorInv' /\ OverflowInv'
  BY <1>1 DEF IInv, ControlInv, SourceInv, CollectorInv, OverflowInv, Unreported
<1>3. FlushInv'
  BY <1>1
  DEF IInv, ControlInv, FlushInv, Signal, Service, WaitCancelled,
      WaitCollector, WaitFlush, JoinCollector, CloseIngest, JoinFlush
<1>4. ServiceInv' /\ ErrorsSurface'
  BY <1>1
  DEF IInv, TypeOK, CollectorTypeOK, FlushTypeOK, ServiceTypeOK, ControlInv,
      SourceInv, CollectorInv, FlushInv, ServiceInv, ErrorsSurface, Signal,
      Service, WaitCancelled, WaitCollector, WaitFlush, JoinCollector,
      CloseIngest, JoinFlush, Merge
<1> QED
  BY <1>2, <1>3, <1>4 DEF ControlInv

\* So does a step that changes nothing.
LEMMA StutterControl ==
  ASSUME IInv, UNCHANGED vars
  PROVE  ControlInv'
  BY DEF IInv, ControlInv, SourceInv, CollectorInv, FlushInv, ServiceInv,
         OverflowInv, Unreported, ErrorsSurface, vars, srcVars, colVars, flVars,
         svcVars

-----------------------------------------------------------------------------
(* Theorems.                                                               *)

\* IInv is inductive: at every control point, what the channels hold and who
\* has returned is as the shutdown order of runWithSource requires.
THEOREM Invariance == Spec => []IInv
<1>1. Init => IInv
  BY InitType, InitControl DEF IInv
<1>2. IInv /\ [Next]_vars => IInv'
  BY NextType, SourceControl, CollectorControl, FlushControl, ServiceControl,
     StutterControl
  DEF IInv, Next, Terminated
<1> QED
  BY <1>1, <1>2, PTL DEF Spec

\* The variables keep their types and the queues their capacities.
THEOREM TypeCorrect == Spec => []TypeOK
<1>1. IInv => TypeOK
  BY DEF IInv
<1> QED
  BY <1>1, Invariance, PTL

\* Closing in and closing ingest never races with a send on them.
THEOREM NoPanic == Spec => []NoSendOnClosedChannel
<1>1. IInv => NoSendOnClosedChannel
  BY DEF IInv, ControlInv, SourceInv, ServiceInv, NoSendOnClosedChannel
<1> QED
  BY <1>1, Invariance, PTL

\* When the service has returned, no goroutine of the pipeline is left.
THEOREM Joined == Spec => []AllJoined
<1>1. IInv => AllJoined
  BY DEF IInv, TypeOK, FlushTypeOK, CaptureTypeOK, ControlInv, SourceInv,
         CollectorInv, FlushInv, ServiceInv, AllJoined
<1> QED
  BY <1>1, Invariance, PTL

\* A stop without a write error leaves no event in a channel or in the batch.
THEOREM NothingLeftBehind == Spec => []CleanStopPersistsAll
<1>1. IInv => CleanStopPersistsAll
  BY DEF IInv, TypeOK, FlushTypeOK, CaptureTypeOK, ControlInv, SourceInv,
         CollectorInv, FlushInv, ServiceInv, CleanStopPersistsAll, CleanStop
<1> QED
  BY <1>1, Invariance, PTL

\* What failed is what runWithSource returns.
THEOREM ErrorsReported == Spec => []ErrorsSurface
<1>1. IInv => ErrorsSurface
  BY DEF IInv, ControlInv
<1> QED
  BY <1>1, Invariance, PTL

\* The events table misses at most one overflow of the collector.
THEOREM AtMostOneUnreported == Spec => []OverflowReported
<1>1. IInv => OverflowReported
  BY DEF IInv, TypeOK, CollectorTypeOK, FlushTypeOK, ControlInv, CollectorInv,
         FlushInv, ServiceInv, OverflowInv, Unreported, OverflowReported,
         CleanStop
<1> QED
  BY <1>1, Invariance, PTL

-----------------------------------------------------------------------------
(* Order and accounting of the events, and the refinement of EventLog.     *)
(*                                                                         *)
(* FifoOrder is about the concatenation of six sequences, and a step takes *)
(* an event from the head of one to the end of the next.  The proof works  *)
(* with the sets of ids of the six: FlowInv says that each sequence is     *)
(* increasing and that every id of one is below every id of the next ones. *)


Before(S, T) == \A m \in S, n \in T : m < n

\* The ids of the six places, from the table back to the ring.
Chain(R, B, G, I, H, K) ==
    /\ Before(R, B \cup G \cup I \cup H \cup K)
    /\ Before(B, G \cup I \cup H \cup K)
    /\ Before(G, I \cup H \cup K)
    /\ Before(I, H \cup K)
    /\ Before(H, K)

InFlow == IdsOf(rows) \cup IdsOf(batch) \cup IdsOf(ingest)
            \cup IdsOf(in) \cup IdsOf(hand) \cup IdsOf(ring)

OrderInv ==
    /\ Increasing(rows) /\ Increasing(batch) /\ Increasing(ingest)
    /\ Increasing(in) /\ Increasing(hand) /\ Increasing(ring)
    /\ Chain(IdsOf(rows), IdsOf(batch), IdsOf(ingest),
             IdsOf(in), IdsOf(hand), IdsOf(ring))
    /\ InFlow \subseteq 1..emitted

LossInv ==
    /\ Lost \subseteq 1..emitted
    /\ Lost \cap InFlow = {}
    /\ \A n \in 1..emitted : KindOf[n] = "keep" => n \in InFlow \cup Lost
    /\ CountersMatchLosses

FlowInv == OrderInv /\ LossInv

-----------------------------------------------------------------------------
(* Sequences of events and their ids.                                      *)

\* The empty sequence has no ids.
LEMMA IdsOfEmpty == IdsOf(<<>>) = {} /\ Increasing(<<>>)
  BY DEF IdsOf, Increasing

\* A sequence of one event.
LEMMA IdsOfOne ==
  ASSUME NEW e \in Events
  PROVE  IdsOf(<<e>>) = {e.id} /\ Increasing(<<e>>)
  BY DEF IdsOf, Increasing

\* Appending a larger id.
LEMMA IdsOfAppend ==
  ASSUME NEW s \in Seq(Events), NEW e \in Events
  PROVE  /\ IdsOf(Append(s, e)) = IdsOf(s) \cup {e.id}
         /\ Increasing(s) /\ Before(IdsOf(s), {e.id}) => Increasing(Append(s, e))
<1>1. Len(Append(s, e)) = Len(s) + 1 /\ Append(s, e)[Len(s) + 1] = e
  BY AppendProperties
<1>2. \A i \in 1..Len(s) : Append(s, e)[i] = s[i]
  BY AppendProperties
<1>3. DOMAIN Append(s, e) = 1..(Len(s) + 1) /\ DOMAIN s = 1..Len(s) /\ Len(s) \in Nat
  BY AppendProperties, LenProperties
<1>4. IdsOf(Append(s, e)) = IdsOf(s) \cup {e.id}
  BY <1>1, <1>2, <1>3 DEF IdsOf
<1>5. ASSUME Increasing(s), Before(IdsOf(s), {e.id})
      PROVE  Increasing(Append(s, e))
  <2>1. SUFFICES ASSUME NEW i \in 1..(Len(s) + 1), NEW j \in 1..(Len(s) + 1), i < j
                 PROVE  Append(s, e)[i].id < Append(s, e)[j].id
    BY <1>3 DEF Increasing
  <2>2. i \in 1..Len(s) /\ s[i].id \in IdsOf(s)
    BY <1>3, <2>1 DEF IdsOf
  <2>3. CASE j = Len(s) + 1
    BY <1>1, <1>2, <1>5, <2>2, <2>3 DEF Before
  <2>4. CASE j # Len(s) + 1
    BY <1>2, <1>3, <1>5, <2>1, <2>2, <2>4 DEF Increasing
  <2> QED
    BY <2>3, <2>4
<1> QED
  BY <1>4, <1>5

\* The head of an increasing sequence is below its tail.
LEMMA IdsOfTail ==
  ASSUME NEW s \in Seq(Events), s # <<>>
  PROVE  /\ IdsOf(s) = {Head(s).id} \cup IdsOf(Tail(s))
         /\ Increasing(s) => Increasing(Tail(s)) /\ Before({Head(s).id}, IdsOf(Tail(s)))
<1>1. Len(s) \in Nat /\ Len(s) >= 1 /\ DOMAIN s = 1..Len(s) /\ Head(s) = s[1]
  BY LenProperties, HeadTailProperties, EmptySeq
<1>2. DOMAIN Tail(s) = 1..(Len(s) - 1) /\ \A i \in 1..(Len(s) - 1) : Tail(s)[i] = s[i + 1]
  BY <1>1, HeadTailProperties, LenProperties
<1>3. IdsOf(s) = {Head(s).id} \cup IdsOf(Tail(s))
  <2>1. \A i \in 1..Len(s) : i = 1 \/ (i - 1 \in 1..(Len(s) - 1) /\ s[i] = Tail(s)[i - 1])
    BY <1>1, <1>2
  <2>2. \A i \in 1..(Len(s) - 1) : i + 1 \in 1..Len(s) /\ Tail(s)[i] = s[i + 1]
    BY <1>1, <1>2
  <2>3. IdsOf(s) \subseteq {Head(s).id} \cup IdsOf(Tail(s))
    <3>1. SUFFICES ASSUME NEW i \in 1..Len(s)
                   PROVE  s[i].id \in {Head(s).id} \cup IdsOf(Tail(s))
      BY <1>1 DEF IdsOf
    <3> QED
      BY <1>1, <1>2, <2>1 DEF IdsOf
  <2>4. IdsOf(Tail(s)) \subseteq IdsOf(s)
    BY <1>1, <1>2, <2>2 DEF IdsOf
  <2>5. 1 \in DOMAIN s /\ Head(s).id \in IdsOf(s)
    BY <1>1 DEF IdsOf
  <2> QED
    BY <2>3, <2>4, <2>5
<1>4. ASSUME Increasing(s)
      PROVE  Increasing(Tail(s)) /\ Before({Head(s).id}, IdsOf(Tail(s)))
  <2>1. \A i \in 1..(Len(s) - 1) : i + 1 \in 1..Len(s) /\ 1 < i + 1
    BY <1>1
  <2>2. \A i \in 1..(Len(s) - 1) : s[1].id < Tail(s)[i].id
    BY <1>1, <1>2, <1>4, <2>1 DEF Increasing
  <2>3. Before({Head(s).id}, IdsOf(Tail(s)))
    BY <1>1, <1>2, <2>2 DEF Before, IdsOf
  <2>4. SUFFICES ASSUME NEW i \in 1..(Len(s) - 1), NEW j \in 1..(Len(s) - 1), i < j
                 PROVE  Tail(s)[i].id < Tail(s)[j].id
    BY <1>2, <2>3 DEF Increasing
  <2>5. i + 1 \in 1..Len(s) /\ j + 1 \in 1..Len(s) /\ i + 1 < j + 1
    BY <1>1, <2>4
  <2>6. s[i + 1].id < s[j + 1].id
    BY <1>1, <1>4, <2>5 DEF Increasing
  <2> QED
    BY <1>2, <2>6
<1> QED
  BY <1>3, <1>4

\* Two increasing sequences, one below the other.
LEMMA IdsOfConcat ==
  ASSUME NEW s \in Seq(Events), NEW t \in Seq(Events)
  PROVE  /\ IdsOf(s \o t) = IdsOf(s) \cup IdsOf(t)
         /\ Increasing(s) /\ Increasing(t) /\ Before(IdsOf(s), IdsOf(t))
              => Increasing(s \o t)
<1>1. /\ Len(s) \in Nat /\ Len(t) \in Nat
      /\ DOMAIN s = 1..Len(s) /\ DOMAIN t = 1..Len(t)
      /\ DOMAIN (s \o t) = 1..(Len(s) + Len(t))
  BY ConcatProperties, LenProperties
<1>2. /\ \A i \in 1..Len(s) : (s \o t)[i] = s[i]
      /\ \A i \in 1..Len(t) : (s \o t)[Len(s) + i] = t[i]
  BY <1>1, ConcatProperties
<1>3. \A i \in 1..(Len(s) + Len(t)) :
         i \in 1..Len(s) \/ (i - Len(s) \in 1..Len(t) /\ i = Len(s) + (i - Len(s)))
  BY <1>1
<1>4. IdsOf(s \o t) = IdsOf(s) \cup IdsOf(t)
  <2>1. IdsOf(s \o t) \subseteq IdsOf(s) \cup IdsOf(t)
    BY <1>1, <1>2, <1>3 DEF IdsOf
  <2>2. IdsOf(s) \subseteq IdsOf(s \o t)
    BY <1>1, <1>2 DEF IdsOf
  <2>3. IdsOf(t) \subseteq IdsOf(s \o t)
    <3>1. SUFFICES ASSUME NEW i \in 1..Len(t) PROVE t[i].id \in IdsOf(s \o t)
      BY <1>1 DEF IdsOf
    <3>2. Len(s) + i \in DOMAIN (s \o t) /\ (s \o t)[Len(s) + i] = t[i]
      BY <1>1, <1>2
    <3> QED
      BY <3>2 DEF IdsOf
  <2> QED
    BY <2>1, <2>2, <2>3
<1>5. ASSUME Increasing(s), Increasing(t), Before(IdsOf(s), IdsOf(t))
      PROVE  Increasing(s \o t)
  <2>1. SUFFICES ASSUME NEW i \in 1..(Len(s) + Len(t)), NEW j \in 1..(Len(s) + Len(t)), i < j
                 PROVE  (s \o t)[i].id < (s \o t)[j].id
    BY <1>1 DEF Increasing
  <2>2. CASE j \in 1..Len(s)
    BY <1>1, <1>2, <1>5, <2>1, <2>2 DEF Increasing
  <2>3. CASE i \in 1..Len(s) /\ j \notin 1..Len(s)
    <3>1. j - Len(s) \in 1..Len(t) /\ (s \o t)[j] = t[j - Len(s)]
      BY <1>1, <1>2, <1>3, <2>3
    <3>2. s[i].id \in IdsOf(s) /\ t[j - Len(s)].id \in IdsOf(t)
      BY <1>1, <2>3, <3>1 DEF IdsOf
    <3>3. s[i].id < t[j - Len(s)].id
      BY <1>5, <3>2 DEF Before
    <3> QED
      BY <1>2, <2>3, <3>1, <3>3
  <2>4. CASE i \notin 1..Len(s)
    <3>1. i - Len(s) \in 1..Len(t) /\ (s \o t)[i] = t[i - Len(s)]
      BY <1>1, <1>2, <1>3, <2>4
    <3>2. j - Len(s) \in 1..Len(t) /\ (s \o t)[j] = t[j - Len(s)]
      BY <1>1, <1>2, <1>3, <2>1, <2>4
    <3> QED
      BY <1>1, <1>5, <2>1, <3>1, <3>2 DEF Increasing
  <2> QED
    BY <1>1, <2>1, <2>2, <2>3, <2>4
<1> QED
  BY <1>4, <1>5

\* Another dropped_before changes no id.
LEMMA IdsOfStamped ==
  ASSUME NEW s \in Seq(Events), NEW t \in Seq(Events), Len(t) = Len(s),
         \A i \in 1..Len(s) : t[i].id = s[i].id
  PROVE  IdsOf(t) = IdsOf(s) /\ (Increasing(s) => Increasing(t))
<1>1. DOMAIN s = 1..Len(s) /\ DOMAIN t = 1..Len(s)
  BY LenProperties
<1> QED
  BY <1>1 DEF IdsOf, Increasing

-----------------------------------------------------------------------------
(* Moves of one id, on the sets alone.                                     *)

\* Ids may leave any place.
LEMMA ChainLeaves ==
  ASSUME NEW R, NEW B, NEW G, NEW I, NEW H, NEW K, Chain(R, B, G, I, H, K),
         NEW B2, NEW G2, NEW I2, NEW H2, NEW K2,
         B2 \subseteq B, G2 \subseteq G, I2 \subseteq I, H2 \subseteq H, K2 \subseteq K
  PROVE  Chain(R, B2, G2, I2, H2, K2)
  BY DEF Chain, Before

\* The source takes the head of the ring.
LEMMA ChainRead ==
  ASSUME NEW R, NEW B, NEW G, NEW I, NEW K, NEW n, NEW K2,
         Chain(R, B, G, I, {}, K), K = {n} \cup K2, Before({n}, K2)
  PROVE  Chain(R, B, G, I, {n}, K2)
  BY DEF Chain, Before

\* The source sends what it holds.
LEMMA ChainSend ==
  ASSUME NEW R, NEW B, NEW G, NEW I, NEW H, NEW K, Chain(R, B, G, I, H, K)
  PROVE  Chain(R, B, G, I \cup H, {}, K)
  BY DEF Chain, Before

\* The collector forwards the head of in.
LEMMA ChainForward ==
  ASSUME NEW R, NEW B, NEW G, NEW I, NEW H, NEW K, NEW n, NEW I2,
         Chain(R, B, G, I, H, K), I = {n} \cup I2, Before({n}, I2)
  PROVE  Chain(R, B, G \cup {n}, I2, H, K)
  BY DEF Chain, Before

\* The batch takes the head of ingest.
LEMMA ChainTake ==
  ASSUME NEW R, NEW B, NEW G, NEW I, NEW H, NEW K, NEW n, NEW G2,
         Chain(R, B, G, I, H, K), G = {n} \cup G2, Before({n}, G2)
  PROVE  Chain(R, B \cup {n}, G2, I, H, K)
  BY DEF Chain, Before

\* The batch becomes rows.
LEMMA ChainInsert ==
  ASSUME NEW R, NEW B, NEW G, NEW I, NEW H, NEW K, Chain(R, B, G, I, H, K)
  PROVE  Chain(R \cup B, {}, G, I, H, K)
  BY DEF Chain, Before

\* A new id is larger than all.
LEMMA ChainSubmit ==
  ASSUME NEW R, NEW B, NEW G, NEW I, NEW H, NEW K, Chain(R, B, G, I, H, K),
         NEW n, Before(R \cup B \cup G \cup I \cup H \cup K, {n})
  PROVE  Chain(R, B, G, I, H, K \cup {n})
  BY DEF Chain, Before

-----------------------------------------------------------------------------
(* The invariant, one lemma per group of actions.                          *)

\* No id is in two places.
LEMMA ChainApart ==
  ASSUME NEW R, NEW B, NEW G, NEW I, NEW H, NEW K, Chain(R, B, G, I, H, K),
         NEW n \in Nat
  PROVE  /\ n \in K => n \notin R \cup B \cup G \cup I \cup H
         /\ n \in H => n \notin R \cup B \cup G \cup I \cup K
         /\ n \in I => n \notin R \cup B \cup G \cup H \cup K
  BY DEF Chain, Before

\* The sequences, as types say.
LEMMA Sequences ==
  ASSUME IInv
  PROVE  /\ rows \in Seq(Events) /\ batch \in Seq(Events) /\ ingest \in Seq(Events)
         /\ in \in Seq(Events) /\ hand \in Seq(Events) /\ ring \in Seq(Events)
         /\ emitted \in Nat /\ ringDrops \in Nat /\ dropped \in Nat
         /\ colPC \in {"loop", "count", "finish", "returned"}
  BY DEF IInv, TypeOK, CaptureTypeOK, CollectorTypeOK, FlushTypeOK, Bounded

\* OrderInv of the next state, put together.
LEMMA OrderNext ==
  ASSUME Increasing(rows'), Increasing(batch'), Increasing(ingest'),
         Increasing(in'), Increasing(hand'), Increasing(ring'),
         Chain(IdsOf(rows'), IdsOf(batch'), IdsOf(ingest'), IdsOf(in'), IdsOf(hand'), IdsOf(ring')),
         InFlow' \subseteq 1..emitted'
  PROVE  OrderInv'
  BY DEF OrderInv

\* LossInv of the next state, when D are the ids that leave the flow.
LEMMA LossNext ==
  ASSUME FlowInv, NEW D, emitted' = emitted,
         InFlow = InFlow' \cup D, D \cap InFlow' = {},
         \A n \in D : KindOf[n] = "keep" => n \in Lost',
         Lost \subseteq Lost', Lost' \subseteq Lost \cup D,
         CountersMatchLosses'
  PROVE  LossInv'
  BY DEF FlowInv, OrderInv, LossInv

\* Nothing is in flow or lost at the start.
LEMMA FlowInit == Init => FlowInv
<1> SUFFICES ASSUME Init PROVE FlowInv
  OBVIOUS
<1>1. /\ rows = <<>> /\ batch = <<>> /\ ingest = <<>> /\ in = <<>> /\ hand = <<>>
      /\ ring = <<>> /\ emitted = 0 /\ ringDrops = 0 /\ dropped = 0
      /\ ringLost = {} /\ overflow = {} /\ abandoned = {} /\ colPC = "loop"
  BY DEF Init, Src!Init, Col!Init, Fl!Init
<1>2. OrderInv
  BY <1>1, IdsOfEmpty DEF OrderInv, Chain, Before, InFlow
<1>3. LossInv
  BY <1>1, IdsOfEmpty, FS_EmptySet DEF LossInv, Lost, InFlow, CountersMatchLosses
<1> QED
  BY <1>2, <1>3 DEF FlowInv

\* An event that is emitted comes last, or is lost and counted.
LEMMA KernelFlow ==
  ASSUME IInv, FlowInv, Kernel
  PROVE  FlowInv'
<1> USE Sequences DEF FlowInv
<1>1. /\ UNCHANGED <<rows, batch, ingest, in, hand, abandoned, overflow, dropped, colPC>>
      /\ Src!Submit \/ Src!ReserveFails
      /\ emitted' = emitted + 1
  BY DEF Kernel, Src!Kernel, Src!Submit, Src!ReserveFails, colVars, flVars, Src!runVars
<1>2. CASE Src!Submit
  <2> DEFINE e == Src!Event(emitted + 1)
  <2>1. /\ e \in Events /\ e.id = emitted + 1
        /\ ring' = Append(ring, e) /\ UNCHANGED <<ringDrops, ringLost>>
    BY <1>2, EventsAssumption
    DEF Src!Submit, Src!Event, Events, IInv, TypeOK, CaptureTypeOK
  <2>2. Before(InFlow, {e.id})
    BY <2>1 DEF OrderInv, Before
  <2>3. IdsOf(ring') = IdsOf(ring) \cup {e.id} /\ Increasing(ring')
    <3>1. Before(IdsOf(ring), {e.id})
      BY <2>2 DEF InFlow, Before
    <3> HIDE DEF e
    <3> QED
      BY <2>1, <3>1, IdsOfAppend DEF OrderInv
  <2>4. Chain(IdsOf(rows), IdsOf(batch), IdsOf(ingest), IdsOf(in), IdsOf(hand), IdsOf(ring'))
    <3>1. Before(IdsOf(rows) \cup IdsOf(batch) \cup IdsOf(ingest) \cup IdsOf(in)
                   \cup IdsOf(hand) \cup IdsOf(ring), {e.id})
      BY <2>2 DEF InFlow
    <3> HIDE DEF e
    <3>2. Chain(IdsOf(rows), IdsOf(batch), IdsOf(ingest), IdsOf(in), IdsOf(hand), IdsOf(ring))
      BY DEF OrderInv
    <3>3. Chain(IdsOf(rows), IdsOf(batch), IdsOf(ingest), IdsOf(in), IdsOf(hand),
                IdsOf(ring) \cup {e.id})
      <4> HIDE DEF FlowInv
      <4> QED
        BY <3>1, <3>2, ChainSubmit
    <3> QED
      BY <2>3, <3>3
  <2>5. InFlow' = InFlow \cup {emitted + 1}
    BY <1>1, <2>1, <2>3 DEF InFlow
  <2>6. OrderInv'
    <3>1. InFlow' \subseteq 1..emitted'
      <4>1. InFlow \subseteq 1..emitted /\ emitted \in Nat
        BY DEF OrderInv
      <4>2. 1..emitted \cup {emitted + 1} \subseteq 1..(emitted + 1)
        BY <4>1
      <4> QED
        BY <1>1, <2>5, <4>1, <4>2
    <3>2. /\ Increasing(rows') /\ Increasing(batch') /\ Increasing(ingest')
          /\ Increasing(in') /\ Increasing(hand')
      BY <1>1 DEF OrderInv
    <3>3. Chain(IdsOf(rows'), IdsOf(batch'), IdsOf(ingest'), IdsOf(in'), IdsOf(hand'), IdsOf(ring'))
      BY <1>1, <2>4
    <3> HIDE DEF FlowInv
    <3> QED
      BY <2>3, <3>1, <3>2, <3>3, OrderNext
  <2>7. LossInv'
    BY <1>1, <2>1, <2>5 DEF LossInv, Lost, CountersMatchLosses
  <2> QED
    BY <2>6, <2>7
<1>3. CASE Src!ReserveFails
  <2>1. /\ ringLost' = ringLost \cup {emitted + 1} /\ ringDrops' = ringDrops + 1
        /\ UNCHANGED ring
    BY <1>3 DEF Src!ReserveFails
  <2>2. InFlow' = InFlow
    BY <1>1, <2>1 DEF InFlow
  <2>3. OrderInv'
    BY <1>1, <2>1, <2>2 DEF OrderInv
  <2>4. CountersMatchLosses'
    <3>1. IsFiniteSet(ringLost) /\ emitted + 1 \notin ringLost
      <4>1. ringLost \subseteq 1..emitted
        BY DEF LossInv, Lost
      <4>2. IsFiniteSet(1..emitted)
        BY FS_Interval
      <4>3. IsFiniteSet(ringLost)
        BY <4>1, <4>2, FS_Subset
      <4> QED
        BY <4>1, <4>3
    <3> QED
      BY <1>1, <2>1, <3>1, FS_AddElement DEF LossInv, CountersMatchLosses
  <2>5. LossInv'
    BY <1>1, <2>1, <2>2, <2>4 DEF LossInv, OrderInv, Lost
  <2> QED
    BY <2>3, <2>5
<1> QED
  BY <1>1, <1>2, <1>3

\* The ids of one place that leave it are in no other.
LEMMA Leaving ==
  ASSUME FlowInv, NEW n \in InFlow
  PROVE  /\ n \in Nat /\ n \in 1..emitted
         /\ n \in IdsOf(ring) => n \notin IdsOf(rows) \cup IdsOf(batch) \cup IdsOf(ingest)
                                        \cup IdsOf(in) \cup IdsOf(hand)
         /\ n \in IdsOf(hand) => n \notin IdsOf(rows) \cup IdsOf(batch) \cup IdsOf(ingest)
                                        \cup IdsOf(in) \cup IdsOf(ring)
         /\ n \in IdsOf(in) => n \notin IdsOf(rows) \cup IdsOf(batch) \cup IdsOf(ingest)
                                      \cup IdsOf(hand) \cup IdsOf(ring)
<1>1. n \in 1..emitted
  BY DEF FlowInv, OrderInv
<1>2. n \in Nat
  BY <1>1
<1>3. Chain(IdsOf(rows), IdsOf(batch), IdsOf(ingest), IdsOf(in), IdsOf(hand), IdsOf(ring))
  BY DEF FlowInv, OrderInv
<1> QED
  BY <1>1, <1>2, <1>3, ChainApart

\* The source keeps the order of what it takes, and gives up what it must.
LEMMA SourceFlow ==
  ASSUME IInv, FlowInv, SourceFails \/ SourceRun \/ CloseReader
  PROVE  FlowInv'
<1>0. /\ in \in Seq(Events) /\ hand \in Seq(Events) /\ ring \in Seq(Events)
      /\ srcPC = "read" => hand = <<>>
      /\ srcPC \in {"sample", "send"} => hand = <<hand[1]>> /\ hand[1] \in Events
      /\ IdsOf(<<>>) = {} /\ Increasing(<<>>)
  <2>1. hand \in Seq(Events) /\ Len(hand) = (IF srcPC \in {"sample", "send"} THEN 1 ELSE 0)
    BY DEF IInv, TypeOK, CaptureTypeOK
  <2> QED
    BY <2>1, Sequences, IdsOfEmpty
<1>1. UNCHANGED <<rows, batch, ingest, overflow, dropped, colPC, emitted, ringDrops, ringLost>>
  BY DEF SourceFails, SourceRun, CloseReader, Src!Fail, Src!Run, Src!SetupFails,
         Src!ReadFails, Src!Attach, Src!OpenReader, Src!ReadRecord, Src!SkipMalformed,
         Src!ReadClosed, Src!SampleDrops, Src!Send, Src!SendCancelled, Src!CloseReader,
         Src!kernelVars, colVars, flVars
<1>2. CountersMatchLosses'
  BY <1>1 DEF FlowInv, LossInv, CountersMatchLosses
<1>3. /\ Increasing(rows) /\ Increasing(batch) /\ Increasing(ingest)
      /\ Increasing(in) /\ Increasing(hand) /\ Increasing(ring)
      /\ Chain(IdsOf(rows), IdsOf(batch), IdsOf(ingest), IdsOf(in), IdsOf(hand), IdsOf(ring))
      /\ InFlow \subseteq 1..emitted
  BY DEF FlowInv, OrderInv
\* What is left to show of each step: the order, and which ids leave.
<1>4. ASSUME NEW D, NEW n, D \subseteq {n},
             Increasing(in'), Increasing(hand'), Increasing(ring'),
             Chain(IdsOf(rows), IdsOf(batch), IdsOf(ingest), IdsOf(in'), IdsOf(hand'), IdsOf(ring')),
             IdsOf(in) \cup IdsOf(hand) \cup IdsOf(ring)
               = IdsOf(in') \cup IdsOf(hand') \cup IdsOf(ring') \cup D,
             n \in D => n \notin InFlow' /\ (KindOf[n] = "keep" => n \in Lost'),
             abandoned \subseteq abandoned', abandoned' \subseteq abandoned \cup D
      PROVE  FlowInv'
  <2>1. InFlow = InFlow' \cup D
    BY <1>1, <1>4 DEF InFlow
  <2>2. OrderInv'
    <3>1. InFlow' \subseteq 1..emitted'
      BY <1>1, <1>3, <2>1
    <3>2. /\ Increasing(rows') /\ Increasing(batch') /\ Increasing(ingest')
          /\ Chain(IdsOf(rows'), IdsOf(batch'), IdsOf(ingest'), IdsOf(in'), IdsOf(hand'), IdsOf(ring'))
      BY <1>1, <1>3, <1>4
    <3> QED
      BY <1>4, <3>1, <3>2, OrderNext
  <2>3. Lost \subseteq Lost' /\ Lost' \subseteq Lost \cup D
    BY <1>1, <1>4 DEF Lost
  <2>4. D \cap InFlow' = {} /\ (\A m \in D : KindOf[m] = "keep" => m \in Lost')
    BY <1>4
  <2>5. LossInv'
    BY <1>1, <1>2, <2>1, <2>3, <2>4, LossNext
  <2> QED
    BY <2>2, <2>5 DEF FlowInv
\* The same, when none does.
<1>5. ASSUME Increasing(in'), Increasing(hand'), Increasing(ring'),
              Chain(IdsOf(rows), IdsOf(batch), IdsOf(ingest), IdsOf(in'), IdsOf(hand'), IdsOf(ring')),
              IdsOf(in) \cup IdsOf(hand) \cup IdsOf(ring)
                = IdsOf(in') \cup IdsOf(hand') \cup IdsOf(ring'),
              abandoned' = abandoned
      PROVE  FlowInv'
  <2>1. \E D : D = {}
    OBVIOUS
  <2>2. PICK D : D = {}
    BY <2>1
  <2>3. /\ \A n : n \notin D
        /\ D \subseteq {D}
        /\ abandoned \subseteq abandoned' /\ abandoned' \subseteq abandoned \cup D
        /\ IdsOf(in) \cup IdsOf(hand) \cup IdsOf(ring)
             = IdsOf(in') \cup IdsOf(hand') \cup IdsOf(ring') \cup D
    BY <1>5, <2>2
  <2> QED
    BY <1>4, <1>5, <2>3
<1>6. ASSUME UNCHANGED <<in, hand, ring, abandoned>> PROVE FlowInv'
  <2>1. Chain(IdsOf(rows), IdsOf(batch), IdsOf(ingest), IdsOf(in'), IdsOf(hand'), IdsOf(ring'))
    BY <1>3, <1>6
  <2>2. IdsOf(in) \cup IdsOf(hand) \cup IdsOf(ring)
          = IdsOf(in') \cup IdsOf(hand') \cup IdsOf(ring')
    BY <1>6
  <2>3. /\ Increasing(in') /\ Increasing(hand') /\ Increasing(ring')
        /\ abandoned' = abandoned
    BY <1>3, <1>6
  <2> QED
    BY <1>5, <2>1, <2>2, <2>3
<1>7. CASE Src!ReadRecord /\ UNCHANGED <<colVars, ingest, flVars, svcVars>>
  <2> DEFINE n == Head(ring).id
  <2>1. /\ hand = <<>> /\ hand' = <<Head(ring)>> /\ ring # <<>> /\ ring' = Tail(ring)
        /\ in' = in /\ abandoned' = abandoned
    BY <1>0, <1>7 DEF Src!ReadRecord
  <2>2. Head(ring) \in Events
    BY <1>0, <2>1, HeadTailProperties
  <2>3. IdsOf(hand') = {n} /\ Increasing(hand')
    BY <2>1, <2>2, IdsOfOne
  <2>4. /\ IdsOf(ring) = {n} \cup IdsOf(ring') /\ Increasing(ring')
        /\ Before({n}, IdsOf(ring'))
    BY <1>0, <1>3, <2>1, IdsOfTail
  <2>5. IdsOf(hand) = {}
    BY <1>0, <2>1
  <2> HIDE DEF n
  <2>6. Chain(IdsOf(rows), IdsOf(batch), IdsOf(ingest), IdsOf(in), {n}, IdsOf(ring'))
    <3>1. Chain(IdsOf(rows), IdsOf(batch), IdsOf(ingest), IdsOf(in), {}, IdsOf(ring))
      BY <1>3, <2>5
    <3> QED
      BY <2>4, <3>1, ChainRead
  <2>7. Chain(IdsOf(rows), IdsOf(batch), IdsOf(ingest), IdsOf(in'), IdsOf(hand'), IdsOf(ring'))
    BY <2>1, <2>3, <2>6
  <2>8. IdsOf(in) \cup IdsOf(hand) \cup IdsOf(ring)
          = IdsOf(in') \cup IdsOf(hand') \cup IdsOf(ring')
    BY <2>1, <2>3, <2>4, <2>5
  <2>9. Increasing(in')
    BY <1>3, <2>1
  <2> QED
    BY <1>5, <2>1, <2>3, <2>4, <2>7, <2>8, <2>9
<1>8. CASE Src!SkipMalformed /\ UNCHANGED <<colVars, ingest, flVars, svcVars>>
  <2> DEFINE n == Head(ring).id
  <2>1. /\ ring # <<>> /\ ring' = Tail(ring) /\ KindOf[n] = "malformed"
        /\ in' = in /\ abandoned' = abandoned /\ hand' = hand
    BY <1>8 DEF Src!SkipMalformed, Src!runVars
  <2>2. /\ IdsOf(ring) = {n} \cup IdsOf(ring') /\ Increasing(ring')
        /\ Before({n}, IdsOf(ring'))
    BY <1>0, <1>3, <2>1, IdsOfTail
  <2> HIDE DEF n
  <2>3. n \in InFlow /\ n \in IdsOf(ring)
    BY <2>2 DEF InFlow
  <2>4. n \in Nat /\ n \notin IdsOf(rows) \cup IdsOf(batch) \cup IdsOf(ingest)
                               \cup IdsOf(in) \cup IdsOf(hand)
    BY <2>3, Leaving
  <2>5. n \notin IdsOf(ring')
    BY <2>2, <2>4 DEF Before
  <2>6. n \notin InFlow'
    BY <1>1, <2>1, <2>4, <2>5 DEF InFlow
  <2>7. Chain(IdsOf(rows), IdsOf(batch), IdsOf(ingest), IdsOf(in), IdsOf(hand), IdsOf(ring'))
    BY <1>3, <2>2, ChainLeaves
  <2>8. Chain(IdsOf(rows), IdsOf(batch), IdsOf(ingest), IdsOf(in'), IdsOf(hand'), IdsOf(ring'))
    BY <2>1, <2>7
  <2>9. IdsOf(in) \cup IdsOf(hand) \cup IdsOf(ring)
          = IdsOf(in') \cup IdsOf(hand') \cup IdsOf(ring') \cup {n}
    BY <2>1, <2>2
  <2>10. Increasing(in') /\ Increasing(hand') /\ {n} \subseteq {n}
    BY <1>3, <2>1
  <2> QED
    BY <1>4, <2>1, <2>2, <2>6, <2>8, <2>9, <2>10
<1>9. CASE Src!SampleDrops /\ UNCHANGED <<colVars, ingest, flVars, svcVars>>
  <2>1. /\ UNCHANGED <<ring, in, abandoned>>
        /\ hand = <<hand[1]>> /\ hand[1] \in Events
    BY <1>0, <1>9 DEF Src!SampleDrops, Src!kernelVars
  <2>2. PICK total \in Src!SampledTotals :
            hand' = <<[hand[1] EXCEPT !.dropped = Src!DropDelta(total)]>>
    BY <1>9 DEF Src!SampleDrops
  <2>3. IdsOf(hand') = IdsOf(hand) /\ Increasing(hand')
    <3> DEFINE e == [hand[1] EXCEPT !.dropped = Src!DropDelta(total)]
    <3>1. e.id = hand[1].id
      BY <2>1 DEF Events
    <3>2. hand' = <<e>>
      BY <2>2
    <3> HIDE DEF e
    <3>3. DOMAIN hand' = {1} /\ hand'[1] = e
      BY <3>2
    <3>4. DOMAIN hand = {1}
      BY <2>1
    <3> QED
      BY <3>1, <3>3, <3>4 DEF IdsOf, Increasing
  <2>4. Chain(IdsOf(rows), IdsOf(batch), IdsOf(ingest), IdsOf(in'), IdsOf(hand'), IdsOf(ring'))
    BY <1>3, <2>1, <2>3
  <2>5. IdsOf(in) \cup IdsOf(hand) \cup IdsOf(ring)
          = IdsOf(in') \cup IdsOf(hand') \cup IdsOf(ring')
    BY <2>1, <2>3
  <2>6. Increasing(in') /\ Increasing(ring')
    BY <1>3, <2>1
  <2> QED
    BY <1>5, <2>1, <2>3, <2>4, <2>5, <2>6
<1>10. CASE Src!Send /\ UNCHANGED <<colVars, ingest, flVars, svcVars>>
  <2> DEFINE e == hand[1]
  <2>1. /\ UNCHANGED <<ring, abandoned>> /\ in' = in \o hand /\ hand' = <<>>
        /\ hand = <<e>> /\ e \in Events
    BY <1>0, <1>10 DEF Src!Send, Src!kernelVars
  <2>2. IdsOf(in') = IdsOf(in) \cup IdsOf(hand) /\ Increasing(in')
    <3>1. Before(IdsOf(in), IdsOf(hand))
      BY <1>3 DEF Chain, Before
    <3> HIDE DEF e
    <3> QED
      BY <1>0, <1>3, <2>1, <3>1, IdsOfConcat
  <2>3. IdsOf(hand') = {} /\ Increasing(hand')
    BY <1>0, <2>1
  <2>4. Chain(IdsOf(rows), IdsOf(batch), IdsOf(ingest), IdsOf(in) \cup IdsOf(hand), {},
              IdsOf(ring))
    BY <1>3, ChainSend
  <2>5. Chain(IdsOf(rows), IdsOf(batch), IdsOf(ingest), IdsOf(in'), IdsOf(hand'), IdsOf(ring'))
    BY <2>1, <2>2, <2>3, <2>4
  <2>6. IdsOf(in) \cup IdsOf(hand) \cup IdsOf(ring)
          = IdsOf(in') \cup IdsOf(hand') \cup IdsOf(ring')
    BY <2>1, <2>2, <2>3
  <2>7. Increasing(ring')
    BY <1>3, <2>1
  <2> QED
    BY <1>5, <2>1, <2>2, <2>3, <2>5, <2>6, <2>7
<1>11. CASE Src!SendCancelled /\ UNCHANGED <<colVars, ingest, flVars, svcVars>>
  <2> DEFINE n == hand[1].id
  <2>1. /\ UNCHANGED <<ring, in>> /\ hand' = <<>> /\ abandoned' = abandoned \cup {n}
        /\ hand = <<hand[1]>> /\ hand[1] \in Events
    BY <1>0, <1>11 DEF Src!SendCancelled, Src!kernelVars
  <2>2. IdsOf(hand) = {n} /\ IdsOf(hand') = {} /\ Increasing(hand')
    BY <1>0, <2>1, IdsOfOne
  <2> HIDE DEF n
  <2>3. n \in InFlow /\ n \in IdsOf(hand)
    BY <2>2 DEF InFlow
  <2>4. n \notin IdsOf(rows) \cup IdsOf(batch) \cup IdsOf(ingest) \cup IdsOf(in) \cup IdsOf(ring)
    BY <2>3, Leaving
  <2>5. n \notin InFlow' /\ n \in Lost'
    BY <1>1, <2>1, <2>2, <2>4 DEF InFlow, Lost
  <2>6. Chain(IdsOf(rows), IdsOf(batch), IdsOf(ingest), IdsOf(in), {}, IdsOf(ring))
    BY <1>3, ChainLeaves
  <2>7. Chain(IdsOf(rows), IdsOf(batch), IdsOf(ingest), IdsOf(in'), IdsOf(hand'), IdsOf(ring'))
    BY <2>1, <2>2, <2>6
  <2>8. IdsOf(in) \cup IdsOf(hand) \cup IdsOf(ring)
          = IdsOf(in') \cup IdsOf(hand') \cup IdsOf(ring') \cup {n}
    BY <2>1, <2>2
  <2>9. Increasing(in') /\ Increasing(ring') /\ {n} \subseteq {n}
    BY <1>3, <2>1
  <2> QED
    BY <1>4, <2>1, <2>2, <2>5, <2>7, <2>8, <2>9
<1>12. CASE \/ SourceFails
            \/ CloseReader
            \/ SourceRun /\ (Src!Attach \/ Src!OpenReader \/ Src!ReadClosed)
  BY <1>6, <1>12
  DEF SourceFails, CloseReader, SourceRun, Src!Fail, Src!SetupFails, Src!ReadFails,
      Src!Attach, Src!OpenReader, Src!ReadClosed, Src!CloseReader, Src!kernelVars
<1> QED
  BY <1>7, <1>8, <1>9, <1>10, <1>11, <1>12 DEF SourceRun, Src!Run

\* The collector moves, filters or turns away the oldest event of in.
LEMMA CollectorFlow ==
  ASSUME IInv, FlowInv, Worker \/ CollectorRun
  PROVE  FlowInv'
<1>0. /\ in \in Seq(Events) /\ ingest \in Seq(Events)
      /\ dropped \in Nat /\ emitted \in Nat
  BY Sequences
<1>1. UNCHANGED <<rows, batch, hand, ring, emitted, ringDrops, ringLost, abandoned>>
  BY DEF Worker, CollectorRun, kernelVars, sourceLocal, flVars
<1>2. /\ Increasing(rows) /\ Increasing(batch) /\ Increasing(ingest)
      /\ Increasing(in) /\ Increasing(hand) /\ Increasing(ring)
      /\ Chain(IdsOf(rows), IdsOf(batch), IdsOf(ingest), IdsOf(in), IdsOf(hand), IdsOf(ring))
      /\ InFlow \subseteq 1..emitted
      /\ CountersMatchLosses /\ Lost \subseteq 1..emitted /\ Lost \cap InFlow = {}
  BY DEF FlowInv, OrderInv, LossInv
<1>3. ASSUME UNCHANGED <<in, ingest, overflow>>, CountersMatchLosses'
      PROVE  FlowInv'
  <2>1. InFlow' = InFlow /\ Lost' = Lost
    BY <1>1, <1>3 DEF InFlow, Lost
  <2>2. OrderInv'
    BY <1>1, <1>3, <2>1 DEF FlowInv, OrderInv
  <2>3. LossInv'
    BY <1>1, <1>3, <2>1 DEF FlowInv, LossInv
  <2> QED
    BY <2>2, <2>3 DEF FlowInv
\* The head of in, when a step takes it.
<1>4. ASSUME in # <<>>, in' = Tail(in)
      PROVE  /\ Head(in) \in Events
             /\ IdsOf(in) = {Head(in).id} \cup IdsOf(in') /\ Increasing(in')
             /\ Before({Head(in).id}, IdsOf(in'))
             /\ Head(in).id \in InFlow /\ Head(in).id \in 1..emitted
             /\ Head(in).id \notin IdsOf(rows) \cup IdsOf(batch) \cup IdsOf(ingest)
                                      \cup IdsOf(hand) \cup IdsOf(ring) \cup IdsOf(in')
  <2>1. /\ Head(in) \in Events
        /\ IdsOf(in) = {Head(in).id} \cup IdsOf(in') /\ Increasing(in')
        /\ Before({Head(in).id}, IdsOf(in'))
    BY <1>0, <1>2, <1>4, IdsOfTail, HeadTailProperties
  <2>2. Head(in).id \in InFlow /\ Head(in).id \in IdsOf(in)
    BY <2>1 DEF InFlow
  <2>3. /\ Head(in).id \in Nat /\ Head(in).id \in 1..emitted
        /\ Head(in).id \notin IdsOf(rows) \cup IdsOf(batch) \cup IdsOf(ingest)
                                \cup IdsOf(hand) \cup IdsOf(ring)
    BY <2>2, Leaving
  <2>4. Head(in).id \notin IdsOf(in')
    BY <2>1, <2>3 DEF Before
  <2> QED
    BY <2>1, <2>2, <2>3, <2>4
\* An event that leaves the flow here is ignored or counted.
<1>5. ASSUME in # <<>>, in' = Tail(in), UNCHANGED ingest,
             \/ overflow' = overflow /\ KindOf[Head(in).id] # "keep"
             \/ overflow' = overflow \cup {Head(in).id},
             CountersMatchLosses'
      PROVE  FlowInv'
  <2> DEFINE n == Head(in).id
  <2>0. /\ IdsOf(in) = {n} \cup IdsOf(in') /\ Increasing(in')
        /\ n \notin IdsOf(rows) \cup IdsOf(batch) \cup IdsOf(ingest)
                     \cup IdsOf(hand) \cup IdsOf(ring) \cup IdsOf(in')
        /\ \/ overflow' = overflow /\ KindOf[n] # "keep"
           \/ overflow' = overflow \cup {n}
    BY <1>4, <1>5
  <2> HIDE DEF n
  <2>1. n \notin InFlow' /\ InFlow = InFlow' \cup {n}
    BY <1>1, <1>5, <2>0 DEF InFlow
  <2>2. Chain(IdsOf(rows), IdsOf(batch), IdsOf(ingest), IdsOf(in'), IdsOf(hand), IdsOf(ring))
    BY <1>2, <2>0, ChainLeaves
  <2>3. OrderInv'
    <3>1. Chain(IdsOf(rows'), IdsOf(batch'), IdsOf(ingest'), IdsOf(in'), IdsOf(hand'), IdsOf(ring'))
      BY <1>1, <1>5, <2>2
    <3>2. InFlow' \subseteq 1..emitted'
      BY <1>1, <1>2, <2>1
    <3>3. /\ Increasing(rows') /\ Increasing(batch') /\ Increasing(ingest')
          /\ Increasing(hand') /\ Increasing(ring')
      BY <1>1, <1>2, <1>5
    <3> QED
      BY <2>0, <3>1, <3>2, <3>3, OrderNext
  <2>4. /\ Lost \subseteq Lost' /\ Lost' \subseteq Lost \cup {n}
        /\ KindOf[n] = "keep" => n \in Lost'
    BY <1>1, <2>0 DEF Lost
  <2>5. LossInv'
    <3>1. {n} \cap InFlow' = {} /\ \A m \in {n} : KindOf[m] = "keep" => m \in Lost'
      BY <2>1, <2>4
    <3> QED
      BY <1>1, <1>5, <2>1, <2>4, <3>1, LossNext
  <2> QED
    BY <2>3, <2>5 DEF FlowInv
<1>6. CASE Col!Ignore
  <2>1. /\ in # <<>> /\ in' = Tail(in) /\ UNCHANGED <<ingest, overflow, dropped, colPC>>
        /\ KindOf[Head(in).id] # "keep"
    BY <1>6 DEF Col!Ignore, Col!shouldIgnore
  <2>2. CountersMatchLosses'
    BY <1>1, <1>2, <2>1 DEF CountersMatchLosses
  <2> QED
    BY <1>5, <2>1, <2>2
<1>7. CASE Col!Forward
  <2> DEFINE e == Head(in)
  <2>1. /\ in # <<>> /\ in' = Tail(in) /\ ingest' = Append(ingest, e)
        /\ UNCHANGED <<overflow, dropped, colPC>>
    BY <1>7 DEF Col!Forward
  <2>2. /\ e \in Events
        /\ IdsOf(in) = {e.id} \cup IdsOf(in') /\ Increasing(in')
        /\ Before({e.id}, IdsOf(in'))
    BY <1>4, <2>1
  <2> HIDE DEF e
  <2>3. Before(IdsOf(ingest), {e.id})
    BY <1>2, <2>2 DEF Chain, Before
  <2>4. IdsOf(ingest') = IdsOf(ingest) \cup {e.id} /\ Increasing(ingest')
    BY <1>0, <1>2, <2>1, <2>2, <2>3, IdsOfAppend
  <2>5. Chain(IdsOf(rows), IdsOf(batch), IdsOf(ingest) \cup {e.id}, IdsOf(in'),
              IdsOf(hand), IdsOf(ring))
    BY <1>2, <2>2, ChainForward
  <2>6. InFlow' = InFlow /\ Lost' = Lost
    BY <1>1, <2>1, <2>2, <2>4 DEF InFlow, Lost
  <2>7. OrderInv'
    <3>1. Chain(IdsOf(rows'), IdsOf(batch'), IdsOf(ingest'), IdsOf(in'), IdsOf(hand'), IdsOf(ring'))
      BY <1>1, <2>4, <2>5
    <3>2. InFlow' \subseteq 1..emitted'
      BY <1>1, <1>2, <2>6
    <3>3. /\ Increasing(rows') /\ Increasing(batch')
          /\ Increasing(hand') /\ Increasing(ring')
      BY <1>1, <1>2
    <3> QED
      BY <2>2, <2>4, <3>1, <3>2, <3>3, OrderNext
  <2>8. CountersMatchLosses'
    BY <1>1, <1>2, <2>1 DEF CountersMatchLosses
  <2>9. LossInv'
    BY <1>1, <2>6, <2>8 DEF FlowInv, LossInv
  <2> QED
    BY <2>7, <2>9 DEF FlowInv
<1>8. CASE Col!Overflow
  <2> DEFINE n == Head(in).id
  <2>1. /\ in # <<>> /\ in' = Tail(in) /\ overflow' = overflow \cup {n}
        /\ UNCHANGED <<ingest, dropped>> /\ colPC = "loop" /\ colPC' = "count"
    BY <1>8 DEF Col!Overflow
  <2>2. n \in InFlow
    BY <1>4, <2>1
  <2>3. CountersMatchLosses'
    <3> HIDE DEF n
    <3>1. overflow \subseteq 1..emitted /\ n \notin overflow
      BY <1>2, <2>2 DEF Lost
    <3>2. IsFiniteSet(1..emitted)
      BY <1>0, FS_Interval
    <3>3. IsFiniteSet(overflow)
      BY <3>1, <3>2, FS_Subset
    <3>4. Cardinality(overflow \cup {n}) = Cardinality(overflow) + 1
      BY <3>1, <3>3, FS_AddElement
    <3> QED
      BY <1>0, <1>1, <1>2, <2>1, <3>4 DEF CountersMatchLosses
  <2> QED
    BY <1>5, <2>1, <2>3
<1>9. CASE Col!CountDrop
  <2>1. UNCHANGED <<in, ingest, overflow>> /\ dropped' = dropped + 1
        /\ colPC = "count" /\ colPC' = "loop"
    BY <1>9 DEF Col!CountDrop
  <2>2. CountersMatchLosses'
    BY <1>0, <1>1, <1>2, <2>1 DEF CountersMatchLosses
  <2> QED
    BY <1>3, <2>1, <2>2
<1>10. CASE Worker \/ Col!ObserveCancel \/ Col!SeeClosed \/ Col!Finish
  <2>1. UNCHANGED <<in, ingest, overflow, dropped>> /\ (colPC' = "count" <=> colPC = "count")
    BY <1>10 DEF Worker, Col!Worker, Col!CloseIn, Col!ReportResult, Col!ObserveCancel,
                 Col!SeeClosed, Col!Finish
  <2>2. CountersMatchLosses'
    BY <1>1, <1>2, <2>1 DEF CountersMatchLosses
  <2> QED
    BY <1>3, <2>1, <2>2
<1> QED
  BY <1>6, <1>7, <1>8, <1>9, <1>10 DEF CollectorRun, Col!Run

\* A stamp changes no id.
LEMMA StampedIds ==
  ASSUME IInv, Fl!Stamp
  PROVE  /\ batch' \in Seq(Events) /\ Len(batch') = Len(batch)
         /\ \A i \in 1..Len(batch) : batch'[i].id = batch[i].id
<1>1. batch' \in Seq(Events)
  <2>1. TypeOK /\ FlushInv /\ Fl!Run
    BY DEF IInv, ControlInv, Fl!Run
  <2>2. FlushTypeOK'
    BY <2>1, FlushType
  <2> QED
    BY <2>2 DEF FlushTypeOK
<1>2. batch \in Seq(Events)
  BY Sequences
<1>3. DOMAIN batch = 1..Len(batch) /\ \A i \in 1..Len(batch) : batch[i] \in Events
  BY <1>2, LenProperties
<1>4. CASE dropped > lastDropped
  <2> DEFINE d == batch[1].dropped + (dropped - lastDropped)
  <2>1. batch' = [batch EXCEPT ![1] = [@ EXCEPT !.dropped = d]]
    BY <1>4 DEF Fl!Stamp
  <2> HIDE DEF d
  <2>2. \A i \in 1..Len(batch) : batch'[i].id = batch[i].id
    BY <1>3, <2>1 DEF Events
  <2>3. DOMAIN batch' = DOMAIN batch
    BY <2>1
  <2>4. Len(batch') = Len(batch)
    BY <1>1, <1>2, <1>3, <2>3, LenProperties
  <2> QED
    BY <1>1, <2>2, <2>4
<1>5. CASE ~(dropped > lastDropped)
  BY <1>1, <1>5 DEF Fl!Stamp
<1> QED
  BY <1>4, <1>5

\* The flush loop moves the oldest event of ingest, or the whole batch.
LEMMA FlushFlow ==
  ASSUME IInv, FlowInv, FlushRun \/ Tick
  PROVE  FlowInv'
<1>0. /\ rows \in Seq(Events) /\ batch \in Seq(Events) /\ ingest \in Seq(Events)
      /\ IdsOf(<<>>) = {} /\ Increasing(<<>>)
  BY Sequences, IdsOfEmpty
<1>1. UNCHANGED <<in, hand, ring, emitted, ringDrops, ringLost, abandoned, overflow, colPC>>
  BY DEF FlushRun, Tick, upstream, kernelVars, srcVars
<1>2. UNCHANGED dropped
  BY DEF FlushRun, Tick, Fl!Run, Fl!Tick, Fl!Receive, Fl!Drain, Fl!DrainDone, Fl!SeeClosed,
         Fl!FlushEmpty, Fl!Stamp, Fl!Insert, Fl!InsertFails
<1>3. /\ Increasing(rows) /\ Increasing(batch) /\ Increasing(ingest)
      /\ Increasing(in) /\ Increasing(hand) /\ Increasing(ring)
      /\ Chain(IdsOf(rows), IdsOf(batch), IdsOf(ingest), IdsOf(in), IdsOf(hand), IdsOf(ring))
      /\ InFlow \subseteq 1..emitted
  BY DEF FlowInv, OrderInv
<1>4. ASSUME Increasing(rows'), Increasing(batch'), Increasing(ingest'),
             Chain(IdsOf(rows'), IdsOf(batch'), IdsOf(ingest'), IdsOf(in), IdsOf(hand), IdsOf(ring)),
             IdsOf(rows) \cup IdsOf(batch) \cup IdsOf(ingest)
               = IdsOf(rows') \cup IdsOf(batch') \cup IdsOf(ingest')
      PROVE  FlowInv'
  <2>1. InFlow' = InFlow /\ Lost' = Lost
    BY <1>1, <1>4 DEF InFlow, Lost
  <2>2. OrderInv'
    <3>1. Chain(IdsOf(rows'), IdsOf(batch'), IdsOf(ingest'), IdsOf(in'), IdsOf(hand'), IdsOf(ring'))
      BY <1>1, <1>4
    <3>2. InFlow' \subseteq 1..emitted' /\ Increasing(in') /\ Increasing(hand') /\ Increasing(ring')
      BY <1>1, <1>3, <2>1
    <3> QED
      BY <1>4, <3>1, <3>2, OrderNext
  <2>3. LossInv'
    BY <1>1, <1>2, <2>1 DEF FlowInv, LossInv, CountersMatchLosses
  <2> QED
    BY <2>2, <2>3 DEF FlowInv
<1>5. CASE Fl!Receive \/ Fl!Drain
  <2> DEFINE e == Head(ingest)
  <2>1. /\ ingest # <<>> /\ batch' = Append(batch, e) /\ ingest' = Tail(ingest)
        /\ rows' = rows
    BY <1>5 DEF Fl!Receive, Fl!Drain, Fl!Take
  <2>2. /\ e \in Events /\ IdsOf(ingest) = {e.id} \cup IdsOf(ingest')
        /\ Increasing(ingest') /\ Before({e.id}, IdsOf(ingest'))
    BY <1>0, <1>3, <2>1, IdsOfTail, HeadTailProperties
  <2> HIDE DEF e
  <2>3. Before(IdsOf(batch), {e.id})
    BY <1>3, <2>2 DEF Chain, Before
  <2>4. IdsOf(batch') = IdsOf(batch) \cup {e.id} /\ Increasing(batch')
    BY <1>0, <1>3, <2>1, <2>2, <2>3, IdsOfAppend
  <2>5. Chain(IdsOf(rows), IdsOf(batch) \cup {e.id}, IdsOf(ingest'), IdsOf(in),
              IdsOf(hand), IdsOf(ring))
    BY <1>3, <2>2, ChainTake
  <2>6. /\ Chain(IdsOf(rows'), IdsOf(batch'), IdsOf(ingest'), IdsOf(in), IdsOf(hand), IdsOf(ring))
        /\ Increasing(rows')
        /\ IdsOf(rows) \cup IdsOf(batch) \cup IdsOf(ingest)
             = IdsOf(rows') \cup IdsOf(batch') \cup IdsOf(ingest')
    BY <1>3, <2>1, <2>2, <2>4, <2>5
  <2> QED
    BY <1>4, <2>2, <2>4, <2>6
<1>6. CASE Fl!Stamp
  <2>1. rows' = rows /\ ingest' = ingest
    BY <1>6 DEF Fl!Stamp
  <2>2. /\ batch' \in Seq(Events) /\ Len(batch') = Len(batch)
        /\ \A i \in 1..Len(batch) : batch'[i].id = batch[i].id
    BY <1>6, StampedIds
  <2>3. IdsOf(batch') = IdsOf(batch) /\ Increasing(batch')
    BY <1>0, <1>3, <2>1, <2>2, IdsOfStamped
  <2>4. Chain(IdsOf(rows'), IdsOf(batch'), IdsOf(ingest'), IdsOf(in), IdsOf(hand), IdsOf(ring))
    BY <1>3, <2>1, <2>3
  <2> QED
    BY <1>3, <1>4, <2>1, <2>3, <2>4
<1>7. CASE Fl!Insert
  <2>1. rows' = rows \o batch /\ batch' = <<>> /\ ingest' = ingest
    BY <1>7 DEF Fl!Insert
  <2>2. IdsOf(rows') = IdsOf(rows) \cup IdsOf(batch) /\ Increasing(rows')
    <3>1. Before(IdsOf(rows), IdsOf(batch))
      BY <1>3 DEF Chain, Before
    <3> QED
      BY <1>0, <1>3, <2>1, <3>1, IdsOfConcat
  <2>3. Chain(IdsOf(rows) \cup IdsOf(batch), {}, IdsOf(ingest), IdsOf(in), IdsOf(hand),
              IdsOf(ring))
    BY <1>3, ChainInsert
  <2>4. Chain(IdsOf(rows'), IdsOf(batch'), IdsOf(ingest'), IdsOf(in), IdsOf(hand), IdsOf(ring))
    BY <1>0, <2>1, <2>2, <2>3
  <2> QED
    BY <1>0, <1>3, <1>4, <2>1, <2>2, <2>4
<1>8. CASE Fl!Tick \/ Fl!DrainDone \/ Fl!SeeClosed \/ Fl!FlushEmpty \/ Fl!InsertFails
  <2>1. UNCHANGED <<rows, batch, ingest>>
    BY <1>8 DEF Fl!Tick, Fl!DrainDone, Fl!SeeClosed, Fl!FlushEmpty, Fl!InsertFails
  <2>2. Chain(IdsOf(rows'), IdsOf(batch'), IdsOf(ingest'), IdsOf(in), IdsOf(hand), IdsOf(ring))
    BY <1>3, <2>1
  <2> QED
    BY <1>3, <1>4, <2>1, <2>2
<1> QED
  BY <1>5, <1>6, <1>7, <1>8 DEF FlushRun, Tick, Fl!Run

\* The service moves no event.
LEMMA ServiceFlow ==
  ASSUME FlowInv, Signal \/ Service \/ UNCHANGED vars
  PROVE  FlowInv'
<1>1. UNCHANGED <<rows, batch, ingest, in, hand, ring, emitted, ringDrops, ringLost,
                  abandoned, overflow, dropped, colPC>>
  BY DEF Signal, Service, WaitCancelled, WaitCollector, WaitFlush, JoinCollector,
         CloseIngest, JoinFlush, pipeline, vars, kernelVars, srcVars, colVars, flVars
<1> QED
  BY <1>1 DEF FlowInv, OrderInv, LossInv, InFlow, Lost, CountersMatchLosses

-----------------------------------------------------------------------------

\* The events flow in capture order, and each is in one place.
THEOREM Flows == Spec => [](IInv /\ FlowInv)
<1>1. IInv /\ FlowInv /\ [Next]_vars => FlowInv'
  BY KernelFlow, SourceFlow, CollectorFlow, FlushFlow, ServiceFlow DEF Next, Terminated
<1> QED
  BY <1>1, FlowInit, Invariance, PTL DEF Spec

\* The ids of the whole flow.
LEMMA IdsOfFlow ==
  ASSUME IInv, FlowInv
  PROVE  IdsOf(Flow) = InFlow /\ Increasing(Flow)
<1>1. /\ Increasing(rows) /\ Increasing(batch) /\ Increasing(ingest)
      /\ Increasing(in) /\ Increasing(hand) /\ Increasing(ring)
      /\ Chain(IdsOf(rows), IdsOf(batch), IdsOf(ingest), IdsOf(in), IdsOf(hand), IdsOf(ring))
  BY DEF FlowInv, OrderInv
<1> DEFINE f2 == rows \o batch
           f3 == f2 \o ingest
           f4 == f3 \o in
           f5 == f4 \o hand
<1>2. /\ rows \in Seq(Events) /\ batch \in Seq(Events) /\ ingest \in Seq(Events)
      /\ in \in Seq(Events) /\ hand \in Seq(Events) /\ ring \in Seq(Events)
  BY Sequences
<1>3. f2 \in Seq(Events) /\ f3 \in Seq(Events) /\ f4 \in Seq(Events) /\ f5 \in Seq(Events)
  BY <1>2, ConcatProperties
<1>4. Flow = f5 \o ring
  BY DEF Flow
<1>5. IdsOf(f2) = IdsOf(rows) \cup IdsOf(batch) /\ Increasing(f2)
  <2>1. Before(IdsOf(rows), IdsOf(batch))
    BY <1>1 DEF Chain, Before
  <2> QED
    BY <1>1, <1>2, <2>1, IdsOfConcat
<1>6. IdsOf(f3) = IdsOf(f2) \cup IdsOf(ingest) /\ Increasing(f3)
  <2>1. Before(IdsOf(f2), IdsOf(ingest))
    BY <1>1, <1>5 DEF Chain, Before
  <2> HIDE DEF f2
  <2> QED
    BY <1>1, <1>2, <1>3, <1>5, <2>1, IdsOfConcat
<1>7. IdsOf(f4) = IdsOf(f3) \cup IdsOf(in) /\ Increasing(f4)
  <2>1. Before(IdsOf(f3), IdsOf(in))
    BY <1>1, <1>5, <1>6 DEF Chain, Before
  <2> HIDE DEF f3
  <2> QED
    BY <1>1, <1>2, <1>3, <1>6, <2>1, IdsOfConcat
<1>8. IdsOf(f5) = IdsOf(f4) \cup IdsOf(hand) /\ Increasing(f5)
  <2>1. Before(IdsOf(f4), IdsOf(hand))
    BY <1>1, <1>5, <1>6, <1>7 DEF Chain, Before
  <2> HIDE DEF f4
  <2> QED
    BY <1>1, <1>2, <1>3, <1>7, <2>1, IdsOfConcat
<1>9. IdsOf(Flow) = IdsOf(f5) \cup IdsOf(ring) /\ Increasing(Flow)
  <2>1. Before(IdsOf(f5), IdsOf(ring))
    BY <1>1, <1>5, <1>6, <1>7, <1>8 DEF Chain, Before
  <2> HIDE DEF f5
  <2> QED
    BY <1>1, <1>2, <1>3, <1>4, <1>8, <2>1, IdsOfConcat
<1> QED
  BY <1>5, <1>6, <1>7, <1>8, <1>9 DEF InFlow

\* The table and the queues behind it are in capture order.
THEOREM CaptureOrder == Spec => []FifoOrder
<1>1. IInv /\ FlowInv => FifoOrder
  BY IdsOfFlow DEF FifoOrder
<1> QED
  BY <1>1, Flows, PTL

\* No event is lost silently, and the counters count the lost ones.
THEOREM NothingVanishes == Spec => []EveryEventAccountedFor
<1>1. IInv /\ FlowInv => EveryEventAccountedFor
  BY IdsOfFlow DEF FlowInv, LossInv, EveryEventAccountedFor, CountersMatchLosses
<1> QED
  BY <1>1, Flows, PTL

-----------------------------------------------------------------------------
(* The refinement of EventLog.                                             *)

\* The sequence of the ids of a sequence of events.
LEMMA IdSeqType ==
  ASSUME NEW s \in Seq(Events)
  PROVE  /\ IdSeq(s) \in Seq(Nat) /\ Len(IdSeq(s)) = Len(s)
         /\ \A i \in 1..Len(s) : IdSeq(s)[i] = s[i].id
         /\ {IdSeq(s)[i] : i \in DOMAIN IdSeq(s)} = IdsOf(s)
<1>1. Len(s) \in Nat /\ DOMAIN s = 1..Len(s) /\ \A i \in 1..Len(s) : s[i] \in Events
  BY LenProperties, ElementOfSeq
<1>2. \A i \in 1..Len(s) : s[i].id \in Nat
  BY <1>1, EventsAssumption DEF Events
<1>3. IdSeq(s) \in [1..Len(s) -> Nat] /\ \A i \in 1..Len(s) : IdSeq(s)[i] = s[i].id
  BY <1>1, <1>2 DEF IdSeq
<1>4. IdSeq(s) \in Seq(Nat)
  BY <1>1, <1>3, SeqDef
<1>5. DOMAIN IdSeq(s) = 1..Len(s) /\ Len(IdSeq(s)) = Len(s)
  BY <1>1, <1>3, <1>4, LenProperties
<1> QED
  BY <1>1, <1>3, <1>4, <1>5 DEF IdsOf

\* The ids of a concatenation.
LEMMA IdSeqConcat ==
  ASSUME NEW s \in Seq(Events), NEW t \in Seq(Events)
  PROVE  IdSeq(s \o t) = IdSeq(s) \o IdSeq(t)
<1>1. /\ s \o t \in Seq(Events) /\ Len(s \o t) = Len(s) + Len(t)
      /\ Len(s) \in Nat /\ Len(t) \in Nat
      /\ \A i \in 1..(Len(s) + Len(t)) :
            (s \o t)[i] = IF i <= Len(s) THEN s[i] ELSE t[i - Len(s)]
  BY ConcatProperties, LenProperties
<1> DEFINE u == IdSeq(s) \o IdSeq(t)
<1>2. /\ u \in Seq(Nat) /\ Len(u) = Len(s) + Len(t)
      /\ \A i \in 1..(Len(s) + Len(t)) :
            u[i] = IF i <= Len(s) THEN IdSeq(s)[i] ELSE IdSeq(t)[i - Len(s)]
  <2>1. /\ IdSeq(s) \in Seq(Nat) /\ Len(IdSeq(s)) = Len(s)
        /\ IdSeq(t) \in Seq(Nat) /\ Len(IdSeq(t)) = Len(t)
    BY IdSeqType
  <2> DEFINE p == IdSeq(s)
             q == IdSeq(t)
  <2> HIDE DEF p, q
  <2>2. p \in Seq(Nat) /\ Len(p) = Len(s) /\ q \in Seq(Nat) /\ Len(q) = Len(t)
    BY <2>1 DEF p, q
  <2>3. /\ p \o q \in Seq(Nat) /\ Len(p \o q) = Len(p) + Len(q)
        /\ \A i \in 1..(Len(p) + Len(q)) :
              (p \o q)[i] = IF i <= Len(p) THEN p[i] ELSE q[i - Len(p)]
    BY <2>2, ConcatProperties
  <2>4. /\ p \o q \in Seq(Nat) /\ Len(p \o q) = Len(s) + Len(t)
        /\ \A i \in 1..(Len(s) + Len(t)) :
              (p \o q)[i] = IF i <= Len(s) THEN p[i] ELSE q[i - Len(s)]
    BY <2>2, <2>3
  <2> QED
    BY <2>4 DEF p, q
<1> HIDE DEF u
<1>3. /\ IdSeq(s \o t) \in Seq(Nat) /\ Len(IdSeq(s \o t)) = Len(s) + Len(t)
      /\ \A i \in 1..(Len(s) + Len(t)) : IdSeq(s \o t)[i] = (s \o t)[i].id
  BY <1>1, IdSeqType
<1>4. \A i \in 1..(Len(s) + Len(t)) : IdSeq(s \o t)[i] = u[i]
  <2>1. SUFFICES ASSUME NEW i \in 1..(Len(s) + Len(t))
                 PROVE  IdSeq(s \o t)[i] = u[i]
    OBVIOUS
  <2>2. CASE i <= Len(s)
    <3>1. i \in 1..Len(s)
      BY <1>1, <2>2
    <3>2. IdSeq(s)[i] = s[i].id
      BY <3>1, IdSeqType
    <3> QED
      BY <1>1, <1>2, <1>3, <2>2, <3>2
  <2>3. CASE ~(i <= Len(s))
    <3>1. i - Len(s) \in 1..Len(t)
      BY <1>1, <2>3
    <3>2. IdSeq(t)[i - Len(s)] = t[i - Len(s)].id
      BY <3>1, IdSeqType
    <3> QED
      BY <1>1, <1>2, <1>3, <2>3, <3>2
  <2> QED
    BY <2>2, <2>3
<1>5. IdSeq(s \o t) = u
  BY <1>2, <1>3, <1>4, SeqEqual
<1> QED
  BY <1>5 DEF u

\* The ids of a sequence of one event.
LEMMA IdSeqOne ==
  ASSUME NEW e \in Events
  PROVE  IdSeq(<<e>>) = <<e.id>>
<1>1. <<e>> \in Seq(Events) /\ Len(<<e>>) = 1 /\ <<e>>[1] = e
  BY OneEvent
<1>2. IdSeq(<<e>>) \in Seq(Nat) /\ Len(IdSeq(<<e>>)) = 1 /\ IdSeq(<<e>>)[1] = e.id
  <2>1. 1 \in 1..Len(<<e>>)
    BY <1>1
  <2> QED
    BY <1>1, <2>1, IdSeqType
<1> DEFINE s == IdSeq(<<e>>)
<1> HIDE DEF s
<1>3. s \in Seq(Nat) /\ Len(s) = 1 /\ s[1] = e.id
  BY <1>2 DEF s
<1>4. s = <<s[1]>>
  BY <1>3
<1> QED
  BY <1>3, <1>4 DEF s

\* A concatenation, taken apart again.
LEMMA SplitConcat ==
  ASSUME NEW b \in Seq(Nat), NEW g \in Seq(Nat)
  PROVE  /\ SubSeq(b \o g, 1, Len(b)) = b
         /\ SubSeq(b \o g, Len(b) + 1, Len(b \o g)) = g
<1> DEFINE c == b \o g
           k == Len(b)
           l == Len(g)
<1>1. /\ c \in Seq(Nat) /\ k \in Nat /\ l \in Nat /\ Len(c) = k + l
      /\ \A i \in 1..(k + l) : c[i] = IF i <= k THEN b[i] ELSE g[i - k]
      /\ \A i \in 1..(k + l) : c[i] \in Nat
  BY ConcatProperties, LenProperties, ElementOfSeq
<1>2. SubSeq(c, 1, k) = b
  <2> DEFINE s == SubSeq(c, 1, k)
  <2>1. s \in Seq(Nat) /\ Len(s) = k /\ \A i \in 1..k : s[i] = c[i]
    <3> HIDE DEF c, k, l
    <3>1. \A i \in 1..k : c[i] \in Nat
      BY <1>1
    <3> QED
      BY <1>1, <3>1, SubSeqProperties
  <2> HIDE DEF s, c
  <2>2. \A i \in 1..k : s[i] = b[i]
    BY <1>1, <2>1
  <2>3. s = b
    BY <2>1, <2>2, SeqEqual
  <2> QED
    BY <2>3 DEF s
<1>3. SubSeq(c, k + 1, k + l) = g
  <2> DEFINE s == SubSeq(c, k + 1, k + l)
  <2>1. s \in Seq(Nat) /\ Len(s) = l /\ \A i \in 1..l : s[i] = c[k + i]
    <3> HIDE DEF c, k, l
    <3>1. \A i \in (k + 1)..(k + l) : c[i] \in Nat
      BY <1>1
    <3> QED
      BY <1>1, <3>1, SubSeqProperties
  <2> HIDE DEF s, c
  <2>2. \A i \in 1..l : s[i] = g[i]
    <3> HIDE DEF k, l
    <3>1. SUFFICES ASSUME NEW i \in 1..l PROVE c[k + i] = g[i]
      BY <2>1
    <3>2. k + i \in 1..(k + l) /\ ~(k + i <= k) /\ (k + i) - k = i
      BY <1>1
    <3> QED
      BY <1>1, <3>2
  <2>3. s = g
    BY <2>1, <2>2, SeqEqual
  <2> QED
    BY <2>3 DEF s
<1> QED
  BY <1>1, <1>2, <1>3

\* Sequences with the same ids have the same sequence of ids.
LEMMA IdSeqEqual ==
  ASSUME NEW s \in Seq(Events), NEW t \in Seq(Events), Len(t) = Len(s),
         \A i \in 1..Len(s) : t[i].id = s[i].id
  PROVE  IdSeq(t) = IdSeq(s)
<1>1. DOMAIN s = DOMAIN t /\ DOMAIN s = 1..Len(s)
  BY LenProperties
<1> QED
  BY <1>1 DEF IdSeq

\* What a step may not change for the log to see none.
LEMMA LogStutter ==
  ASSUME IdSeq(rows') = IdSeq(rows), IdSeq(batch' \o ingest') = IdSeq(batch \o ingest),
         flErr' = "store" <=> flErr = "store",
         flErr = "store" \/ (svcPC' = "returned" <=> svcPC = "returned")
  PROVE  UNCHANGED Log!vars
  BY DEF Log!vars

\* Init implies the initial state of the log.
LEMMA LogInit == Init => Log!Init
<1> SUFFICES ASSUME Init PROVE Log!Init
  OBVIOUS
<1>1. rows = <<>> /\ batch = <<>> /\ ingest = <<>> /\ flErr = "none" /\ svcPC = "wait"
  BY DEF Init, Src!Init, Col!Init, Fl!Init
<1>2. IdSeq(<<>>) = <<>> /\ <<>> \o <<>> = <<>>
  BY DEF IdSeq
<1> QED
  BY <1>1, <1>2 DEF Log!Init

\* The collector accepts events, in capture order.
LEMMA CollectorLog ==
  ASSUME IInv, FlowInv, Worker \/ CollectorRun
  PROVE  [Log!Next]_(Log!vars)
<1>1. UNCHANGED <<rows, batch, flErr, svcPC>>
  BY DEF Worker, CollectorRun, flVars, svcVars
<1>2. CASE Col!Forward
  <2> DEFINE e == Head(in)
             n == e.id
  <2>1. /\ in # <<>> /\ ingest' = Append(ingest, e) /\ colPC = "loop"
    BY <1>2 DEF Col!Forward
  <2>2. /\ in \in Seq(Events) /\ ingest \in Seq(Events) /\ batch \in Seq(Events)
        /\ rows \in Seq(Events) /\ e \in Events
    BY <2>1, Sequences, HeadTailProperties
  <2>3. n \in IdsOf(in) /\ n \in 1..MaxEvents
    BY <2>1, <2>2, IdsOfTail DEF Events
  <2>4. \A m \in IdsOf(rows) \cup IdsOf(batch) \cup IdsOf(ingest) : m < n
    BY <2>3 DEF FlowInv, OrderInv, Chain, Before
  <2> HIDE DEF e
  <2>5. /\ batch \o ingest \in Seq(Events)
        /\ IdsOf(batch \o ingest) = IdsOf(batch) \cup IdsOf(ingest)
    BY <2>2, ConcatProperties, IdsOfConcat
  <2>6. IdSeq(batch' \o ingest') = Append(IdSeq(batch \o ingest), n)
    <3>1. batch' \o ingest' = (batch \o ingest) \o <<e>>
      BY <1>1, <2>1, <2>2, AppendIsConcat, ConcatAssociative, OneEvent
    <3>2. IdSeq(batch' \o ingest') = IdSeq(batch \o ingest) \o IdSeq(<<e>>)
      BY <2>2, <2>5, <3>1, IdSeqConcat, OneEvent
    <3>3. IdSeq(<<e>>) = <<n>>
      BY <2>2, IdSeqOne DEF n
    <3>4. IdSeq(batch \o ingest) \in Seq(Nat) /\ n \in Nat
      <4>1. n \in Nat
        BY <2>3, EventsAssumption
      <4> QED
        BY <2>5, <4>1, IdSeqType
    <3>5. IdSeq(batch' \o ingest') = IdSeq(batch \o ingest) \o <<n>>
      BY <3>2, <3>3
    <3> HIDE DEF n
    <3> QED
      BY <3>4, <3>5, AppendIsConcat
  <2>7. \A m \in Log!Members(IdSeq(rows)) \cup Log!Members(IdSeq(batch \o ingest)) : m < n
    BY <2>2, <2>4, <2>5, IdSeqType DEF Log!Members
  <2>8. svcPC # "returned"
    BY <2>1 DEF IInv, ControlInv, ServiceInv
  <2> HIDE DEF n
  <2>9. Log!Accept(n)
    BY <1>1, <2>6, <2>7, <2>8 DEF Log!Accept
  <2> QED
    BY <2>3, <2>9 DEF Log!Next
<1>3. CASE UNCHANGED ingest
  BY <1>1, <1>3, LogStutter
<1> QED
  BY <1>2, <1>3 DEF Worker, CollectorRun, Col!Worker, Col!CloseIn, Col!ReportResult, Col!Run,
     Col!ObserveCancel, Col!Ignore, Col!Overflow, Col!CountDrop, Col!SeeClosed, Col!Finish

\* The flush loop makes the oldest accepted events durable, a batch at a time.
LEMMA FlushLog ==
  ASSUME IInv, FlowInv, FlushRun \/ Tick
  PROVE  [Log!Next]_(Log!vars)
<1>0. /\ rows \in Seq(Events) /\ batch \in Seq(Events) /\ ingest \in Seq(Events)
      /\ <<>> \in Seq(Events)
  BY Sequences, NoEvent
<1>1. svcPC' = svcPC
  BY DEF FlushRun, Tick
<1>2. flErr = "none" /\ svcPC # "returned"
  <2>1. flPC # "returned"
    BY DEF FlushRun, Tick, Fl!Run, Fl!Receive, Fl!Drain, Fl!DrainDone, Fl!SeeClosed,
           Fl!FlushEmpty, Fl!Stamp, Fl!Insert, Fl!InsertFails, Fl!Tick
  <2> QED
    BY <2>1 DEF IInv, ControlInv, FlushInv, ServiceInv
<1>3. CASE Fl!Receive \/ Fl!Drain
  <2> DEFINE e == Head(ingest)
             t == Tail(ingest)
  <2>1. /\ ingest # <<>> /\ batch' = Append(batch, e) /\ ingest' = t
        /\ rows' = rows /\ flErr' = flErr
    BY <1>3 DEF Fl!Receive, Fl!Drain, Fl!Take
  <2>2. e \in Events /\ t \in Seq(Events)
    BY <1>0, <2>1, HeadTailProperties
  <2>3. ingest = <<e>> \o t
    BY <1>0, <2>1
  <2> HIDE DEF e, t
  <2>4. <<e>> \in Seq(Events) /\ batch' = batch \o <<e>>
    BY <1>0, <2>1, <2>2, OneEvent, AppendIsConcat
  <2>5. batch' \o ingest' = batch \o ingest
    BY <1>0, <2>1, <2>2, <2>3, <2>4, ConcatAssociative
  <2> QED
    BY <1>1, <2>1, <2>5, LogStutter
<1>4. CASE Fl!Stamp
  <2>1. /\ rows' = rows /\ ingest' = ingest /\ flErr' = flErr
        /\ batch' \in Seq(Events)
        /\ Len(batch') = Len(batch) /\ \A i \in 1..Len(batch) : batch'[i].id = batch[i].id
    BY <1>4, StampedIds DEF Fl!Stamp
  <2>2. IdSeq(batch') = IdSeq(batch)
    BY <1>0, <2>1, IdSeqEqual
  <2>3. /\ IdSeq(batch' \o ingest) = IdSeq(batch') \o IdSeq(ingest)
        /\ IdSeq(batch \o ingest) = IdSeq(batch) \o IdSeq(ingest)
    BY <1>0, <2>1, IdSeqConcat
  <2>4. IdSeq(batch' \o ingest') = IdSeq(batch \o ingest)
    BY <2>1, <2>2, <2>3
  <2> QED
    BY <1>1, <2>1, <2>4, LogStutter
<1>5. CASE Fl!Insert
  <2>1. rows' = rows \o batch /\ batch' = <<>> /\ ingest' = ingest /\ flErr' # "store"
    BY <1>2, <1>5 DEF Fl!Insert, Fl!Flushed
  <2>2. batch' \o ingest' = ingest
    BY <1>0, <2>1, ConcatEmptySeq
  <2>3. CASE batch = <<>>
    <3>1. rows' = rows /\ batch' \o ingest' = batch \o ingest
      BY <1>0, <2>1, <2>3, ConcatEmptySeq
    <3> QED
      BY <1>1, <1>2, <2>1, <3>1, LogStutter
  <2>4. CASE batch # <<>>
    <3> DEFINE k == Len(batch)
               b == IdSeq(batch)
               g == IdSeq(ingest)
    <3>1. /\ b \in Seq(Nat) /\ g \in Seq(Nat) /\ Len(b) = k /\ Len(g) = Len(ingest)
          /\ IdSeq(batch \o ingest) = b \o g
          /\ IdSeq(rows') = IdSeq(rows) \o b
          /\ IdSeq(batch' \o ingest') = g
      BY <1>0, <2>1, <2>2, IdSeqType, IdSeqConcat
    <3>2. k \in Nat /\ k >= 1 /\ Len(g) \in Nat
      BY <1>0, <2>4, <3>1, EmptySeq, LenProperties
    <3> HIDE DEF k, b, g
    <3>3. Len(b \o g) = k + Len(g)
      BY <3>1, ConcatProperties
    <3>4. SubSeq(b \o g, 1, k) = b /\ SubSeq(b \o g, k + 1, Len(b \o g)) = g
      BY <3>1, SplitConcat
    <3>6. k \in 1..Len(b \o g)
      BY <3>2, <3>3
    <3>7. Log!Commit(k)
      BY <1>1, <1>2, <2>1, <3>1, <3>4 DEF Log!Commit
    <3>8. k \in 1..Len(IdSeq(batch \o ingest))
      BY <3>1, <3>6
    <3> QED
      BY <3>7, <3>8 DEF Log!Next
  <2> QED
    BY <2>3, <2>4
<1>6. CASE Fl!InsertFails
  <2>1. UNCHANGED <<rows, batch, ingest>> /\ flErr' = "store"
    BY <1>6 DEF Fl!InsertFails
  <2>2. Log!Fail
    BY <1>2, <2>1 DEF Log!Fail
  <2> QED
    BY <2>2 DEF Log!Next
<1>7. CASE Fl!Tick \/ Fl!DrainDone \/ Fl!SeeClosed \/ Fl!FlushEmpty
  <2>1. UNCHANGED <<rows, batch, ingest>> /\ flErr' # "store"
    BY <1>2, <1>7 DEF Fl!Tick, Fl!DrainDone, Fl!SeeClosed, Fl!FlushEmpty, Fl!Flushed
  <2> QED
    BY <1>1, <1>2, <2>1, LogStutter
<1> QED
  BY <1>3, <1>4, <1>5, <1>6, <1>7 DEF FlushRun, Tick, Fl!Run

\* The log stops when runWithSource returns and the flush loop did not fail.
LEMMA ServiceLog ==
  ASSUME IInv, Signal \/ Service
  PROVE  [Log!Next]_(Log!vars)
<1>1. UNCHANGED <<rows, batch, ingest, flErr>>
  BY DEF Signal, Service, WaitCancelled, WaitCollector, WaitFlush, JoinCollector,
         CloseIngest, JoinFlush, pipeline, flVars
<1>2. CASE svcPC # "returned" /\ svcPC' = "returned" /\ flErr # "store"
  <2>1. JoinFlush \/ (CloseIngest /\ flushDone)
    BY <1>2 DEF Signal, Service, WaitCancelled, WaitCollector, WaitFlush, JoinCollector,
                CloseIngest
  <2>2. JoinFlush
    BY <1>2, <2>1 DEF IInv, ControlInv, ServiceInv
  <2>3. flErr = "nil" /\ svcPC = "joinFlush"
    BY <1>2, <2>2 DEF JoinFlush, IInv, TypeOK, FlushTypeOK
  <2>4. batch = <<>> /\ ingest = <<>>
    BY <2>3 DEF IInv, ControlInv, FlushInv
  <2>5. IdSeq(batch \o ingest) = <<>>
    BY <2>4 DEF IdSeq
  <2>6. Log!Stop
    BY <1>1, <1>2, <2>5 DEF Log!Stop
  <2> QED
    BY <2>6 DEF Log!Next
<1>3. CASE flErr = "store" \/ (svcPC' = "returned" <=> svcPC = "returned")
  BY <1>1, <1>3, LogStutter
<1>4. svcPC = "returned" => svcPC' = "returned"
  BY DEF Signal, Service, WaitCancelled, WaitCollector, WaitFlush, JoinCollector,
         CloseIngest, JoinFlush
<1> QED
  BY <1>2, <1>3, <1>4

\* The kernel and the source are outside the log.
LEMMA UpstreamLog ==
  ASSUME Kernel \/ SourceFails \/ SourceRun \/ CloseReader \/ UNCHANGED vars
  PROVE  UNCHANGED Log!vars
<1>1. UNCHANGED <<rows, batch, ingest, flErr, svcPC>>
  BY DEF Kernel, SourceFails, SourceRun, CloseReader, flVars, svcVars, vars
<1> QED
  BY <1>1, LogStutter

\* The recorder is an append-only log of whole batches in capture order.
THEOREM Refinement == Spec => ImplementsEventLog
<1>1. IInv /\ FlowInv /\ [Next]_vars => [Log!Next]_(Log!vars)
  BY UpstreamLog, CollectorLog, FlushLog, ServiceLog DEF Next, Terminated
<1> QED
  BY <1>1, LogInit, Flows, PTL DEF Spec, ImplementsEventLog, Log!Spec


-----------------------------------------------------------------------------
(* What the dropped_before column adds up to.  SumDropped is a recursive   *)
(* function; what it returns is found by induction over the length, and    *)
(* the induction is a least counterexample: a set of numbers that holds 0  *)
(* and with every number the next one is Nat.                              *)

\* The order of the natural numbers, as a set of pairs, is well founded.
Less == {p \in Nat \X Nat : p[1] < p[2]}

LEMMA LessWellFounded == IsWellFoundedOn(Less, Nat)
<1>1. Less = OpToRel(<, Nat)
  BY DEF Less, OpToRel
<1> QED
  BY <1>1, NatLessThanWellFounded

\* A set of numbers that is not empty has a least one.
LEMMA LeastNumber ==
  ASSUME NEW T \in SUBSET Nat, T # {}
  PROVE  \E m \in T : \A n \in T : m <= n
<1>1. \E m \in T : \A n \in T : ~ (<<n, m>> \in Less)
  BY WFMin, LessWellFounded
<1>2. PICK m \in T : \A n \in T : ~ (<<n, m>> \in Less)
  BY <1>1
<1>3. \A n \in T : m <= n
  <2>1. SUFFICES ASSUME NEW n \in T PROVE m <= n
    OBVIOUS
  <2>2. ~ (<<n, m>> \in Less) /\ n \in Nat /\ m \in Nat
    BY <1>2
  <2>3. ~ (n < m)
    BY <2>2 DEF Less
  <2> QED
    BY <2>2, <2>3
<1> QED
  BY <1>3

\* Induction over the numbers of a set.
LEMMA Induction ==
  ASSUME NEW T \in SUBSET Nat, 0 \in T, \A n \in T : n + 1 \in T
  PROVE  T = Nat
<1>1. SUFFICES ASSUME Nat \ T # {} PROVE FALSE
  OBVIOUS
<1>2. PICK m \in Nat \ T : \A n \in Nat \ T : m <= n
  BY <1>1, LeastNumber
<1>3. m # 0 /\ m - 1 \in Nat
  BY <1>2
<1>4. m - 1 \in T
  BY <1>2, <1>3
<1> QED
  BY <1>2, <1>3, <1>4

\* f holds the sums over the first n events of s.
Sums(s, f, n) ==
    /\ f \in [0..n -> Int]
    /\ f[0] = 0
    /\ \A i \in 1..n : f[i] = f[i - 1] + s[i].dropped

\* There are such sums, up to every length.
LEMMA SumsExist ==
  ASSUME NEW s \in Seq(Events)
  PROVE  \E f : Sums(s, f, Len(s))
<1> DEFINE T == {n \in Nat : n <= Len(s) => \E f : Sums(s, f, n)}
<1>1. 0 \in T
  <2>1. Sums(s, [i \in 0..0 |-> 0], 0)
    BY DEF Sums
  <2> QED
    BY <2>1
<1>2. ASSUME NEW n \in T PROVE n + 1 \in T
  <2>1. SUFFICES ASSUME n + 1 <= Len(s) PROVE \E f : Sums(s, f, n + 1)
    OBVIOUS
  <2>2. PICK f : Sums(s, f, n)
    BY <2>1
  <2> DEFINE g == [i \in 0..(n + 1) |->
                     IF i = n + 1 THEN f[n] + s[n + 1].dropped ELSE f[i]]
  <2>3. s[n + 1].dropped \in Int
    <3>1. s[n + 1] \in Events
      BY <2>1, ElementOfSeq
    <3> QED
      BY <3>1 DEF Events
  <2>4. Sums(s, g, n + 1)
    <3>1. g \in [0..(n + 1) -> Int] /\ g[0] = 0
      BY <2>2, <2>3 DEF Sums
    <3>2. ASSUME NEW i \in 1..(n + 1) PROVE g[i] = g[i - 1] + s[i].dropped
      <4>1. /\ i \in 0..(n + 1) /\ i - 1 \in 0..(n + 1) /\ i - 1 # n + 1
            /\ i = n + 1 \/ i \in 1..n
        OBVIOUS
      <4>2. g[i - 1] = f[i - 1]
        BY <4>1
      <4>3. CASE i = n + 1
        BY <4>1, <4>2, <4>3
      <4>4. CASE i \in 1..n
        BY <2>2, <4>1, <4>2, <4>4 DEF Sums
      <4> QED
        BY <4>1, <4>3, <4>4
    <3> HIDE DEF g
    <3> QED
      BY <3>1, <3>2 DEF Sums
  <2> QED
    BY <2>4
<1> HIDE DEF T
<1>3. T = Nat
  BY <1>1, <1>2, Induction DEF T
<1> QED
  BY <1>3, LenProperties DEF T

\* SumDropped is the last of them.
LEMMA SumIs ==
  ASSUME NEW s \in Seq(Events), NEW f, Sums(s, f, Len(s))
  PROVE  SumDropped(s) = f[Len(s)] /\ SumDropped(s) \in Int
<1> DEFINE P(g) == g = [n \in 0..Len(s) |->
                          IF n = 0 THEN 0 ELSE g[n - 1] + s[n].dropped]
           h == CHOOSE g : P(g)
<1>1. P(f)
  BY LenProperties DEF Sums
<1>2. P(h)
  <2> HIDE DEF P
  <2> QED
    BY <1>1
<1>3. SumDropped(s) = h[Len(s)]
  BY DEF SumDropped
<1>4. h = f
  <2> DEFINE T == {n \in Nat : n <= Len(s) => h[n] = f[n]}
  <2>1. 0 \in T
    <3> HIDE DEF h
    <3> QED
      BY <1>1, <1>2, LenProperties
  <2>2. ASSUME NEW n \in T PROVE n + 1 \in T
    <3>1. SUFFICES ASSUME n + 1 <= Len(s) PROVE h[n + 1] = f[n + 1]
      OBVIOUS
    <3>2. /\ n + 1 \in 0..Len(s) /\ n + 1 # 0 /\ (n + 1) - 1 = n /\ h[n] = f[n]
      BY <3>1, LenProperties
    <3>3. h[n + 1] = h[n] + s[n + 1].dropped /\ f[n + 1] = f[n] + s[n + 1].dropped
      <4> HIDE DEF h
      <4> QED
        BY <1>1, <1>2, <3>2
    <3> QED
      BY <3>2, <3>3
  <2> HIDE DEF T
  <2>3. T = Nat
    BY <2>1, <2>2, Induction DEF T
  <2>4. \A n \in 0..Len(s) : h[n] = f[n]
    BY <2>3, LenProperties DEF T
  <2> HIDE DEF h
  <2>5. DOMAIN h = 0..Len(s) /\ h = [n \in DOMAIN h |-> h[n]]
    BY <1>2
  <2>6. DOMAIN f = 0..Len(s) /\ f = [n \in DOMAIN f |-> f[n]]
    BY <1>1
  <2> HIDE DEF P
  <2> QED
    BY <2>4, <2>5, <2>6
<1>5. f[Len(s)] \in Int
  BY LenProperties DEF Sums
<1> HIDE DEF h
<1> QED
  BY <1>3, <1>4, <1>5

-----------------------------------------------------------------------------
(* The sums of what the actions build.                                     *)

\* Nothing adds up to 0.
LEMMA SumEmpty == SumDropped(<<>>) = 0
<1>1. Sums(<<>>, [i \in 0..0 |-> 0], Len(<<>>))
  BY DEF Sums
<1> QED
  BY <1>1, SumIs, NoEvent

\* One event.
LEMMA SumOne ==
  ASSUME NEW e \in Events
  PROVE  SumDropped(<<e>>) = e.dropped
<1> DEFINE f == [i \in 0..1 |-> IF i = 0 THEN 0 ELSE e.dropped]
<1>1. <<e>> \in Seq(Events) /\ Len(<<e>>) = 1 /\ <<e>>[1] = e
  OBVIOUS
<1>2. e.dropped \in Int
  BY DEF Events
<1>3. Sums(<<e>>, f, 1)
  BY <1>1, <1>2 DEF Sums
<1>4. f[1] = e.dropped
  OBVIOUS
<1> QED
  BY <1>1, <1>3, <1>4, SumIs

\* One sequence after another.
LEMMA SumConcat ==
  ASSUME NEW s \in Seq(Events), NEW t \in Seq(Events)
  PROVE  SumDropped(s \o t) = SumDropped(s) + SumDropped(t)
<1>1. PICK f : Sums(s, f, Len(s))
  BY SumsExist
<1>2. PICK g : Sums(t, g, Len(t))
  BY SumsExist
<1> DEFINE h == [i \in 0..(Len(s) + Len(t)) |->
                   IF i <= Len(s) THEN f[i] ELSE f[Len(s)] + g[i - Len(s)]]
<1>3. /\ Len(s) \in Nat /\ Len(t) \in Nat
      /\ s \o t \in Seq(Events) /\ Len(s \o t) = Len(s) + Len(t)
      /\ \A i \in 1..Len(s) : (s \o t)[i] = s[i]
      /\ \A i \in 1..Len(t) : (s \o t)[Len(s) + i] = t[i]
  BY ConcatProperties, LenProperties
<1>4. h \in [0..(Len(s) + Len(t)) -> Int]
  <2>1. SUFFICES ASSUME NEW i \in 0..(Len(s) + Len(t)) PROVE h[i] \in Int
    OBVIOUS
  <2>2. CASE i <= Len(s)
    BY <1>1, <1>3, <2>2 DEF Sums
  <2>3. CASE ~ (i <= Len(s))
    <3>1. i - Len(s) \in 0..Len(t) /\ Len(s) \in 0..Len(s)
      BY <1>3, <2>3
    <3>2. f[Len(s)] \in Int /\ g[i - Len(s)] \in Int
      BY <1>1, <1>2, <3>1 DEF Sums
    <3> QED
      BY <2>3, <3>2
  <2> QED
    BY <2>2, <2>3
<1>5. ASSUME NEW i \in 1..(Len(s) + Len(t))
      PROVE  h[i] = h[i - 1] + (s \o t)[i].dropped
  <2>1. CASE i <= Len(s)
    <3>1. i \in 1..Len(s) /\ i - 1 \in 0..(Len(s) + Len(t)) /\ i - 1 <= Len(s)
      BY <1>3, <2>1
    <3>2. f[i] = f[i - 1] + s[i].dropped
      BY <1>1, <3>1 DEF Sums
    <3> QED
      BY <1>3, <2>1, <3>1, <3>2
  <2>2. CASE i = Len(s) + 1
    <3>1. 1 \in 1..Len(t) /\ i - Len(s) = 1 /\ i - 1 = Len(s)
      BY <1>3, <2>2
    <3>2. g[1] = g[0] + t[1].dropped /\ g[0] = 0 /\ 1 - 1 = 0 /\ g[1] \in Int
      BY <1>2, <3>1 DEF Sums
    <3>3. f[Len(s)] \in Int
      BY <1>1, <1>3 DEF Sums
    <3>4. (s \o t)[i] = t[1]
      BY <1>3, <2>2, <3>1
    <3>5. h[i] = f[Len(s)] + g[1] /\ h[i - 1] = f[Len(s)]
      BY <1>3, <2>2, <3>1
    <3>6. t[1].dropped \in Int
      <4>1. t[1] \in Events
        BY <3>1, ElementOfSeq
      <4> QED
        BY <4>1 DEF Events
    <3> HIDE DEF h
    <3>7. g[1] = t[1].dropped
      BY <3>2, <3>6
    <3> QED
      BY <3>3, <3>4, <3>5, <3>7
  <2>3. CASE i > Len(s) + 1
    <3> DEFINE k == i - Len(s)
    <3>1. k \in 1..Len(t) /\ k - 1 \in 0..Len(t) /\ k \in 0..Len(t)
          /\ (i - 1) - Len(s) = k - 1 /\ i = Len(s) + k
          /\ i - 1 \in 0..(Len(s) + Len(t)) /\ ~ (i - 1 <= Len(s))
      BY <1>3, <2>3
    <3>2. g[k] = g[k - 1] + t[k].dropped /\ g[k] \in Int /\ g[k - 1] \in Int
      BY <1>2, <3>1 DEF Sums
    <3>3. f[Len(s)] \in Int
      BY <1>1, <1>3 DEF Sums
    <3>4. (s \o t)[i] = t[k]
      BY <1>3, <3>1
    <3>5. h[i] = f[Len(s)] + g[k] /\ h[i - 1] = f[Len(s)] + g[k - 1]
      BY <1>3, <2>3, <3>1
    <3>6. t[k].dropped \in Int
      <4>1. t[k] \in Events
        BY <3>1, ElementOfSeq
      <4> QED
        BY <4>1 DEF Events
    <3> HIDE DEF k, h
    <3>7. h[i] = h[i - 1] + t[k].dropped
      BY <3>2, <3>3, <3>5, <3>6
    <3> QED
      BY <3>4, <3>7
  <2> QED
    BY <1>3, <2>1, <2>2, <2>3
<1>6. h[0] = 0
  BY <1>1, <1>3 DEF Sums
<1>7. Sums(s \o t, h, Len(s \o t))
  <2> HIDE DEF h
  <2> QED
    BY <1>3, <1>4, <1>5, <1>6 DEF Sums
<1>8. h[Len(s) + Len(t)] = f[Len(s)] + g[Len(t)]
  <2>1. CASE Len(t) = 0
    BY <1>1, <1>2, <1>3, <2>1 DEF Sums
  <2>2. CASE Len(t) # 0
    <3>1. ~ (Len(s) + Len(t) <= Len(s)) /\ (Len(s) + Len(t)) - Len(s) = Len(t)
      BY <1>3, <2>2
    <3> QED
      BY <1>3, <3>1
  <2> QED
    BY <2>1, <2>2
<1> HIDE DEF h
<1>9. SumDropped(s \o t) = h[Len(s) + Len(t)]
  BY <1>3, <1>7, SumIs
<1> QED
  BY <1>1, <1>2, <1>8, <1>9, SumIs

\* Every sequence of events has a sum.
LEMMA SumType ==
  ASSUME NEW s \in Seq(Events)
  PROVE  SumDropped(s) \in Int
  BY SumsExist, SumIs

\* An event that is appended adds what it carries.
LEMMA SumAppend ==
  ASSUME NEW s \in Seq(Events), NEW e \in Events
  PROVE  SumDropped(Append(s, e)) = SumDropped(s) + e.dropped
<1>1. Append(s, e) = s \o <<e>> /\ <<e>> \in Seq(Events)
  BY AppendIsConcat
<1> QED
  BY <1>1, SumConcat, SumOne

\* An event that is taken from the head takes what it carries.
LEMMA SumTail ==
  ASSUME NEW s \in Seq(Events), s # <<>>
  PROVE  SumDropped(s) = Head(s).dropped + SumDropped(Tail(s))
<1>1. /\ Len(s) \in Nat /\ Len(s) >= 1 /\ Head(s) = s[1] /\ Head(s) \in Events
      /\ Tail(s) \in Seq(Events) /\ Len(Tail(s)) = Len(s) - 1
      /\ \A i \in 1..(Len(s) - 1) : Tail(s)[i] = s[i + 1]
  BY HeadTailProperties, LenProperties, EmptySeq
<1>2. <<Head(s)>> \in Seq(Events) /\ Len(<<Head(s)>>) = 1 /\ <<Head(s)>>[1] = s[1]
  BY <1>1
<1> DEFINE t == <<Head(s)>> \o Tail(s)
<1>3. /\ t \in Seq(Events) /\ Len(t) = Len(s) /\ t[1] = s[1]
      /\ \A i \in 1..(Len(s) - 1) : t[1 + i] = s[i + 1]
  BY <1>1, <1>2, ConcatProperties
<1>4. \A i \in 1..Len(s) : i = 1 \/ (i - 1 \in 1..(Len(s) - 1) /\ 1 + (i - 1) = i)
  BY <1>1
<1>5. \A i \in 1..Len(s) : t[i] = s[i]
  <2> HIDE DEF t
  <2> QED
    BY <1>3, <1>4
<1>6. t = s
  <2> HIDE DEF t
  <2> QED
    BY <1>3, <1>5, SeqEqual
<1> QED
  BY <1>1, <1>2, <1>6, SumConcat, SumOne

\* Stamping the first event changes the sum by what it adds.
LEMMA SumStamped ==
  ASSUME NEW s \in Seq(Events), s # <<>>, NEW n \in Int
  PROVE  SumDropped([s EXCEPT ![1].dropped = n])
            = SumDropped(s) - s[1].dropped + n
<1> DEFINE t == [s EXCEPT ![1].dropped = n]
           ev == [s[1] EXCEPT !.dropped = n]
<1>1. /\ Len(s) \in Nat /\ Len(s) >= 1 /\ s[1] \in Events /\ Head(s) = s[1]
      /\ Tail(s) \in Seq(Events) /\ Len(Tail(s)) = Len(s) - 1
      /\ \A i \in 1..(Len(s) - 1) : Tail(s)[i] = s[i + 1]
  BY HeadTailProperties, EmptySeq, LenProperties, ElementOfSeq
<1>2. ev \in Events /\ ev.dropped = n /\ s[1].dropped \in Int
  BY <1>1, StampedType DEF Events
<1>3. t \in Seq(Events) /\ Len(t) = Len(s) /\ t = [s EXCEPT ![1] = ev]
  BY <1>1, <1>2, ExceptSeq
<1>4. t[1] = ev /\ \A i \in 2..Len(s) : t[i] = s[i]
  BY <1>1, <1>3, ExceptSeq
<1>5. /\ t # <<>> /\ Head(t) = t[1] /\ Tail(t) \in Seq(Events)
      /\ Len(Tail(t)) = Len(s) - 1
      /\ \A i \in 1..(Len(s) - 1) : Tail(t)[i] = t[i + 1]
  BY <1>1, <1>3, HeadTailProperties, EmptySeq
<1>6. Tail(t) = Tail(s)
  <2>1. \A i \in 1..(Len(s) - 1) : Tail(t)[i] = Tail(s)[i]
    BY <1>1, <1>4, <1>5
  <2> HIDE DEF t
  <2> QED
    BY <1>1, <1>5, <2>1, SeqEqual
<1>7. SumDropped(t) = Head(t).dropped + SumDropped(Tail(t))
  <2> HIDE DEF t
  <2> QED
    BY <1>3, <1>5, SumTail
<1>8. SumDropped(s) = Head(s).dropped + SumDropped(Tail(s))
  BY SumTail
<1>9. SumDropped(Tail(s)) \in Int
  BY <1>1, SumType
<1>10. Head(t).dropped = n /\ Head(s).dropped = s[1].dropped
  <2> HIDE DEF t, ev
  <2> QED
    BY <1>1, <1>2, <1>4, <1>5
<1>11. SumDropped(t) = n + SumDropped(Tail(s))
  <2> HIDE DEF t
  <2> QED
    BY <1>6, <1>7, <1>10
<1> HIDE DEF t
<1>12. SumDropped(t) = SumDropped(s) - s[1].dropped + n
  BY <1>2, <1>8, <1>9, <1>10, <1>11
<1> QED
  BY <1>12 DEF t

\* What is never negative does not add up to less than 0.
LEMMA SumNotNegative ==
  ASSUME NEW s \in Seq(Events), NoneNegative(s)
  PROVE  SumDropped(s) >= 0
<1>1. PICK f : Sums(s, f, Len(s))
  BY SumsExist
<1> DEFINE T == {n \in Nat : n <= Len(s) => f[n] >= 0}
<1>2. 0 \in T
  BY <1>1 DEF Sums
<1>3. ASSUME NEW n \in T PROVE n + 1 \in T
  <2>1. SUFFICES ASSUME n + 1 <= Len(s) PROVE f[n + 1] >= 0
    OBVIOUS
  <2>2. n + 1 \in 1..Len(s) /\ n \in 0..Len(s) /\ (n + 1) - 1 = n /\ f[n] >= 0
    BY <2>1, LenProperties
  <2>3. s[n + 1].dropped >= 0 /\ s[n + 1].dropped \in Int
    <3>1. s[n + 1] \in Events
      BY <2>2, ElementOfSeq
    <3> QED
      BY <2>2, <3>1, LenProperties DEF NoneNegative, Events
  <2>4. f[n + 1] = f[n] + s[n + 1].dropped /\ f[n] \in Int
    BY <1>1, <2>2 DEF Sums
  <2> QED
    BY <2>2, <2>3, <2>4
<1> HIDE DEF T
<1>4. T = Nat
  BY <1>2, <1>3, Induction DEF T
<1> QED
  BY <1>1, <1>4, SumIs, LenProperties DEF T

-----------------------------------------------------------------------------
(* The column invariant.                                                   *)

\* No delta is too large for a signed integer.
LEMMA DeltaIs ==
  ASSUME IInv, lastKernelDropped <= MaxEvents, NEW total \in 0..MaxEvents
  PROVE  Src!DropDelta(total) = total - lastKernelDropped
<1> DEFINE d == total - lastKernelDropped
<1>1. /\ MaxEvents \in Nat /\ Word \in Nat /\ 2 * MaxEvents < Word
      /\ lastKernelDropped \in Nat
  BY EventsAssumption, KernelAssumption, WordAssumption
  DEF IInv, TypeOK, CaptureTypeOK
<1>2. d \in Int /\ 0 - MaxEvents <= d /\ d <= MaxEvents
  BY <1>1
<1> HIDE DEF d
<1>3. CASE d >= 0
  <2>1. d % Word = d
    BY <1>1, <1>2, <1>3
  <2> QED
    BY <1>1, <1>2, <1>3, <2>1 DEF Src!DropDelta, Src!AsInt64, d
<1>4. CASE d < 0
  <2>1. d % Word = d + Word
    BY <1>1, <1>2, <1>4
  <2> QED
    BY <1>1, <1>2, <1>4, <2>1 DEF Src!DropDelta, Src!AsInt64, d
<1> QED
  BY <1>2, <1>3, <1>4

\* The counter of the ring counts events that were lost there.
LEMMA FewDrops ==
  ASSUME IInv, FlowInv
  PROVE  ringDrops <= MaxEvents
<1>1. ringLost \subseteq 1..MaxEvents /\ Cardinality(ringLost) = ringDrops
  BY DEF IInv, TypeOK, CaptureTypeOK, EventIds, FlowInv, LossInv, CountersMatchLosses
<1>2. IsFiniteSet(1..MaxEvents) /\ Cardinality(1..MaxEvents) = MaxEvents
  BY FS_Interval, EventsAssumption
<1> QED
  BY <1>1, <1>2, FS_Subset

\* The sums of the five places and the counters are numbers.
LEMMA Numbers ==
  ASSUME IInv
  PROVE  /\ SumDropped(rows) \in Int /\ SumDropped(batch) \in Int
         /\ SumDropped(ingest) \in Int /\ SumDropped(in) \in Int
         /\ SumDropped(hand) \in Int
         /\ lastKernelDropped \in Nat /\ lastDropped \in Nat
         /\ ringDrops \in Nat /\ dropped \in Nat
  BY Sequences, SumType DEF IInv, TypeOK, CaptureTypeOK, FlushTypeOK

\* As long as no carrier was discarded the collector has dropped nothing, and
\* the channel from the source holds nothing that it will ignore.
LEMMA NothingGone ==
  ASSUME IInv, FlowInv, NothingDiscarded
  PROVE  /\ dropped = 0 /\ lastDropped = 0 /\ colPC # "count"
         /\ in # <<>> => KindOf[Head(in).id] # "ignored"
<1>1. Cardinality(overflow) = 0
  BY FS_EmptySet DEF NothingDiscarded
<1>2. dropped = 0 /\ colPC # "count" /\ lastDropped = 0
  BY <1>1
  DEF IInv, TypeOK, CollectorTypeOK, FlushTypeOK, ControlInv, OverflowInv,
      FlowInv, LossInv, CountersMatchLosses
<1>3. ASSUME in # <<>> PROVE KindOf[Head(in).id] # "ignored"
  <2>1. Head(in).id \in IdsOf(in)
    BY <1>3, Sequences, IdsOfTail
  <2>2. Head(in).id \in 1..emitted
    BY <2>1 DEF FlowInv, OrderInv, InFlow
  <2> QED
    BY <2>2 DEF NothingDiscarded
<1> QED
  BY <1>2, <1>3

\* What was discarded stays discarded.
LEMMA Discarded ==
  ASSUME IInv, [Next]_vars, NothingDiscarded'
  PROVE  NothingDiscarded
<1>1. overflow \subseteq overflow' /\ abandoned \subseteq abandoned'
  BY DEF Next, Terminated, vars, kernelVars, srcVars, colVars, flVars, svcVars,
         Kernel, SourceFails, SourceRun, CloseReader, Src!Kernel, Src!Fail,
         Src!Run, Src!Submit, Src!ReserveFails, Src!SetupFails, Src!ReadFails,
         Src!Attach, Src!OpenReader, Src!ReadRecord, Src!SkipMalformed,
         Src!ReadClosed, Src!SampleDrops, Src!Send, Src!SendCancelled,
         Src!CloseReader, Src!runVars, Src!kernelVars, Worker, CollectorRun,
         sourceLocal, Col!Worker, Col!Run, Col!CloseIn, Col!ReportResult,
         Col!ObserveCancel, Col!Ignore, Col!Forward, Col!Overflow,
         Col!CountDrop, Col!SeeClosed, Col!Finish, FlushRun, Tick, upstream,
         Signal, Service, WaitCancelled, WaitCollector, WaitFlush,
         JoinCollector, CloseIngest, JoinFlush, pipeline, Fl!Run, Fl!Tick
<1>2. emitted \in Nat /\ emitted' \in Nat /\ emitted <= emitted'
  <2>1. emitted' = emitted \/ emitted' = emitted + 1
    BY DEF Next, Terminated, vars, kernelVars, srcVars, Kernel, SourceFails,
           SourceRun, CloseReader, Src!Kernel, Src!Fail, Src!Run, Src!Submit,
           Src!ReserveFails, Src!SetupFails, Src!ReadFails, Src!Attach,
           Src!OpenReader, Src!ReadRecord, Src!SkipMalformed, Src!ReadClosed,
           Src!SampleDrops, Src!Send, Src!SendCancelled, Src!CloseReader,
           Src!kernelVars, Worker, CollectorRun, FlushRun, Tick, upstream,
           Signal, Service, WaitCancelled, WaitCollector, WaitFlush,
           JoinCollector, CloseIngest, JoinFlush, pipeline
  <2> QED
    BY <2>1, Sequences
<1> QED
  BY <1>1, <1>2 DEF NothingDiscarded

\* DropInv holds at the start.
LEMMA DropInit == Init => DropInv
<1> SUFFICES ASSUME Init PROVE DropInv
  OBVIOUS
<1>1. /\ rows = <<>> /\ batch = <<>> /\ ingest = <<>> /\ in = <<>> /\ hand = <<>>
      /\ ring = <<>> /\ lastKernelDropped = 0 /\ lastDropped = 0 /\ ringDrops = 0
      /\ srcPC = "setup"
  BY DEF Init, Src!Init, Col!Init, Fl!Init
<1> QED
  BY <1>1, SumEmpty DEF DropInv, NoneNegative, Carried

\* A step that moves no event and takes no delta.
LEMMA DropStill ==
  ASSUME DropInv, NothingDiscarded' => NothingDiscarded,
         UNCHANGED <<rows, batch, ingest, in, hand, ring, lastKernelDropped,
                     lastDropped, ringDrops>>,
         srcPC' = "sample" => srcPC = "sample"
  PROVE  DropInv'
  BY DEF DropInv, Carried, NoneNegative

\* What is never negative stays so when an event moves.
LEMMA NotNegativeMoves ==
  ASSUME NEW s \in Seq(Events), NoneNegative(s)
  PROVE  /\ s # <<>> => Head(s).dropped >= 0 /\ NoneNegative(Tail(s))
         /\ \A e \in Events : e.dropped >= 0 => NoneNegative(Append(s, e))
         /\ \A t \in Seq(Events) : NoneNegative(t) => NoneNegative(s \o t)
<1>1. ASSUME s # <<>> PROVE Head(s).dropped >= 0 /\ NoneNegative(Tail(s))
  <2>1. /\ Len(s) \in Nat /\ Len(s) >= 1 /\ DOMAIN s = 1..Len(s) /\ Head(s) = s[1]
        /\ DOMAIN Tail(s) = 1..(Len(s) - 1)
        /\ \A i \in 1..(Len(s) - 1) : Tail(s)[i] = s[i + 1]
    BY <1>1, LenProperties, HeadTailProperties, EmptySeq
  <2>2. \A i \in 1..(Len(s) - 1) : i + 1 \in 1..Len(s)
    BY <2>1
  <2> QED
    BY <2>1, <2>2 DEF NoneNegative
<1>2. ASSUME NEW e \in Events, e.dropped >= 0 PROVE NoneNegative(Append(s, e))
  <2>1. /\ Len(s) \in Nat /\ DOMAIN s = 1..Len(s)
        /\ DOMAIN Append(s, e) = 1..(Len(s) + 1)
        /\ Append(s, e)[Len(s) + 1] = e
        /\ \A i \in 1..Len(s) : Append(s, e)[i] = s[i]
    BY LenProperties, AppendProperties
  <2> QED
    BY <1>2, <2>1 DEF NoneNegative
<1>3. ASSUME NEW t \in Seq(Events), NoneNegative(t) PROVE NoneNegative(s \o t)
  <2>1. /\ Len(s) \in Nat /\ Len(t) \in Nat
        /\ DOMAIN s = 1..Len(s) /\ DOMAIN t = 1..Len(t)
        /\ DOMAIN (s \o t) = 1..(Len(s) + Len(t))
        /\ \A i \in 1..Len(s) : (s \o t)[i] = s[i]
        /\ \A i \in 1..Len(t) : (s \o t)[Len(s) + i] = t[i]
    BY LenProperties, ConcatProperties
  <2>2. \A i \in 1..(Len(s) + Len(t)) :
           i \in 1..Len(s) \/ (i - Len(s) \in 1..Len(t) /\ i = Len(s) + (i - Len(s)))
    BY <2>1
  <2>3. \A i \in 1..(Len(s) + Len(t)) : (s \o t)[i].dropped >= 0
    BY <1>3, <2>1, <2>2 DEF NoneNegative
  <2> QED
    BY <2>1, <2>3 DEF NoneNegative
<1> QED
  BY <1>1, <1>2, <1>3

\* A single event, and none.
LEMMA NotNegativeOne ==
  /\ NoneNegative(<<>>)
  /\ \A e \in Events : e.dropped >= 0 => NoneNegative(<<e>>)
  BY DEF NoneNegative

\* The kernel puts unstamped events in the ring, and a loss only raises its
\* counter.
LEMMA KernelDrop ==
  ASSUME IInv, DropInv, NothingDiscarded' => NothingDiscarded, Kernel
  PROVE  DropInv'
<1>1. UNCHANGED <<rows, batch, ingest, in, hand, lastKernelDropped, lastDropped, srcPC>>
  BY DEF Kernel, Src!Kernel, Src!Submit, Src!ReserveFails, flVars, Src!runVars
<1>2. ringDrops' \in Nat /\ ringDrops <= ringDrops'
  BY Numbers DEF Kernel, Src!Kernel, Src!Submit, Src!ReserveFails
<1>3. \A i \in DOMAIN ring' : ring'[i].dropped = 0
  <2>1. CASE Src!Submit
    <3> DEFINE e == Src!Event(emitted + 1)
    <3>1. e.dropped = 0 /\ ring' = Append(ring, e) /\ ring \in Seq(Events)
      BY <2>1, Sequences DEF Src!Submit, Src!Event
    <3> HIDE DEF e
    <3>2. /\ Len(ring) \in Nat /\ DOMAIN ring = 1..Len(ring)
          /\ DOMAIN ring' = 1..(Len(ring) + 1) /\ ring'[Len(ring) + 1] = e
          /\ \A i \in 1..Len(ring) : ring'[i] = ring[i]
      BY <3>1, LenProperties, AppendProperties
    <3> QED
      BY <3>1, <3>2 DEF DropInv
  <2>2. CASE Src!ReserveFails
    BY <2>2 DEF Src!ReserveFails, DropInv
  <2> QED
    BY <2>1, <2>2 DEF Kernel, Src!Kernel
<1> QED
  BY <1>1, <1>2, <1>3, Numbers DEF DropInv, Carried, NoneNegative

\* The source: a record carries nothing until the sample, which moves the delta
\* from the counter to the event, and what a cancelled send loses is discarded.
LEMMA SourceDrop ==
  ASSUME IInv, FlowInv, DropInv, NothingDiscarded' => NothingDiscarded,
         SourceFails \/ SourceRun \/ CloseReader
  PROVE  DropInv'
<1>1. UNCHANGED <<rows, batch, ingest, lastDropped>>
  BY DEF SourceFails, SourceRun, CloseReader, flVars
<1>2. CASE Src!Fail \/ Src!CloseReader \/ Src!Attach \/ Src!OpenReader \/ Src!ReadClosed
  <2>1. /\ UNCHANGED <<in, hand, ring, lastKernelDropped, ringDrops>>
        /\ srcPC' = "sample" => srcPC = "sample"
    BY <1>2
    DEF Src!Fail, Src!SetupFails, Src!ReadFails, Src!CloseReader, Src!Attach,
        Src!OpenReader, Src!ReadClosed, Src!Return, Src!kernelVars
  <2> QED
    BY <1>1, <2>1, DropStill
<1>3. CASE Src!ReadRecord
  <2>1. /\ hand = <<>> /\ ring # <<>> /\ ring' = Tail(ring) /\ hand' = <<Head(ring)>>
        /\ UNCHANGED <<in, lastKernelDropped, ringDrops>>
    BY <1>3, Sequences, EmptySeq DEF Src!ReadRecord, IInv, TypeOK, CaptureTypeOK
  <2>2. /\ Head(ring) \in Events /\ Head(ring).dropped = 0
        /\ \A i \in DOMAIN ring' : ring'[i].dropped = 0
    <3>1. /\ Len(ring) \in Nat /\ Len(ring) >= 1 /\ DOMAIN ring = 1..Len(ring)
          /\ Head(ring) = ring[1] /\ Head(ring) \in Events
          /\ DOMAIN ring' = 1..(Len(ring) - 1)
          /\ \A i \in 1..(Len(ring) - 1) : ring'[i] = ring[i + 1]
      BY <2>1, Sequences, LenProperties, HeadTailProperties, EmptySeq
    <3>2. \A i \in 1..(Len(ring) - 1) : i + 1 \in 1..Len(ring)
      BY <3>1
    <3> QED
      BY <3>1, <3>2 DEF DropInv
  <2>3. SumDropped(hand) = 0 /\ SumDropped(hand') = 0 /\ hand'[1].dropped = 0
    BY <2>1, <2>2, SumEmpty, SumOne
  <2>4. NoneNegative(hand')
    BY <2>1, <2>2, NotNegativeOne
  <2>5. Carried' = Carried
    BY <1>1, <2>1, <2>3, Numbers DEF Carried
  <2> QED
    BY <1>1, <2>1, <2>2, <2>3, <2>4, <2>5 DEF DropInv
<1>4. CASE Src!SkipMalformed
  <2>1. /\ ring # <<>> /\ ring' = Tail(ring) /\ srcPC' = srcPC
        /\ UNCHANGED <<in, hand, lastKernelDropped, ringDrops>>
    BY <1>4 DEF Src!SkipMalformed, Src!runVars
  <2>2. \A i \in DOMAIN ring' : ring'[i].dropped = 0
    <3>1. /\ Len(ring) \in Nat /\ Len(ring) >= 1 /\ DOMAIN ring = 1..Len(ring)
          /\ DOMAIN ring' = 1..(Len(ring) - 1)
          /\ \A i \in 1..(Len(ring) - 1) : ring'[i] = ring[i + 1]
      BY <2>1, Sequences, LenProperties, HeadTailProperties, EmptySeq
    <3>2. \A i \in 1..(Len(ring) - 1) : i + 1 \in 1..Len(ring)
      BY <3>1
    <3> QED
      BY <3>1, <3>2 DEF DropInv
  <2> QED
    BY <1>1, <2>1, <2>2 DEF DropInv, Carried, NoneNegative
<1>5. CASE Src!SampleDrops
  <2>1. PICK total \in Src!SampledTotals :
           /\ hand' = <<[hand[1] EXCEPT !.dropped = Src!DropDelta(total)]>>
           /\ lastKernelDropped' = total
    BY <1>5 DEF Src!SampleDrops
  <2>2. /\ srcPC = "sample" /\ srcPC' = "send"
        /\ UNCHANGED <<in, ring, ringDrops>>
    BY <1>5 DEF Src!SampleDrops, Src!kernelVars
  <2>3. /\ hand \in Seq(Events) /\ Len(hand) = 1 /\ hand[1] \in Events
        /\ hand[1].dropped = 0
    <3>1. hand \in Seq(Events) /\ Len(hand) = 1
      BY <2>2 DEF IInv, TypeOK, CaptureTypeOK
    <3> QED
      BY <2>2, <3>1, ElementOfSeq DEF DropInv
  <2>4. SumDropped(hand) = 0
    <3>1. hand = <<hand[1]>>
      BY <2>3
    <3> QED
      BY <2>3, <3>1, SumOne
  <2>5. /\ total \in 0..MaxEvents /\ total <= ringDrops
        /\ lastKernelDropped <= MaxEvents
        /\ LookupMayFail \/ total = ringDrops
    BY FewDrops, Numbers, EventsAssumption, KernelAssumption
    DEF Src!SampledTotals, DropInv
  <2> DEFINE d == total - lastKernelDropped
             ev == [hand[1] EXCEPT !.dropped = d]
  <2>6. Src!DropDelta(total) = d /\ d \in Int
    BY <2>5, DeltaIs, Numbers
  <2>7. ev \in Events /\ ev.dropped = d /\ hand' = <<ev>>
    <3>1. ev \in Events
      BY <2>3, <2>6, StampedType
    <3> QED
      BY <2>1, <2>3, <2>6, <3>1 DEF Events
  <2>8. SumDropped(hand') = d
    <3> HIDE DEF ev, d
    <3> QED
      BY <2>7, SumOne
  <2>9. LookupMayFail \/ (d >= 0 /\ NoneNegative(hand'))
    <3>1. LookupMayFail \/ d >= 0
      BY <2>5, Numbers DEF DropInv
    <3> HIDE DEF ev, d
    <3> QED
      BY <2>7, <3>1, NotNegativeOne
  <2>10. /\ Carried \in Int
         /\ Carried' = Carried + d
         /\ lastKernelDropped' + lastDropped' = (lastKernelDropped + lastDropped) + d
    BY <1>1, <2>1, <2>2, <2>4, <2>5, <2>8, Numbers DEF Carried
  <2>11. lastKernelDropped + lastDropped \in Int /\ d \in Int
    BY <2>6, Numbers
  <2> HIDE DEF ev, d
  <2>12. /\ Carried <= lastKernelDropped + lastDropped
               => Carried' <= lastKernelDropped' + lastDropped'
         /\ Carried = lastKernelDropped + lastDropped
               => Carried' = lastKernelDropped' + lastDropped'
    BY <2>10, <2>11
  <2>13. /\ \A i \in DOMAIN ring' : ring'[i].dropped = 0
         /\ lastKernelDropped' <= ringDrops'
         /\ srcPC' # "sample"
    BY <2>1, <2>2, <2>5 DEF DropInv
  <2>14. LookupMayFail \/
           /\ NoneNegative(rows') /\ NoneNegative(batch') /\ NoneNegative(ingest')
           /\ NoneNegative(in') /\ NoneNegative(hand')
           /\ Carried' <= lastKernelDropped' + lastDropped'
    BY <1>1, <2>2, <2>9, <2>12 DEF DropInv
  <2>15. NothingDiscarded' => Carried' = lastKernelDropped' + lastDropped'
    BY <2>12 DEF DropInv
  <2> QED
    BY <2>13, <2>14, <2>15 DEF DropInv, NoneNegative
<1>6. CASE Src!Send
  <2>1. /\ in' = in \o hand /\ hand' = <<>> /\ srcPC' = "read"
        /\ UNCHANGED <<ring, ringDrops, lastKernelDropped>>
    BY <1>6 DEF Src!Send, Src!kernelVars
  <2>2. Carried' = Carried
    <3>1. SumDropped(in') = SumDropped(in) + SumDropped(hand) /\ SumDropped(hand') = 0
      BY <2>1, Sequences, SumConcat, SumEmpty
    <3>2. Carried' = SumDropped(rows) + SumDropped(batch) + SumDropped(ingest)
                       + SumDropped(in') + SumDropped(hand')
      BY <1>1 DEF Carried
    <3> QED
      BY <3>1, <3>2, Numbers DEF Carried
  <2>3. NoneNegative(in) /\ NoneNegative(hand) => NoneNegative(in') /\ NoneNegative(hand')
    BY <2>1, Sequences, NotNegativeMoves, NotNegativeOne
  <2> QED
    BY <1>1, <2>1, <2>2, <2>3 DEF DropInv
<1>7. CASE Src!SendCancelled
  <2>1. /\ hand' = <<>> /\ srcPC' = "returned" /\ abandoned' # {}
        /\ UNCHANGED <<in, ring, ringDrops, lastKernelDropped>>
    BY <1>7 DEF Src!SendCancelled, Src!Return, Src!kernelVars
  <2>2. ~ NothingDiscarded'
    BY <2>1 DEF NothingDiscarded
  <2>3. NoneNegative(hand) => SumDropped(hand) >= 0
    BY Sequences, SumNotNegative
  <2>4. NoneNegative(hand) => Carried' <= Carried /\ Carried' \in Int /\ Carried \in Int
    BY <1>1, <2>1, <2>3, Numbers, SumEmpty DEF Carried
  <2>5. lastKernelDropped + lastDropped \in Int
    BY Numbers
  <2> QED
    BY <1>1, <2>1, <2>2, <2>4, <2>5, NotNegativeOne DEF DropInv
<1> QED
  BY <1>2, <1>3, <1>4, <1>5, <1>6, <1>7
  DEF SourceFails, SourceRun, CloseReader, Src!Run

\* The collector: forwarding moves what the event carries, and an event that is
\* ignored or turned away is discarded with it.
LEMMA CollectorDrop ==
  ASSUME IInv, FlowInv, DropInv, NothingDiscarded' => NothingDiscarded,
         Worker \/ CollectorRun
  PROVE  DropInv'
<1>1. UNCHANGED <<rows, batch, hand, ring, ringDrops, lastKernelDropped, lastDropped>>
  BY DEF Worker, CollectorRun, kernelVars, sourceLocal, flVars
<1>2. srcPC' = "sample" => srcPC = "sample"
  BY DEF Worker, CollectorRun, Col!Worker, Col!Run, Col!CloseIn, Col!ReportResult,
         Col!ObserveCancel, Col!Ignore, Col!Forward, Col!Overflow, Col!CountDrop,
         Col!SeeClosed, Col!Finish
<1>3. CASE UNCHANGED <<in, ingest>>
  BY <1>1, <1>2, <1>3, DropStill
<1>4. CASE Col!Forward
  <2>1. /\ in # <<>> /\ in' = Tail(in) /\ ingest' = Append(ingest, Head(in))
        /\ Head(in) \in Events /\ Tail(in) \in Seq(Events)
    BY <1>4, Sequences, HeadTailProperties DEF Col!Forward
  <2>2. Carried' = Carried
    <3>1. /\ SumDropped(ingest') = SumDropped(ingest) + Head(in).dropped
          /\ SumDropped(in) = Head(in).dropped + SumDropped(in')
          /\ SumDropped(in') \in Int /\ Head(in).dropped \in Int
      BY <2>1, Sequences, SumAppend, SumTail, SumType DEF Events
    <3> QED
      BY <1>1, <3>1, Numbers DEF Carried
  <2>3. NoneNegative(in) /\ NoneNegative(ingest) => NoneNegative(in') /\ NoneNegative(ingest')
    BY <2>1, Sequences, NotNegativeMoves
  <2> QED
    BY <1>1, <1>2, <2>2, <2>3 DEF DropInv, NoneNegative
<1>5. CASE Col!Ignore \/ Col!Overflow
  <2>1. in # <<>> /\ in' = Tail(in) /\ ingest' = ingest
    BY <1>5 DEF Col!Ignore, Col!Overflow
  <2>2. ~ NothingDiscarded'
    <3>1. CASE Col!Ignore
      BY <3>1, NothingGone DEF Col!Ignore, Col!shouldIgnore
    <3>2. CASE Col!Overflow
      BY <3>2 DEF Col!Overflow, NothingDiscarded
    <3> QED
      BY <1>5, <3>1, <3>2
  <2>3. /\ SumDropped(in) = Head(in).dropped + SumDropped(in')
        /\ SumDropped(in') \in Int /\ Head(in).dropped \in Int
    <3>1. Head(in) \in Events /\ Tail(in) \in Seq(Events)
      BY <2>1, Sequences, HeadTailProperties
    <3> QED
      BY <2>1, <3>1, Sequences, SumTail, SumType DEF Events
  <2>4. NoneNegative(in) => NoneNegative(in') /\ Head(in).dropped >= 0
    BY <2>1, Sequences, NotNegativeMoves
  <2>5. /\ Carried' \in Int /\ Carried \in Int
        /\ Carried = Carried' + Head(in).dropped
    <3>1. /\ Carried = SumDropped(rows) + SumDropped(batch) + SumDropped(ingest)
                         + SumDropped(in) + SumDropped(hand)
          /\ Carried' = SumDropped(rows) + SumDropped(batch) + SumDropped(ingest)
                          + SumDropped(in') + SumDropped(hand)
      BY <1>1, <2>1 DEF Carried
    <3> QED
      BY <2>3, <3>1, Numbers
  <2>6. lastKernelDropped + lastDropped \in Int
    BY Numbers
  <2>7. NoneNegative(in) => Carried' <= Carried
    BY <2>3, <2>4, <2>5
  <2>8. /\ \A i \in DOMAIN ring' : ring'[i].dropped = 0
        /\ srcPC' = "sample" => hand'[1].dropped = 0
        /\ lastKernelDropped' <= ringDrops'
    BY <1>1, <1>2 DEF DropInv
  <2>9. LookupMayFail \/
          /\ NoneNegative(rows') /\ NoneNegative(batch') /\ NoneNegative(ingest')
          /\ NoneNegative(in') /\ NoneNegative(hand')
          /\ Carried' <= lastKernelDropped' + lastDropped'
    <3>1. SUFFICES ASSUME ~ LookupMayFail
                   PROVE  /\ NoneNegative(rows') /\ NoneNegative(batch')
                          /\ NoneNegative(ingest')
                          /\ NoneNegative(in') /\ NoneNegative(hand')
                          /\ Carried' <= lastKernelDropped' + lastDropped'
      OBVIOUS
    <3>2. Carried <= lastKernelDropped + lastDropped /\ NoneNegative(in)
      BY <3>1 DEF DropInv
    <3>3. Carried' <= lastKernelDropped' + lastDropped'
      BY <1>1, <2>5, <2>6, <2>7, <3>2
    <3> QED
      BY <1>1, <2>1, <2>4, <3>1, <3>2, <3>3 DEF DropInv
  <2> QED
    BY <2>2, <2>8, <2>9 DEF DropInv, NoneNegative
<1> QED
  BY <1>3, <1>4, <1>5
  DEF Worker, CollectorRun, Col!Worker, Col!Run, Col!CloseIn, Col!ReportResult,
      Col!ObserveCancel, Col!CountDrop, Col!SeeClosed, Col!Finish

\* The flush loop: a batch takes what it carries along, and the stamp moves the
\* delta of the collector's counter to the first event of the batch.
LEMMA FlushDrop ==
  ASSUME IInv, FlowInv, DropInv, NothingDiscarded' => NothingDiscarded,
         FlushRun \/ Tick
  PROVE  DropInv'
<1>1. /\ UNCHANGED <<in, hand, ring, ringDrops, lastKernelDropped, srcPC, dropped>>
  BY DEF FlushRun, Tick, upstream, kernelVars, srcVars, Fl!Run, Fl!Tick, Fl!Receive,
         Fl!Drain, Fl!DrainDone, Fl!SeeClosed, Fl!FlushEmpty, Fl!Stamp, Fl!Insert,
         Fl!InsertFails
<1>2. CASE UNCHANGED <<rows, batch, ingest, lastDropped>>
  BY <1>1, <1>2, DropStill
<1>3. CASE Fl!Take /\ UNCHANGED <<rows, lastDropped>>
  <2>1. /\ ingest # <<>> /\ ingest' = Tail(ingest) /\ batch' = Append(batch, Head(ingest))
        /\ Head(ingest) \in Events /\ Tail(ingest) \in Seq(Events)
    BY <1>3, Sequences, HeadTailProperties DEF Fl!Take
  <2>2. Carried' = Carried
    <3>1. /\ SumDropped(batch') = SumDropped(batch) + Head(ingest).dropped
          /\ SumDropped(ingest) = Head(ingest).dropped + SumDropped(ingest')
          /\ SumDropped(ingest') \in Int /\ Head(ingest).dropped \in Int
      BY <2>1, Sequences, SumAppend, SumTail, SumType DEF Events
    <3> QED
      BY <1>1, <1>3, <3>1, Numbers DEF Carried
  <2>3. NoneNegative(ingest) /\ NoneNegative(batch)
           => NoneNegative(ingest') /\ NoneNegative(batch')
    BY <2>1, Sequences, NotNegativeMoves
  <2> QED
    BY <1>1, <1>3, <2>2, <2>3 DEF DropInv, NoneNegative
<1>4. CASE Fl!Stamp
  <2>1. CASE dropped > lastDropped
    <3> DEFINE n == batch[1].dropped + (dropped - lastDropped)
    <3>1. /\ batch # <<>> /\ batch' = [batch EXCEPT ![1].dropped = n]
          /\ lastDropped' = dropped /\ UNCHANGED <<rows, ingest>>
      BY <1>4, <2>1 DEF Fl!Stamp
    <3>2. /\ Len(batch) \in Nat /\ 1 \in 1..Len(batch) /\ batch[1] \in Events
          /\ batch[1].dropped \in Int /\ DOMAIN batch = 1..Len(batch)
      <4>1. /\ Len(batch) \in Nat /\ Len(batch) >= 1 /\ batch \in Seq(Events)
            /\ DOMAIN batch = 1..Len(batch)
        BY <3>1, Sequences, LenProperties, EmptySeq
      <4>2. 1 \in 1..Len(batch) /\ batch[1] \in Events
        BY <4>1, ElementOfSeq
      <4> QED
        BY <4>1, <4>2 DEF Events
    <3>3. n \in Int /\ dropped - lastDropped \in Int /\ dropped - lastDropped >= 0
      BY <2>1, <3>2, Numbers
    <3>4. SumDropped(batch') = SumDropped(batch) - batch[1].dropped + n
      <4> HIDE DEF n
      <4> QED
        BY <3>1, <3>3, Sequences, SumStamped
    <3>5. /\ Carried \in Int
          /\ Carried' = Carried + (dropped - lastDropped)
          /\ lastKernelDropped' + lastDropped'
                = (lastKernelDropped + lastDropped) + (dropped - lastDropped)
      <4>1. /\ Carried = SumDropped(rows) + SumDropped(batch) + SumDropped(ingest)
                           + SumDropped(in) + SumDropped(hand)
            /\ Carried' = SumDropped(rows) + SumDropped(batch') + SumDropped(ingest)
                            + SumDropped(in) + SumDropped(hand)
        BY <1>1, <3>1 DEF Carried
      <4>2. SumDropped(batch') = SumDropped(batch) + (dropped - lastDropped)
        BY <3>2, <3>3, <3>4, Numbers
      <4>3. lastKernelDropped' = lastKernelDropped /\ lastDropped' = dropped
        BY <1>1, <3>1
      <4> HIDE DEF n
      <4> QED
        BY <3>3, <4>1, <4>2, <4>3, Numbers
    <3>6. ASSUME NoneNegative(batch) PROVE NoneNegative(batch')
      <4>1. batch[1].dropped >= 0
        BY <3>2, <3>6 DEF NoneNegative
      <4>2. n >= 0
        BY <3>2, <3>3, <4>1
      <4> DEFINE ev == [batch[1] EXCEPT !.dropped = n]
      <4>3. batch' = [batch EXCEPT ![1] = ev] /\ ev \in Events /\ ev.dropped = n
        <5> HIDE DEF n
        <5> QED
          BY <3>1, <3>2, <3>3, StampedType DEF Events
      <4> HIDE DEF ev, n
      <4>4. /\ DOMAIN batch' = 1..Len(batch)
            /\ \A i \in 1..Len(batch) : batch'[i] = IF i = 1 THEN ev ELSE batch[i]
        <5>1. batch \in Seq(Events)
          BY Sequences
        <5>2. /\ batch' \in Seq(Events) /\ Len(batch') = Len(batch)
              /\ \A i \in 1..Len(batch) : batch'[i] = IF i = 1 THEN ev ELSE batch[i]
          BY <3>2, <4>3, <5>1, ExceptSeq
        <5> QED
          BY <5>2, LenProperties
      <4> QED
        BY <3>2, <3>6, <4>2, <4>3, <4>4 DEF NoneNegative
    <3>7. lastKernelDropped + lastDropped \in Int
      BY Numbers
    <3>8. Carried <= lastKernelDropped + lastDropped
            => Carried' <= lastKernelDropped' + lastDropped'
      BY <3>3, <3>5, <3>7
    <3>9. Carried = lastKernelDropped + lastDropped
            => Carried' = lastKernelDropped' + lastDropped'
      BY <3>3, <3>5, <3>7
    <3> HIDE DEF n
    <3> QED
      BY <1>1, <3>1, <3>6, <3>8, <3>9 DEF DropInv
  <2>2. CASE ~ (dropped > lastDropped)
    BY <1>2, <1>4, <2>2 DEF Fl!Stamp
  <2> QED
    BY <2>1, <2>2
<1>5. CASE Fl!Insert
  <2>1. rows' = rows \o batch /\ batch' = <<>> /\ UNCHANGED <<ingest, lastDropped>>
    BY <1>5 DEF Fl!Insert
  <2>2. Carried' = Carried
    <3>1. SumDropped(rows') = SumDropped(rows) + SumDropped(batch) /\ SumDropped(batch') = 0
      BY <2>1, Sequences, SumConcat, SumEmpty
    <3>2. Carried' = SumDropped(rows') + SumDropped(batch') + SumDropped(ingest)
                       + SumDropped(in) + SumDropped(hand)
      BY <1>1, <2>1 DEF Carried
    <3> QED
      BY <3>1, <3>2, Numbers DEF Carried
  <2>3. NoneNegative(rows) /\ NoneNegative(batch)
           => NoneNegative(rows') /\ NoneNegative(batch')
    BY <2>1, Sequences, NotNegativeMoves, NotNegativeOne
  <2> QED
    BY <1>1, <2>1, <2>2, <2>3 DEF DropInv
<1> QED
  BY <1>2, <1>3, <1>4, <1>5
  DEF FlushRun, Tick, Fl!Run, Fl!Tick, Fl!Receive, Fl!Drain, Fl!DrainDone,
      Fl!SeeClosed, Fl!FlushEmpty, Fl!InsertFails

\* runWithSource and a step of nothing move no event.
LEMMA ServiceDrop ==
  ASSUME DropInv, NothingDiscarded' => NothingDiscarded,
         Signal \/ Service \/ UNCHANGED vars
  PROVE  DropInv'
<1>1. UNCHANGED <<rows, batch, ingest, in, hand, ring, lastKernelDropped,
                  lastDropped, ringDrops, srcPC>>
  BY DEF Signal, Service, WaitCancelled, WaitCollector, WaitFlush, JoinCollector,
         CloseIngest, JoinFlush, pipeline, kernelVars, srcVars, flVars, vars
<1> QED
  BY <1>1, DropStill

\* The carriers hold what was taken from the counters, and no more.
THEOREM Column == Spec => [](IInv /\ FlowInv /\ DropInv)
<1>1. IInv /\ FlowInv /\ DropInv /\ [Next]_vars => DropInv'
  BY Discarded, KernelDrop, SourceDrop, CollectorDrop, FlushDrop, ServiceDrop
  DEF Next, Terminated
<1> QED
  BY <1>1, DropInit, Flows, PTL DEF Spec

\* The dropped_before column never reports a loss that did not happen, and
\* reports every kernel loss that was sampled when no carrier was discarded.
THEOREM LossesReported == Spec => []ColumnReportsLosses
<1>1. IInv /\ FlowInv /\ DropInv => NoOverReport
  <2> SUFFICES ASSUME IInv, FlowInv, DropInv, ~ LookupMayFail
               PROVE  SumDropped(rows) <= ringDrops + dropped
    BY KernelAssumption DEF NoOverReport
  <2>1. /\ SumDropped(batch) >= 0 /\ SumDropped(ingest) >= 0
        /\ SumDropped(in) >= 0 /\ SumDropped(hand) >= 0
    BY Sequences, SumNotNegative DEF DropInv
  <2>2. /\ Carried <= lastKernelDropped + lastDropped
        /\ lastKernelDropped <= ringDrops /\ lastDropped <= dropped
    BY DEF DropInv, IInv, ControlInv, OverflowInv
  <2> QED
    BY <2>1, <2>2, Numbers DEF Carried
<1>2. IInv /\ FlowInv /\ DropInv => SampledLossesReported
  <2> SUFFICES ASSUME IInv, FlowInv, DropInv, CleanStop, NothingDiscarded
               PROVE  SumDropped(rows) = lastKernelDropped
    BY DEF SampledLossesReported
  <2>1. hand = <<>> /\ in = <<>> /\ ingest = <<>> /\ batch = <<>>
    BY DEF IInv, TypeOK, FlushTypeOK, CaptureTypeOK, ControlInv, SourceInv,
           CollectorInv, FlushInv, ServiceInv, CleanStop
  <2>2. Carried = lastKernelDropped
    BY NothingGone, Numbers DEF DropInv
  <2> QED
    BY <2>1, <2>2, SumEmpty, Numbers DEF Carried
<1> QED
  BY <1>1, <1>2, Column, PTL DEF ColumnReportsLosses

=============================================================================
