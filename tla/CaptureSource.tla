---------------------------- MODULE CaptureSource ----------------------------
(***************************************************************************)
(* The capture side of the recorder: the BPF programs that reserve and     *)
(* submit records in the kernel ring buffer, and the Linux EventSource     *)
(* (internal/ebpf) that reads them and sends them to the collector.        *)
(*                                                                         *)
(* An event is its capture number and the dropped_before count userspace   *)
(* puts on it; what the pipeline does with the rest of the event depends   *)
(* only on KindOf: "keep", "ignored" (its path falls under an ignore rule  *)
(* of the collector) or "malformed" (the record does not decode).          *)
(***************************************************************************)
EXTENDS Integers, Sequences

CONSTANTS MaxEvents,      \* bound on the events the kernel produces
          KindOf,         \* the kind of every event
          RingCap,        \* records the kernel ring buffer holds
          InCap,          \* collector.Config.BufferSize
          Word,           \* 2^64 in the program: the modulus of a counter
          LookupMayFail   \* may the ringbuf_drops map lookup fail?

VARIABLES ctxDone,            \* the run context has been cancelled
          emitted,            \* events the tracepoints have produced
          ring,               \* the events map (BPF_MAP_TYPE_RINGBUF)
          ringDrops,          \* the ringbuf_drops counters, summed
          ringLost,           \* history: the events whose reservation failed
          srcPC,              \* control point of EventSource.Run
          hand,               \* the event Run holds: <<>> or <<event>>
          lastKernelDropped,  \* the local of that name
          readerOpen,         \* ringbuf.Reader not closed yet
          srcErr,             \* what Run returned
          abandoned,          \* history: events Run gave up when cancelled
          in                  \* the channel from Run to the collector

kernelVars == <<emitted, ring, ringDrops, ringLost>>
runVars == <<srcPC, hand, lastKernelDropped, readerOpen, srcErr, abandoned>>

Event(n) == [id |-> n, dropped |-> 0]

Init ==
    /\ emitted = 0
    /\ ring = <<>>
    /\ ringDrops = 0
    /\ ringLost = {}
    /\ srcPC = "setup"
    /\ hand = <<>>
    /\ lastKernelDropped = 0
    /\ readerOpen = FALSE
    /\ srcErr = "none"
    /\ abandoned = {}
    /\ in = <<>>

-----------------------------------------------------------------------------
(* Data plane: a tracepoint fires while the programs are attached, which   *)
(* they are before the reader exists.                                      *)

Attached == srcPC \in {"open", "read", "sample", "send"}

Submit ==
    /\ Attached
    /\ emitted < MaxEvents
    /\ Len(ring) < RingCap
    /\ emitted' = emitted + 1
    /\ ring' = Append(ring, Event(emitted + 1))
    /\ UNCHANGED <<ctxDone, ringDrops, ringLost, runVars, in>>

ReserveFails ==
    /\ Attached
    /\ emitted < MaxEvents
    /\ Len(ring) >= RingCap
    /\ emitted' = emitted + 1
    /\ ringDrops' = ringDrops + 1
    /\ ringLost' = ringLost \cup {emitted + 1}
    /\ UNCHANGED <<ctxDone, ring, runVars, in>>

-----------------------------------------------------------------------------
(* Control plane: EventSource.Run.                                         *)

\* The deferred calls close the reader and detach the programs.
Return(err) ==
    /\ srcPC' = "returned"
    /\ srcErr' = err
    /\ readerOpen' = FALSE

\* Load the object, set self_pid, attach the tracepoints.
Attach ==
    /\ srcPC = "setup"
    /\ srcPC' = "open"
    /\ UNCHANGED <<ctxDone, kernelVars, hand, lastKernelDropped, readerOpen,
                   srcErr, abandoned, in>>

OpenReader ==
    /\ srcPC = "open"
    /\ srcPC' = "read"
    /\ readerOpen' = TRUE
    /\ UNCHANGED <<ctxDone, kernelVars, hand, lastKernelDropped, srcErr,
                   abandoned, in>>

SetupFails ==
    /\ srcPC \in {"setup", "open"}
    /\ Return("capture")
    /\ UNCHANGED <<ctxDone, kernelVars, hand, lastKernelDropped, abandoned, in>>

\* The goroutine that closes the reader once the context is cancelled.
CloseReader ==
    /\ ctxDone
    /\ readerOpen
    /\ readerOpen' = FALSE
    /\ UNCHANGED <<ctxDone, kernelVars, srcPC, hand, lastKernelDropped, srcErr,
                   abandoned, in>>

ReadRecord ==
    /\ srcPC = "read"
    /\ readerOpen
    /\ ring # <<>>
    /\ KindOf[Head(ring).id] # "malformed"
    /\ ring' = Tail(ring)
    /\ hand' = <<Head(ring)>>
    /\ srcPC' = "sample"
    /\ UNCHANGED <<ctxDone, emitted, ringDrops, ringLost, lastKernelDropped,
                   readerOpen, srcErr, abandoned, in>>

\* Mutant: the counter is read before the record is decoded, and the delta is
\* lost with the record.
SkipMalformedAfterSampling ==
    /\ srcPC = "read"
    /\ readerOpen
    /\ ring # <<>>
    /\ KindOf[Head(ring).id] = "malformed"
    /\ ring' = Tail(ring)
    /\ lastKernelDropped' = ringDrops
    /\ UNCHANGED <<ctxDone, emitted, ringDrops, ringLost, srcPC, hand,
                   readerOpen, srcErr, abandoned, in>>

\* A record that does not decode is skipped before the drop counter is read,
\* so its share of the losses goes to the next record.
SkipMalformed ==
    /\ srcPC = "read"
    /\ readerOpen
    /\ ring # <<>>
    /\ KindOf[Head(ring).id] = "malformed"
    /\ ring' = Tail(ring)
    /\ UNCHANGED <<ctxDone, emitted, ringDrops, ringLost, runVars, in>>

ReadClosed ==
    /\ srcPC = "read"
    /\ ~readerOpen
    /\ Return("nil")
    /\ UNCHANGED <<ctxDone, kernelVars, hand, lastKernelDropped, abandoned, in>>

ReadFails ==
    /\ srcPC = "read"
    /\ readerOpen
    /\ Return("capture")
    /\ UNCHANGED <<ctxDone, kernelVars, hand, lastKernelDropped, abandoned, in>>

\* uint64 subtraction, then the conversion int64(dropped).
AsInt64(u) == IF 2 * u >= Word THEN u - Word ELSE u
DropDelta(total) == AsInt64((total - lastKernelDropped) % Word)

\* readRingbufDrops returns 0 when the map lookup fails.
SampledTotals == {ringDrops} \cup (IF LookupMayFail THEN {0} ELSE {})

SampleDrops ==
    /\ srcPC = "sample"
    /\ \E total \in SampledTotals :
          /\ hand' = <<[hand[1] EXCEPT !.dropped = DropDelta(total)]>>
          /\ lastKernelDropped' = total
    /\ srcPC' = "send"
    /\ UNCHANGED <<ctxDone, kernelVars, readerOpen, srcErr, abandoned, in>>

Send ==
    /\ srcPC = "send"
    /\ Len(in) < InCap
    /\ in' = in \o hand
    /\ hand' = <<>>
    /\ srcPC' = "read"
    /\ UNCHANGED <<ctxDone, kernelVars, lastKernelDropped, readerOpen, srcErr,
                   abandoned>>

SendCancelled ==
    /\ srcPC = "send"
    /\ ctxDone
    /\ abandoned' = abandoned \cup {hand[1].id}
    /\ hand' = <<>>
    /\ Return("nil")
    /\ UNCHANGED <<ctxDone, kernelVars, lastKernelDropped, in>>

-----------------------------------------------------------------------------

Kernel == Submit \/ ReserveFails

\* The steps EventSource.Run takes while nothing fails around it.
Run == \/ Attach \/ OpenReader
       \/ ReadRecord \/ SkipMalformed \/ ReadClosed
       \/ SampleDrops \/ Send \/ SendCancelled

\* A failure of the environment, which Run returns.
Fail == SetupFails \/ ReadFails

Next == Kernel \/ Run \/ CloseReader \/ Fail

=============================================================================
