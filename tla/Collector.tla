------------------------------ MODULE Collector ------------------------------
(***************************************************************************)
(* internal/collector: the goroutine that runs the source and the loop     *)
(* that filters ignored paths and forwards the rest, without ever          *)
(* blocking, into the daemon's ingest queue.                               *)
(***************************************************************************)
EXTENDS Naturals, Sequences

CONSTANTS KindOf,
          IngestCap       \* defaultIngestBufferSize

VARIABLES ctxDone,
          srcPC, srcErr,  \* the source, see CaptureSource
          in, inClosed,   \* the channel from the source
          colPC,          \* control point of Collector.Run
          draining,       \* Run has taken its ctx.Done case
          colErr,         \* what Run returned, the colErr channel of the service
          ingest,         \* the channel to the flush loop
          dropped,        \* the atomic drop counter
          overflow        \* history: events lost because ingest was full

Init ==
    /\ inClosed = FALSE
    /\ colPC = "loop"
    /\ draining = FALSE
    /\ colErr = "none"
    /\ ingest = <<>>
    /\ dropped = 0
    /\ overflow = {}

-----------------------------------------------------------------------------
(* The worker goroutine: src.Run, then close(in), then done <- err.        *)

CloseIn ==
    /\ srcPC = "returned"
    /\ inClosed' = TRUE
    /\ srcPC' = "closed"
    /\ UNCHANGED <<ctxDone, srcErr, in, colPC, draining, colErr, ingest,
                   dropped, overflow>>

ReportResult ==
    /\ srcPC = "closed"
    /\ srcPC' = "exited"
    /\ UNCHANGED <<ctxDone, srcErr, in, inClosed, colPC, draining, colErr,
                   ingest, dropped, overflow>>

-----------------------------------------------------------------------------
(* Collector.Run.  Its select and its drain loop treat an event alike.     *)

\* Mutant: the cancellation ends Run without draining in.
ReturnOnCancel ==
    /\ colPC = "loop"
    /\ ~draining
    /\ ctxDone
    /\ draining' = TRUE
    /\ colPC' = "finish"
    /\ UNCHANGED <<ctxDone, srcPC, srcErr, in, inClosed, colErr, ingest,
                   dropped, overflow>>

ObserveCancel ==
    /\ colPC = "loop"
    /\ ~draining
    /\ ctxDone
    /\ draining' = TRUE
    /\ UNCHANGED <<ctxDone, srcPC, srcErr, in, inClosed, colPC, colErr, ingest,
                   dropped, overflow>>

shouldIgnore(ev) == KindOf[ev.id] = "ignored"

Ignore ==
    /\ colPC = "loop"
    /\ in # <<>>
    /\ shouldIgnore(Head(in))
    /\ in' = Tail(in)
    /\ UNCHANGED <<ctxDone, srcPC, srcErr, inClosed, colPC, draining, colErr,
                   ingest, dropped, overflow>>

\* Mutant: the queue holds one event too many.
ForwardOffByOne ==
    /\ colPC = "loop"
    /\ in # <<>>
    /\ ~shouldIgnore(Head(in))
    /\ Len(ingest) <= IngestCap
    /\ in' = Tail(in)
    /\ ingest' = Append(ingest, Head(in))
    /\ UNCHANGED <<ctxDone, srcPC, srcErr, inClosed, colPC, draining, colErr,
                   dropped, overflow>>

Forward ==
    /\ colPC = "loop"
    /\ in # <<>>
    /\ ~shouldIgnore(Head(in))
    /\ Len(ingest) < IngestCap
    /\ in' = Tail(in)
    /\ ingest' = Append(ingest, Head(in))
    /\ UNCHANGED <<ctxDone, srcPC, srcErr, inClosed, colPC, draining, colErr,
                   dropped, overflow>>

\* The default case of the send: the event is gone here, and is counted only
\* by the next statement.
Overflow ==
    /\ colPC = "loop"
    /\ in # <<>>
    /\ ~shouldIgnore(Head(in))
    /\ Len(ingest) >= IngestCap
    /\ in' = Tail(in)
    /\ overflow' = overflow \cup {Head(in).id}
    /\ colPC' = "count"
    /\ UNCHANGED <<ctxDone, srcPC, srcErr, inClosed, draining, colErr, ingest,
                   dropped>>

CountDrop ==
    /\ colPC = "count"
    /\ dropped' = dropped + 1
    /\ colPC' = "loop"
    /\ UNCHANGED <<ctxDone, srcPC, srcErr, in, inClosed, draining, colErr,
                   ingest, overflow>>

SeeClosed ==
    /\ colPC = "loop"
    /\ in = <<>>
    /\ inClosed
    /\ colPC' = "finish"
    /\ UNCHANGED <<ctxDone, srcPC, srcErr, in, inClosed, draining, colErr,
                   ingest, dropped, overflow>>

\* Join the worker; its result is Run's, except that a cancellation is none.
Finish ==
    /\ colPC = "finish"
    /\ srcPC = "exited"
    /\ colErr' = srcErr
    /\ colPC' = "returned"
    /\ UNCHANGED <<ctxDone, srcPC, srcErr, in, inClosed, draining, ingest,
                   dropped, overflow>>

-----------------------------------------------------------------------------

Worker == CloseIn \/ ReportResult

Run == \/ ObserveCancel \/ Ignore \/ Forward \/ Overflow
       \/ CountDrop \/ SeeClosed \/ Finish

Next == Worker \/ Run

=============================================================================
