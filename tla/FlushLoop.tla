------------------------------ MODULE FlushLoop ------------------------------
(***************************************************************************)
(* internal/daemon eventBatcher: the only consumer of the ingest queue.    *)
(* It gathers events into a batch and writes each batch to the store in    *)
(* one transaction, when the batch is large enough, when the flush period  *)
(* is over, or when ingest is closed.                                      *)
(***************************************************************************)
EXTENDS Naturals, Sequences

CONSTANTS BatchSize,   \* Config.BatchSize
          MaxBatch     \* defaultMaxFlushBatchSize

VARIABLES ctxDone,
          ingest, ingestClosed,
          dropped,       \* the collector's counter, read through droppedFn
          flPC,          \* control point of eventBatcher.run
          finishing,     \* the flush in progress is finish()'s
          batch,
          lastDropped,
          rows,          \* the events table, in id order
          flErr          \* what run returned, the flushErr channel of the service

Init ==
    /\ flPC = "select"
    /\ finishing = FALSE
    /\ batch = <<>>
    /\ lastDropped = 0
    /\ rows = <<>>
    /\ flErr = "none"

-----------------------------------------------------------------------------
(* The for-select loop and drainReady.                                     *)

Take ==
    /\ ingest # <<>>
    /\ batch' = Append(batch, Head(ingest))
    /\ ingest' = Tail(ingest)

Receive ==
    /\ flPC = "select"
    /\ Take
    /\ flPC' = IF Len(batch') >= BatchSize THEN "drain" ELSE "select"
    /\ UNCHANGED <<ctxDone, ingestClosed, dropped, finishing, lastDropped, rows,
                   flErr>>

Drain ==
    /\ flPC = "drain"
    /\ Len(batch) < MaxBatch
    /\ Take
    /\ UNCHANGED <<ctxDone, ingestClosed, dropped, flPC, finishing, lastDropped,
                   rows, flErr>>

\* drainReady returns true: the batch is full or nothing is ready.
DrainDone ==
    /\ flPC = "drain"
    /\ \/ Len(batch) >= MaxBatch
       \/ ingest = <<>> /\ ~ingestClosed
    /\ flPC' = "flush"
    /\ UNCHANGED <<ctxDone, ingest, ingestClosed, dropped, finishing, batch,
                   lastDropped, rows, flErr>>

\* ingest is closed and empty: run will return after one last flush.
SeeClosed ==
    /\ \/ flPC = "select"
       \/ flPC = "drain" /\ Len(batch) < MaxBatch
    /\ ingest = <<>>
    /\ ingestClosed
    /\ finishing' = TRUE
    /\ flPC' = "flush"
    /\ UNCHANGED <<ctxDone, ingest, ingestClosed, dropped, batch, lastDropped,
                   rows, flErr>>

\* Mutant: the test of the context is inverted.
TickInverted ==
    /\ flPC = "select"
    /\ ctxDone
    /\ flPC' = "flush"
    /\ UNCHANGED <<ctxDone, ingest, ingestClosed, dropped, finishing, batch,
                   lastDropped, rows, flErr>>

\* A tick after cancellation does nothing.
Tick ==
    /\ flPC = "select"
    /\ ~ctxDone
    /\ flPC' = "flush"
    /\ UNCHANGED <<ctxDone, ingest, ingestClosed, dropped, finishing, batch,
                   lastDropped, rows, flErr>>

-----------------------------------------------------------------------------
(* flush: stamp the batch, then insert it in one transaction.              *)

Flushed ==
    IF finishing
    THEN flPC' = "returned" /\ flErr' = "nil"
    ELSE flPC' = "select" /\ flErr' = flErr

FlushEmpty ==
    /\ flPC = "flush"
    /\ batch = <<>>
    /\ Flushed
    /\ UNCHANGED <<ctxDone, ingest, ingestClosed, dropped, finishing, batch,
                   lastDropped, rows>>

\* Mutant: the delta is taken for the whole count, and lastDropped is not set.
StampWithoutReset ==
    /\ flPC = "flush"
    /\ batch # <<>>
    /\ batch' = [batch EXCEPT ![1].dropped = @ + dropped]
    /\ flPC' = "insert"
    /\ UNCHANGED <<ctxDone, ingest, ingestClosed, dropped, finishing,
                   lastDropped, rows, flErr>>

\* droppedFn() is read once; what it gained since the last flush goes to the
\* first event of the batch.
Stamp ==
    /\ flPC = "flush"
    /\ batch # <<>>
    /\ IF dropped > lastDropped
       THEN /\ batch' = [batch EXCEPT ![1].dropped = @ + (dropped - lastDropped)]
            /\ lastDropped' = dropped
       ELSE UNCHANGED <<batch, lastDropped>>
    /\ flPC' = "insert"
    /\ UNCHANGED <<ctxDone, ingest, ingestClosed, dropped, finishing, rows, flErr>>

\* Mutant: the batch is not emptied.
InsertWithoutReset ==
    /\ flPC = "insert"
    /\ rows' = rows \o batch
    /\ Flushed
    /\ UNCHANGED <<ctxDone, ingest, ingestClosed, dropped, finishing, batch,
                   lastDropped>>

Insert ==
    /\ flPC = "insert"
    /\ rows' = rows \o batch
    /\ batch' = <<>>
    /\ Flushed
    /\ UNCHANGED <<ctxDone, ingest, ingestClosed, dropped, finishing, lastDropped>>

\* Mutant: a failure half way leaves the rows before it in the table.
InsertWithoutRollback ==
    /\ flPC = "insert"
    /\ rows' = Append(rows, Head(batch))
    /\ flErr' = "store"
    /\ flPC' = "returned"
    /\ UNCHANGED <<ctxDone, ingest, ingestClosed, dropped, finishing, batch,
                   lastDropped>>

\* Mutant: the error of the write is dropped and the batch with it.
InsertErrorIgnored ==
    /\ flPC = "insert"
    /\ batch' = <<>>
    /\ Flushed
    /\ UNCHANGED <<ctxDone, ingest, ingestClosed, dropped, finishing,
                   lastDropped, rows>>

\* Any failure of InsertEvents rolls its transaction back, and run returns it.
InsertFails ==
    /\ flPC = "insert"
    /\ flErr' = "store"
    /\ flPC' = "returned"
    /\ UNCHANGED <<ctxDone, ingest, ingestClosed, dropped, finishing, batch,
                   lastDropped, rows>>

-----------------------------------------------------------------------------

Run == \/ Receive \/ Drain \/ DrainDone \/ SeeClosed
       \/ FlushEmpty \/ Stamp \/ Insert \/ InsertFails

Next == Run \/ Tick

=============================================================================
