------------------------------ MODULE EventLog ------------------------------
(***************************************************************************)
(* What the recorder promises of the events it accepts, whatever its       *)
(* goroutines do: an append-only log in capture order, extended by whole   *)
(* batches that are always the oldest pending events, and complete when    *)
(* the recorder stops without a storage error.                             *)
(***************************************************************************)
EXTENDS Naturals, Sequences

CONSTANT MaxEvents    \* events are numbered 1..MaxEvents in capture order

VARIABLES log,        \* the durable events
          pending,    \* accepted and not durable yet
          status      \* "recording", "failed" (storage error) or "stopped"

vars == <<log, pending, status>>

Members(s) == {s[i] : i \in DOMAIN s}

Init ==
    /\ log = <<>>
    /\ pending = <<>>
    /\ status = "recording"

\* An event is accepted at most once, and after every earlier accepted one.
Accept(n) ==
    /\ status # "stopped"
    /\ \A m \in Members(log) \cup Members(pending) : m < n
    /\ pending' = Append(pending, n)
    /\ UNCHANGED <<log, status>>

\* One transaction makes the k oldest pending events durable.
Commit(k) ==
    /\ status = "recording"
    /\ log' = log \o SubSeq(pending, 1, k)
    /\ pending' = SubSeq(pending, k + 1, Len(pending))
    /\ UNCHANGED status

Fail ==
    /\ status = "recording"
    /\ status' = "failed"
    /\ UNCHANGED <<log, pending>>

\* A clean stop leaves nothing behind.
Stop ==
    /\ status = "recording"
    /\ pending = <<>>
    /\ status' = "stopped"
    /\ UNCHANGED <<log, pending>>

Next ==
    \/ \E n \in 1..MaxEvents : Accept(n)
    \/ \E k \in 1..Len(pending) : Commit(k)
    \/ Fail
    \/ Stop

Spec == Init /\ [][Next]_vars

=============================================================================
