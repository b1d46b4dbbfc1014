------------------------------ MODULE MCRecorder ------------------------------
(* Values for the constants of Recorder that a configuration cannot write.   *)
EXTENDS DropAccounting

\* Every kind, with kept events enough for a full batch and one more.
KindsMixed == <<"keep", "malformed", "keep", "ignored", "keep">>

=============================================================================
