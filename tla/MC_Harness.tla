----------------------------- MODULE MC_Harness -----------------------------
(* Small instances of Harness for TLC. *)
EXTENDS Harness

CONSTANTS GP    \* a general-protection exception, as a model value

MCExceptions == {GP}
=============================================================================
