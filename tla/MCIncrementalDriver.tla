------------------------- MODULE MCIncrementalDriver -------------------------
(* Small instances of IncrementalDriver for TLC. *)
EXTENDS IncrementalDriver

MCBackendSources == {"COMMAND", "BACKEND"}
=============================================================================
