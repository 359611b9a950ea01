------------------------- MODULE MCIncrementalFacade -------------------------
(* Small instances of IncrementalFacade for TLC. *)
EXTENDS IncrementalFacade

MCPlatformSources == {"BACKEND"}
=============================================================================
