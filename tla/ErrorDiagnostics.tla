--------------------------- MODULE ErrorDiagnostics ---------------------------
(***************************************************************************)
(* From an error to its diagnostic: BackendError of src/wifi.rs, and the   *)
(* trace, the diagnostic codes and the JSON of src/diagnostics.rs.         *)
(*                                                                         *)
(* Stages, classes, codes and actions are named as in the code; the trace  *)
(* is the fixed array with its length; text is a sequence of code points,  *)
(* and only the text that a backend chooses is spelled out.  An Option is  *)
(* a set of at most one element.                                           *)
(***************************************************************************)
EXTENDS Integers, Sequences, SequencesExt

CONSTANT TraceCapacity     \* DIAGNOSTIC_TRACE_CAPACITY: 4

ASSUME TraceAssumption == TraceCapacity \in Nat \ {0}

None == {}
Some(value) == {value}
NoEntry == [kind |-> "None", value |-> 0]

-----------------------------------------------------------------------------
(* The names, each with a text of its own in as_str *)

DiagnosticCode ==
  {"AlreadyInitialized", "BackendInitialize", "BackendBusy", "OperationTimeout",
   "BackendTimeout", "OperationCancelled", "ResourceUnavailable", "UnsupportedSecurity",
   "ConnectionFailed", "BackendOther", "Protocol"}

DiagnosticStage ==
  {"Initialize", "ControlPlane", "Connect", "Scan", "Authenticate", "Associate", "Sae",
   "Eapol", "Pmf", "Disconnect", "Runtime", "Operation", "Backend"}

DiagnosticTraceKind ==
  {"BackendStatus", "VendorStatus", "IeeeStatus", "HostapStatus", "DisconnectReason",
   "SupplicantContext", "DriverContext", "RuntimeCode", "ResourceRequired",
   "ResourceAvailable", "ResourceOwner", "LargestContiguous"}

RecoveryAction ==
  {"UseExistingController", "Reinitialize", "WaitAndRetry", "RetryOperation",
   "ProvideResources", "SelectSupportedSecurity", "InspectNetworkAndRetry",
   "InspectBackendCode", "RecreateController"}

-----------------------------------------------------------------------------
(* DiagnosticTrace *)

NewTrace == [entries |-> [i \in 0 .. TraceCapacity - 1 |-> NoEntry], len |-> 0, truncated |-> FALSE]

\* push: what does not fit is dropped, and the trace says so.
Push(trace, entry) ==
  IF trace.len < TraceCapacity
  THEN [trace EXCEPT !.entries[trace.len] = entry, !.len = trace.len + 1]
  ELSE [trace EXCEPT !.truncated = TRUE]

Get(trace, index) == IF index < trace.len THEN trace.entries[index] ELSE NoEntry

-----------------------------------------------------------------------------
(* BackendError *)

BackendErrorClass ==
  {"Initialize", "Busy", "OperationTimeout", "BackendTimeout", "Cancelled",
   "ResourceUnavailable", "UnsupportedSecurity", "Connect", "Other"}

DefaultStage(class) ==
  CASE class = "Initialize" -> "Initialize"
    [] class \in {"UnsupportedSecurity", "Connect"} -> "Connect"
    [] class \in {"Busy", "OperationTimeout", "Cancelled"} -> "Operation"
    [] class \in {"BackendTimeout", "Other"} -> "Backend"
    [] class = "ResourceUnavailable" -> "Runtime"

NewBackendError(class, code) ==
  [class |-> class, code |-> code, stage |-> DefaultStage(class),
   revision |-> None, trace |-> NewTrace]

WithStage(error, stage) == [error EXCEPT !.stage = stage]
WithProfileRevision(error, revision) == [error EXCEPT !.revision = Some(revision)]
WithTrace(error, entry) == [error EXCEPT !.trace = Push(error.trace, entry)]

-----------------------------------------------------------------------------
(* Diagnostic *)

CodeAndAction(class) ==
  CASE class = "Initialize"          -> <<"BackendInitialize", "Reinitialize">>
    [] class = "Busy"                -> <<"BackendBusy", "WaitAndRetry">>
    [] class = "OperationTimeout"    -> <<"OperationTimeout", "RetryOperation">>
    [] class = "BackendTimeout"      -> <<"BackendTimeout", "RetryOperation">>
    [] class = "Cancelled"           -> <<"OperationCancelled", "RetryOperation">>
    [] class = "ResourceUnavailable" -> <<"ResourceUnavailable", "ProvideResources">>
    [] class = "UnsupportedSecurity" -> <<"UnsupportedSecurity", "SelectSupportedSecurity">>
    [] class = "Connect"             -> <<"ConnectionFailed", "InspectNetworkAndRetry">>
    [] class = "Other"               -> <<"BackendOther", "InspectBackendCode">>

\* Error::diagnostic for the two errors that are not a backend's.
FacadeDiagnostic(error) ==
  [code |-> error, stage |-> "ControlPlane",
   action |-> IF error = "Protocol" THEN "RecreateController" ELSE "UseExistingController",
   backendCode |-> None, revision |-> None, trace |-> NewTrace]

BackendDiagnostic(error) ==
  [code |-> CodeAndAction(error.class)[1], stage |-> error.stage,
   action |-> CodeAndAction(error.class)[2], backendCode |-> Some(error.code),
   revision |-> error.revision, trace |-> error.trace]

-----------------------------------------------------------------------------
(* write_json *)

Quote == 34
Backslash == 92
HexDigit(n) == IF n < 10 THEN 48 + n ELSE 87 + n

\* char::is_control: the C0 controls, DEL and the C1 controls.
IsControl(c) == c < 32 \/ c \in 127 .. 159

\* Mutant: a backslash is written as it is.
EscapedButBackslash(c) ==
  CASE c = Quote -> <<Backslash, Quote>>
    [] c = 10    -> <<Backslash, 110>>
    [] c = 13    -> <<Backslash, 114>>
    [] c = 9     -> <<Backslash, 116>>
    [] IsControl(c) /\ c \notin {9, 10, 13} ->
         <<Backslash, 117, 48, 48, HexDigit(c \div 16), HexDigit(c % 16)>>
    [] ~IsControl(c) /\ c # Quote -> <<c>>

Escaped(c) ==
  CASE c = Quote     -> <<Backslash, Quote>>
    [] c = Backslash -> <<Backslash, Backslash>>
    [] c = 10        -> <<Backslash, 110>>
    [] c = 13        -> <<Backslash, 114>>
    [] c = 9         -> <<Backslash, 116>>
    [] IsControl(c) /\ c \notin {9, 10, 13} ->
         <<Backslash, 117, 48, 48, HexDigit(c \div 16), HexDigit(c % 16)>>
    [] ~IsControl(c) /\ c \notin {Quote, Backslash} -> <<c>>

\* write_json_string
JsonString(text) ==
  <<Quote>> \o FlattenSeq([i \in 1 .. Len(text) |-> Escaped(text[i])]) \o <<Quote>>

\* The object, with its numbers and fixed names as they are.
Json(diagnostic) ==
  [code |-> diagnostic.code, stage |-> diagnostic.stage, action |-> diagnostic.action,
   backendCode |-> diagnostic.backendCode,
   revision |-> {JsonString(text) : text \in diagnostic.revision},
   trace |-> [i \in 1 .. diagnostic.trace.len |-> Get(diagnostic.trace, i - 1)],
   truncated |-> diagnostic.trace.truncated]
=============================================================================
