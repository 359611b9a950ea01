---------------------------- MODULE WifiController ----------------------------
(***************************************************************************)
(* The controller's half of the facade in src/wifi.rs, with the two        *)
(* channels and the completion signal of src/state.rs that join it to its  *)
(* runner.  The handle is unique and its methods borrow it mutably, so     *)
(* there is one control future at a time; initialize, scan, connect and    *)
(* disconnect go the same way, and only a successful scan copies from the  *)
(* shared buffer before it returns.                                        *)
(*                                                                         *)
(* The actions leave a runner's own variables to the module that composes  *)
(* the controller with a runner, which also says when the controller may   *)
(* run at all.                                                             *)
(*                                                                         *)
(* Sequences are numbered as commands enter the channel: the number that a *)
(* send dropped before it entered has used up is seen by nobody.  The      *)
(* event queue and the counters are not read by anything here.             *)
(***************************************************************************)
EXTENDS Integers, Sequences

CONSTANTS
  MaxSequence,           \* bounds the commands the controller sends
  CommandCapacity,       \* of the command channel: 1
  CancellationCapacity   \* of the cancellation channel: 3

VARIABLES
  commands,       \* the command channel, a sequence of command numbers
  cancellations,  \* the cancellation channel
  completion,     \* the completion signal: its slot
  controller,     \* where the controller's one control future is
  awaited,        \* the command whose completion the future waits for
  dropped,        \* history: commands whose future was dropped while waiting
  sent            \* history: the last command that entered the channel

caller == <<controller, awaited, dropped, sent>>
controllerVars == <<commands, cancellations, completion, caller>>

CommandNumber == 1 .. MaxSequence
NoSequence == 0
NoCompletion == [sequence |-> NoSequence, result |-> "None"]

\* A future is in its send, waits for its completion, or copies the results
\* of the scan its completion answered.
FuturePlace == {"idle", "sending", "waiting", "copying"}

ControllerTypeOK(Result) ==
  /\ commands \in Seq(CommandNumber) /\ Len(commands) <= CommandCapacity
  /\ cancellations \in Seq(CommandNumber) /\ Len(cancellations) <= CancellationCapacity
  /\ completion \in [sequence : CommandNumber, result : Result] \cup {NoCompletion}
  /\ controller \in FuturePlace
  /\ awaited \in CommandNumber \cup {NoSequence}
  /\ dropped \subseteq CommandNumber
  /\ sent \in 0 .. MaxSequence

ControllerInit ==
  /\ commands = <<>>
  /\ cancellations = <<>>
  /\ completion = NoCompletion
  /\ controller = "idle"
  /\ awaited = NoSequence
  /\ dropped = {}
  /\ sent = 0

-----------------------------------------------------------------------------

\* Bound: the controller makes no call once every sequence is used.
Call ==
  /\ controller = "idle"
  /\ sent < MaxSequence
  /\ controller' = "sending"
  /\ UNCHANGED <<commands, cancellations, completion, awaited, dropped, sent>>

\* send_command completes, and the same poll arms the cancellation.
SendCommand ==
  /\ controller = "sending"
  /\ Len(commands) < CommandCapacity
  /\ sent' = sent + 1
  /\ commands' = Append(commands, sent + 1)
  /\ awaited' = sent + 1
  /\ controller' = "waiting"
  /\ UNCHANGED <<cancellations, completion, dropped>>

\* The drop of an OperationCancellation: a full channel loses the request.
RequestCancellation(s) ==
  cancellations' = IF Len(cancellations) < CancellationCapacity
                   THEN Append(cancellations, s) ELSE cancellations

\* Mutant: the cancellation is armed before the command is sent.
DropSendingArmed ==
  /\ controller = "sending"
  /\ controller' = "idle"
  /\ RequestCancellation(sent + 1)
  /\ UNCHANGED <<commands, completion, awaited, dropped, sent>>

\* A future dropped while the channel is full has nothing to cancel.
DropSending ==
  /\ controller = "sending"
  /\ controller' = "idle"
  /\ UNCHANGED <<commands, cancellations, completion, awaited, dropped, sent>>

\* Mutant: any completion ends the call.
ObserveAny ==
  /\ controller = "waiting"
  /\ completion # NoCompletion
  /\ completion' = NoCompletion
  /\ controller' \in {"idle", "copying"}
  /\ awaited' = NoSequence
  /\ UNCHANGED <<commands, cancellations, dropped, sent>>

\* The future takes what the slot holds, and goes on waiting when it is the
\* completion of an earlier, dropped one.
Observe ==
  /\ controller = "waiting"
  /\ completion # NoCompletion
  /\ completion' = NoCompletion
  /\ IF completion.sequence = awaited
     THEN controller' \in {"idle", "copying"} /\ awaited' = NoSequence
     ELSE UNCHANGED <<controller, awaited>>
  /\ UNCHANGED <<commands, cancellations, dropped, sent>>

\* The copy of the scan results is over, and the call returns.
CopyResults ==
  /\ controller = "copying"
  /\ controller' = "idle"
  /\ UNCHANGED <<commands, cancellations, completion, awaited, dropped, sent>>

DropWaiting ==
  /\ controller = "waiting"
  /\ controller' = "idle"
  /\ awaited' = NoSequence
  /\ dropped' = dropped \cup {awaited}
  /\ RequestCancellation(awaited)
  /\ UNCHANGED <<commands, completion, sent>>

ControllerNext ==
  \/ Call
  \/ SendCommand
  \/ DropSending
  \/ Observe
  \/ CopyResults
  \/ DropWaiting

-----------------------------------------------------------------------------
(* Parts of the properties that do not depend on the runner *)

\* The channel has room for the request of the future that waits.
RequestHasRoom == controller = "waiting" => Len(cancellations) < CancellationCapacity

\* The controller reads the scan buffer, or may begin to at its next poll.
ReadsScanBuffer ==
  \/ controller = "copying"
  \/ controller = "waiting" /\ completion.sequence = awaited
=============================================================================
