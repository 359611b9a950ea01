---------------------------- MODULE BlockingRunner ----------------------------
(***************************************************************************)
(* The blocking RadioRunner of src/wifi.rs with the WifiController it      *)
(* serves.  A backend call runs to its end inside the runner, so a         *)
(* cancellation is looked at once, before the call.                        *)
(*                                                                         *)
(* The runner is a thread of its own: the controller may run between any   *)
(* two steps.  run_once polls the backend after the command, run does      *)
(* not; a runner may be driven by either, so a step that ends a command    *)
(* may go on to a poll or not.                                             *)
(***************************************************************************)
EXTENDS WifiController

CONSTANT PollError     \* the errors that backend.poll may return

\* The code's capacities are 1 and 3: beside the requests for the commands in
\* their channel there may be one for the command that is performed and one,
\* not discarded yet, for the command before it.
ASSUME BlockingAssumption ==
  /\ MaxSequence \in Nat
  /\ CommandCapacity \in Nat \ {0}
  /\ CancellationCapacity \in Nat
  /\ CancellationCapacity >= CommandCapacity + 2
  /\ NoSequence \notin PollError

VARIABLES
  step,           \* how far the runner is in run_once or run
  current,        \* the command it has received and not answered
  result,         \* what the completion it is about to signal says
  lastPollError,  \* error of the last poll, NoSequence if it was none
  answers         \* history: the completion signalled for each command

runnerSide == <<step, current, result, lastPollError, answers>>
blockingVars == <<runnerSide, controllerVars>>

Result == {"Completed", "Cancelled", "Failed"}

BlockingTypeOK ==
  /\ ControllerTypeOK(Result)
  /\ step \in {"receive", "drain", "perform", "signal", "poll"}
  /\ current \in CommandNumber \cup {NoSequence}
  /\ result \in Result \cup {"None"}
  /\ lastPollError \in PollError \cup {NoSequence}
  /\ answers \in [CommandNumber -> Result \cup {"None"}]

BlockingInit ==
  /\ ControllerInit
  /\ step = "receive"
  /\ current = NoSequence
  /\ result = "None"
  /\ lastPollError = NoSequence
  /\ answers = [s \in CommandNumber |-> "None"]

-----------------------------------------------------------------------------
(* RadioRunner *)

ReceiveCommand ==
  /\ step = "receive"
  /\ commands # <<>>
  /\ current' = Head(commands)
  /\ commands' = Tail(commands)
  /\ step' = "drain"
  /\ UNCHANGED <<result, lastPollError, answers, cancellations, completion, caller>>

\* run_once without a command goes on to the poll.
NothingToReceive ==
  /\ step = "receive"
  /\ commands = <<>>
  /\ step' = "poll"
  /\ UNCHANGED <<current, result, lastPollError, answers, controllerVars>>

\* Mutant: only the oldest request is looked at.
DiscardOneStale ==
  /\ step = "drain"
  /\ cancellations # <<>> /\ Head(cancellations) # current
  /\ cancellations' = Tail(cancellations)
  /\ step' = "perform"
  /\ UNCHANGED <<current, result, lastPollError, answers, commands, completion, caller>>

\* process_or_cancel_command takes requests until it finds the one for the
\* command or none is left; the others are forgotten.
DiscardStaleCancellation ==
  /\ step = "drain"
  /\ cancellations # <<>> /\ Head(cancellations) # current
  /\ cancellations' = Tail(cancellations)
  /\ UNCHANGED <<runnerSide, commands, completion, caller>>

\* Mutant: the requests behind the one that matched are discarded as well.
CancelCommandDraining ==
  /\ step = "drain"
  /\ cancellations # <<>> /\ Head(cancellations) = current
  /\ cancellations' = <<>>
  /\ result' = "Cancelled"
  /\ step' = "signal"
  /\ UNCHANGED <<current, lastPollError, answers, commands, completion, caller>>

CancelCommand ==
  /\ step = "drain"
  /\ cancellations # <<>> /\ Head(cancellations) = current
  /\ cancellations' = Tail(cancellations)
  /\ result' = "Cancelled"
  /\ step' = "signal"
  /\ UNCHANGED <<current, lastPollError, answers, commands, completion, caller>>

BeginCommand ==
  /\ step = "drain"
  /\ cancellations = <<>>
  /\ step' = "perform"
  /\ UNCHANGED <<current, result, lastPollError, answers, controllerVars>>

\* process_command: the backend call returns, and its event is published.
PerformCommand(outcome) ==
  /\ step = "perform"
  /\ result' = outcome
  /\ step' = "signal"
  /\ UNCHANGED <<current, lastPollError, answers, controllerVars>>

\* Mutant: a cancelled command is answered, and performed all the same.
SignalAndPerform ==
  /\ step = "signal"
  /\ completion' = [sequence |-> current, result |-> result]
  /\ answers' = [answers EXCEPT ![current] = result]
  /\ IF result = "Cancelled"
     THEN step' = "perform" /\ UNCHANGED current
     ELSE step' \in {"receive", "poll"} /\ current' = NoSequence
  /\ result' = "None"
  /\ UNCHANGED <<lastPollError, commands, cancellations, caller>>

\* Mutant: a completion that nobody took yet is not replaced.
SignalIfEmpty ==
  /\ step = "signal"
  /\ completion' = IF completion # NoCompletion THEN completion
                   ELSE [sequence |-> current, result |-> result]
  /\ answers' = [answers EXCEPT ![current] = result]
  /\ current' = NoSequence
  /\ result' = "None"
  /\ step' \in {"receive", "poll"}
  /\ UNCHANGED <<lastPollError, commands, cancellations, caller>>

SignalCompletion ==
  /\ step = "signal"
  /\ completion' = [sequence |-> current, result |-> result]
  /\ answers' = [answers EXCEPT ![current] = result]
  /\ current' = NoSequence
  /\ result' = "None"
  /\ step' \in {"receive", "poll"}
  /\ UNCHANGED <<lastPollError, commands, cancellations, caller>>

\* The poll of run_once; an error is published when it is not the last one.
PollBackground(error) ==
  /\ step = "poll"
  /\ lastPollError' = error
  /\ step' = "receive"
  /\ UNCHANGED <<current, result, answers, controllerVars>>

RunnerNext ==
  \/ ReceiveCommand
  \/ NothingToReceive
  \/ DiscardStaleCancellation
  \/ CancelCommand
  \/ BeginCommand
  \/ \E outcome \in {"Completed", "Failed"} : PerformCommand(outcome)
  \/ SignalCompletion
  \/ \E error \in PollError \cup {NoSequence} : PollBackground(error)

ControllerStep == ControllerNext /\ UNCHANGED runnerSide

BlockingNext == RunnerNext \/ ControllerStep

BlockingSpec == BlockingInit /\ [][BlockingNext]_blockingVars

\* Fairness: the runner's thread goes on and every backend call returns; a
\* woken control future is polled.
FairBlockingSpec ==
  /\ BlockingSpec
  /\ WF_blockingVars(RunnerNext)
  /\ WF_blockingVars(SendCommand /\ UNCHANGED runnerSide)
  /\ WF_blockingVars(Observe /\ UNCHANGED runnerSide)
  /\ WF_blockingVars(CopyResults /\ UNCHANGED runnerSide)

-----------------------------------------------------------------------------
(* Properties *)

\* The three places of the cancellation channel are enough for a runner that
\* leaves requests unread while a backend call runs.
CancellationsFit == RequestHasRoom

\* Dropping a future requests cancellation: until the command is answered
\* the request is in the channel, or the backend call had begun before it.
DropRequestsCancel ==
  \A s \in dropped : answers[s] = "None" =>
    \/ \E i \in 1 .. Len(cancellations) : cancellations[i] = s
    \/ current = s /\ step \in {"perform", "signal"}

\* Every variable has its type, the cancellation channel its room and no
\* request of a dropped future is lost.
BlockingInvariant == BlockingTypeOK /\ CancellationsFit /\ DropRequestsCancel

\* A command whose future was dropped before its backend call is never
\* performed: no other command's turn consumes its request.
DroppedIsNotStarted ==
  [][step' = "perform" /\ step # "perform" => current \notin dropped]_blockingVars

\* While the controller reads the scan buffer the runner borrows it for no
\* scan, and has none to begin.
ScanBufferIsQuiet ==
  ReadsScanBuffer => step \notin {"drain", "perform"} /\ commands = <<>>

\* The blocking runner keeps the same promise of CommandService as the
\* incremental driver: commands run one at a time in the order they were
\* sent, each is answered once, and a withdrawn one is never performed.
StatusOf(s) ==
  CASE answers[s] # "None" -> answers[s]
    [] answers[s] = "None" /\ s = current ->
         IF step = "drain" \/ result = "Cancelled" THEN "Waiting" ELSE "Running"
    [] answers[s] = "None" /\ s # current -> "Unknown"

Service == INSTANCE CommandService
  WITH status <- [s \in CommandNumber |-> StatusOf(s)]

ImplementsService == Service!ServiceSpec

\* Every call is answered, unless it is dropped: a dropped one of before
\* cannot keep it from its turn.
CallIsAnswered == controller = "waiting" ~> controller # "waiting"
=============================================================================
