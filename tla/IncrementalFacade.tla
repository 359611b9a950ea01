-------------------------- MODULE IncrementalFacade --------------------------
(***************************************************************************)
(* The async facade: the unique WifiController of src/wifi.rs and the      *)
(* IncrementalRadioRunner of src/incremental/facade.rs, joined by the      *)
(* command channel, the cancellation channel and the completion signal of  *)
(* src/state.rs, around the whole of IncrementalDriver.                    *)
(*                                                                         *)
(* run_once takes a command, then a cancellation, then drives, then        *)
(* publishes: four steps on the shared channels.  Preemptive says whether  *)
(* the controller may run between them, as it may when its task is of      *)
(* higher priority or on another core; on one cooperative executor it      *)
(* runs only while the runner waits for its next wake.                     *)
(*                                                                         *)
(* The event queue and the counters are not read by anything here.         *)
(***************************************************************************)
EXTENDS IncrementalDriver, Sequences, FiniteSets

CONSTANTS
  CommandCapacity,       \* of the command channel: 1
  CancellationCapacity,  \* of the cancellation channel: 3
  Preemptive             \* may the controller run inside run_once

\* The code's capacities are 1 and 3: beside the requests for the commands in
\* their channel there may be one for the command received last and one, not
\* taken yet, for the command before it.
ASSUME FacadeAssumption ==
  /\ CommandCapacity \in Nat \ {0}
  /\ CancellationCapacity \in Nat
  /\ CancellationCapacity >= CommandCapacity + 2
  /\ Preemptive \in BOOLEAN

VARIABLES
  commands, cancellations, completion,   \* shared by controller and runner,
  controller, awaited, dropped, sent,    \* and the controller's own, as in
                                         \* WifiController
  ledger,         \* CommandLedger of the runner
  step,           \* how far the runner is in wait_ready and run_once
  ready,          \* the wait set wait_ready returned
  publishing      \* the command the event to publish answers

INSTANCE WifiController

driver == <<arbiter, runner, deadline, event, submitted, outcome, cancelCalls>>
runnerSide == <<driver, ledger, step, ready, publishing>>
future == <<controller, awaited, dropped, sent>>
facadeVars == <<runnerSide, commands, cancellations, completion, future>>

Result == TerminalEvent \cup {"Protocol"}
LedgerSize == 2

FacadeTypeOK ==
  /\ DriverTypeOK
  /\ ControllerTypeOK(Result)
  /\ ledger \subseteq Sequence
  /\ step \in {"wait", "receive", "cancel", "drive", "publish"}
  /\ ready \subseteq WaitSource
  /\ publishing \in Sequence \cup {NoCommand}

FacadeInit ==
  /\ Init
  /\ ControllerInit
  /\ ledger = {}
  /\ step = "wait"
  /\ ready = {}
  /\ publishing = NoCommand

-----------------------------------------------------------------------------
(* Who may run *)

MayCall == Preemptive \/ step = "wait"

\* The one pause inside a poll of the controller is the copy of the results.
MayRun == Preemptive \/ controller # "copying"

-----------------------------------------------------------------------------
(* IncrementalRadioRunner *)

\* Mutant: a cancellation waits for the next wake.
ImmediateUncancelled == RunImmediately \/ (CanSubmit(arbiter) /\ commands # <<>>)

\* Mutant: a command waits for the next wake.
ImmediateUncommanded == RunImmediately \/ cancellations # <<>>

\* wait_intent of the facade: the driver's, and what the channels hold.
Immediate ==
  \/ RunImmediately
  \/ CanSubmit(arbiter) /\ commands # <<>>
  \/ cancellations # <<>>

\* What wait_ready may find ready when it has to sleep: a subscribed platform
\* source, or the command channel if the backend subscribed it although the
\* driver has no room.  Room for a command, or a cancellation, is Immediate.
Awake(sources) ==
  /\ sources # {}
  /\ sources \subseteq WaitSources \ {"CANCEL"}
  /\ "COMMAND" \in sources => commands # <<>>

\* wait_ready: the empty set at once, or what is ready after a sleep.
WaitReady(sources) ==
  /\ MayRun
  /\ step = "wait"
  /\ IF Immediate THEN sources = {} ELSE Awake(sources)
  /\ ready' = sources
  /\ step' = "receive"
  /\ UNCHANGED <<driver, commands, cancellations, completion, future, ledger, publishing>>

\* run_once, first: take a command if the driver has room for one.
TakeCommand ==
  /\ step = "receive"
  /\ CanSubmit(arbiter) /\ commands # <<>>
  /\ commands' = Tail(commands)
  /\ IF Cardinality(ledger) < LedgerSize
     THEN /\ Submit
          /\ ledger' = ledger \cup {Head(commands)}
          /\ step' = "cancel"
          /\ UNCHANGED completion
     ELSE /\ completion' = [sequence |-> Head(commands), result |-> "Protocol"]
          /\ step' = "wait"
          /\ UNCHANGED <<driver, ledger>>
  /\ UNCHANGED <<cancellations, future, ready, publishing>>

NoCommandToTake ==
  /\ step = "receive"
  /\ ~(CanSubmit(arbiter) /\ commands # <<>>)
  /\ step' = "cancel"
  /\ UNCHANGED <<driver, commands, cancellations, completion, future,
                 ledger, ready, publishing>>

\* Mutant: the channel is drained and only the first request is served.
TakeCancellationDraining ==
  /\ step = "cancel"
  /\ cancellations # <<>>
  /\ LET s == Head(cancellations) IN
       \/ /\ CancelBySequence(s)
          /\ IF outcome' # outcome
             THEN step' = "publish" /\ publishing' = s
             ELSE step' = "drive" /\ UNCHANGED publishing
       \/ /\ CancelKind(arbiter, s) \in {"AlreadyRequested", "NotFound"}
          /\ step' = "drive"
          /\ UNCHANGED <<driver, publishing>>
  /\ cancellations' = <<>>
  /\ UNCHANGED <<commands, completion, future, ledger, ready>>

\* Second: take one cancellation; one of a command that never reached the
\* backend answers it and ends the call.
TakeCancellation ==
  /\ step = "cancel"
  /\ cancellations # <<>>
  /\ LET s == Head(cancellations) IN
       \/ /\ CancelBySequence(s)
          /\ IF outcome' # outcome
             THEN step' = "publish" /\ publishing' = s
             ELSE step' = "drive" /\ UNCHANGED publishing
       \/ /\ CancelKind(arbiter, s) \in {"AlreadyRequested", "NotFound"}
          /\ step' = "drive"
          /\ UNCHANGED <<driver, publishing>>
  /\ cancellations' = Tail(cancellations)
  /\ UNCHANGED <<commands, completion, future, ledger, ready>>

NoCancellationToTake ==
  /\ step = "cancel"
  /\ cancellations = <<>>
  /\ step' = "drive"
  /\ UNCHANGED <<driver, commands, cancellations, completion, future,
                 ledger, ready, publishing>>

\* Third: one bounded action of the driver; an error ends the call.
Drive ==
  /\ step = "drive"
  /\ DriveOnce(ready)
  /\ IF outcome' = outcome
     THEN step' = "wait" /\ UNCHANGED publishing
     ELSE /\ step' = "publish"
          /\ publishing' = CHOOSE s \in Sequence : outcome'[s] # outcome[s]
  /\ ready' = {}
  /\ UNCHANGED <<commands, cancellations, completion, future, ledger>>

\* Mutant: a failed command stays in the ledger.
PublishFailedKept(matches) ==
  /\ step = "publish"
  /\ ledger' = IF outcome[publishing] = "Failed" THEN ledger ELSE ledger \ {publishing}
  /\ completion' = [sequence |-> publishing, result |-> outcome[publishing]]
  /\ step' = "wait"
  /\ ready' = {}
  /\ publishing' = NoCommand
  /\ UNCHANGED <<driver, commands, cancellations, future>>

\* Mutant: a completion that nobody took yet is not replaced.
PublishIfEmpty(matches) ==
  /\ step = "publish"
  /\ ledger' = ledger \ {publishing}
  /\ completion' = IF completion # NoCompletion THEN completion
                   ELSE [sequence |-> publishing, result |-> outcome[publishing]]
  /\ step' = "wait"
  /\ ready' = {}
  /\ publishing' = NoCommand
  /\ UNCHANGED <<driver, commands, cancellations, future>>

\* Last: publish_terminal.  `matches' says whether a success is of the kind
\* the command asked for.
Publish(matches) ==
  /\ step = "publish"
  /\ ledger' = ledger \ {publishing}
  /\ completion' = [sequence |-> publishing,
                    result |-> IF publishing \in ledger
                                  /\ (outcome[publishing] = "Completed" => matches)
                               THEN outcome[publishing] ELSE "Protocol"]
  /\ step' = "wait"
  /\ ready' = {}
  /\ publishing' = NoCommand
  /\ UNCHANGED <<driver, commands, cancellations, future>>

RunnerStep ==
  \/ \E sources \in SUBSET WaitSource : WaitReady(sources)
  \/ TakeCommand
  \/ NoCommandToTake
  \/ TakeCancellation
  \/ NoCancellationToTake
  \/ Drive
  \/ \E matches \in BOOLEAN : Publish(matches)

ControllerStep ==
  /\ MayCall
  /\ ControllerNext
  /\ UNCHANGED runnerSide

FacadeNext == RunnerStep \/ ControllerStep

FacadeSpec == FacadeInit /\ [][FacadeNext]_facadeVars

\* Fairness of the code alone: the runner's loop goes on while it need not
\* sleep, and a woken control future is polled.  Dropping a future and making
\* a call are up to the application, and no platform source need be ready.
FairFacadeSpec ==
  /\ FacadeSpec
  /\ WF_facadeVars(RunnerStep /\ (step = "wait" => Immediate))
  /\ WF_facadeVars(MayCall /\ SendCommand /\ UNCHANGED runnerSide)
  /\ WF_facadeVars(MayCall /\ Observe /\ UNCHANGED runnerSide)
  /\ WF_facadeVars(MayCall /\ CopyResults /\ UNCHANGED runnerSide)

\* A live backend: a source it waits for becomes ready, and it does not leave
\* an operation pending for ever that is polled again and again.
BackendIsLive ==
  /\ WF_facadeVars(RunnerStep)
  /\ SF_facadeVars(Drive /\ event' \in TerminalEvent)

-----------------------------------------------------------------------------
(* Properties *)

\* The cancellation channel always has room for the future that may be
\* dropped next, as the comment in OperationCancellation claims.
CancellationsFit == RequestHasRoom

\* Dropping a future requests cancellation: until the command is answered
\* its number is in the channel, or the arbiter has taken the request on.
DropRequestsCancel ==
  \A s \in dropped : outcome[s] = "None" =>
    \/ \E i \in 1 .. Len(cancellations) : cancellations[i] = s
    \/ arbiter.active.sequence = s /\ (arbiter.active.cancelIntent \/ arbiter.active.cancelRequested)

\* The ledger knows every command the driver holds or has just answered, and
\* none else, so that no answer is turned into a protocol error.
LedgerMatchesDriver ==
  ledger = ({arbiter.active.sequence, arbiter.pending, publishing} \ {NoCommand})

\* Every variable has its type, the ledger is the driver's and the
\* cancellation channel has its room.
FacadeInvariant == FacadeTypeOK /\ LedgerMatchesDriver /\ CancellationsFit

\* What a future may be told: the driver's answer, but "Protocol" for a success
\* of another kind than the command asked for.
AnswersFor(s) ==
  IF outcome[s] = "Completed" THEN {"Completed", "Protocol"} ELSE {outcome[s]}

\* The answer of the awaited command stays in the slot until it is observed,
\* and it is the driver's.
AnswerIsKept ==
  controller = "waiting" /\ outcome[awaited] # "None" /\ publishing # awaited
    => completion.sequence = awaited /\ completion.result \in AnswersFor(awaited)

\* The controller reads the scan buffer after its completion while the
\* runner goes on: by then no operation is left that could write to it, and
\* nothing wakes the runner into a drive_once, which borrows the buffer
\* mutably even when it polls no backend.
ScanBufferIsQuiet ==
  ReadsScanBuffer =>
    /\ ~HasActive(arbiter) /\ arbiter.pending = NoCommand /\ commands = <<>>
    /\ step # "drive"

\* Every call is answered, unless it is dropped, when the backend is live.
CallIsAnswered ==
  BackendIsLive => (controller = "waiting" ~> controller # "waiting")

\* The cancellation of a dropped future reaches the backend, or the command
\* ends before, without the help of a backend or timer wake.
DropReachesBackend ==
  \A s \in Sequence : s \in dropped ~> outcome[s] # "None" \/ cancelCalls[s] = 1
=============================================================================
