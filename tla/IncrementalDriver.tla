-------------------------- MODULE IncrementalDriver --------------------------
(***************************************************************************)
(* IncrementalBackendDriver of src/incremental/driver.rs: the arbiter and  *)
(* the runner core composed around one incremental backend.                *)
(*                                                                         *)
(* The driver is a synchronous object with one owner, so one call of       *)
(* submit, request_cancel or drive_once is one step.  The backend is not   *)
(* in this repository: it answers every start, poll and cancel in any way  *)
(* its trait allows, a poll also with a report kept from another           *)
(* operation, and its deadline for the active operation may change at each *)
(* call it gets.                                                           *)
(***************************************************************************)
EXTENDS RunnerState, CommandArbiter

CONSTANTS
  MaxSequence,     \* last controller sequence; bounds the commands submitted
  BackendSources   \* sources a backend report may wait for

ASSUME DriverAssumption ==
  /\ MaxSequence \in Nat
  /\ BackendSources \subseteq WaitSource

VARIABLES
  arbiter,      \* CommandArbiter
  runner,       \* IncrementalRunnerState
  deadline,     \* does the backend have a deadline for the active operation
  event,        \* what the last drive_once or request_cancel returned
  submitted,    \* history: the last sequence submitted
  outcome,      \* history: terminal event returned for each sequence
  cancelCalls   \* history: calls of backend.cancel for each sequence

vars == <<arbiter, runner, deadline, event, submitted, outcome, cancelCalls>>

Sequence == 1 .. MaxSequence
OperationId == 1 .. MaxGeneration

TerminalEvent == {"Completed", "Cancelled", "Failed"}
DriverEvent == TerminalEvent \cup
  {"Idle", "Started", "CancelRequested", "Waiting", "Pending",
   "BudgetExhausted", "Error"}

\* Reports a backend can build: any disposition that some account of events
\* and time makes acceptable, for a budget of one event and one time unit.
\* Only the two pending dispositions carry a wait set.
ReportShape ==
  {shape \in [disposition : Disposition, waitFor : SUBSET BackendSources] :
     /\ shape.disposition \in {"Complete", "Cancelled"} => shape.waitFor = {}
     /\ \E events, elapsed \in 0 .. 2, madeProgress \in BOOLEAN :
          ReportAccepted(1, 1, events, elapsed, madeProgress, shape)}

\* What a caller may present as ready; a source nobody can subscribe to makes
\* no difference to any step, and the facade removes CANCEL before the call.
ReadySet == SUBSET ((BackendSources \cup {"COMMAND", "BACKEND", "TIMER"}) \ {"CANCEL"})

DriverTypeOK ==
  /\ arbiter \in Arbiter(Sequence, OperationId)
  /\ runner \in Runner
  /\ deadline \in BOOLEAN
  /\ event \in DriverEvent
  /\ submitted \in 0 .. MaxSequence
  /\ outcome \in [Sequence -> TerminalEvent \cup {"None"}]
  /\ cancelCalls \in [Sequence -> Nat]

Init ==
  /\ arbiter = NewArbiter
  /\ runner = NewRunner
  /\ deadline = FALSE
  /\ event = "Idle"
  /\ submitted = 0
  /\ outcome = [s \in Sequence |-> "None"]
  /\ cancelCalls = [s \in Sequence |-> 0]

-----------------------------------------------------------------------------
(* The three entry points, and what each call of drive_once may do *)

\* An error exit: the call returns Err, with what it had changed by then.
DriverError(a, r) ==
  /\ event' = "Error"
  /\ arbiter' = a
  /\ runner' = r
  /\ UNCHANGED outcome

\* finish_terminal for the active operation, whose terminal state r holds.
FinishTerminal(r, kind) ==
  IF CanFinishActive(arbiter, r.operation) /\ CanReap(r, r.operation)
  THEN /\ arbiter' = FinishActive(arbiter)
       /\ runner' = Reap(r)
       /\ event' = kind
       /\ outcome' = [outcome EXCEPT ![arbiter.active.sequence] = kind]
  ELSE DriverError(arbiter, r)

\* submit: a full pending slot hands the command back and changes nothing.
Submit ==
  /\ submitted < MaxSequence
  /\ CanSubmit(arbiter)
  /\ submitted' = submitted + 1
  /\ arbiter' = Submitted(arbiter, submitted + 1)
  /\ UNCHANGED <<runner, deadline, event, outcome, cancelCalls>>

\* request_cancel; a sequence the arbiter does not hold changes nothing.
CancelBySequence(s) ==
  /\ \/ /\ CancelKind(arbiter, s) = "RequestActive"
        /\ arbiter' = IntendCancel(arbiter)
        /\ UNCHANGED <<event, outcome>>
     \/ /\ CancelKind(arbiter, s) = "RemovePending"
        /\ arbiter' = RemovePending(arbiter)
        /\ event' = "Cancelled"
        /\ outcome' = [outcome EXCEPT ![s] = "Cancelled"]
  /\ UNCHANGED <<runner, deadline, submitted, cancelCalls>>

DriveIdle ==
  /\ ArbiterAction(arbiter) \in {"Idle", "Starting"}
  /\ IF ArbiterAction(arbiter) = "Idle"
     THEN event' = "Idle" /\ UNCHANGED <<arbiter, runner, outcome>>
     ELSE DriverError(arbiter, runner)
  /\ UNCHANGED <<deadline, submitted, cancelCalls>>

\* start_pending; `accepted' is the backend's answer to start.
StartPending(accepted) ==
  /\ ArbiterAction(arbiter) = "StartPending"
  /\ LET taken    == TakeStartable(arbiter)
         sequence == arbiter.pending
         queued   == Queue(runner)
     IN IF ~CanQueue(runner) THEN DriverError(taken, runner)
        ELSE IF accepted
        THEN /\ runner' = MarkStarted(queued)
             /\ arbiter' = BindStarted(taken, sequence, queued.operation)
             /\ event' = "Started"
             /\ UNCHANGED outcome
        ELSE /\ runner' = Reap(Terminate(queued))
             /\ arbiter' = ClearStarting(taken)
             /\ event' = "Failed"
             /\ outcome' = [outcome EXCEPT ![sequence] = "Failed"]
  /\ deadline' \in BOOLEAN
  /\ UNCHANGED <<submitted, cancelCalls>>

\* Mutant: a refused cancellation is left to be tried again.
CancelActiveRetrying(accepted) ==
  /\ ArbiterAction(arbiter) = "CancelActive"
  /\ cancelCalls' = [cancelCalls EXCEPT ![arbiter.active.sequence] = @ + 1]
  /\ IF accepted
     THEN /\ runner' = MarkCancelNotified(RequestCancel(runner))
          /\ arbiter' = MarkCancelRequested(arbiter)
          /\ event' = "CancelRequested"
          /\ UNCHANGED outcome
     ELSE DriverError(arbiter, runner)
  /\ deadline' \in BOOLEAN
  /\ UNCHANGED submitted

\* cancel_active; `accepted' is the backend's answer to cancel.
CancelActive(accepted) ==
  /\ ArbiterAction(arbiter) = "CancelActive"
  /\ LET operation == arbiter.active.operation
         requested == RequestCancel(runner)
     IN CASE CancelDirective(runner, operation) = "NotifyBackend" ->
               /\ cancelCalls' = [cancelCalls EXCEPT ![arbiter.active.sequence] = @ + 1]
               /\ IF accepted
                  THEN /\ runner' = MarkCancelNotified(requested)
                       /\ arbiter' = MarkCancelRequested(arbiter)
                       /\ event' = "CancelRequested"
                       /\ UNCHANGED outcome
                  ELSE FinishTerminal(Terminate(requested), "Failed")
          [] CancelDirective(runner, operation) = "CompleteLocally" ->
               DriverError(arbiter, requested) /\ UNCHANGED cancelCalls
          [] CancelDirective(runner, operation) \in {"Rejected", "AlreadyRequested"} ->
               DriverError(arbiter, runner) /\ UNCHANGED cancelCalls
  /\ deadline' \in BOOLEAN
  /\ UNCHANGED submitted

\* Mutant: a due deadline wakes an operation only if its report said so.
WatchedAsReported(ready) == runner

\* poll_active before the step is chosen: a due deadline wakes the operation
\* even when its last report did not ask for the timer.
Watched(ready) ==
  IF "TIMER" \in ready /\ deadline THEN Subscribe(runner, {"TIMER"}) ELSE runner
Step(ready)   == StepKind(Watched(ready), ready)
Polled(ready) == Stepped(Watched(ready), ready)

PollWaiting(ready) ==
  /\ ArbiterAction(arbiter) = "WaitActive"
  /\ Step(ready) = "Waiting"
  /\ runner' = Watched(ready)
  /\ event' = "Waiting"
  /\ UNCHANGED <<arbiter, deadline, submitted, outcome, cancelCalls>>

\* A step the driver has no use for: no operation, or a turn for a command.
PollMisdirected(ready) ==
  /\ ArbiterAction(arbiter) = "WaitActive"
  /\ Step(ready) \in {"Idle", "CommandReady"}
  /\ DriverError(arbiter, Polled(ready))
  /\ UNCHANGED <<deadline, submitted, cancelCalls>>

PollBackend(ready) ==
  /\ ArbiterAction(arbiter) = "WaitActive"
  /\ Step(ready) = "PollBackend"
  /\ deadline' \in BOOLEAN
  /\ UNCHANGED <<submitted, cancelCalls>>

\* apply_report of a report that leaves the operation pending.
PollPending(ready, shape) ==
  /\ PollBackend(ready)
  /\ shape.disposition \in {"Pending", "BudgetExhausted"}
  /\ IF Live(runner, runner.operation)
     THEN /\ runner' = Resubscribe(Polled(ready), shape.waitFor)
          /\ event' = shape.disposition
          /\ UNCHANGED <<arbiter, outcome>>
     ELSE DriverError(arbiter, Polled(ready))

\* Mutant: a success that arrives after the cancellation is passed on.
PollTerminalUnsuppressed(ready, shape) ==
  /\ PollBackend(ready)
  /\ shape.disposition \in {"Complete", "Cancelled"}
  /\ IF ~Live(runner, runner.operation) THEN DriverError(arbiter, Polled(ready))
     ELSE FinishTerminal(Terminate(Polled(ready)),
            IF shape.disposition = "Complete" THEN "Completed" ELSE "Cancelled")

\* apply_report of a terminal report: a success that arrives after the
\* cancellation is suppressed, and a backend may cancel on its own account.
PollTerminal(ready, shape) ==
  /\ PollBackend(ready)
  /\ shape.disposition \in {"Complete", "Cancelled"}
  /\ IF ~Live(runner, runner.operation) THEN DriverError(arbiter, Polled(ready))
     ELSE FinishTerminal(Terminate(Polled(ready)),
            IF shape.disposition = "Complete" /\ runner.lifecycle # "CancelRequested"
            THEN "Completed" ELSE "Cancelled")

\* apply_error after the backend failed the poll.
PollFailed(ready) ==
  /\ PollBackend(ready)
  /\ IF ~Live(runner, runner.operation) THEN DriverError(arbiter, Polled(ready))
     ELSE FinishTerminal(Terminate(Polled(ready)), "Failed")

\* Mutant: the identity is compared only after the terminal was committed.
PollStaleCommitted(ready, reported) ==
  /\ PollBackend(ready)
  /\ reported # runner.operation
  /\ DriverError(arbiter, Terminate(Polled(ready)))

\* apply_report of a report that carries another operation's identity.
PollStale(ready, reported) ==
  /\ PollBackend(ready)
  /\ reported # runner.operation
  /\ DriverError(arbiter, Polled(ready))

DriveOnce(ready) ==
  \/ DriveIdle
  \/ \E accepted \in BOOLEAN : StartPending(accepted) \/ CancelActive(accepted)
  \/ PollWaiting(ready)
  \/ PollMisdirected(ready)
  \/ \E shape \in ReportShape : PollPending(ready, shape) \/ PollTerminal(ready, shape)
  \/ PollFailed(ready)
  \/ \E reported \in OperationId : PollStale(ready, reported)

Next ==
  \/ Submit
  \/ \E s \in 1 .. submitted : CancelBySequence(s)
  \/ \E ready \in ReadySet : DriveOnce(ready)

Spec == Init /\ [][Next]_vars

-----------------------------------------------------------------------------
(* wait_intent: what the facade sleeps on before the next drive_once *)

\* A deadline is asked for on behalf of an active operation only.
WaitSources ==
  IF HasActive(arbiter) /\ deadline THEN runner.waitFor \cup {"TIMER"} ELSE runner.waitFor

\* Mutant: an empty subscription is taken for nothing to do.
RunsOnCommandsOnly == ArbiterAction(arbiter) \in {"StartPending", "Starting", "CancelActive"}

RunImmediately ==
  \/ ArbiterAction(arbiter) \in {"StartPending", "Starting", "CancelActive"}
  \/ ArbiterAction(arbiter) = "WaitActive" /\ runner.waitFor = {}

-----------------------------------------------------------------------------
(* Properties *)

\* The arbiter and the runner core, which keep the active command
\* separately, always agree on it: same identity, same cancellation state,
\* nothing half-started, nothing terminal left unreaped.  This is what keeps
\* every `?' of the driver from leaving a command stuck.
Agreement ==
  /\ arbiter.starting = NoCommand
  /\ ~HasActive(arbiter) => runner.lifecycle = "None" /\ runner.operation = 0
  /\ HasActive(arbiter) =>
       /\ runner.operation = arbiter.active.operation
       /\ runner.lifecycle = IF arbiter.active.cancelRequested
                             THEN "CancelRequested" ELSE "Started"

\* Every variable has its type, and the arbiter and the runner core agree.
DriverConsistent == DriverTypeOK /\ Agreement

\* Every submitted command is in exactly one place: waiting, active, or
\* answered by a terminal event.  No path of submit, cancellation, failed
\* start, suppression or error loses one or answers one that still runs.
Accounted ==
  \A s \in Sequence :
    LET held == s \in {arbiter.pending, arbiter.active.sequence}
    IN /\ held => outcome[s] = "None"
       /\ (s <= submitted /\ outcome[s] = "None") => held
       /\ s > submitted => ~held /\ outcome[s] = "None"
       /\ ~(s = arbiter.pending /\ s = arbiter.active.sequence)

\* The backend is asked to cancel an operation at most once, by whatever mix
\* of dropped futures and replacement commands the request arrives, and only
\* for a command that was bound to it.
CancelledOnce == \A s \in Sequence : cancelCalls[s] <= 1

\* An Err of drive_once that is not a stale report never happens: each call
\* of an internal transition is legal whenever the driver makes it.  The
\* state form: whatever is ready, the chosen step is one the driver can do.
\* The driver has no use for a turn of the command plane, so this holds only
\* as long as the backend's last report did not subscribe COMMAND.
NoMisdirectedStep ==
  /\ ArbiterAction(arbiter) # "Starting"
  /\ ArbiterAction(arbiter) = "StartPending" => CanQueue(runner)
  /\ ArbiterAction(arbiter) = "CancelActive" =>
       CancelDirective(runner, arbiter.active.operation) = "NotifyBackend"
  /\ ArbiterAction(arbiter) = "WaitActive" /\ "COMMAND" \notin runner.waitFor =>
       \A ready \in ReadySet : Step(ready) \notin {"Idle", "CommandReady"}

\* A wake on any platform source the wait intent names is served: the next
\* drive_once with it ready does not answer Waiting, so the runner never
\* spins on a source it subscribed to and a due deadline is never ignored.
WakesAreServed ==
  ArbiterAction(arbiter) = "WaitActive" =>
    \A ready \in ReadySet :
      ready \cap WaitSources \cap {"BACKEND", "L2_RX", "TIMER"} # {} => Step(ready) # "Waiting"

\* Sleeping is safe: when the intent does not ask to run at once, a
\* drive_once with nothing ready would have had nothing to do.
SleepsOnlyWhenIdle ==
  ~RunImmediately <=>
    \/ ArbiterAction(arbiter) = "Idle"
    \/ ArbiterAction(arbiter) = "WaitActive" /\ Step({}) = "Waiting"

\* The wait intent is neither too small nor too large: the runner oversleeps
\* no wake and spins on none.
WaitIntentIsExact == WakesAreServed /\ SleepsOnlyWhenIdle

\* The driver keeps the promise of CommandService: order, one waiting and
\* one running command, one answer each, and no success once a command's
\* cancellation was intended or delivered, whatever the backend reports.
StatusOf(s) ==
  CASE outcome[s] # "None" -> outcome[s]
    [] outcome[s] = "None" /\ s = arbiter.active.sequence ->
         IF arbiter.active.cancelIntent \/ arbiter.active.cancelRequested
         THEN "Cancelling" ELSE "Running"
    [] /\ outcome[s] = "None" /\ s # arbiter.active.sequence
       /\ s = arbiter.pending -> "Waiting"
    [] outcome[s] = "None" /\ s \notin {arbiter.active.sequence, arbiter.pending} -> "Unknown"

ServiceStatus == [s \in Sequence |-> StatusOf(s)]

Service == INSTANCE CommandService WITH status <- ServiceStatus

ImplementsService == Service!ServiceSpec

\* A drive_once that returns Err because the report carried another
\* operation's identity leaves the active command live: the fair turn is
\* spent, but no lifecycle, identity or cancellation state moves.
StaleReportHarmless ==
  [][event' = "Error" /\ runner' # runner =>
       /\ arbiter' = arbiter
       /\ outcome' = outcome
       /\ runner'.operation = runner.operation
       /\ runner'.lifecycle = runner.lifecycle
       /\ runner'.waitFor \subseteq runner.waitFor \cup {"TIMER"}]_vars
=============================================================================
