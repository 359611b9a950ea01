--------------------------- MODULE RunnerDiagnostics ---------------------------
(***************************************************************************)
(* IncrementalRunnerDiagnostics of src/incremental/facade.rs: the counters *)
(* of the incremental runner, on top of the steps of IncrementalFacade,    *)
(* whose wait is taken apart here: a wait_ready future may be polled and   *)
(* sleep, fail because the platform fails, or be dropped by the owner of   *)
(* the runner's loop.                                                      *)
(*                                                                         *)
(* Each update of the counters in the code is a copy out of a Cell, one or *)
(* more increments and a copy back, with no await between: one step.  The  *)
(* copy to the atomics a controller may read is not looked at.             *)
(***************************************************************************)
EXTENDS IncrementalFacade

CONSTANTS
  CounterMax,   \* u32::MAX, where the counters saturate
  MaxWaits      \* bounds the wait futures

ASSUME DiagnosticsAssumption == CounterMax \in Nat \ {0} /\ MaxWaits \in Nat

VARIABLES
  counters,   \* IncrementalRunnerDiagnostics
  asleep,     \* has a wait future been polled and returned Pending
  waits,      \* history: wait futures polled
  abandoned,  \* history: wait futures dropped asleep
  locally,    \* did request_cancel return the event to publish
  refusals    \* history: commands answered with a protocol error

diagnosticVars == <<counters, asleep, waits, abandoned, locally, refusals>>
allVars == <<facadeVars, diagnosticVars>>

\* The source counters are what record_ready counts, which is called for a
\* batch by wait_ready and by run_once; the event counters are named for the
\* event.
SourceCounter == {"COMMAND", "BACKEND", "L2_RX", "TIMER"}
EventCounter ==
  {"Started", "CancelRequested", "Pending", "BudgetExhausted", "Completed", "Cancelled", "Failed"}
CallCounter ==
  {"run_once_calls", "wait_ready_calls", "wait_ready_completions",
   "immediate_ready_completions", "wait_ready_errors", "driver_errors", "protocol_errors"}
Counter == SourceCounter \cup EventCounter \cup CallCounter

DiagnosticsTypeOK ==
  /\ counters \in [Counter -> 0 .. CounterMax]
  /\ asleep \in BOOLEAN
  /\ waits \in 0 .. MaxWaits /\ abandoned \in 0 .. MaxWaits
  /\ locally \in BOOLEAN
  /\ refusals \subseteq Sequence

DiagnosticsInit ==
  /\ FacadeInit
  /\ counters = [c \in Counter |-> 0]
  /\ asleep = FALSE /\ waits = 0 /\ abandoned = 0
  /\ locally = FALSE /\ refusals = {}

\* increment: saturating_add.
Increment(n) == IF n = CounterMax THEN n ELSE n + 1

Count(counted) ==
  counters' = [c \in Counter |-> IF c \in counted THEN Increment(counters[c]) ELSE counters[c]]

\* record_ready
ReadyCounters(sources) == sources \cap SourceCounter

If(condition, counter) == IF condition THEN {counter} ELSE {}

-----------------------------------------------------------------------------
(* wait_ready *)

\* Bound: the runner's loop waits MaxWaits times.
MayPoll == MayRun /\ step = "wait" /\ (asleep \/ waits < MaxWaits)

\* What the first poll of a future counts.
FirstPoll ==
  /\ waits' = IF asleep THEN waits ELSE waits + 1
  /\ UNCHANGED <<abandoned, locally, refusals>>
FirstCounted == If(~asleep, "wait_ready_calls")

\* The poll that finds something ready.  An empty set is taken for the sign
\* of an immediate return; a cancellation is returned as a set of its own.
WaitReturns(sources) ==
  /\ MayPoll
  /\ WaitReady(sources)
  /\ Count(FirstCounted \cup {"wait_ready_completions"} \cup ReadyCounters(sources)
             \cup If(Immediate /\ cancellations = <<>>, "immediate_ready_completions"))
  /\ asleep' = FALSE
  /\ FirstPoll

WaitSleeps ==
  /\ MayPoll /\ ~asleep
  /\ ~Immediate
  /\ ~("COMMAND" \in WaitSources /\ commands # <<>>)
  /\ Count(FirstCounted)
  /\ asleep' = TRUE
  /\ FirstPoll
  /\ UNCHANGED facadeVars

\* Mutant: the error is returned before it is counted.
WaitFailsUncounted ==
  /\ MayPoll
  /\ ~Immediate
  /\ WaitSources \ {"COMMAND", "CANCEL"} # {}
  /\ Count(FirstCounted)
  /\ asleep' = FALSE
  /\ FirstPoll
  /\ UNCHANGED facadeVars

\* The platform fails, or reports a source that was not subscribed.
WaitFails ==
  /\ MayPoll
  /\ ~Immediate
  /\ WaitSources \ {"COMMAND", "CANCEL"} # {}
  /\ Count(FirstCounted \cup {"wait_ready_errors"})
  /\ asleep' = FALSE
  /\ FirstPoll
  /\ UNCHANGED facadeVars

\* The owner of the loop drops the future, which counts nothing.
DropWait ==
  /\ step = "wait" /\ asleep
  /\ asleep' = FALSE
  /\ abandoned' = abandoned + 1
  /\ UNCHANGED <<facadeVars, counters, waits, locally, refusals>>

-----------------------------------------------------------------------------
(* run_once *)

UnchangedWait == UNCHANGED <<asleep, waits, abandoned>>

\* Who was answered with a protocol error in this step.
Refuse(s) ==
  refusals' = refusals \cup {c \in {s} : completion' # completion /\ completion'.result = "Protocol"}

\* The ready set is counted a second time here; a command that cannot be
\* submitted ends the call.
BeginOnce ==
  /\ TakeCommand \/ NoCommandToTake
  /\ Count({"run_once_calls"} \cup ReadyCounters(ready) \cup If(step' = "wait", "protocol_errors"))
  /\ Refuse(completion'.sequence)
  /\ UnchangedWait /\ UNCHANGED locally

\* Only a command that never reached the backend makes an event here.
CancelOnce ==
  /\ TakeCancellation \/ NoCancellationToTake
  /\ Count(If(step' = "publish", "Cancelled"))
  /\ locally' = (step' = "publish")
  /\ UnchangedWait /\ UNCHANGED refusals

DriveCounted ==
  /\ Drive
  /\ Count(({event'} \cap EventCounter) \cup If(event' = "Error", "driver_errors"))
  /\ UnchangedWait /\ UNCHANGED <<locally, refusals>>

\* Mutant: an error of the publication is returned before it is counted.
PublishUncounted(matches) ==
  /\ Publish(matches)
  /\ Refuse(publishing)
  /\ UnchangedWait /\ UNCHANGED <<locally, counters>>

\* An error of the publication is counted, but not when request_cancel made
\* the event: that path returns the error as it is.
PublishCounted(matches) ==
  /\ Publish(matches)
  /\ Refuse(publishing)
  /\ Count(If(publishing \in refusals' /\ ~locally, "protocol_errors"))
  /\ UnchangedWait /\ UNCHANGED locally

CountedNext ==
  \/ \E sources \in SUBSET WaitSource : WaitReturns(sources)
  \/ WaitSleeps
  \/ WaitFails
  \/ DropWait
  \/ BeginOnce
  \/ CancelOnce
  \/ DriveCounted
  \/ \E matches \in BOOLEAN : PublishCounted(matches)
  \/ ControllerStep /\ UNCHANGED diagnosticVars

CountedSpec == DiagnosticsInit /\ [][CountedNext]_allVars

-----------------------------------------------------------------------------
(* Properties *)

\* What a counter shows of a number that does not saturate.
Shown(n) == IF n > CounterMax THEN CounterMax ELSE n

Answered(kind) == {s \in Sequence : outcome[s] = kind}
Delivered == {s \in Sequence : cancelCalls[s] = 1 /\ outcome[s] # "Failed"}

\* The counters tell the truth about the commands, saturated or not: each
\* terminal counter is the number of commands that ended so, the operations
\* started are those that ended or run, a cancellation is counted when the
\* backend took it, and every protocol error a caller got is counted.
CommandsAreCounted ==
  /\ \A kind \in TerminalEvent : counters[kind] = Shown(Cardinality(Answered(kind)))
  /\ LET started == Cardinality(Answered("Completed")) + (IF HasActive(arbiter) THEN 1 ELSE 0)
     IN /\ counters["Started"] >= Shown(started)
        /\ counters["Started"] <= Shown(Cardinality({s \in Sequence : s <= submitted}))
  /\ counters["CancelRequested"] >= Shown(Cardinality(Delivered))
  /\ counters["CancelRequested"] <= Shown(Cardinality({s \in Sequence : cancelCalls[s] = 1}))
  /\ counters["protocol_errors"] = Shown(Cardinality(refusals))

\* Every wait future that was polled is accounted for: it returned, failed,
\* was dropped or sleeps, and each that returned led to one run_once, which is
\* what a loop that calls the two in turn does.  A platform that fails costs
\* the loop one turn and nothing else.
WaitsAreCounted ==
  LET n == IF asleep THEN 1 ELSE 0
  IN waits < CounterMax =>
       /\ counters["wait_ready_calls"] = waits
       /\ waits = counters["wait_ready_completions"] + counters["wait_ready_errors"] + abandoned + n
       /\ counters["wait_ready_completions"]
            = counters["run_once_calls"] + (IF step = "receive" THEN 1 ELSE 0)
       /\ counters["immediate_ready_completions"] <= counters["wait_ready_completions"]

\* Every variable has its type, and the counters their meaning.
DiagnosticsInvariant == DiagnosticsTypeOK /\ CommandsAreCounted
=============================================================================
