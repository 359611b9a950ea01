----------------------------- MODULE RunnerState -----------------------------
(***************************************************************************)
(* The deterministic runner core of src/incremental.rs and                 *)
(* src/incremental/runner.rs: the one-slot OperationTracker, the           *)
(* FairWakeSelector and the IncrementalRunnerState that joins them.        *)
(*                                                                         *)
(* None of these types calls a backend or is shared, so each operation is  *)
(* a function from a runner to the runner it leaves behind, and the        *)
(* Can... predicate beside it says when the operation returns Ok: an       *)
(* operation that returns Err leaves the runner as it was.                 *)
(*                                                                         *)
(* A runner is a record                                                    *)
(*   nextGeneration  the tracker's generation counter (a u32)              *)
(*   operation       generation of the current operation; every operation  *)
(*                   of the driver uses slot 0                             *)
(*   lifecycle       of the current operation, "None" when there is none   *)
(*   waitFor         the WaitSet the current operation is subscribed to    *)
(*   next            index the selector tries first                        *)
(***************************************************************************)
EXTENDS Integers

CONSTANT MaxGeneration     \* u32::MAX: the largest operation generation

ASSUME GenerationAssumption == MaxGeneration \in Nat \ {0}

-----------------------------------------------------------------------------
(* Wake sources *)

\* A WaitSet is a set of sources. CANCEL is the facade's own bit; the
\* selector knows the other four only, in this order of preference.
WaitSource == {"COMMAND", "BACKEND", "L2_RX", "TIMER", "CANCEL"}

WakeCount == 4
WakeIndex == 0 .. WakeCount - 1
WakeReason(i) == CASE i = 0 -> "COMMAND"
                   [] i = 1 -> "BACKEND"
                   [] i = 2 -> "L2_RX"
                   [] i = 3 -> "TIMER"

\* How far the selector, starting at `next', scans to reach index i.
Offset(next, i) == (i + WakeCount - next) % WakeCount

Eligible(subscribed, ready) == {i \in WakeIndex : WakeReason(i) \in subscribed \cap ready}

\* FairWakeSelector::select when something is eligible.
Selected(next, subscribed, ready) ==
  CHOOSE i \in Eligible(subscribed, ready) :
    \A j \in Eligible(subscribed, ready) : Offset(next, i) <= Offset(next, j)

-----------------------------------------------------------------------------
(* Reports of one bounded poll *)

Disposition == {"Pending", "BudgetExhausted", "Complete", "Cancelled"}

\* WorkReport::try_new: which accounts of a poll can be a report at all.
\* `shape' is the disposition with its wait set.
ReportAccepted(maxEvents, maxTime, events, elapsed, madeProgress, shape) ==
  /\ events <= maxEvents
  /\ shape.disposition = "BudgetExhausted" => events = maxEvents \/ elapsed >= maxTime
  /\ elapsed > maxTime => shape.disposition # "Pending"
  /\ shape.disposition = "Pending" /\ shape.waitFor = {} => madeProgress

-----------------------------------------------------------------------------
(* OperationTracker and IncrementalRunnerState *)

Lifecycle == {"None", "Queued", "Started", "CancelRequested", "Terminal"}

Runner == [nextGeneration : 0 .. MaxGeneration,
           operation      : 0 .. MaxGeneration,
           lifecycle      : Lifecycle,
           waitFor        : SUBSET WaitSource,
           next           : WakeIndex]

NewRunner == [nextGeneration |-> 0, operation |-> 0, lifecycle |-> "None",
              waitFor |-> {}, next |-> 0]

\* Mutant: the counter is not wrapped.
UnwrappedGeneration(g) == g + 1

\* Generations wrap past the largest u32 to 1: zero is never an identity.
NextGeneration(g) == IF g = MaxGeneration THEN 1 ELSE g + 1

Owns(r, id) == r.lifecycle # "None" /\ r.operation = id
Live(r, id) == Owns(r, id) /\ r.lifecycle \in {"Started", "CancelRequested"}

CanQueue(r) == r.lifecycle = "None"
Queue(r) == [r EXCEPT !.nextGeneration = NextGeneration(@),
                      !.operation = NextGeneration(r.nextGeneration),
                      !.lifecycle = "Queued",
                      !.waitFor = {"COMMAND"}]

CanMarkStarted(r, id) == Owns(r, id) /\ r.lifecycle = "Queued"
MarkStarted(r) == [r EXCEPT !.lifecycle = "Started", !.waitFor = {}]

\* Every terminal result is committed this way, and it drops the subscription:
\* reject_start, apply_report, apply_error and the cancel of a queued request.
Terminate(r) == [r EXCEPT !.lifecycle = "Terminal", !.waitFor = {}]

CanRejectStart(r, id) == CanMarkStarted(r, id)
CanCommit(r, id) == Live(r, id)

\* request_cancel answers with a CancelDirective; "Rejected" stands for Err.
CancelDirective(r, id) ==
  CASE ~Owns(r, id) \/ r.lifecycle = "Terminal" -> "Rejected"
    [] Owns(r, id) /\ r.lifecycle = "CancelRequested" -> "AlreadyRequested"
    [] Owns(r, id) /\ r.lifecycle = "Queued"  -> "CompleteLocally"
    [] Owns(r, id) /\ r.lifecycle = "Started" -> "NotifyBackend"
RequestCancel(r) ==
  IF r.lifecycle = "Queued" THEN Terminate(r)
  ELSE [r EXCEPT !.lifecycle = "CancelRequested", !.waitFor = @ \cup {"BACKEND"}]

CanMarkCancelNotified(r, id) == Owns(r, id) /\ r.lifecycle = "CancelRequested"
MarkCancelNotified(r) == [r EXCEPT !.waitFor = {}]

\* The subscription of an operation that a report leaves pending.
Resubscribe(r, waitFor) == [r EXCEPT !.waitFor = waitFor]

\* subscribe: the driver adds a source of its own to a live operation.
Subscribe(r, sources) == [r EXCEPT !.waitFor = @ \cup sources]

\* Mutant: a terminal operation keeps its slot.
ReapedLater(r) == [r EXCEPT !.waitFor = {}]

CanReap(r, id) == Owns(r, id) /\ r.lifecycle = "Terminal"
Reap(r) == [r EXCEPT !.operation = 0, !.lifecycle = "None", !.waitFor = {}]

-----------------------------------------------------------------------------
(* select_step *)

\* An empty subscription owes a live operation a poll whatever is ready, and
\* that poll does not rotate the selector.
OwedPoll(r) == r.waitFor = {} /\ r.lifecycle \in {"Started", "CancelRequested"}

StepKind(r, ready) ==
  CASE r.lifecycle \in {"None", "Terminal"} -> "Idle"
    [] OwedPoll(r) -> "PollBackend"
    [] r.lifecycle \notin {"None", "Terminal"} /\ ~OwedPoll(r) ->
         LET eligible == Eligible(r.waitFor, ready) IN
         IF eligible = {} THEN "Waiting"
         ELSE IF Selected(r.next, r.waitFor, ready) = 0 THEN "CommandReady"
         ELSE "PollBackend"

\* The runner after select_step: only the selector's preference can move.
Stepped(r, ready) ==
  IF \/ r.lifecycle \in {"None", "Terminal"}
     \/ OwedPoll(r)
     \/ Eligible(r.waitFor, ready) = {}
  THEN r
  ELSE [r EXCEPT !.next = (Selected(r.next, r.waitFor, ready) + 1) % WakeCount]
=============================================================================
