----------------------- MODULE RunnerDiagnosticsProofs -----------------------
(***************************************************************************)
(* The counters of the incremental runner, for any number of commands and  *)
(* waits, any limit at which they saturate and any capacities, with and    *)
(* without preemption.                                                     *)
(*                                                                         *)
(* Counting changes nothing of what is counted: every behaviour of the     *)
(* counted runner is one of IncrementalFacade, so FacadeInv is at hand.    *)
(***************************************************************************)
EXTENDS RunnerDiagnostics, IncrementalFacadeProofs

\* A wait that sleeps or was dropped has been counted as a wait.
Waits ==
  abandoned + (IF asleep THEN 1 ELSE 0) <= waits

\* Whose event the runner is about to publish, and who was refused.
Refusals ==
  /\ step = "drive" => ~locally
  /\ step = "publish" /\ locally => outcome[publishing] = "Cancelled"
  /\ \A s \in refusals : outcome[s] # "None" /\ s # publishing
  /\ counters["protocol_errors"] = Shown(Cardinality(refusals))

Requested == {s \in Sequence : cancelCalls[s] = 1}

\* The operations that completed or run, and the commands that have left the
\* pending slot: between them is the number of those that were started.
Completions == Cardinality(Answered("Completed")) + (IF HasActive(arbiter) THEN 1 ELSE 0)
Departed == submitted - (IF arbiter.pending = NoCommand THEN 0 ELSE 1)

Counts ==
  /\ \A kind \in TerminalEvent : counters[kind] = Shown(Cardinality(Answered(kind)))
  /\ counters["Started"] >= Shown(Completions)
  /\ counters["Started"] <= Shown(Departed)
  /\ counters["CancelRequested"] >= Shown(Cardinality(Delivered))
  /\ counters["CancelRequested"] <= Shown(Cardinality(Requested))

DiagnosticsInv ==
  /\ FacadeInv
  /\ DiagnosticsTypeOK
  /\ Waits
  /\ WaitsAreCounted
  /\ Refusals
  /\ Counts

-----------------------------------------------------------------------------
(* Numbers that saturate, and sets of commands *)

LEMMA LimitIsPositive == CounterMax \in Nat \ {0} /\ MaxWaits \in Nat
BY DiagnosticsAssumption DEF DiagnosticsAssumption

\* A saturated counter keeps step with what it counts.
LEMMA ShownNext ==
  ASSUME NEW n \in Nat, NEW m \in Nat, NEW c \in 0 .. CounterMax
  PROVE  /\ c = Shown(n) => Increment(c) = Shown(n + 1)
         /\ c >= Shown(n) => Increment(c) >= Shown(n + 1)
         /\ c <= Shown(n) => Increment(c) <= Shown(n + 1)
         /\ m <= n => Shown(m) <= Shown(n)
         /\ Shown(n) \in 0 .. CounterMax
         /\ Increment(c) \in 0 .. CounterMax
         /\ c <= Increment(c)
BY LimitIsPositive DEF Shown, Increment

LEMMA CommandSet ==
  ASSUME NEW S \in SUBSET Sequence
  PROVE  IsFiniteSet(S) /\ Cardinality(S) \in Nat
<1>1. IsFiniteSet(Sequence)
  BY FS_Interval, DriverAssumption DEF DriverAssumption, Sequence
<1>2. QED
  BY <1>1, FS_Subset, FS_CardinalityType

LEMMA OneMore ==
  ASSUME NEW S \in SUBSET Sequence, NEW s \in Sequence, s \notin S
  PROVE  Cardinality(S \cup {s}) = Cardinality(S) + 1
BY CommandSet, FS_AddElement

LEMMA OneLess ==
  ASSUME NEW S \in SUBSET Sequence, NEW s
  PROVE  Cardinality(S \ {s}) \in Nat /\ Cardinality(S \ {s}) <= Cardinality(S)
<1>1. S \ {s} \in SUBSET S /\ S \ {s} \in SUBSET Sequence
  OBVIOUS
<1>2. QED
  BY <1>1, CommandSet, FS_Subset

\* What a step that counts `counted' does to each counter.
LEMMA CountEffect ==
  ASSUME counters \in [Counter -> 0 .. CounterMax], NEW counted, Count(counted)
  PROVE  /\ counters' \in [Counter -> 0 .. CounterMax]
         /\ \A c \in Counter :
              counters'[c] = IF c \in counted THEN Increment(counters[c]) ELSE counters[c]
<1>1. \A c \in Counter : counters[c] \in 0 .. CounterMax /\ Increment(counters[c]) \in 0 .. CounterMax
  BY ShownNext
<1>2. QED
  BY <1>1 DEF Count

\* Counters of different things are different.
LEMMA CounterNames ==
  /\ SourceCounter \cup TerminalEvent \cup {"Started", "CancelRequested"} \cup CallCounter \subseteq Counter
  /\ SourceCounter \cap (EventCounter \cup CallCounter) = {}
  /\ EventCounter \cap CallCounter = {}
BY DEF Counter, SourceCounter, EventCounter, CallCounter, TerminalEvent

-----------------------------------------------------------------------------
(* Counting is all that is added *)

LEMMA CountedStep ==
  ASSUME [CountedNext]_allVars
  PROVE  [FacadeNext]_facadeVars
<1> USE DEF FacadeNext, RunnerStep
<1>1. ASSUME NEW sources \in SUBSET WaitSource, WaitReturns(sources)
      PROVE  FacadeNext
  BY <1>1 DEF WaitReturns
<1>2. CASE WaitSleeps \/ WaitFails \/ DropWait
  BY <1>2 DEF WaitSleeps, WaitFails, DropWait, facadeVars, runnerSide, future
<1>3. CASE BeginOnce
  BY <1>3 DEF BeginOnce
<1>4. CASE CancelOnce
  BY <1>4 DEF CancelOnce
<1>5. CASE DriveCounted
  BY <1>5 DEF DriveCounted
<1>6. ASSUME NEW matches \in BOOLEAN, PublishCounted(matches)
      PROVE  FacadeNext
  BY <1>6 DEF PublishCounted
<1>7. CASE ControllerStep
  BY <1>7
<1>8. CASE UNCHANGED allVars
  BY <1>8 DEF allVars
<1>9. QED
  BY <1>1, <1>2, <1>3, <1>4, <1>5, <1>6, <1>7, <1>8 DEF CountedNext

-----------------------------------------------------------------------------
(* Waits *)

\* Which steps move `step' to or from the place between wait_ready and
\* run_once.
LEMMA StepsOfTheLoop ==
  /\ \A sources : WaitReady(sources) => step = "wait" /\ step' = "receive" /\ ready' = sources
  /\ BeginOnce => step = "receive" /\ step' \in {"cancel", "wait"}
  /\ CancelOnce => step = "cancel" /\ step' \in {"drive", "publish"}
  /\ DriveCounted => step = "drive" /\ step' \in {"wait", "publish"}
  /\ \A matches : PublishCounted(matches) => step = "publish" /\ step' = "wait"
BY DEF WaitReady, BeginOnce, TakeCommand, NoCommandToTake, CancelOnce, TakeCancellation,
       NoCancellationToTake, DriveCounted, Drive, PublishCounted, Publish

\* The counters of waits and calls, in a step that counts `counted'.
LEMMA CallsCounted ==
  ASSUME counters \in [Counter -> 0 .. CounterMax], NEW counted, Count(counted),
         NEW c \in CallCounter
  PROVE  /\ counters[c] \in 0 .. CounterMax
         /\ counters'[c] = IF c \in counted THEN Increment(counters[c]) ELSE counters[c]
BY CountEffect, CounterNames

\* What a step says to the history of waits: how many were polled, returned,
\* failed, were dropped and led to a call.
LEMMA WaitsKept ==
  ASSUME DiagnosticsInv, CountedNext
  PROVE  /\ asleep' \in BOOLEAN /\ waits' \in 0 .. MaxWaits /\ abandoned' \in 0 .. MaxWaits
         /\ Waits' /\ WaitsAreCounted'
<1> DEFINE calls == counters["wait_ready_calls"]
           completions == counters["wait_ready_completions"]
           immediate == counters["immediate_ready_completions"]
           errors == counters["wait_ready_errors"]
           turns == counters["run_once_calls"]
           n == IF asleep THEN 1 ELSE 0
<1>1. /\ counters \in [Counter -> 0 .. CounterMax]
      /\ asleep \in BOOLEAN /\ waits \in 0 .. MaxWaits /\ abandoned \in 0 .. MaxWaits
      /\ abandoned + n <= waits
      /\ CounterMax \in Nat /\ MaxWaits \in Nat
  BY LimitIsPositive DEF DiagnosticsInv, DiagnosticsTypeOK, Waits
<1>2. /\ calls \in 0 .. CounterMax /\ completions \in 0 .. CounterMax
      /\ immediate \in 0 .. CounterMax /\ errors \in 0 .. CounterMax /\ turns \in 0 .. CounterMax
  BY <1>1, CounterNames DEF CallCounter
<1>3. waits < CounterMax =>
        /\ calls = waits
        /\ waits = completions + errors + abandoned + n
        /\ completions = turns + (IF step = "receive" THEN 1 ELSE 0)
        /\ immediate <= completions
  BY DEF DiagnosticsInv, WaitsAreCounted
<1> DEFINE Becomes(counted) ==
             /\ calls' = IF "wait_ready_calls" \in counted THEN Increment(calls) ELSE calls
             /\ completions' = IF "wait_ready_completions" \in counted
                               THEN Increment(completions) ELSE completions
             /\ immediate' = IF "immediate_ready_completions" \in counted
                             THEN Increment(immediate) ELSE immediate
             /\ errors' = IF "wait_ready_errors" \in counted THEN Increment(errors) ELSE errors
             /\ turns' = IF "run_once_calls" \in counted THEN Increment(turns) ELSE turns
<1>4. ASSUME NEW counted, Count(counted) PROVE Becomes(counted)
  BY <1>1, <1>4, CallsCounted DEF CallCounter
<1>5. ASSUME NEW sources \in SUBSET WaitSource, WaitReturns(sources)
      PROVE  /\ asleep' \in BOOLEAN /\ waits' \in 0 .. MaxWaits /\ abandoned' \in 0 .. MaxWaits
             /\ Waits' /\ WaitsAreCounted'
  <2> DEFINE counted == FirstCounted \cup {"wait_ready_completions"} \cup ReadyCounters(sources)
               \cup If(Immediate /\ cancellations = <<>>, "immediate_ready_completions")
  <2>1. Becomes(counted)
    BY <1>4, <1>5 DEF WaitReturns
  <2>2. /\ "wait_ready_calls" \in counted <=> ~asleep
        /\ "wait_ready_completions" \in counted
        /\ "wait_ready_errors" \notin counted /\ "run_once_calls" \notin counted
    BY DEF FirstCounted, ReadyCounters, SourceCounter, If
  <2>3. step = "wait" /\ step' = "receive" /\ ~asleep' /\ asleep' \in BOOLEAN /\ abandoned' = abandoned
    BY <1>5, StepsOfTheLoop DEF WaitReturns, FirstPoll
  <2>4. waits' = (IF asleep THEN waits ELSE waits + 1) /\ (asleep \/ waits < MaxWaits)
    BY <1>5 DEF WaitReturns, FirstPoll, MayPoll
  <2>5. waits' < CounterMax =>
          /\ calls' = waits'
          /\ waits' = completions' + errors' + abandoned'
          /\ completions' = turns' + 1
          /\ immediate' <= completions'
    <3> SUFFICES ASSUME waits' < CounterMax
                 PROVE  /\ calls' = waits'
                        /\ waits' = completions' + errors' + abandoned'
                        /\ completions' = turns' + 1
                        /\ immediate' <= completions'
      OBVIOUS
    <3>0. waits < CounterMax /\ waits' = waits + 1 - n
      BY <1>1, <2>4
    <3>1. waits < CounterMax /\ waits' = waits + 1 - n /\ calls = waits /\ completions = turns
      BY <1>2, <1>3, <2>3, <3>0
    <3>2. completions < CounterMax /\ immediate < CounterMax /\ completions + errors + abandoned + n = waits
      BY <1>1, <1>2, <1>3, <3>1
    <3>3. /\ completions' = completions + 1 /\ errors' = errors /\ turns' = turns
          /\ immediate' \in {immediate, immediate + 1}
      BY <1>2, <2>1, <2>2, <3>2 DEF Increment
    <3>4. calls' = waits'
      BY <1>1, <1>2, <2>1, <2>2, <2>4, <3>1 DEF Increment
    <3>5. QED
      BY <1>1, <1>2, <1>3, <2>3, <3>1, <3>2, <3>3, <3>4
  <2>6. /\ asleep' \in BOOLEAN /\ waits' \in 0 .. MaxWaits /\ abandoned' \in 0 .. MaxWaits
        /\ Waits'
    <3>1. CASE asleep
      BY <1>1, <2>3, <2>4, <3>1 DEF Waits
    <3>2. CASE ~asleep
      BY <1>1, <2>3, <2>4, <3>2 DEF Waits
    <3>3. QED
      BY <3>1, <3>2
  <2>7. WaitsAreCounted'
    BY <2>3, <2>5, <2>6 DEF WaitsAreCounted
  <2>8. QED
    BY <2>6, <2>7
<1>6. CASE WaitSleeps
  <2>1. Becomes(FirstCounted)
    BY <1>4, <1>6 DEF WaitSleeps
  <2>2. /\ "wait_ready_calls" \in FirstCounted <=> ~asleep
        /\ {"wait_ready_completions", "immediate_ready_completions", "wait_ready_errors",
            "run_once_calls"} \cap FirstCounted = {}
    BY DEF FirstCounted, If
  <2>3. /\ ~asleep /\ step' = step /\ asleep' = TRUE /\ abandoned' = abandoned
        /\ waits' = waits + 1 /\ waits < MaxWaits
    BY <1>6 DEF WaitSleeps, FirstPoll, MayPoll, facadeVars, runnerSide
  <2>4. QED
    BY <1>1, <1>2, <1>3, <2>1, <2>2, <2>3 DEF Waits, WaitsAreCounted, Increment
<1>7. CASE WaitFails
  <2> DEFINE counted == FirstCounted \cup {"wait_ready_errors"}
  <2>1. Becomes(counted)
    BY <1>4, <1>7 DEF WaitFails
  <2>2. /\ "wait_ready_calls" \in counted <=> ~asleep
        /\ "wait_ready_errors" \in counted
        /\ {"wait_ready_completions", "immediate_ready_completions", "run_once_calls"}
             \cap counted = {}
    BY DEF FirstCounted, If
  <2>3. /\ step' = step /\ ~asleep' /\ asleep' \in BOOLEAN /\ abandoned' = abandoned
        /\ waits' = (IF asleep THEN waits ELSE waits + 1) /\ (asleep \/ waits < MaxWaits)
    BY <1>7 DEF WaitFails, FirstPoll, MayPoll, facadeVars, runnerSide
  <2>4. /\ asleep' \in BOOLEAN /\ waits' \in 0 .. MaxWaits /\ abandoned' \in 0 .. MaxWaits
        /\ Waits'
    <3>1. CASE asleep
      BY <1>1, <2>3, <3>1 DEF Waits
    <3>2. CASE ~asleep
      BY <1>1, <2>3, <3>2 DEF Waits
    <3>3. QED
      BY <3>1, <3>2
  <2>5. ASSUME waits' < CounterMax
        PROVE  /\ calls' = waits'
               /\ waits' = completions' + errors' + abandoned'
               /\ completions' = turns' + (IF step = "receive" THEN 1 ELSE 0)
               /\ immediate' <= completions'
    <3>1. waits < CounterMax /\ waits' = waits + 1 - n /\ calls = waits
      BY <1>1, <1>3, <2>3, <2>5
    <3>2. errors < CounterMax /\ completions + errors + abandoned + n = waits
      BY <1>1, <1>2, <1>3, <3>1
    <3>3. completions' = completions /\ errors' = errors + 1 /\ turns' = turns /\ immediate' = immediate
      BY <1>2, <2>1, <2>2, <3>2 DEF Increment
    <3>4. calls' = waits'
      BY <1>1, <1>2, <2>1, <2>2, <2>3, <3>1 DEF Increment
    <3>5. QED
      BY <1>1, <1>2, <1>3, <2>3, <3>1, <3>2, <3>3, <3>4
  <2>6. WaitsAreCounted'
    BY <1>1, <1>2, <2>3, <2>5 DEF WaitsAreCounted
  <2>7. QED
    BY <2>4, <2>6
<1>8. CASE DropWait
  <2>1. /\ asleep /\ ~asleep' /\ asleep' \in BOOLEAN
        /\ abandoned' = abandoned + 1
        /\ UNCHANGED <<step, counters, waits>>
    BY <1>8 DEF DropWait, facadeVars, runnerSide
  <2>2. QED
    BY <1>1, <1>2, <1>3, <2>1 DEF Waits, WaitsAreCounted
<1>9. CASE BeginOnce
  <2> DEFINE counted == {"run_once_calls"} \cup ReadyCounters(ready)
                          \cup If(step' = "wait", "protocol_errors")
  <2>1. Becomes(counted)
    BY <1>4, <1>9 DEF BeginOnce
  <2>2. /\ "run_once_calls" \in counted
        /\ {"wait_ready_calls", "wait_ready_completions", "immediate_ready_completions",
            "wait_ready_errors"} \cap counted = {}
    BY DEF ReadyCounters, SourceCounter, If
  <2>3. step = "receive" /\ step' # "receive" /\ UNCHANGED <<asleep, waits, abandoned>>
    BY <1>9, StepsOfTheLoop DEF BeginOnce, UnchangedWait
  <2>4. QED
    BY <1>1, <1>2, <1>3, <2>1, <2>2, <2>3 DEF Waits, WaitsAreCounted, Increment
<1>10. ASSUME step # "receive", step' # "receive", UNCHANGED <<asleep, waits, abandoned>>,
              \A c \in CallCounter : c # "protocol_errors" /\ c # "driver_errors" =>
                counters'[c] = counters[c]
       PROVE  /\ asleep' \in BOOLEAN /\ waits' \in 0 .. MaxWaits /\ abandoned' \in 0 .. MaxWaits
              /\ Waits' /\ WaitsAreCounted'
  BY <1>1, <1>3, <1>10 DEF Waits, WaitsAreCounted, CallCounter
<1>11. CASE CancelOnce
  <2> DEFINE counted == If(step' = "publish", "Cancelled")
  <2>1. Becomes(counted)
    BY <1>4, <1>11 DEF CancelOnce
  <2>2. {"wait_ready_calls", "wait_ready_completions", "immediate_ready_completions",
         "wait_ready_errors", "run_once_calls"} \cap counted = {}
    BY DEF If
  <2>3. step # "receive" /\ step' # "receive" /\ UNCHANGED <<asleep, waits, abandoned>>
    BY <1>11, StepsOfTheLoop DEF CancelOnce, UnchangedWait
  <2>4. QED
    BY <1>10, <2>1, <2>2, <2>3 DEF CallCounter
<1>12. CASE DriveCounted
  <2> DEFINE counted == ({event'} \cap EventCounter) \cup If(event' = "Error", "driver_errors")
  <2>1. Becomes(counted)
    BY <1>4, <1>12 DEF DriveCounted
  <2>2. {"wait_ready_calls", "wait_ready_completions", "immediate_ready_completions",
         "wait_ready_errors", "run_once_calls"} \cap counted = {}
    BY DEF If, EventCounter
  <2>3. step # "receive" /\ step' # "receive" /\ UNCHANGED <<asleep, waits, abandoned>>
    BY <1>12, StepsOfTheLoop DEF DriveCounted, UnchangedWait
  <2>4. QED
    BY <1>10, <2>1, <2>2, <2>3 DEF CallCounter
<1>13. ASSUME NEW matches \in BOOLEAN, PublishCounted(matches)
       PROVE  /\ asleep' \in BOOLEAN /\ waits' \in 0 .. MaxWaits /\ abandoned' \in 0 .. MaxWaits
              /\ Waits' /\ WaitsAreCounted'
  <2> DEFINE counted == If(publishing \in refusals' /\ ~locally, "protocol_errors")
  <2>1. Becomes(counted)
    BY <1>4, <1>13 DEF PublishCounted
  <2>2. {"wait_ready_calls", "wait_ready_completions", "immediate_ready_completions",
         "wait_ready_errors", "run_once_calls"} \cap counted = {}
    BY DEF If
  <2>3. step # "receive" /\ step' # "receive" /\ UNCHANGED <<asleep, waits, abandoned>>
    BY <1>13, StepsOfTheLoop DEF PublishCounted, UnchangedWait
  <2>4. QED
    BY <1>10, <2>1, <2>2, <2>3 DEF CallCounter
<1>14. CASE ControllerStep /\ UNCHANGED diagnosticVars
  <2>1. UNCHANGED <<step, counters, asleep, waits, abandoned>>
    BY <1>14 DEF ControllerStep, runnerSide, diagnosticVars
  <2>2. QED
    BY <1>1, <1>3, <2>1 DEF Waits, WaitsAreCounted
<1>15. QED
  BY <1>5, <1>6, <1>7, <1>8, <1>9, <1>11, <1>12, <1>13, <1>14 DEF CountedNext

-----------------------------------------------------------------------------
(* What drive_once reports of the commands *)

Unreported ==
  /\ event' \notin TerminalEvent \cup {"Started", "CancelRequested"}
  /\ UNCHANGED <<outcome, cancelCalls>>
  /\ HasActive(arbiter') <=> HasActive(arbiter)
  /\ arbiter'.pending = arbiter.pending

Begins ==
  /\ event' = "Started"
  /\ UNCHANGED <<outcome, cancelCalls>>
  /\ ~HasActive(arbiter) /\ HasActive(arbiter')
  /\ arbiter.pending # NoCommand /\ arbiter'.pending = NoCommand

Asks(s) ==
  /\ event' = "CancelRequested"
  /\ outcome[s] = "None" /\ cancelCalls[s] = 0
  /\ outcome' = outcome /\ cancelCalls' = [cancelCalls EXCEPT ![s] = 1]
  /\ HasActive(arbiter)
  /\ arbiter'.pending = arbiter.pending

Ends(s, kind) ==
  /\ event' = kind
  /\ outcome[s] = "None" /\ outcome' = [outcome EXCEPT ![s] = kind]
  /\ \/ cancelCalls' = cancelCalls
     \/ kind = "Failed" /\ cancelCalls' = [cancelCalls EXCEPT ![s] = 1]
  /\ ~HasActive(arbiter')
  /\ kind = "Completed" => HasActive(arbiter)
  /\ arbiter'.pending \in {arbiter.pending, NoCommand}

\* The answer to the active command.
LEMMA FinishReports ==
  ASSUME DriverInv, HasActive(arbiter), NEW r \in Runner, NEW kind \in TerminalEvent,
         r.operation = runner.operation, FinishTerminal(Terminate(r), kind),
         \/ cancelCalls' = cancelCalls
         \/ /\ kind = "Failed"
            /\ cancelCalls' = [cancelCalls EXCEPT ![arbiter.active.sequence] = 1]
  PROVE  Ends(arbiter.active.sequence, kind) /\ arbiter.active.sequence \in Sequence
<1>1. CanFinishActive(arbiter, Terminate(r).operation)
  BY ActiveIsBound DEF CanFinishActive, Terminate, Runner
<1>2. CanReap(Terminate(r), Terminate(r).operation)
  BY DEF CanReap, Owns, Terminate, Runner
<1>3. /\ arbiter' = FinishActive(arbiter)
      /\ event' = kind
      /\ outcome' = [outcome EXCEPT ![arbiter.active.sequence] = kind]
  BY <1>1, <1>2 DEF FinishTerminal
<1>4. arbiter'.active = NoActive /\ arbiter'.pending = arbiter.pending
  BY <1>3 DEF FinishActive, DriverInv, DriverTypeOK, Arbiter
<1>5. QED
  BY <1>3, <1>4, ActiveIsBound DEF Ends, HasActive

LEMMA StartReports ==
  ASSUME DriverInv, NEW accepted \in BOOLEAN, StartPending(accepted)
  PROVE  Begins \/ \E s \in Sequence : Ends(s, "Failed")
<1>1. ~HasActive(arbiter) /\ arbiter.starting = NoCommand /\ arbiter.pending # NoCommand
  BY ActionMeaning DEF StartPending
<1>2. CanQueue(runner)
  BY <1>1 DEF DriverInv, Agreement, CanQueue
<1>3. arbiter.pending \in Sequence /\ outcome[arbiter.pending] = "None"
  BY <1>1 DEF DriverInv, DriverTypeOK, Accounted, Arbiter
<1>4. arbiter \in Arbiter(Sequence, OperationId)
  BY DEF DriverInv, DriverTypeOK
<1>5. cancelCalls' = cancelCalls
  BY DEF StartPending
<1>6. CASE accepted
  <2>1. /\ arbiter' = BindStarted(TakeStartable(arbiter), arbiter.pending, Queue(runner).operation)
        /\ event' = "Started"
        /\ outcome' = outcome
    BY <1>2, <1>6 DEF StartPending
  <2>2. arbiter'.pending = NoCommand /\ arbiter'.active.sequence = arbiter.pending
    BY <1>4, <2>1 DEF BindStarted, TakeStartable, Arbiter
  <2>3. HasActive(arbiter')
    BY <1>1, <2>2 DEF HasActive, NoActive
  <2>4. QED
    BY <1>1, <1>5, <2>1, <2>2, <2>3 DEF Begins
<1>7. CASE ~accepted
  <2>1. /\ arbiter' = ClearStarting(TakeStartable(arbiter))
        /\ event' = "Failed"
        /\ outcome' = [outcome EXCEPT ![arbiter.pending] = "Failed"]
    BY <1>2, <1>7 DEF StartPending
  <2>2. arbiter'.pending = NoCommand /\ arbiter'.active = arbiter.active
    BY <1>4, <2>1 DEF ClearStarting, TakeStartable, Arbiter
  <2>3. QED
    BY <1>1, <1>3, <1>5, <2>1, <2>2 DEF Ends, HasActive
<1>8. QED
  BY <1>6, <1>7

LEMMA CancelReports ==
  ASSUME DriverInv, NEW accepted \in BOOLEAN, CancelActive(accepted)
  PROVE  \E s \in Sequence : Asks(s) \/ Ends(s, "Failed")
<1> DEFINE s == arbiter.active.sequence
           requested == RequestCancel(runner)
<1>1. /\ HasActive(arbiter) /\ ~arbiter.active.cancelRequested
      /\ runner.lifecycle = "Started"
      /\ CancelDirective(runner, arbiter.active.operation) = "NotifyBackend"
  BY CancelIsDue DEF CancelActive
<1>2. s \in Sequence /\ outcome[s] = "None" /\ arbiter.active \in ActiveCommand(Sequence, OperationId)
  BY <1>1, ActiveIsBound
<1>3. cancelCalls[s] = 0 /\ cancelCalls \in [Sequence -> Nat]
  BY <1>1, <1>2 DEF DriverInv, CancelCalls, DriverTypeOK
<1>4. cancelCalls' = [cancelCalls EXCEPT ![s] = 1]
  <2>1. cancelCalls' = [cancelCalls EXCEPT ![s] = @ + 1]
    BY <1>1 DEF CancelActive
  <2>2. QED
    BY <1>3, <2>1
<1>5. CASE accepted
  <2>1. /\ arbiter' = MarkCancelRequested(arbiter)
        /\ event' = "CancelRequested"
        /\ outcome' = outcome
    BY <1>1, <1>5 DEF CancelActive
  <2>2. arbiter'.pending = arbiter.pending
    BY <2>1 DEF MarkCancelRequested, Arbiter, DriverInv, DriverTypeOK
  <2>3. QED
    BY <1>1, <1>2, <1>3, <1>4, <2>1, <2>2 DEF Asks
<1>6. CASE ~accepted
  <2>1. FinishTerminal(Terminate(requested), "Failed")
    BY <1>1, <1>6 DEF CancelActive
  <2>2. requested \in Runner /\ requested.operation = runner.operation
    BY <1>1, TransitionTypes DEF RequestCancel, Runner, DriverInv, DriverTypeOK
  <2>3. Ends(s, "Failed")
    BY <1>1, <1>4, <2>1, <2>2, FinishReports DEF TerminalEvent
  <2>4. QED
    BY <1>2, <2>3
<1>7. QED
  BY <1>5, <1>6

LEMMA PollReports ==
  ASSUME DriverInv, NEW wake,
         \/ PollWaiting(wake)
         \/ PollMisdirected(wake)
         \/ \E shape \in ReportShape : PollPending(wake, shape) \/ PollTerminal(wake, shape)
         \/ PollFailed(wake)
         \/ \E reported \in OperationId : PollStale(wake, reported)
  PROVE  Unreported \/ \E s \in Sequence, kind \in TerminalEvent : Ends(s, kind)
<1>1. ArbiterAction(arbiter) = "WaitActive"
  BY DEF PollWaiting, PollMisdirected, PollPending, PollTerminal, PollFailed, PollStale,
         PollBackend
<1>2. HasActive(arbiter)
  BY <1>1, ActionMeaning
<1>3. Live(runner, runner.operation)
  BY <1>2, ActiveIsBound
<1>4. cancelCalls' = cancelCalls
  BY DEF PollWaiting, PollMisdirected, PollPending, PollTerminal, PollFailed, PollStale,
         PollBackend
<1>5. ASSUME UNCHANGED <<arbiter, outcome>>,
             event' \in {"Waiting", "Error", "Pending", "BudgetExhausted"}
      PROVE  Unreported
  BY <1>4, <1>5 DEF Unreported, TerminalEvent
<1>6. CASE PollWaiting(wake)
  BY <1>5, <1>6 DEF PollWaiting
<1>7. CASE DriverError(arbiter, Polled(wake))
  BY <1>5, <1>7 DEF DriverError
<1>8. ASSUME NEW shape \in ReportShape, PollPending(wake, shape)
      PROVE  Unreported
  BY <1>3, <1>5, <1>8 DEF PollPending
<1>9. ASSUME NEW kind \in TerminalEvent, FinishTerminal(Terminate(Polled(wake)), kind)
      PROVE  \E s \in Sequence : Ends(s, kind)
  BY <1>2, <1>4, <1>9, PolledRunner, FinishReports
<1>10. ASSUME NEW shape \in ReportShape, PollTerminal(wake, shape)
       PROVE  \E s \in Sequence, kind \in TerminalEvent : Ends(s, kind)
  BY <1>3, <1>9, <1>10 DEF PollTerminal, TerminalEvent
<1>11. CASE PollFailed(wake)
  BY <1>3, <1>9, <1>11 DEF PollFailed, TerminalEvent
<1>12. QED
  BY <1>6, <1>7, <1>8, <1>10, <1>11 DEF PollMisdirected, PollStale

LEMMA DriveReports ==
  ASSUME DriverInv, NEW wake, DriveOnce(wake)
  PROVE  /\ submitted' = submitted
         /\ \/ Unreported
            \/ Begins
            \/ \E s \in Sequence : Asks(s)
            \/ \E s \in Sequence, kind \in TerminalEvent : Ends(s, kind)
<1>1. submitted' = submitted
  BY DEF DriveOnce, DriveIdle, StartPending, CancelActive, PollWaiting, PollMisdirected,
         PollPending, PollTerminal, PollFailed, PollStale, PollBackend
<1>2. "Failed" \in TerminalEvent
  BY DEF TerminalEvent
<1>3. CASE DriveIdle
  BY <1>1, <1>3 DEF DriveIdle, DriverError, Unreported, TerminalEvent
<1>4. QED
  BY <1>1, <1>2, <1>3, StartReports, CancelReports, PollReports DEF DriveOnce

-----------------------------------------------------------------------------
(* What became of the commands *)

CommandCounter == TerminalEvent \cup {"Started", "CancelRequested"}

\* The types that the lemmas below need.
LEMMA CountTypes ==
  ASSUME DiagnosticsInv
  PROVE  /\ outcome \in [Sequence -> TerminalEvent \cup {"None"}]
         /\ cancelCalls \in [Sequence -> Nat]
         /\ \A c \in CommandCounter : counters[c] \in 0 .. CounterMax
         /\ CommandCounter \subseteq Counter /\ CommandCounter \subseteq EventCounter
         /\ counters["protocol_errors"] \in 0 .. CounterMax
         /\ refusals \in SUBSET Sequence
         /\ \A kind \in TerminalEvent : Answered(kind) \in SUBSET Sequence
         /\ Delivered \in SUBSET Sequence /\ Requested \in SUBSET Sequence
         /\ submitted \in Nat /\ Departed \in Nat /\ Completions \in Nat
<1>1. /\ outcome \in [Sequence -> TerminalEvent \cup {"None"}]
      /\ cancelCalls \in [Sequence -> Nat]
      /\ DriverInv
  BY DEF DiagnosticsInv, FacadeInv, DriverInv, DriverTypeOK
<1>2. CommandCounter \subseteq EventCounter /\ CommandCounter \subseteq Counter
  BY DEF CommandCounter, EventCounter, TerminalEvent, Counter
<1>3. "protocol_errors" \in Counter
  BY DEF Counter, CallCounter
<1>4. counters \in [Counter -> 0 .. CounterMax] /\ refusals \subseteq Sequence
  BY DEF DiagnosticsInv, DiagnosticsTypeOK
<1>5. /\ \A kind : Answered(kind) \in SUBSET Sequence
      /\ Delivered \in SUBSET Sequence /\ Requested \in SUBSET Sequence
  BY DEF Answered, Delivered, Requested
<1>6. submitted \in Nat /\ (arbiter.pending # NoCommand => submitted >= 1)
  <2>1. FacadeTypeOK
    BY DEF DiagnosticsInv, FacadeInv
  <2>2. submitted \in Nat /\ Sequence \subseteq Nat /\ arbiter.pending \in Sequence \cup {NoCommand}
    BY <2>1, Types
  <2>3. ASSUME arbiter.pending # NoCommand PROVE submitted >= 1
    BY <1>1, <2>2, <2>3, Held DEF Sequence
  <2>4. QED
    BY <2>2, <2>3
<1>7. Departed \in Nat
  BY <1>6 DEF Departed
<1>8. Completions \in Nat
  BY <1>5, CommandSet DEF Completions
<1>9. QED
  BY <1>1, <1>2, <1>3, <1>4, <1>5, <1>6, <1>7, <1>8

\* A step that answers no command, starts none and asks for nothing.
LEMMA CountsSame ==
  ASSUME DiagnosticsInv, UNCHANGED <<outcome, cancelCalls>>,
         HasActive(arbiter') => HasActive(arbiter),
         Departed' \in Nat, Departed <= Departed',
         \A c \in CommandCounter : counters'[c] = counters[c]
  PROVE  Counts'
<1>1. UNCHANGED <<Delivered, Requested>> /\ \A kind : Answered(kind)' = Answered(kind)
  BY DEF Delivered, Requested, Answered
<1>2. Completions' \in Nat /\ Completions' <= Completions
  BY <1>1, CountTypes, CommandSet DEF Completions, TerminalEvent
<1>3. /\ counters'["Started"] = counters["Started"]
      /\ counters'["CancelRequested"] = counters["CancelRequested"]
      /\ \A kind \in TerminalEvent : counters'[kind] = counters[kind]
  BY DEF CommandCounter
<1>4. /\ Shown(Completions') <= Shown(Completions) /\ Shown(Departed) <= Shown(Departed')
      /\ {Shown(Completions'), Shown(Completions), Shown(Departed), Shown(Departed')}
           \subseteq 0 .. CounterMax
      /\ counters["Started"] \in 0 .. CounterMax
  BY <1>2, CountTypes, ShownNext DEF CommandCounter
<1>5. counters'["Started"] >= Shown(Completions') /\ counters'["Started"] <= Shown(Departed')
  BY <1>3, <1>4, LimitIsPositive DEF DiagnosticsInv, Counts
<1>6. QED
  BY <1>1, <1>3, <1>5 DEF DiagnosticsInv, Counts

LEMMA CountsStarted ==
  ASSUME DiagnosticsInv, Begins, submitted' = submitted,
         counters'["Started"] = Increment(counters["Started"]),
         \A c \in CommandCounter \ {"Started"} : counters'[c] = counters[c]
  PROVE  Counts'
<1>1. UNCHANGED <<Delivered, Requested>> /\ \A kind : Answered(kind)' = Answered(kind)
  BY DEF Begins, Delivered, Requested, Answered
<1>2. Completions' = Completions + 1
  BY <1>1, CountTypes, CommandSet DEF Begins, Completions, TerminalEvent
<1>3. Departed' = Departed + 1
  BY CountTypes DEF Begins, Departed
<1>4. counters'["Started"] >= Shown(Completions') /\ counters'["Started"] <= Shown(Departed')
  <2>1. counters["Started"] \in 0 .. CounterMax
    BY CountTypes DEF CommandCounter
  <2>2. QED
    BY <1>2, <1>3, <2>1, CountTypes, ShownNext DEF DiagnosticsInv, Counts
<1>5. /\ counters'["CancelRequested"] = counters["CancelRequested"]
      /\ \A kind \in TerminalEvent : counters'[kind] = counters[kind]
  BY DEF CommandCounter, TerminalEvent
<1>6. QED
  BY <1>1, <1>4, <1>5 DEF DiagnosticsInv, Counts

LEMMA CountsAsked ==
  ASSUME DiagnosticsInv, NEW s \in Sequence, Asks(s), submitted' = submitted,
         counters'["CancelRequested"] = Increment(counters["CancelRequested"]),
         \A c \in CommandCounter \ {"CancelRequested"} : counters'[c] = counters[c]
  PROVE  Counts'
<1>1. /\ Delivered' = Delivered \cup {s} /\ s \notin Delivered
      /\ Requested' = Requested \cup {s} /\ s \notin Requested
  BY CountTypes DEF Asks, Delivered, Requested
<1>2. \A kind : Answered(kind)' = Answered(kind)
  BY DEF Asks, Answered
<1>3. Completions' \in Nat /\ Completions' <= Completions
  BY <1>2, CountTypes, CommandSet DEF Asks, Completions, TerminalEvent
<1>4. Departed' = Departed
  BY DEF Asks, Departed
<1>5. Shown(Completions') <= Shown(Completions) /\ counters'["Started"] = counters["Started"]
  BY <1>3, CountTypes, ShownNext DEF CommandCounter, TerminalEvent
<1>6. counters'["Started"] >= Shown(Completions') /\ counters'["Started"] <= Shown(Departed')
  <2>1. /\ counters["Started"] \in 0 .. CounterMax
        /\ Shown(Completions') \in 0 .. CounterMax /\ Shown(Completions) \in 0 .. CounterMax
    BY <1>3, CountTypes, ShownNext DEF CommandCounter
  <2>2. QED
    BY <1>4, <1>5, <2>1, LimitIsPositive DEF DiagnosticsInv, Counts
<1>7. /\ counters'["CancelRequested"] >= Shown(Cardinality(Delivered'))
      /\ counters'["CancelRequested"] <= Shown(Cardinality(Requested'))
  <2>1. /\ Cardinality(Delivered') = Cardinality(Delivered) + 1
        /\ Cardinality(Requested') = Cardinality(Requested) + 1
    BY <1>1, CountTypes, OneMore
  <2>2. /\ Cardinality(Delivered) \in Nat /\ Cardinality(Requested) \in Nat
        /\ counters["CancelRequested"] \in 0 .. CounterMax
    BY CountTypes, CommandSet DEF CommandCounter
  <2>3. QED
    BY <2>1, <2>2, ShownNext DEF DiagnosticsInv, Counts
<1>8. \A kind \in TerminalEvent : counters'[kind] = counters[kind]
  BY DEF CommandCounter, TerminalEvent
<1>9. QED
  BY <1>2, <1>6, <1>7, <1>8 DEF DiagnosticsInv, Counts

\* A command is answered: what it counted for before, it counts for no longer
\* or in another place.
LEMMA CountsAnswered ==
  ASSUME DiagnosticsInv, NEW s \in Sequence, NEW kind \in TerminalEvent,
         outcome[s] = "None", outcome' = [outcome EXCEPT ![s] = kind],
         \/ cancelCalls' = cancelCalls
         \/ kind = "Failed" /\ cancelCalls' = [cancelCalls EXCEPT ![s] = 1],
         HasActive(arbiter') => HasActive(arbiter),
         kind = "Completed" => HasActive(arbiter) /\ ~HasActive(arbiter'),
         Departed' \in Nat, Departed <= Departed',
         counters'[kind] = Increment(counters[kind]),
         \A c \in CommandCounter \ {kind} : counters'[c] = counters[c]
  PROVE  Counts'
<1>1. /\ Answered(kind)' = Answered(kind) \cup {s} /\ s \notin Answered(kind)
      /\ \A k \in TerminalEvent \ {kind} : Answered(k)' = Answered(k)
  BY CountTypes DEF Answered, TerminalEvent
<1>2. Delivered' = IF kind = "Failed" THEN Delivered \ {s} ELSE Delivered
  BY CountTypes DEF Delivered, TerminalEvent
<1>3. Requested' \in {Requested, Requested \cup {s}}
  BY CountTypes DEF Requested
<1>4. ASSUME NEW k \in TerminalEvent
      PROVE  counters'[k] = Shown(Cardinality(Answered(k)'))
  <2>1. /\ counters[k] = Shown(Cardinality(Answered(k)))
        /\ counters[k] \in 0 .. CounterMax /\ Cardinality(Answered(k)) \in Nat
    BY CountTypes, CommandSet DEF DiagnosticsInv, Counts, CommandCounter
  <2>2. CASE k = kind
    <3>1. Cardinality(Answered(k)') = Cardinality(Answered(k)) + 1
      BY <1>1, <2>2, CountTypes, OneMore
    <3>2. QED
      BY <2>1, <2>2, <3>1, ShownNext
  <2>3. CASE k # kind
    BY <1>1, <2>1, <2>3 DEF CommandCounter
  <2>4. QED
    BY <2>2, <2>3
<1>5. Completions' \in Nat /\ Completions' <= Completions
  <2>1. CASE kind = "Completed"
    <3>1. /\ Cardinality(Answered("Completed")') = Cardinality(Answered("Completed")) + 1
          /\ Cardinality(Answered("Completed")) \in Nat
      BY <1>1, <2>1, CountTypes, OneMore, CommandSet
    <3>2. QED
      BY <2>1, <3>1 DEF Completions
  <2>2. CASE kind # "Completed"
    <3>1. Answered("Completed")' = Answered("Completed")
      BY <1>1, <2>2 DEF TerminalEvent
    <3>2. QED
      BY <3>1, CountTypes, CommandSet DEF Completions, TerminalEvent
  <2>3. QED
    BY <2>1, <2>2
<1>6. /\ counters'["Started"] = counters["Started"]
      /\ counters'["CancelRequested"] = counters["CancelRequested"]
      /\ counters["Started"] \in 0 .. CounterMax /\ counters["CancelRequested"] \in 0 .. CounterMax
  BY CountTypes DEF CommandCounter, TerminalEvent
<1>7. counters'["Started"] >= Shown(Completions') /\ counters'["Started"] <= Shown(Departed')
  <2>1. /\ Shown(Completions') <= Shown(Completions) /\ Shown(Departed) <= Shown(Departed')
        /\ {Shown(Completions'), Shown(Completions), Shown(Departed), Shown(Departed')}
             \subseteq 0 .. CounterMax
    BY <1>5, CountTypes, ShownNext
  <2>2. QED
    BY <1>6, <2>1, LimitIsPositive DEF DiagnosticsInv, Counts
<1>8. /\ counters'["CancelRequested"] >= Shown(Cardinality(Delivered'))
      /\ counters'["CancelRequested"] <= Shown(Cardinality(Requested'))
  <2>1. /\ Cardinality(Delivered') \in Nat /\ Cardinality(Delivered) \in Nat
        /\ Cardinality(Delivered') <= Cardinality(Delivered)
    BY <1>2, CountTypes, OneLess, CommandSet
  <2>2. /\ Cardinality(Requested') \in Nat /\ Cardinality(Requested) \in Nat
        /\ Cardinality(Requested) <= Cardinality(Requested')
    <3>1. Requested \cup {s} \in SUBSET Sequence
      BY CountTypes
    <3>2. CASE s \in Requested
      <4>1. Requested' = Requested
        BY <1>3, <3>2
      <4>2. QED
        BY <4>1, CountTypes, CommandSet
    <3>3. CASE s \notin Requested
      <4>1. Cardinality(Requested \cup {s}) = Cardinality(Requested) + 1 /\ Cardinality(Requested) \in Nat
        BY <3>3, CountTypes, OneMore, CommandSet
      <4>2. QED
        BY <1>3, <4>1
    <3>4. QED
      BY <3>2, <3>3
  <2>3. /\ Shown(Cardinality(Delivered')) <= Shown(Cardinality(Delivered))
        /\ Shown(Cardinality(Requested)) <= Shown(Cardinality(Requested'))
        /\ Shown(Cardinality(Delivered')) \in 0 .. CounterMax
        /\ Shown(Cardinality(Delivered)) \in 0 .. CounterMax
        /\ Shown(Cardinality(Requested)) \in 0 .. CounterMax
        /\ Shown(Cardinality(Requested')) \in 0 .. CounterMax
    <3>1. 0 \in 0 .. CounterMax
      BY LimitIsPositive
    <3>2. \A m, n \in Nat : m <= n => Shown(m) <= Shown(n) /\ {Shown(m), Shown(n)} \subseteq 0 .. CounterMax
      BY <3>1, ShownNext
    <3>3. QED
      BY <2>1, <2>2, <3>2
  <2>4. QED
    BY <1>6, <2>3, LimitIsPositive DEF DiagnosticsInv, Counts
<1>9. QED
  BY <1>4, <1>7, <1>8 DEF Counts

-----------------------------------------------------------------------------
(* Each step keeps the counts and the refusals *)

\* A step that publishes nothing and refuses nobody.
LEMMA RefusalsSame ==
  ASSUME DiagnosticsInv, UNCHANGED <<refusals, locally, outcome, publishing>>,
         counters'["protocol_errors"] = counters["protocol_errors"],
         step' = step \/ step' \notin {"drive", "publish"}
  PROVE  Refusals'
BY DEF DiagnosticsInv, Refusals

\* The steps of the wait and of the controller touch no command.
LEMMA OtherStepsKeepCounts ==
  ASSUME DiagnosticsInv,
         \/ \E sources \in SUBSET WaitSource : WaitReturns(sources)
         \/ WaitSleeps
         \/ WaitFails
         \/ DropWait
         \/ ControllerStep /\ UNCHANGED diagnosticVars
  PROVE  Counts' /\ Refusals'
<1>1. /\ UNCHANGED <<driver, publishing, refusals, locally>>
      /\ step' = step \/ step' \notin {"drive", "publish"}
  BY StepsOfTheLoop
  DEF WaitReturns, WaitReady, WaitSleeps, WaitFails, DropWait, FirstPoll, ControllerStep,
      facadeVars, runnerSide, diagnosticVars
<1>2. ASSUME NEW counted, Count(counted), counted \cap CommandCounter = {},
             "protocol_errors" \notin counted
      PROVE  \A c \in CommandCounter \cup {"protocol_errors"} : counters'[c] = counters[c]
  BY <1>2, CountEffect, CountTypes, CounterNames
  DEF DiagnosticsInv, DiagnosticsTypeOK, CallCounter
<1>3. \A c \in CommandCounter \cup {"protocol_errors"} : counters'[c] = counters[c]
  <2>1. ASSUME NEW sources \in SUBSET WaitSource, WaitReturns(sources)
        PROVE  \A c \in CommandCounter \cup {"protocol_errors"} : counters'[c] = counters[c]
    BY <1>2, <2>1
    DEF WaitReturns, FirstCounted, ReadyCounters, SourceCounter, If, CommandCounter, TerminalEvent
  <2>2. CASE WaitSleeps
    BY <1>2, <2>2 DEF WaitSleeps, FirstCounted, If, CommandCounter, TerminalEvent
  <2>3. CASE WaitFails
    BY <1>2, <2>3 DEF WaitFails, FirstCounted, If, CommandCounter, TerminalEvent
  <2>4. CASE DropWait \/ (ControllerStep /\ UNCHANGED diagnosticVars)
    BY <2>4 DEF DropWait, diagnosticVars
  <2>5. QED
    BY <2>1, <2>2, <2>3, <2>4
<1>4. UNCHANGED <<arbiter, submitted, outcome, cancelCalls>>
  BY <1>1 DEF driver
<1>5. Departed' = Departed /\ Departed \in Nat
  BY <1>4, CountTypes DEF Departed
<1>6. Counts'
  BY <1>3, <1>4, <1>5, CountsSame
<1>7. QED
  BY <1>1, <1>3, <1>4, <1>6, RefusalsSame

\* The ledger has room for the command that is taken, so nobody is refused.
LEMMA BeginOnceKeepsCounts ==
  ASSUME DiagnosticsInv, BeginOnce
  PROVE  Counts' /\ Refusals' /\ refusals' = refusals
<1>1. FacadeInv /\ step = "receive"
  BY StepsOfTheLoop DEF DiagnosticsInv
<1>2. /\ step' = "cancel"
      /\ UNCHANGED <<outcome, cancelCalls, completion, publishing>>
      /\ arbiter'.active = arbiter.active
      /\ Departed' = Departed
  <2>1. CASE TakeCommand
    <3>1. Cardinality(ledger) < LedgerSize
      BY <1>1, <2>1, LedgerHasRoom DEF TakeCommand
    <3>2. Submit /\ step' = "cancel" /\ UNCHANGED <<completion, publishing>>
      BY <2>1, <3>1 DEF TakeCommand
    <3>3. /\ arbiter'.active = arbiter.active /\ arbiter'.pending = submitted + 1
          /\ arbiter.pending = NoCommand /\ submitted' = submitted + 1
      BY <1>1, <3>2 DEF Submit, Submitted, CanSubmit, FacadeInv, DriverInv, DriverTypeOK, Arbiter
    <3>4. Departed' = Departed
      BY <3>3, CountTypes DEF Departed, NoCommand
    <3>5. QED
      BY <3>2, <3>3, <3>4 DEF Submit
  <2>2. CASE NoCommandToTake
    BY <2>2 DEF NoCommandToTake, driver, Departed
  <2>3. QED
    BY <2>1, <2>2 DEF BeginOnce
<1>3. UNCHANGED <<refusals, locally>>
  BY <1>2 DEF BeginOnce, Refuse
<1>4. \A c \in CommandCounter \cup {"protocol_errors"} : counters'[c] = counters[c]
  <2>1. Count({"run_once_calls"} \cup ReadyCounters(ready))
    <3>1. {"run_once_calls"} \cup ReadyCounters(ready) \cup If(step' = "wait", "protocol_errors")
            = {"run_once_calls"} \cup ReadyCounters(ready)
      BY <1>2 DEF If
    <3>2. QED
      BY <3>1 DEF BeginOnce
  <2>2. \A c \in CommandCounter \cup {"protocol_errors"} :
          c \in Counter /\ c \notin {"run_once_calls"} \cup ReadyCounters(ready)
    BY CountTypes DEF ReadyCounters, SourceCounter, CommandCounter, TerminalEvent, Counter, CallCounter
  <2>3. QED
    BY <2>1, <2>2, CountEffect DEF DiagnosticsInv, DiagnosticsTypeOK
<1>5. Counts'
  <2>1. HasActive(arbiter') <=> HasActive(arbiter)
    BY <1>2 DEF HasActive
  <2>2. QED
    BY <1>2, <1>4, <2>1, CountTypes, CountsSame
<1>6. QED
  BY <1>2, <1>3, <1>4, <1>5, RefusalsSame

\* A request answers the command it finds waiting, or none.
LEMMA CancelOnceKeepsCounts ==
  ASSUME DiagnosticsInv, CancelOnce
  PROVE  Counts' /\ Refusals'
<1> DEFINE s == Head(cancellations)
<1>1. /\ FacadeInv /\ DriverInv /\ step = "cancel"
      /\ arbiter \in Arbiter(Sequence, OperationId)
      /\ publishing = NoCommand
  BY StepsOfTheLoop, TurnIsUnanswered DEF DiagnosticsInv, FacadeInv, DriverInv, DriverTypeOK
<1>2. /\ Count(If(step' = "publish", "Cancelled"))
      /\ locally' = (step' = "publish")
      /\ UNCHANGED refusals
  BY DEF CancelOnce
<1>3. \A c \in CommandCounter \cup {"protocol_errors"} :
        counters'[c] = IF c \in If(step' = "publish", "Cancelled")
                       THEN Increment(counters[c]) ELSE counters[c]
  BY <1>2, CountTypes, CountEffect DEF DiagnosticsInv, DiagnosticsTypeOK, Counter, CallCounter
<1>4. counters'["protocol_errors"] = counters["protocol_errors"]
  BY <1>3 DEF If
<1>5. CASE step' = "publish"
  <2>1. /\ CancelBySequence(s) /\ outcome' # outcome
        /\ publishing' = s /\ cancellations # <<>>
    BY <1>5 DEF CancelOnce, TakeCancellation, NoCancellationToTake, driver
  <2>2. s \in Sequence
    BY <1>1, <2>1, Types, TailOf DEF FacadeInv
  <2>3. /\ CancelKind(arbiter, s) = "RemovePending"
        /\ arbiter' = RemovePending(arbiter)
        /\ outcome' = [outcome EXCEPT ![s] = "Cancelled"]
        /\ UNCHANGED <<submitted, cancelCalls>>
    BY <2>1 DEF CancelBySequence
  <2>4. arbiter.pending = s /\ outcome[s] = "None"
    BY <1>1, <2>2, <2>3, Held DEF CancelKind
  <2>5. arbiter'.active = arbiter.active /\ arbiter'.pending = NoCommand
    BY <1>1, <2>3 DEF RemovePending, Arbiter
  <2>6. Departed' \in Nat /\ Departed <= Departed'
    BY <2>3, <2>5, CountTypes DEF Departed
  <2>7. /\ counters'["Cancelled"] = Increment(counters["Cancelled"])
        /\ \A c \in CommandCounter \ {"Cancelled"} : counters'[c] = counters[c]
    BY <1>3, <1>5 DEF If, CommandCounter, TerminalEvent
  <2>8. Counts'
    <3>1. "Cancelled" \in TerminalEvent /\ (HasActive(arbiter') => HasActive(arbiter))
      BY <2>5 DEF TerminalEvent, HasActive
    <3>2. QED
      BY <2>2, <2>3, <2>4, <2>6, <2>7, <3>1, CountsAnswered
  <2>9. outcome'[s] = "Cancelled" /\ \A t \in Sequence : t # s => outcome'[t] = outcome[t]
    BY <2>2, <2>3, CountTypes
  <2>10. Refusals'
    <3>1. \A t \in refusals : t \in Sequence /\ outcome[t] # "None"
      BY CountTypes DEF DiagnosticsInv, Refusals
    <3>2. \A t \in refusals' : outcome'[t] # "None" /\ t # publishing'
      BY <1>2, <2>1, <2>4, <2>9, <3>1
    <3>3. QED
      BY <1>2, <1>4, <1>5, <2>1, <2>9, <3>2 DEF DiagnosticsInv, Refusals
  <2>11. QED
    BY <2>8, <2>10
<1>6. CASE step' # "publish"
  <2>1. step' = "drive" /\ UNCHANGED <<outcome, publishing>>
    BY <1>6, StepsOfTheLoop DEF CancelOnce, TakeCancellation, NoCancellationToTake, driver
  <2>2. /\ UNCHANGED <<submitted, cancelCalls>>
        /\ arbiter'.pending = arbiter.pending
        /\ HasActive(arbiter') => HasActive(arbiter)
    <3>1. CASE NoCancellationToTake
      BY <3>1 DEF NoCancellationToTake, driver
    <3>2. CASE TakeCancellation /\ UNCHANGED driver
      BY <3>2 DEF driver
    <3>3. CASE TakeCancellation /\ CancelBySequence(s)
      <4>1. CASE CancelKind(arbiter, s) = "RequestActive"
        <5>1. arbiter' = IntendCancel(arbiter) /\ UNCHANGED <<submitted, cancelCalls>> /\ HasActive(arbiter)
          BY <3>3, <4>1 DEF CancelBySequence, CancelKind
        <5>2. QED
          BY <1>1, <5>1 DEF IntendCancel, Arbiter
      <4>2. CASE CancelKind(arbiter, s) = "RemovePending"
        <5>1. outcome' = [outcome EXCEPT ![s] = "Cancelled"] /\ arbiter.pending = s
          BY <3>3, <4>2 DEF CancelBySequence, CancelKind
        <5>2. s \in Sequence
          BY <1>1, <3>3, Types, TailOf DEF FacadeInv, TakeCancellation
        <5>3. outcome[s] = "None" /\ outcome'[s] = "Cancelled"
          BY <1>1, <5>1, <5>2, Held, CountTypes
        <5>4. QED
          BY <2>1, <5>3
      <4>3. QED
        BY <3>3, <4>1, <4>2 DEF CancelBySequence
    <3>4. QED
      BY <3>1, <3>2, <3>3 DEF CancelOnce, TakeCancellation
  <2>3. Departed' = Departed /\ Departed \in Nat
    BY <2>2, CountTypes DEF Departed
  <2>4. Counts'
    BY <1>3, <1>6, <2>1, <2>2, <2>3, CountsSame DEF If
  <2>5. Refusals'
    BY <1>2, <1>4, <1>6, <2>1 DEF DiagnosticsInv, Refusals
  <2>6. QED
    BY <2>4, <2>5
<1>7. QED
  BY <1>5, <1>6

\* What drive_once reports is what it counts.
LEMMA DriveKeepsCounts ==
  ASSUME DiagnosticsInv, DriveCounted
  PROVE  Counts' /\ Refusals'
<1>1. /\ DriverInv /\ FacadeInv /\ step = "drive" /\ ~locally
      /\ Drive /\ DriveOnce(ready)
      /\ UNCHANGED <<locally, refusals>>
  BY StepsOfTheLoop DEF DriveCounted, Drive, DiagnosticsInv, FacadeInv, Refusals
<1>2. /\ submitted' = submitted
      /\ \/ Unreported
         \/ Begins
         \/ \E s \in Sequence : Asks(s)
         \/ \E s \in Sequence, kind \in TerminalEvent : Ends(s, kind)
  BY <1>1, DriveReports
<1>3. \A c \in CommandCounter \cup {"protocol_errors"} :
        counters'[c] = IF c = event' THEN Increment(counters[c]) ELSE counters[c]
  <2> DEFINE counted == ({event'} \cap EventCounter) \cup If(event' = "Error", "driver_errors")
  <2>1. event' # "protocol_errors" /\ "protocol_errors" \notin EventCounter
    <3>1. event' \in DriverEvent
      BY <1>1, DriveEffect DEF FacadeInv, Settled, Unsubscribed, DriverInv, DriverTypeOK
    <3>2. QED
      BY <3>1 DEF DriverEvent, TerminalEvent, EventCounter
  <2>2. \A c \in CommandCounter \cup {"protocol_errors"} : c \in counted <=> c = event'
    BY <2>1, CountTypes DEF If, CommandCounter, TerminalEvent
  <2>3. Count(counted)
    BY DEF DriveCounted
  <2>4. CommandCounter \cup {"protocol_errors"} \subseteq Counter
    BY CountTypes DEF Counter, CallCounter
  <2>5. QED
    BY <2>2, <2>3, <2>4, CountEffect DEF DiagnosticsInv, DiagnosticsTypeOK
<1>4. counters'["protocol_errors"] = counters["protocol_errors"]
  <2>1. event' \in DriverEvent
    BY <1>1, DriveEffect DEF FacadeInv, Settled, Unsubscribed, DriverInv, DriverTypeOK
  <2>2. QED
    BY <1>3, <2>1 DEF DriverEvent, TerminalEvent
<1>5. ASSUME outcome' = outcome
      PROVE  Refusals'
  <2>1. step' = "wait" /\ publishing' = publishing
    BY <1>1, <1>5 DEF Drive
  <2>2. QED
    BY <1>1, <1>4, <1>5, <2>1, RefusalsSame
<1>6. CASE Unreported
  <2>1. Departed' = Departed /\ Departed \in Nat
    BY <1>2, <1>6, CountTypes DEF Unreported, Departed
  <2>2. \A c \in CommandCounter : counters'[c] = counters[c]
    BY <1>3, <1>6 DEF Unreported, CommandCounter
  <2>3. QED
    BY <1>5, <1>6, <2>1, <2>2, CountsSame DEF Unreported
<1>7. CASE Begins
  <2>1. /\ counters'["Started"] = Increment(counters["Started"])
        /\ \A c \in CommandCounter \ {"Started"} : counters'[c] = counters[c]
    BY <1>3, <1>7 DEF Begins, CommandCounter
  <2>2. QED
    BY <1>2, <1>5, <1>7, <2>1, CountsStarted DEF Begins
<1>8. ASSUME NEW s \in Sequence, Asks(s)
      PROVE  Counts' /\ Refusals'
  <2>1. /\ counters'["CancelRequested"] = Increment(counters["CancelRequested"])
        /\ \A c \in CommandCounter \ {"CancelRequested"} : counters'[c] = counters[c]
    BY <1>3, <1>8 DEF Asks, CommandCounter
  <2>2. QED
    BY <1>2, <1>5, <1>8, <2>1, CountsAsked DEF Asks
<1>9. ASSUME NEW s \in Sequence, NEW kind \in TerminalEvent, Ends(s, kind)
      PROVE  Counts' /\ Refusals'
  <2>1. /\ counters'[kind] = Increment(counters[kind])
        /\ \A c \in CommandCounter \ {kind} : counters'[c] = counters[c]
    BY <1>3, <1>9 DEF Ends, CommandCounter
  <2>2. Departed' \in Nat /\ Departed <= Departed'
    BY <1>2, <1>9, CountTypes DEF Ends, Departed
  <2>3. Counts'
    BY <1>9, <2>1, <2>2, CountsAnswered DEF Ends
  <2>4. /\ outcome'[s] = kind /\ outcome[s] = "None" /\ kind # "None"
        /\ \A t \in Sequence : t # s => outcome'[t] = outcome[t]
    BY <1>9, CountTypes DEF Ends, TerminalEvent
  <2>5. step' = "publish" /\ publishing' = s
    <3>1. outcome' # outcome
      BY <2>4
    <3>2. step' = "publish" /\ publishing' = CHOOSE t \in Sequence : outcome'[t] # outcome[t]
      BY <1>1, <3>1 DEF Drive
    <3>3. outcome'[s] # outcome[s]
      BY <2>4
    <3>4. QED
      BY <2>4, <3>2, <3>3
  <2>6. \A t \in refusals : t \in Sequence /\ outcome[t] # "None"
    BY CountTypes DEF DiagnosticsInv, Refusals
  <2>7. \A t \in refusals' : outcome'[t] # "None" /\ t # publishing'
    BY <1>1, <2>4, <2>5, <2>6
  <2>8. Refusals'
    BY <1>1, <1>4, <2>5, <2>7 DEF DiagnosticsInv, Refusals
  <2>9. QED
    BY <2>3, <2>8
<1>10. QED
  BY <1>2, <1>6, <1>7, <1>8, <1>9

\* A refusal is counted here, except on the path that answers the command a
\* cancellation found waiting, and that answer is not refused.
LEMMA PublishKeepsCounts ==
  ASSUME DiagnosticsInv, NEW matches \in BOOLEAN, PublishCounted(matches)
  PROVE  Counts' /\ Refusals'
<1> DEFINE c == publishing
<1>1. /\ FacadeInv /\ step = "publish" /\ step' = "wait" /\ publishing' = NoCommand
      /\ UNCHANGED <<arbiter, submitted, outcome, cancelCalls, locally>>
  BY StepsOfTheLoop DEF PublishCounted, Publish, DiagnosticsInv, driver
<1>2. c \in Sequence /\ c # NoCommand /\ outcome[c] # "None" /\ c \notin refusals
  BY <1>1 DEF FacadeInv, FacadeTypeOK, Progress, DiagnosticsInv, Refusals
<1>3. c \in ledger
  BY <1>1, <1>2, LedgerHolds DEF FacadeInv
<1>4. /\ completion'.sequence = c
      /\ completion'.result = IF outcome[c] = "Completed" => matches THEN outcome[c] ELSE "Protocol"
  BY <1>3 DEF PublishCounted, Publish
<1>5. completion' # completion
  BY <1>1, <1>2, <1>4, SameNumbers DEF FacadeInv, Progress, NoCompletion
<1>6. refusals' = refusals \cup {c} \/ refusals' = refusals
  BY DEF PublishCounted, Refuse
<1>7. c \in refusals' => outcome[c] = "Completed"
  <2>1. outcome[c] # "Protocol"
    BY <1>2, CountTypes DEF TerminalEvent
  <2>2. QED
    BY <1>2, <1>4, <2>1 DEF PublishCounted, Refuse
<1>8. c \in refusals' => ~locally
  BY <1>1, <1>7 DEF DiagnosticsInv, Refusals
<1> DEFINE counted == If(c \in refusals' /\ ~locally, "protocol_errors")
<1>9. Count(counted)
  BY DEF PublishCounted
<1>10. \A d \in CommandCounter \cup {"protocol_errors"} :
         counters'[d] = IF d \in counted THEN Increment(counters[d]) ELSE counters[d]
  <2>1. CommandCounter \cup {"protocol_errors"} \subseteq Counter
    BY CountTypes DEF Counter, CallCounter
  <2>2. QED
    BY <1>9, <2>1, CountEffect DEF DiagnosticsInv, DiagnosticsTypeOK
<1>11. \A d \in CommandCounter : counters'[d] = counters[d]
  BY <1>10 DEF If, CommandCounter, TerminalEvent
<1>12. Departed' = Departed /\ Departed \in Nat
  BY <1>1, CountTypes DEF Departed
<1>13. Counts'
  BY <1>1, <1>11, <1>12, CountsSame
<1>14. counters'["protocol_errors"] = Shown(Cardinality(refusals'))
  <2>1. /\ counters["protocol_errors"] = Shown(Cardinality(refusals))
        /\ Cardinality(refusals) \in Nat /\ counters["protocol_errors"] \in 0 .. CounterMax
    BY CountTypes, CommandSet DEF DiagnosticsInv, Refusals
  <2>2. CASE c \in refusals'
    <3>1. Cardinality(refusals') = Cardinality(refusals) + 1
      BY <1>2, <1>6, <2>2, CountTypes, OneMore
    <3>2. counters'["protocol_errors"] = Increment(counters["protocol_errors"])
      BY <1>8, <1>10, <2>2 DEF If
    <3>3. QED
      BY <2>1, <3>1, <3>2, ShownNext
  <2>3. CASE c \notin refusals'
    BY <1>6, <1>10, <2>1, <2>3 DEF If
  <2>4. QED
    BY <2>2, <2>3
<1>15. \A t \in refusals' : outcome'[t] # "None" /\ t # publishing'
  <2>1. \A t \in refusals' : t \in Sequence /\ outcome[t] # "None"
    BY <1>2, <1>6, CountTypes DEF DiagnosticsInv, Refusals
  <2>2. QED
    BY <1>1, <2>1, SameNumbers
<1>16. Refusals'
  BY <1>1, <1>14, <1>15 DEF Refusals
<1>17. QED
  BY <1>13, <1>16

-----------------------------------------------------------------------------
(* The invariant *)

LEMMA InitEstablishesDiagnosticsInv == DiagnosticsInit => DiagnosticsInv
<1> SUFFICES ASSUME DiagnosticsInit PROVE DiagnosticsInv
  OBVIOUS
<1> USE DEF DiagnosticsInit
<1>1. FacadeInv
  BY InitEstablishesFacadeInv
<1>2. DiagnosticsTypeOK /\ Waits
  <2>1. ~asleep /\ asleep \in BOOLEAN /\ locally \in BOOLEAN
    OBVIOUS
  <2>2. 0 \in 0 .. CounterMax /\ 0 \in 0 .. MaxWaits
    BY LimitIsPositive
  <2>3. DiagnosticsTypeOK
    BY <2>1, <2>2 DEF DiagnosticsTypeOK
  <2>4. Waits
    BY <2>1 DEF Waits
  <2>5. QED
    BY <2>3, <2>4
<1>3. \A c \in Counter : counters[c] = 0
  OBVIOUS
<1>4. step = "wait" /\ publishing = NoCommand /\ submitted = 0 /\ arbiter = NewArbiter
      /\ outcome = [s \in Sequence |-> "None"] /\ cancelCalls = [s \in Sequence |-> 0]
  BY DEF FacadeInit, Init
<1>5. WaitsAreCounted
  BY <1>3, <1>4, CounterNames DEF WaitsAreCounted, CallCounter
<1>6. Shown(0) = 0 /\ Cardinality({}) = 0
  BY LimitIsPositive, FS_EmptySet DEF Shown
<1>7. Refusals
  BY <1>3, <1>4, <1>6, CounterNames DEF Refusals, CallCounter
<1>8. Counts
  <2>1. /\ \A kind \in TerminalEvent : Answered(kind) = {}
        /\ Delivered = {} /\ Requested = {}
    BY <1>4 DEF Answered, Delivered, Requested, TerminalEvent
  <2>2. ~HasActive(arbiter) /\ arbiter.pending = NoCommand
    BY <1>4 DEF HasActive, NewArbiter
  <2>3. Completions = 0 /\ Departed = 0
    BY <1>4, <1>6, <2>1, <2>2 DEF Completions, Departed, TerminalEvent
  <2>4. \A c \in CommandCounter : counters[c] = 0
    BY <1>3, CounterNames DEF CommandCounter
  <2>5. QED
    BY <1>6, <2>1, <2>3, <2>4 DEF Counts, CommandCounter
<1>9. QED
  BY <1>1, <1>2, <1>5, <1>7, <1>8 DEF DiagnosticsInv

LEMMA CountedStepKeepsInv ==
  ASSUME DiagnosticsInv, [CountedNext]_allVars
  PROVE  DiagnosticsInv'
<1>1. FacadeInv'
  BY CountedStep, FacadeStepKeepsInv DEF DiagnosticsInv
<1>2. CASE CountedNext
  <2>1. Waits' /\ WaitsAreCounted'
    BY <1>2, WaitsKept
  <2>2. Counts' /\ Refusals'
    BY <1>2, OtherStepsKeepCounts, BeginOnceKeepsCounts, CancelOnceKeepsCounts, DriveKeepsCounts,
       PublishKeepsCounts
    DEF CountedNext
  <2>3. DiagnosticsTypeOK'
    <3>1. asleep' \in BOOLEAN /\ waits' \in 0 .. MaxWaits /\ abandoned' \in 0 .. MaxWaits
      BY <1>2, WaitsKept
    <3>2. counters' \in [Counter -> 0 .. CounterMax]
      <4>1. counters \in [Counter -> 0 .. CounterMax]
        BY DEF DiagnosticsInv, DiagnosticsTypeOK
      <4>2. counters' = counters \/ \E counted : Count(counted)
        BY <1>2
        DEF CountedNext, WaitReturns, WaitSleeps, WaitFails, DropWait, BeginOnce, CancelOnce,
            DriveCounted, PublishCounted, diagnosticVars
      <4>3. QED
        BY <4>1, <4>2, CountEffect
    <3>3. locally' \in BOOLEAN
      BY <1>2
      DEF CountedNext, WaitReturns, WaitSleeps, WaitFails, DropWait, FirstPoll, BeginOnce,
          CancelOnce, DriveCounted, PublishCounted, diagnosticVars, DiagnosticsInv,
          DiagnosticsTypeOK
    <3>4. refusals' \subseteq Sequence
      <4>1. refusals \subseteq Sequence
        BY DEF DiagnosticsInv, DiagnosticsTypeOK
      <4>2. CASE refusals' = refusals
        BY <4>1, <4>2
      <4>3. ASSUME NEW matches \in BOOLEAN, PublishCounted(matches)
            PROVE  refusals' \subseteq Sequence
        <5>1. publishing \in Sequence
          BY <4>3, StepsOfTheLoop DEF DiagnosticsInv, FacadeInv, FacadeTypeOK, Progress
        <5>2. QED
          BY <4>1, <4>3, <5>1 DEF PublishCounted, Refuse
      <4>4. CASE BeginOnce
        BY <4>1, <4>4, BeginOnceKeepsCounts
      <4>5. QED
        BY <1>2, <4>2, <4>3, <4>4
        DEF CountedNext, WaitReturns, WaitSleeps, WaitFails, DropWait, FirstPoll,
            CancelOnce, DriveCounted, diagnosticVars
    <3>5. QED
      BY <3>1, <3>2, <3>3, <3>4 DEF DiagnosticsTypeOK
  <2>4. QED
    BY <1>1, <2>1, <2>2, <2>3 DEF DiagnosticsInv
<1>3. CASE UNCHANGED allVars
  <2>1. UNCHANGED <<counters, asleep, waits, abandoned, locally, refusals, step, ready, publishing,
                    arbiter, submitted, outcome, cancelCalls>>
    BY <1>3 DEF allVars, diagnosticVars, facadeVars, runnerSide, driver
  <2>2. DiagnosticsTypeOK' /\ Waits' /\ WaitsAreCounted'
    BY <2>1 DEF DiagnosticsInv, DiagnosticsTypeOK, Waits, WaitsAreCounted
  <2>3. Refusals' /\ Counts'
    BY <2>1 DEF DiagnosticsInv, Refusals, Counts, Answered, Delivered, Requested, Completions, Departed
  <2>4. QED
    BY <1>1, <2>2, <2>3 DEF DiagnosticsInv
<1>4. QED
  BY <1>2, <1>3

-----------------------------------------------------------------------------
(* Theorems *)

\* Counting is only counting: with its counters, its failing waits and its
\* dropped ones the runner does nothing that IncrementalFacade does not, so
\* what is proved of the facade holds of it.
THEOREM CountingKeepsFacade == CountedSpec => FacadeSpec
<1>1. DiagnosticsInit => FacadeInit
  BY DEF DiagnosticsInit
<1>2. QED
  BY <1>1, CountedStep, PTL DEF CountedSpec, FacadeSpec

\* Every reachable state satisfies the invariant.
THEOREM DiagnosticsInvHolds == CountedSpec => []DiagnosticsInv
BY InitEstablishesDiagnosticsInv, CountedStepKeepsInv, PTL DEF CountedSpec

\* Every counter of the commands tells the truth, saturated or not.
THEOREM CountersTellTheTruth == CountedSpec => []DiagnosticsInvariant
<1>1. ASSUME DiagnosticsInv
      PROVE  DiagnosticsInvariant
  <2> DEFINE old == {s \in Sequence : s <= submitted}
             started == Cardinality(Answered("Completed")) + (IF HasActive(arbiter) THEN 1 ELSE 0)
  <2>1. Cardinality(old) = submitted /\ submitted \in Nat
    <3>1. submitted \in 0 .. MaxSequence /\ MaxSequence \in Nat
      BY <1>1, DriverAssumption
      DEF DriverAssumption, DiagnosticsInv, FacadeInv, DriverInv, DriverTypeOK
    <3>2. old = 1 .. submitted
      BY <3>1 DEF Sequence
    <3>3. Cardinality(1 .. submitted) = IF 1 > submitted THEN 0 ELSE submitted - 1 + 1
      BY <3>1, FS_Interval
    <3>4. Cardinality(1 .. submitted) = submitted
      BY <3>1, <3>3
    <3>5. Cardinality(old) = submitted
      <4> HIDE DEF old
      <4>1. QED
        BY <3>2, <3>4
    <3>6. QED
      BY <3>1, <3>5
  <2>2. Departed \in Nat /\ Departed <= submitted
    BY <1>1, CountTypes DEF Departed
  <2>3. counters["Started"] <= Shown(Cardinality(old))
    <3>1. Shown(Departed) <= Shown(submitted)
      BY <2>1, <2>2, ShownNext, LimitIsPositive DEF Shown
    <3>2. /\ Shown(Departed) \in 0 .. CounterMax /\ Shown(submitted) \in 0 .. CounterMax
          /\ counters["Started"] \in 0 .. CounterMax
      BY <1>1, <2>1, <2>2, CountTypes, LimitIsPositive DEF Shown, CommandCounter
    <3>3. QED
      BY <1>1, <2>1, <3>1, <3>2 DEF DiagnosticsInv, Counts
  <2>4. started = Completions
    BY DEF Completions
  <2>5. CommandsAreCounted
    BY <1>1, <2>3, <2>4 DEF CommandsAreCounted, DiagnosticsInv, Counts, Refusals, Requested
  <2>6. QED
    BY <1>1, <2>5 DEF DiagnosticsInv, DiagnosticsInvariant
<1>2. DiagnosticsInv => DiagnosticsInvariant
  BY <1>1
<1>3. QED
  BY <1>2, DiagnosticsInvHolds, PTL

\* Every wait that was polled returned, failed, was dropped or sleeps, and
\* each that returned led to one run_once.
THEOREM WaitsAddUp == CountedSpec => []WaitsAreCounted
<1>1. DiagnosticsInv => WaitsAreCounted
  BY DEF DiagnosticsInv
<1>2. QED
  BY <1>1, DiagnosticsInvHolds, PTL
=============================================================================
