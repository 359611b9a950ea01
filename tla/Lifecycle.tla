------------------------------ MODULE Lifecycle ------------------------------
(***************************************************************************)
(* The generation-tagged lifecycle of src/control.rs: LifecycleState, its  *)
(* one LifecycleRunner and the LifecycleGuard of each generation.          *)
(*                                                                         *)
(* The phase is changed inside a critical section; the two signals are set *)
(* and taken outside of it.  A call that does both is two steps, and       *)
(* Preemptive says whether another party may run between them: it may when *)
(* guards and runner live in tasks or interrupts of different priority, it *)
(* may not on one cooperative executor.                                    *)
(*                                                                         *)
(* The backend results a terminal carries are data no property looks at.   *)
(***************************************************************************)
EXTENDS Integers

CONSTANTS
  MaxGeneration,  \* u32::MAX, the largest generation
  Preemptive      \* may a party run inside another one's call

ASSUME LifecycleAssumption ==
  /\ MaxGeneration \in Nat \ {0}
  /\ Preemptive \in BOOLEAN

VARIABLES
  nextGeneration, \* LifecycleInner.next_generation
  phase,          \* LifecycleInner.phase: [kind, id, attached]
  cancellation,   \* Signal: the id in the slot, 0 when it is empty
  terminal,       \* Signal: the id of the terminal in the slot, or 0
  guard,          \* for each generation, where its guard is
  stopping,       \* the cancellation the runner took and has not finished
  finishing       \* the id whose terminal the runner is about to signal

vars == <<nextGeneration, phase, cancellation, terminal, guard, stopping, finishing>>
guardless == <<nextGeneration, stopping, finishing>>

LifecycleId == 1 .. MaxGeneration
NoId == 0

Idle               == [kind |-> "Idle", id |-> NoId, attached |-> FALSE]
Starting(id)       == [kind |-> "Starting", id |-> id, attached |-> FALSE]
Active(id)         == [kind |-> "Active", id |-> id, attached |-> FALSE]
Cancelling(id, waiter) == [kind |-> "Cancelling", id |-> id, attached |-> waiter]
Terminal(id)       == [kind |-> "Terminal", id |-> id, attached |-> TRUE]

Phase == {Idle} \cup
  UNION {{Starting(id), Active(id), Cancelling(id, FALSE), Cancelling(id, TRUE), Terminal(id)} :
         id \in LifecycleId}

\* A guard is absent, held by its owner, between the critical section and the
\* signal of a drop or a stop, waiting for the terminal, or about to
\* acknowledge the terminal it took.
GuardPlace == {"none", "held", "dropping", "requesting", "waiting", "acknowledging"}

LifecycleTypeOK ==
  /\ nextGeneration \in 0 .. MaxGeneration
  /\ phase \in Phase
  /\ cancellation \in LifecycleId \cup {NoId}
  /\ terminal \in LifecycleId \cup {NoId}
  /\ guard \in [LifecycleId -> GuardPlace]
  /\ stopping \in LifecycleId \cup {NoId}
  /\ finishing \in LifecycleId \cup {NoId}

Init ==
  /\ nextGeneration = 0
  /\ phase = Idle
  /\ cancellation = NoId
  /\ terminal = NoId
  /\ guard = [id \in LifecycleId |-> "none"]
  /\ stopping = NoId
  /\ finishing = NoId

-----------------------------------------------------------------------------
(* Who may run *)

InsideCall(id) == guard[id] \in {"dropping", "requesting", "acknowledging"}

RunnerMayCall == finishing = NoId /\ (Preemptive \/ \A id \in LifecycleId : ~InsideCall(id))
GuardMayCall  == Preemptive \/ (finishing = NoId /\ \A id \in LifecycleId : ~InsideCall(id))

-----------------------------------------------------------------------------
(* LifecycleRunner *)

\* The generation begin allocates: zero is skipped when the counter wraps.
NextGeneration == IF nextGeneration = MaxGeneration THEN 1 ELSE nextGeneration + 1

\* Bound: a generation comes round again only after u32::MAX others, by when
\* nothing of its first use is left.  It keeps that true for a small limit.
Forgotten(id) ==
  /\ guard[id] = "none"
  /\ id \notin {cancellation, terminal, stopping, finishing}

Begin ==
  /\ RunnerMayCall
  /\ phase = Idle
  /\ Forgotten(NextGeneration)
  /\ nextGeneration' = NextGeneration
  /\ phase' = Starting(NextGeneration)
  /\ UNCHANGED <<cancellation, terminal, guard, stopping, finishing>>

AbortStart ==
  /\ RunnerMayCall
  /\ phase = Starting(nextGeneration)
  /\ phase' = Idle
  /\ UNCHANGED <<nextGeneration, cancellation, terminal, guard, stopping, finishing>>

\* The backend's start callback turns the generation into its one guard.
Activate ==
  /\ RunnerMayCall
  /\ phase = Starting(nextGeneration)
  /\ phase' = Active(nextGeneration)
  /\ guard' = [guard EXCEPT ![nextGeneration] = "held"]
  /\ UNCHANGED <<nextGeneration, cancellation, terminal, stopping, finishing>>

\* begin and activate in one call, for a lifecycle the backend started.
Adopt ==
  /\ RunnerMayCall
  /\ phase = Idle
  /\ Forgotten(NextGeneration)
  /\ nextGeneration' = NextGeneration
  /\ phase' = Active(NextGeneration)
  /\ guard' = [guard EXCEPT ![NextGeneration] = "held"]
  /\ UNCHANGED <<cancellation, terminal, stopping, finishing>>

TryTakeCancel ==
  /\ RunnerMayCall
  /\ stopping = NoId
  /\ cancellation # NoId
  /\ stopping' = cancellation
  /\ cancellation' = NoId
  /\ UNCHANGED <<nextGeneration, phase, terminal, guard, finishing>>

\* Mutant: the end of a cancelled generation is announced to nobody.
EndUnannounced(id) == phase' = Idle /\ UNCHANGED finishing

\* The critical section of finish and terminate for a cancelled generation:
\* only an attached waiter gets a Terminal phase, and a signal.
End(id) ==
  IF phase.attached
  THEN phase' = Terminal(id) /\ finishing' = id
  ELSE phase' = Idle /\ UNCHANGED finishing

\* finish for the cancellation the runner took, which may be stale by now.
Finish ==
  /\ RunnerMayCall
  /\ stopping # NoId
  /\ IF phase.kind = "Cancelling" /\ phase.id = stopping
     THEN End(stopping)
     ELSE UNCHANGED <<phase, finishing>>
  /\ stopping' = NoId
  /\ UNCHANGED <<nextGeneration, cancellation, terminal, guard>>

\* terminate: the backend stopped the current generation by itself.
Terminate ==
  /\ RunnerMayCall
  /\ phase.id = nextGeneration
  /\ \/ phase.kind \in {"Starting", "Active"} /\ phase' = Idle /\ UNCHANGED finishing
     \/ phase.kind = "Cancelling" /\ End(phase.id)
  /\ UNCHANGED <<nextGeneration, cancellation, terminal, guard, stopping>>

SignalTerminal ==
  /\ finishing # NoId
  /\ terminal' = finishing
  /\ finishing' = NoId
  /\ UNCHANGED <<nextGeneration, phase, cancellation, guard, stopping>>

-----------------------------------------------------------------------------
(* LifecycleGuard *)

GuardAt(id, place) == guard' = [guard EXCEPT ![id] = place]

\* Mutant: the phase is left for the runner to change.
RequestCancelUnrecorded(id, waiter, requested, known, stale) ==
  /\ GuardAt(id, IF phase.id # id THEN stale ELSE requested)
  /\ UNCHANGED phase

\* request_cancel: `requested' is where the guard goes to set the signal,
\* `known' where it goes when the request was made before and `stale' where
\* it goes when the generation is no longer its own.
RequestCancel(id, waiter, requested, known, stale) ==
  IF phase.id # id THEN GuardAt(id, stale) /\ UNCHANGED phase
  ELSE IF phase.kind \in {"Starting", "Active"}
  THEN GuardAt(id, requested) /\ phase' = Cancelling(id, waiter)
  ELSE GuardAt(id, known) /\ UNCHANGED phase

DropGuard(id) ==
  /\ GuardMayCall
  /\ guard[id] = "held"
  /\ RequestCancel(id, FALSE, "dropping", "none", "none")
  /\ UNCHANGED <<cancellation, terminal>> /\ UNCHANGED guardless

Stop(id) ==
  /\ GuardMayCall
  /\ guard[id] = "held"
  /\ RequestCancel(id, TRUE, "requesting", "waiting", "none")
  /\ UNCHANGED <<cancellation, terminal>> /\ UNCHANGED guardless

\* Mutant: a request that still is in the slot keeps its place.
SignalCancellationIfEmpty(id) ==
  /\ guard[id] \in {"dropping", "requesting"}
  /\ cancellation' = IF cancellation = NoId THEN id ELSE cancellation
  /\ GuardAt(id, IF guard[id] = "dropping" THEN "none" ELSE "waiting")
  /\ UNCHANGED <<phase, terminal>> /\ UNCHANGED guardless

\* A signal replaces the id in the slot, whoever set it.
SignalCancellation(id) ==
  /\ guard[id] \in {"dropping", "requesting"}
  /\ cancellation' = id
  /\ GuardAt(id, IF guard[id] = "dropping" THEN "none" ELSE "waiting")
  /\ UNCHANGED <<phase, terminal>> /\ UNCHANGED guardless

\* The wait of a stop takes whatever terminal is there; one of another
\* generation ends the stop with Stale.
TakeTerminal(id) ==
  /\ GuardMayCall
  /\ guard[id] = "waiting"
  /\ terminal # NoId
  /\ terminal' = NoId
  /\ GuardAt(id, IF terminal = id THEN "acknowledging" ELSE "none")
  /\ UNCHANGED <<phase, cancellation>> /\ UNCHANGED guardless

\* Mutant: the stop returns without releasing the generation.
AcknowledgeUnreleased(id) ==
  /\ guard[id] = "acknowledging"
  /\ GuardAt(id, "none")
  /\ UNCHANGED <<phase, cancellation, terminal>> /\ UNCHANGED guardless

AcknowledgeTerminal(id) ==
  /\ guard[id] = "acknowledging"
  /\ phase' = IF phase = Terminal(id) THEN Idle ELSE phase
  /\ GuardAt(id, "none")
  /\ UNCHANGED <<cancellation, terminal>> /\ UNCHANGED guardless

\* Mutant: a dropped stop does not tell the state.
DropStopSilently(id) ==
  /\ GuardMayCall
  /\ guard[id] = "waiting"
  /\ GuardAt(id, "none")
  /\ UNCHANGED <<phase, cancellation, terminal>> /\ UNCHANGED guardless

\* Mutant: a dropped stop leaves its terminal in the slot.
DropStopUntaken(id) ==
  /\ GuardMayCall
  /\ guard[id] = "waiting"
  /\ phase' = IF phase = Terminal(id) THEN Idle ELSE Cancelling(id, FALSE)
  /\ GuardAt(id, "none")
  /\ UNCHANGED <<cancellation, terminal>> /\ UNCHANGED guardless

\* detach_waiter, when the future of a stop is dropped while it waits.
DropStop(id) ==
  /\ GuardMayCall
  /\ guard[id] = "waiting"
  /\ CASE phase = Cancelling(id, TRUE) ->
            phase' = Cancelling(id, FALSE) /\ UNCHANGED terminal
       [] phase = Terminal(id) ->
            phase' = Idle /\ terminal' = NoId
       [] phase \notin {Cancelling(id, TRUE), Terminal(id)} ->
            UNCHANGED <<phase, terminal>>
  /\ GuardAt(id, "none")
  /\ UNCHANGED cancellation /\ UNCHANGED guardless

RunnerNext ==
  \/ Begin
  \/ AbortStart
  \/ Activate
  \/ Adopt
  \/ TryTakeCancel
  \/ Finish
  \/ Terminate
  \/ SignalTerminal

GuardNext(id) ==
  \/ DropGuard(id)
  \/ Stop(id)
  \/ SignalCancellation(id)
  \/ TakeTerminal(id)
  \/ AcknowledgeTerminal(id)
  \/ DropStop(id)

Next == RunnerNext \/ \E id \in LifecycleId : GuardNext(id)

Spec == Init /\ [][Next]_vars

\* Fairness: a runner takes the cancellations it is woken for and finishes
\* what it took, a begun call returns, and a woken stop is polled.  Nothing
\* is assumed of the owner of a guard nor of the backend's own stops.
FairSpec ==
  /\ Spec
  /\ WF_vars(TryTakeCancel)
  /\ WF_vars(Finish)
  /\ WF_vars(SignalTerminal)
  /\ \A id \in LifecycleId :
       WF_vars(SignalCancellation(id)) /\ WF_vars(TakeTerminal(id)) /\ WF_vars(AcknowledgeTerminal(id))

-----------------------------------------------------------------------------
(* Properties *)

\* Stopping a lifecycle does not strand it: a phase only its waiter can
\* leave, or whose end will be such a phase, has a waiter.
NotStranded ==
  phase.attached => guard[phase.id] \in {"requesting", "waiting", "acknowledging"}

\* A terminal in the slot, or taken from it, is the one of the current
\* generation: no stop is ever answered by another generation's end.
TerminalIsCurrent ==
  /\ terminal # NoId => phase = Terminal(terminal)
  /\ \A id \in LifecycleId : guard[id] = "acknowledging" => phase = Terminal(id)

\* A cancellation is never lost: while the generation is cancelling, its id
\* is on the way to the runner or in the runner's hands.
CancellationIsKnown ==
  phase.kind = "Cancelling" =>
    \/ phase.id \in {cancellation, stopping}
    \/ guard[phase.id] \in {"dropping", "requesting"}

\* Both signals carry what their taker can use: no terminal of another
\* generation, no cancellation overwritten before the runner knew it.
SignalsAreCurrent == TerminalIsCurrent /\ CancellationIsKnown

\* An active lifecycle always has the guard that can stop it, and no guard
\* but that one can.
ActiveHasGuard ==
  /\ phase.kind = "Active" => guard[phase.id] = "held"
  /\ phase.kind = "Starting" => guard[phase.id] = "none"

\* Every variable has its type, so no generation is zero, and an active
\* lifecycle its guard.
LifecycleInv == LifecycleTypeOK /\ ActiveHasGuard

\* Every stop returns, with its result or with Stale, unless it is dropped.
StopReturns == \A id \in LifecycleId : guard[id] = "waiting" ~> guard[id] = "none"

\* A cancelled generation ends, so a new one can begin.
CancelledEnds ==
  \A id \in LifecycleId :
    phase.kind \in {"Cancelling", "Terminal"} /\ phase.id = id
      ~> ~(phase.kind \in {"Cancelling", "Terminal"} /\ phase.id = id)
=============================================================================
