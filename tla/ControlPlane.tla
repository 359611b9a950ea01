---------------------------- MODULE ControlPlane ----------------------------
(***************************************************************************)
(* The control plane a protocol driver builds from src/control.rs: the     *)
(* command transport and the lifecycle of one resource, side by side, with *)
(* commands that act on the resource.                                      *)
(*                                                                         *)
(* The two types do not know each other.  What joins them is a rule in the *)
(* comment of LifecycleRunner::is_active: a command carries the generation *)
(* it was meant for, and the runner asks whether that generation is still  *)
(* the active one immediately before it touches the backend.  The driver   *)
(* itself is not in this repository; it is taken to follow the rule, to    *)
(* run both runner halves in one task, and to answer every command.        *)
(***************************************************************************)
EXTENDS Lifecycle, ControlTransport

VARIABLES
  target,   \* the generation the command under way is meant for
  touched   \* has the runner touched the backend for its command

planeVars == <<vars, transportVars, target, touched>>

PlaneInit ==
  /\ Init
  /\ TransportInit
  /\ target = NoId
  /\ touched = FALSE

-----------------------------------------------------------------------------

\* The owner of a guard submits a command for its generation.
SubmitFor(id) ==
  /\ GuardMayCall
  /\ guard[id] = "held"
  /\ TrySubmit
  /\ target' = IF command' # command THEN id ELSE target
  /\ UNCHANGED <<vars, touched>>

\* is_active
IsActive(id) == phase = Active(id)

HasCommand == active # NoControl /\ ~completing

\* Mutant: the generation was asked for when the command was taken.
TouchUnchecked ==
  /\ RunnerMayCall
  /\ HasCommand /\ ~touched
  /\ touched' = TRUE
  /\ UNCHANGED <<vars, transportVars, target>>

\* The question and the backend call are one step: no await is between them.
Touch ==
  /\ RunnerMayCall
  /\ HasCommand /\ ~touched
  /\ IsActive(target)
  /\ touched' = TRUE
  /\ UNCHANGED <<vars, transportVars, target>>

\* The command is answered, also when its generation is gone.
Answer(id) ==
  /\ RunnerMayCall
  /\ touched \/ ~IsActive(target)
  /\ Complete(id)
  /\ touched' = FALSE
  /\ UNCHANGED <<vars, target>>

TransportStep ==
  /\ RecordOutstanding \/ TryTakeCompletion \/ TryTakeCommand \/ ReleaseActive
  /\ UNCHANGED <<vars, target, touched>>

\* Bound: a command is not under way for 2^32 generations, so the generation
\* it was meant for does not come round again meanwhile.
LifecycleStep ==
  /\ Next
  /\ nextGeneration' # nextGeneration /\ Expected # NoControl => nextGeneration' # target
  /\ UNCHANGED <<transportVars, target, touched>>

PlaneNext ==
  \/ \E id \in LifecycleId : SubmitFor(id)
  \/ Touch
  \/ \E id \in ControlId : Answer(id)
  \/ TransportStep
  \/ LifecycleStep

\* Fairness: what Lifecycle and ControlTransport assume each, and that the
\* runner performs and answers the command it took.
PlaneSpec ==
  /\ PlaneInit /\ [][PlaneNext]_planeVars
  /\ WF_planeVars(TryTakeCancel /\ LifecycleStep)
  /\ WF_planeVars(Finish /\ LifecycleStep)
  /\ WF_planeVars(SignalTerminal /\ LifecycleStep)
  /\ \A id \in LifecycleId :
       /\ WF_planeVars(SignalCancellation(id) /\ LifecycleStep)
       /\ WF_planeVars(TakeTerminal(id) /\ LifecycleStep)
       /\ WF_planeVars(AcknowledgeTerminal(id) /\ LifecycleStep)
  /\ WF_planeVars(TransportStep)
  /\ WF_planeVars(Touch)
  /\ \A id \in ControlId : WF_planeVars(Answer(id))

-----------------------------------------------------------------------------
(* Properties *)

\* A command acts only while the owner of its resource holds the guard: not
\* once the guard was dropped or its stop begun, not on a resource that has
\* ended, and not on the next one, however long it was queued.
ActsOnHeldResource ==
  [][~touched /\ touched' => guard[target] = "held" /\ target = nextGeneration]_planeVars

PlaneTypeOK == target \in LifecycleId \cup {NoId} /\ touched \in BOOLEAN

\* Every variable has its type, no id or generation is zero, an active
\* lifecycle has its guard and the command under way is in one place: what
\* each protocol keeps alone it keeps beside the other.
PlaneInvariant == PlaneTypeOK /\ LifecycleInv /\ TransportInvariant
=============================================================================
