--------------------------- MODULE ControlTransport ---------------------------
(***************************************************************************)
(* ControlState of src/control.rs with its unique ControlSender and        *)
(* ControlReceiver: one command channel of capacity one, one completion    *)
(* signal, and each side's own idea of the command that is under way.      *)
(*                                                                         *)
(* A side changes its own field before or after it has touched the shared  *)
(* state, so try_submit and complete are two steps each and the other side *)
(* may run between them.  Commands and results are data no property looks  *)
(* at; their id is what the protocol is about.                             *)
(***************************************************************************)
EXTENDS Integers

CONSTANT MaxId      \* u32::MAX, the largest ControlId

ASSUME TransportAssumption == MaxId \in Nat \ {0}

VARIABLES
  command,      \* the command channel: the id in it, or NoControl
  completion,   \* the completion signal: the id in its slot, or NoControl
  nextId,       \* ControlSender.next_id
  outstanding,  \* ControlSender.outstanding
  submitting,   \* the id try_submit has sent and not recorded, or NoControl
  active,       \* ControlReceiver.active
  completing    \* has complete signalled and not released the command

transportVars == <<command, completion, nextId, outstanding, submitting, active, completing>>

ControlId == 1 .. MaxId
NoControl == 0

TransportTypeOK ==
  /\ {command, completion, outstanding, submitting, active} \subseteq ControlId \cup {NoControl}
  /\ nextId \in 0 .. MaxId
  /\ completing \in BOOLEAN

TransportInit ==
  /\ command = NoControl /\ completion = NoControl
  /\ nextId = 0 /\ outstanding = NoControl /\ submitting = NoControl
  /\ active = NoControl /\ completing = FALSE

-----------------------------------------------------------------------------
(* ControlSender *)

\* allocate_id: zero is skipped when the counter wraps.
AllocateId == IF nextId = MaxId THEN 1 ELSE nextId + 1

\* Mutant: a new command replaces the outstanding one.
TrySubmitReplacing ==
  /\ submitting = NoControl
  /\ nextId' = AllocateId
  /\ IF command = NoControl
     THEN command' = AllocateId /\ submitting' = AllocateId
     ELSE UNCHANGED <<command, submitting>>
  /\ UNCHANGED <<completion, outstanding, active, completing>>

\* try_submit; a full channel gives the command back, and the id is used up.
TrySubmit ==
  /\ submitting = NoControl
  /\ outstanding = NoControl
  /\ nextId' = AllocateId
  /\ IF command = NoControl
     THEN command' = AllocateId /\ submitting' = AllocateId
     ELSE UNCHANGED <<command, submitting>>
  /\ UNCHANGED <<completion, outstanding, active, completing>>

RecordOutstanding ==
  /\ submitting # NoControl
  /\ outstanding' = submitting
  /\ submitting' = NoControl
  /\ UNCHANGED <<command, completion, nextId, active, completing>>

\* try_take_completion; one that does not match is handed over as stale.
TryTakeCompletion ==
  /\ submitting = NoControl
  /\ completion # NoControl
  /\ completion' = NoControl
  /\ outstanding' = IF completion = outstanding THEN NoControl ELSE outstanding
  /\ UNCHANGED <<command, nextId, submitting, active, completing>>

-----------------------------------------------------------------------------
(* ControlReceiver *)

TryTakeCommand ==
  /\ ~completing
  /\ active = NoControl
  /\ command # NoControl
  /\ active' = command
  /\ command' = NoControl
  /\ UNCHANGED <<completion, nextId, outstanding, submitting, completing>>

\* complete, with whatever id its caller has; only the active one is signalled.
Complete(id) ==
  /\ ~completing
  /\ active # NoControl /\ active = id
  /\ completion' = id
  /\ completing' = TRUE
  /\ UNCHANGED <<command, nextId, outstanding, submitting, active>>

\* Mutant: a completed command stays active.
ReleaseNothing ==
  /\ completing
  /\ completing' = FALSE
  /\ UNCHANGED <<command, completion, nextId, outstanding, submitting, active>>

ReleaseActive ==
  /\ completing
  /\ active' = NoControl
  /\ completing' = FALSE
  /\ UNCHANGED <<command, completion, nextId, outstanding, submitting>>

TransportNext ==
  \/ TrySubmit
  \/ RecordOutstanding
  \/ TryTakeCompletion
  \/ TryTakeCommand
  \/ \E id \in ControlId : Complete(id)
  \/ ReleaseActive

TransportSpec == TransportInit /\ [][TransportNext]_transportVars

\* Fairness: a call once begun returns, the controller goes on asking for its
\* completion, and the runner takes and completes commands.
FairTransportSpec ==
  /\ TransportSpec
  /\ WF_transportVars(RecordOutstanding)
  /\ WF_transportVars(TryTakeCompletion)
  /\ WF_transportVars(TryTakeCommand)
  /\ \A id \in ControlId : WF_transportVars(Complete(id))
  /\ WF_transportVars(ReleaseActive)

-----------------------------------------------------------------------------
(* Properties *)

\* The command the controller waits for.
Expected == IF submitting # NoControl THEN submitting ELSE outstanding

\* Is the runner's command one it has not signalled yet?
Unanswered(id) == active = id /\ ~completing

\* A command under way is in one place: in the channel, with the runner, or
\* its completion in the slot; and nothing else is anywhere.  So a full
\* channel never refuses a controller that has nothing outstanding, and a
\* completion never overwrites another one.
OnePlace ==
  /\ Expected = NoControl => command = NoControl /\ completion = NoControl /\ (active # NoControl => completing)
  /\ Expected # NoControl =>
       \/ command = Expected /\ completion = NoControl /\ (active # NoControl => completing)
       \/ command = NoControl /\ completion = NoControl /\ Unanswered(Expected)
       \/ command = NoControl /\ completion = Expected /\ (active # NoControl => completing)

\* Every variable has its type, so no id is zero, and the command its place.
TransportInvariant == TransportTypeOK /\ OnePlace

\* No completion is stale: what a controller that has recorded its command
\* finds in the slot is the result of that command.
NoStaleCompletion == completion # NoControl => completion = Expected

\* A command that was submitted is outstanding until its completion is taken
\* and for no longer.
OutstandingReturns ==
  \A id \in ControlId : outstanding = id ~> outstanding # id
=============================================================================
