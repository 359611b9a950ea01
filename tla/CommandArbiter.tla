---------------------------- MODULE CommandArbiter ----------------------------
(***************************************************************************)
(* The command arbiter of src/incremental/command.rs: one active command,  *)
(* one command whose backend start is in progress, and one command that    *)
(* waits.  It is owned by the driver, so each operation is a function on   *)
(* the arbiter's record, with a Can... predicate where it may return Err.  *)
(*                                                                         *)
(* A command is known by its sequence, a non-zero number; 0 stands for     *)
(* None.  Its request is data that no property looks at.                   *)
(***************************************************************************)
EXTENDS Integers

NoCommand == 0

NoActive == [sequence |-> NoCommand, operation |-> 0,
             cancelIntent |-> FALSE, cancelRequested |-> FALSE]

ActiveCommand(Sequence, Operation) ==
  [sequence : Sequence, operation : Operation,
   cancelIntent : BOOLEAN, cancelRequested : BOOLEAN]

Arbiter(Sequence, Operation) ==
  [active   : ActiveCommand(Sequence, Operation) \cup {NoActive},
   starting : Sequence \cup {NoCommand},
   pending  : Sequence \cup {NoCommand}]

NewArbiter == [active |-> NoActive, starting |-> NoCommand, pending |-> NoCommand]

HasActive(a) == a.active # NoActive

\* Mutant: a replacement overwrites the command that waits.
AlwaysSubmit(a) == TRUE

CanSubmit(a) == a.pending = NoCommand
Submitted(a, sequence) == [a EXCEPT !.pending = sequence]

\* A replacement that waits, or the dropped future of the active command
\* itself, asks for the one cancellation call.
CancelDue(a) ==
  /\ HasActive(a)
  /\ a.pending # NoCommand \/ a.active.cancelIntent
  /\ ~a.active.cancelRequested

ArbiterAction(a) ==
  CASE CancelDue(a)                                    -> "CancelActive"
    [] HasActive(a) /\ ~CancelDue(a)                   -> "WaitActive"
    [] ~HasActive(a) /\ a.starting # NoCommand         -> "Starting"
    [] /\ ~HasActive(a) /\ a.starting = NoCommand
       /\ a.pending # NoCommand                        -> "StartPending"
    [] /\ ~HasActive(a) /\ a.starting = NoCommand
       /\ a.pending = NoCommand                        -> "Idle"

\* take_startable, for an arbiter whose action is StartPending.
TakeStartable(a) == [a EXCEPT !.starting = a.pending, !.pending = NoCommand]

CanBindStarted(a, sequence) == a.starting = sequence /\ ~HasActive(a)
BindStarted(a, sequence, operation) ==
  [a EXCEPT !.starting = NoCommand,
            !.active = [sequence |-> sequence, operation |-> operation,
                        cancelIntent |-> FALSE, cancelRequested |-> FALSE]]

\* Mutant: a refused start leaves its command in the starting slot.
StartingKept(a) == a

ClearStarting(a) == [a EXCEPT !.starting = NoCommand]

\* request_cancel by controller sequence.
CancelKind(a, sequence) ==
  CASE HasActive(a) /\ a.active.sequence = sequence ->
         IF a.active.cancelRequested \/ a.active.cancelIntent
         THEN "AlreadyRequested" ELSE "RequestActive"
    [] ~(HasActive(a) /\ a.active.sequence = sequence) ->
         IF a.pending = sequence THEN "RemovePending" ELSE "NotFound"
IntendCancel(a)  == [a EXCEPT !.active.cancelIntent = TRUE]
RemovePending(a) == [a EXCEPT !.pending = NoCommand]

CanMarkCancelRequested(a, operation) ==
  /\ HasActive(a)
  /\ a.active.operation = operation
  /\ ~a.active.cancelRequested
MarkCancelRequested(a) == [a EXCEPT !.active.cancelRequested = TRUE]

\* Mutant: an answered command stays active.
ActiveKept(a) == a

CanFinishActive(a, operation) == HasActive(a) /\ a.active.operation = operation
FinishActive(a) == [a EXCEPT !.active = NoActive]
=============================================================================
