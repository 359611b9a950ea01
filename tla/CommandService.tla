---------------------------- MODULE CommandService ----------------------------
(***************************************************************************)
(* What the command plane promises a controller, whatever runner serves    *)
(* it: commands are accepted in the order of their sequences, at most one  *)
(* waits and at most one runs, each is answered exactly once, and a        *)
(* command whose cancellation was taken on is never answered with success. *)
(*                                                                         *)
(* The promise is the one of src/wifi.rs (one outstanding control future,  *)
(* a dropped future requests cancellation) and of the CommandArbiter's     *)
(* doc: at most one replacement command, cancellation requested once.      *)
(***************************************************************************)
EXTENDS Integers

CONSTANT MaxSequence

VARIABLE status      \* status[s]: where command s is

Commands == 1 .. MaxSequence

Answered == {"Completed", "Cancelled", "Failed"}
Status == Answered \cup {"Unknown", "Waiting", "Running", "Cancelling"}

ServiceInit == status = [s \in Commands |-> "Unknown"]

Becomes(s, next) == status' = [status EXCEPT ![s] = next]

NoneRuns == \A t \in Commands : status[t] \notin {"Running", "Cancelling"}

Accept(s) ==
  /\ status[s] = "Unknown"
  /\ \A t \in Commands : t < s => status[t] # "Unknown"
  /\ \A t \in Commands : status[t] # "Waiting"
  /\ Becomes(s, "Waiting")

\* A command that never reached the backend is withdrawn locally.
Withdraw(s) == status[s] = "Waiting" /\ Becomes(s, "Cancelled")

Start(s)  == status[s] = "Waiting" /\ NoneRuns /\ Becomes(s, "Running")
Refuse(s) == status[s] = "Waiting" /\ NoneRuns /\ Becomes(s, "Failed")

TakeOnCancel(s) == status[s] = "Running" /\ Becomes(s, "Cancelling")

Succeed(s) == status[s] = "Running" /\ Becomes(s, "Completed")
Stop(s) == status[s] \in {"Running", "Cancelling"} /\ Becomes(s, "Cancelled")
Fail(s) == status[s] \in {"Running", "Cancelling"} /\ Becomes(s, "Failed")

ServiceNext ==
  \E s \in Commands :
    \/ Accept(s)
    \/ Withdraw(s)
    \/ Start(s)
    \/ Refuse(s)
    \/ TakeOnCancel(s)
    \/ Succeed(s)
    \/ Stop(s)
    \/ Fail(s)

ServiceSpec == ServiceInit /\ [][ServiceNext]_status
=============================================================================
