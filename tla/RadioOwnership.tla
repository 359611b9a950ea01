---------------------------- MODULE RadioOwnership ----------------------------
(***************************************************************************)
(* Who owns a radio: init and split of src/wifi.rs over the claim flag of  *)
(* src/state.rs.                                                           *)
(*                                                                         *)
(* A RadioState is static and can be named by any task.  init hands the    *)
(* one RadioController to the task that wins the claim, and split turns it *)
(* into the unique runner, controller and device.  Everything else in the  *)
(* crate is written for one of each.  Nothing gives a claim back.          *)
(***************************************************************************)
EXTENDS Integers

CONSTANT Claimant    \* the tasks that may call init on this state

VARIABLES
  claimed,   \* SharedState.claimed
  place      \* for each claimant, what it has of the radio

ownership == <<claimed, place>>

\* Nothing yet, the answer AlreadyInitialized, the unsplit RadioController,
\* its parts, or what is left when the owner drops all of it.
Place == {"outside", "refused", "unsplit", "split", "dropped"}

OwnershipTypeOK == claimed \in BOOLEAN /\ place \in [Claimant -> Place]

OwnershipInit ==
  /\ claimed = FALSE
  /\ place = [c \in Claimant |-> "outside"]

\* Mutant: the flag is read by claim and set by split.
InitUnreserved(c) ==
  /\ place[c] \in {"outside", "refused"}
  /\ place' = [place EXCEPT ![c] = IF claimed THEN "refused" ELSE "unsplit"]
  /\ claimed' = (claimed \/ \E d \in Claimant : place[d] = "split")

\* init: one compare_exchange decides; a refused task may call again.
InitRadio(c) ==
  /\ place[c] \in {"outside", "refused"}
  /\ place' = [place EXCEPT ![c] = IF claimed THEN "refused" ELSE "unsplit"]
  /\ claimed' = TRUE

\* split, and split_incremental alike.
Split(c) ==
  /\ place[c] = "unsplit"
  /\ place' = [place EXCEPT ![c] = "split"]
  /\ UNCHANGED claimed

\* The owner drops the controller, or all of its parts.
DropRadio(c) ==
  /\ place[c] \in {"unsplit", "split"}
  /\ place' = [place EXCEPT ![c] = "dropped"]
  /\ UNCHANGED claimed

Owns(c) == place[c] \in {"unsplit", "split", "dropped"}

\* No two tasks ever own the radio, not even one after the other, and an
\* owned radio is claimed.
OneOwner ==
  /\ \A c, d \in Claimant : Owns(c) /\ Owns(d) => c = d
  /\ \A c \in Claimant : Owns(c) => claimed
=============================================================================
