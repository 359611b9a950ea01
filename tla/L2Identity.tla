------------------------------ MODULE L2Identity ------------------------------
(***************************************************************************)
(* L2CapabilityState of src/state.rs: the runner publishes the station     *)
(* address after an initialization, the owner of the WifiDevice takes      *)
(* snapshots of it, and neither waits for the other.                       *)
(*                                                                         *)
(* Nothing here keeps a second runner from publishing at the same time but *)
(* that there is none: each claimant of RadioOwnership that has split the  *)
(* radio runs a runner of its own, and the claim allows one.               *)
(*                                                                         *)
(* The flag is stored with Release and loaded with Acquire: a reader that  *)
(* saw it set sees the bytes stored before it, so a sequence of atomic     *)
(* steps is what the two sides can observe of each other.                  *)
(***************************************************************************)
EXTENDS RadioOwnership

CONSTANTS
  Width,     \* bytes of an address: 6
  Byte       \* the bytes an address is made of

ASSUME L2Assumption ==
  /\ Width \in Nat \ {0}
  /\ Byte \subseteq 0 .. 255 /\ 0 \in Byte

VARIABLES
  valid,        \* the flag
  address,      \* the bytes
  publishing,   \* for each runner, the capabilities publish_once stores, or None
  stored,       \* for each runner, how many bytes it has stored
  snapshot,     \* the bytes a snapshot has loaded
  loaded,       \* how many bytes it has loaded, or None outside of one
  returned,     \* what the last snapshot returned
  first         \* history: the first capabilities given to publish_once

writer == <<valid, address, publishing, stored, first>>
reader == <<snapshot, loaded, returned>>
l2Vars == <<writer, reader>>
radioVars == <<ownership, l2Vars>>

Index == 1 .. Width
RawAddress == [Index -> Byte]
NoAddress == [i \in Index |-> 0]
None == -1

\* WifiL2Capabilities::try_new: a unicast address that is not all zero.
IsCapability(raw) == raw # NoAddress /\ raw[1] % 2 = 0
TryNew(raw) == IF IsCapability(raw) THEN raw ELSE NoAddress

L2TypeOK ==
  /\ OwnershipTypeOK
  /\ valid \in BOOLEAN
  /\ {address, snapshot, returned, first} \subseteq RawAddress
  /\ publishing \in [Claimant -> RawAddress]
  /\ stored \in [Claimant -> 0 .. Width]
  /\ loaded \in {None} \cup 0 .. Width

CapabilitiesInit ==
  /\ valid = FALSE
  /\ address = NoAddress
  /\ publishing = [c \in Claimant |-> NoAddress]
  /\ stored = [c \in Claimant |-> 0]
  /\ snapshot = NoAddress /\ loaded = None /\ returned = NoAddress
  /\ first = NoAddress

-----------------------------------------------------------------------------
(* The runner, after an initialization that succeeded *)

\* Mutant: an address that is published again replaces the first.
PublishAgain(c, raw) ==
  /\ publishing[c] = NoAddress
  /\ IsCapability(raw)
  /\ publishing' = [publishing EXCEPT ![c] = raw]
  /\ stored' = [stored EXCEPT ![c] = 0]
  /\ first' = IF first = NoAddress THEN raw ELSE first
  /\ UNCHANGED <<valid, address, reader>>

\* publish_once: whatever the backend says later, the first address stays.
PublishOnce(c, raw) ==
  /\ publishing[c] = NoAddress
  /\ IsCapability(raw)
  /\ ~valid
  /\ publishing' = [publishing EXCEPT ![c] = raw]
  /\ stored' = [stored EXCEPT ![c] = 0]
  /\ first' = IF first = NoAddress THEN raw ELSE first
  /\ UNCHANGED <<valid, address, reader>>

StoreByte(c) ==
  /\ publishing[c] # NoAddress
  /\ stored[c] < Width
  /\ address' = [address EXCEPT ![stored[c] + 1] = publishing[c][stored[c] + 1]]
  /\ stored' = [stored EXCEPT ![c] = @ + 1]
  /\ UNCHANGED <<valid, publishing, first, reader>>

\* Mutant: the flag is set before the last byte.
SetValidEarly(c) ==
  /\ publishing[c] # NoAddress
  /\ stored[c] >= Width - 1
  /\ valid' = TRUE
  /\ publishing' = IF stored[c] = Width THEN [publishing EXCEPT ![c] = NoAddress] ELSE publishing
  /\ UNCHANGED <<address, stored, first, reader>>

SetValid(c) ==
  /\ publishing[c] # NoAddress
  /\ stored[c] = Width
  /\ valid' = TRUE
  /\ publishing' = [publishing EXCEPT ![c] = NoAddress]
  /\ UNCHANGED <<address, stored, first, reader>>

RunnerStep(c) ==
  \/ \E raw \in RawAddress : PublishOnce(c, raw)
  \/ StoreByte(c)
  \/ SetValid(c)

-----------------------------------------------------------------------------
(* The owner of the WifiDevice *)

SnapshotNone ==
  /\ loaded = None
  /\ ~valid
  /\ returned' = NoAddress
  /\ UNCHANGED <<writer, snapshot, loaded>>

BeginSnapshot ==
  /\ loaded = None
  /\ valid
  /\ loaded' = 0
  /\ snapshot' = NoAddress
  /\ UNCHANGED <<writer, returned>>

LoadByte ==
  /\ loaded # None /\ loaded < Width
  /\ snapshot' = [snapshot EXCEPT ![loaded + 1] = address[loaded + 1]]
  /\ loaded' = loaded + 1
  /\ UNCHANGED <<writer, returned>>

ReturnSnapshot ==
  /\ loaded = Width
  /\ returned' = TryNew(snapshot)
  /\ loaded' = None
  /\ UNCHANGED <<writer, snapshot>>

DeviceStep ==
  \/ SnapshotNone
  \/ BeginSnapshot
  \/ LoadByte
  \/ ReturnSnapshot

-----------------------------------------------------------------------------

\* A call of publish_once or snapshot borrows what it is called on, so the
\* parts are not dropped under it.
Drop(c) ==
  /\ publishing[c] = NoAddress
  /\ loaded = None
  /\ DropRadio(c)

L2Next ==
  \/ /\ \E c \in Claimant : InitRadio(c) \/ Split(c) \/ Drop(c)
     /\ UNCHANGED l2Vars
  \/ /\ \E c \in Claimant : place[c] = "split" /\ (RunnerStep(c) \/ DeviceStep)
     /\ UNCHANGED ownership

L2Init == OwnershipInit /\ CapabilitiesInit

L2Spec == L2Init /\ [][L2Next]_radioVars

-----------------------------------------------------------------------------
(* Properties *)

\* However many tasks try to be the runner, a snapshot is None or the whole of
\* the address that was published first, never a mixture of two nor a part
\* of one.
SnapshotIsWhole == returned \in {NoAddress, first}

\* Every variable has its type and every snapshot is whole.
L2Invariant == L2TypeOK /\ SnapshotIsWhole

\* The identity is immutable: a snapshot that has returned it is followed by
\* no snapshot that returns another one or None.
IdentityIsImmutable == [][returned # NoAddress => returned' = returned]_radioVars
=============================================================================
