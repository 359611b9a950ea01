------------------------------ MODULE SleValues ------------------------------
(***************************************************************************)
(* The validating constructors of src/sle.rs: for each the condition under *)
(* which it returns Some, as the code tests it.  Permissions, operations   *)
(* and byte strings are as in BleValues.                                   *)
(***************************************************************************)
EXTENDS Integers, Sequences

SleAddressOk(bytes) == ~(\A i \in 1 .. 6 : bytes[i] = 0)

AnnounceIntervalOk(units) == ~(units < 32 \/ units > 16777215)
AnnounceTimingOk(minimum, maximum) == ~(minimum > maximum)
AnnounceChannelsOk(bits) == ~(bits = 0 \/ bits \div 8 # 0)
AnnouncePayloadOk(len) == ~(len > 64)

\* The upper limit is that of the u16.
SeekIntervalOk(units) == ~(units < 20)
SeekTimingOk(interval, window) == ~(window > interval)

-----------------------------------------------------------------------------
(* The static SSAP database *)

SsapDescriptorOk(initialLen, maximumLen) ==
  ~(maximumLen = 0 \/ initialLen > maximumLen)

\* SsapPermissions::contains and SsapOperations::contains
HasPermission(permissions, permission) == permission \in permissions
HasOperation(operations, operation) == operation \in operations

\* An operation needs its permission; a notification needs no descriptor.
SsapPropertyOk(permissions, operations, initialLen, maximumLen) ==
  /\ ~(maximumLen = 0 \/ initialLen > maximumLen)
  /\ HasOperation(operations, "READ") => HasPermission(permissions, "READ")
  /\ HasOperation(operations, "WRITE") => HasPermission(permissions, "WRITE")

SsapServiceOk(properties) == properties # <<>>
SsapServerOk(services) == services # <<>>
=============================================================================
