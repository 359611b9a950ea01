------------------------------ MODULE BleValues ------------------------------
(***************************************************************************)
(* The validating constructors of src/ble.rs: for each the condition under *)
(* which it returns Some, as the code tests it.  An operator that          *)
(* classifies returns the kind, or "None" where the code returns None.     *)
(*                                                                         *)
(* Bit sets (permissions, properties, channels) are sets of names; UUIDs   *)
(* are tagged values; byte strings are their length where only that is     *)
(* looked at.                                                              *)
(***************************************************************************)
EXTENDS Integers, Sequences

-----------------------------------------------------------------------------
(* BluetoothAddress: six bytes in controller order, the last most significant *)

TopBits(bytes) == bytes[6] \div 64      \* bytes[5] & 0xc0
LowBits(bytes) == bytes[6] % 64         \* bytes[5] & 0x3f

AllEqual(bytes, value) == \A i \in 1 .. 6 : bytes[i] = value

PublicKind(bytes) == IF AllEqual(bytes, 0) THEN "None" ELSE "Public"

RandomStaticKind(bytes) ==
  LET zero == (\A i \in 1 .. 5 : bytes[i] = 0) /\ LowBits(bytes) = 0
      one  == (\A i \in 1 .. 5 : bytes[i] = 255) /\ LowBits(bytes) = 63
  IN IF TopBits(bytes) # 3 \/ zero \/ one THEN "None" ELSE "RandomStatic"

\* Mutant: the random part of a resolvable address is read with its top bits.
RandomKindUnmasked(bytes) ==
  LET part == bytes[4] + 256 * bytes[5] + 65536 * bytes[6] IN
  CASE TopBits(bytes) = 3 -> RandomStaticKind(bytes)
    [] TopBits(bytes) = 2 -> "None"
    [] TopBits(bytes) = 1 -> IF part \in {0, 4194303} THEN "None" ELSE "ResolvablePrivate"
    [] TopBits(bytes) = 0 -> IF AllEqual(bytes, 0) THEN "None" ELSE "NonResolvablePrivate"

\* random: the two top bits say which kind a random address is; 0x3f_ffff
\* is a random part of ones.
RandomKind(bytes) ==
  LET part == bytes[4] + 256 * bytes[5] + 65536 * LowBits(bytes) IN
  CASE TopBits(bytes) = 3 -> RandomStaticKind(bytes)
    [] TopBits(bytes) = 2 -> "None"
    [] TopBits(bytes) = 1 -> IF part \in {0, 4194303} THEN "None" ELSE "ResolvablePrivate"
    [] TopBits(bytes) = 0 -> IF AllEqual(bytes, 0) THEN "None" ELSE "NonResolvablePrivate"

-----------------------------------------------------------------------------
(* GAP requests *)

AdvertisingIntervalOk(units) == ~(units < 32 \/ units > 16384)
AdvertisingTimingOk(minimum, maximum) == ~(minimum > maximum)
AdvertisingChannelsOk(bits) == ~(bits = 0 \/ bits \div 8 # 0)
AdvertisingPayloadOk(len) == ~(len > 31)

ScanIntervalOk(units) == ~(units < 4 \/ units > 16384)
ScanTimingOk(interval, window) == ~(window > interval)

PasskeyOk(value) == value <= 999999
RssiOk(value) == value # 127

-----------------------------------------------------------------------------
(* The static GATT database *)

Uuid16(value) == [form |-> "Uuid16", value |-> value]
Uuid128(value) == [form |-> "Uuid128", value |-> value]

\* 0x2902, the Client Characteristic Configuration.
CCC == 10498

GattDescriptorOk(initialLen, maximumLen) ==
  ~(maximumLen = 0 \/ initialLen > maximumLen)

\* Mutant: the loop starts behind the first descriptor.
HasCccBehindFirst(descriptors) ==
  \E i \in 2 .. Len(descriptors) : descriptors[i].uuid = Uuid16(CCC)

\* has_ccc_descriptor: only the 16-bit form of the UUID is looked for.
HasCccDescriptor(descriptors) ==
  \E i \in 1 .. Len(descriptors) : descriptors[i].uuid = Uuid16(CCC)

\* GattProperties::contains
HasProperty(properties, property) == property \in properties

GattCharacteristicOk(properties, initialLen, maximumLen, descriptors) ==
  LET publishes == HasProperty(properties, "NOTIFY") \/ HasProperty(properties, "INDICATE")
  IN /\ ~(maximumLen = 0 \/ initialLen > maximumLen)
     /\ ~(publishes /\ ~HasCccDescriptor(descriptors))

GattServiceOk(characteristics) == characteristics # <<>>
GattServerOk(services) == services # <<>>
=============================================================================
