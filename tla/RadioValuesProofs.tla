-------------------------- MODULE RadioValuesProofs --------------------------
(***************************************************************************)
(* The constructors for every argument of their types, however many calls  *)
(* the application makes: what it holds is valid as a whole, and what it   *)
(* was refused is not.                                                     *)
(*                                                                         *)
(* For each constructor a lemma says that the condition the code tests is  *)
(* the one the property states in terms of its own: bits, times, what a    *)
(* network offers, what an attribute promises its server.  The parts of a  *)
(* whole have been through such a constructor (ValuesInv), so the last     *)
(* constructor has to look at the rest only.  ErrorsInv does the same for  *)
(* errors: what the backend has told is in the error under construction.   *)
(***************************************************************************)
EXTENDS RadioValues, SequenceTheorems, WellFoundedInduction, TLAPS

IsRequest(value) == value.type \notin DatabaseType \cup ErrorType

Good(value) ==
  /\ IsRequest(value) => Fits(value) \/ IsBeyondAscii(value)
  /\ value.type \in DatabaseType => KeepsContract(value)

Bad(value) ==
  /\ IsRequest(value) => ~Fits(value)
  /\ value.type = "Station" => ToSet(value.config.passphrase) \subseteq {0}
  /\ value.type \in DatabaseType => ~KeepsContract(value)

\* What the constructors of a larger value rely on beside validity.
Typed(value) ==
  /\ value.type = "Interval" => value.kind \in IntervalKind /\ value.units \in Nat
  /\ value.type = "ScanResult" => value.security \in Security
  /\ value.type = "Passphrase" => value.bytes \in PassphraseBytes

\* Intervals and payloads are for the kind of request the application began
\* with.
HasKind(value) == value.type \in {"Interval", "Payload"}

SameKind ==
  \A i \in 1 .. Len(parts) : HasKind(parts[i]) => parts[i].kind = parts[1].kind

ValuesInv ==
  /\ parts \in Seq(ToSet(parts))
  /\ \A value \in ToSet(parts) : Typed(value)
  /\ SameKind
  /\ RequestsAreValid
  /\ DatabasesKeepContract

-----------------------------------------------------------------------------
(* Bits of a byte *)

LEMMA Powers ==
  /\ 2^0 = 1 /\ 2^1 = 2 /\ 2^2 = 4 /\ 2^3 = 8
  /\ 2^4 = 16 /\ 2^5 = 32 /\ 2^6 = 64 /\ 2^7 = 128
OBVIOUS

BitSet(byte, k) == (byte \div 2^k) % 2 = 1

LEMMA ByteAsBits ==
  ASSUME NEW b \in 0 .. 255
  PROVE  /\ b = 0 <=> \A k \in 0 .. 7 : ~BitSet(b, k)
         /\ b = 255 <=> \A k \in 0 .. 7 : BitSet(b, k)
         /\ b % 64 = 0 <=> \A k \in 0 .. 5 : ~BitSet(b, k)
         /\ b % 64 = 63 <=> \A k \in 0 .. 5 : BitSet(b, k)
         /\ b \div 64 = (IF BitSet(b, 6) THEN 1 ELSE 0) + (IF BitSet(b, 7) THEN 2 ELSE 0)
<1>1. /\ BitSet(b, 0) <=> b % 2 = 1
      /\ BitSet(b, 1) <=> (b \div 2) % 2 = 1
      /\ BitSet(b, 2) <=> (b \div 4) % 2 = 1
      /\ BitSet(b, 3) <=> (b \div 8) % 2 = 1
      /\ BitSet(b, 4) <=> (b \div 16) % 2 = 1
      /\ BitSet(b, 5) <=> (b \div 32) % 2 = 1
      /\ BitSet(b, 6) <=> (b \div 64) % 2 = 1
      /\ BitSet(b, 7) <=> (b \div 128) % 2 = 1
  BY Powers DEF BitSet
<1>2. /\ (\A k \in 0 .. 5 : BitSet(b, k)) <=>
           BitSet(b, 0) /\ BitSet(b, 1) /\ BitSet(b, 2) /\ BitSet(b, 3) /\ BitSet(b, 4) /\ BitSet(b, 5)
      /\ (\A k \in 0 .. 5 : ~BitSet(b, k)) <=>
           ~(BitSet(b, 0) \/ BitSet(b, 1) \/ BitSet(b, 2) \/ BitSet(b, 3) \/ BitSet(b, 4) \/ BitSet(b, 5))
  <2>1. 0 .. 5 = {0, 1, 2, 3, 4, 5}
    OBVIOUS
  <2>2. QED
    BY <2>1, Zenon
<1>3. /\ (\A k \in 0 .. 7 : BitSet(b, k)) <=>
           (\A k \in 0 .. 5 : BitSet(b, k)) /\ BitSet(b, 6) /\ BitSet(b, 7)
      /\ (\A k \in 0 .. 7 : ~BitSet(b, k)) <=>
           (\A k \in 0 .. 5 : ~BitSet(b, k)) /\ ~BitSet(b, 6) /\ ~BitSet(b, 7)
  <2>1. \A k : k \in 0 .. 7 <=> k \in 0 .. 5 \/ k = 6 \/ k = 7
    OBVIOUS
  <2>2. 6 \in 0 .. 7 /\ 7 \in 0 .. 7 /\ \A k \in 0 .. 5 : k \in 0 .. 7
    OBVIOUS
  <2>3. (\A k \in 0 .. 7 : BitSet(b, k)) <=>
          (\A k \in 0 .. 5 : BitSet(b, k)) /\ BitSet(b, 6) /\ BitSet(b, 7)
    BY <2>1, <2>2, SMT
  <2>4. (\A k \in 0 .. 7 : ~BitSet(b, k)) <=>
          (\A k \in 0 .. 5 : ~BitSet(b, k)) /\ ~BitSet(b, 6) /\ ~BitSet(b, 7)
    BY <2>1, <2>2, SMT
  <2>5. QED
    BY <2>3, <2>4
<1>4. /\ b % 64 = 0 <=> \A k \in 0 .. 5 : ~BitSet(b, k)
      /\ b % 64 = 63 <=> \A k \in 0 .. 5 : BitSet(b, k)
  BY <1>1, <1>2
<1>5. b \div 64 = (IF BitSet(b, 6) THEN 1 ELSE 0) + (IF BitSet(b, 7) THEN 2 ELSE 0)
  BY <1>1
<1>6. /\ b = 0 <=> b % 64 = 0 /\ b \div 64 = 0
      /\ b = 255 <=> b % 64 = 63 /\ b \div 64 = 3
  OBVIOUS
<1>7. QED
  BY <1>3, <1>4, <1>5, <1>6

\* And one of them, given the byte.
LEMMA BitOfByte ==
  ASSUME NEW b \in 0 .. 255, NEW k \in 0 .. 7
  PROVE  /\ b = 0 => ~BitSet(b, k)
         /\ b = 255 => BitSet(b, k)
         /\ b % 64 = 0 /\ k \in 0 .. 5 => ~BitSet(b, k)
         /\ b % 64 = 63 /\ k \in 0 .. 5 => BitSet(b, k)
<1>1. b = 0 => ~BitSet(b, k)
  BY ByteAsBits
<1>2. b = 255 => BitSet(b, k)
  BY ByteAsBits
<1>3. b % 64 = 0 /\ k \in 0 .. 5 => ~BitSet(b, k)
  BY ByteAsBits
<1>4. b % 64 = 63 /\ k \in 0 .. 5 => BitSet(b, k)
  BY ByteAsBits
<1>5. QED
  BY <1>1, <1>2, <1>3, <1>4

-----------------------------------------------------------------------------
(* Addresses *)

Address == [1 .. 6 -> 0 .. 255]

\* Bit k of byte j.
LEMMA BitOfAddress ==
  ASSUME NEW bytes \in Address, NEW j \in 1 .. 6, NEW k \in 0 .. 7
  PROVE  8 * (j - 1) + k \in Bits(bytes) <=> BitSet(bytes[j], k)
<1>1. /\ 8 * (j - 1) + k \in 0 .. 47
      /\ (8 * (j - 1) + k) \div 8 = j - 1
      /\ (8 * (j - 1) + k) % 8 = k
  OBVIOUS
<1>2. (j - 1) + 1 = j
  OBVIOUS
<1>3. QED
  BY <1>1, <1>2 DEF Bits, BitSet

\* The bits from that of byte `first' on are all clear, or all set.
LEMMA Field ==
  ASSUME NEW bytes \in Address, NEW first \in {1, 4}
  PROVE  /\ (Bits(bytes) \cap (8 * (first - 1) .. 45) = {}) <=>
              (\A j \in first .. 5 : bytes[j] = 0) /\ bytes[6] % 64 = 0
         /\ (Bits(bytes) \cap (8 * (first - 1) .. 45) = 8 * (first - 1) .. 45) <=>
              (\A j \in first .. 5 : bytes[j] = 255) /\ bytes[6] % 64 = 63
<1> DEFINE field == 8 * (first - 1) .. 45
<1>1. \A j \in 1 .. 6 : bytes[j] \in 0 .. 255
  BY DEF Address
<1>2. \A i \in field : \E j \in first .. 6, k \in 0 .. 7 :
        i = 8 * (j - 1) + k /\ (j = 6 => k \in 0 .. 5)
  <2> TAKE i \in field
  <2> DEFINE j == (i \div 8) + 1
             k == i % 8
  <2>1. j \in first .. 6 /\ k \in 0 .. 7 /\ i = 8 * (j - 1) + k /\ (j = 6 => k \in 0 .. 5)
    OBVIOUS
  <2>2. QED
    BY <2>1
<1>3. \A j \in first .. 5, k \in 0 .. 7 : 8 * (j - 1) + k \in field /\ j \in 1 .. 6
  OBVIOUS
<1>4. \A k \in 0 .. 5 : 8 * (6 - 1) + k \in field /\ k \in 0 .. 7
  OBVIOUS
<1>5. first .. 6 \subseteq 1 .. 6 /\ first .. 5 \subseteq 1 .. 6 /\ 6 \in first .. 6
      /\ \A j \in first .. 6 : j = 6 \/ j \in first .. 5
  OBVIOUS
<1> HIDE DEF field
<1>6. (\A i \in field : i \notin Bits(bytes)) <=>
        (\A j \in first .. 5 : bytes[j] = 0) /\ bytes[6] % 64 = 0
  <2>1. ASSUME \A i \in field : i \notin Bits(bytes)
        PROVE  (\A j \in first .. 5 : bytes[j] = 0) /\ bytes[6] % 64 = 0
    <3>1. ASSUME NEW j \in first .. 5 PROVE bytes[j] = 0
      <4>1. \A k \in 0 .. 7 : ~BitSet(bytes[j], k)
        BY <1>3, <2>1, BitOfAddress
      <4>2. bytes[j] \in 0 .. 255
        BY <1>1, <1>5
      <4>3. QED
        BY <4>1, <4>2, ByteAsBits
    <3>2. bytes[6] % 64 = 0
      <4>1. \A k \in 0 .. 5 : ~BitSet(bytes[6], k)
        BY <1>4, <2>1, BitOfAddress
      <4>2. bytes[6] \in 0 .. 255
        BY <1>1
      <4>3. QED
        BY <4>1, <4>2, ByteAsBits
    <3>3. QED
      BY <3>1, <3>2
  <2>2. ASSUME \A j \in first .. 5 : bytes[j] = 0, bytes[6] % 64 = 0, NEW i \in field
        PROVE  i \notin Bits(bytes)
    <3>1. PICK j \in first .. 6, k \in 0 .. 7 : i = 8 * (j - 1) + k /\ (j = 6 => k \in 0 .. 5)
      BY <1>2
    <3>2. ~BitSet(bytes[j], k)
      <4> bytes[j] \in 0 .. 255
        BY <1>1, <1>5
      <4>1. CASE j = 6
        <5>1. bytes[j] % 64 = 0 /\ k \in 0 .. 5
          BY <2>2, <3>1, <4>1
        <5>2. QED
          BY <5>1, BitOfByte
      <4>2. CASE j \in first .. 5
        <5>1. bytes[j] = 0
          BY <2>2, <4>2
        <5>2. QED
          BY <5>1, BitOfByte
      <4>3. QED
        BY <1>5, <4>1, <4>2
    <3>3. QED
      BY <1>5, <3>1, <3>2, BitOfAddress
  <2>3. QED
    BY <2>1, <2>2
<1>7. (\A i \in field : i \in Bits(bytes)) <=>
        (\A j \in first .. 5 : bytes[j] = 255) /\ bytes[6] % 64 = 63
  <2>1. ASSUME \A i \in field : i \in Bits(bytes)
        PROVE  (\A j \in first .. 5 : bytes[j] = 255) /\ bytes[6] % 64 = 63
    <3>1. ASSUME NEW j \in first .. 5 PROVE bytes[j] = 255
      <4>1. \A k \in 0 .. 7 : BitSet(bytes[j], k)
        BY <1>3, <2>1, BitOfAddress
      <4>2. bytes[j] \in 0 .. 255
        BY <1>1, <1>5
      <4>3. QED
        BY <4>1, <4>2, ByteAsBits
    <3>2. bytes[6] % 64 = 63
      <4>1. \A k \in 0 .. 5 : BitSet(bytes[6], k)
        BY <1>4, <2>1, BitOfAddress
      <4>2. bytes[6] \in 0 .. 255
        BY <1>1
      <4>3. QED
        BY <4>1, <4>2, ByteAsBits
    <3>3. QED
      BY <3>1, <3>2
  <2>2. ASSUME \A j \in first .. 5 : bytes[j] = 255, bytes[6] % 64 = 63, NEW i \in field
        PROVE  i \in Bits(bytes)
    <3>1. PICK j \in first .. 6, k \in 0 .. 7 : i = 8 * (j - 1) + k /\ (j = 6 => k \in 0 .. 5)
      BY <1>2
    <3>2. BitSet(bytes[j], k)
      <4> bytes[j] \in 0 .. 255
        BY <1>1, <1>5
      <4>1. CASE j = 6
        <5>1. bytes[j] % 64 = 63 /\ k \in 0 .. 5
          BY <2>2, <3>1, <4>1
        <5>2. QED
          BY <5>1, BitOfByte
      <4>2. CASE j \in first .. 5
        <5>1. bytes[j] = 255
          BY <2>2, <4>2
        <5>2. QED
          BY <5>1, BitOfByte
      <4>3. QED
        BY <1>5, <4>1, <4>2
    <3>3. QED
      BY <1>5, <3>1, <3>2, BitOfAddress
  <2>3. QED
    BY <2>1, <2>2
<1>8. QED
  BY <1>6, <1>7 DEF field

\* A predicate for "neither none nor all of the field".
LEMMA MixedField ==
  ASSUME NEW bytes \in Address, NEW first \in {1, 4}
  PROVE  Mixed(Bits(bytes), 8 * (first - 1) .. 45) <=>
           /\ ~((\A j \in first .. 5 : bytes[j] = 0) /\ bytes[6] % 64 = 0)
           /\ ~((\A j \in first .. 5 : bytes[j] = 255) /\ bytes[6] % 64 = 63)
BY Field DEF Mixed

LEMMA TopBitsOf ==
  ASSUME NEW bytes \in Address
  PROVE  /\ bytes[6] \div 64 \in 0 .. 3
         /\ bytes[6] \div 64 = 3 <=> {46, 47} \subseteq Bits(bytes)
         /\ bytes[6] \div 64 = 2 <=> Bits(bytes) \cap {46, 47} = {47}
         /\ bytes[6] \div 64 = 1 <=> Bits(bytes) \cap {46, 47} = {46}
         /\ bytes[6] \div 64 = 0 <=> Bits(bytes) \cap {46, 47} = {}
<1>1. bytes[6] \in 0 .. 255
  BY DEF Address
<1>2. /\ 46 \in Bits(bytes) <=> BitSet(bytes[6], 6)
      /\ 47 \in Bits(bytes) <=> BitSet(bytes[6], 7)
  <2>1. 6 \in 1 .. 6 /\ 6 \in 0 .. 7 /\ 7 \in 0 .. 7 /\ 8 * (6 - 1) + 6 = 46 /\ 8 * (6 - 1) + 7 = 47
    OBVIOUS
  <2>2. QED
    BY <2>1, BitOfAddress
<1>3. bytes[6] \div 64
        = (IF 46 \in Bits(bytes) THEN 1 ELSE 0) + (IF 47 \in Bits(bytes) THEN 2 ELSE 0)
  <2>1. bytes[6] \div 64
          = (IF BitSet(bytes[6], 6) THEN 1 ELSE 0) + (IF BitSet(bytes[6], 7) THEN 2 ELSE 0)
    BY <1>1, ByteAsBits
  <2>2. QED
    BY <1>2, <2>1
<1>4. QED
  BY <1>3

LEMMA NoBits ==
  ASSUME NEW bytes \in Address
  PROVE  Bits(bytes) = {} <=> AllEqual(bytes, 0)
<1>1. \A j \in 1 .. 6 : bytes[j] \in 0 .. 255
  BY DEF Address
<1>2. ASSUME Bits(bytes) = {}, NEW j \in 1 .. 6 PROVE bytes[j] = 0
  <2>1. \A k \in 0 .. 7 : ~BitSet(bytes[j], k)
    BY <1>2, BitOfAddress
  <2>2. bytes[j] \in 0 .. 255
    BY <1>1, <1>2
  <2>3. QED
    BY <2>1, <2>2, ByteAsBits
<1>3. ASSUME AllEqual(bytes, 0), NEW i \in Bits(bytes) PROVE FALSE
  <2> DEFINE j == (i \div 8) + 1
             k == i % 8
  <2>1. i \in 0 .. 47 /\ BitSet(bytes[j], k)
    BY DEF Bits, BitSet
  <2>2. j \in 1 .. 6 /\ k \in 0 .. 7
    BY <2>1
  <2>3. bytes[j] = 0 /\ 0 \in 0 .. 255
    BY <1>3, <2>2 DEF AllEqual
  <2> HIDE DEF j, k
  <2>4. QED
    BY <2>1, <2>2, <2>3, ByteAsBits
<1>4. QED
  BY <1>2, <1>3 DEF AllEqual

\* The kind the code finds is the one the bits say.
LEMMA StaticKind ==
  ASSUME NEW bytes \in Address
  PROVE  RandomStaticKind(bytes) = KindOfBits("random_static", Bits(bytes))
<1>1. (bytes[6] \div 64 = 3) <=> {46, 47} \subseteq Bits(bytes)
  BY TopBitsOf
<1>2. 8 * (1 - 1) = 0 /\ 1 \in {1, 4}
  OBVIOUS
<1>3. Mixed(Bits(bytes), 0 .. 45) <=>
        /\ ~((\A j \in 1 .. 5 : bytes[j] = 0) /\ bytes[6] % 64 = 0)
        /\ ~((\A j \in 1 .. 5 : bytes[j] = 255) /\ bytes[6] % 64 = 63)
  BY <1>2, MixedField
<1>4. QED
  BY <1>1, <1>3 DEF RandomStaticKind, KindOfBits, TopBits, LowBits

LEMMA ResolvablePart ==
  ASSUME NEW bytes \in Address
  PROVE  bytes[4] + 256 * bytes[5] + 65536 * LowBits(bytes) \notin {0, 4194303} <=>
           Mixed(Bits(bytes), 24 .. 45)
<1>1. bytes[4] \in 0 .. 255 /\ bytes[5] \in 0 .. 255 /\ bytes[6] \in 0 .. 255
  BY DEF Address
<1>2. 8 * (4 - 1) = 24 /\ 4 \in {1, 4} /\ \A j : j \in 4 .. 5 <=> j = 4 \/ j = 5
  OBVIOUS
<1>3. Mixed(Bits(bytes), 24 .. 45) <=>
        /\ ~(bytes[4] = 0 /\ bytes[5] = 0 /\ bytes[6] % 64 = 0)
        /\ ~(bytes[4] = 255 /\ bytes[5] = 255 /\ bytes[6] % 64 = 63)
  <2>1. Mixed(Bits(bytes), 24 .. 45) <=>
          /\ ~((\A j \in 4 .. 5 : bytes[j] = 0) /\ bytes[6] % 64 = 0)
          /\ ~((\A j \in 4 .. 5 : bytes[j] = 255) /\ bytes[6] % 64 = 63)
    BY <1>2, MixedField
  <2>2. QED
    BY <1>2, <2>1
<1>4. LowBits(bytes) \in 0 .. 63 /\ LowBits(bytes) = bytes[6] % 64
  BY <1>1 DEF LowBits
<1>5. /\ bytes[4] + 256 * bytes[5] + 65536 * LowBits(bytes) = 0 <=>
           bytes[4] = 0 /\ bytes[5] = 0 /\ LowBits(bytes) = 0
      /\ bytes[4] + 256 * bytes[5] + 65536 * LowBits(bytes) = 4194303 <=>
           bytes[4] = 255 /\ bytes[5] = 255 /\ LowBits(bytes) = 63
  <2> DEFINE low == LowBits(bytes)
             fourth == bytes[4]
             fifth == bytes[5]
  <2>1. fourth \in 0 .. 255 /\ fifth \in 0 .. 255 /\ low \in 0 .. 63
    BY <1>1, <1>4
  <2> HIDE DEF low, fourth, fifth
  <2>2. /\ fourth + 256 * fifth + 65536 * low = 0 <=> fourth = 0 /\ fifth = 0 /\ low = 0
        /\ fourth + 256 * fifth + 65536 * low = 4194303 <=> fourth = 255 /\ fifth = 255 /\ low = 63
    BY <2>1, SMT
  <2>3. QED
    BY <2>2, SMT DEF low, fourth, fifth
<1>6. QED
  BY <1>3, <1>4, <1>5, SMT

LEMMA AddressKind ==
  ASSUME NEW bytes \in Address
  PROVE  /\ PublicKind(bytes) = KindOfBits("public", Bits(bytes))
         /\ RandomStaticKind(bytes) = KindOfBits("random_static", Bits(bytes))
         /\ RandomKind(bytes) = KindOfBits("random", Bits(bytes))
<1>1. PublicKind(bytes) = KindOfBits("public", Bits(bytes))
  BY NoBits DEF PublicKind, KindOfBits
<1>2. RandomKind(bytes) = KindOfBits("random", Bits(bytes))
  <2> DEFINE top == bytes[6] \div 64
  <2>1. top \in 0 .. 3
    BY TopBitsOf
  <2>2. CASE top = 3
    <3>1. {46, 47} \subseteq Bits(bytes)
      BY <2>2, TopBitsOf
    <3>2. KindOfBits("random", Bits(bytes)) = KindOfBits("random_static", Bits(bytes))
      BY <3>1 DEF KindOfBits
    <3>3. QED
      BY <2>2, <3>2, StaticKind DEF RandomKind, TopBits
  <2>3. CASE top = 2
    <3>1. Bits(bytes) \cap {46, 47} = {47}
      BY <2>3, TopBitsOf
    <3>2. QED
      BY <2>3, <3>1 DEF RandomKind, TopBits, KindOfBits
  <2>4. CASE top = 1
    <3>1. Bits(bytes) \cap {46, 47} = {46}
      BY <2>4, TopBitsOf
    <3>2. QED
      BY <2>4, <3>1, ResolvablePart DEF RandomKind, TopBits, KindOfBits
  <2>5. CASE top = 0
    <3>1. Bits(bytes) \cap {46, 47} = {}
      BY <2>5, TopBitsOf
    <3>2. QED
      BY <2>5, <3>1, NoBits DEF RandomKind, TopBits, KindOfBits
  <2>6. QED
    BY <2>1, <2>2, <2>3, <2>4, <2>5
<1>3. QED
  BY <1>1, <1>2, StaticKind

-----------------------------------------------------------------------------
(* Requests *)

\* An argument of a constructor has the width of its type.
LEMMA Arguments ==
  /\ \A bits \in Bitmaps : bits \in 0 .. 255
  /\ \A kind \in IntervalKind : Units[kind] \subseteq Nat
  /\ \A units \in Units["Seek"] : units < 2^16
  /\ Lengths \subseteq Nat /\ Numbers \subseteq Nat
  /\ \A bytes \in SsidBytes \cup PassphraseBytes : bytes \in Seq(0 .. 255)
BY ValuesAssumption DEF ValuesAssumption, IntervalKind

LEMMA FunctionIsSeq ==
  ASSUME NEW S, NEW n \in Nat, NEW f \in [1 .. n -> S]
  PROVE  f \in Seq(S) /\ Len(f) = n
<1>1. f \in Seq(S)
  BY SeqDef
<1>2. Len(f) \in Nat /\ 1 .. Len(f) = 1 .. n
  BY <1>1, LenProperties
<1>3. QED
  BY <1>1, <1>2

LEMMA AppendIsFunction ==
  ASSUME NEW S, NEW q \in Seq(S), NEW e \in S
  PROVE  Append(q, e) \in [1 .. Len(q) + 1 -> S]
<1>1. Append(q, e) \in Seq(S) /\ Len(Append(q, e)) = Len(q) + 1
  BY AppendProperties
<1>2. QED
  BY <1>1, LenProperties

LEMMA AddressArgument ==
  ASSUME NEW low \in [1 .. 5 -> LowByte], NEW top \in TopByte
  PROVE  Append(low, top) \in Address
<1> DEFINE Byte == 0 .. 255
<1>1. low \in [1 .. 5 -> Byte] /\ top \in Byte /\ 5 \in Nat
  BY ValuesAssumption DEF ValuesAssumption
<1> HIDE DEF Byte
<1>2. low \in Seq(Byte) /\ Len(low) = 5
  BY <1>1, FunctionIsSeq
<1>3. Append(low, top) \in [1 .. 5 + 1 -> Byte]
  BY <1>1, <1>2, AppendIsFunction
<1>4. QED
  BY <1>3 DEF Address, Byte

LEMMA IntervalIsFit ==
  ASSUME NEW kind \in IntervalKind, NEW units \in Units[kind]
  PROVE  /\ units \in Nat
         /\ IntervalOk(kind, units) <=> IntervalFits(kind, units)
<1>1. units \in Nat /\ (kind = "Seek" => units < 2^16)
  BY Arguments
<1>2. units < 2^24 <=> ~(units > 16777215)
  BY <1>1, SMT
<1>3. IntervalOk(kind, units) <=>
        \/ kind = "Advertising" /\ units >= 32 /\ units <= 16384
        \/ kind = "Scan" /\ units >= 4 /\ units <= 16384
        \/ kind = "Announce" /\ units >= 32 /\ units <= 16777215
        \/ kind = "Seek" /\ units >= 20
  BY <1>1, SMT
  DEF IntervalKind, IntervalOk, AdvertisingIntervalOk, ScanIntervalOk, AnnounceIntervalOk,
      SeekIntervalOk
<1>4. IntervalFits(kind, units) <=>
        \/ kind = "Advertising" /\ units >= 32 /\ units <= 16384
        \/ kind = "Scan" /\ units >= 4 /\ units <= 16384
        \/ kind = "Announce" /\ units >= 32 /\ units < 2^24
        \/ kind = "Seek" /\ units >= 20
  BY <1>1, SMT DEF IntervalKind, IntervalFits
<1>5. QED
  BY <1>1, <1>2, <1>3, <1>4, SMT

LEMMA PositiveInterval ==
  ASSUME NEW kind \in {"Scan", "Seek"}, NEW units \in Nat, IntervalFits(kind, units)
  PROVE  units >= 1
<1>1. units * 625 >= 2500 \/ units * 125 >= 2500
  BY SMT DEF IntervalFits
<1>2. QED
  BY <1>1

\* Both ends of a timing have been through try_new of their interval.
LEMMA TimingIsFit ==
  ASSUME NEW timing, timing.kind \in IntervalKind, timing.first \in Nat, timing.second \in Nat,
         IntervalFits(timing.kind, timing.first), IntervalFits(timing.kind, timing.second)
  PROVE  TimingOk(timing.kind, timing.first, timing.second) <=> TimingFits(timing)
<1>1. timing.kind \in {"Scan", "Seek"} => timing.second >= 1
  BY PositiveInterval
<1>2. TimingOk(timing.kind, timing.first, timing.second) <=>
        IF timing.kind \in {"Advertising", "Announce"} THEN timing.second >= timing.first
                                                       ELSE timing.second <= timing.first
  BY SMT
  DEF IntervalKind, TimingOk, AdvertisingTimingOk, AnnounceTimingOk, ScanTimingOk, SeekTimingOk
<1>3. timing.kind \in {"Scan", "Seek"} =>
        (timing.second <= timing.first <=> timing.second \in 1 .. timing.first)
  BY <1>1, SMT
<1>4. QED
  BY <1>2, <1>3, Zenon DEF TimingFits, IntervalKind

LEMMA ChannelsAreFit ==
  ASSUME NEW bits \in 0 .. 255
  PROVE  /\ AdvertisingChannelsOk(bits) <=> ChannelsFit(bits)
         /\ AnnounceChannelsOk(bits) <=> ChannelsFit(bits)
<1>1. ASSUME NEW channels \in SUBSET {0, 1, 2}
      PROVE  ChannelBitmap(channels)
               = (IF 0 \in channels THEN 1 ELSE 0) + (IF 1 \in channels THEN 2 ELSE 0)
                   + (IF 2 \in channels THEN 4 ELSE 0)
  BY Powers DEF ChannelBitmap
<1>2. ASSUME ChannelsFit(bits) PROVE bits \in 1 .. 7
  <2>1. PICK channels \in (SUBSET {0, 1, 2}) \ {{}} : bits = ChannelBitmap(channels)
    BY <1>2 DEF ChannelsFit
  <2>2. 0 \in channels \/ 1 \in channels \/ 2 \in channels
    OBVIOUS
  <2>3. QED
    BY <1>1, <2>1, <2>2
<1>3. ASSUME bits \in 1 .. 7 PROVE ChannelsFit(bits)
  <2> DEFINE channels == {c \in {0, 1, 2} : \/ c = 0 /\ bits % 2 = 1
                                            \/ c = 1 /\ (bits \div 2) % 2 = 1
                                            \/ c = 2 /\ (bits \div 4) % 2 = 1}
  <2>1. bits = (bits % 2) + 2 * ((bits \div 2) % 2) + 4 * ((bits \div 4) % 2)
    BY <1>3
  <2>2. ChannelBitmap(channels) = bits
    <3>1. /\ 0 \in channels <=> bits % 2 = 1
          /\ 1 \in channels <=> (bits \div 2) % 2 = 1
          /\ 2 \in channels <=> (bits \div 4) % 2 = 1
      OBVIOUS
    <3>2. bits % 2 \in {0, 1} /\ (bits \div 2) % 2 \in {0, 1} /\ (bits \div 4) % 2 \in {0, 1}
      OBVIOUS
    <3>3. QED
      BY <1>1, <2>1, <3>1, <3>2
  <2>3. channels \in (SUBSET {0, 1, 2}) \ {{}}
    BY <1>3, <2>1
  <2>4. QED
    BY <2>2, <2>3 DEF ChannelsFit
<1>4. AdvertisingChannelsOk(bits) <=> bits \in 1 .. 7
  BY DEF AdvertisingChannelsOk
<1>5. AnnounceChannelsOk(bits) <=> bits \in 1 .. 7
  BY DEF AnnounceChannelsOk
<1>6. QED
  BY <1>2, <1>3, <1>4, <1>5

LEMMA AllOfThem ==
  ASSUME NEW S, NEW T, NEW q \in Seq(S)
  PROVE  ToSet(q) \subseteq T <=> \A i \in 1 .. Len(q) : q[i] \in T
<1>1. ToSet(q) = {q[i] : i \in 1 .. Len(q)}
  BY LenProperties DEF ToSet
<1>2. QED
  BY <1>1

\* All that is printable is accepted, and of the ASCII bytes nothing else.
LEMMA PassphraseIsFit ==
  ASSUME NEW bytes \in Seq(0 .. 255)
  PROVE  /\ Len(bytes) \in 8 .. 63 /\ ToSet(bytes) \subseteq Printable => PassphraseOk(bytes)
         /\ PassphraseOk(bytes) =>
              /\ Len(bytes) \in 8 .. 63
              /\ ToSet(bytes) \subseteq Printable \/ ToSet(bytes) \cap 128 .. 255 # {}
<1> DEFINE Byte == 0 .. 255
<1>1. bytes \in Seq(Byte)
  OBVIOUS
<1> HIDE DEF Byte
<1>2. ToSet(bytes) \subseteq Printable <=> \A i \in 1 .. Len(bytes) : bytes[i] \in Printable
  BY <1>1, AllOfThem
<1>3. \A i \in 1 .. Len(bytes) : bytes[i] \in Byte /\ bytes[i] \in ToSet(bytes)
  BY <1>1, ElementOfSeq, LenProperties DEF ToSet
<1>4. \A b \in Byte : b \in Printable <=> ~(b < 32 \/ b = 127) /\ b \notin 128 .. 255
  BY DEF Byte, Printable
<1>5. ASSUME Len(bytes) \in 8 .. 63, ToSet(bytes) \subseteq Printable
      PROVE  PassphraseOk(bytes)
  BY <1>2, <1>3, <1>4, <1>5 DEF PassphraseOk
<1>6. ASSUME PassphraseOk(bytes), ToSet(bytes) \cap 128 .. 255 = {}
      PROVE  ToSet(bytes) \subseteq Printable
  <2>1. ASSUME NEW i \in 1 .. Len(bytes) PROVE bytes[i] \in Printable
    <3>1. ~(bytes[i] < 32 \/ bytes[i] = 127)
      BY <1>6 DEF PassphraseOk
    <3>2. QED
      BY <1>3, <1>4, <1>6, <3>1
  <2>2. QED
    BY <1>2, <2>1
<1>7. QED
  BY <1>5, <1>6 DEF PassphraseOk

LEMMA StationIsFit ==
  ASSUME NEW station, NEW secret, station.chosen \in PersonalSecurity,
         station.scan.security \in Security,
         station.config = StationConfig(station.scan, secret, station.chosen)
  PROVE  (IF station.chosen = Wpa2 THEN Wpa2Selectable(station.scan.security)
                                   ELSE Wpa3Selectable(station.scan.security))
           <=> StationFits(station)
<1>1. /\ station.config.security = station.chosen
      /\ station.config.ssid = station.scan.ssid
      /\ station.config.bssid = station.scan.bssid
      /\ station.config.channel = station.scan.channel
  BY DEF StationConfig
<1>2. /\ station.chosen = Wpa2 => station.chosen.mode = "Wpa2"
      /\ station.chosen # Wpa2 => station.chosen.mode = "Wpa3"
  BY DEF PersonalSecurity, Wpa2, Wpa3
<1>3. ManagementFrameProtection(station.config.security) = "Optional" => station.chosen = Wpa2
  BY <1>1, <1>2 DEF ManagementFrameProtection
<1>4. station.chosen.mode \in Offers(station.scan.security) <=>
        IF station.chosen = Wpa2 THEN Wpa2Selectable(station.scan.security)
                                 ELSE Wpa3Selectable(station.scan.security)
  BY <1>2 DEF Security, Offers, Wpa2Selectable, Wpa3Selectable
<1>5. QED
  BY <1>1, <1>3, <1>4 DEF StationFits

-----------------------------------------------------------------------------
(* Constructors *)

LEMMA SetOfSeq ==
  ASSUME NEW S, NEW q \in Seq(S)
  PROVE  /\ Len(q) \in Nat
         /\ ToSet(q) = {q[i] : i \in 1 .. Len(q)}
         /\ ToSet(q) \subseteq S
         /\ q \in Seq(ToSet(q))
<1>1. Len(q) \in Nat /\ DOMAIN q = 1 .. Len(q) /\ q \in [1 .. Len(q) -> S]
  BY LenProperties
<1>2. ToSet(q) = {q[i] : i \in 1 .. Len(q)}
  BY <1>1 DEF ToSet
<1>3. q \in [1 .. Len(q) -> ToSet(q)]
  BY <1>1, <1>2
<1>4. QED
  BY <1>1, <1>2, <1>3, FunctionIsSeq

LEMMA SetOfAppend ==
  ASSUME NEW S, NEW q \in Seq(S), NEW e
  PROVE  /\ ToSet(Append(q, e)) = ToSet(q) \cup {e}
         /\ Append(q, e) \in Seq(ToSet(Append(q, e)))
         /\ Len(Append(q, e)) = Len(q) + 1
         /\ \A i \in 1 .. Len(q) : Append(q, e)[i] = q[i]
         /\ Append(q, e)[Len(q) + 1] = e
<1> DEFINE T == S \cup {e}
           a == Append(q, e)
<1>1. q \in Seq(T) /\ e \in T
  BY SeqMonotonic
<1> HIDE DEF T
<1>2. /\ a \in Seq(T)
      /\ Len(a) = Len(q) + 1
      /\ \A i \in 1 .. Len(q) : a[i] = q[i]
      /\ a[Len(q) + 1] = e
  BY <1>1, AppendProperties
<1>3. /\ Len(q) \in Nat
      /\ ToSet(q) = {q[i] : i \in 1 .. Len(q)}
  BY SetOfSeq
<1>4. ToSet(a) = {a[i] : i \in 1 .. Len(a)} /\ a \in Seq(ToSet(a))
  BY <1>2, SetOfSeq
<1> HIDE DEF a
<1>5. ToSet(a) = ToSet(q) \cup {e}
  BY <1>2, <1>3, <1>4
<1>6. QED
  BY <1>2, <1>4, <1>5 DEF a

LEMMA NothingHeld == ToSet(<<>>) = {}
<1>1. <<>> \in Seq({}) /\ Len(<<>>) = 0
  BY EmptySeq
<1>2. DOMAIN <<>> = 1 .. 0
  BY <1>1, LenProperties
<1>3. QED
  BY <1>2 DEF ToSet

\* The values the application holds.
LEMMA Held ==
  ASSUME ValuesInv
  PROVE  /\ Len(parts) \in Nat
         /\ ToSet(parts) = {parts[i] : i \in 1 .. Len(parts)}
         /\ \A i \in 1 .. Len(parts) : parts[i] \in ToSet(parts)
         /\ \A value \in ToSet(parts) : Typed(value) /\ Good(value)
         /\ \A value \in ToSet(parts) :
              IsRequest(value) /\ value.type # "Passphrase" => Fits(value)
<1>1. /\ Len(parts) \in Nat
      /\ ToSet(parts) = {parts[i] : i \in 1 .. Len(parts)}
  BY SetOfSeq DEF ValuesInv
<1>2. \A value \in ToSet(parts) : Typed(value) /\ Good(value)
  BY DEF ValuesInv, RequestsAreValid, DatabasesKeepContract, Good, IsRequest
<1>3. \A value \in ToSet(parts) : IsRequest(value) /\ value.type # "Passphrase" => Fits(value)
  BY <1>2 DEF Good, IsBeyondAscii
<1>4. QED
  BY <1>1, <1>2, <1>3

\* A constructor whose test is the property's keeps everything valid.
LEMMA Constructed ==
  ASSUME ValuesInv, NEW kept, NEW value, NEW ok, Construct(kept, value, ok),
         kept \in Seq(ToSet(parts)),
         kept = parts \/ \A i \in 1 .. Len(kept) : ~HasKind(kept[i]),
         HasKind(value) => kept = parts /\ (parts # <<>> => value.kind = parts[1].kind),
         Typed(value),
         ok => Good(value),
         ~ok => Bad(value)
  PROVE  ValuesInv'
<1>1. /\ \A v \in ToSet(parts) : Typed(v) /\ Good(v)
      /\ ToSet(kept) \subseteq ToSet(parts)
      /\ Len(kept) \in Nat
      /\ kept = <<>> <=> Len(kept) = 0
  BY Held, SetOfSeq, EmptySeq
<1>2. CASE ok
  <2>1. parts' = Append(kept, value) /\ refused' = None
    BY <1>2 DEF Construct
  <2>2. /\ ToSet(parts') = ToSet(kept) \cup {value}
        /\ parts' \in Seq(ToSet(parts'))
        /\ Len(parts') = Len(kept) + 1
        /\ \A i \in 1 .. Len(kept) : parts'[i] = kept[i]
        /\ parts'[Len(kept) + 1] = value
    BY <2>1, SetOfAppend
  <2>3. \A v \in ToSet(parts') : Typed(v) /\ Good(v)
    BY <1>1, <1>2, <2>2
  <2>4. SameKind'
    <3>1. ASSUME NEW i \in 1 .. Len(parts'), HasKind(parts'[i])
          PROVE  parts'[i].kind = parts'[1].kind
      <4>1. CASE i = Len(kept) + 1
        <5>1. HasKind(value) /\ kept = parts
          BY <2>2, <3>1, <4>1
        <5>2. CASE kept = <<>>
          BY <1>1, <4>1, <5>2
        <5>3. CASE kept # <<>>
          <6>1. 1 \in 1 .. Len(kept)
            BY <1>1, <5>3
          <6>2. QED
            BY <2>2, <4>1, <5>1, <5>3, <6>1
        <5>4. QED
          BY <5>2, <5>3
      <4>2. CASE i # Len(kept) + 1
        <5>1. i \in 1 .. Len(kept) /\ 1 \in 1 .. Len(kept)
          BY <1>1, <2>2, <4>2
        <5>2. HasKind(kept[i]) /\ parts'[i].kind = kept[i].kind /\ parts'[1].kind = kept[1].kind
          BY <2>2, <3>1, <5>1
        <5>3. kept = parts
          BY <5>1, <5>2
        <5>4. QED
          BY <5>1, <5>2, <5>3 DEF ValuesInv, SameKind
      <4>3. QED
        BY <4>1, <4>2
    <3>2. QED
      BY <3>1 DEF SameKind
  <2>5. QED
    BY <2>1, <2>2, <2>3, <2>4
    DEF ValuesInv, RequestsAreValid, DatabasesKeepContract, Good, IsRequest, None
<1>3. CASE ~ok
  <2>1. parts' = <<>> /\ refused' = {value}
    BY <1>3 DEF Construct, Some
  <2>2. Len(parts') = 0
    BY <2>1, EmptySeq
  <2>3. ToSet(parts') = {} /\ parts' \in Seq(ToSet(parts'))
    BY <2>1, NothingHeld, EmptySeq
  <2>4. SameKind'
    BY <2>2 DEF SameKind
  <2>5. Bad(value)
    BY <1>3
  <2>6. QED
    BY <2>1, <2>3, <2>4, <2>5
    DEF ValuesInv, RequestsAreValid, DatabasesKeepContract, Bad, IsRequest
<1>4. QED
  BY <1>2, <1>3

\* A value built on nothing, or beside what is there.
LEMMA Began ==
  ASSUME ValuesInv, NEW value, NEW ok, New(value, ok),
         HasKind(value) => (parts # <<>> => value.kind = parts[1].kind),
         Typed(value), ok => Good(value), ~ok => Bad(value)
  PROVE  ValuesInv'
<1>1. Construct(parts, value, ok) /\ parts \in Seq(ToSet(parts))
  BY DEF New, ValuesInv
<1>2. QED
  BY <1>1, Constructed

\* A value made of all that is there.
LEMMA Completed ==
  ASSUME ValuesInv, NEW value, NEW ok, Construct(<<>>, value, ok),
         ~HasKind(value),
         Typed(value), ok => Good(value), ~ok => Bad(value)
  PROVE  ValuesInv'
<1>1. <<>> \in Seq(ToSet(parts)) /\ \A i \in 1 .. Len(<<>>) : ~HasKind(<<>>[i])
  BY EmptySeq
<1>2. QED
  BY <1>1, Constructed

-----------------------------------------------------------------------------
(* Calls that begin *)

LEMMA TypesApart == DatabaseType \cap ErrorType = {}
BY DEF DatabaseType, ErrorType

\* A request that is neither an interval, a scan result, a payload nor a
\* passphrase needs to be fit and no more.
LEMMA Request ==
  ASSUME ValuesInv, NEW value, NEW ok, New(value, ok),
         value.type \notin {"Interval", "ScanResult", "Payload", "Station", "Passphrase"},
         IsRequest(value), ok <=> Fits(value)
  PROVE  ValuesInv'
<1>1. Typed(value) /\ (ok => Good(value)) /\ (~ok => Bad(value)) /\ ~HasKind(value)
  BY DEF Typed, Good, Bad, IsRequest, HasKind
<1>2. QED
  BY <1>1, Began

LEMMA BluetoothAddressKeepsInv ==
  ASSUME ValuesInv, NEW bytes \in Address, NewBluetoothAddress(bytes)
  PROVE  ValuesInv'
<1>1. ASSUME NEW kind, NEW by, New(BluetoothAddress(bytes, kind, by), kind # "None"),
             kind = KindOfBits(by, Bits(bytes))
      PROVE  ValuesInv'
  <2> DEFINE value == BluetoothAddress(bytes, kind, by)
  <2>1. value.type = "BluetoothAddress" /\ value.kind = kind /\ value.by = by /\ value.bytes = bytes
    BY DEF BluetoothAddress
  <2> HIDE DEF value
  <2>2. Fits(value) <=> kind # "None"
    BY <1>1, <2>1 DEF Fits
  <2>3. IsRequest(value) /\ value.type \notin {"Interval", "ScanResult", "Payload", "Station", "Passphrase"}
    BY <2>1 DEF IsRequest, DatabaseType, ErrorType
  <2>4. New(value, kind # "None")
    BY <1>1 DEF value
  <2>5. QED
    BY <2>2, <2>3, <2>4, Request
<1>2. CASE New(BluetoothAddress(bytes, PublicKind(bytes), "public"), PublicKind(bytes) # "None")
  BY <1>1, <1>2, AddressKind
<1>3. CASE New(BluetoothAddress(bytes, RandomStaticKind(bytes), "random_static"),
               RandomStaticKind(bytes) # "None")
  BY <1>1, <1>3, AddressKind
<1>4. CASE New(BluetoothAddress(bytes, RandomKind(bytes), "random"), RandomKind(bytes) # "None")
  BY <1>1, <1>4, AddressKind
<1>5. QED
  BY <1>2, <1>3, <1>4 DEF NewBluetoothAddress

LEMMA SleAddressKeepsInv ==
  ASSUME ValuesInv, NEW bytes \in Address, NewSleAddress(bytes)
  PROVE  ValuesInv'
<1> DEFINE value == [type |-> "SleAddress", bytes |-> bytes]
<1>1. value.type = "SleAddress" /\ value.bytes = bytes
  OBVIOUS
<1>2. New(value, SleAddressOk(bytes))
  BY DEF NewSleAddress
<1> HIDE DEF value
<1>3. Fits(value) <=> SleAddressOk(bytes)
  BY <1>1, NoBits DEF Fits, SleAddressOk, AllEqual
<1>4. IsRequest(value) /\ value.type \notin {"Interval", "ScanResult", "Payload", "Station", "Passphrase"}
  BY <1>1 DEF IsRequest, DatabaseType, ErrorType
<1>5. QED
  BY <1>2, <1>3, <1>4, Request

LEMMA NumberKeepsInv ==
  ASSUME ValuesInv, NEW number \in Numbers, NewNumber(number)
  PROVE  ValuesInv'
<1>1. number \in Nat /\ \A time \in Numbers : time \in Nat
  BY Arguments
<1>2. ASSUME NEW value, NEW ok, New(value, ok), Fits(value) <=> ok,
             value.type \in {"Passkey", "RssiDbm", "Timeout", "WorkBudget"}
      PROVE  ValuesInv'
  <2>1. IsRequest(value) /\ value.type \notin {"Interval", "ScanResult", "Payload", "Station", "Passphrase"}
    BY <1>2 DEF IsRequest, DatabaseType, ErrorType
  <2>2. QED
    BY <1>2, <2>1, Request
<1>3. CASE New([type |-> "Passkey", value |-> number], PasskeyOk(number))
  <2>1. number \in 0 .. 10^6 - 1 <=> PasskeyOk(number)
    BY <1>1, SMT DEF PasskeyOk
  <2>2. Fits([type |-> "Passkey", value |-> number]) <=> number \in 0 .. 10^6 - 1
    BY Zenon DEF Fits
  <2>3. Fits([type |-> "Passkey", value |-> number]) <=> PasskeyOk(number)
    BY <2>1, <2>2, Zenon
  <2>4. QED
    BY <1>2, <1>3, <2>3, SMT
<1>4. CASE number <= 127 /\ New([type |-> "RssiDbm", value |-> number], RssiOk(number))
  <2>1. Fits([type |-> "RssiDbm", value |-> number]) <=> RssiOk(number)
    BY <1>1, <1>4, SMT DEF Fits, RssiOk
  <2>2. QED
    BY <1>2, <1>4, <2>1, SMT
<1>5. CASE New([type |-> "Timeout", value |-> number], TimeoutOk(number))
  <2>1. Fits([type |-> "Timeout", value |-> number]) <=> TimeoutOk(number)
    BY <1>1, SMT DEF Fits, TimeoutOk
  <2>2. QED
    BY <1>2, <1>5, <2>1, SMT
<1>6. ASSUME NEW time \in Numbers,
             New([type |-> "WorkBudget", events |-> number, time |-> time], WorkBudgetOk(number, time))
      PROVE  ValuesInv'
  <2>1. Fits([type |-> "WorkBudget", events |-> number, time |-> time]) <=> WorkBudgetOk(number, time)
    <3>1. number > 0 /\ time > 0 <=> number # 0 /\ time # 0
      BY <1>1
    <3>2. QED
      BY <3>1, Zenon DEF Fits, WorkBudgetOk
  <2>2. QED
    BY <1>2, <1>6, <2>1, SMT
<1>7. QED
  BY <1>3, <1>4, <1>5, <1>6 DEF NewNumber

LEMMA SsidKeepsInv ==
  ASSUME ValuesInv, NEW bytes \in SsidBytes, NewSsid(bytes)
  PROVE  ValuesInv'
<1> DEFINE value == [type |-> "Ssid", bytes |-> bytes]
<1>1. value.type = "Ssid" /\ value.bytes = bytes
  OBVIOUS
<1>2. New(value, SsidOk(bytes))
  BY DEF NewSsid
<1> HIDE DEF value
<1>3. Len(bytes) \in Nat /\ (bytes = <<>> <=> Len(bytes) = 0)
  BY Arguments, LenProperties, EmptySeq
<1>4. Fits(value) <=> SsidOk(bytes)
  <2>1. \A n \in Nat : n \in 1 .. 32 <=> ~(n = 0 \/ n > 32)
    OBVIOUS
  <2>2. Len(bytes) \in 1 .. 32 <=> SsidOk(bytes)
    BY <1>3, <2>1, Zenon DEF SsidOk
  <2>3. QED
    BY <1>1, <2>2, Zenon DEF Fits
<1>5. IsRequest(value) /\ value.type \notin {"Interval", "ScanResult", "Payload", "Station", "Passphrase"}
  BY <1>1 DEF IsRequest, DatabaseType, ErrorType
<1>6. QED
  BY <1>2, <1>4, <1>5, Request

-----------------------------------------------------------------------------
(* Requests of several parts *)

LEMMA IntervalKeepsInv ==
  ASSUME ValuesInv, NEW kind \in IntervalKind, NEW units \in Units[kind], NewInterval(kind, units)
  PROVE  ValuesInv'
<1> DEFINE value == [type |-> "Interval", kind |-> kind, units |-> units]
<1>1. value.type = "Interval" /\ value.kind = kind /\ value.units = units
  OBVIOUS
<1>2. New(value, IntervalOk(kind, units))
  BY DEF NewInterval
<1> HIDE DEF value
<1>3. units \in Nat /\ (Fits(value) <=> IntervalOk(kind, units))
  BY <1>1, IntervalIsFit DEF Fits
<1>4. Typed(value)
  BY <1>1, <1>3 DEF Typed
<1>5. parts # <<>> => value.kind = parts[1].kind
  <2>1. Len(parts) \in Nat /\ (parts = <<>> <=> Len(parts) = 0)
    BY EmptySeq DEF ValuesInv
  <2>2. QED
    BY <1>1, <2>1 DEF NewInterval
<1>6. /\ IntervalOk(kind, units) => Good(value)
      /\ ~IntervalOk(kind, units) => Bad(value)
  BY <1>1, <1>3 DEF Good, Bad, IsRequest, DatabaseType, ErrorType
<1>7. QED
  BY <1>2, <1>4, <1>5, <1>6, Began

\* A request made of all parts at hand.
LEMMA Composed ==
  ASSUME ValuesInv, NEW value, NEW ok, Construct(<<>>, value, ok),
         value.type \in {"Timing", "Request", "ScanResult", "Station"},
         Typed(value), ok <=> Fits(value),
         ~ok /\ value.type = "Station" => ToSet(value.config.passphrase) \subseteq {0}
  PROVE  ValuesInv'
<1>1. ~HasKind(value) /\ (ok => Good(value)) /\ (~ok => Bad(value))
  BY DEF HasKind, Good, Bad, IsRequest, DatabaseType, ErrorType
<1>2. QED
  BY <1>1, Completed

\* The types of what is at hand, one by one.
LEMMA OneOf ==
  ASSUME NEW a, Len(parts) \in Nat, Types = <<a>>
  PROVE  /\ Len(parts) = 1
         /\ parts[1].type = a
<1>1. DOMAIN Types = 1 .. Len(parts) /\ \A i \in 1 .. Len(parts) : Types[i] = parts[i].type
  BY DEF Types
<1>2. DOMAIN <<a>> = 1 .. 1 /\ <<a>>[1] = a
  OBVIOUS
<1>3. 1 .. Len(parts) = 1 .. 1
  BY <1>1, <1>2
<1>4. Len(parts) = 1
  <2>1. 1 \in 1 .. Len(parts)
    BY <1>3
  <2>2. Len(parts) \in 1 .. Len(parts)
    BY <2>1
  <2>3. Len(parts) \in 1 .. 1
    BY <1>3, <2>2
  <2>4. QED
    BY <2>3
<1>5. QED
  BY <1>1, <1>2, <1>4

LEMMA PairOf ==
  ASSUME NEW a, NEW b, Len(parts) \in Nat, Types = <<a, b>>
  PROVE  /\ Len(parts) = 2
         /\ parts[1].type = a /\ parts[2].type = b
<1>1. DOMAIN Types = 1 .. Len(parts) /\ \A i \in 1 .. Len(parts) : Types[i] = parts[i].type
  BY DEF Types
<1>2. DOMAIN <<a, b>> = 1 .. 2 /\ <<a, b>>[1] = a /\ <<a, b>>[2] = b
  OBVIOUS
<1>3. 1 .. Len(parts) = 1 .. 2
  BY <1>1, <1>2
<1>4. Len(parts) = 2
  BY <1>3
<1>5. QED
  BY <1>1, <1>2, <1>4

LEMMA TripleOf ==
  ASSUME NEW a, NEW b, NEW c, Len(parts) \in Nat, Types = <<a, b, c>>
  PROVE  /\ Len(parts) = 3
         /\ parts[1].type = a /\ parts[2].type = b /\ parts[3].type = c
<1>1. DOMAIN Types = 1 .. Len(parts) /\ \A i \in 1 .. Len(parts) : Types[i] = parts[i].type
  BY DEF Types
<1>2. DOMAIN <<a, b, c>> = 1 .. 3 /\ <<a, b, c>>[1] = a /\ <<a, b, c>>[2] = b /\ <<a, b, c>>[3] = c
  OBVIOUS
<1>3. 1 .. Len(parts) = 1 .. 3
  BY <1>1, <1>2
<1>4. Len(parts) = 3
  BY <1>3
<1>5. QED
  BY <1>1, <1>2, <1>4

LEMMA TimingKeepsInv ==
  ASSUME ValuesInv, NewTiming
  PROVE  ValuesInv'
<1> DEFINE value == [type |-> "Timing", kind |-> parts[1].kind,
                     first |-> parts[1].units, second |-> parts[2].units]
<1>1. Len(parts) = 2 /\ parts[1].type = "Interval" /\ parts[2].type = "Interval"
  BY Held, PairOf DEF NewTiming
<1>2. 1 \in 1 .. Len(parts) /\ 2 \in 1 .. Len(parts)
  BY <1>1
<1>3. Typed(parts[1]) /\ Fits(parts[1]) /\ Typed(parts[2]) /\ Fits(parts[2])
  BY <1>1, <1>2, Held DEF IsRequest, DatabaseType, ErrorType
<1>4. parts[2].kind = parts[1].kind
  BY <1>1, <1>2 DEF ValuesInv, SameKind, HasKind
<1>5. /\ value.type = "Timing" /\ value.kind = parts[1].kind
      /\ value.first = parts[1].units /\ value.second = parts[2].units
  OBVIOUS
<1>6. Construct(<<>>, value, TimingOk(parts[1].kind, parts[1].units, parts[2].units))
  BY DEF NewTiming
<1> HIDE DEF value
<1>7. /\ value.kind \in IntervalKind /\ value.first \in Nat /\ value.second \in Nat
      /\ IntervalFits(value.kind, value.first) /\ IntervalFits(value.kind, value.second)
  BY <1>1, <1>3, <1>4, <1>5 DEF Typed, Fits
<1>8. TimingOk(parts[1].kind, parts[1].units, parts[2].units) <=> Fits(value)
  <2>1. TimingOk(value.kind, value.first, value.second) <=> TimingFits(value)
    BY <1>7, TimingIsFit
  <2>2. Fits(value) <=> TimingFits(value)
    BY <1>5, Zenon DEF Fits
  <2>3. QED
    BY <1>5, <2>1, <2>2
<1>9. Typed(value)
  BY <1>5 DEF Typed
<1>10. QED
  BY <1>5, <1>6, <1>8, <1>9, Composed

LEMMA ChannelsKeepInv ==
  ASSUME ValuesInv, NEW bits \in Bitmaps, NewChannels(bits)
  PROVE  ValuesInv'
<1> DEFINE value == [type |-> "Channels", bits |-> bits]
           ok == IF parts[1].kind = "Advertising" THEN AdvertisingChannelsOk(bits)
                                                  ELSE AnnounceChannelsOk(bits)
<1>1. value.type = "Channels" /\ value.bits = bits
  OBVIOUS
<1>2. New(value, ok)
  BY DEF NewChannels
<1>3. ok <=> ChannelsFit(bits)
  BY Arguments, ChannelsAreFit
<1> HIDE DEF value, ok
<1>4. Fits(value) <=> ok
  BY <1>1, <1>3, Zenon DEF Fits
<1>5. IsRequest(value) /\ value.type \notin {"Interval", "ScanResult", "Payload", "Station", "Passphrase"}
  BY <1>1 DEF IsRequest, DatabaseType, ErrorType
<1>6. QED
  BY <1>2, <1>4, <1>5, Request

LEMMA PayloadKeepsInv ==
  ASSUME ValuesInv, NEW len \in Lengths, NewPayload(len)
  PROVE  ValuesInv'
<1> DEFINE value == [type |-> "Payload", kind |-> parts[1].kind, len |-> len]
           ok == IF parts[1].kind = "Advertising" THEN AdvertisingPayloadOk(len)
                                                  ELSE AnnouncePayloadOk(len)
<1>1. value.type = "Payload" /\ value.kind = parts[1].kind /\ value.len = len
  OBVIOUS
<1>2. New(value, ok)
  BY DEF NewPayload
<1>3. ok <=> PayloadFits(parts[1].kind, len)
  BY Arguments DEF PayloadFits, AdvertisingPayloadOk, AnnouncePayloadOk
<1> HIDE DEF value, ok
<1>4. Fits(value) <=> ok
  BY <1>1, <1>3, Zenon DEF Fits
<1>5. Typed(value) /\ (ok => Good(value)) /\ (~ok => Bad(value))
  BY <1>1, <1>4 DEF Typed, Good, Bad, IsRequest, DatabaseType, ErrorType
<1>6. QED
  BY <1>1, <1>2, <1>5, Began

LEMMA RequestKeepsInv ==
  ASSUME ValuesInv, NewRequest
  PROVE  ValuesInv'
<1> DEFINE value == [type |-> "Request", kind |-> parts[1].kind, parts |-> parts]
<1>1. value.type = "Request" /\ value.kind = parts[1].kind /\ value.parts = parts
  OBVIOUS
<1>2. Construct(<<>>, value, TRUE)
  BY DEF NewRequest
<1> HIDE DEF value
<1>3. /\ Len(parts) \in Nat
      /\ \A i \in 1 .. Len(parts) :
           IsRequest(parts[i]) /\ parts[i].type # "Passphrase" => Fits(parts[i])
  BY Held
<1>4. CASE Types = <<"Timing">>
  <2>1. Len(parts) = 1 /\ parts[1].type = "Timing"
    BY <1>3, <1>4, OneOf
  <2>2. TimingFits(parts[1])
    BY <1>3, <2>1 DEF Fits, IsRequest, DatabaseType, ErrorType
  <2>3. Fits(value)
    BY <1>1, <2>1, <2>2 DEF Fits
  <2>4. QED
    BY <1>1, <1>2, <2>3, Composed DEF Typed
<1>5. CASE Types = <<"Timing", "Channels", "Payload">>
  <2>1. /\ Len(parts) = 3
        /\ parts[1].type = "Timing" /\ parts[2].type = "Channels" /\ parts[3].type = "Payload"
    BY <1>3, <1>5, TripleOf
  <2>2. /\ TimingFits(parts[1])
        /\ ChannelsFit(parts[2].bits)
        /\ PayloadFits(parts[3].kind, parts[3].len)
    BY <1>3, <2>1 DEF Fits, IsRequest, DatabaseType, ErrorType
  <2>3. parts[3].kind = parts[1].kind
    BY <2>1 DEF ValuesInv, SameKind, HasKind
  <2>4. Fits(value)
    BY <1>1, <2>1, <2>2, <2>3 DEF Fits
  <2>5. QED
    BY <1>1, <1>2, <2>4, Composed DEF Typed
<1>6. QED
  BY <1>4, <1>5 DEF NewRequest

-----------------------------------------------------------------------------
(* Stations *)

LEMMA ScanResultKeepsInv ==
  ASSUME ValuesInv, NEW security \in Security, NewScanResult(security)
  PROVE  ValuesInv'
<1>1. Len(parts) = 1 /\ parts[1].type = "Ssid"
  BY Held, OneOf DEF NewScanResult
<1>2. Len(parts[1].bytes) \in 1 .. 32
  <2>1. Fits(parts[1])
    BY <1>1, Held DEF IsRequest, DatabaseType, ErrorType
  <2>2. QED
    BY <1>1, <2>1 DEF Fits
<1>3. PICK value : /\ Construct(<<>>, value, TRUE)
                   /\ value.type = "ScanResult" /\ value.security = security
                   /\ value.ssid = parts[1].bytes
  <2>1. PICK bssid \in {"bssid1", "bssid2"}, channel \in {1, 6} :
          Construct(<<>>, [type |-> "ScanResult", ssid |-> parts[1].bytes, bssid |-> bssid,
                           channel |-> channel, security |-> security], TRUE)
    BY DEF NewScanResult
  <2> DEFINE result == [type |-> "ScanResult", ssid |-> parts[1].bytes, bssid |-> bssid,
                        channel |-> channel, security |-> security]
  <2>2. /\ Construct(<<>>, result, TRUE)
        /\ result.type = "ScanResult" /\ result.security = security
        /\ result.ssid = parts[1].bytes
    BY <2>1
  <2> HIDE DEF result
  <2>3. QED
    BY <2>2
<1>4. Fits(value)
  BY <1>2, <1>3, Zenon DEF Fits
<1>5. Typed(value)
  BY <1>3 DEF Typed
<1>6. QED
  BY <1>3, <1>4, <1>5, Composed

LEMMA PassphraseKeepsInv ==
  ASSUME ValuesInv, NEW bytes \in PassphraseBytes, NewPassphrase(bytes)
  PROVE  ValuesInv'
<1> DEFINE value == [type |-> "Passphrase", bytes |-> bytes]
<1>1. value.type = "Passphrase" /\ value.bytes = bytes
  OBVIOUS
<1>2. New(value, PassphraseOk(bytes))
  BY DEF NewPassphrase
<1> HIDE DEF value
<1>3. /\ Fits(value) <=> Len(bytes) \in 8 .. 63 /\ ToSet(bytes) \subseteq Printable
      /\ IsBeyondAscii(value) <=> Len(bytes) \in 8 .. 63 /\ ToSet(bytes) \cap 128 .. 255 # {}
  BY <1>1, Zenon DEF Fits, IsBeyondAscii
<1>4. /\ PassphraseOk(bytes) => Fits(value) \/ IsBeyondAscii(value)
      /\ ~PassphraseOk(bytes) => ~Fits(value)
  <2>1. bytes \in Seq(0 .. 255)
    BY Arguments
  <2>2. /\ Len(bytes) \in 8 .. 63 /\ ToSet(bytes) \subseteq Printable => PassphraseOk(bytes)
        /\ PassphraseOk(bytes) =>
             /\ Len(bytes) \in 8 .. 63
             /\ ToSet(bytes) \subseteq Printable \/ ToSet(bytes) \cap 128 .. 255 # {}
    BY <2>1, PassphraseIsFit, Zenon
  <2>3. QED
    BY <1>3, <2>2, Zenon
<1>5. /\ PassphraseOk(bytes) => Good(value)
      /\ ~PassphraseOk(bytes) => Bad(value)
  BY <1>1, <1>4 DEF Good, Bad, IsRequest, DatabaseType, ErrorType
<1>6. Typed(value) /\ ~HasKind(value)
  BY <1>1 DEF Typed, HasKind
<1>7. QED
  BY <1>2, <1>5, <1>6, Began

\* Nothing is left of an erased passphrase.
LEMMA ErasedIsZero ==
  ASSUME NEW passphrase
  PROVE  ToSet(Erased(passphrase)) \subseteq {0}
BY DEF ToSet, Erased

LEMMA StationKeepsInv ==
  ASSUME ValuesInv, NEW security \in PersonalSecurity, NewStation(security)
  PROVE  ValuesInv'
<1> DEFINE ok == IF security = Wpa2 THEN Wpa2Selectable(parts[1].security)
                                    ELSE Wpa3Selectable(parts[1].security)
           secret == IF ok THEN parts[2].bytes ELSE Erased(parts[2].bytes)
           value == [type |-> "Station", scan |-> parts[1], chosen |-> security,
                     config |-> StationConfig(parts[1], secret, security)]
<1>1. Len(parts) = 2 /\ parts[1].type = "ScanResult" /\ parts[2].type = "Passphrase"
  BY Held, PairOf DEF NewStation
<1>2. parts[1].security \in Security
  BY <1>1, Held DEF Typed
<1>3. Construct(<<>>, value, ok)
  BY DEF NewStation
<1>4. /\ value.type = "Station" /\ value.chosen = security /\ value.scan = parts[1]
      /\ value.config = StationConfig(parts[1], secret, security)
  OBVIOUS
<1>5. value.config.passphrase = secret
  BY <1>4 DEF StationConfig
<1>6. ~ok => secret = Erased(parts[2].bytes)
  OBVIOUS
<1> HIDE DEF value, secret
<1>7. ok <=> StationFits(value)
  BY <1>2, <1>4, StationIsFit
<1> HIDE DEF ok
<1>8. ok <=> Fits(value)
  BY <1>4, <1>7, Zenon DEF Fits
<1>9. ~ok => ToSet(value.config.passphrase) \subseteq {0}
  BY <1>5, <1>6, ErasedIsZero
<1>10. Typed(value)
  BY <1>4 DEF Typed
<1>11. QED
  BY <1>3, <1>4, <1>8, <1>9, <1>10, Composed

-----------------------------------------------------------------------------
(* Databases *)

\* A value of a database that is made, and one that is refused.
LEMMA Entry ==
  ASSUME ValuesInv, NEW kept, NEW value, NEW ok, Construct(kept, value, ok),
         kept \in Seq(ToSet(parts)), \A i \in 1 .. Len(kept) : ~HasKind(kept[i]),
         value.type \in DatabaseType, ok <=> KeepsContract(value)
  PROVE  ValuesInv'
<1>1. ~HasKind(value) /\ Typed(value) /\ (ok => Good(value)) /\ (~ok => Bad(value))
  BY DEF HasKind, Typed, Good, Bad, IsRequest, DatabaseType
<1>2. QED
  BY <1>1, Constructed

\* A value of a database that takes all that is there.
LEMMA Whole ==
  ASSUME ValuesInv, NEW value, NEW ok, Construct(<<>>, value, ok),
         value.type \in DatabaseType, ok <=> KeepsContract(value)
  PROVE  ValuesInv'
<1>1. ~HasKind(value) /\ Typed(value) /\ (ok => Good(value)) /\ (~ok => Bad(value))
  BY DEF HasKind, Typed, Good, Bad, IsRequest, DatabaseType
<1>2. QED
  BY <1>1, Completed

LEMMA DescriptorKeepsInv ==
  ASSUME ValuesInv, NEW protocol \in Protocol, NEW uuid, NEW permissions,
         NEW initialLen \in Nat, NEW maximumLen \in Nat,
         NewDescriptor(protocol, uuid, permissions, initialLen, maximumLen)
  PROVE  ValuesInv'
<1> DEFINE value == [type |-> "Descriptor", protocol |-> protocol, uuid |-> uuid, permissions |-> permissions,
                     initialLen |-> initialLen, maximumLen |-> maximumLen]
           ok == IF protocol = "GATT" THEN GattDescriptorOk(initialLen, maximumLen)
                                      ELSE SsapDescriptorOk(initialLen, maximumLen)
<1>1. /\ value.type = "Descriptor"
      /\ value.initialLen = initialLen /\ value.maximumLen = maximumLen
  OBVIOUS
<1>2. Construct(parts, value, ok)
  BY DEF NewDescriptor, New
<1>3. ok <=> initialLen \in 0 .. maximumLen /\ maximumLen > 0
  BY DEF GattDescriptorOk, SsapDescriptorOk
<1>4. \A i \in 1 .. Len(parts) : ~HasKind(parts[i])
  BY DEF NewDescriptor, HasKind
<1> HIDE DEF value, ok
<1>5. ok <=> KeepsContract(value)
  BY <1>1, <1>3 DEF KeepsContract, ValueHasRoom
<1>6. value.type \in DatabaseType /\ parts \in Seq(ToSet(parts))
  BY <1>1 DEF DatabaseType, ValuesInv
<1>7. QED
  BY <1>2, <1>4, <1>5, <1>6, Entry

LEMMA AttributeKeepsInv ==
  ASSUME ValuesInv, NEW protocol \in Protocol, NEW permissions, NEW operations,
         NEW initialLen \in Nat, NEW maximumLen \in Nat,
         NewAttribute(protocol, permissions, operations, initialLen, maximumLen)
  PROVE  ValuesInv'
<1>1. PICK made \in 0 .. Len(parts) :
        /\ \A i \in 1 .. Len(parts) :
             /\ parts[i].type = (IF i <= made THEN "Attribute" ELSE "Descriptor")
             /\ parts[i].protocol = protocol
        /\ Construct(SubSeq(parts, 1, made),
             Attribute(protocol, permissions, operations, Descriptors(made), initialLen, maximumLen),
             IF protocol = "GATT"
             THEN GattCharacteristicOk(operations, initialLen, maximumLen, Descriptors(made))
             ELSE SsapPropertyOk(permissions, operations, initialLen, maximumLen))
  BY DEF NewAttribute
<1> DEFINE kept == SubSeq(parts, 1, made)
           descriptors == Descriptors(made)
           value == Attribute(protocol, permissions, operations, descriptors, initialLen, maximumLen)
           ok == IF protocol = "GATT"
                 THEN GattCharacteristicOk(operations, initialLen, maximumLen, descriptors)
                 ELSE SsapPropertyOk(permissions, operations, initialLen, maximumLen)
<1>2. Len(parts) \in Nat /\ \A i \in 1 .. Len(parts) : parts[i] \in ToSet(parts) /\ Good(parts[i])
  BY Held
<1>3. kept \in Seq(ToSet(parts)) /\ \A i \in 1 .. Len(kept) : ~HasKind(kept[i])
  <2>1. /\ kept \in Seq(ToSet(parts))
        /\ Len(kept) = IF 1 <= made THEN made - 1 + 1 ELSE 0
        /\ \A i \in 1 .. made - 1 + 1 : kept[i] = parts[1 + i - 1]
    BY <1>2, SubSeqProperties
  <2>2. ASSUME NEW i \in 1 .. Len(kept) PROVE ~HasKind(kept[i])
    <3>1. i \in 1 .. Len(parts) /\ kept[i] = parts[i]
      BY <1>2, <2>1
    <3>2. QED
      BY <1>1, <3>1 DEF HasKind
  <2>3. QED
    BY <2>1, <2>2
<1>4. /\ ToSet(descriptors) = {descriptors[i] : i \in 1 .. Len(descriptors)}
      /\ \A d \in ToSet(descriptors) : ValueHasRoom(d)
  <2>1. /\ descriptors \in Seq(ToSet(parts))
        /\ Len(descriptors) = IF made + 1 <= Len(parts) THEN Len(parts) - (made + 1) + 1 ELSE 0
        /\ \A i \in 1 .. Len(parts) - (made + 1) + 1 : descriptors[i] = parts[made + 1 + i - 1]
    BY <1>2, SubSeqProperties DEF Descriptors
  <2>2. ToSet(descriptors) = {descriptors[i] : i \in 1 .. Len(descriptors)}
    BY <2>1, SetOfSeq
  <2>3. ASSUME NEW i \in 1 .. Len(descriptors) PROVE ValueHasRoom(descriptors[i])
    <3>1. made + i \in 1 .. Len(parts) /\ ~(made + i <= made) /\ descriptors[i] = parts[made + i]
      <4>1. i \in 1 .. Len(parts) - made /\ made \in Nat /\ Len(parts) \in Nat
        BY <1>2, <2>1
      <4>2. made + i \in 1 .. Len(parts) /\ ~(made + i <= made) /\ made + 1 + i - 1 = made + i
        BY <4>1
      <4>3. i \in 1 .. Len(parts) - (made + 1) + 1
        BY <4>1
      <4>4. QED
        BY <2>1, <4>2, <4>3
    <3>2. parts[made + i].type = "Descriptor" /\ Good(parts[made + i])
      BY <1>1, <1>2, <3>1
    <3>3. QED
      BY <3>1, <3>2 DEF Good, KeepsContract, DatabaseType
  <2>4. QED
    BY <2>2, <2>3
<1>5. /\ value.type = "Attribute" /\ value.protocol = protocol
      /\ value.permissions = permissions /\ value.operations = operations
      /\ value.descriptors = descriptors
      /\ value.initialLen = initialLen /\ value.maximumLen = maximumLen
  BY DEF Attribute
<1>6. Construct(kept, value, ok)
  BY <1>1
<1> HIDE DEF kept, descriptors, value, ok
<1>7. ValueHasRoom(value) <=> ~(maximumLen = 0 \/ initialLen > maximumLen)
  BY <1>5 DEF ValueHasRoom
<1>8. HasCccDescriptor(descriptors) <=> Uuid16(CCC) \in {d.uuid : d \in ToSet(descriptors)}
  BY <1>4 DEF HasCccDescriptor
<1>9. AttributeKeepsContract(value) <=>
        /\ ~(maximumLen = 0 \/ initialLen > maximumLen)
        /\ protocol = "GATT" /\ operations \cap {"NOTIFY", "INDICATE"} # {} => HasCccDescriptor(descriptors)
        /\ protocol = "SSAP" => operations \cap {"READ", "WRITE"} \subseteq permissions
  BY <1>4, <1>5, <1>7, <1>8, Zenon DEF AttributeKeepsContract, Permission
<1>10. ASSUME protocol = "GATT" PROVE ok <=> AttributeKeepsContract(value)
  <2>1. ok <=> GattCharacteristicOk(operations, initialLen, maximumLen, descriptors)
    BY <1>10 DEF ok
  <2>2. operations \cap {"NOTIFY", "INDICATE"} # {} <=>
          HasProperty(operations, "NOTIFY") \/ HasProperty(operations, "INDICATE")
    BY DEF HasProperty
  <2>3. QED
    BY <1>9, <1>10, <2>1, <2>2 DEF GattCharacteristicOk
<1>11. ASSUME protocol = "SSAP" PROVE ok <=> AttributeKeepsContract(value)
  <2>1. ok <=> SsapPropertyOk(permissions, operations, initialLen, maximumLen)
    BY <1>11 DEF ok
  <2>2. QED
    BY <1>9, <1>11, <2>1 DEF SsapPropertyOk, HasOperation, HasPermission
<1>12. ok <=> AttributeKeepsContract(value)
  BY <1>10, <1>11 DEF Protocol
<1>13. value.type \in DatabaseType /\ (KeepsContract(value) <=> AttributeKeepsContract(value))
  BY <1>5, Zenon DEF KeepsContract, DatabaseType
<1>14. QED
  BY <1>3, <1>6, <1>12, <1>13, Entry

\* The values at hand belong to a database.
LEMMA AllOfType ==
  ASSUME ValuesInv, NEW type \in DatabaseType, \A i \in 1 .. Len(parts) : parts[i].type = type
  PROVE  /\ \A v \in ToSet(parts) : v.type = type /\ KeepsContract(v)
         /\ ToSet(parts) = {parts[i] : i \in 1 .. Len(parts)}
BY Held DEF Good

LEMMA ServiceKeepsInv ==
  ASSUME ValuesInv, NEW protocol, NewService(protocol)
  PROVE  ValuesInv'
<1> DEFINE value == [type |-> "Service", protocol |-> protocol, attributes |-> parts]
           ok == IF protocol = "GATT" THEN GattServiceOk(parts) ELSE SsapServiceOk(parts)
<1>1. value.type = "Service" /\ value.attributes = parts
  OBVIOUS
<1>2. Construct(<<>>, value, ok)
  BY DEF NewService
<1>3. ok <=> parts # <<>>
  BY DEF GattServiceOk, SsapServiceOk
<1>4. \A v \in ToSet(parts) : AttributeKeepsContract(v)
  <2>1. "Attribute" \in DatabaseType /\ \A i \in 1 .. Len(parts) : parts[i].type = "Attribute"
    BY DEF NewService, DatabaseType
  <2>2. \A v \in ToSet(parts) : v.type = "Attribute" /\ KeepsContract(v)
    BY <2>1, AllOfType
  <2>3. QED
    BY <2>2, Zenon DEF KeepsContract
<1> HIDE DEF value, ok
<1>5. ok <=> KeepsContract(value)
  BY <1>1, <1>3, <1>4, Zenon DEF KeepsContract, ServiceKeepsContract
<1>6. value.type \in DatabaseType
  BY <1>1 DEF DatabaseType
<1>7. QED
  BY <1>2, <1>5, <1>6, Whole

LEMMA ServerKeepsInv ==
  ASSUME ValuesInv, NEW protocol, NewServer(protocol)
  PROVE  ValuesInv'
<1> DEFINE value == [type |-> "Server", protocol |-> protocol, services |-> parts]
           ok == IF protocol = "GATT" THEN GattServerOk(parts) ELSE SsapServerOk(parts)
<1>1. value.type = "Server" /\ value.services = parts
  OBVIOUS
<1>2. Construct(<<>>, value, ok)
  BY DEF NewServer
<1>3. ok <=> parts # <<>>
  BY DEF GattServerOk, SsapServerOk
<1>4. \A v \in ToSet(parts) : ServiceKeepsContract(v)
  <2>1. "Service" \in DatabaseType /\ \A i \in 1 .. Len(parts) : parts[i].type = "Service"
    BY DEF NewServer, DatabaseType
  <2>2. \A v \in ToSet(parts) : v.type = "Service" /\ KeepsContract(v)
    BY <2>1, AllOfType
  <2>3. QED
    BY <2>2, Zenon DEF KeepsContract
<1> HIDE DEF value, ok
<1>5. ok <=> KeepsContract(value)
  BY <1>1, <1>3, <1>4, Zenon DEF KeepsContract
<1>6. value.type \in DatabaseType
  BY <1>1 DEF DatabaseType
<1>7. QED
  BY <1>2, <1>5, <1>6, Whole

-----------------------------------------------------------------------------
(* Errors *)

\* An error or a diagnostic is no request and no database.
LEMMA Reported ==
  ASSUME NEW value, value.type \in ErrorType, parts' = <<value>>, refused' = None
  PROVE  ValuesInv'
<1>1. Len(parts') = 1 /\ parts'[1] = value /\ parts' \in Seq({value})
  OBVIOUS
<1>2. ToSet(parts') \subseteq {value} /\ parts' \in Seq(ToSet(parts'))
  BY <1>1, SetOfSeq
<1>3. \A v \in ToSet(parts') : Typed(v) /\ v.type \in ErrorType /\ v.type \notin DatabaseType
  BY <1>2 DEF Typed, ErrorType, DatabaseType
<1>4. SameKind'
  BY <1>1 DEF SameKind
<1>5. QED
  BY <1>2, <1>3, <1>4
  DEF ValuesInv, RequestsAreValid, DatabasesKeepContract, None

LEMMA NewErrorKeepsInv ==
  ASSUME ValuesInv, NEW value, value.type \in ErrorType, New(value, TRUE)
  PROVE  ValuesInv'
<1>1. Typed(value) /\ Good(value) /\ ~HasKind(value)
  BY DEF Typed, Good, IsRequest, HasKind, ErrorType, DatabaseType
<1>2. QED
  BY <1>1, Began

LEMMA ChangeKeepsInv ==
  ASSUME NEW error, Change(error)
  PROVE  ValuesInv'
<1> DEFINE value == [type |-> "BackendError", error |-> error]
<1>1. value.type \in ErrorType
  BY DEF ErrorType
<1>2. parts' = <<value>> /\ refused' = None
  BY DEF Change
<1> HIDE DEF value
<1>3. QED
  BY <1>1, <1>2, Reported

LEMMA ReportKeepsInv ==
  ASSUME ValuesInv, refused = None, ReportBackendError
  PROVE  ValuesInv'
<1> DEFINE value == [type |-> "Diagnostic", json |-> Json(BackendDiagnostic(parts[1].error)),
                     error |-> parts[1].error]
<1>1. value.type \in ErrorType
  BY DEF ErrorType
<1>2. parts' = <<value>> /\ refused' = None
  BY DEF ReportBackendError
<1> HIDE DEF value
<1>3. QED
  BY <1>1, <1>2, Reported

-----------------------------------------------------------------------------
(* The invariant *)

LEMMA NothingIsValid ==
  ASSUME parts = <<>>, refused = None
  PROVE  ValuesInv
<1>1. ToSet(parts) = {} /\ parts \in Seq(ToSet(parts)) /\ Len(parts) = 0
  BY NothingHeld, EmptySeq
<1>2. QED
  BY <1>1 DEF ValuesInv, SameKind, RequestsAreValid, DatabasesKeepContract, None

LEMMA DiscardKeepsInv ==
  ASSUME Discard
  PROVE  ValuesInv'
<1>1. parts' = <<>> /\ refused' = None
  BY DEF Discard
<1>2. ToSet(parts') = {} /\ parts' \in Seq(ToSet(parts')) /\ Len(parts') = 0
  BY <1>1, NothingHeld, EmptySeq
<1>3. QED
  BY <1>1, <1>2 DEF ValuesInv, SameKind, RequestsAreValid, DatabasesKeepContract, None

LEMMA BeginKeepsInv ==
  ASSUME ValuesInv, Begin
  PROVE  ValuesInv'
<1>1. ASSUME NEW low \in [1 .. 5 -> LowByte], NEW top \in TopByte,
             NewBluetoothAddress(Append(low, top)) \/ NewSleAddress(Append(low, top))
      PROVE  ValuesInv'
  BY <1>1, AddressArgument, BluetoothAddressKeepsInv, SleAddressKeepsInv
<1>2. ASSUME NEW value \in Numbers, NewNumber(value)
      PROVE  ValuesInv'
  BY <1>2, NumberKeepsInv
<1>3. ASSUME NEW bytes \in SsidBytes, NewSsid(bytes)
      PROVE  ValuesInv'
  BY <1>3, SsidKeepsInv
<1>4. ASSUME NEW class \in BackendErrorClass, NEW code \in Codes, NewError(class, code)
      PROVE  ValuesInv'
  <2> DEFINE value == [type |-> "BackendError", error |-> NewBackendError(class, code)]
  <2>1. value.type \in ErrorType /\ New(value, TRUE)
    BY <1>4 DEF ErrorType, NewError
  <2> HIDE DEF value
  <2>2. QED
    BY <2>1, NewErrorKeepsInv
<1>5. ASSUME NEW error \in {"AlreadyInitialized", "Protocol"}, ReportError(error)
      PROVE  ValuesInv'
  <2> DEFINE value == [type |-> "FacadeDiagnostic", json |-> Json(FacadeDiagnostic(error)),
                       error |-> error]
  <2>1. value.type \in ErrorType /\ New(value, TRUE)
    BY <1>5 DEF ErrorType, ReportError
  <2> HIDE DEF value
  <2>2. QED
    BY <2>1, NewErrorKeepsInv
<1>6. QED
  BY <1>1, <1>2, <1>3, <1>4, <1>5 DEF Begin

LEMMA BuildRequestKeepsInv ==
  ASSUME ValuesInv, BuildRequest
  PROVE  ValuesInv'
BY IntervalKeepsInv, TimingKeepsInv, ChannelsKeepInv, PayloadKeepsInv, RequestKeepsInv
DEF BuildRequest

LEMMA BuildDatabaseKeepsInv ==
  ASSUME ValuesInv, BuildDatabase
  PROVE  ValuesInv'
<1>1. \A lengths \in ValueLengths : lengths[1] \in Nat /\ lengths[2] \in Nat
  BY DEF ValueLengths
<1>2. ASSUME NEW protocol \in Protocol, NEW lengths \in ValueLengths,
             NEW permissions \in Permissions[protocol], NEW uuid \in DescriptorUuids[protocol],
             NewDescriptor(protocol, uuid, permissions, lengths[1], lengths[2])
      PROVE  ValuesInv'
  BY <1>1, <1>2, DescriptorKeepsInv
<1>3. ASSUME NEW protocol \in Protocol, NEW lengths \in ValueLengths,
             NEW permissions \in Permissions[protocol], NEW operations \in Operations,
             NewAttribute(protocol, permissions, operations, lengths[1], lengths[2])
      PROVE  ValuesInv'
  BY <1>1, <1>3, AttributeKeepsInv
<1>4. QED
  BY <1>2, <1>3, ServiceKeepsInv, ServerKeepsInv DEF BuildDatabase

LEMMA BuildStationKeepsInv ==
  ASSUME ValuesInv, BuildStation
  PROVE  ValuesInv'
BY ScanResultKeepsInv, PassphraseKeepsInv, StationKeepsInv DEF BuildStation

LEMMA DescribeErrorKeepsInv ==
  ASSUME ValuesInv, refused = None, DescribeError
  PROVE  ValuesInv'
BY ChangeKeepsInv, ReportKeepsInv DEF DescribeError, TellStage, TellRevision, TellTrace

LEMMA StepKeepsInv ==
  ASSUME ValuesInv, [ValuesNext]_valueVars
  PROVE  ValuesInv'
<1>1. CASE Discard
  BY <1>1, DiscardKeepsInv
<1>2. CASE UNCHANGED valueVars
  BY <1>2 DEF valueVars, ValuesInv, SameKind, RequestsAreValid, DatabasesKeepContract
<1>3. QED
  BY <1>1, <1>2, BeginKeepsInv, BuildRequestKeepsInv, BuildDatabaseKeepsInv,
     BuildStationKeepsInv, DescribeErrorKeepsInv
  DEF ValuesNext, Holds

-----------------------------------------------------------------------------
(* What a diagnostic tells *)

\* What the backend has said so far, in an error that is being described.
HistoryType ==
  [pushed : Seq(TraceEntries), stage : SUBSET DiagnosticStage, revision : SUBSET Revisions]

TraceType ==
  [entries : [0 .. TraceCapacity - 1 -> TraceEntries \cup {NoEntry}],
   len : 0 .. TraceCapacity, truncated : BOOLEAN]

ErrorRecord ==
  [class : BackendErrorClass, code : Codes, stage : DiagnosticStage,
   revision : SUBSET Revisions, trace : TraceType]

Kept(pushed) == IF Len(pushed) < TraceCapacity THEN Len(pushed) ELSE TraceCapacity

TraceTells(trace, pushed) ==
  /\ trace \in TraceType
  /\ trace.len = Kept(pushed)
  /\ trace.truncated = (Len(pushed) > TraceCapacity)
  /\ \A i \in 1 .. Kept(pushed) : trace.entries[i - 1] = pushed[i]

ErrorTells(error) ==
  /\ error \in ErrorRecord
  /\ history.stage = None => error.stage = DefaultStage(error.class)
  /\ history.stage # None => error.stage \in history.stage
  /\ error.revision = history.revision
  /\ TraceTells(error.trace, history.pushed)

ErrorsInv ==
  /\ history \in HistoryType
  /\ \A value \in ToSet(parts) : value.type = "BackendError" => ErrorTells(value.error)
  /\ DiagnosticsAreComplete

-----------------------------------------------------------------------------
(* Classes and traces *)

LEMMA ClassHasItsCode ==
  ASSUME NEW class \in BackendErrorClass
  PROVE  /\ CodeAndAction(class)[1] \in DiagnosticCode \ {"AlreadyInitialized", "Protocol"}
         /\ CodeAndAction(class)[2] \in RecoveryAction
         /\ DefaultStage(class) \in DiagnosticStage
<1>1. CodeAndAction(class)[1] \in DiagnosticCode \ {"AlreadyInitialized", "Protocol"}
  BY DEF BackendErrorClass, CodeAndAction, DiagnosticCode
<1>2. CodeAndAction(class)[2] \in RecoveryAction
  BY DEF BackendErrorClass, CodeAndAction, RecoveryAction
<1>3. DefaultStage(class) \in DiagnosticStage
  BY DEF BackendErrorClass, DefaultStage, DiagnosticStage
<1>4. QED
  BY <1>1, <1>2, <1>3

LEMMA CodeTellsClass ==
  ASSUME NEW class \in BackendErrorClass, NEW other \in BackendErrorClass,
         CodeAndAction(other)[1] = CodeAndAction(class)[1]
  PROVE  other = class
BY DEF BackendErrorClass, CodeAndAction

LEMMA NewTraceTells == TraceTells(NewTrace, <<>>)
<1>1. Len(<<>>) = 0 /\ Kept(<<>>) = 0
  BY TraceAssumption, EmptySeq DEF Kept
<1>2. NewTrace \in TraceType
  BY TraceAssumption DEF NewTrace, TraceType
<1>3. NewTrace.len = 0 /\ NewTrace.truncated = FALSE
  BY DEF NewTrace
<1>4. (Len(<<>>) > TraceCapacity) = FALSE
  BY <1>1, TraceAssumption
<1>5. NewTrace.truncated = (Len(<<>>) > TraceCapacity)
  BY <1>3, <1>4, Zenon
<1>6. \A i \in 1 .. Kept(<<>>) : NewTrace.entries[i - 1] = <<>>[i]
  BY <1>1
<1>7. QED
  BY <1>1, <1>2, <1>3, <1>5, <1>6, Zenon DEF TraceTells

\* The entries are those that were pushed first, in order.
LEMMA PushTells ==
  ASSUME NEW trace, NEW pushed \in Seq(TraceEntries), NEW entry \in TraceEntries,
         TraceTells(trace, pushed)
  PROVE  TraceTells(Push(trace, entry), Append(pushed, entry))
<1> DEFINE later == Append(pushed, entry)
<1>1. /\ Len(pushed) \in Nat /\ Len(later) = Len(pushed) + 1
      /\ \A i \in 1 .. Len(pushed) : later[i] = pushed[i]
      /\ later[Len(pushed) + 1] = entry
  BY LenProperties, AppendProperties
<1>2. trace \in TraceType /\ TraceCapacity \in Nat \ {0}
  BY TraceAssumption DEF TraceTells
<1> HIDE DEF later
<1>3. CASE Len(pushed) < TraceCapacity
  <2>1. /\ trace.len = Len(pushed) /\ Kept(later) = Len(pushed) + 1
        /\ trace.truncated = FALSE
        /\ \A i \in 1 .. Len(pushed) : trace.entries[i - 1] = pushed[i]
    <3>1. Kept(pushed) = Len(pushed) /\ Kept(later) = Len(pushed) + 1
      BY <1>1, <1>2, <1>3 DEF Kept
    <3>2. (Len(pushed) > TraceCapacity) = FALSE
      BY <1>1, <1>2, <1>3
    <3>3. QED
      BY <3>1, <3>2, Zenon DEF TraceTells
  <2>2. Push(trace, entry) =
          [trace EXCEPT !.entries[trace.len] = entry, !.len = trace.len + 1]
    BY <1>3, <2>1 DEF Push
  <2> DEFINE new == Push(trace, entry)
  <2>3. trace.entries \in [0 .. TraceCapacity - 1 -> TraceEntries \cup {NoEntry}]
    BY <1>2 DEF TraceType
  <2>4. /\ new.entries = [trace.entries EXCEPT ![trace.len] = entry]
        /\ new.len = Len(pushed) + 1 /\ new.truncated = FALSE
        /\ new = [entries |-> new.entries, len |-> new.len, truncated |-> new.truncated]
    BY <1>2, <2>1, <2>2 DEF TraceType
  <2> HIDE DEF new
  <2>5. new.entries \in [0 .. TraceCapacity - 1 -> TraceEntries \cup {NoEntry}]
    BY <2>3, <2>4
  <2>6. new.len \in 0 .. TraceCapacity
    BY <1>1, <1>2, <1>3, <2>4
  <2>7. new \in TraceType
    BY <2>4, <2>5, <2>6, Zenon DEF TraceType
  <2>8. ASSUME NEW i \in 1 .. Len(pushed) + 1
        PROVE  new.entries[i - 1] = later[i]
    <3>1. CASE i = Len(pushed) + 1
      BY <1>1, <1>2, <1>3, <2>1, <2>3, <2>4, <3>1
    <3>2. CASE i # Len(pushed) + 1
      BY <1>1, <1>2, <1>3, <2>1, <2>3, <2>4, <3>2
    <3>3. QED
      BY <3>1, <3>2
  <2>9. (Len(later) > TraceCapacity) = FALSE
    BY <1>1, <1>2, <1>3
  <2>10. TraceTells(new, later)
    BY <2>1, <2>4, <2>7, <2>8, <2>9 DEF TraceTells
  <2>11. QED
    BY <2>10 DEF new, later
<1>4. CASE ~(Len(pushed) < TraceCapacity)
  <2>1. /\ trace.len = TraceCapacity /\ Kept(pushed) = TraceCapacity
        /\ Kept(later) = TraceCapacity
        /\ \A i \in 1 .. TraceCapacity : trace.entries[i - 1] = pushed[i]
    BY <1>1, <1>2, <1>4 DEF TraceTells, Kept
  <2>2. Push(trace, entry) = [trace EXCEPT !.truncated = TRUE]
    BY <1>2, <2>1 DEF Push
  <2> DEFINE new == Push(trace, entry)
  <2>3. new \in TraceType
    BY <1>2, <2>2 DEF TraceType
  <2>4. new.len = trace.len /\ new.entries = trace.entries /\ new.truncated = TRUE
    BY <1>2, <2>2 DEF TraceType
  <2> HIDE DEF new
  <2>5. (Len(later) > TraceCapacity) = TRUE
    BY <1>1, <1>2, <1>4
  <2>6. \A i \in 1 .. TraceCapacity : later[i] = pushed[i]
    BY <1>1, <1>2, <1>4
  <2>7. TraceTells(new, later)
    BY <2>1, <2>3, <2>4, <2>5, <2>6 DEF TraceTells
  <2>8. QED
    BY <2>7 DEF new, later
<1>5. QED
  BY <1>3, <1>4

\* What is written of a trace.
LEMMA WrittenTrace ==
  ASSUME NEW trace, NEW pushed \in Seq(TraceEntries), TraceTells(trace, pushed)
  PROVE  /\ [i \in 1 .. trace.len |-> Get(trace, i - 1)] = SubSeq(pushed, 1, Kept(pushed))
         /\ ToSet(SubSeq(pushed, 1, Kept(pushed))) \subseteq TraceEntries
<1> DEFINE written == [i \in 1 .. trace.len |-> Get(trace, i - 1)]
           first == SubSeq(pushed, 1, Kept(pushed))
<1>1. /\ Len(pushed) \in Nat /\ TraceCapacity \in Nat \ {0}
      /\ \A i \in 1 .. Len(pushed) : pushed[i] \in TraceEntries
  BY TraceAssumption, LenProperties, ElementOfSeq
<1>2. Kept(pushed) \in 0 .. Len(pushed) /\ trace.len = Kept(pushed)
  BY <1>1 DEF Kept, TraceTells
<1>3. \A i \in 1 .. Kept(pushed) : pushed[i] \in TraceEntries
  BY <1>1, <1>2
<1>4. Kept(pushed) \in Nat /\ Kept(pushed) \in Int
  BY <1>1, <1>2
<1>5. /\ first \in Seq(TraceEntries)
      /\ Len(first) = IF 1 <= Kept(pushed) THEN Kept(pushed) - 1 + 1 ELSE 0
      /\ \A i \in 1 .. Kept(pushed) - 1 + 1 : first[i] = pushed[1 + i - 1]
  BY <1>3, <1>4, SubSeqProperties
<1>6. Len(first) = Kept(pushed) /\ \A i \in 1 .. Kept(pushed) : first[i] = pushed[i]
  BY <1>4, <1>5
<1>7. \A i \in 1 .. Kept(pushed) : Get(trace, i - 1) = pushed[i]
  BY <1>2, <1>4 DEF Get, TraceTells
<1>8. /\ written \in [1 .. Kept(pushed) -> TraceEntries]
      /\ \A i \in 1 .. Kept(pushed) : written[i] = pushed[i]
  BY <1>2, <1>3, <1>7
<1>9. first \in [1 .. Kept(pushed) -> TraceEntries]
  BY <1>5, <1>6, LenProperties
<1>10. written = first
  BY <1>6, <1>8, <1>9
<1>11. ToSet(first) \subseteq TraceEntries
  BY <1>5, SetOfSeq
<1>12. QED
  BY <1>10, <1>11

-----------------------------------------------------------------------------
(* Calls that make no error *)

NoError == \A value \in ToSet(parts) : value.type \notin ErrorType

LEMMA NoErrorIsComplete ==
  ASSUME NEW value, value.type \notin ErrorType
  PROVE  IsComplete(value) /\ value.type # "BackendError"
BY Zenon DEF IsComplete, ErrorType

LEMMA NoHistoryType == NoHistory \in HistoryType
<1>1. <<>> \in Seq(TraceEntries)
  BY EmptySeq
<1>2. QED
  BY <1>1 DEF NoHistory, HistoryType, None

LEMMA Elsewhere ==
  ASSUME ValuesInv, NoError, NEW kept \in Seq(ToSet(parts)), NEW value, NEW ok,
         Construct(kept, value, ok), value.type \notin ErrorType
  PROVE  ErrorsInv'
<1>1. history' \in HistoryType
  BY NoHistoryType DEF Construct
<1>2. ToSet(parts') \subseteq ToSet(kept) \cup {value}
  <2>1. CASE ok
    BY <2>1, SetOfAppend DEF Construct
  <2>2. CASE ~ok
    BY <2>2, NothingHeld DEF Construct
  <2>3. QED
    BY <2>1, <2>2
<1>3. \A v \in ToSet(parts') : v.type \notin ErrorType
  BY <1>2, SetOfSeq DEF NoError
<1>4. \A v \in ToSet(parts') : v.type # "BackendError" /\ IsComplete(v)'
  <2>1. ASSUME NEW v \in ToSet(parts')
        PROVE  v.type # "BackendError" /\ IsComplete(v)'
    <3>1. v.type \notin ErrorType
      BY <1>3
    <3>2. QED
      BY <3>1, Zenon DEF IsComplete, ErrorType
  <2>2. QED
    BY <2>1
<1>5. QED
  BY <1>1, <1>4 DEF ErrorsInv, DiagnosticsAreComplete

LEMMA Beside ==
  ASSUME ValuesInv, NoError, NEW value, NEW ok, New(value, ok), value.type \notin ErrorType
  PROVE  ErrorsInv'
<1>1. Construct(parts, value, ok) /\ parts \in Seq(ToSet(parts))
  BY DEF New, ValuesInv
<1>2. QED
  BY <1>1, Elsewhere

LEMMA InPlace ==
  ASSUME ValuesInv, NoError, NEW value, NEW ok, Construct(<<>>, value, ok),
         value.type \notin ErrorType
  PROVE  ErrorsInv'
<1>1. <<>> \in Seq(ToSet(parts))
  BY EmptySeq
<1>2. QED
  BY <1>1, Elsewhere

\* What is at hand, by type.
LEMMA TypesAtHand ==
  ASSUME ValuesInv, NEW types, Holds(types)
  PROVE  \A value \in ToSet(parts) : value.type \in types
<1>1. DOMAIN Types = 1 .. Len(parts) /\ \A i \in 1 .. Len(parts) : Types[i] = parts[i].type
  BY DEF Types
<1>2. \A i \in 1 .. Len(parts) : parts[i].type \in ToSet(Types)
  BY <1>1 DEF ToSet
<1>3. QED
  BY <1>2, Held DEF Holds

LEMMA RequestMakesNoError ==
  ASSUME ValuesInv, Holds({"Interval", "Timing", "Channels", "Payload"}), BuildRequest
  PROVE  ErrorsInv'
<1>1. NoError
  BY TypesAtHand DEF NoError, ErrorType
<1>2. ASSUME NEW kind \in IntervalKind, NEW units \in Units[kind], NewInterval(kind, units)
      PROVE  ErrorsInv'
  <2> DEFINE value == [type |-> "Interval", kind |-> kind, units |-> units]
  <2>1. New(value, IntervalOk(kind, units)) /\ value.type \notin ErrorType
    BY <1>2 DEF NewInterval, ErrorType
  <2> HIDE DEF value
  <2>2. QED
    BY <1>1, <2>1, Beside
<1>3. CASE NewTiming
  <2> DEFINE value == [type |-> "Timing", kind |-> parts[1].kind,
                       first |-> parts[1].units, second |-> parts[2].units]
             ok == TimingOk(parts[1].kind, parts[1].units, parts[2].units)
  <2>1. Construct(<<>>, value, ok) /\ value.type \notin ErrorType
    BY <1>3 DEF NewTiming, ErrorType
  <2> HIDE DEF value, ok
  <2>2. QED
    BY <1>1, <2>1, InPlace
<1>4. ASSUME NEW bits \in Bitmaps, NewChannels(bits)
      PROVE  ErrorsInv'
  <2> DEFINE value == [type |-> "Channels", bits |-> bits]
             ok == IF parts[1].kind = "Advertising" THEN AdvertisingChannelsOk(bits)
                                                    ELSE AnnounceChannelsOk(bits)
  <2>1. New(value, ok) /\ value.type \notin ErrorType
    BY <1>4 DEF NewChannels, ErrorType
  <2> HIDE DEF value, ok
  <2>2. QED
    BY <1>1, <2>1, Beside
<1>5. ASSUME NEW len \in Lengths, NewPayload(len)
      PROVE  ErrorsInv'
  <2> DEFINE value == [type |-> "Payload", kind |-> parts[1].kind, len |-> len]
             ok == IF parts[1].kind = "Advertising" THEN AdvertisingPayloadOk(len)
                                                    ELSE AnnouncePayloadOk(len)
  <2>1. New(value, ok) /\ value.type \notin ErrorType
    BY <1>5 DEF NewPayload, ErrorType
  <2> HIDE DEF value, ok
  <2>2. QED
    BY <1>1, <2>1, Beside
<1>6. CASE NewRequest
  <2> DEFINE value == [type |-> "Request", kind |-> parts[1].kind, parts |-> parts]
  <2>1. Construct(<<>>, value, TRUE) /\ value.type \notin ErrorType
    BY <1>6 DEF NewRequest, ErrorType
  <2> HIDE DEF value
  <2>2. QED
    BY <1>1, <2>1, InPlace
<1>7. QED
  BY <1>2, <1>3, <1>4, <1>5, <1>6 DEF BuildRequest

LEMMA DatabaseMakesNoError ==
  ASSUME ValuesInv, Holds({"Descriptor", "Attribute", "Service"}), BuildDatabase
  PROVE  ErrorsInv'
<1>1. NoError
  BY TypesAtHand DEF NoError, ErrorType
<1>2. ASSUME NEW protocol, NEW uuid, NEW permissions, NEW initialLen, NEW maximumLen,
             NewDescriptor(protocol, uuid, permissions, initialLen, maximumLen)
      PROVE  ErrorsInv'
  <2> DEFINE value == [type |-> "Descriptor", protocol |-> protocol, uuid |-> uuid, permissions |-> permissions,
                       initialLen |-> initialLen, maximumLen |-> maximumLen]
             ok == IF protocol = "GATT" THEN GattDescriptorOk(initialLen, maximumLen)
                                        ELSE SsapDescriptorOk(initialLen, maximumLen)
  <2>1. New(value, ok) /\ value.type \notin ErrorType
    BY <1>2 DEF NewDescriptor, ErrorType
  <2> HIDE DEF value, ok
  <2>2. QED
    BY <1>1, <2>1, Beside
<1>3. ASSUME NEW protocol, NEW permissions, NEW operations, NEW initialLen, NEW maximumLen,
             NewAttribute(protocol, permissions, operations, initialLen, maximumLen)
      PROVE  ErrorsInv'
  <2>1. PICK made \in 0 .. Len(parts) :
          Construct(SubSeq(parts, 1, made),
            Attribute(protocol, permissions, operations, Descriptors(made), initialLen, maximumLen),
            IF protocol = "GATT"
            THEN GattCharacteristicOk(operations, initialLen, maximumLen, Descriptors(made))
            ELSE SsapPropertyOk(permissions, operations, initialLen, maximumLen))
    BY <1>3 DEF NewAttribute
  <2> DEFINE kept == SubSeq(parts, 1, made)
             value == Attribute(protocol, permissions, operations, Descriptors(made),
                                initialLen, maximumLen)
             ok == IF protocol = "GATT"
                   THEN GattCharacteristicOk(operations, initialLen, maximumLen, Descriptors(made))
                   ELSE SsapPropertyOk(permissions, operations, initialLen, maximumLen)
  <2>2. value.type \notin ErrorType
    BY DEF Attribute, ErrorType
  <2>3. Len(parts) \in Nat /\ \A i \in 1 .. Len(parts) : parts[i] \in ToSet(parts)
    BY Held
  <2>4. made \in Int /\ \A i \in 1 .. made : parts[i] \in ToSet(parts)
    BY <2>3
  <2>5. kept \in Seq(ToSet(parts))
    BY <2>4, SubSeqProperties
  <2> HIDE DEF value, ok, kept
  <2>6. Construct(kept, value, ok)
    BY <2>1 DEF kept, value, ok
  <2>7. QED
    BY <1>1, <2>2, <2>5, <2>6, Elsewhere
<1>4. ASSUME NEW protocol, NewService(protocol)
      PROVE  ErrorsInv'
  <2> DEFINE value == [type |-> "Service", protocol |-> protocol, attributes |-> parts]
             ok == IF protocol = "GATT" THEN GattServiceOk(parts) ELSE SsapServiceOk(parts)
  <2>1. Construct(<<>>, value, ok) /\ value.type \notin ErrorType
    BY <1>4 DEF NewService, ErrorType
  <2> HIDE DEF value, ok
  <2>2. QED
    BY <1>1, <2>1, InPlace
<1>5. ASSUME NEW protocol, NewServer(protocol)
      PROVE  ErrorsInv'
  <2> DEFINE value == [type |-> "Server", protocol |-> protocol, services |-> parts]
             ok == IF protocol = "GATT" THEN GattServerOk(parts) ELSE SsapServerOk(parts)
  <2>1. Construct(<<>>, value, ok) /\ value.type \notin ErrorType
    BY <1>5 DEF NewServer, ErrorType
  <2> HIDE DEF value, ok
  <2>2. QED
    BY <1>1, <2>1, InPlace
<1>6. QED
  BY <1>2, <1>3, <1>4, <1>5 DEF BuildDatabase

LEMMA StationMakesNoError ==
  ASSUME ValuesInv, Holds({"Ssid", "ScanResult", "Passphrase"}), BuildStation
  PROVE  ErrorsInv'
<1>1. NoError
  BY TypesAtHand DEF NoError, ErrorType
<1>2. ASSUME NEW security, NewScanResult(security)
      PROVE  ErrorsInv'
  <2>1. PICK bssid \in {"bssid1", "bssid2"}, channel \in {1, 6} :
          Construct(<<>>, [type |-> "ScanResult", ssid |-> parts[1].bytes, bssid |-> bssid,
                           channel |-> channel, security |-> security], TRUE)
    BY <1>2 DEF NewScanResult
  <2> DEFINE value == [type |-> "ScanResult", ssid |-> parts[1].bytes, bssid |-> bssid,
                       channel |-> channel, security |-> security]
  <2>2. Construct(<<>>, value, TRUE) /\ value.type \notin ErrorType
    BY <2>1 DEF ErrorType
  <2> HIDE DEF value
  <2>3. QED
    BY <1>1, <2>2, InPlace
<1>3. ASSUME NEW bytes, NewPassphrase(bytes)
      PROVE  ErrorsInv'
  <2> DEFINE value == [type |-> "Passphrase", bytes |-> bytes]
             ok == PassphraseOk(bytes)
  <2>1. New(value, ok) /\ value.type \notin ErrorType
    BY <1>3 DEF NewPassphrase, ErrorType
  <2> HIDE DEF value, ok
  <2>2. QED
    BY <1>1, <2>1, Beside
<1>4. ASSUME NEW security, NewStation(security)
      PROVE  ErrorsInv'
  <2> DEFINE ok == IF security = Wpa2 THEN Wpa2Selectable(parts[1].security)
                   ELSE Wpa3Selectable(parts[1].security)
             secret == IF ok THEN parts[2].bytes ELSE Erased(parts[2].bytes)
             value == [type |-> "Station", scan |-> parts[1], chosen |-> security,
                       config |-> StationConfig(parts[1], secret, security)]
  <2>1. Construct(<<>>, value, ok) /\ value.type \notin ErrorType
    BY <1>4 DEF NewStation, ErrorType
  <2> HIDE DEF value, ok
  <2>2. QED
    BY <1>1, <2>1, InPlace
<1>5. QED
  BY <1>2, <1>3, <1>4 DEF BuildStation

-----------------------------------------------------------------------------
(* Calls that make or describe an error *)

\* Only one value is at hand then.
LEMMA OneValue ==
  ASSUME NEW value, parts' = <<value>>, history' \in HistoryType,
         value.type = "BackendError" => ErrorTells(value.error)',
         IsComplete(value)'
  PROVE  ErrorsInv'
<1>1. Len(parts') = 1 /\ parts'[1] = value /\ parts' \in Seq({value})
  OBVIOUS
<1>2. ToSet(parts') \subseteq {value}
  BY <1>1, SetOfSeq
<1>3. QED
  BY <1>2 DEF ErrorsInv, DiagnosticsAreComplete

LEMMA BackendErrorTells ==
  ASSUME NEW value, value.type = "BackendError", parts' = <<value>>,
         history' \in HistoryType, ErrorTells(value.error)'
  PROVE  ErrorsInv'
<1>1. IsComplete(value)'
  BY Zenon DEF IsComplete
<1>2. QED
  BY <1>1, OneValue

LEMMA FirstPart ==
  ASSUME NEW value, NEW ok, ok = TRUE, parts = <<>>, New(value, ok)
  PROVE  parts' = <<value>> /\ history' = NoHistory
BY DEF New, Construct

LEMMA NewErrorTells ==
  ASSUME NEW class \in BackendErrorClass, NEW code \in Codes, NewError(class, code)
  PROVE  ErrorsInv'
<1> DEFINE error == NewBackendError(class, code)
           value == [type |-> "BackendError", error |-> error]
<1>1. parts' = <<value>> /\ history' = NoHistory
  BY FirstPart DEF NewError
<1>2. /\ history'.pushed = <<>> /\ history'.stage = None /\ history'.revision = None
      /\ history' \in HistoryType
  BY <1>1, NoHistoryType DEF NoHistory
<1>3. error \in ErrorRecord
  BY NewTraceTells, ClassHasItsCode DEF NewBackendError, ErrorRecord, TraceTells, None
<1>4. /\ error.stage = DefaultStage(error.class) /\ error.trace = NewTrace
      /\ error.revision = None
  BY DEF NewBackendError
<1>5. value.type = "BackendError" /\ value.error = error
  OBVIOUS
<1> HIDE DEF value, error
<1>6. ErrorTells(error)'
  BY <1>2, <1>3, <1>4, NewTraceTells DEF ErrorTells
<1>7. QED
  BY <1>1, <1>2, <1>5, <1>6, BackendErrorTells

LEMMA ReportErrorTells ==
  ASSUME NEW error \in {"AlreadyInitialized", "Protocol"}, ReportError(error)
  PROVE  ErrorsInv'
<1> DEFINE json == Json(FacadeDiagnostic(error))
           value == [type |-> "FacadeDiagnostic", json |-> json, error |-> error]
<1>1. parts' = <<value>> /\ history' = NoHistory
  BY FirstPart DEF ReportError
<1>2. value.type = "FacadeDiagnostic" /\ value.json = json /\ value.error = error
  OBVIOUS
<1>3. /\ json.code = error /\ json.stage = "ControlPlane" /\ json.backendCode = None
      /\ json.action \in {"RecreateController", "UseExistingController"}
      /\ json.trace = [i \in 1 .. 0 |-> Get(NewTrace, i - 1)]
  BY DEF Json, FacadeDiagnostic, NewTrace
<1>4. json.trace = <<>>
  BY <1>3
<1>5. ToSet(json.trace) = {}
  BY <1>4, NothingHeld
<1>6. \A c \in BackendErrorClass : CodeAndAction(c)[1] # error
  BY ClassHasItsCode
<1> HIDE DEF json, value
<1>7. IsNamed(json)
  BY <1>3, <1>5 DEF IsNamed, DiagnosticCode, DiagnosticStage, RecoveryAction
<1>8. IsComplete(value)'
  BY <1>2, <1>3, <1>4, <1>6, <1>7 DEF IsComplete
<1>9. QED
  BY <1>1, <1>2, <1>8, NoHistoryType, OneValue

LEMMA BeginTells ==
  ASSUME ValuesInv, parts = <<>>, Begin
  PROVE  ErrorsInv'
<1>1. NoError
  BY NothingHeld DEF NoError
<1>2. ASSUME NEW bytes, NewBluetoothAddress(bytes)
      PROVE  ErrorsInv'
  <2>1. PICK kind, by, ok : New(BluetoothAddress(bytes, kind, by), ok)
    BY <1>2 DEF NewBluetoothAddress
  <2> DEFINE value == BluetoothAddress(bytes, kind, by)
  <2>2. New(value, ok) /\ value.type \notin ErrorType
    BY <2>1 DEF BluetoothAddress, ErrorType
  <2> HIDE DEF value
  <2>3. QED
    BY <1>1, <2>2, Beside
<1>3. ASSUME NEW bytes, NewSleAddress(bytes)
      PROVE  ErrorsInv'
  <2> DEFINE value == [type |-> "SleAddress", bytes |-> bytes]
             ok == SleAddressOk(bytes)
  <2>1. New(value, ok) /\ value.type \notin ErrorType
    BY <1>3 DEF NewSleAddress, ErrorType
  <2> HIDE DEF value, ok
  <2>2. QED
    BY <1>1, <2>1, Beside
<1>4. ASSUME NEW number, NewNumber(number)
      PROVE  ErrorsInv'
  <2>1. ASSUME NEW type \in {"Passkey", "RssiDbm", "Timeout"}, NEW ok,
               New([type |-> type, value |-> number], ok)
        PROVE  ErrorsInv'
    <3> DEFINE value == [type |-> type, value |-> number]
    <3>1. New(value, ok) /\ value.type \notin ErrorType
      BY <2>1 DEF ErrorType
    <3> HIDE DEF value
    <3>2. QED
      BY <1>1, <3>1, Beside
  <2>2. ASSUME NEW time, NEW ok,
               New([type |-> "WorkBudget", events |-> number, time |-> time], ok)
        PROVE  ErrorsInv'
    <3> DEFINE value == [type |-> "WorkBudget", events |-> number, time |-> time]
    <3>1. New(value, ok) /\ value.type \notin ErrorType
      BY <2>2 DEF ErrorType
    <3> HIDE DEF value
    <3>2. QED
      BY <1>1, <3>1, Beside
  <2>3. QED
    BY <1>4, <2>1, <2>2 DEF NewNumber
<1>5. ASSUME NEW bytes, NewSsid(bytes)
      PROVE  ErrorsInv'
  <2> DEFINE value == [type |-> "Ssid", bytes |-> bytes]
             ok == SsidOk(bytes)
  <2>1. New(value, ok) /\ value.type \notin ErrorType
    BY <1>5 DEF NewSsid, ErrorType
  <2> HIDE DEF value, ok
  <2>2. QED
    BY <1>1, <2>1, Beside
<1>6. QED
  BY <1>2, <1>3, <1>4, <1>5, NewErrorTells, ReportErrorTells DEF Begin

\* The error that is being described.
LEMMA AtHand ==
  ASSUME ValuesInv, ErrorsInv, Types = <<"BackendError">>
  PROVE  ErrorTells(parts[1].error)
<1>1. Len(parts) = 1 /\ parts[1].type = "BackendError"
  BY Held, OneOf
<1>2. parts[1] \in ToSet(parts)
  BY <1>1, Held
<1>3. QED
  BY <1>1, <1>2 DEF ErrorsInv

LEMMA StageTells ==
  ASSUME ValuesInv, ErrorsInv, TellStage("Sae")
  PROVE  ErrorsInv'
<1>0. PICK error : error = parts[1].error
  OBVIOUS
<1> DEFINE later == WithStage(error, "Sae")
           value == [type |-> "BackendError", error |-> later]
<1>1. ErrorTells(error)
  BY <1>0, AtHand DEF TellStage
<1>2. parts' = <<value>> /\ history' = [history EXCEPT !.stage = Some("Sae")]
  BY <1>0 DEF TellStage, Change
<1>3. history \in HistoryType /\ "Sae" \in DiagnosticStage
  BY DEF ErrorsInv, DiagnosticStage
<1>4. /\ history' \in HistoryType /\ history'.stage = {"Sae"}
      /\ history'.pushed = history.pushed /\ history'.revision = history.revision
  BY <1>2, <1>3 DEF HistoryType, Some
<1>5. value.type = "BackendError" /\ value.error = later
  OBVIOUS
<1> HIDE DEF value
<1>6. /\ later \in ErrorRecord /\ later.stage = "Sae"
      /\ later.trace = error.trace /\ later.revision = error.revision
  BY <1>1, <1>3 DEF ErrorTells, ErrorRecord, WithStage
<1> HIDE DEF later
<1>7. ErrorTells(later)'
  BY <1>1, <1>4, <1>6 DEF ErrorTells, None
<1>8. QED
  BY <1>2, <1>4, <1>5, <1>7, BackendErrorTells

LEMMA RevisionTells ==
  ASSUME ValuesInv, ErrorsInv, NEW revision \in Revisions, TellRevision(revision)
  PROVE  ErrorsInv'
<1>0. PICK error : error = parts[1].error
  OBVIOUS
<1> DEFINE later == WithProfileRevision(error, revision)
           value == [type |-> "BackendError", error |-> later]
<1>1. ErrorTells(error)
  BY <1>0, AtHand DEF TellRevision
<1>2. parts' = <<value>> /\ history' = [history EXCEPT !.revision = Some(revision)]
  BY <1>0 DEF TellRevision, Change
<1>3. history \in HistoryType
  BY DEF ErrorsInv
<1>4. /\ history' \in HistoryType
      /\ history'.stage = history.stage /\ history'.pushed = history.pushed
      /\ history'.revision = {revision}
  BY <1>2, <1>3 DEF HistoryType, Some
<1>5. value.type = "BackendError" /\ value.error = later
  OBVIOUS
<1> HIDE DEF value
<1>6. /\ later \in ErrorRecord
      /\ later.stage = error.stage /\ later.trace = error.trace /\ later.class = error.class
      /\ later.revision = {revision}
  BY <1>1 DEF ErrorTells, ErrorRecord, WithProfileRevision, Some
<1> HIDE DEF later
<1>7. ErrorTells(later)'
  BY <1>1, <1>4, <1>6 DEF ErrorTells, None
<1>8. QED
  BY <1>2, <1>4, <1>5, <1>7, BackendErrorTells

LEMMA TraceIsTold ==
  ASSUME ValuesInv, ErrorsInv, NEW entry \in TraceEntries, TellTrace(entry)
  PROVE  ErrorsInv'
<1>0. PICK error : error = parts[1].error
  OBVIOUS
<1> DEFINE later == WithTrace(error, entry)
           value == [type |-> "BackendError", error |-> later]
<1>1. ErrorTells(error)
  BY <1>0, AtHand DEF TellTrace
<1>2. /\ parts' = <<value>>
      /\ history' = [history EXCEPT !.pushed = Append(history.pushed, entry)]
  BY <1>0 DEF TellTrace, Change
<1>3. history \in HistoryType
  BY DEF ErrorsInv
<1>4. history.pushed \in Seq(TraceEntries)
  BY <1>3 DEF HistoryType
<1>5. Append(history.pushed, entry) \in Seq(TraceEntries)
  BY <1>4, AppendProperties
<1>6. /\ history' \in HistoryType
      /\ history'.stage = history.stage /\ history'.revision = history.revision
      /\ history'.pushed = Append(history.pushed, entry)
  BY <1>2, <1>3, <1>5 DEF HistoryType
<1>7. value.type = "BackendError" /\ value.error = later
  OBVIOUS
<1>8. TraceTells(Push(error.trace, entry), Append(history.pushed, entry))
  BY <1>1, <1>4, PushTells DEF ErrorTells
<1> HIDE DEF value
<1>9. Push(error.trace, entry) \in TraceType
  BY <1>8 DEF TraceTells
<1>10. /\ later \in ErrorRecord /\ later.trace = Push(error.trace, entry)
       /\ later.stage = error.stage /\ later.class = error.class
       /\ later.revision = error.revision
  BY <1>1, <1>9 DEF ErrorTells, ErrorRecord, WithTrace
<1> HIDE DEF later
<1>11. ErrorTells(later)'
  BY <1>1, <1>6, <1>8, <1>10 DEF ErrorTells, None
<1>12. QED
  BY <1>2, <1>6, <1>7, <1>11, BackendErrorTells

LEMMA ReportTells ==
  ASSUME ValuesInv, ErrorsInv, ReportBackendError
  PROVE  ErrorsInv'
<1>0. PICK error, pushed : error = parts[1].error /\ pushed = history.pushed
  OBVIOUS
<1> DEFINE json == Json(BackendDiagnostic(error))
           value == [type |-> "Diagnostic", json |-> json, error |-> error]
<1>1. ErrorTells(error)
  BY <1>0, AtHand DEF ReportBackendError
<1>2. parts' = <<value>> /\ history' = history
  BY <1>0 DEF ReportBackendError
<1>3. history \in HistoryType /\ pushed \in Seq(TraceEntries)
  BY <1>0 DEF ErrorsInv, HistoryType
<1>4. value.type = "Diagnostic" /\ value.json = json /\ value.error = error
  OBVIOUS
<1> HIDE DEF value
<1>5. /\ json.code = CodeAndAction(error.class)[1] /\ json.stage = error.stage
      /\ json.action = CodeAndAction(error.class)[2] /\ json.backendCode = Some(error.code)
      /\ json.trace = [i \in 1 .. error.trace.len |-> Get(error.trace, i - 1)]
      /\ json.truncated = error.trace.truncated
      /\ json.revision = {JsonString(text) : text \in error.revision}
  BY DEF Json, BackendDiagnostic
<1> HIDE DEF json
<1>6. /\ error.class \in BackendErrorClass /\ error.stage \in DiagnosticStage
      /\ TraceTells(error.trace, pushed)
  BY <1>0, <1>1 DEF ErrorTells, ErrorRecord
<1>7. /\ json.trace = SubSeq(pushed, 1, Kept(pushed))
      /\ ToSet(json.trace) \subseteq TraceEntries
  BY <1>3, <1>5, <1>6, WrittenTrace
<1>8. IsNamed(json)
  BY <1>5, <1>6, <1>7, ClassHasItsCode, ValuesAssumption DEF IsNamed
<1>9. {c \in BackendErrorClass : CodeAndAction(c)[1] = json.code} = {error.class}
  BY <1>5, <1>6, CodeTellsClass
<1>10. IF history.stage = None THEN json.stage = DefaultStage(error.class)
                               ELSE json.stage \in history.stage
  BY <1>1, <1>5 DEF ErrorTells
<1>11. json.truncated = (Len(pushed) > TraceCapacity)
  BY <1>5, <1>6, Zenon DEF TraceTells
<1>12. json.revision = {JsonString(text) : text \in history.revision}
  BY <1>0, <1>1, <1>5 DEF ErrorTells
<1>13. IsComplete(value)
  BY <1>0, <1>4, <1>5, <1>7, <1>8, <1>9, <1>10, <1>11, <1>12, Zenon DEF IsComplete, Kept
<1>14. IsComplete(value)'
  BY <1>2, <1>13 DEF IsComplete
<1>15. QED
  BY <1>2, <1>3, <1>4, <1>14, OneValue

LEMMA DescribeErrorTells ==
  ASSUME ValuesInv, ErrorsInv, DescribeError
  PROVE  ErrorsInv'
BY StageTells, RevisionTells, TraceIsTold, ReportTells DEF DescribeError

LEMMA StepKeepsErrorsInv ==
  ASSUME ValuesInv, ErrorsInv, [ValuesNext]_valueVars
  PROVE  ErrorsInv'
<1>1. CASE Discard
  <2>1. parts' = <<>> /\ history' \in HistoryType
    BY <1>1, NoHistoryType DEF Discard
  <2>2. ToSet(parts') = {}
    BY <2>1, NothingHeld
  <2>3. QED
    BY <2>1, <2>2 DEF ErrorsInv, DiagnosticsAreComplete
<1>2. CASE UNCHANGED valueVars
  BY <1>2 DEF valueVars, ErrorsInv, DiagnosticsAreComplete, IsComplete, ErrorTells
<1>3. QED
  BY <1>1, <1>2, BeginTells, RequestMakesNoError, DatabaseMakesNoError, StationMakesNoError,
     DescribeErrorTells
  DEF ValuesNext

-----------------------------------------------------------------------------
(* Induction *)

\* The order of the numbers as a relation, which is well founded.
Less == {pair \in Nat \X Nat : pair[1] < pair[2]}

\* A set of numbers that is not empty has a least one.
LEMMA LeastNumber ==
  ASSUME NEW T, T \subseteq Nat, T # {}
  PROVE  \E n \in T : \A m \in T : n <= m
<1>1. IsWellFoundedOn(Less, Nat)
  BY NatLessThanWellFounded DEF OpToRel, Less
<1>2. PICK n \in T : \A m \in T : ~ (<<m, n>> \in Less)
  BY <1>1, WFMin
<1>3. ASSUME NEW m \in T
      PROVE  n <= m
  <2>1. n \in Nat /\ m \in Nat /\ <<m, n>> \notin Less
    BY <1>2, <1>3
  <2>2. ~ (m < n)
    BY <2>1 DEF Less
  <2>3. QED
    BY <2>1, <2>2
<1>4. QED
  BY <1>2, <1>3

\* Induction, with the set of the numbers that have the property.
LEMMA InductionOverNat ==
  ASSUME NEW S, 0 \in S, \A n \in Nat : n \in S => n + 1 \in S
  PROVE  Nat \subseteq S
<1>1. SUFFICES ASSUME Nat \ S # {} PROVE FALSE
  OBVIOUS
<1>2. PICK n \in Nat \ S : \A m \in Nat \ S : n <= m
  BY <1>1, LeastNumber
<1>3. n # 0 /\ n - 1 \in Nat
  BY <1>2
<1>4. n - 1 \in S
  BY <1>2, <1>3
<1>5. QED
  BY <1>2, <1>3, <1>4

-----------------------------------------------------------------------------
(* The recursive functions of FlattenSeq and ReadFrom *)

\* What FlattenSeq says of the first i of the sequences.
FlattenBody(seqs, f, i) == IF i = 1 THEN seqs[i] ELSE f[i - 1] \o seqs[i]

\* There is a function that satisfies the equation of FlattenSeq: longer and
\* longer ones, each from the one before.
LEMMA FlattenExists ==
  ASSUME NEW seqs, NEW len \in Nat
  PROVE  \E f : f = [i \in 1 .. len |-> FlattenBody(seqs, f, i)]
<1> DEFINE S == {n \in Nat : \E f : f = [i \in 1 .. n |-> FlattenBody(seqs, f, i)]}
<1>1. 0 \in S
  <2> DEFINE f == [i \in 1 .. 0 |-> 0]
  <2>1. f = [i \in 1 .. 0 |-> FlattenBody(seqs, f, i)]
    OBVIOUS
  <2>2. QED
    BY <2>1
<1>2. ASSUME NEW n \in Nat, n \in S
      PROVE  n + 1 \in S
  <2>1. PICK f : f = [i \in 1 .. n |-> FlattenBody(seqs, f, i)]
    BY <1>2
  <2> DEFINE g == [i \in 1 .. n + 1 |-> FlattenBody(seqs, f, i)]
  <2>2. \A i \in 1 .. n + 1 : FlattenBody(seqs, f, i) = FlattenBody(seqs, g, i)
    <3> TAKE i \in 1 .. n + 1
    <3>1. CASE i = 1
      BY <3>1 DEF FlattenBody
    <3>2. CASE i # 1
      <4>1. i - 1 \in 1 .. n /\ i - 1 \in 1 .. n + 1
        BY <3>2
      <4>2. f[i - 1] = FlattenBody(seqs, f, i - 1)
        BY <2>1, <4>1
      <4>3. g[i - 1] = FlattenBody(seqs, f, i - 1)
        BY <4>1
      <4>4. QED
        BY <3>2, <4>2, <4>3 DEF FlattenBody
    <3>3. QED
      BY <3>1, <3>2
  <2>3. g = [i \in 1 .. n + 1 |-> FlattenBody(seqs, g, i)]
    BY <2>2
  <2> HIDE DEF g
  <2>4. n + 1 \in Nat /\ \E h : h = [i \in 1 .. n + 1 |-> FlattenBody(seqs, h, i)]
    BY <2>3
  <2>5. QED
    BY <2>4
<1>3. Nat \subseteq S
  <2> HIDE DEF S
  <2>1. QED
    BY <1>1, <1>2, InductionOverNat
<1>4. QED
  BY <1>3

\* So the one that FlattenSeq chooses satisfies it.
LEMMA FlattenIsPrefixes ==
  ASSUME NEW seqs, Len(seqs) \in Nat \ {0}
  PROVE  \E flat : /\ flat = [i \in 1 .. Len(seqs) |-> FlattenBody(seqs, flat, i)]
                   /\ FlattenSeq(seqs) = flat[Len(seqs)]
<1> DEFINE P(f) == f = [i \in 1 .. Len(seqs) |-> FlattenBody(seqs, f, i)]
           flat == CHOOSE f : P(f)
<1>1. FlattenSeq(seqs) = flat[Len(seqs)]
  BY DEF FlattenSeq, FlattenBody
<1>2. \E f : P(f)
  BY FlattenExists
<1>3. P(flat)
  <2> HIDE DEF P
  <2>1. QED
    BY <1>2
<1>4. QED
  BY <1>1, <1>3

\* FlattenSeq puts the sequences behind each other, beginning with none.
LEMMA FlattenHasPrefixes ==
  ASSUME NEW S, NEW seqs \in Seq(Seq(S))
  PROVE  \E prefix \in [0 .. Len(seqs) -> Seq(S)] :
           /\ prefix[0] = <<>> /\ FlattenSeq(seqs) = prefix[Len(seqs)]
           /\ \A n \in 1 .. Len(seqs) : prefix[n] = prefix[n - 1] \o seqs[n]
<1>1. CASE Len(seqs) = 0
  <2>1. seqs = <<>> /\ FlattenSeq(seqs) = <<>>
    BY <1>1 DEF FlattenSeq
  <2> DEFINE prefix == [n \in 0 .. Len(seqs) |-> <<>>]
  <2>2. /\ prefix \in [0 .. Len(seqs) -> Seq(S)] /\ prefix[0] = <<>>
        /\ prefix[Len(seqs)] = <<>> /\ 1 .. Len(seqs) = {}
    BY <1>1
  <2> HIDE DEF prefix
  <2>3. QED
    BY <2>1, <2>2
<1>2. CASE Len(seqs) # 0
  <2> DEFINE len == Len(seqs)
  <2>1. len \in Nat \ {0}
    BY <1>2
  <2>2. PICK flat : /\ flat = [i \in 1 .. len |-> FlattenBody(seqs, flat, i)]
                    /\ FlattenSeq(seqs) = flat[len]
    BY <2>1, FlattenIsPrefixes
  <2>3. \A n \in 1 .. len : seqs[n] \in Seq(S)
    BY <2>1
  <2> HIDE DEF len
  <2> DEFINE prefix == [n \in 0 .. len |-> IF n = 0 THEN <<>> ELSE flat[n]]
             Reached(n) == n <= len => prefix[n] \in Seq(S)
             T == {n \in Nat : Reached(n)}
  <2>4. \A n \in 1 .. len : prefix[n] = prefix[n - 1] \o seqs[n]
    <3> TAKE n \in 1 .. len
    <3>1. n \in Nat /\ n # 0 /\ n \in 0 .. len /\ n - 1 \in 0 .. len
      BY <2>1
    <3>2. prefix[n] = FlattenBody(seqs, flat, n)
      BY <2>2, <3>1
    <3>3. CASE n = 1
      BY <3>1, <2>3, <3>2, <3>3 DEF FlattenBody
    <3>4. CASE n # 1
      <4>1. n - 1 # 0 /\ prefix[n - 1] = flat[n - 1]
        BY <3>1, <3>4
      <4>2. FlattenBody(seqs, flat, n) = flat[n - 1] \o seqs[n]
        BY <3>4 DEF FlattenBody
      <4>3. QED
        BY <3>2, <4>1, <4>2
    <3>5. QED
      BY <3>3, <3>4
  <2>5. prefix[0] = <<>> /\ prefix[len] = flat[len]
    BY <2>1
  <2>6. prefix = [n \in 0 .. len |-> prefix[n]]
    OBVIOUS
  <2> HIDE DEF prefix
  <2>7. 0 \in T
    BY <2>5, EmptySeq
  <2>8. ASSUME NEW n \in Nat, n \in T
        PROVE  n + 1 \in T
    <3>1. CASE n + 1 <= len
      <4>1. n <= len /\ n + 1 \in 1 .. len /\ (n + 1) - 1 = n
        BY <2>1, <3>1
      <4>2. prefix[n] \in Seq(S) /\ seqs[n + 1] \in Seq(S)
        BY <2>3, <2>8, <4>1
      <4>3. prefix[n + 1] = prefix[n] \o seqs[n + 1]
        BY <2>4, <4>1
      <4>4. prefix[n + 1] \in Seq(S)
        BY <4>2, <4>3
      <4>5. QED
        BY <4>4
    <3>2. QED
      BY <3>1
  <2>9. Nat \subseteq T
    <3> HIDE DEF T
    <3>1. QED
      BY <2>7, <2>8, InductionOverNat
  <2>10. prefix \in [0 .. len -> Seq(S)]
    <3>1. \A n \in 0 .. len : prefix[n] \in Seq(S)
      BY <2>1, <2>9
    <3>2. QED
      BY <2>6, <3>1
  <2>11. QED
    BY <2>2, <2>4, <2>5, <2>10 DEF len
<1>3. QED
  BY <1>1, <1>2

\* Each part of the way is the beginning of the whole.
LEMMA PrefixesAgree ==
  ASSUME NEW S, NEW seqs \in Seq(Seq(S)), NEW prefix \in [0 .. Len(seqs) -> Seq(S)],
         \A n \in 1 .. Len(seqs) : prefix[n] = prefix[n - 1] \o seqs[n],
         NEW n \in 0 .. Len(seqs)
  PROVE  /\ Len(prefix[n]) <= Len(prefix[Len(seqs)])
         /\ \A j \in 1 .. Len(prefix[n]) : prefix[Len(seqs)][j] = prefix[n][j]
<1> DEFINE len == Len(seqs)
           Agree(m) == /\ Len(prefix[n]) <= Len(prefix[m])
                       /\ \A j \in 1 .. Len(prefix[n]) : prefix[m][j] = prefix[n][j]
           T == {k \in Nat : n + k <= len => Agree(n + k)}
<1>1. 0 \in T
  OBVIOUS
<1>2. ASSUME NEW k \in Nat, k \in T
      PROVE  k + 1 \in T
  <2>1. SUFFICES ASSUME n + k + 1 <= len
                 PROVE  Agree(n + k + 1)
    OBVIOUS
  <2> DEFINE m == n + k
  <2>2. /\ m \in 0 .. len /\ m + 1 \in 1 .. len /\ Agree(m)
        /\ (m + 1) - 1 = m
    BY <1>2, <2>1
  <2>3. \A i \in 1 .. len : seqs[i] \in Seq(S)
    OBVIOUS
  <2>4. prefix[m] \in Seq(S) /\ seqs[m + 1] \in Seq(S) /\ prefix[n] \in Seq(S)
    BY <2>2, <2>3
  <2>5. prefix[m + 1] = prefix[m] \o seqs[m + 1]
    BY <2>2
  <2> HIDE DEF m
  <2>6. Agree(m + 1)
    BY <2>2, <2>4, <2>5
  <2>7. QED
    BY <2>6 DEF m
<1>3. Nat \subseteq T
  <2> HIDE DEF T
  <2>1. QED
    BY <1>1, <1>2, InductionOverNat
<1>4. len - n \in Nat /\ n + (len - n) = len
  OBVIOUS
<1>5. len - n \in T
  BY <1>3, <1>4
<1>6. Agree(len)
  BY <1>4, <1>5
<1>7. QED
  BY <1>6

\* What ReadFrom says of the text from position i on.
ReadBody(json, f, i) ==
  IF i >= Len(json) THEN <<>> ELSE <<CharacterAt(json, i)[1]>> \o f[CharacterAt(json, i)[2]]

\* A character is at most six long.
LEMMA NextCharacter ==
  ASSUME NEW json, Len(json) \in Nat, NEW i \in 2 .. Len(json) - 1
  PROVE  CharacterAt(json, i)[2] \in i + 1 .. Len(json) + 5
BY DEF CharacterAt

\* There is a function that satisfies the equation of ReadFrom: it is found from
\* the closing quote backwards, for the next character is always further on.
LEMMA ReadExists ==
  ASSUME NEW json, Len(json) \in Nat, Len(json) >= 2,
         \A i \in 2 .. Len(json) - 1 : CharacterAt(json, i)[2] \in i + 1 .. Len(json) + 5
  PROVE  \E f : f = [i \in 2 .. Len(json) + 5 |-> ReadBody(json, f, i)]
<1> DEFINE len == Len(json)
           From(n) == {i \in 2 .. len + 5 : i + n >= len}
           S == {n \in Nat : \E f : f = [i \in From(n) |-> ReadBody(json, f, i)]}
<1>1. 0 \in S
  <2> DEFINE f == [i \in From(0) |-> <<>>]
  <2>1. \A i \in From(0) : ReadBody(json, f, i) = <<>>
    BY DEF ReadBody
  <2>2. f = [i \in From(0) |-> ReadBody(json, f, i)]
    BY <2>1
  <2> HIDE DEF f
  <2>3. \E h : h = [i \in From(0) |-> ReadBody(json, h, i)]
    BY <2>2
  <2>4. QED
    BY <2>3
<1>2. ASSUME NEW n \in Nat, n \in S
      PROVE  n + 1 \in S
  <2>1. PICK f : f = [i \in From(n) |-> ReadBody(json, f, i)]
    BY <1>2
  <2> DEFINE g == [i \in From(n + 1) |-> ReadBody(json, f, i)]
  <2>2. \A i \in From(n + 1) : ReadBody(json, f, i) = ReadBody(json, g, i)
    <3> TAKE i \in From(n + 1)
    <3>1. CASE i >= len
      BY <3>1 DEF ReadBody
    <3>2. CASE ~ (i >= len)
      <4> DEFINE next == CharacterAt(json, i)[2]
      <4>1. next \in i + 1 .. len + 5
        BY <3>2
      <4> HIDE DEF next
      <4>2. next \in From(n) /\ next \in From(n + 1)
        BY <4>1, <3>2
      <4>3. f[next] = ReadBody(json, f, next)
        BY <2>1, <4>2
      <4>4. g[next] = ReadBody(json, f, next)
        BY <4>2
      <4>5. QED
        BY <3>2, <4>3, <4>4 DEF ReadBody, next
    <3>3. QED
      BY <3>1, <3>2
  <2>3. g = [i \in From(n + 1) |-> ReadBody(json, g, i)]
    BY <2>2
  <2> HIDE DEF g
  <2>4. n + 1 \in Nat
    OBVIOUS
  <2>5. QED
    BY <2>3, <2>4, Zenon
<1>3. Nat \subseteq S
  <2> HIDE DEF S
  <2>1. QED
    BY <1>1, <1>2, InductionOverNat
<1>4. len \in S
  BY <1>3
<1>5. From(len) = 2 .. len + 5
  OBVIOUS
<1>6. QED
  BY <1>4, <1>5

\* So the one that ReadFrom chooses satisfies it.
LEMMA ReadUnfolds ==
  ASSUME NEW json, Len(json) \in Nat, Len(json) >= 2,
         \A i \in 2 .. Len(json) - 1 : CharacterAt(json, i)[2] \in i + 1 .. Len(json) + 5
  PROVE  \E read : /\ read = [i \in 2 .. Len(json) + 5 |-> ReadBody(json, read, i)]
                   /\ ReadFrom(json) = read[2]
<1> DEFINE P(f) == f = [i \in 2 .. Len(json) + 5 |-> ReadBody(json, f, i)]
           read == CHOOSE f : P(f)
<1>1. ReadFrom(json) = read[2]
  BY DEF ReadFrom, ReadBody
<1>2. \E f : P(f)
  BY ReadExists
<1>3. P(read)
  <2> HIDE DEF P
  <2>1. QED
    BY <1>2
<1>4. QED
  BY <1>1, <1>3

-----------------------------------------------------------------------------
(* One character of a JSON string *)

\* The table of the reader, entry by entry.
LEMMA NamedEscapes ==
  /\ DOMAIN NamedEscape = {34, 92, 110, 114, 116}
  /\ NamedEscape[34] = 34 /\ NamedEscape[92] = 92 /\ NamedEscape[110] = 10
  /\ NamedEscape[114] = 13 /\ NamedEscape[116] = 9
<1> DEFINE Cases(c) == CASE c = 110 -> 10 [] c = 114 -> 13 [] c = 116 -> 9 [] c \in {34, 92} -> c
<1>1. NamedEscape = [c \in {34, 92, 110, 114, 116} |-> Cases(c)]
  BY DEF NamedEscape, Quote, Backslash
<1>2. Cases(34) = 34 /\ Cases(92) = 92 /\ Cases(110) = 10 /\ Cases(114) = 13 /\ Cases(116) = 9
  OBVIOUS
<1> HIDE DEF Cases
<1>3. QED
  BY <1>1, <1>2

\* A reader that stands on an escape or on a plain character.
LEMMA CharacterCases ==
  ASSUME NEW json, Len(json) \in Nat, NEW i \in Nat
  PROVE  /\ i < Len(json) /\ json[i] = 92 /\ json[i + 1] \in {34, 92, 110, 114, 116} =>
              CharacterAt(json, i) = <<NamedEscape[json[i + 1]], i + 2>>
         /\ i + 5 < Len(json) /\ json[i] = 92 /\ json[i + 1] = 117 =>
              CharacterAt(json, i)
                = <<16 * HexValue(json[i + 4]) + HexValue(json[i + 5]), i + 6>>
         /\ json[i] \in Nat /\ json[i] >= 32 /\ json[i] \notin {34, 92} =>
              CharacterAt(json, i) = <<json[i], i + 1>>
<1>1. CASE i < Len(json) /\ json[i] = 92 /\ json[i + 1] \in {34, 92, 110, 114, 116}
  <2> DEFINE named == i < Len(json) /\ json[i] = Backslash /\ json[i + 1] \in DOMAIN NamedEscape
             coded == i + 5 < Len(json) /\ json[i] = Backslash /\ json[i + 1] = 117
             plain == json[i] >= 32 /\ json[i] \notin {Quote, Backslash}
  <2>1. named /\ ~coded /\ ~plain
    BY <1>1, NamedEscapes DEF Quote, Backslash
  <2>2. CharacterAt(json, i)
          = CASE named -> <<NamedEscape[json[i + 1]], i + 2>>
              [] coded -> <<16 * HexValue(json[i + 4]) + HexValue(json[i + 5]), i + 6>>
              [] plain -> <<json[i], i + 1>>
              [] ~(named \/ coded \/ plain) -> <<-1, i + 1>>
    BY Zenon DEF CharacterAt
  <2> HIDE DEF named, coded, plain
  <2>3. CharacterAt(json, i) = <<NamedEscape[json[i + 1]], i + 2>>
    BY <2>1, <2>2, Zenon
  <2>4. QED
    BY <1>1, <2>3
<1>2. CASE i + 5 < Len(json) /\ json[i] = 92 /\ json[i + 1] = 117
  BY <1>2, NamedEscapes DEF CharacterAt, Quote, Backslash
<1>3. CASE json[i] \in Nat /\ json[i] >= 32 /\ json[i] \notin {34, 92}
  BY <1>3, NamedEscapes DEF CharacterAt, Quote, Backslash
<1>4. QED
  BY <1>1, <1>2, <1>3

\* The branches of write_json_string.
LEMMA EscapedCases ==
  ASSUME NEW c \in Nat
  PROVE  /\ c = 34 => Escaped(c) = <<92, 34>>
         /\ c = 92 => Escaped(c) = <<92, 92>>
         /\ c = 10 => Escaped(c) = <<92, 110>>
         /\ c = 13 => Escaped(c) = <<92, 114>>
         /\ c = 9  => Escaped(c) = <<92, 116>>
         /\ IsControl(c) /\ c \notin {9, 10, 13} =>
              Escaped(c) = <<92, 117, 48, 48, HexDigit(c \div 16), HexDigit(c % 16)>>
         /\ ~IsControl(c) /\ c \notin {34, 92} => Escaped(c) = <<c>>
BY DEF Escaped, IsControl, Quote, Backslash

\* The two digits of a control character are its code.
LEMMA HexReadsBack ==
  ASSUME NEW c \in Nat, IsControl(c)
  PROVE  16 * HexValue(HexDigit(c \div 16)) + HexValue(HexDigit(c % 16)) = c
<1>1. c \div 16 \in 0 .. 9 /\ c % 16 \in 0 .. 15 /\ 16 * (c \div 16) + (c % 16) = c
  BY DEF IsControl
<1>2. \A n \in 0 .. 15 : HexValue(HexDigit(n)) = n
  BY DEF HexValue, HexDigit
<1>3. QED
  BY <1>1, <1>2

\* Where a character is written, the reader finds it and goes to the next one.
LEMMA EscapedReadsBack ==
  ASSUME NEW c \in Nat, NEW json, Len(json) \in Nat, NEW i \in Nat,
         i + Len(Escaped(c)) <= Len(json),
         \A j \in 1 .. Len(Escaped(c)) : json[i + j - 1] = Escaped(c)[j]
  PROVE  CharacterAt(json, i) = <<c, i + Len(Escaped(c))>>
<1>1. ASSUME NEW d, Escaped(c) = <<92, d>>, d \in {34, 92, 110, 114, 116}, NamedEscape[d] = c
      PROVE  CharacterAt(json, i) = <<c, i + Len(Escaped(c))>>
  <2>1. Len(Escaped(c)) = 2 /\ json[i] = 92 /\ json[i + 1] = d
    BY <1>1
  <2>2. QED
    BY <1>1, <2>1, CharacterCases
<1>2. CASE c \in {34, 92, 10, 13, 9}
  BY <1>1, <1>2, EscapedCases, NamedEscapes
<1>3. CASE IsControl(c) /\ c \notin {9, 10, 13}
  <2> DEFINE high == HexDigit(c \div 16)
             low == HexDigit(c % 16)
  <2>1. Escaped(c) = <<92, 117, 48, 48, high, low>>
    BY <1>3, EscapedCases
  <2> HIDE DEF high, low
  <2>2. /\ Len(Escaped(c)) = 6 /\ json[i] = 92 /\ json[i + 1] = 117
        /\ json[i + 4] = high /\ json[i + 5] = low
    BY <2>1
  <2>3. 16 * HexValue(high) + HexValue(low) = c
    BY <1>3, HexReadsBack DEF high, low
  <2>4. i + 5 < Len(json)
    BY <2>2
  <2>5. CharacterAt(json, i)
          = <<16 * HexValue(json[i + 4]) + HexValue(json[i + 5]), i + 6>>
    BY <2>2, <2>4, CharacterCases
  <2>6. QED
    BY <2>2, <2>3, <2>5
<1>4. CASE ~IsControl(c) /\ c \notin {34, 92}
  <2>1. Escaped(c) = <<c>> /\ c >= 32
    BY <1>4, EscapedCases DEF IsControl
  <2>2. Len(Escaped(c)) = 1 /\ json[i] = c
    BY <2>1
  <2>3. QED
    BY <1>4, <2>1, <2>2, CharacterCases
<1>5. QED
  BY <1>2, <1>3, <1>4 DEF IsControl

\* A character is written as at least one.
LEMMA EscapedIsText ==
  ASSUME NEW c \in Nat
  PROVE  Escaped(c) \in Seq(Nat) /\ Len(Escaped(c)) >= 1
<1>1. CASE c \in {34, 92, 10, 13, 9}
  <2>1. \E d \in Nat : Escaped(c) = <<92, d>>
    BY <1>1, EscapedCases
  <2>2. QED
    BY <2>1
<1>2. CASE IsControl(c) /\ c \notin {9, 10, 13}
  <2> DEFINE high == HexDigit(c \div 16)
             low == HexDigit(c % 16)
  <2>1. high \in Nat /\ low \in Nat
    BY <1>2 DEF HexDigit, IsControl
  <2>2. Escaped(c) = <<92, 117, 48, 48, high, low>>
    BY <1>2, EscapedCases
  <2> HIDE DEF high, low
  <2>3. QED
    BY <2>1, <2>2
<1>3. CASE ~IsControl(c) /\ c \notin {34, 92}
  <2>1. Escaped(c) = <<c>>
    BY <1>3, EscapedCases
  <2>2. QED
    BY <2>1
<1>4. QED
  BY <1>1, <1>2, <1>3 DEF IsControl

-----------------------------------------------------------------------------
(* A whole JSON string *)

\* Where the second of two sequences is in the whole.
LEMMA SecondPart ==
  ASSUME NEW S, NEW s \in Seq(S), NEW t \in Seq(S), NEW u, u = s \o t
  PROVE  /\ Len(s) \in Nat /\ Len(t) \in Nat /\ Len(u) = Len(s) + Len(t)
         /\ \A j \in 1 .. Len(t) : Len(s) + j \in 1 .. Len(u) /\ u[Len(s) + j] = t[j]
OBVIOUS

\* The string is the escaped characters one after the other between quotes:
\* `start' says where each of them begins.
LEMMA StringIsWritten ==
  ASSUME NEW text \in Seq(Nat)
  PROVE  LET json == JsonString(text)
         IN  /\ json \in Seq(Nat) /\ Len(json) >= 2
             /\ \E start \in [0 .. Len(text) -> Nat \ {0, 1}] :
                  /\ start[0] = 2 /\ start[Len(text)] = Len(json)
                  /\ \A n \in 1 .. Len(text) :
                       LET c == Escaped(text[n])
                       IN  /\ Len(c) >= 1 /\ start[n] = start[n - 1] + Len(c) /\ start[n] <= Len(json)
                           /\ \A j \in 1 .. Len(c) : json[start[n - 1] + j - 1] = c[j]
<1> DEFINE seqs == [i \in 1 .. Len(text) |-> Escaped(text[i])]
           len == Len(text)
           flat == FlattenSeq(seqs)
           json == JsonString(text)
<1>1. len \in Nat /\ \A n \in 1 .. len : text[n] \in Nat
  OBVIOUS
<1>2. \A n \in 1 .. len : Escaped(text[n]) \in Seq(Nat) /\ Len(Escaped(text[n])) >= 1
  BY <1>1, EscapedIsText
<1>3. seqs \in Seq(Seq(Nat))
  BY <1>1, <1>2
<1>4. Len(seqs) = len
  BY <1>1
<1>5. \A n \in 1 .. len : seqs[n] = Escaped(text[n])
  OBVIOUS
<1>6. /\ seqs \in Seq(Seq(Nat)) /\ Len(seqs) = len
      /\ \A n \in 1 .. len : seqs[n] = Escaped(text[n])
  BY <1>3, <1>4, <1>5
<1>7. json = <<34>> \o flat \o <<34>>
  BY DEF JsonString, Quote
<1> HIDE DEF seqs, len, json
<1>8. PICK prefix \in [0 .. len -> Seq(Nat)] :
        /\ prefix[0] = <<>> /\ flat = prefix[len]
        /\ \A n \in 1 .. len : prefix[n] = prefix[n - 1] \o seqs[n]
  BY <1>6, FlattenHasPrefixes
<1> HIDE DEF flat
<1>9. flat \in Seq(Nat)
  BY <1>1, <1>8
<1>10. /\ json \in Seq(Nat) /\ Len(json) = Len(flat) + 2
      /\ \A j \in 1 .. Len(flat) : json[1 + j] = flat[j]
  BY <1>7, <1>9
<1> DEFINE start == [n \in 0 .. len |-> 2 + Len(prefix[n])]
<1>11. start \in [0 .. len -> Nat \ {0, 1}] /\ start[0] = 2 /\ start[len] = Len(json)
  BY <1>1, <1>8, <1>9, <1>10
<1>12. ASSUME NEW n \in 1 .. len
      PROVE  /\ start[n] = start[n - 1] + Len(seqs[n]) /\ start[n] <= Len(json)
             /\ \A j \in 1 .. Len(seqs[n]) : json[start[n - 1] + j - 1] = seqs[n][j]
  <2>1. n \in 0 .. len /\ n - 1 \in 0 .. len
    BY <1>1
  <2>2. PICK s, t, u : s = prefix[n - 1] /\ t = seqs[n] /\ u = prefix[n]
    OBVIOUS
  <2>3. /\ u \in Seq(Nat) /\ s \in Seq(Nat) /\ t \in Seq(Nat)
        /\ u = s \o t
    BY <1>1, <1>6, <1>8, <2>1, <2>2, EscapedIsText
  <2>4. start[n] = 2 + Len(u) /\ start[n - 1] = 2 + Len(s)
    BY <2>1, <2>2
  <2> HIDE DEF start
  <2>5. /\ Len(u) <= Len(flat)
        /\ \A j \in 1 .. Len(u) : flat[j] = u[j]
    <3>1. n \in 0 .. Len(seqs) /\ prefix \in [0 .. Len(seqs) -> Seq(Nat)]
      BY <1>6, <1>8, <2>1
    <3>2. \A i \in 1 .. Len(seqs) : prefix[i] = prefix[i - 1] \o seqs[i]
      BY <1>6, <1>8
    <3>3. seqs \in Seq(Seq(Nat)) /\ flat = prefix[Len(seqs)]
      BY <1>6, <1>8
    <3>4. /\ Len(prefix[n]) <= Len(prefix[Len(seqs)])
          /\ \A j \in 1 .. Len(prefix[n]) : prefix[Len(seqs)][j] = prefix[n][j]
      BY <3>1, <3>2, <3>3, PrefixesAgree, Zenon
    <3>5. QED
      BY <2>2, <3>3, <3>4
  <2>6. /\ Len(s) \in Nat /\ Len(t) \in Nat /\ Len(u) = Len(s) + Len(t)
        /\ \A j \in 1 .. Len(t) : Len(s) + j \in 1 .. Len(u) /\ u[Len(s) + j] = t[j]
    BY <2>3, SecondPart
  <2>7. PICK lenS, lenT, lenU, lenFlat \in Nat :
          lenS = Len(s) /\ lenT = Len(t) /\ lenU = Len(u) /\ lenFlat = Len(flat)
    BY <1>9, <2>3
  <2>8. start[n] = start[n - 1] + Len(t) /\ start[n] <= Len(json)
    BY <1>10, <2>4, <2>5, <2>6, <2>7
  <2>9. ASSUME NEW j \in 1 .. Len(t)
        PROVE  json[start[n - 1] + j - 1] = t[j]
    <3>1. PICK k : k = lenS + j
      OBVIOUS
    <3>2. k \in 1 .. lenU /\ u[k] = t[j]
      BY <2>6, <2>7, <3>1
    <3>3. k \in 1 .. lenFlat
      BY <2>5, <2>7, <3>2
    <3>4. flat[k] = t[j]
      BY <2>5, <2>7, <3>2
    <3>5. start[n - 1] + j - 1 = 1 + k
      BY <2>4, <2>6, <2>7, <3>1
    <3>6. QED
      BY <1>10, <2>7, <3>3, <3>4, <3>5
  <2>10. QED
    BY <2>2, <2>8, <2>9
<1> HIDE DEF start
<1>13. /\ json \in Seq(Nat) /\ Len(json) >= 2
  BY <1>9, <1>10
<1>14. QED
  <2>1. \A n \in 1 .. len :
          LET c == Escaped(text[n])
          IN  /\ Len(c) >= 1 /\ start[n] = start[n - 1] + Len(c) /\ start[n] <= Len(json)
              /\ \A j \in 1 .. Len(c) : json[start[n - 1] + j - 1] = c[j]
    <3> TAKE n \in 1 .. len
    <3>1. PICK c : c = Escaped(text[n]) /\ c = seqs[n]
      BY <1>6
    <3>2. Len(c) >= 1
      BY <1>2, <3>1
    <3>3. /\ start[n] = start[n - 1] + Len(c) /\ start[n] <= Len(json)
          /\ \A j \in 1 .. Len(c) : json[start[n - 1] + j - 1] = c[j]
      BY <1>12, <3>1
    <3>4. QED
      BY <3>1, <3>2, <3>3, Zenon
  <2>2. QED
    BY <1>11, <1>13, <2>1 DEF len, json

\* What write_json_string makes of a text, of any length and of any characters,
\* reads back as that text.
THEOREM TextReadsBack ==
  ASSUME NEW text \in Seq(Nat)
  PROVE  ReadFrom(JsonString(text)) = text
<1> DEFINE len == Len(text)
           json == JsonString(text)
<1>1. len \in Nat /\ \A n \in 1 .. len : text[n] \in Nat
  OBVIOUS
<1>2. json \in Seq(Nat) /\ Len(json) >= 2 /\ Len(json) \in Nat
  BY StringIsWritten
<1>3. PICK start \in [0 .. len -> Nat \ {0, 1}] :
        /\ start[0] = 2 /\ start[len] = Len(json)
        /\ \A n \in 1 .. len :
             LET c == Escaped(text[n])
             IN  /\ Len(c) >= 1 /\ start[n] = start[n - 1] + Len(c) /\ start[n] <= Len(json)
                 /\ \A j \in 1 .. Len(c) : json[start[n - 1] + j - 1] = c[j]
  BY StringIsWritten
<1> HIDE DEF json, len
<1>4. \A i \in 2 .. Len(json) - 1 : CharacterAt(json, i)[2] \in i + 1 .. Len(json) + 5
  BY <1>2, NextCharacter
<1>5. PICK read : /\ read = [i \in 2 .. Len(json) + 5 |-> ReadBody(json, read, i)]
                  /\ ReadFrom(json) = read[2]
  BY <1>2, <1>4, ReadUnfolds, Zenon
<1> DEFINE S == {k \in Nat : k <= len => read[start[len - k]] = SubSeq(text, len - k + 1, len)}
<1>6. 0 \in S
  <2>1. read[Len(json)] = <<>>
    BY <1>2, <1>5 DEF ReadBody
  <2>2. SubSeq(text, len + 1, len) = <<>>
    BY <1>1 DEF len
  <2>3. len - 0 = len /\ len - 0 + 1 = len + 1
    BY <1>1
  <2>4. QED
    BY <1>3, <2>1, <2>2, <2>3
<1>7. ASSUME NEW k \in Nat, k \in S
      PROVE  k + 1 \in S
  <2>1. SUFFICES ASSUME k + 1 <= len
                 PROVE  read[start[len - (k + 1)]] = SubSeq(text, len - (k + 1) + 1, len)
    OBVIOUS
  <2> DEFINE n == len - k
             c == Escaped(text[n])
  <2>2. n \in 1 .. len /\ n \in 0 .. len /\ n - 1 \in 0 .. len /\ len - (k + 1) = n - 1
    BY <1>1, <2>1
  <2>3. read[start[n]] = SubSeq(text, n + 1, len)
    BY <1>1, <1>7, <2>1
  <2> HIDE DEF n
  <2>4. /\ text[n] \in Nat /\ c \in Seq(Nat) /\ Len(c) \in Nat
        /\ start[n] \in Nat /\ start[n - 1] \in Nat /\ start[n - 1] >= 2
    <3>1. text[n] \in Nat
      BY <1>1, <2>2
    <3>2. c \in Seq(Nat)
      BY <3>1, EscapedIsText
    <3> HIDE DEF c
    <3>3. Len(c) \in Nat
      BY <3>2
    <3>4. start[n] \in Nat \ {0, 1} /\ start[n - 1] \in Nat \ {0, 1}
      BY <1>3, <2>2
    <3>5. \A m \in Nat \ {0, 1} : m >= 2
      OBVIOUS
    <3>6. start[n] \in Nat /\ start[n - 1] \in Nat /\ start[n - 1] >= 2
      BY <3>4, <3>5, Zenon
    <3>7. QED
      BY <3>1, <3>2, <3>3, <3>6
  <2>5. /\ Len(c) >= 1 /\ start[n] = start[n - 1] + Len(c) /\ start[n] <= Len(json)
        /\ \A j \in 1 .. Len(c) : json[start[n - 1] + j - 1] = c[j]
    BY <1>3, <2>2
  <2>6. CharacterAt(json, start[n - 1]) = <<text[n], start[n]>>
    <3>1. start[n - 1] + Len(c) <= Len(json)
      BY <2>5
    <3>2. CharacterAt(json, start[n - 1]) = <<text[n], start[n - 1] + Len(c)>>
      BY <1>2, <2>4, <2>5, <3>1, EscapedReadsBack
    <3>3. QED
      BY <2>5, <3>2
  <2>7. start[n - 1] \in 2 .. Len(json) + 5 /\ ~ (start[n - 1] >= Len(json))
    <3>1. Len(json) \in Nat
      BY <1>2
    <3>2. start[n - 1] + Len(c) <= Len(json)
      BY <2>5
    <3>3. QED
      BY <2>4, <2>5, <3>1, <3>2
  <2>8. read[start[n - 1]] = <<text[n]>> \o read[start[n]]
    <3>1. read[start[n - 1]] = ReadBody(json, read, start[n - 1])
      BY <1>5, <2>7
    <3>2. QED
      BY <2>6, <2>7, <3>1 DEF ReadBody
  <2>9. <<text[n]>> \o SubSeq(text, n + 1, len) = SubSeq(text, n, len)
    BY <1>1, <2>2 DEF len
  <2>10. len - (k + 1) + 1 = n
    BY <1>1, <2>2
  <2>11. QED
    BY <2>2, <2>3, <2>8, <2>9, <2>10
<1>8. Nat \subseteq S
  <2> HIDE DEF S
  <2>1. QED
    BY <1>6, <1>7, InductionOverNat
<1>9. len - len = 0 /\ len - len + 1 = 1
  BY <1>1
<1>10. read[start[0]] = SubSeq(text, 1, len)
  <2>1. len \in S
    BY <1>1, <1>8, Zenon
  <2>2. len <= len
    BY <1>1
  <2>3. read[start[len - len]] = SubSeq(text, len - len + 1, len)
    BY <2>1, <2>2, Zenon
  <2>4. QED
    BY <1>9, <2>3, Zenon
<1>11. SubSeq(text, 1, len) = text
  BY SubSeqFull DEF len
<1>12. ReadFrom(json) = text
  BY <1>3, <1>5, <1>10, <1>11
<1>13. QED
  BY <1>12 DEF json

-----------------------------------------------------------------------------
(* Theorems *)

\* What the constructors return and refuse, put together in any order, is an
\* invariant of every application.
THEOREM ValuesInvHolds == ValuesSpec => []ValuesInv
<1>1. ValuesInit => ValuesInv
  BY NothingIsValid DEF ValuesInit
<1>2. QED
  BY <1>1, StepKeepsInv, PTL DEF ValuesSpec

\* Every request the constructors of ble.rs, sle.rs and wifi.rs let through is
\* valid as a whole, and every one they refuse is not, for all arguments; but
\* for a passphrase that has bytes beyond ASCII.
THEOREM RequestsAreSound == ValuesSpec => []RequestsAreValid
<1>1. ValuesInv => RequestsAreValid
  BY DEF ValuesInv
<1>2. QED
  BY <1>1, ValuesInvHolds, PTL

\* What try_from_ascii is handed decides: an application whose passphrases are
\* ASCII holds none that is not 8 to 63 bytes of printable ASCII, as wifi.rs:149
\* has it, and no other request that is not valid.
HeldRequestsFit == \A value \in ToSet(parts) : IsRequest(value) => Fits(value)

THEOREM AsciiRequestsFit ==
  ASSUME PassphraseBytes \subseteq Seq(0 .. 127)
  PROVE  ValuesSpec => []HeldRequestsFit
<1> DEFINE Ascii == 0 .. 127
<1>1. PassphraseBytes \subseteq Seq(Ascii)
  OBVIOUS
<1>2. Ascii \cap (128 .. 255) = {}
  OBVIOUS
<1> HIDE DEF Ascii
<1>3. ASSUME NEW bytes \in Seq(Ascii)
      PROVE  ToSet(bytes) \subseteq Ascii
  <2>1. \A i \in 1 .. Len(bytes) : bytes[i] \in Ascii
    BY ElementOfSeq
  <2>2. QED
    BY <2>1, AllOfThem
<1>4. ValuesInv => HeldRequestsFit
  <2>1. SUFFICES ASSUME ValuesInv, NEW value \in ToSet(parts), IsRequest(value)
                 PROVE  Fits(value)
    BY DEF HeldRequestsFit
  <2>2. Typed(value) /\ (Fits(value) \/ IsBeyondAscii(value))
    BY <2>1, Held DEF Good
  <2>3. ASSUME IsBeyondAscii(value)
        PROVE  FALSE
    <3>1. value.bytes \in Seq(Ascii)
      BY <1>1, <2>2, <2>3 DEF Typed, IsBeyondAscii
    <3>2. ToSet(value.bytes) \subseteq Ascii
      BY <1>3, <3>1
    <3>3. ToSet(value.bytes) \cap (128 .. 255) # {}
      BY <2>3 DEF IsBeyondAscii
    <3>4. QED
      BY <1>2, <3>2, <3>3
  <2>4. QED
    BY <2>2, <2>3
<1>5. QED
  BY <1>4, ValuesInvHolds, PTL

\* A GATT or SSAP database of any size keeps what the constructors of its parts
\* promise: values have room, what is published has its configuration
\* descriptor, a property has the permissions for its operations and nothing is
\* empty.  No part that keeps it is refused.
THEOREM DatabasesAreSound == ValuesSpec => []DatabasesKeepContract
<1>1. ValuesInv => DatabasesKeepContract
  BY DEF ValuesInv
<1>2. QED
  BY <1>1, ValuesInvHolds, PTL

\* What a backend has told of an error is in the error, and in the diagnostic
\* made of it, is an invariant of every application.
THEOREM ErrorsInvHolds == ValuesSpec => []ErrorsInv
<1>1. ValuesInit => ErrorsInv
  BY NothingHeld, NoHistoryType DEF ValuesInit, ErrorsInv, DiagnosticsAreComplete
<1>2. QED
  BY <1>1, StepKeepsErrorsInv, ValuesInvHolds, PTL DEF ValuesSpec

\* A diagnostic names the class, the stage, the code and the revision of its
\* error and the first entries of its trace in order, and says whether there
\* were more, however long the trace of diagnostics.rs is.
THEOREM DiagnosticsTellAll == ValuesSpec => []DiagnosticsAreComplete
<1>1. ErrorsInv => DiagnosticsAreComplete
  BY DEF ErrorsInv
<1>2. QED
  BY <1>1, ErrorsInvHolds, PTL

\* The JSON string that a diagnostic has for the profile revision reads back
\* as the revision, whatever characters that has: nothing that a backend says
\* of an error is lost in the diagnostic made of it.
THEOREM DiagnosticsLoseNothing == ValuesSpec => []DiagnosticsAreLossless
<1>1. ErrorsInv => DiagnosticsAreLossless
  <2>1. SUFFICES ASSUME ErrorsInv
                 PROVE  DiagnosticsAreLossless
    OBVIOUS
  <2>2. DiagnosticsAreComplete /\ history \in HistoryType
    BY <2>1 DEF ErrorsInv
  <2>3. \A text \in history.revision : ReadFrom(JsonString(text)) = text
    <3>1. \A text \in history.revision : text \in Seq(Nat)
      BY <2>2, ValuesAssumption DEF HistoryType
    <3>2. QED
      BY <3>1, TextReadsBack
  <2>4. ASSUME NEW value \in ToSet(parts), value.type = "Diagnostic"
        PROVE  {ReadFrom(text) : text \in value.json.revision} = history.revision
    <3>1. IsComplete(value)
      BY <2>2, <2>4 DEF DiagnosticsAreComplete
    <3>2. value.json.revision = {JsonString(text) : text \in history.revision}
      BY <2>4, <3>1 DEF IsComplete
    <3>3. QED
      BY <2>3, <3>2
  <2>5. QED
    BY <2>2, <2>4 DEF DiagnosticsAreLossless
<1>2. QED
  BY <1>1, ErrorsInvHolds, PTL
=============================================================================
