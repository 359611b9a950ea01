------------------------- MODULE ProtocolEventsProofs -------------------------
(***************************************************************************)
(* The counters of EventState for every depth of the queue and every width *)
(* that is more than twice the depth, whatever the two sides interleave.   *)
(*                                                                         *)
(* The counters are residues, so what they account for is an equation up   *)
(* to a multiple of the modulus.  As all but `published' are bounded, the  *)
(* multiple is -1, 0 or 1 (Near), which keeps the arithmetic linear.       *)
(***************************************************************************)
EXTENDS ProtocolEvents, TLAPS

One(condition) == IF condition THEN 1 ELSE 0

\* n is d as a residue, d small.
Near(n, d) == n \in {d - Modulus, d, d + Modulus}

\* Every accepted event is consumed or pending, but for what either side has
\* done and not counted.
Balance ==
  Near(consumed + One(consumer = "taken") + pending, accepted + One(producer = "sent"))

\* Every call is counted, but for the one under way.
Calls ==
  (accepted + dropped + One(producer \in {"sent", "refused"})) % Modulus = published % Modulus

\* A side that takes a snapshot is in no other call.
Reader ==
  /\ reader = "none" <=> snapshot.at = "none"
  /\ reader = "producer" => producer = "idle"
  /\ reader = "consumer" => consumer = "idle"

\* The side that reads keeps its own counter still, and the other side can
\* move by no more than the queue holds or has room for.
Reading ==
  /\ reader = "producer" /\ snapshot.at \in {"accepted", "consumed"} =>
       snapshot.accepted = accepted
  /\ reader = "producer" /\ snapshot.at = "consumed" =>
       \E d \in pending .. Capacity + 1 : Near(accepted - snapshot.consumed, d)
  /\ reader = "consumer" /\ snapshot.at = "accepted" =>
       \E d \in -1 .. Capacity : Near(snapshot.accepted - consumed, d)
  /\ reader = "consumer" /\ snapshot.at = "consumed" =>
       \E d \in -1 .. Capacity : Near(snapshot.accepted - snapshot.consumed, d)
  /\ snapshot.at = "pending" =>
       \E d \in -(Capacity + 1) .. Capacity + 1 :
         Near(snapshot.accepted - snapshot.consumed - snapshot.pending, d)

\* What the producer may rely on when nobody runs inside its call.
Uninterrupted ==
  ~preemptive =>
    /\ producer = "idle" \/ consumer = "idle"
    /\ peak = IF producer \in {"sent", "measure"} THEN Larger(highWater, pending) ELSE highWater

ProtocolInv == ProtocolTypeOK /\ Balance /\ Calls /\ Reader /\ Reading /\ Uninterrupted

-----------------------------------------------------------------------------
(* Residues *)

LEMMA ModulusRange ==
  /\ Capacity \in Nat \ {0} /\ Modulus \in Nat \ {0} /\ Modulus > 2 * (Capacity + 1)
  /\ MaxEvent \in Nat /\ Preemption \subseteq BOOLEAN
BY ProtocolEventsAssumption DEF ProtocolEventsAssumption

LEMMA Division ==
  ASSUME NEW x \in Nat
  PROVE  /\ x = Modulus * (x \div Modulus) + (x % Modulus)
         /\ x \div Modulus \in Int
         /\ x % Modulus \in Counter
BY ModulusRange DEF Counter

LEMMA Residue ==
  ASSUME NEW q \in Int, NEW r \in Counter
  PROVE  (Modulus * q + r) % Modulus = r
BY ModulusRange DEF Counter

\* A small number of multiples away from a residue.
LEMMA NearResidue ==
  ASSUME NEW r \in Counter
  PROVE  /\ r % Modulus = r
         /\ (r + Modulus) % Modulus = r
         /\ (r - Modulus) % Modulus = r
         /\ (r - 2 * Modulus) % Modulus = r
BY ModulusRange DEF Counter

LEMMA SuccessorResidue ==
  ASSUME NEW x \in Nat
  PROVE  (x + 1) % Modulus = IF x % Modulus = Modulus - 1 THEN 0 ELSE (x % Modulus) + 1
<1> DEFINE q == x \div Modulus
           r == x % Modulus
<1>1. q \in Int /\ r \in Counter /\ x = Modulus * q + r
  BY Division
<1> HIDE DEF q, r
<1>2. CASE r = Modulus - 1
  <2>1. x + 1 = Modulus * (q + 1) + 0
    BY <1>1, <1>2, ModulusRange
  <2>2. q + 1 \in Int /\ 0 \in Counter
    BY <1>1, ModulusRange DEF Counter
  <2>3. (x + 1) % Modulus = 0
    BY <2>1, <2>2, Residue
  <2>4. QED
    BY <1>2, <2>3 DEF r
<1>3. CASE r # Modulus - 1
  <2>1. x + 1 = Modulus * q + (r + 1)
    BY <1>1, <1>3, ModulusRange DEF Counter
  <2>2. r + 1 \in Counter
    BY <1>1, <1>3, ModulusRange DEF Counter
  <2>3. (x + 1) % Modulus = r + 1
    BY <1>1, <2>1, <2>2, Residue
  <2>4. QED
    BY <1>3, <2>3 DEF r
<1>4. QED
  BY <1>2, <1>3

\* The increment of a counter, wrapping at the modulus.
LEMMA FetchAddResult ==
  ASSUME NEW n \in Counter
  PROVE  /\ FetchAdd(n) \in Counter
         /\ FetchAdd(n) = IF n = Modulus - 1 THEN 0 ELSE n + 1
<1>1. n \in Nat /\ n % Modulus = n
  BY NearResidue, ModulusRange DEF Counter
<1>2. FetchAdd(n) = IF n = Modulus - 1 THEN 0 ELSE n + 1
  BY <1>1, SuccessorResidue DEF FetchAdd
<1>3. QED
  BY <1>2, ModulusRange DEF Counter

\* Wrapping does not change a sum as a residue.
LEMMA SumAfterFetchAdd ==
  ASSUME NEW n \in Counter, NEW m \in Nat
  PROVE  (FetchAdd(n) + m) % Modulus = (n + 1 + m) % Modulus
<1>1. CASE n = Modulus - 1
  <2>1. FetchAdd(n) + m = m
    BY <1>1, FetchAddResult
  <2>2. n + 1 + m = m + Modulus
    BY <1>1, ModulusRange
  <2>3. (m + Modulus) % Modulus = m % Modulus
    <3> DEFINE q == m \div Modulus
               r == m % Modulus
    <3>1. q \in Int /\ r \in Counter /\ m = Modulus * q + r
      BY Division
    <3> HIDE DEF q, r
    <3>2. m + Modulus = Modulus * (q + 1) + r /\ q + 1 \in Int
      BY <3>1, ModulusRange DEF Counter
    <3>3. (m + Modulus) % Modulus = r
      BY <3>1, <3>2, Residue
    <3>4. QED
      BY <3>3 DEF r
  <2>4. QED
    BY <2>1, <2>2, <2>3
<1>2. CASE n # Modulus - 1
  <2>1. FetchAdd(n) + m = n + 1 + m
    BY <1>2, FetchAddResult
  <2>2. QED
    BY <2>1
<1>3. QED
  BY <1>1, <1>2

\* Where a difference is small as a residue, centring the residue finds it.
LEMMA CentredResidue ==
  ASSUME NEW d \in -(Capacity + 1) .. Capacity + 1, NEW x \in Int, Near(x, d)
  PROVE  LET n == x % Modulus
         IN  (IF n > Modulus \div 2 THEN n - Modulus ELSE n) = d
<1>1. Modulus \in Nat /\ Capacity \in Nat /\ Modulus > 2 * (Capacity + 1) /\ d \in Int
  BY ModulusRange
<1>2. /\ Modulus \div 2 \in Int
      /\ 2 * (Modulus \div 2) <= Modulus
      /\ Modulus <= 2 * (Modulus \div 2) + 1
  BY <1>1
<1>3. CASE d >= 0
  <2>1. d \in Counter
    BY <1>1, <1>3 DEF Counter
  <2>2. x % Modulus = d
    BY <2>1, NearResidue DEF Near
  <2>3. ~(d > Modulus \div 2)
    BY <1>1, <1>2
  <2>4. QED
    BY <2>2, <2>3
<1>4. CASE d < 0
  <2> DEFINE r == d + Modulus
  <2>1. r \in Counter /\ r \in Int
    BY <1>1, <1>4 DEF Counter
  <2>2. x \in {r - 2 * Modulus, r - Modulus, r}
    BY <1>1 DEF Near
  <2>3. x % Modulus = r
    BY <2>1, <2>2, NearResidue
  <2>4. r > Modulus \div 2 /\ r - Modulus = d
    BY <1>1, <1>2
  <2>5. QED
    BY <2>3, <2>4
<1>5. QED
  BY <1>1, <1>3, <1>4

-----------------------------------------------------------------------------
(* The invariant *)

\* The types that the arithmetic below needs.
LEMMA Types ==
  ASSUME ProtocolTypeOK
  PROVE  /\ pending \in Nat /\ pending <= Capacity
         /\ highWater \in Nat /\ highWater <= Capacity /\ peak \in Nat /\ peak <= Capacity
         /\ accepted \in Counter /\ consumed \in Counter /\ dropped \in Counter
         /\ Counter \subseteq Nat /\ \A n \in Counter : n <= Modulus - 1
         /\ snapshot.accepted \in Counter /\ snapshot.consumed \in Counter
         /\ snapshot.pending \in Nat /\ snapshot.pending <= Capacity
         /\ published \in Nat
BY ModulusRange DEF ProtocolTypeOK, Counter

LEMMA InitEstablishesInv == ProtocolInit => ProtocolInv
<1> SUFFICES ASSUME ProtocolInit PROVE ProtocolInv
  OBVIOUS
<1> USE ModulusRange DEF ProtocolInit, Unread
<1>1. ProtocolTypeOK
  BY DEF ProtocolTypeOK, Counter
<1>2. Balance /\ Calls
  BY DEF Balance, Calls, Near, One
<1>3. Reader /\ Reading /\ Uninterrupted
  BY DEF Reader, Reading, Uninterrupted
<1>4. QED
  BY <1>1, <1>2, <1>3 DEF ProtocolInv

LEMMA TryPublishKeepsInv ==
  ASSUME ProtocolInv, TryPublish, UNCHANGED preemptive
  PROVE  ProtocolInv'
<1> USE DEF ProtocolInv, counters, reading, TryPublish
<1>1. producer = "idle" /\ reader # "producer" /\ (~preemptive => consumer = "idle")
  BY DEF ProtocolTypeOK, Busy, ProducerMayRun
<1>2. ProtocolTypeOK'
  <2>1. published' \in 0 .. MaxEvent
    BY ModulusRange DEF ProtocolTypeOK
  <2>2. {pending', highWater', peak'} \subseteq 0 .. Capacity
    BY Types, ModulusRange DEF ProtocolTypeOK, Larger
  <2>3. producer' \in {"sent", "refused"}
    OBVIOUS
  <2>4. QED
    BY <2>1, <2>2, <2>3 DEF ProtocolTypeOK
<1>3. Balance'
  BY <1>1, Types, ModulusRange DEF Balance, Near, One
<1>4. Calls'
  <2> DEFINE x == accepted + dropped
  <2>1. x \in Nat /\ published \in Nat
    BY Types
  <2>2. x % Modulus = published % Modulus
    BY <1>1, <2>1 DEF Calls, One
  <2>3. (x + 1) % Modulus = (published + 1) % Modulus
    BY <2>1, <2>2, SuccessorResidue
  <2>4. producer' \in {"sent", "refused"}
    OBVIOUS
  <2>5. QED
    BY <2>3, <2>4 DEF Calls, One
<1>5. Reader' /\ Reading'
  BY <1>1 DEF Reader, Reading, ProtocolTypeOK
<1>6. Uninterrupted'
  BY <1>1, Types DEF Uninterrupted, Larger
<1>7. QED
  BY <1>2, <1>3, <1>4, <1>5, <1>6

LEMMA CountAcceptedKeepsInv ==
  ASSUME ProtocolInv, CountAccepted, UNCHANGED preemptive
  PROVE  ProtocolInv'
<1> USE DEF ProtocolInv, reading, CountAccepted
<1>1. /\ accepted' \in Counter
      /\ accepted' = IF accepted = Modulus - 1 THEN 0 ELSE accepted + 1
  BY Types, FetchAddResult
<1>2. ProtocolTypeOK'
  BY <1>1 DEF ProtocolTypeOK
<1>3. Balance'
  <2> DEFINE x == consumed + One(consumer = "taken") + pending
  <2>1. x \in Nat /\ x < 2 * Modulus /\ x' = x
    BY Types, ModulusRange DEF One
  <2>2. x \in {(accepted + 1) - Modulus, accepted + 1, accepted + 1 + Modulus}
    BY DEF Balance, Near, One
  <2> HIDE DEF x
  <2>3. x \in {accepted' - Modulus, accepted', accepted' + Modulus}
    <3>1. accepted \in Nat /\ accepted < Modulus /\ Modulus \in Nat
      BY Types, ModulusRange
    <3>2. CASE accepted = Modulus - 1
      BY <1>1, <2>1, <2>2, <3>1, <3>2
    <3>3. CASE accepted # Modulus - 1
      BY <1>1, <2>2, <3>1, <3>3
    <3>4. QED
      BY <3>2, <3>3
  <2>4. accepted' + One((producer = "sent")') = accepted'
    BY <1>1, Types DEF One
  <2>5. QED
    BY <2>1, <2>3, <2>4 DEF Balance, Near, x
<1>4. Calls'
  <2>1. (accepted' + dropped) % Modulus = (accepted + 1 + dropped) % Modulus
    BY Types, SumAfterFetchAdd
  <2>2. accepted + 1 + dropped = accepted + dropped + 1 /\ accepted' + dropped = accepted' + dropped + 0
    <3>1. accepted \in Nat /\ dropped \in Nat /\ accepted' \in Nat
      BY <1>1, Types
    <3>2. QED
      BY <3>1
  <2>3. QED
    BY <2>1, <2>2 DEF Calls, One
<1>5. Reader' /\ Reading'
  BY DEF Reader, Reading, ProtocolTypeOK
<1>6. Uninterrupted'
  BY DEF Uninterrupted
<1>7. QED
  BY <1>2, <1>3, <1>4, <1>5, <1>6

LEMMA RecordDepthKeepsInv ==
  ASSUME ProtocolInv, RecordDepth, UNCHANGED preemptive
  PROVE  ProtocolInv'
<1> USE DEF ProtocolInv, reading, RecordDepth
<1>1. ProtocolTypeOK'
  BY Types DEF ProtocolTypeOK, Larger
<1>2. Balance' /\ Calls'
  BY DEF Balance, Near, Calls, One
<1>3. Reader' /\ Reading' /\ Uninterrupted'
  BY DEF Reader, Reading, Near, Uninterrupted, ProtocolTypeOK
<1>4. QED
  BY <1>1, <1>2, <1>3

LEMMA CountDroppedKeepsInv ==
  ASSUME ProtocolInv, CountDropped, UNCHANGED preemptive
  PROVE  ProtocolInv'
<1> USE DEF ProtocolInv, reading, CountDropped
<1>1. dropped' \in Counter
  BY Types, FetchAddResult
<1>2. ProtocolTypeOK'
  BY <1>1 DEF ProtocolTypeOK
<1>3. Balance'
  BY DEF Balance, Near, One
<1>4. Calls'
  <2>1. (dropped' + accepted) % Modulus = (dropped + 1 + accepted) % Modulus
    BY Types, SumAfterFetchAdd
  <2>2. /\ dropped + 1 + accepted = accepted + dropped + 1
        /\ dropped' + accepted = accepted + dropped' + 0
    BY <1>1, Types
  <2>3. QED
    BY <2>1, <2>2 DEF Calls, One
<1>5. Reader' /\ Reading' /\ Uninterrupted'
  BY DEF Reader, Reading, Uninterrupted, ProtocolTypeOK
<1>6. QED
  BY <1>2, <1>3, <1>4, <1>5

LEMMA NextEventKeepsInv ==
  ASSUME ProtocolInv, NextEvent, UNCHANGED preemptive
  PROVE  ProtocolInv'
<1> USE DEF ProtocolInv, counters, reading, NextEvent
<1>1. consumer = "idle" /\ reader # "consumer" /\ (~preemptive => producer = "idle")
  BY DEF ProtocolTypeOK, Busy, ConsumerMayRun
<1>2. pending \in Nat \ {0} /\ pending' \in Nat /\ pending' <= pending
  BY Types
<1>3. ProtocolTypeOK'
  BY <1>2, Types, ModulusRange DEF ProtocolTypeOK
<1>4. Balance'
  BY <1>1, <1>2, Types DEF Balance, Near, One
<1>5. Calls'
  BY DEF Calls, One
<1>6. Reader'
  BY <1>1 DEF Reader
<1>7. Reading'
  <2>1. pending .. Capacity + 1 \subseteq pending' .. Capacity + 1
    BY <1>2, ModulusRange
  <2>2. QED
    BY <1>1, <2>1 DEF Reading, Near, ProtocolTypeOK
<1>8. Uninterrupted'
  BY <1>1, Types DEF Uninterrupted
<1>9. QED
  BY <1>3, <1>4, <1>5, <1>6, <1>7, <1>8

LEMMA CountConsumedKeepsInv ==
  ASSUME ProtocolInv, CountConsumed, UNCHANGED preemptive
  PROVE  ProtocolInv'
<1> USE DEF ProtocolInv, reading, CountConsumed
<1>1. /\ consumed' \in Counter
      /\ consumed' = IF consumed = Modulus - 1 THEN 0 ELSE consumed + 1
  BY Types, FetchAddResult
<1>2. ProtocolTypeOK'
  BY <1>1 DEF ProtocolTypeOK
<1>3. Balance'
  <2> DEFINE y == accepted + One(producer = "sent")
  <2>1. y \in Nat /\ y <= Modulus /\ y' = y
    BY Types, ModulusRange DEF One
  <2>2. consumed + 1 + pending \in {y - Modulus, y, y + Modulus}
    BY DEF Balance, Near, One
  <2> HIDE DEF y
  <2>3. consumed' + 0 + pending \in {y - Modulus, y, y + Modulus}
    BY <1>1, <2>1, <2>2, Types, ModulusRange
  <2>4. QED
    BY <2>1, <2>3 DEF Balance, Near, One, y
<1>4. Calls'
  BY DEF Calls, One
<1>5. Reader' /\ Reading' /\ Uninterrupted'
  BY DEF Reader, Reading, Near, Uninterrupted, ProtocolTypeOK
<1>6. QED
  BY <1>2, <1>3, <1>4, <1>5

LEMMA ReadAcceptedKeepsInv ==
  ASSUME ProtocolInv, NEW side \in {"producer", "consumer"}, ReadAccepted(side),
         UNCHANGED preemptive
  PROVE  ProtocolInv'
<1> USE DEF ProtocolInv, counters, ReadAccepted
<1>1. /\ snapshot'.at = "accepted" /\ snapshot'.accepted = accepted
      /\ snapshot'.consumed = 0 /\ snapshot'.pending = 0
      /\ snapshot' \in [at : {"none", "accepted", "consumed", "pending"},
                        accepted : Counter, consumed : Counter, pending : 0 .. Capacity]
  <2>1. snapshot' = [at |-> "accepted", accepted |-> accepted, consumed |-> 0, pending |-> 0]
    BY DEF Unread
  <2>2. 0 \in Counter /\ 0 \in 0 .. Capacity /\ accepted \in Counter
    BY Types, ModulusRange DEF Counter
  <2>3. snapshot' \in [at : {"none", "accepted", "consumed", "pending"},
                       accepted : Counter, consumed : Counter, pending : 0 .. Capacity]
    BY <2>1, <2>2
  <2>4. snapshot'.at = "accepted" /\ snapshot'.accepted = accepted
    BY <2>1
  <2>5. /\ snapshot'.consumed = 0
        /\ snapshot'.pending = 0
    <3> HIDE DEF ReadAccepted, ProtocolInv
    <3>1. QED
      BY <2>1
  <2>6. QED
    BY <2>3, <2>4, <2>5, Zenon
<1>2. IF side = "producer" THEN producer = "idle" ELSE consumer = "idle"
  BY DEF Busy
<1>3. ProtocolTypeOK'
  BY <1>1 DEF ProtocolTypeOK
<1>4. Balance' /\ Calls' /\ Uninterrupted'
  BY DEF Balance, Near, Calls, One, Uninterrupted
<1>5. Reader'
  BY <1>1, <1>2 DEF Reader
<1>6. Reading'
  <2>1. ASSUME side = "consumer"
        PROVE  \E d \in -1 .. Capacity : Near(accepted - consumed, d)
    <3> DEFINE d == pending - One(producer = "sent")
    <3>1. d \in -1 .. Capacity
      BY Types, ModulusRange DEF One
    <3>2. Near(accepted - consumed, d)
      BY <1>2, <2>1, Types, ModulusRange DEF Balance, Near, One
    <3>3. QED
      BY <3>1, <3>2
  <2>2. QED
    BY <1>1, <2>1 DEF Reading
<1>7. QED
  BY <1>3, <1>4, <1>5, <1>6

LEMMA ReadConsumedKeepsInv ==
  ASSUME ProtocolInv, ReadConsumed, UNCHANGED preemptive
  PROVE  ProtocolInv'
<1> USE DEF ProtocolInv, counters, ReadConsumed
<1>1. /\ snapshot'.at = "consumed" /\ snapshot'.accepted = snapshot.accepted
      /\ snapshot'.consumed = consumed
      /\ snapshot' \in [at : {"none", "accepted", "consumed", "pending"},
                        accepted : Counter, consumed : Counter, pending : 0 .. Capacity]
  BY DEF ProtocolTypeOK
<1>2. ProtocolTypeOK'
  BY <1>1 DEF ProtocolTypeOK
<1>3. Balance' /\ Calls' /\ Uninterrupted'
  BY DEF Balance, Near, Calls, One, Uninterrupted
<1>4. Reader'
  BY <1>1 DEF Reader
<1>5. Reading'
  <2>1. ASSUME reader = "producer"
        PROVE  \E d \in pending .. Capacity + 1 : Near(accepted - consumed, d)
    <3> DEFINE d == pending + One(consumer = "taken")
    <3>1. d \in pending .. Capacity + 1
      BY Types, ModulusRange DEF One
    <3>2. Near(accepted - consumed, d)
      BY <2>1, Types, ModulusRange DEF Balance, Near, One, Reader
    <3>3. QED
      BY <3>1, <3>2
  <2>2. QED
    BY <1>1, <2>1 DEF Reading, Near
<1>6. QED
  BY <1>2, <1>3, <1>4, <1>5

LEMMA ReadPendingKeepsInv ==
  ASSUME ProtocolInv, ReadPending, UNCHANGED preemptive
  PROVE  ProtocolInv'
<1> USE DEF ProtocolInv, counters, ReadPending
<1>1. /\ snapshot'.at = "pending" /\ snapshot'.accepted = snapshot.accepted
      /\ snapshot'.consumed = snapshot.consumed /\ snapshot'.pending = pending
      /\ snapshot' \in [at : {"none", "accepted", "consumed", "pending"},
                        accepted : Counter, consumed : Counter, pending : 0 .. Capacity]
  BY DEF ProtocolTypeOK
<1>2. ProtocolTypeOK'
  BY <1>1 DEF ProtocolTypeOK
<1>3. Balance' /\ Calls' /\ Uninterrupted'
  BY DEF Balance, Near, Calls, One, Uninterrupted
<1>4. Reader'
  BY <1>1 DEF Reader
<1>5. Reading'
  <2> DEFINE x == snapshot.accepted - snapshot.consumed
  <2>1. PICK d \in -1 .. Capacity + 1 : Near(x, d) /\ (reader = "consumer" => d <= Capacity)
                                       /\ (reader = "producer" => d >= pending)
    <3>1. CASE reader = "producer"
      BY <3>1, Types, ModulusRange DEF Reading
    <3>2. CASE reader = "consumer"
      BY <3>2, Types, ModulusRange DEF Reading
    <3>3. QED
      BY <3>1, <3>2 DEF Reader, ProtocolTypeOK
  <2>2. x \in Int /\ pending \in Nat /\ pending <= Capacity /\ Capacity \in Nat
    BY Types, ModulusRange
  <2>3. d - pending \in -(Capacity + 1) .. Capacity + 1
    BY <2>2
  <2>4. Near(x - pending, d - pending)
    BY <2>1, <2>2, ModulusRange DEF Near
  <2>5. QED
    BY <1>1, <2>3, <2>4 DEF Reading
<1>6. QED
  BY <1>2, <1>3, <1>4, <1>5

LEMMA ReturnKeepsInv ==
  ASSUME ProtocolInv, ReturnSnapshot, UNCHANGED preemptive
  PROVE  ProtocolInv'
<1> USE DEF ProtocolInv, counters, ReturnSnapshot
<1>1. ProtocolTypeOK'
  BY ModulusRange DEF ProtocolTypeOK, Unread, Counter
<1>2. Balance' /\ Calls' /\ Uninterrupted'
  BY DEF Balance, Near, Calls, One, Uninterrupted
<1>3. Reader' /\ Reading'
  BY DEF Reader, Reading, Unread
<1>4. QED
  BY <1>1, <1>2, <1>3

LEMMA StutterKeepsInv ==
  ASSUME ProtocolInv, UNCHANGED protocolVars
  PROVE  ProtocolInv'
BY DEF ProtocolInv, ProtocolTypeOK, Balance, Near, Calls, One, Reader, Reading, Uninterrupted,
       protocolVars, counters, reading

LEMMA StepKeepsInv ==
  ASSUME ProtocolInv, [ProtocolNext]_protocolVars
  PROVE  ProtocolInv'
<1>1. CASE CallStep /\ UNCHANGED preemptive
  BY <1>1, TryPublishKeepsInv, CountAcceptedKeepsInv, RecordDepthKeepsInv, CountDroppedKeepsInv,
     NextEventKeepsInv, CountConsumedKeepsInv
  DEF CallStep
<1>2. CASE SnapshotStep /\ UNCHANGED preemptive
  BY <1>2, ReadAcceptedKeepsInv, ReadConsumedKeepsInv, ReadPendingKeepsInv, ReturnKeepsInv
  DEF SnapshotStep
<1>3. CASE UNCHANGED protocolVars
  BY <1>3, StutterKeepsInv
<1>4. QED
  BY <1>1, <1>2, <1>3 DEF ProtocolNext

-----------------------------------------------------------------------------
(* Theorems *)

\* Every reachable state satisfies the invariant.
THEOREM ProtocolInvHolds == ProtocolSpec => []ProtocolInv
BY InitEstablishesInv, StepKeepsInv, PTL DEF ProtocolSpec

\* Between calls of try_publish and next_event the counters account for every
\* call and every accepted event, however often they have wrapped, and the high
\* water mark is exact when nobody consumes inside try_publish.
THEOREM CallsAreAccounted == ProtocolSpec => []ProtocolInvariant
<1>1. ASSUME ProtocolInv
      PROVE  ProtocolInvariant
  <2>1. CountersAddUp
    <3> SUFFICES ASSUME ~Busy("producer"), ~Busy("consumer") PROVE CountersAddUp
      BY DEF CountersAddUp
    <3>1. producer = "idle" /\ consumer = "idle"
      BY DEF Busy
    <3>2. (accepted + dropped) % Modulus = published % Modulus
      <4>1. accepted + dropped + 0 = accepted + dropped
        BY <1>1, Types DEF ProtocolInv
      <4>2. QED
        BY <1>1, <3>1, <4>1 DEF ProtocolInv, Calls, One
    <3>3. consumed + pending \in {accepted, accepted + Modulus}
      BY <1>1, <3>1, Types, ModulusRange DEF ProtocolInv, Balance, Near, One
    <3>4. (consumed + pending) % Modulus = accepted
      BY <1>1, <3>3, Types, NearResidue DEF ProtocolInv
    <3>5. QED
      BY <3>2, <3>4 DEF CountersAddUp
  <2>2. HighWaterIsExact
    BY <1>1 DEF ProtocolInv, Uninterrupted, HighWaterIsExact, Busy
  <2>3. QED
    BY <1>1, <2>1, <2>2 DEF ProtocolInv, ProtocolInvariant
<1>2. QED
  BY <1>1, ProtocolInvHolds, PTL

\* A snapshot that either side takes a load at a time, while the other side runs
\* and the counters wrap, is wrong by at most a full queue and one event.
THEOREM SnapshotErrorBound == ProtocolSpec => []SnapshotErrorIsBounded
<1>1. ASSUME ProtocolInv, snapshot.at = "pending"
      PROVE  Missing \in -(Capacity + 1) .. Capacity + 1
  <2> DEFINE x == snapshot.accepted - snapshot.consumed - snapshot.pending
  <2>1. x \in Int
    BY <1>1, Types DEF ProtocolInv
  <2>2. PICK d \in -(Capacity + 1) .. Capacity + 1 : Near(x, d)
    BY <1>1 DEF ProtocolInv, Reading
  <2>3. Missing = d
    BY <2>1, <2>2, CentredResidue DEF Missing
  <2>4. QED
    BY <2>3
<1>2. ProtocolInv => SnapshotErrorIsBounded
  BY <1>1 DEF SnapshotErrorIsBounded
<1>3. QED
  BY <1>2, ProtocolInvHolds, PTL
=============================================================================
