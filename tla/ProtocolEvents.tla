---------------------------- MODULE ProtocolEvents ----------------------------
(***************************************************************************)
(* EventState of src/control.rs with its unique EventProducer and          *)
(* EventConsumer: a bounded queue that refuses an event when it is full,   *)
(* and the snapshot of its counters that either side may take.             *)
(*                                                                         *)
(* The channel and every counter are atomic, but nothing is atomic across  *)
(* two of them.  Whether one side may run inside a call of the other is    *)
(* fixed at the start.  What an event says is data no property looks at,   *)
(* so the channel is its length.                                           *)
(***************************************************************************)
EXTENDS Integers

CONSTANTS
  Capacity,     \* CAPACITY, the depth of the queue
  Modulus,      \* 2^32: the counters wrap
  MaxEvent,     \* bounds the calls of try_publish
  Preemption    \* the values `preemptive' may have

ASSUME ProtocolEventsAssumption ==
  /\ Capacity \in Nat \ {0}
  /\ Modulus \in Nat /\ Modulus > 2 * (Capacity + 1)
  /\ MaxEvent \in Nat
  /\ Preemption \subseteq BOOLEAN

VARIABLES
  preemptive,   \* may a side run inside a call of the other; never changes
  pending,      \* length of the channel
  accepted, consumed, dropped, highWater,   \* the counters
  producer,     \* how far try_publish is
  consumer,     \* how far next_event is
  reader,       \* the side that takes a snapshot, or "none"
  snapshot,     \* the counters the snapshot has read so far
  published,    \* history: calls of try_publish
  peak          \* history: the largest length of the channel

counters == <<accepted, consumed, dropped, highWater>>
reading == <<reader, snapshot>>
protocolVars ==
  <<preemptive, pending, counters, producer, consumer, reading, published, peak>>

Counter == 0 .. Modulus - 1
Unread == [at |-> "none", accepted |-> 0, consumed |-> 0, pending |-> 0]

ProtocolTypeOK ==
  /\ preemptive \in Preemption
  /\ {pending, highWater, peak} \subseteq 0 .. Capacity
  /\ {accepted, consumed, dropped} \subseteq Counter
  /\ producer \in {"idle", "sent", "measure", "refused"}
  /\ consumer \in {"idle", "taken"}
  /\ reader \in {"none", "producer", "consumer"}
  /\ snapshot \in [at : {"none", "accepted", "consumed", "pending"},
                   accepted : Counter, consumed : Counter, pending : 0 .. Capacity]
  /\ published \in 0 .. MaxEvent

ProtocolInit ==
  /\ preemptive \in Preemption
  /\ pending = 0 /\ peak = 0
  /\ accepted = 0 /\ consumed = 0 /\ dropped = 0 /\ highWater = 0
  /\ producer = "idle" /\ consumer = "idle"
  /\ reader = "none" /\ snapshot = Unread
  /\ published = 0

-----------------------------------------------------------------------------

\* Mutant: a counter stops at its limit.
SaturatingAdd(counter) == IF counter = Modulus - 1 THEN counter ELSE counter + 1

FetchAdd(counter) == (counter + 1) % Modulus
Larger(m, n) == IF m < n THEN n ELSE m

\* A side is inside try_publish, next_event or diagnostics.
Busy(side) == reader = side \/ IF side = "producer" THEN producer # "idle" ELSE consumer # "idle"
ProducerMayRun == preemptive \/ ~Busy("consumer")
ConsumerMayRun == preemptive \/ ~Busy("producer")

TryPublish ==
  /\ ProducerMayRun /\ ~Busy("producer")
  /\ published < MaxEvent
  /\ published' = published + 1
  /\ IF pending < Capacity
     THEN pending' = pending + 1 /\ peak' = Larger(peak, pending + 1) /\ producer' = "sent"
     ELSE UNCHANGED <<pending, peak>> /\ producer' = "refused"
  /\ UNCHANGED <<counters, consumer, reading>>

CountAccepted ==
  /\ producer = "sent"
  /\ accepted' = FetchAdd(accepted)
  /\ producer' = "measure"
  /\ UNCHANGED <<pending, consumed, dropped, highWater, consumer, reading, published, peak>>

RecordDepth ==
  /\ producer = "measure"
  /\ highWater' = Larger(highWater, pending)
  /\ producer' = "idle"
  /\ UNCHANGED <<pending, accepted, consumed, dropped, consumer, reading, published, peak>>

CountDropped ==
  /\ producer = "refused"
  /\ dropped' = FetchAdd(dropped)
  /\ producer' = "idle"
  /\ UNCHANGED <<pending, accepted, consumed, highWater, consumer, reading, published, peak>>

\* try_next_event of a non-empty queue, and the end of a wait in next_event.
NextEvent ==
  /\ ConsumerMayRun /\ ~Busy("consumer")
  /\ pending > 0
  /\ pending' = pending - 1
  /\ consumer' = "taken"
  /\ UNCHANGED <<counters, producer, reading, published, peak>>

\* Mutant: an event is consumed without being counted once in a while.
CountConsumedUnlessEmpty ==
  /\ consumer = "taken"
  /\ consumed' = IF pending = 0 THEN consumed ELSE FetchAdd(consumed)
  /\ consumer' = "idle"
  /\ UNCHANGED <<pending, accepted, dropped, highWater, producer, reading, published, peak>>

CountConsumed ==
  /\ consumer = "taken"
  /\ consumed' = FetchAdd(consumed)
  /\ consumer' = "idle"
  /\ UNCHANGED <<pending, accepted, dropped, highWater, producer, reading, published, peak>>

\* diagnostics of either side, a load at a time; the dropped counter and the
\* high water mark it reads on the way have no part in the conservation.
ReadAccepted(side) ==
  /\ IF side = "producer" THEN ProducerMayRun ELSE ConsumerMayRun
  /\ ~Busy(side) /\ reader = "none"
  /\ reader' = side
  /\ snapshot' = [Unread EXCEPT !.at = "accepted", !.accepted = accepted]
  /\ UNCHANGED <<pending, counters, producer, consumer, published, peak>>

ReadConsumed ==
  /\ snapshot.at = "accepted"
  /\ snapshot' = [snapshot EXCEPT !.at = "consumed", !.consumed = consumed]
  /\ UNCHANGED <<pending, counters, producer, consumer, reader, published, peak>>

ReadPending ==
  /\ snapshot.at = "consumed"
  /\ snapshot' = [snapshot EXCEPT !.at = "pending", !.pending = pending]
  /\ UNCHANGED <<pending, counters, producer, consumer, reader, published, peak>>

ReturnSnapshot ==
  /\ snapshot.at = "pending"
  /\ reader' = "none" /\ snapshot' = Unread
  /\ UNCHANGED <<pending, counters, producer, consumer, published, peak>>

CallStep ==
  \/ TryPublish
  \/ CountAccepted
  \/ RecordDepth
  \/ CountDropped
  \/ NextEvent
  \/ CountConsumed

SnapshotStep ==
  \/ \E side \in {"producer", "consumer"} : ReadAccepted(side)
  \/ ReadConsumed
  \/ ReadPending
  \/ ReturnSnapshot

ProtocolNext == (CallStep \/ SnapshotStep) /\ UNCHANGED preemptive

ProtocolSpec == ProtocolInit /\ [][ProtocolNext]_protocolVars

-----------------------------------------------------------------------------
(* Properties *)

\* How many accepted events a snapshot says are neither consumed nor pending,
\* a negative number if it says too many are.
Missing == LET n == (snapshot.accepted - snapshot.consumed - snapshot.pending) % Modulus
           IN IF n > Modulus \div 2 THEN n - Modulus ELSE n

\* Whatever the other side does meanwhile, a snapshot is wrong by no more than
\* one full queue and the one event that is not counted yet.
SnapshotErrorIsBounded ==
  snapshot.at = "pending" => Missing \in -(Capacity + 1) .. Capacity + 1

\* Between calls every call of try_publish is either accepted or dropped, and
\* every accepted event is consumed or pending, also after the counters
\* wrapped.  On one cooperative executor, where a snapshot is taken between
\* calls only, it is exact therefore.
CountersAddUp ==
  ~Busy("producer") /\ ~Busy("consumer") =>
    /\ (accepted + dropped) % Modulus = published % Modulus
    /\ (consumed + pending) % Modulus = accepted

\* When nobody consumes inside try_publish, the high water mark is the
\* largest length there ever was.
HighWaterIsExact == ~preemptive /\ ~Busy("producer") => highWater = peak

\* Every variable has its type and the counters tell what happened.
ProtocolInvariant == ProtocolTypeOK /\ CountersAddUp /\ HighWaterIsExact
=============================================================================
