--------------------------- MODULE RadioStateProofs ---------------------------
(***************************************************************************)
(* What a RadioState shares: the event queue for every depth, every width  *)
(* of the counters and any number of events, with and without preemption;  *)
(* and the station address for any number of tasks that call init and any  *)
(* width of an address.                                                    *)
(*                                                                         *)
(* Events.  The two parties take from the front of the queue and one of    *)
(* them adds at the end, so the queue ascends and lies behind all that was *)
(* taken out (Order), and the event being published is in nobody's hands   *)
(* until it is sent (Newest).  The counters lag by what each party has     *)
(* done and not counted (Balance); when calls do not overlap the producer  *)
(* finds what it left (Uninterrupted).                                     *)
(*                                                                         *)
(* Address.  OneOwner is inductive by itself.  With it, the runner that    *)
(* stores bytes is the only one, so what it has stored is a prefix of the  *)
(* first address (Publication), and what a snapshot has loaded behind the  *)
(* flag is a prefix of the same address (Reading).                         *)
(***************************************************************************)
EXTENDS RadioEvents, L2Identity, FiniteSetTheorems, TLAPS

-----------------------------------------------------------------------------
(* The event queue: what holds of it *)

\* publish_event found the queue full and has not sent its event yet.
Retrying == producer \in {"full", "discarded", "resend"}

Order ==
  /\ \A i, j \in 1 .. Len(events) : i <= j => events[j] - events[i] >= j - i
  /\ \A i \in 1 .. Len(events) : received < events[i] /\ events[i] <= published
  /\ \A e \in lost : \A i \in 1 .. Len(events) : e < events[i]
  /\ received <= published
  /\ \A e \in lost : e <= published

Newest ==
  /\ Retrying =>
       /\ received < published
       /\ \A e \in lost : e < published
       /\ \A i \in 1 .. Len(events) : events[i] < published
  /\ producer \in {"discarded", "resend"} => Len(events) < Capacity
  /\ ~Retrying /\ published > 0 =>
       received = published \/ (events # <<>> /\ events[Len(events)] = published)

One(condition) == IF condition THEN 1 ELSE 0

\* What is sent and not counted, and what is taken and not counted.
Balance ==
  accepted < CounterMax =>
    consumed + One(consumer = "taken") + Len(events) + Cardinality(lost)
      = accepted + One(producer = "sent")

\* What the producer may rely on when nobody runs inside its call.
Uninterrupted ==
  ~preemptive =>
    /\ producer = "idle" \/ consumer = "idle"
    /\ producer = "full" => Len(events) = Capacity
    /\ dropped < CounterMax => dropped + One(producer = "discarded") = Cardinality(lost)
    /\ peak = IF producer \in {"sent", "measure"} THEN Larger(highWater, Len(events))
              ELSE highWater
    /\ \A e \in lost : published >= e + Capacity

EventsInv == EventsTypeOK /\ Order /\ Newest /\ Balance /\ Uninterrupted

-----------------------------------------------------------------------------
(* The queue *)

LEMMA AppendOf ==
  ASSUME NEW S, NEW q \in Seq(S), NEW e \in S
  PROVE  /\ Append(q, e) \in Seq(S)
         /\ Len(q) \in Nat
         /\ Len(Append(q, e)) = Len(q) + 1
         /\ Append(q, e)[Len(q) + 1] = e
         /\ \A i \in 1 .. Len(q) : Append(q, e)[i] = q[i]
OBVIOUS

LEMMA TailOf ==
  ASSUME NEW S, NEW q \in Seq(S), q # <<>>
  PROVE  /\ Tail(q) \in Seq(S)
         /\ Len(q) \in Nat \ {0}
         /\ Len(Tail(q)) = Len(q) - 1
         /\ Head(q) = q[1]
         /\ \A i \in 1 .. Len(q) : q[i] \in S
         /\ \A i \in 1 .. Len(Tail(q)) : Tail(q)[i] = q[i + 1]
OBVIOUS

\* The types that the arithmetic below needs.
LEMMA Types ==
  ASSUME EventsTypeOK
  PROVE  /\ MaxEvent \in Nat /\ Capacity \in Nat \ {0} /\ CounterMax \in Nat \ {0}
         /\ events \in Seq(Event) /\ Len(events) \in Nat /\ Len(events) <= Capacity
         /\ \A i \in 1 .. Len(events) : events[i] \in Event /\ events[i] \in Nat
         /\ Event \subseteq Nat
         /\ accepted \in Nat /\ consumed \in Nat /\ dropped \in Nat
         /\ accepted <= CounterMax /\ consumed <= CounterMax /\ dropped <= CounterMax
         /\ highWater \in Nat /\ peak \in Nat /\ published \in Nat /\ received \in Nat
         /\ lost \subseteq Nat /\ IsFiniteSet(lost) /\ Cardinality(lost) \in Nat
<1>1. IsFiniteSet(Event)
  BY FS_Interval, RadioEventsAssumption DEF Event, RadioEventsAssumption
<1>2. IsFiniteSet(lost)
  BY <1>1, FS_Subset DEF EventsTypeOK
<1>3. Cardinality(lost) \in Nat
  BY <1>2, FS_CardinalityType
<1>4. QED
  BY <1>2, <1>3, RadioEventsAssumption DEF EventsTypeOK, Event, RadioEventsAssumption

LEMMA SaturatingRange ==
  ASSUME NEW n \in 0 .. CounterMax
  PROVE  SaturatingIncrement(n) \in 0 .. CounterMax
BY RadioEventsAssumption DEF RadioEventsAssumption, SaturatingIncrement

\* What is taken from the front of the queue is older than the rest, and newer
\* than all that was taken before.
LEMMA TakenFromQueue ==
  ASSUME EventsTypeOK, Order, events # <<>>, events' = Tail(events)
  PROVE  /\ events' \in Seq(Event)
         /\ Len(events) \in Nat \ {0}
         /\ Len(events') = Len(events) - 1
         /\ Head(events) = events[1]
         /\ events[1] \in Event /\ events[1] \in Nat
         /\ 1 \in 1 .. Len(events)
         /\ \A i \in 1 .. Len(events') :
              /\ i + 1 \in 1 .. Len(events)
              /\ events'[i] = events[i + 1]
              /\ events[1] < events'[i]
         /\ \A i, j \in 1 .. Len(events') : i <= j => events'[j] - events'[i] >= j - i
<1>1. /\ events' \in Seq(Event)
      /\ Len(events) \in Nat \ {0}
      /\ Len(events') = Len(events) - 1
      /\ Head(events) = events[1]
      /\ \A i \in 1 .. Len(events) : events[i] \in Event /\ events[i] \in Nat
      /\ \A i \in 1 .. Len(events') : events'[i] = events[i + 1]
  BY TailOf, Types
<1>2. 1 \in 1 .. Len(events)
  BY <1>1
<1>3. \A i \in 1 .. Len(events') : i + 1 \in 1 .. Len(events) /\ i \in Nat \ {0}
  BY <1>1
<1>4. ASSUME NEW i \in 1 .. Len(events')
      PROVE  events[1] < events'[i]
  <2>1. events[i + 1] - events[1] >= (i + 1) - 1
    BY <1>2, <1>3, <1>4 DEF Order
  <2>2. events[i + 1] \in Nat /\ events[1] \in Nat /\ i \in Nat \ {0}
    BY <1>1, <1>2, <1>3
  <2>3. QED
    BY <1>1, <2>1, <2>2
<1>5. ASSUME NEW i \in 1 .. Len(events'), NEW j \in 1 .. Len(events'), i <= j
      PROVE  events'[j] - events'[i] >= j - i
  <2>1. i + 1 \in 1 .. Len(events) /\ j + 1 \in 1 .. Len(events) /\ i + 1 <= j + 1
    BY <1>3, <1>5
  <2>2. events[j + 1] - events[i + 1] >= (j + 1) - (i + 1)
    BY <2>1 DEF Order
  <2>3. QED
    BY <1>1, <1>3, <2>2
<1>6. QED
  BY <1>1, <1>2, <1>3, <1>4, <1>5

\* The newest event goes behind all others.
LEMMA SentToQueue ==
  ASSUME EventsTypeOK, Order, NEW e \in Event,
         \A i \in 1 .. Len(events) : events[i] < e,
         events' = Append(events, e)
  PROVE  /\ events' \in Seq(Event)
         /\ Len(events') = Len(events) + 1
         /\ events' # <<>>
         /\ events'[Len(events')] = e
         /\ \A i \in 1 .. Len(events') : events'[i] = e \/ (i \in 1 .. Len(events) /\ events'[i] = events[i])
         /\ \A i, j \in 1 .. Len(events') : i <= j => events'[j] - events'[i] >= j - i
<1> DEFINE n == Len(events)
<1>1. /\ events' \in Seq(Event)
      /\ n \in Nat
      /\ Len(events') = n + 1
      /\ events'[n + 1] = e
      /\ \A i \in 1 .. n : events'[i] = events[i]
  BY AppendOf, Types
<1>2. e \in Nat /\ \A i \in 1 .. n : events[i] \in Nat
  BY Types
<1>3. ASSUME NEW i \in 1 .. n + 1, NEW j \in 1 .. n + 1, i <= j
      PROVE  events'[j] - events'[i] >= j - i
  <2>1. CASE j \in 1 .. n
    <3>1. i \in 1 .. n
      BY <1>1, <1>3, <2>1
    <3>2. QED
      BY <1>1, <1>3, <2>1, <3>1 DEF Order
  <2>2. CASE j = n + 1 /\ i \in 1 .. n
    <3>1. n \in 1 .. n /\ i <= n
      BY <1>1, <2>2
    <3>2. events[n] - events[i] >= n - i /\ events[n] < e
      BY <2>2, <3>1 DEF Order
    <3>3. events[n] \in Nat /\ events[i] \in Nat
      BY <1>2, <2>2, <3>1
    <3>4. QED
      BY <1>1, <1>2, <2>2, <3>2, <3>3
  <2>3. CASE j = n + 1 /\ i = n + 1
    BY <1>1, <1>2, <2>3
  <2>4. QED
    BY <1>1, <1>3, <2>1, <2>2, <2>3
<1>4. events' # <<>>
  BY <1>1
<1>5. QED
  BY <1>1, <1>3, <1>4

-----------------------------------------------------------------------------
(* The invariant *)

LEMMA InitEstablishesInv == EventsInit => EventsInv
<1> SUFFICES ASSUME EventsInit PROVE EventsInv
  OBVIOUS
<1> USE RadioEventsAssumption DEF RadioEventsAssumption, EventsInit
<1>1. EventsTypeOK
  BY DEF EventsTypeOK
<1>2. Order /\ Newest
  BY DEF Order, Newest, Retrying
<1>3. Balance /\ Uninterrupted
  BY FS_EmptySet DEF Balance, Uninterrupted, One
<1>4. QED
  BY <1>1, <1>2, <1>3 DEF EventsInv

LEMMA PublishKeepsInv ==
  ASSUME EventsInv, Publish, UNCHANGED preemptive
  PROVE  EventsInv'
<1> USE DEF EventsInv, counters, Publish
<1> DEFINE e == published + 1
<1>1. e \in Event /\ e \in Nat /\ published \in Nat /\ received < e /\ received \in Nat
  BY Types DEF Order, Event
<1>2. \A i \in 1 .. Len(events) : events[i] < e
  BY <1>1, Types DEF Order
<1>3. \A l \in lost : l < e
  BY <1>1, Types DEF Order
<1>4. CASE Len(events) < Capacity
  <2> USE <1>4 DEF TrySend
  <2>1. events' = Append(events, e)
    OBVIOUS
  <2>2. /\ events' \in Seq(Event)
        /\ Len(events') = Len(events) + 1
        /\ events' # <<>>
        /\ events'[Len(events')] = e
        /\ \A i \in 1 .. Len(events') : events'[i] = e \/ (i \in 1 .. Len(events) /\ events'[i] = events[i])
        /\ \A i, j \in 1 .. Len(events') : i <= j => events'[j] - events'[i] >= j - i
    BY <1>1, <1>2, <2>1, SentToQueue
  <2>3. EventsTypeOK'
    BY <1>1, <2>2, Types DEF EventsTypeOK, Larger
  <2>4. Order'
    <3>1. ASSUME NEW i \in 1 .. Len(events')
          PROVE  received < events'[i] /\ events'[i] <= e /\ \A l \in lost : l < events'[i]
      <4>1. CASE events'[i] = e
        BY <1>1, <1>3, <4>1
      <4>2. CASE i \in 1 .. Len(events) /\ events'[i] = events[i]
        <5>1. events[i] < e /\ events[i] \in Nat
          BY <1>2, <4>2, Types
        <5>2. QED
          BY <1>1, <4>2, <5>1 DEF Order
      <4>3. QED
        BY <2>2, <4>1, <4>2
    <3>2. \A l \in lost : l <= e
      BY <1>1, <1>3, Types
    <3>3. QED
      BY <1>1, <2>2, <3>1, <3>2 DEF Order
  <2>5. Newest'
    BY <2>2 DEF Newest, Retrying
  <2>6. Balance'
    <3>1. accepted \in Nat /\ consumed \in Nat /\ Len(events) \in Nat /\ Cardinality(lost) \in Nat
      BY Types
    <3>2. Len(events') = Len(events) + 1 /\ producer = "idle" /\ producer' = "sent"
      BY <2>2
    <3>3. UNCHANGED <<accepted, consumed, consumer, lost>>
      OBVIOUS
    <3>4. QED
      BY <3>1, <3>2, <3>3 DEF Balance, One
  <2>7. Uninterrupted'
    <3>1. \A l \in lost : published >= l + Capacity => e >= l + Capacity
      BY <1>1, Types
    <3>2. QED
      BY <2>2, <3>1, Types DEF Uninterrupted, One, Larger, ProducerMayRun
  <2>8. QED
    BY <2>3, <2>4, <2>5, <2>6, <2>7
<1>5. CASE ~(Len(events) < Capacity)
  <2> USE <1>5 DEF TrySend
  <2>1. EventsTypeOK'
    BY <1>1, Types DEF EventsTypeOK, Event
  <2>2. Order'
    <3>1. \A i \in 1 .. Len(events) : events[i] <= e
      BY <1>1, <1>2, Types
    <3>2. \A l \in lost : l <= e
      BY <1>1, <1>3, Types
    <3>3. QED
      BY <1>1, <3>1, <3>2 DEF Order
  <2>3. Newest'
    BY <1>1, <1>2, <1>3 DEF Newest, Retrying
  <2>4. Balance'
    BY DEF Balance, One
  <2>5. Uninterrupted'
    <3>1. Len(events) = Capacity
      BY Types
    <3>2. \A l \in lost : published >= l + Capacity => e >= l + Capacity
      BY <1>1, Types
    <3>3. QED
      BY <3>1, <3>2 DEF Uninterrupted, One, ProducerMayRun
  <2>6. QED
    BY <2>1, <2>2, <2>3, <2>4, <2>5
<1>6. QED
  BY <1>4, <1>5

\* The event that goes is the oldest; without preemption the queue behind it is
\* full, so Capacity later ones have been published.
LEMMA DiscardKeepsInv ==
  ASSUME EventsInv, DiscardOldest, UNCHANGED preemptive
  PROVE  EventsInv'
<1> USE DEF EventsInv, counters, DiscardOldest
<1>1. CASE events = <<>>
  <2>1. Len(events) = 0
    BY <1>1
  <2>2. EventsTypeOK' /\ Order' /\ Balance'
    BY <1>1 DEF EventsTypeOK, Order, Balance, One
  <2>3. Newest'
    BY <1>1, <2>1, Types DEF Newest, Retrying
  <2>4. Uninterrupted'
    BY <1>1, <2>1, Types DEF Uninterrupted
  <2>5. QED
    BY <2>2, <2>3, <2>4
<1>2. CASE events # <<>>
  <2> DEFINE e == events[1]
  <2>1. /\ events' \in Seq(Event)
        /\ Len(events) \in Nat \ {0}
        /\ Len(events') = Len(events) - 1
        /\ lost' = lost \cup {e}
        /\ e \in Event /\ e \in Nat
        /\ 1 \in 1 .. Len(events)
        /\ \A i \in 1 .. Len(events') :
             /\ i + 1 \in 1 .. Len(events)
             /\ events'[i] = events[i + 1]
             /\ e < events'[i]
        /\ \A i, j \in 1 .. Len(events') : i <= j => events'[j] - events'[i] >= j - i
    BY <1>2, TakenFromQueue
  <2>2. e \notin lost
    BY <2>1, Types DEF Order
  <2>3. IsFiniteSet(lost') /\ Cardinality(lost') = Cardinality(lost) + 1
    BY <2>1, <2>2, Types, FS_AddElement
  <2>4. EventsTypeOK'
    BY <1>2, <2>1, Types DEF EventsTypeOK
  <2>5. Order'
    <3>1. e <= published
      BY <2>1 DEF Order
    <3>2. \A i \in 1 .. Len(events') :
            /\ received < events'[i] /\ events'[i] <= published
            /\ \A l \in lost : l < events'[i]
      BY <2>1 DEF Order
    <3>3. QED
      BY <2>1, <3>1, <3>2 DEF Order
  <2>6. Newest'
    <3>1. e < published /\ \A i \in 1 .. Len(events') : events'[i] < published
      BY <2>1 DEF Newest, Retrying
    <3>2. Len(events') < Capacity
      BY <2>1, Types
    <3>3. QED
      BY <2>1, <3>1, <3>2 DEF Newest, Retrying
  <2>7. Balance'
    <3>1. accepted \in Nat /\ consumed \in Nat /\ Cardinality(lost) \in Nat
      BY Types
    <3>2. Len(events) \in Nat /\ Len(events') = Len(events) - 1
      BY <2>1
    <3>3. UNCHANGED <<accepted, consumed, consumer>> /\ producer # "sent" /\ producer' # "sent"
      OBVIOUS
    <3>4. QED
      BY <2>3, <3>1, <3>2, <3>3 DEF Balance, One
  <2>8. Uninterrupted'
    <3> SUFFICES ASSUME ~preemptive PROVE Uninterrupted'
      BY DEF Uninterrupted
    <3>1. Len(events) = Capacity
      BY DEF Uninterrupted
    <3>2. Capacity \in 1 .. Len(events) /\ 1 <= Capacity
      BY <2>1, <3>1, Types
    <3>3. events[Capacity] - events[1] >= Capacity - 1
      BY <2>1, <3>2 DEF Order
    <3>4. events[Capacity] < published /\ events[Capacity] \in Nat
      BY <3>2, Types DEF Newest, Retrying
    <3>5. published >= e + Capacity
      <4>1. published \in Nat /\ Capacity \in Nat /\ e \in Nat
        BY <2>1, Types
      <4>2. QED
        BY <3>3, <3>4, <4>1
    <3>6. QED
      BY <1>2, <2>1, <2>3, <3>5, Types DEF Uninterrupted, One
  <2>9. QED
    BY <2>4, <2>5, <2>6, <2>7, <2>8
<1>3. QED
  BY <1>1, <1>2

LEMMA CountDroppedKeepsInv ==
  ASSUME EventsInv, CountDropped, UNCHANGED preemptive
  PROVE  EventsInv'
<1> USE DEF EventsInv, history, CountDropped
<1>1. EventsTypeOK'
  BY SaturatingRange DEF EventsTypeOK
<1>2. Order' /\ Newest' /\ Balance'
  BY DEF Order, Newest, Retrying, Balance, One
<1>3. Uninterrupted'
  BY Types DEF Uninterrupted, One, SaturatingIncrement
<1>4. QED
  BY <1>1, <1>2, <1>3

LEMMA ResendKeepsInv ==
  ASSUME EventsInv, Resend, UNCHANGED preemptive
  PROVE  EventsInv'
<1> USE DEF EventsInv, counters, Resend
<1>1. Len(events) < Capacity
  BY DEF Newest
<1>2. /\ received < published /\ \A l \in lost : l < published
      /\ \A i \in 1 .. Len(events) : events[i] < published
  BY DEF Newest, Retrying
<1>3. published \in Event
  BY <1>2, Types DEF EventsTypeOK, Event
<1>4. events' = Append(events, published) /\ producer' = "sent" /\ peak' = Larger(peak, Len(events) + 1)
  BY <1>1 DEF TrySend
<1>5. /\ events' \in Seq(Event)
      /\ Len(events') = Len(events) + 1
      /\ events' # <<>>
      /\ events'[Len(events')] = published
      /\ \A i \in 1 .. Len(events') :
           events'[i] = published \/ (i \in 1 .. Len(events) /\ events'[i] = events[i])
      /\ \A i, j \in 1 .. Len(events') : i <= j => events'[j] - events'[i] >= j - i
  BY <1>2, <1>3, <1>4, SentToQueue
<1>6. EventsTypeOK'
  BY <1>1, <1>4, <1>5, Types DEF EventsTypeOK, Larger
<1>7. Order'
  <2>1. ASSUME NEW i \in 1 .. Len(events')
        PROVE  received < events'[i] /\ events'[i] <= published /\ \A l \in lost : l < events'[i]
    <3>1. CASE events'[i] = published
      BY <1>2, <1>3, <3>1, Types
    <3>2. CASE i \in 1 .. Len(events) /\ events'[i] = events[i]
      BY <3>2 DEF Order
    <3>3. QED
      BY <1>5, <3>1, <3>2
  <2>2. QED
    BY <1>5, <2>1 DEF Order
<1>8. Newest'
  BY <1>4, <1>5 DEF Newest, Retrying
<1>9. Balance'
  <2>1. accepted \in Nat /\ consumed \in Nat /\ Len(events) \in Nat /\ Cardinality(lost) \in Nat
    BY Types
  <2>2. Len(events') = Len(events) + 1 /\ producer = "resend" /\ producer' = "sent"
    BY <1>4, <1>5
  <2>3. UNCHANGED <<accepted, consumed, consumer, lost>>
    OBVIOUS
  <2>4. QED
    BY <2>1, <2>2, <2>3 DEF Balance, One
<1>10. Uninterrupted'
  BY <1>4, <1>5, Types DEF Uninterrupted, One, Larger
<1>11. QED
  BY <1>6, <1>7, <1>8, <1>9, <1>10

LEMMA CountAcceptedKeepsInv ==
  ASSUME EventsInv, CountAccepted, UNCHANGED preemptive
  PROVE  EventsInv'
<1> USE DEF EventsInv, history, CountAccepted
<1>1. EventsTypeOK'
  BY SaturatingRange DEF EventsTypeOK
<1>2. Order' /\ Newest'
  BY DEF Order, Newest, Retrying
<1>3. Balance'
  BY Types DEF Balance, One, SaturatingIncrement
<1>4. Uninterrupted'
  BY DEF Uninterrupted, One
<1>5. QED
  BY <1>1, <1>2, <1>3, <1>4

LEMMA RecordDepthKeepsInv ==
  ASSUME EventsInv, RecordDepth, UNCHANGED preemptive
  PROVE  EventsInv'
<1> USE DEF EventsInv, history, RecordDepth
<1>1. EventsTypeOK'
  BY Types DEF EventsTypeOK, Larger
<1>2. Order' /\ Newest' /\ Balance'
  BY DEF Order, Newest, Retrying, Balance, One
<1>3. Uninterrupted'
  BY DEF Uninterrupted, One
<1>4. QED
  BY <1>1, <1>2, <1>3

\* What is received may be the newest event, which then is in the receiver's
\* hands instead of at the end of the queue.
LEMMA ReceiveKeepsInv ==
  ASSUME EventsInv, ReceiveEvent, UNCHANGED preemptive
  PROVE  EventsInv'
<1> USE DEF EventsInv, counters, ReceiveEvent
<1>1. /\ events' \in Seq(Event)
      /\ Len(events) \in Nat \ {0}
      /\ Len(events') = Len(events) - 1
      /\ received' = events[1]
      /\ events[1] \in Event /\ events[1] \in Nat
      /\ 1 \in 1 .. Len(events)
      /\ \A i \in 1 .. Len(events') :
           /\ i + 1 \in 1 .. Len(events)
           /\ events'[i] = events[i + 1]
           /\ events[1] < events'[i]
      /\ \A i, j \in 1 .. Len(events') : i <= j => events'[j] - events'[i] >= j - i
  BY TakenFromQueue
<1>2. EventsTypeOK'
  BY <1>1, Types DEF EventsTypeOK, Event
<1>3. Order'
  <2>1. events[1] <= published
    BY <1>1 DEF Order
  <2>2. \A i \in 1 .. Len(events') :
          events'[i] <= published /\ \A l \in lost : l < events'[i]
    BY <1>1 DEF Order
  <2>3. QED
    BY <1>1, <2>1, <2>2 DEF Order
<1>4. Newest'
  <2>1. Retrying => events[1] < published /\ \A i \in 1 .. Len(events') : events'[i] < published
    BY <1>1 DEF Newest
  <2>2. Len(events) < Capacity => Len(events') < Capacity
    BY <1>1, Types
  <2>3. ASSUME ~Retrying, published > 0
        PROVE  events[1] = published \/ (events' # <<>> /\ events'[Len(events')] = published)
    <3>1. received # published
      BY <1>1, Types DEF Order
    <3>2. events[Len(events)] = published
      BY <2>3, <3>1 DEF Newest
    <3>3. CASE Len(events) = 1
      BY <3>2, <3>3
    <3>4. CASE Len(events) # 1
      <4>1. Len(events') \in 1 .. Len(events')
        BY <1>1, <3>4
      <4>2. events'[Len(events')] = events[Len(events)]
        BY <1>1, <4>1
      <4>3. events' # <<>>
        BY <4>1
      <4>4. QED
        BY <3>2, <4>2, <4>3
    <3>5. QED
      BY <3>3, <3>4
  <2>4. QED
    BY <1>1, <2>1, <2>2, <2>3 DEF Newest, Retrying
<1>5. Balance'
  BY <1>1, Types DEF Balance, One
<1>6. Uninterrupted'
  BY <1>1, Types DEF Uninterrupted, ConsumerMayRun, One
<1>7. QED
  BY <1>2, <1>3, <1>4, <1>5, <1>6

LEMMA CountConsumedKeepsInv ==
  ASSUME EventsInv, CountConsumed, UNCHANGED preemptive
  PROVE  EventsInv'
<1> USE DEF EventsInv, history, CountConsumed
<1>1. EventsTypeOK'
  BY SaturatingRange DEF EventsTypeOK
<1>2. Order' /\ Newest'
  BY DEF Order, Newest, Retrying
<1>3. Balance'
  BY Types DEF Balance, One, SaturatingIncrement
<1>4. Uninterrupted'
  BY DEF Uninterrupted, One
<1>5. QED
  BY <1>1, <1>2, <1>3, <1>4

LEMMA StutterKeepsInv ==
  ASSUME EventsInv, UNCHANGED eventVars
  PROVE  EventsInv'
BY DEF EventsInv, EventsTypeOK, Order, Newest, Retrying, Balance, Uninterrupted, One,
       eventVars, counters, history

LEMMA StepKeepsInv ==
  ASSUME EventsInv, [EventsNext]_eventVars
  PROVE  EventsInv'
BY PublishKeepsInv, DiscardKeepsInv, CountDroppedKeepsInv, ResendKeepsInv, CountAcceptedKeepsInv,
   RecordDepthKeepsInv, ReceiveKeepsInv, CountConsumedKeepsInv, StutterKeepsInv
DEF EventsNext, ProducerStep, ConsumerStep

-----------------------------------------------------------------------------
(* Theorems *)

\* Every reachable state satisfies the invariant.
THEOREM EventsInvHolds == EventsSpec => []EventsInv
BY InitEstablishesInv, StepKeepsInv, PTL DEF EventsSpec

\* Every variable keeps its type, and between calls of publish_event and
\* next_event the counters account for every event until the first saturates.
THEOREM EventsAreAccounted == EventsSpec => []EventsInvariant
<1>1. EventsInv => EventsInvariant
  BY Types DEF EventsInv, EventsInvariant, CountersAddUp, BetweenCalls, Balance, One
<1>2. QED
  BY <1>1, EventsInvHolds, PTL

\* On one cooperative executor the dropped counter is the number of events
\* lost, and the high water mark the largest length of the queue.
THEOREM CooperativeCountersCorrect == EventsSpec => []CooperativeCountersExact
<1>1. EventsInv => CooperativeCountersExact
  BY Types DEF EventsInv, CooperativeCountersExact, DroppedCountsDiscarded, BetweenCalls,
               Uninterrupted, One
<1>2. QED
  BY <1>1, EventsInvHolds, PTL

\* publish_event never loses the event it was given, and without preemption
\* none that has not a full queue of later ones behind it.
THEOREM NewestIsKept == EventsSpec => []OnlyOverflowLoses
<1>1. EventsInv => OnlyOverflowLoses
  BY DEF EventsInv, OnlyOverflowLoses, NewestSurvives, Newest, Retrying, Uninterrupted
<1>2. QED
  BY <1>1, EventsInvHolds, PTL

\* next_event returns events in the order of their publication, none twice and
\* none that was discarded.
THEOREM EventsReceivedInOrder == EventsSpec => ReceivedInOrder
<1>1. ASSUME EventsInv, EventsNext, received' # received
      PROVE  received' > received /\ received' \notin lost
  <2>1. ReceiveEvent
    BY <1>1 DEF EventsNext, ProducerStep, ConsumerStep, Publish, DiscardOldest, CountDropped,
                Resend, CountAccepted, RecordDepth, CountConsumed, history
  <2>2. received' = events[1] /\ 1 \in 1 .. Len(events) /\ events[1] \in Nat
    BY <1>1, <2>1, TakenFromQueue DEF ReceiveEvent, EventsInv
  <2>3. QED
    BY <1>1, <2>2, Types DEF EventsInv, Order
<1>2. EventsInv /\ [EventsNext]_eventVars
        => [received' # received => received' > received /\ received' \notin lost]_eventVars
  BY <1>1
<1>3. QED
  BY <1>2, EventsInvHolds, PTL DEF EventsSpec, ReceivedInOrder

-----------------------------------------------------------------------------
(* The station address: what holds of it *)

\* Nobody but an owner ever publishes, and what it has stored is the beginning
\* of the address it was first given.
Publication ==
  /\ \A c \in Claimant : publishing[c] # NoAddress =>
       /\ place[c] = "split"
       /\ ~valid
       /\ publishing[c] = first
       /\ \A i \in 1 .. stored[c] : address[i] = first[i]
  /\ first # NoAddress => IsCapability(first)
  /\ first # NoAddress /\ ~valid => \E c \in Claimant : publishing[c] # NoAddress
  /\ valid => address = first /\ first # NoAddress

\* A snapshot under way has loaded the beginning of the first address.
Reading ==
  /\ loaded # None => valid /\ \A i \in 1 .. loaded : snapshot[i] = first[i]
  /\ returned # NoAddress => valid
  /\ SnapshotIsWhole

L2Inv == L2TypeOK /\ OneOwner /\ Publication /\ Reading

-----------------------------------------------------------------------------

LEMMA AddressType ==
  /\ NoAddress \in RawAddress
  /\ Width \in Nat \ {0}
  /\ None \notin Nat
  /\ \A raw : IsCapability(raw) => TryNew(raw) = raw /\ raw # NoAddress
<1>1. NoAddress \in RawAddress
  BY L2Assumption DEF NoAddress, RawAddress
<1>2. Width \in Nat \ {0} /\ None \notin Nat
  BY L2Assumption DEF None
<1>3. QED
  BY <1>1, <1>2 DEF IsCapability, TryNew

LEMMA InitEstablishesL2Inv == L2Init => L2Inv
<1> SUFFICES ASSUME L2Init PROVE L2Inv
  OBVIOUS
<1> USE DEF L2Init, OwnershipInit, CapabilitiesInit
<1>1. L2TypeOK
  <2>1. OwnershipTypeOK
    BY DEF OwnershipTypeOK, Place
  <2>2. publishing \in [Claimant -> RawAddress] /\ stored \in [Claimant -> 0 .. Width]
    BY AddressType
  <2>3. QED
    BY <2>1, <2>2, AddressType DEF L2TypeOK
<1>2. OneOwner
  BY DEF OneOwner, Owns
<1>3. Publication
  BY DEF Publication
<1>4. Reading
  BY DEF Reading, SnapshotIsWhole
<1>5. QED
  BY <1>1, <1>2, <1>3, <1>4 DEF L2Inv

\* init, split and drop keep one owner, and leave the address alone.
LEMMA OwnershipKeepsInv ==
  ASSUME L2Inv, NEW c \in Claimant, InitRadio(c) \/ Split(c) \/ Drop(c), UNCHANGED l2Vars
  PROVE  L2Inv'
<1>1. /\ place \in [Claimant -> Place] /\ claimed \in BOOLEAN
      /\ place' \in [Claimant -> Place] /\ claimed' \in BOOLEAN
      /\ \A d \in Claimant : d # c => place'[d] = place[d]
  BY DEF L2Inv, L2TypeOK, OwnershipTypeOK, InitRadio, Split, Drop, DropRadio, Place
<1>2. publishing[c] = NoAddress \/ place[c] = "unsplit" \/ place[c] \in {"outside", "refused"}
  BY DEF Drop, InitRadio, Split
<1>3. L2TypeOK'
  BY <1>1 DEF L2Inv, L2TypeOK, OwnershipTypeOK, l2Vars, writer, reader
<1>4. OneOwner'
  <2>1. CASE InitRadio(c)
    <3>1. claimed' = TRUE /\ place'[c] = IF claimed THEN "refused" ELSE "unsplit"
      BY <1>1, <2>1 DEF InitRadio
    <3>2. QED
      BY <1>1, <3>1 DEF L2Inv, OneOwner, Owns
  <2>2. CASE Split(c) \/ Drop(c)
    <3>1. claimed' = claimed /\ Owns(c) /\ place'[c] \in {"split", "dropped"}
      BY <1>1, <2>2 DEF Split, Drop, DropRadio, Owns
    <3>2. QED
      BY <1>1, <3>1 DEF L2Inv, OneOwner, Owns
  <2>3. QED
    BY <2>1, <2>2
<1>5. Publication'
  <2>1. \A d \in Claimant : publishing[d] # NoAddress => place'[d] = "split"
    BY <1>1, <1>2 DEF L2Inv, Publication
  <2>2. QED
    BY <2>1 DEF L2Inv, Publication, l2Vars, writer, reader, IsCapability
<1>6. Reading'
  BY DEF L2Inv, Reading, SnapshotIsWhole, l2Vars, writer, reader
<1>7. QED
  BY <1>3, <1>4, <1>5, <1>6 DEF L2Inv

\* The runner: one publisher, of the first address, which it completes before
\* the flag says so.
LEMMA RunnerKeepsInv ==
  ASSUME L2Inv, NEW c \in Claimant, place[c] = "split", RunnerStep(c), UNCHANGED ownership
  PROVE  L2Inv'
<1>1. OneOwner' /\ OwnershipTypeOK'
  BY DEF L2Inv, L2TypeOK, OneOwner, Owns, OwnershipTypeOK, ownership
<1>2. \A d \in Claimant : publishing[d] # NoAddress => d = c
  BY DEF L2Inv, Publication, OneOwner, Owns
<1>3. /\ address \in RawAddress /\ first \in RawAddress /\ snapshot \in RawAddress
      /\ returned \in RawAddress
      /\ publishing \in [Claimant -> RawAddress] /\ stored \in [Claimant -> 0 .. Width]
      /\ valid \in BOOLEAN /\ loaded \in {None} \cup 0 .. Width
  BY DEF L2Inv, L2TypeOK
<1>4. UNCHANGED reader
  BY DEF RunnerStep, PublishOnce, StoreByte, SetValid
<1>5. ASSUME NEW raw \in RawAddress, PublishOnce(c, raw)
      PROVE  L2Inv'
  <2>1. first = NoAddress
    BY <1>2, <1>5 DEF L2Inv, Publication, PublishOnce
  <2>2. first' = raw /\ raw # NoAddress /\ IsCapability(raw) /\ ~valid /\ UNCHANGED <<valid, address>>
    BY <1>5, <2>1 DEF PublishOnce, IsCapability
  <2>3. /\ publishing' \in [Claimant -> RawAddress] /\ stored' \in [Claimant -> 0 .. Width]
        /\ publishing'[c] = raw /\ stored'[c] = 0
        /\ \A d \in Claimant : d # c => publishing'[d] = publishing[d]
    BY <1>3, <1>5, AddressType DEF PublishOnce
  <2>4. L2TypeOK'
    BY <1>1, <1>3, <1>4, <2>2, <2>3 DEF L2TypeOK, reader
  <2>5. Publication'
    BY <1>2, <2>2, <2>3 DEF Publication, ownership, IsCapability
  <2>6. Reading'
    BY <1>4, <2>2 DEF L2Inv, Reading, SnapshotIsWhole, reader
  <2>7. QED
    BY <1>1, <2>4, <2>5, <2>6 DEF L2Inv
<1>6. CASE StoreByte(c)
  <2> DEFINE k == stored[c] + 1
  <2>1. /\ publishing[c] = first /\ first # NoAddress /\ ~valid
        /\ k \in Index /\ stored[c] \in Nat
        /\ \A i \in 1 .. stored[c] : address[i] = first[i]
    BY <1>3, <1>6, AddressType DEF StoreByte, L2Inv, Publication, Index
  <2>2. /\ address' = [address EXCEPT ![k] = first[k]]
        /\ stored' = [stored EXCEPT ![c] = k]
        /\ UNCHANGED <<valid, publishing, first>>
    BY <1>6, <2>1 DEF StoreByte
  <2>3. /\ address' \in RawAddress /\ address'[k] = first[k]
        /\ \A i \in Index : i # k => address'[i] = address[i]
    BY <1>3, <2>1, <2>2 DEF RawAddress
  <2>4. stored' \in [Claimant -> 0 .. Width] /\ stored'[c] = k
    BY <1>3, <2>1, <2>2, AddressType DEF Index
  <2>5. \A i \in 1 .. k : address'[i] = first[i]
    <3>1. \A i \in 1 .. k : i \in Index /\ (i = k \/ i \in 1 .. stored[c])
      BY <2>1, AddressType DEF Index
    <3>2. QED
      BY <2>1, <2>3, <3>1
  <2>6. L2TypeOK'
    BY <1>1, <1>3, <1>4, <2>2, <2>3, <2>4 DEF L2TypeOK, reader
  <2>7. Publication'
    BY <1>2, <2>1, <2>2, <2>4, <2>5 DEF L2Inv, Publication, ownership, IsCapability
  <2>8. Reading'
    BY <1>4, <2>2 DEF L2Inv, Reading, SnapshotIsWhole, reader
  <2>9. QED
    BY <1>1, <2>6, <2>7, <2>8 DEF L2Inv
<1>7. CASE SetValid(c)
  <2>1. /\ publishing[c] = first /\ first # NoAddress
        /\ \A i \in Index : address[i] = first[i]
        /\ valid' = TRUE /\ UNCHANGED <<address, stored, first>>
    BY <1>7 DEF SetValid, L2Inv, Publication, Index
  <2>2. address = first
    BY <1>3, <2>1 DEF RawAddress
  <2>3. /\ publishing' \in [Claimant -> RawAddress]
        /\ \A d \in Claimant : publishing'[d] = NoAddress
    BY <1>2, <1>3, <1>7, AddressType DEF SetValid
  <2>4. L2TypeOK'
    BY <1>1, <1>3, <1>4, <2>1, <2>3 DEF L2TypeOK, reader
  <2>5. Publication'
    BY <2>1, <2>2, <2>3 DEF L2Inv, Publication, IsCapability
  <2>6. Reading'
    BY <1>4, <2>1 DEF L2Inv, Reading, SnapshotIsWhole, reader
  <2>7. QED
    BY <1>1, <2>4, <2>5, <2>6 DEF L2Inv
<1>8. QED
  BY <1>5, <1>6, <1>7 DEF RunnerStep

\* The device: it reads behind the flag, where the address stands still.
LEMMA DeviceKeepsInv ==
  ASSUME L2Inv, DeviceStep, UNCHANGED ownership
  PROVE  L2Inv'
<1>1. UNCHANGED writer
  BY DEF DeviceStep, SnapshotNone, BeginSnapshot, LoadByte, ReturnSnapshot
<1>2. OneOwner' /\ OwnershipTypeOK' /\ Publication'
  BY <1>1 DEF L2Inv, L2TypeOK, OneOwner, Owns, OwnershipTypeOK, ownership, Publication,
              writer, IsCapability
<1>3. /\ address \in RawAddress /\ first \in RawAddress /\ snapshot \in RawAddress
      /\ returned \in RawAddress /\ loaded \in {None} \cup 0 .. Width
  BY DEF L2Inv, L2TypeOK
<1>4. valid => address = first /\ first # NoAddress /\ IsCapability(first)
  BY DEF L2Inv, Publication
<1>5. SUFFICES /\ snapshot' \in RawAddress /\ returned' \in RawAddress
               /\ loaded' \in {None} \cup 0 .. Width
               /\ Reading'
  BY <1>1, <1>2 DEF L2Inv, L2TypeOK, writer
<1>6. CASE SnapshotNone
  BY <1>1, <1>3, <1>6, AddressType DEF SnapshotNone, L2Inv, Reading, SnapshotIsWhole, writer
<1>7. CASE BeginSnapshot
  <2>1. 0 \in 0 .. Width /\ 0 # None
    BY AddressType
  <2>2. \A i \in 1 .. 0 : FALSE
    OBVIOUS
  <2>3. QED
    BY <1>1, <1>3, <1>7, <2>1, <2>2, AddressType
    DEF BeginSnapshot, L2Inv, Reading, SnapshotIsWhole, writer
<1>8. CASE LoadByte
  <2> DEFINE k == loaded + 1
  <2>1. valid /\ loaded \in Nat /\ k \in Index /\ k \in 0 .. Width
        /\ \A i \in 1 .. loaded : snapshot[i] = first[i]
    BY <1>3, <1>8, AddressType DEF LoadByte, L2Inv, Reading, Index
  <2>2. /\ snapshot' \in RawAddress /\ snapshot'[k] = first[k]
        /\ \A i \in Index : i # k => snapshot'[i] = snapshot[i]
    BY <1>3, <1>4, <1>8, <2>1 DEF LoadByte, RawAddress
  <2>3. \A i \in 1 .. k : snapshot'[i] = first[i]
    <3>1. \A i \in 1 .. k : i \in Index /\ (i = k \/ i \in 1 .. loaded)
      BY <2>1, AddressType DEF Index
    <3>2. QED
      BY <2>1, <2>2, <3>1
  <2>4. loaded' = k /\ UNCHANGED <<valid, first, returned>>
    BY <1>1, <1>8 DEF LoadByte, writer
  <2>5. QED
    BY <1>3, <2>1, <2>2, <2>3, <2>4 DEF L2Inv, Reading, SnapshotIsWhole
<1>9. CASE ReturnSnapshot
  <2>1. valid /\ \A i \in Index : snapshot[i] = first[i]
    BY <1>9, AddressType DEF ReturnSnapshot, L2Inv, Reading, Index
  <2>2. snapshot = first
    BY <1>3, <2>1 DEF RawAddress
  <2>3. returned' = first /\ loaded' = None /\ UNCHANGED <<valid, first, snapshot>>
    BY <1>1, <1>4, <1>9, <2>1, <2>2, AddressType DEF ReturnSnapshot, writer
  <2>4. QED
    BY <1>3, <2>1, <2>3 DEF Reading, SnapshotIsWhole
<1>10. QED
  BY <1>6, <1>7, <1>8, <1>9 DEF DeviceStep

LEMMA NextKeepsL2Inv == L2Inv /\ [L2Next]_radioVars => L2Inv'
<1> SUFFICES ASSUME L2Inv, [L2Next]_radioVars PROVE L2Inv'
  OBVIOUS
<1>1. CASE L2Next
  BY <1>1, OwnershipKeepsInv, RunnerKeepsInv, DeviceKeepsInv DEF L2Next
<1>2. CASE UNCHANGED radioVars
  BY <1>2 DEF radioVars, ownership, l2Vars, writer, reader, L2Inv, L2TypeOK, OwnershipTypeOK,
              OneOwner, Owns, Publication, Reading, SnapshotIsWhole, IsCapability
<1>3. QED
  BY <1>1, <1>2

-----------------------------------------------------------------------------

\* However many tasks call init, at most one of them ever owns the radio, and
\* it is claimed from then on.
THEOREM RadioHasOneOwner == L2Spec => []OneOwner
<1>1. L2Inv => OneOwner
  BY DEF L2Inv
<1>2. QED
  BY <1>1, InitEstablishesL2Inv, NextKeepsL2Inv, PTL DEF L2Spec

\* A snapshot is None or the whole first address, whatever the width of an
\* address and however stores and loads interleave.
THEOREM SnapshotsAreWhole == L2Spec => []L2Invariant
<1>1. L2Inv => L2Invariant
  BY DEF L2Inv, Reading, L2Invariant
<1>2. QED
  BY <1>1, InitEstablishesL2Inv, NextKeepsL2Inv, PTL DEF L2Spec

\* The device never sees the identity change or go away again.
THEOREM IdentityStays == L2Spec => IdentityIsImmutable
<1>1. L2Inv /\ [L2Next]_radioVars => [returned # NoAddress => returned' = returned]_radioVars
  <2> SUFFICES ASSUME L2Inv, L2Inv', L2Next, returned # NoAddress PROVE returned' = returned
    BY NextKeepsL2Inv
  <2>1. returned = first /\ valid
    BY DEF L2Inv, Reading, SnapshotIsWhole
  <2>2. first' = first
    BY <2>1 DEF L2Next, l2Vars, writer, RunnerStep, PublishOnce, StoreByte, SetValid,
                DeviceStep, SnapshotNone, BeginSnapshot, LoadByte, ReturnSnapshot
  <2>3. returned' # NoAddress
    <3>1. CASE ReturnSnapshot
      <4>1. snapshot = first
        <5>1. \A i \in Index : snapshot[i] = first[i]
          BY <3>1, AddressType DEF ReturnSnapshot, L2Inv, Reading, Index
        <5>2. snapshot \in RawAddress /\ first \in RawAddress
          BY DEF L2Inv, L2TypeOK
        <5>3. QED
          BY <5>1, <5>2 DEF RawAddress
      <4>2. IsCapability(first)
        BY <2>1 DEF L2Inv, Publication
      <4>3. QED
        BY <3>1, <4>1, <4>2, AddressType DEF ReturnSnapshot
    <3>2. CASE ~ReturnSnapshot
      <4>1. ASSUME NEW c \in Claimant, RunnerStep(c) PROVE returned' = returned
        BY <4>1 DEF RunnerStep, PublishOnce, StoreByte, SetValid, reader
      <4>2. DeviceStep => returned' = returned
        BY <2>1, <3>2 DEF DeviceStep, SnapshotNone, BeginSnapshot, LoadByte
      <4>3. UNCHANGED l2Vars => returned' = returned
        BY DEF l2Vars, reader
      <4>4. QED
        BY <4>1, <4>2, <4>3 DEF L2Next
    <3>3. QED
      BY <3>1, <3>2
  <2>4. QED
    BY <2>1, <2>2, <2>3 DEF L2Inv, Reading, SnapshotIsWhole
<1>2. QED
  BY <1>1, InitEstablishesL2Inv, NextKeepsL2Inv, PTL DEF L2Spec, IdentityIsImmutable
=============================================================================
