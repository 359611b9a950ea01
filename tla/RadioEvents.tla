----------------------------- MODULE RadioEvents -----------------------------
(***************************************************************************)
(* The event queue of src/state.rs: publish_event of the runner against    *)
(* next_event of the controller.  A full queue loses its oldest event.     *)
(*                                                                         *)
(* Every operation on the channel and on each counter is atomic, but none  *)
(* is together with another.  Whether the controller may run inside        *)
(* publish_event, and the runner inside next_event, is fixed at the start. *)
(*                                                                         *)
(* Events are numbered in the order they are published; what they say is   *)
(* data no property looks at.                                              *)
(***************************************************************************)
EXTENDS Integers, Sequences, FiniteSets

CONSTANTS
  Capacity,     \* EVENTS, the depth of the queue
  CounterMax,   \* u32::MAX, where the counters saturate
  MaxEvent,     \* bounds the events published
  Preemption    \* the values `preemptive' may have

ASSUME RadioEventsAssumption ==
  /\ Capacity \in Nat \ {0}
  /\ CounterMax \in Nat \ {0}
  /\ MaxEvent \in Nat
  /\ Preemption \subseteq BOOLEAN

VARIABLES
  preemptive,   \* may one party run inside the other's call; never changes
  events,       \* the channel
  accepted, consumed, dropped, highWater,   \* the four counters
  producer,     \* how far publish_event is
  consumer,     \* is next_event between the channel and its counter
  published,    \* history: the last event given to publish_event
  lost,         \* history: events taken out of the queue to make room
  received,     \* history: the last event the controller received
  peak          \* history: the largest length of the queue

counters == <<accepted, consumed, dropped, highWater>>
history == <<published, lost, received, peak>>
eventVars == <<preemptive, events, counters, producer, consumer, history>>

Event == 1 .. MaxEvent

EventsTypeOK ==
  /\ preemptive \in Preemption
  /\ events \in Seq(Event) /\ Len(events) <= Capacity
  /\ {accepted, consumed, dropped} \subseteq 0 .. CounterMax
  /\ highWater \in 0 .. Capacity /\ peak \in 0 .. Capacity
  /\ producer \in {"idle", "full", "discarded", "resend", "sent", "measure"}
  /\ consumer \in {"idle", "taken"}
  /\ published \in 0 .. MaxEvent /\ received \in 0 .. MaxEvent
  /\ lost \subseteq Event

EventsInit ==
  /\ preemptive \in Preemption
  /\ events = <<>>
  /\ accepted = 0 /\ consumed = 0 /\ dropped = 0 /\ highWater = 0
  /\ producer = "idle"
  /\ consumer = "idle"
  /\ published = 0 /\ lost = {} /\ received = 0 /\ peak = 0

-----------------------------------------------------------------------------

SaturatingIncrement(counter) == IF counter = CounterMax THEN counter ELSE counter + 1

Larger(m, n) == IF m < n THEN n ELSE m

ProducerMayRun == preemptive \/ consumer = "idle"
ConsumerMayRun == preemptive \/ producer = "idle"

\* try_send, which leaves a full channel as it is.
TrySend(event, sent, full) ==
  IF Len(events) < Capacity
  THEN /\ events' = Append(events, event)
       /\ peak' = Larger(peak, Len(events) + 1)
       /\ producer' = sent
  ELSE UNCHANGED <<events, peak>> /\ producer' = full

Publish ==
  /\ ProducerMayRun
  /\ producer = "idle"
  /\ published < MaxEvent
  /\ published' = published + 1
  /\ TrySend(published + 1, "sent", "full")
  /\ UNCHANGED <<counters, consumer, lost, received>>

\* Mutant: a full queue loses its newest event.
DiscardNewest ==
  /\ producer = "full"
  /\ events # <<>>
  /\ lost' = lost \cup {events[Len(events)]}
  /\ events' = SubSeq(events, 1, Len(events) - 1)
  /\ producer' = "discarded"
  /\ UNCHANGED <<counters, consumer, published, received, peak>>

\* The oldest event goes, if the controller has left one by now.
DiscardOldest ==
  /\ producer = "full"
  /\ IF events = <<>> THEN UNCHANGED <<events, lost>>
     ELSE events' = Tail(events) /\ lost' = lost \cup {Head(events)}
  /\ producer' = "discarded"
  /\ UNCHANGED <<counters, consumer, published, received, peak>>

\* Mutant: the counter is stored, not incremented.
StoreDropped ==
  /\ producer = "discarded"
  /\ dropped' = 1
  /\ producer' = "resend"
  /\ UNCHANGED <<events, accepted, consumed, highWater, consumer, history>>

CountDropped ==
  /\ producer = "discarded"
  /\ dropped' = SaturatingIncrement(dropped)
  /\ producer' = "resend"
  /\ UNCHANGED <<events, accepted, consumed, highWater, consumer, history>>

\* Mutant: the event that found the queue full is not tried again.
ResendSkipped ==
  /\ producer = "resend"
  /\ producer' = "measure"
  /\ UNCHANGED <<events, counters, consumer, history>>

Resend ==
  /\ producer = "resend"
  /\ TrySend(published, "sent", "measure")
  /\ UNCHANGED <<counters, consumer, published, lost, received>>

\* Mutant: the event that replaced another one is not counted.
CountAcceptedUnlessFull ==
  /\ producer = "sent"
  /\ accepted' = IF Len(events) = Capacity THEN accepted ELSE SaturatingIncrement(accepted)
  /\ producer' = "measure"
  /\ UNCHANGED <<events, consumed, dropped, highWater, consumer, history>>

CountAccepted ==
  /\ producer = "sent"
  /\ accepted' = SaturatingIncrement(accepted)
  /\ producer' = "measure"
  /\ UNCHANGED <<events, consumed, dropped, highWater, consumer, history>>

RecordDepth ==
  /\ producer = "measure"
  /\ highWater' = Larger(highWater, Len(events))
  /\ producer' = "idle"
  /\ UNCHANGED <<events, accepted, consumed, dropped, consumer, history>>

\* Mutant: the newest event is received first.
ReceiveNewest ==
  /\ ConsumerMayRun
  /\ consumer = "idle"
  /\ events # <<>>
  /\ received' = events[Len(events)]
  /\ events' = SubSeq(events, 1, Len(events) - 1)
  /\ consumer' = "taken"
  /\ UNCHANGED <<counters, producer, published, lost, peak>>

ReceiveEvent ==
  /\ ConsumerMayRun
  /\ consumer = "idle"
  /\ events # <<>>
  /\ received' = Head(events)
  /\ events' = Tail(events)
  /\ consumer' = "taken"
  /\ UNCHANGED <<counters, producer, published, lost, peak>>

CountConsumed ==
  /\ consumer = "taken"
  /\ consumed' = SaturatingIncrement(consumed)
  /\ consumer' = "idle"
  /\ UNCHANGED <<events, accepted, dropped, highWater, producer, history>>

ProducerStep ==
  \/ Publish
  \/ DiscardOldest
  \/ CountDropped
  \/ Resend
  \/ CountAccepted
  \/ RecordDepth

ConsumerStep == ReceiveEvent \/ CountConsumed

EventsNext == (ProducerStep \/ ConsumerStep) /\ UNCHANGED preemptive

EventsSpec == EventsInit /\ [][EventsNext]_eventVars

-----------------------------------------------------------------------------
(* Properties *)

BetweenCalls == producer = "idle" /\ consumer = "idle"

\* Between calls the counters account for every event: what was accepted is
\* waiting, consumed or dropped.  A counter that has saturated counts no more.
CountersAddUp ==
  BetweenCalls /\ accepted < CounterMax => accepted = consumed + Len(events) + Cardinality(lost)

\* Every variable has its type, so no counter passes its limit, and the
\* counters account for every event.
EventsInvariant == EventsTypeOK /\ CountersAddUp

\* The dropped counter says how many events were discarded because the queue
\* was full.
DroppedCountsDiscarded ==
  BetweenCalls /\ dropped < CounterMax => dropped = Cardinality(lost)

\* On one cooperative executor it does, and the high water mark is the
\* largest length there ever was.
CooperativeCountersExact ==
  ~preemptive => DroppedCountsDiscarded /\ (BetweenCalls => highWater = peak)

\* The event that publish_event was last given is never the one it loses,
\* even if the controller empties the queue in the middle of the call.
NewestSurvives ==
  producer = "idle" /\ published > 0 =>
    received = published \/ (events # <<>> /\ events[Len(events)] = published)

\* What a full queue loses is the oldest: never the event just published,
\* and on one cooperative executor only one with a queue full of later ones.
OnlyOverflowLoses ==
  NewestSurvives /\ (~preemptive => \A e \in lost : published >= e + Capacity)

\* The controller receives events in the order of their publication, none
\* twice and none that was discarded.
ReceivedInOrder ==
  [][received' # received => received' > received /\ received' \notin lost]_eventVars
=============================================================================
