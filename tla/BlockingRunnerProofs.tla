------------------------- MODULE BlockingRunnerProofs -------------------------
(***************************************************************************)
(* The blocking runner and its controller for any number of commands and   *)
(* every pair of channel capacities that leaves two places for the         *)
(* requests of commands that have left their channel.                      *)
(*                                                                         *)
(* Commands are received in the order they were sent, so Received says     *)
(* which are in the channel (Queue) and which are answered (Progress).  A  *)
(* future waits for the last command sent, and every other command is      *)
(* answered or dropped (Caller).  The requests in the channel ascend, all  *)
(* at least the oldest that can still be unread (Requests), hence they are *)
(* few.  A request that is discarded belongs to an answered command, since *)
(* an unanswered one before it would have a request in front of it.        *)
(***************************************************************************)
EXTENDS BlockingRunner, TLAPS

\* The last command that the runner took out of the channel.
Received == sent - Len(commands)

Queue ==
  /\ Received \in Nat
  /\ \A i \in 1 .. Len(commands) : commands[i] = Received + i

Progress ==
  /\ current # NoSequence <=> step \in {"drain", "perform", "signal"}
  /\ current # NoSequence => current = Received
  /\ \A s \in CommandNumber : answers[s] = "None" <=> s > Received \/ s = current
  /\ result # "None" <=> step = "signal"
  /\ completion # NoCompletion => answers[completion.sequence] # "None"

Caller ==
  /\ controller = "sending" => sent < MaxSequence
  /\ controller = "waiting" => awaited = sent /\ sent # NoSequence /\ sent \notin dropped
  /\ controller = "copying" => commands = <<>> /\ current = NoSequence
  /\ \A s \in dropped : s <= sent
  /\ \A s \in 1 .. sent : answers[s] = "None" =>
       s \in dropped \/ (controller = "waiting" /\ s = sent)

OldestRequest == IF step = "drain" THEN Received - 1 ELSE Received

Requests ==
  /\ \A i \in 1 .. Len(cancellations) :
       cancellations[i] \in dropped /\ cancellations[i] >= OldestRequest
  /\ \A i, j \in 1 .. Len(cancellations) :
       i <= j => cancellations[j] - cancellations[i] >= j - i

BlockingInv ==
  /\ BlockingTypeOK
  /\ Queue
  /\ Progress
  /\ Caller
  /\ Requests
  /\ DropRequestsCancel

-----------------------------------------------------------------------------
(* Channels *)

LEMMA TailOf ==
  ASSUME NEW S, NEW q \in Seq(S), q # <<>>
  PROVE  /\ Tail(q) \in Seq(S)
         /\ Len(q) \in Nat \ {0}
         /\ Len(Tail(q)) = Len(q) - 1
         /\ Head(q) = q[1]
         /\ \A i \in 1 .. Len(q) : q[i] \in S
         /\ \A i \in 1 .. Len(Tail(q)) : Tail(q)[i] = q[i + 1]
OBVIOUS

LEMMA AppendOf ==
  ASSUME NEW S, NEW q \in Seq(S), NEW e \in S
  PROVE  /\ Append(q, e) \in Seq(S)
         /\ Len(q) \in Nat
         /\ Len(Append(q, e)) = Len(q) + 1
         /\ Append(q, e)[Len(q) + 1] = e
         /\ \A i \in 1 .. Len(q) : Append(q, e)[i] = q[i]
OBVIOUS

\* The types that the arithmetic below needs.
LEMMA Types ==
  ASSUME BlockingTypeOK
  PROVE  /\ MaxSequence \in Nat /\ sent \in 0 .. MaxSequence
         /\ commands \in Seq(Nat) /\ Len(commands) \in Nat
         /\ cancellations \in Seq(Nat) /\ Len(cancellations) \in Nat
         /\ current \in Nat /\ awaited \in Nat
         /\ dropped \subseteq Nat
         /\ Received \in Int
BY BlockingAssumption
DEF BlockingAssumption, BlockingTypeOK, ControllerTypeOK, CommandNumber, NoSequence, Received

\* The requests are those of commands dropped since the oldest one that can be
\* unread, each once: while a future waits there is room for its own.
LEMMA RequestsFit == BlockingInv => CancellationsFit
<1> SUFFICES ASSUME BlockingInv, controller = "waiting"
             PROVE  Len(cancellations) < CancellationCapacity
  BY DEF CancellationsFit, RequestHasRoom
<1> DEFINE n == Len(cancellations)
<1>1. n \in Nat /\ Received \in Int /\ sent \in Nat /\ dropped \subseteq Nat
  BY Types DEF BlockingInv
<1>2. Len(commands) \in Nat /\ Len(commands) <= CommandCapacity
  BY Types DEF BlockingInv, BlockingTypeOK, ControllerTypeOK
<1>3. CancellationCapacity \in Nat /\ CancellationCapacity >= CommandCapacity + 2 /\ CommandCapacity \in Nat
  BY BlockingAssumption DEF BlockingAssumption
<1>4. CASE n = 0
  BY <1>2, <1>3, <1>4
<1>5. CASE n # 0
  <2>1. 1 \in 1 .. n /\ n \in 1 .. n /\ 1 <= n
    BY <1>1, <1>5
  <2>2. cancellations[n] - cancellations[1] >= n - 1
    BY <2>1 DEF BlockingInv, Requests
  <2>3. cancellations[1] \in Nat /\ cancellations[1] >= Received - 1
    <3>1. cancellations[1] \in dropped /\ cancellations[1] >= OldestRequest
      BY <2>1 DEF BlockingInv, Requests
    <3>2. OldestRequest \in Int /\ OldestRequest >= Received - 1
      BY <1>1 DEF OldestRequest
    <3>3. cancellations[1] \in Nat
      BY <1>1, <3>1
    <3>4. QED
      BY <1>1, <3>1, <3>2, <3>3
  <2>4. cancellations[n] \in Nat /\ cancellations[n] <= sent - 1
    <3>1. cancellations[n] \in dropped
      BY <2>1 DEF BlockingInv, Requests
    <3>2. cancellations[n] <= sent /\ cancellations[n] # sent
      BY <3>1 DEF BlockingInv, Caller
    <3>3. cancellations[n] \in Nat
      BY <1>1, <3>1
    <3>4. QED
      BY <1>1, <3>2, <3>3
  <2>5. n <= Len(commands) + 1
    BY <1>1, <1>2, <2>2, <2>3, <2>4 DEF Received
  <2>6. QED
    BY <1>1, <1>2, <1>3, <2>5
<1>6. QED
  BY <1>4, <1>5

-----------------------------------------------------------------------------
(* The invariant holds initially *)

LEMMA InitEstablishesInv == BlockingInit => BlockingInv
<1> SUFFICES ASSUME BlockingInit PROVE BlockingInv
  OBVIOUS
<1> USE DEF BlockingInit, ControllerInit
<1>1. BlockingTypeOK
  BY BlockingAssumption
  DEF BlockingAssumption, BlockingTypeOK, ControllerTypeOK, CommandNumber, FuturePlace
<1>2. Queue
  BY DEF Queue, Received
<1>3. Progress
  BY DEF Progress, Received, CommandNumber, NoSequence
<1>4. Caller
  BY DEF Caller
<1>5. Requests /\ DropRequestsCancel
  BY DEF Requests, DropRequestsCancel
<1>6. QED
  BY <1>1, <1>2, <1>3, <1>4, <1>5 DEF BlockingInv

-----------------------------------------------------------------------------
(* The runner keeps it *)

\* A command is received when none is current, and the request for the one
\* before it may still be unread.
LEMMA ReceiveKeepsInv ==
  ASSUME BlockingInv, ReceiveCommand
  PROVE  BlockingInv'
<1> USE DEF BlockingInv, caller
<1> DEFINE c == Received + 1
<1>1. /\ Tail(commands) \in Seq(CommandNumber)
      /\ Len(commands) \in Nat \ {0}
      /\ Len(commands') = Len(commands) - 1
      /\ Head(commands) = commands[1] /\ commands[1] \in CommandNumber
      /\ \A i \in 1 .. Len(commands') : commands'[i] = commands[i + 1]
  BY TailOf DEF ReceiveCommand, BlockingTypeOK, ControllerTypeOK
<1>2. current' = c /\ c \in CommandNumber /\ c \in Nat /\ Received \in Nat
  BY <1>1 DEF ReceiveCommand, Queue, CommandNumber
<1>3. Received' = c /\ current = NoSequence /\ c # NoSequence
  BY <1>1, <1>2, Types DEF ReceiveCommand, Received, Progress, NoSequence, Queue
<1>4. BlockingTypeOK'
  <2>1. Len(commands') <= CommandCapacity
    BY <1>1, BlockingAssumption DEF BlockingAssumption, BlockingTypeOK, ControllerTypeOK
  <2>2. QED
    BY <1>1, <1>2, <2>1 DEF ReceiveCommand, BlockingTypeOK, ControllerTypeOK
<1>5. Queue'
  BY <1>1, <1>2, <1>3 DEF Queue
<1>6. Progress'
  <2>1. ASSUME NEW s \in CommandNumber
        PROVE  (answers[s] = "None" <=> s > Received \/ s = current)'
    <3>1. s \in Nat /\ s # NoSequence
      BY Types DEF CommandNumber, NoSequence
    <3>2. QED
      BY <1>2, <1>3, <2>1, <3>1 DEF ReceiveCommand, Progress
  <2>2. QED
    BY <1>2, <1>3, <2>1 DEF ReceiveCommand, Progress, CommandNumber
<1>7. Caller'
  <2>1. commands # <<>>
    BY DEF ReceiveCommand
  <2>2. QED
    BY <2>1 DEF ReceiveCommand, Caller
<1>8. Requests'
  BY <1>2, <1>3 DEF ReceiveCommand, Requests, OldestRequest
<1>9. DropRequestsCancel'
  BY DEF ReceiveCommand, DropRequestsCancel
<1>10. QED
  BY <1>4, <1>5, <1>6, <1>7, <1>8, <1>9

LEMMA NothingToReceiveKeepsInv ==
  ASSUME BlockingInv, NothingToReceive
  PROVE  BlockingInv'
BY DEF NothingToReceive, BlockingInv, BlockingTypeOK, ControllerTypeOK, Queue, Progress,
       Caller, Requests, OldestRequest, DropRequestsCancel, Received, controllerVars, caller

\* What is taken out of the cancellation channel without the other requests
\* losing their order.
LEMMA TakenRequest ==
  ASSUME BlockingInv, cancellations # <<>>, cancellations' = Tail(cancellations)
  PROVE  /\ cancellations' \in Seq(CommandNumber)
         /\ Len(cancellations) \in Nat \ {0}
         /\ Len(cancellations') = Len(cancellations) - 1
         /\ Head(cancellations) = cancellations[1]
         /\ cancellations[1] \in CommandNumber
         /\ \A i \in 1 .. Len(cancellations') : cancellations'[i] = cancellations[i + 1]
         /\ \A i \in 1 .. Len(cancellations') : cancellations'[i] > cancellations[1]
         /\ \A i, j \in 1 .. Len(cancellations') :
              i <= j => cancellations'[j] - cancellations'[i] >= j - i
<1>1. cancellations \in Seq(CommandNumber)
  BY DEF BlockingInv, BlockingTypeOK, ControllerTypeOK
<1>2. /\ cancellations' \in Seq(CommandNumber)
      /\ Len(cancellations) \in Nat \ {0}
      /\ Len(cancellations') = Len(cancellations) - 1
      /\ Head(cancellations) = cancellations[1]
      /\ \A i \in 1 .. Len(cancellations) : cancellations[i] \in CommandNumber
      /\ \A i \in 1 .. Len(cancellations') : cancellations'[i] = cancellations[i + 1]
  BY <1>1, TailOf
<1>3. \A i, j \in 1 .. Len(cancellations) :
        i <= j => cancellations[j] - cancellations[i] >= j - i
  BY DEF BlockingInv, Requests
<1>4. CommandNumber \subseteq Nat
  BY BlockingAssumption DEF BlockingAssumption, CommandNumber
<1>5. ASSUME NEW i \in 1 .. Len(cancellations')
      PROVE  cancellations'[i] > cancellations[1]
  <2>1. 1 \in 1 .. Len(cancellations) /\ i + 1 \in 1 .. Len(cancellations) /\ 1 <= i + 1 /\ i \in Nat \ {0}
    BY <1>2, <1>5
  <2>2. cancellations[i + 1] - cancellations[1] >= (i + 1) - 1
    BY <1>3, <2>1
  <2>3. cancellations[i + 1] \in Nat /\ cancellations[1] \in Nat
    BY <1>2, <1>4, <2>1
  <2>4. QED
    BY <1>2, <1>5, <2>1, <2>2, <2>3
<1>6. ASSUME NEW i \in 1 .. Len(cancellations'), NEW j \in 1 .. Len(cancellations'), i <= j
      PROVE  cancellations'[j] - cancellations'[i] >= j - i
  <2>1. /\ i + 1 \in 1 .. Len(cancellations) /\ j + 1 \in 1 .. Len(cancellations)
        /\ i + 1 <= j + 1 /\ i \in Nat /\ j \in Nat
    BY <1>2, <1>6
  <2>2. cancellations[j + 1] - cancellations[i + 1] >= (j + 1) - (i + 1)
    BY <1>3, <2>1
  <2>3. QED
    BY <1>2, <2>1, <2>2
<1>7. 1 \in 1 .. Len(cancellations)
  BY <1>2
<1>8. QED
  BY <1>2, <1>5, <1>6, <1>7

\* The command that is to be performed and was dropped has its request in the
\* channel, and no later one is in front of it.
LEMMA DiscardedIsAnswered ==
  ASSUME BlockingInv, step = "drain", cancellations # <<>>, Head(cancellations) # current
  PROVE  answers[cancellations[1]] # "None"
<1> DEFINE head == cancellations[1]
<1> SUFFICES ASSUME answers[head] = "None" PROVE FALSE
  OBVIOUS
<1>1. /\ Len(cancellations) \in Nat \ {0}
      /\ Head(cancellations) = head
      /\ head \in CommandNumber
  BY TailOf DEF BlockingInv, BlockingTypeOK, ControllerTypeOK
<1>2. /\ head \in Nat /\ sent \in Nat /\ current \in Nat \ {0}
      /\ MaxSequence \in Nat /\ sent <= MaxSequence /\ current = Received
  BY <1>1, Types DEF BlockingInv, Progress, CommandNumber, NoSequence
<1>3. head > current
  <2>1. head > Received \/ head = current
    BY <1>1 DEF BlockingInv, Progress
  <2>2. QED
    BY <1>1, <1>2, <2>1
<1>4. head <= sent
  <2>1. head \in dropped
    BY <1>1 DEF BlockingInv, Requests
  <2>2. QED
    BY <2>1 DEF BlockingInv, Caller
<1>5. current \in CommandNumber /\ answers[current] = "None"
  BY <1>2, <1>3, <1>4 DEF BlockingInv, Progress, CommandNumber
<1>6. current \in dropped
  BY <1>2, <1>3, <1>4, <1>5 DEF BlockingInv, Caller
<1>7. PICK i \in 1 .. Len(cancellations) : cancellations[i] = current
  BY <1>5, <1>6 DEF BlockingInv, DropRequestsCancel
<1>8. cancellations[i] - cancellations[1] >= i - 1
  BY <1>1, <1>7 DEF BlockingInv, Requests
<1>9. QED
  BY <1>1, <1>2, <1>3, <1>7, <1>8

\* Taking a request out of the channel while the runner drains it, and going on
\* to where Received is not before the oldest request.
LEMMA DiscardKeepsInv ==
  ASSUME BlockingInv, DiscardStaleCancellation
  PROVE  BlockingInv'
<1> USE DEF BlockingInv, runnerSide, caller, DiscardStaleCancellation
<1>1. /\ cancellations' \in Seq(CommandNumber)
      /\ Len(cancellations) \in Nat \ {0}
      /\ Len(cancellations') = Len(cancellations) - 1
      /\ \A i \in 1 .. Len(cancellations') : cancellations'[i] = cancellations[i + 1]
      /\ \A i, j \in 1 .. Len(cancellations') :
           i <= j => cancellations'[j] - cancellations'[i] >= j - i
  BY TakenRequest
<1>2. BlockingTypeOK'
  <2>1. Len(cancellations') <= CancellationCapacity
    BY <1>1, BlockingAssumption DEF BlockingAssumption, BlockingTypeOK, ControllerTypeOK
  <2>2. QED
    BY <1>1, <2>1 DEF BlockingTypeOK, ControllerTypeOK
<1>3. Queue' /\ Progress' /\ Caller'
  BY DEF Queue, Progress, Caller, Received
<1>4. Requests'
  <2>1. ASSUME NEW i \in 1 .. Len(cancellations')
        PROVE  cancellations'[i] \in dropped /\ cancellations'[i] >= OldestRequest
    <3>1. i + 1 \in 1 .. Len(cancellations) /\ cancellations'[i] = cancellations[i + 1]
      BY <1>1, <2>1
    <3>2. QED
      BY <3>1 DEF Requests
  <2>2. QED
    BY <1>1, <2>1 DEF Requests, OldestRequest, Received
<1>5. DropRequestsCancel'
  <2>1. ASSUME NEW s \in dropped, answers[s] = "None"
        PROVE  \E i \in 1 .. Len(cancellations') : cancellations'[i] = s
    <3>1. PICK k \in 1 .. Len(cancellations) : cancellations[k] = s
      BY <2>1 DEF DropRequestsCancel
    <3>2. k # 1
      BY <2>1, <3>1, DiscardedIsAnswered
    <3>3. k - 1 \in 1 .. Len(cancellations') /\ cancellations'[k - 1] = s
      BY <1>1, <3>1, <3>2
    <3>4. QED
      BY <3>3
  <2>2. QED
    BY <2>1 DEF DropRequestsCancel
<1>6. QED
  BY <1>2, <1>3, <1>4, <1>5

LEMMA CancelKeepsInv ==
  ASSUME BlockingInv, CancelCommand
  PROVE  BlockingInv'
<1> USE DEF BlockingInv, caller, CancelCommand
<1>1. /\ cancellations' \in Seq(CommandNumber)
      /\ Len(cancellations) \in Nat \ {0}
      /\ Len(cancellations') = Len(cancellations) - 1
      /\ cancellations[1] = current
      /\ \A i \in 1 .. Len(cancellations') : cancellations'[i] = cancellations[i + 1]
      /\ \A i \in 1 .. Len(cancellations') : cancellations'[i] > cancellations[1]
      /\ \A i, j \in 1 .. Len(cancellations') :
           i <= j => cancellations'[j] - cancellations'[i] >= j - i
  BY TakenRequest
<1>2. current \in Nat /\ current = Received
  BY Types DEF Progress
<1>3. BlockingTypeOK'
  <2>1. Len(cancellations') <= CancellationCapacity
    BY <1>1, BlockingAssumption DEF BlockingAssumption, BlockingTypeOK, ControllerTypeOK
  <2>2. QED
    BY <1>1, <2>1 DEF BlockingTypeOK, ControllerTypeOK, Result
<1>4. Queue' /\ Progress' /\ Caller'
  BY DEF Queue, Progress, Caller, Received
<1>5. Requests'
  <2>1. ASSUME NEW i \in 1 .. Len(cancellations')
        PROVE  cancellations'[i] \in dropped /\ cancellations'[i] >= Received
    <3>1. i + 1 \in 1 .. Len(cancellations) /\ cancellations'[i] = cancellations[i + 1]
      BY <1>1, <2>1
    <3>2. cancellations'[i] \in dropped
      BY <3>1 DEF Requests
    <3>3. cancellations'[i] \in Nat /\ cancellations'[i] > current
      BY <1>1, <2>1, <3>2, Types
    <3>4. QED
      BY <1>2, <3>2, <3>3
  <2>2. OldestRequest' = Received /\ dropped' = dropped
    BY DEF OldestRequest, Received
  <2>3. QED
    BY <1>1, <2>1, <2>2 DEF Requests
<1>6. DropRequestsCancel'
  <2>1. ASSUME NEW s \in dropped, answers[s] = "None", s # current
        PROVE  \E i \in 1 .. Len(cancellations') : cancellations'[i] = s
    <3>1. PICK k \in 1 .. Len(cancellations) : cancellations[k] = s
      BY <2>1 DEF DropRequestsCancel
    <3>2. k - 1 \in 1 .. Len(cancellations') /\ cancellations'[k - 1] = s
      BY <1>1, <2>1, <3>1
    <3>3. QED
      BY <3>2
  <2>2. QED
    BY <2>1 DEF DropRequestsCancel
<1>7. QED
  BY <1>3, <1>4, <1>5, <1>6

LEMMA BeginKeepsInv ==
  ASSUME BlockingInv, BeginCommand
  PROVE  BlockingInv'
<1> USE DEF BlockingInv, caller, controllerVars, BeginCommand
<1>1. Len(cancellations) = 0
  OBVIOUS
<1>2. BlockingTypeOK' /\ Queue' /\ Progress' /\ Caller'
  BY DEF BlockingTypeOK, ControllerTypeOK, Queue, Progress, Caller, Received
<1>3. Requests' /\ DropRequestsCancel'
  BY <1>1 DEF Requests, DropRequestsCancel
<1>4. QED
  BY <1>2, <1>3

LEMMA PerformKeepsInv ==
  ASSUME BlockingInv, NEW outcome \in {"Completed", "Failed"}, PerformCommand(outcome)
  PROVE  BlockingInv'
<1> USE DEF BlockingInv, caller, controllerVars, PerformCommand
<1>1. BlockingTypeOK' /\ Queue' /\ Progress' /\ Caller'
  BY DEF BlockingTypeOK, ControllerTypeOK, Result, Queue, Progress, Caller, Received
<1>2. Requests' /\ DropRequestsCancel'
  BY DEF Requests, OldestRequest, Received, DropRequestsCancel
<1>3. QED
  BY <1>1, <1>2

LEMMA SignalKeepsInv ==
  ASSUME BlockingInv, SignalCompletion
  PROVE  BlockingInv'
<1> USE DEF BlockingInv, caller, SignalCompletion
<1>1. /\ current \in CommandNumber /\ current = Received /\ current \in Nat \ {0}
      /\ result \in Result /\ result # "None"
      /\ answers' \in [CommandNumber -> Result \cup {"None"}]
      /\ \A s \in CommandNumber : answers'[s] = IF s = current THEN result ELSE answers[s]
  BY Types DEF Progress, BlockingTypeOK, NoSequence, Result
<1>2. Received' = Received /\ current' = NoSequence
  BY DEF Received
<1>3. BlockingTypeOK'
  BY <1>1 DEF BlockingTypeOK, ControllerTypeOK
<1>4. Queue'
  BY DEF Queue, Received
<1>5. Progress'
  <2>1. ASSUME NEW s \in CommandNumber
        PROVE  (answers[s] = "None" <=> s > Received \/ s = current)'
    <3>1. s \in Nat \ {0}
      BY Types DEF CommandNumber
    <3>2. answers[s] = "None" <=> s > Received \/ s = current
      BY DEF Progress
    <3>3. QED
      BY <1>1, <1>2, <3>1, <3>2 DEF NoSequence
  <2>2. completion'.sequence = current /\ answers'[current] # "None"
    BY <1>1
  <2>3. QED
    BY <1>2, <2>1, <2>2 DEF Progress
<1>6. Caller'
  <2>1. ASSUME NEW s \in 1 .. sent, answers'[s] = "None"
        PROVE  s \in dropped \/ (controller = "waiting" /\ s = sent)
    <3>1. s \in CommandNumber
      BY Types DEF CommandNumber
    <3>2. QED
      BY <1>1, <2>1, <3>1 DEF Caller
  <2>2. QED
    BY <1>2, <2>1 DEF Caller
<1>7. Requests'
  BY <1>2 DEF Requests, OldestRequest
<1>8. DropRequestsCancel'
  <2>1. dropped \subseteq CommandNumber
    BY DEF BlockingTypeOK, ControllerTypeOK
  <2>2. QED
    BY <1>1, <2>1 DEF DropRequestsCancel
<1>9. QED
  BY <1>3, <1>4, <1>5, <1>6, <1>7, <1>8

LEMMA PollKeepsInv ==
  ASSUME BlockingInv, NEW error \in PollError \cup {NoSequence}, PollBackground(error)
  PROVE  BlockingInv'
<1> USE DEF BlockingInv, caller, controllerVars, PollBackground
<1>1. BlockingTypeOK' /\ Queue' /\ Progress' /\ Caller'
  BY DEF BlockingTypeOK, ControllerTypeOK, Queue, Progress, Caller, Received
<1>2. Requests' /\ DropRequestsCancel'
  BY DEF Requests, OldestRequest, Received, DropRequestsCancel
<1>3. QED
  BY <1>1, <1>2

-----------------------------------------------------------------------------
(* The controller keeps it *)

LEMMA SendKeepsInv ==
  ASSUME BlockingInv, SendCommand, UNCHANGED runnerSide
  PROVE  BlockingInv'
<1> USE DEF BlockingInv, runnerSide, SendCommand
<1>1. sent \in Nat /\ sent' = sent + 1 /\ sent' \in Nat
  BY Types
<1>2. sent < MaxSequence /\ sent' \in CommandNumber
  BY <1>1, Types DEF Caller, CommandNumber
<1>3. /\ commands' \in Seq(CommandNumber)
      /\ Len(commands) \in Nat
      /\ Len(commands') = Len(commands) + 1
      /\ commands'[Len(commands) + 1] = sent'
      /\ \A i \in 1 .. Len(commands) : commands'[i] = commands[i]
  BY <1>1, <1>2, AppendOf DEF BlockingTypeOK, ControllerTypeOK
<1>4. Received' = Received /\ Received \in Nat /\ Received <= sent
  BY <1>1, <1>3 DEF Received, Queue
<1>5. BlockingTypeOK'
  <2>1. Len(commands') <= CommandCapacity
    BY <1>3, BlockingAssumption DEF BlockingAssumption
  <2>2. sent' \in 0 .. MaxSequence /\ awaited' \in CommandNumber \cup {NoSequence}
    BY <1>1, <1>2, Types
  <2>3. QED
    BY <1>3, <2>1, <2>2 DEF BlockingTypeOK, ControllerTypeOK, FuturePlace
<1>6. Queue'
  <2>1. sent' = Received + Len(commands) + 1
    BY <1>1, <1>3, <1>4 DEF Received
  <2>2. ASSUME NEW i \in 1 .. Len(commands')
        PROVE  commands'[i] = Received + i
    <3>1. CASE i \in 1 .. Len(commands)
      BY <1>3, <3>1 DEF Queue
    <3>2. CASE i = Len(commands) + 1
      BY <1>3, <1>4, <2>1, <3>2
    <3>3. QED
      BY <1>3, <2>2, <3>1, <3>2
  <2>3. QED
    BY <1>4, <2>2 DEF Queue
<1>7. Progress'
  BY <1>4 DEF Progress
<1>8. Caller'
  <2>1. ASSUME NEW s \in 1 .. sent', answers[s] = "None"
        PROVE  s \in dropped \/ s = sent'
    BY <1>1, <2>1 DEF Caller
  <2>2. \A s \in dropped : s <= sent /\ s \in Nat
    BY Types DEF Caller
  <2>3. (\A s \in dropped : s <= sent') /\ sent' \notin dropped
    BY <1>1, <2>2
  <2>4. sent' # NoSequence
    BY <1>1 DEF NoSequence
  <2>5. QED
    BY <2>1, <2>3, <2>4 DEF Caller
<1>9. Requests' /\ DropRequestsCancel'
  BY <1>4 DEF Requests, OldestRequest, DropRequestsCancel
<1>10. QED
  BY <1>5, <1>6, <1>7, <1>8, <1>9

\* An answer to the command a future waits for leaves no command under way.
LEMMA ObserveKeepsInv ==
  ASSUME BlockingInv, Observe, UNCHANGED runnerSide
  PROVE  BlockingInv'
<1> USE DEF BlockingInv, runnerSide, Observe
<1>1. BlockingTypeOK' /\ Queue' /\ Progress'
  BY DEF BlockingTypeOK, ControllerTypeOK, FuturePlace, Queue, Progress, Received
<1>2. Requests' /\ DropRequestsCancel'
  BY DEF Requests, OldestRequest, Received, DropRequestsCancel
<1>3. Caller'
  <2>1. CASE completion.sequence = awaited
    <3>1. awaited = sent /\ sent \in CommandNumber /\ sent \in Nat /\ answers[sent] # "None"
      BY <2>1, Types DEF Caller, Progress, CommandNumber, NoSequence
    <3>2. Received >= sent /\ sent # current
      BY <3>1, Types DEF Progress
    <3>3. Len(commands) = 0 /\ Received = sent
      BY <3>1, <3>2, Types DEF Received
    <3>4. commands = <<>> /\ current = NoSequence
      BY <3>2, <3>3, Types DEF Progress
    <3>5. QED
      BY <2>1, <3>1, <3>4 DEF Caller
  <2>2. CASE completion.sequence # awaited
    BY <2>2 DEF Caller
  <2>3. QED
    BY <2>1, <2>2
<1>4. QED
  BY <1>1, <1>2, <1>3

LEMMA DropWaitingKeepsInv ==
  ASSUME BlockingInv, DropWaiting, UNCHANGED runnerSide
  PROVE  BlockingInv'
<1> USE DEF BlockingInv, runnerSide, DropWaiting
<1>1. awaited = sent /\ sent # NoSequence /\ sent \notin dropped /\ sent \in Nat /\ dropped \subseteq Nat
  BY Types DEF Caller
<1>2. sent \in CommandNumber /\ Received <= sent /\ Received \in Nat
  BY <1>1, Types DEF CommandNumber, NoSequence, Received, Queue
<1>3. Len(cancellations) < CancellationCapacity
  BY RequestsFit DEF CancellationsFit, RequestHasRoom
<1>4. /\ cancellations' \in Seq(CommandNumber)
      /\ Len(cancellations) \in Nat
      /\ Len(cancellations') = Len(cancellations) + 1
      /\ cancellations'[Len(cancellations) + 1] = sent
      /\ \A i \in 1 .. Len(cancellations) : cancellations'[i] = cancellations[i]
  <2>1. cancellations' = Append(cancellations, sent)
    BY <1>1, <1>3 DEF RequestCancellation
  <2>2. cancellations \in Seq(CommandNumber)
    BY DEF BlockingTypeOK, ControllerTypeOK
  <2>3. QED
    BY <1>2, <2>1, <2>2, AppendOf
<1>5. BlockingTypeOK'
  <2>1. Len(cancellations') <= CancellationCapacity
    BY <1>3, <1>4, BlockingAssumption DEF BlockingAssumption
  <2>2. dropped' \subseteq CommandNumber
    BY <1>1, <1>2 DEF BlockingTypeOK, ControllerTypeOK
  <2>3. QED
    BY <1>4, <2>1, <2>2 DEF BlockingTypeOK, ControllerTypeOK, FuturePlace
<1>6. Queue' /\ Progress'
  BY DEF Queue, Progress, Received
<1>7. Caller'
  BY <1>1 DEF Caller
<1>8. Requests'
  <2>1. ASSUME NEW i \in 1 .. Len(cancellations')
        PROVE  cancellations'[i] \in dropped' /\ cancellations'[i] >= OldestRequest
    <3>1. CASE i \in 1 .. Len(cancellations)
      BY <1>4, <3>1 DEF Requests
    <3>2. CASE i = Len(cancellations) + 1
      BY <1>1, <1>2, <1>4, <3>2 DEF OldestRequest
    <3>3. QED
      BY <1>4, <2>1, <3>1, <3>2
  <2>2. ASSUME NEW i \in 1 .. Len(cancellations'), NEW j \in 1 .. Len(cancellations'), i <= j
        PROVE  cancellations'[j] - cancellations'[i] >= j - i
    <3> DEFINE n == Len(cancellations)
    <3>1. CASE j \in 1 .. n
      <4>1. i \in 1 .. n
        BY <2>2, <3>1
      <4>2. QED
        BY <1>4, <2>2, <3>1, <4>1 DEF Requests
    <3>2. CASE i \in 1 .. n /\ j = n + 1
      <4>1. n \in 1 .. n /\ i <= n /\ i \in Nat /\ n \in Nat
        BY <1>4, <3>2
      <4>2. cancellations[n] - cancellations[i] >= n - i
        BY <3>2, <4>1 DEF Requests
      <4>3. cancellations[n] \in dropped /\ cancellations[i] \in dropped
        BY <3>2, <4>1 DEF Requests
      <4>4. cancellations[n] \in Nat /\ cancellations[i] \in Nat /\ cancellations[n] < sent
        <5>1. cancellations[n] <= sent /\ cancellations[n] # sent
          BY <1>1, <4>3 DEF Caller
        <5>2. cancellations[n] \in Nat /\ cancellations[i] \in Nat
          BY <1>1, <4>3
        <5>3. QED
          BY <1>1, <5>1, <5>2
      <4>5. cancellations'[j] = sent /\ cancellations'[i] = cancellations[i]
        BY <1>4, <3>2
      <4>6. QED
        BY <1>1, <3>2, <4>1, <4>2, <4>4, <4>5
    <3>3. CASE i = n + 1 /\ j = n + 1
      BY <1>1, <1>4, <3>3
    <3>4. QED
      BY <1>4, <2>2, <3>1, <3>2, <3>3
  <2>3. QED
    BY <2>1, <2>2 DEF Requests, OldestRequest, Received
<1>9. DropRequestsCancel'
  <2>1. ASSUME NEW s \in dropped', answers[s] = "None"
        PROVE  \/ \E i \in 1 .. Len(cancellations') : cancellations'[i] = s
               \/ current = s /\ step \in {"perform", "signal"}
    <3>1. CASE s = sent
      BY <1>4, <3>1
    <3>2. CASE s \in dropped
      BY <1>4, <2>1, <3>2 DEF DropRequestsCancel
    <3>3. QED
      BY <1>1, <2>1, <3>1, <3>2
  <2>2. QED
    BY <2>1 DEF DropRequestsCancel
<1>10. QED
  BY <1>5, <1>6, <1>7, <1>8, <1>9

\* Steps of a future that does not wait.
LEMMA QuietKeepsInv ==
  ASSUME BlockingInv, Call \/ DropSending \/ CopyResults, UNCHANGED runnerSide
  PROVE  BlockingInv'
<1> USE DEF BlockingInv, runnerSide, Call, DropSending, CopyResults
<1>1. BlockingTypeOK' /\ Queue' /\ Progress' /\ Caller'
  BY DEF BlockingTypeOK, ControllerTypeOK, FuturePlace, Queue, Progress, Caller, Received
<1>2. Requests' /\ DropRequestsCancel'
  BY DEF Requests, OldestRequest, Received, DropRequestsCancel
<1>3. QED
  BY <1>1, <1>2

LEMMA StutterKeepsInv ==
  ASSUME BlockingInv, UNCHANGED blockingVars
  PROVE  BlockingInv'
<1> USE DEF BlockingInv, blockingVars, runnerSide, controllerVars, caller
<1>1. BlockingTypeOK' /\ Queue' /\ Progress' /\ Caller'
  BY DEF BlockingTypeOK, ControllerTypeOK, Queue, Progress, Caller, Received
<1>2. Requests' /\ DropRequestsCancel'
  BY DEF Requests, OldestRequest, Received, DropRequestsCancel
<1>3. QED
  BY <1>1, <1>2

LEMMA StepKeepsInv ==
  ASSUME BlockingInv, [BlockingNext]_blockingVars
  PROVE  BlockingInv'
<1>1. CASE RunnerNext
  BY <1>1, ReceiveKeepsInv, NothingToReceiveKeepsInv, DiscardKeepsInv, CancelKeepsInv,
     BeginKeepsInv, PerformKeepsInv, SignalKeepsInv, PollKeepsInv
  DEF RunnerNext
<1>2. CASE ControllerStep
  BY <1>2, SendKeepsInv, ObserveKeepsInv, DropWaitingKeepsInv, QuietKeepsInv
  DEF ControllerStep, ControllerNext
<1>3. CASE UNCHANGED blockingVars
  BY <1>3, StutterKeepsInv
<1>4. QED
  BY <1>1, <1>2, <1>3 DEF BlockingNext

-----------------------------------------------------------------------------
(* Theorems *)

\* Every reachable state satisfies the invariant.
THEOREM BlockingInvHolds == BlockingSpec => []BlockingInv
BY InitEstablishesInv, StepKeepsInv, PTL DEF BlockingSpec

\* Every variable keeps its type, the cancellation channel has a place for the
\* request of a future that is dropped, and a dropped command's request stays
\* there until its turn: for every pair of capacities with two more places for
\* requests than for commands, which the code's 1 and 3 just are.
THEOREM DroppedFuturesCancel == BlockingSpec => []BlockingInvariant
<1>1. BlockingInv => BlockingInvariant
  BY RequestsFit DEF BlockingInv, BlockingInvariant
<1>2. QED
  BY <1>1, BlockingInvHolds, PTL

\* No command whose future was dropped before process_command reaches the
\* backend: the drain in process_or_cancel_command finds its request.
THEOREM DroppedIsNeverStarted == BlockingSpec => DroppedIsNotStarted
<1> DEFINE Starts == step' = "perform" /\ step # "perform" => current \notin dropped
<1>1. ASSUME BlockingInv, BlockingNext, step' = "perform", step # "perform"
      PROVE  current \notin dropped
  <2>1. BeginCommand
    BY <1>1
    DEF BlockingNext, RunnerNext, ControllerStep, runnerSide, ReceiveCommand, NothingToReceive,
        DiscardStaleCancellation, CancelCommand, PerformCommand, SignalCompletion, PollBackground
  <2>2. Len(cancellations) = 0 /\ step = "drain"
    BY <2>1 DEF BeginCommand
  <2>3. current \in Nat \ {0} /\ current = Received
    BY <1>1, <2>2, Types DEF BlockingInv, Progress, NoSequence
  <2>4. ASSUME current \in dropped
        PROVE  FALSE
    <3>1. current \in CommandNumber
      BY <1>1, <2>4 DEF BlockingInv, BlockingTypeOK, ControllerTypeOK
    <3>2. answers[current] = "None"
      BY <1>1, <3>1 DEF BlockingInv, Progress
    <3>3. QED
      BY <1>1, <2>2, <2>4, <3>2 DEF BlockingInv, DropRequestsCancel
  <2>5. QED
    BY <2>4
<1>2. BlockingInv /\ [BlockingNext]_blockingVars => [Starts]_blockingVars
  BY <1>1
<1>3. QED
  BY <1>2, BlockingInvHolds, PTL DEF BlockingSpec, DroppedIsNotStarted

\* The runner borrows the scan buffer for no scan, and has none queued, from
\* the completion of a scan to the end of the copy: what
\* shared_scan_results_snapshot relies on.
THEOREM ScanBufferIsNotShared == BlockingSpec => []ScanBufferIsQuiet
<1>1. BlockingInv => ScanBufferIsQuiet
  <2> SUFFICES ASSUME BlockingInv, ReadsScanBuffer
               PROVE  current = NoSequence /\ commands = <<>>
    BY DEF ScanBufferIsQuiet, BlockingInv, Progress
  <2>1. CASE controller = "copying"
    BY <2>1 DEF BlockingInv, Caller
  <2>2. CASE controller = "waiting" /\ completion.sequence = awaited
    <3>1. /\ completion.sequence = sent /\ sent # NoSequence /\ sent \in CommandNumber
          /\ sent \in Nat
      BY <2>2, Types DEF BlockingInv, Caller, CommandNumber, NoSequence
    <3>2. answers[sent] # "None"
      BY <3>1 DEF BlockingInv, Progress, NoCompletion
    <3>3. Received >= sent /\ sent # current
      BY <3>1, <3>2, Types DEF BlockingInv, Progress
    <3>4. Len(commands) = 0 /\ Received = sent
      BY <3>1, <3>3, Types DEF BlockingInv, Received
    <3>5. QED
      BY <3>3, <3>4, Types DEF BlockingInv, Progress
  <2>3. QED
    BY <2>1, <2>2 DEF ReadsScanBuffer
<1>2. QED
  BY <1>1, BlockingInvHolds, PTL

-----------------------------------------------------------------------------
(* The runner implements CommandService *)

ServiceStatus == [s \in CommandNumber |-> StatusOf(s)]

\* The status of every command while none is current, and of the others while
\* one is.
LEMMA StatusOfOthers ==
  ASSUME BlockingInv, NEW s \in CommandNumber, s # current
  PROVE  /\ ServiceStatus[s] \in Result \cup {"Unknown"}
         /\ s <= Received => ServiceStatus[s] \in Result
         /\ s > Received => ServiceStatus[s] = "Unknown"
<1>1. answers[s] \in Result \cup {"None"}
  BY DEF BlockingInv, BlockingTypeOK
<1>2. ServiceStatus[s] = IF answers[s] = "None" THEN "Unknown" ELSE answers[s]
  BY DEF ServiceStatus, StatusOf
<1>3. answers[s] = "None" <=> s > Received
  BY DEF BlockingInv, Progress
<1>4. s \in Nat /\ Received \in Int
  BY Types DEF BlockingInv, CommandNumber
<1>5. QED
  BY <1>1, <1>2, <1>3, <1>4 DEF Result

LEMMA StatusOfCurrent ==
  ASSUME BlockingInv, current # NoSequence
  PROVE  /\ current \in CommandNumber
         /\ answers[current] = "None"
         /\ ServiceStatus[current] =
              IF step = "drain" \/ result = "Cancelled" THEN "Waiting" ELSE "Running"
<1>1. current \in CommandNumber
  BY DEF BlockingInv, BlockingTypeOK, ControllerTypeOK
<1>2. answers[current] = "None"
  BY <1>1 DEF BlockingInv, Progress
<1>3. QED
  BY <1>1, <1>2 DEF ServiceStatus, StatusOf

\* A step that touches nothing StatusOf reads leaves the status alone.
LEMMA StatusStutter ==
  ASSUME UNCHANGED <<current, answers>>,
         (step = "drain") = (step' = "drain") \/ current = NoSequence,
         (result = "Cancelled") = (result' = "Cancelled") \/ current = NoSequence,
         NoSequence \notin CommandNumber
  PROVE  UNCHANGED ServiceStatus
BY DEF ServiceStatus, StatusOf

LEMMA ReceiveRefines ==
  ASSUME BlockingInv, ReceiveCommand
  PROVE  Service!ServiceNext
<1> DEFINE c == current'
<1>1. BlockingInv'
  BY ReceiveKeepsInv
<1>2. /\ c # NoSequence /\ current = NoSequence
      /\ step' = "drain" /\ answers' = answers
  BY <1>1 DEF BlockingInv, Progress, ReceiveCommand
<1>3. c \in CommandNumber /\ answers[c] = "None"
  BY <1>1, <1>2 DEF BlockingInv, BlockingTypeOK, ControllerTypeOK, Progress
<1>4. NoSequence \notin CommandNumber
  BY DEF NoSequence, CommandNumber
<1>5. c = Received + 1 /\ Received \in Int
  <2>1. Len(commands) \in Nat \ {0} /\ Head(commands) = commands[1]
    BY TailOf DEF BlockingInv, BlockingTypeOK, ControllerTypeOK, ReceiveCommand
  <2>2. QED
    BY <2>1, Types DEF BlockingInv, Queue, ReceiveCommand
<1>6. ServiceStatus[c] = "Unknown"
  BY <1>2, <1>3 DEF ServiceStatus, StatusOf
<1>7. ASSUME NEW t \in CommandNumber
      PROVE  /\ t < c => ServiceStatus[t] # "Unknown"
             /\ ServiceStatus[t] # "Waiting"
  <2>1. t # current /\ t \in Nat
    BY <1>2, <1>4, Types DEF BlockingInv, CommandNumber
  <2>2. QED
    BY <1>5, <2>1, StatusOfOthers DEF Result
<1>8. ServiceStatus' = [ServiceStatus EXCEPT ![c] = "Waiting"]
  <2>1. ASSUME NEW t \in CommandNumber
        PROVE  StatusOf(t)' = IF t = c THEN "Waiting" ELSE StatusOf(t)
    BY <1>2, <1>3, <1>4 DEF StatusOf
  <2>2. QED
    BY <2>1 DEF ServiceStatus
<1>9. QED
  BY <1>3, <1>6, <1>7, <1>8
  DEF Service!ServiceNext, Service!Accept, Service!Becomes, Service!Commands, CommandNumber,
      ServiceStatus

LEMMA BeginRefines ==
  ASSUME BlockingInv, BeginCommand
  PROVE  Service!ServiceNext
<1>1. /\ step = "drain" /\ step' = "perform" /\ current # NoSequence
      /\ UNCHANGED <<current, result, answers>> /\ result = "None"
  BY DEF BlockingInv, Progress, BeginCommand
<1>2. current \in CommandNumber /\ answers[current] = "None" /\ ServiceStatus[current] = "Waiting"
  BY <1>1, StatusOfCurrent
<1>3. ASSUME NEW t \in CommandNumber
      PROVE  ServiceStatus[t] \notin {"Running", "Cancelling"}
  BY <1>2, StatusOfOthers DEF Result
<1>4. ServiceStatus' = [ServiceStatus EXCEPT ![current] = "Running"]
  <2>1. ASSUME NEW t \in CommandNumber
        PROVE  StatusOf(t)' = IF t = current THEN "Running" ELSE StatusOf(t)
    BY <1>1, <1>2 DEF StatusOf
  <2>2. QED
    BY <2>1 DEF ServiceStatus
<1>5. QED
  BY <1>2, <1>3, <1>4
  DEF Service!ServiceNext, Service!Start, Service!NoneRuns, Service!Becomes, Service!Commands,
      CommandNumber, ServiceStatus

LEMMA SignalRefines ==
  ASSUME BlockingInv, SignalCompletion
  PROVE  Service!ServiceNext
<1>1. /\ step = "signal" /\ current # NoSequence /\ result # "None" /\ result \in Result
      /\ current' = NoSequence
  BY DEF BlockingInv, BlockingTypeOK, Progress, SignalCompletion
<1>2. current \in CommandNumber /\ NoSequence \notin CommandNumber
  BY <1>1, StatusOfCurrent DEF CommandNumber, NoSequence
<1>3. ServiceStatus[current] = IF result = "Cancelled" THEN "Waiting" ELSE "Running"
  BY <1>1, StatusOfCurrent
<1>4. ServiceStatus' = [ServiceStatus EXCEPT ![current] = result]
  <2>1. answers \in [CommandNumber -> Result \cup {"None"}]
    BY DEF BlockingInv, BlockingTypeOK
  <2>2. ASSUME NEW t \in CommandNumber
        PROVE  StatusOf(t)' = IF t = current THEN result ELSE StatusOf(t)
    BY <1>1, <1>2, <2>1, <2>2 DEF StatusOf, SignalCompletion
  <2>3. QED
    BY <2>2 DEF ServiceStatus
<1>5. QED
  BY <1>1, <1>2, <1>3, <1>4
  DEF Service!ServiceNext, Service!Withdraw, Service!Succeed, Service!Fail, Service!Becomes,
      Service!Commands, CommandNumber, ServiceStatus, Result

LEMMA StepRefines ==
  ASSUME BlockingInv, [BlockingNext]_blockingVars
  PROVE  [Service!ServiceNext]_ServiceStatus
<1>1. NoSequence \notin CommandNumber
  BY DEF NoSequence, CommandNumber
<1>2. CASE RunnerNext
  <2>1. CASE ReceiveCommand
    BY <2>1, ReceiveRefines
  <2>2. CASE NothingToReceive
    <3>1. current = NoSequence
      BY <2>2 DEF NothingToReceive, BlockingInv, Progress
    <3>2. QED
      BY <1>1, <2>2, <3>1, StatusStutter DEF NothingToReceive
  <2>3. CASE DiscardStaleCancellation
    BY <1>1, <2>3, StatusStutter DEF DiscardStaleCancellation, runnerSide
  <2>4. CASE CancelCommand
    <3>1. UNCHANGED <<current, answers>> /\ step = "drain" /\ result' = "Cancelled"
      BY <2>4 DEF CancelCommand
    <3>2. QED
      BY <3>1 DEF ServiceStatus, StatusOf
  <2>5. CASE BeginCommand
    BY <2>5, BeginRefines
  <2>6. ASSUME NEW outcome \in {"Completed", "Failed"}, PerformCommand(outcome)
        PROVE  UNCHANGED ServiceStatus
    <3>1. result = "None" /\ step = "perform" /\ step' = "signal" /\ result' = outcome
      BY <2>6 DEF PerformCommand, BlockingInv, Progress
    <3>2. QED
      BY <1>1, <2>6, <3>1, StatusStutter DEF PerformCommand
  <2>7. CASE SignalCompletion
    BY <2>7, SignalRefines
  <2>8. ASSUME NEW error \in PollError \cup {NoSequence}, PollBackground(error)
        PROVE  UNCHANGED ServiceStatus
    BY <1>1, <2>8, StatusStutter DEF PollBackground
  <2>9. QED
    BY <1>2, <2>1, <2>2, <2>3, <2>4, <2>5, <2>6, <2>7, <2>8 DEF RunnerNext
<1>3. CASE ControllerStep
  BY <1>1, <1>3, StatusStutter DEF ControllerStep, runnerSide
<1>4. CASE UNCHANGED blockingVars
  BY <1>1, <1>4, StatusStutter DEF blockingVars, runnerSide
<1>5. QED
  BY <1>2, <1>3, <1>4 DEF BlockingNext

\* The blocking runner keeps the promise of CommandService: commands run one at
\* a time in the order they were sent, each is answered once, and a withdrawn
\* one is answered with Cancelled and never performed.
THEOREM BlockingImplementsService == BlockingSpec => ImplementsService
<1>1. BlockingInit => Service!ServiceInit
  BY DEF BlockingInit, Service!ServiceInit, Service!Commands, CommandNumber, StatusOf, NoSequence
<1>2. BlockingInv /\ [BlockingNext]_blockingVars => [Service!ServiceNext]_ServiceStatus
  BY StepRefines
<1>3. QED
  BY <1>1, <1>2, BlockingInvHolds, PTL
  DEF BlockingSpec, ImplementsService, Service!ServiceSpec, ServiceStatus
=============================================================================
