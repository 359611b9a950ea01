----------------------- MODULE IncrementalFacadeProofs -----------------------
(***************************************************************************)
(* The async facade and its controller, for any number of commands and     *)
(* generations, any sources of the backend and every pair of channel       *)
(* capacities that leaves two places for the requests of commands that     *)
(* have left their channel.                                                *)
(*                                                                         *)
(* Commands are received in the order they were sent, so `submitted' says  *)
(* which are in the channel (Channel).  A future waits for the last        *)
(* command sent, and every other is answered or dropped (Caller).  The     *)
(* requests in the channel ascend, and a turn that receives a command also *)
(* takes one of them, so none is older than the command before the last    *)
(* one received (Requests): they are few.  Hence an awaited answer finds   *)
(* both channels empty, and nothing wakes the runner (Quiet).              *)
(***************************************************************************)
EXTENDS IncrementalFacade, IncrementalDriverProofs, FiniteSetTheorems

Channel ==
  /\ sent = submitted + Len(commands)
  /\ \A i \in 1 .. Len(commands) : commands[i] = submitted + i

\* The order of the driver's commands, and that nobody waits for an operation
\* that is over.
Settled ==
  /\ arbiter.pending # NoCommand => arbiter.active.sequence < arbiter.pending
  /\ runner.lifecycle = "None" => runner.waitFor = {}

Progress ==
  /\ publishing # NoCommand <=> step = "publish"
  /\ publishing # NoCommand => outcome[publishing] # "None"
  /\ completion # NoCompletion =>
       outcome[completion.sequence] # "None" /\ completion.sequence # publishing

Unanswered(s) == outcome[s] = "None" \/ publishing = s

Caller ==
  /\ controller = "sending" => sent < MaxSequence
  /\ controller = "waiting" => awaited = sent /\ sent # NoSequence /\ sent \notin dropped
  /\ \A s \in dropped : s <= sent
  /\ \A s \in 1 .. sent : Unanswered(s) => s \in dropped \/ (controller = "waiting" /\ s = sent)

OldestRequest == IF step = "cancel" THEN submitted - 1 ELSE submitted

Requests ==
  /\ \A i \in 1 .. Len(cancellations) :
       cancellations[i] \in dropped /\ cancellations[i] >= OldestRequest
  /\ \A i, j \in 1 .. Len(cancellations) :
       i <= j => cancellations[j] - cancellations[i] >= j - i

\* The call has its answer, or will have at the next step of the runner.
AnswerKnown ==
  controller = "copying" \/ (controller = "waiting" /\ outcome[awaited] # "None")

Quiet ==
  AnswerKnown =>
    /\ commands = <<>> /\ cancellations = <<>>
    /\ ~HasActive(arbiter) /\ arbiter.pending = NoCommand
    /\ \/ step = "wait" /\ (controller = "waiting" => completion.sequence = awaited)
       \/ step = "publish" /\ controller = "waiting" /\ publishing = awaited

\* On one cooperative executor the channel does not fill between the two
\* takes of a turn, so a request that is taken finds its command received.
Cooperative ==
  ~Preemptive =>
    /\ step = "cancel" /\ commands # <<>> => arbiter.pending # NoCommand
    /\ DropRequestsCancel

FacadeInv ==
  /\ DriverInv
  /\ FacadeTypeOK
  /\ LedgerMatchesDriver
  /\ Channel
  /\ Settled
  /\ Progress
  /\ Caller
  /\ Requests
  /\ Quiet
  /\ Cooperative

-----------------------------------------------------------------------------
(* Channels and types *)

LEMMA TailOf ==
  ASSUME NEW S, NEW q \in Seq(S), q # <<>>
  PROVE  /\ Tail(q) \in Seq(S)
         /\ Len(q) \in Nat \ {0}
         /\ Len(Tail(q)) = Len(q) - 1
         /\ Head(q) = q[1]
         /\ \A i \in 1 .. Len(q) : q[i] \in S
         /\ \A i \in 1 .. Len(Tail(q)) : Tail(q)[i] = q[i + 1]
OBVIOUS

LEMMA AppendOf ==
  ASSUME NEW S, NEW q \in Seq(S), NEW e \in S
  PROVE  /\ Append(q, e) \in Seq(S)
         /\ Len(q) \in Nat
         /\ Len(Append(q, e)) = Len(q) + 1
         /\ Append(q, e)[Len(q) + 1] = e
         /\ \A i \in 1 .. Len(q) : Append(q, e)[i] = q[i]
OBVIOUS

LEMMA SameNumbers == CommandNumber = Sequence /\ NoSequence = NoCommand /\ NoCommand \notin Sequence
BY DEF CommandNumber, Sequence, NoSequence, NoCommand

\* The types that the arithmetic below needs.
LEMMA Types ==
  ASSUME FacadeTypeOK
  PROVE  /\ MaxSequence \in Nat /\ Sequence \subseteq Nat
         /\ submitted \in Nat /\ sent \in Nat /\ sent <= MaxSequence
         /\ commands \in Seq(Sequence) /\ Len(commands) \in Nat
         /\ cancellations \in Seq(Sequence) /\ Len(cancellations) \in Nat
         /\ dropped \subseteq Sequence /\ dropped \subseteq Nat
         /\ awaited \in Nat /\ publishing \in Nat
         /\ outcome \in [Sequence -> TerminalEvent \cup {"None"}]
         /\ arbiter.pending \in Sequence \cup {NoCommand}
         /\ arbiter.active.sequence \in Sequence \cup {NoCommand}
BY DriverAssumption, SameNumbers
DEF DriverAssumption, FacadeTypeOK, ControllerTypeOK, DriverTypeOK, Arbiter, ActiveCommand,
    NoActive, Sequence, NoCommand, NoSequence

\* The driver holds the commands that it received and has not answered.
LEMMA Held ==
  ASSUME DriverInv, NEW s \in Sequence
  PROVE  s \in {arbiter.pending, arbiter.active.sequence} <=> s <= submitted /\ outcome[s] = "None"
<1>1. s \in Nat /\ submitted \in Nat
  BY DriverAssumption DEF DriverInv, DriverTypeOK, Sequence
<1>2. QED
  BY <1>1 DEF DriverInv, Accounted

LEMMA HeldNext ==
  ASSUME DriverInv', NEW s \in Sequence
  PROVE  s \in {arbiter'.pending, arbiter'.active.sequence} <=> s <= submitted' /\ outcome'[s] = "None"
<1>1. s \in Nat /\ submitted' \in Nat
  BY DriverAssumption DEF DriverInv, DriverTypeOK, Sequence
<1>2. QED
  BY <1>1 DEF DriverInv, Accounted

-----------------------------------------------------------------------------
(* What drive_once does to the commands the driver holds *)

Cancelling == arbiter.active.cancelIntent \/ arbiter.active.cancelRequested

\* The commands stay where they are.
Kept ==
  /\ outcome' = outcome
  /\ arbiter'.pending = arbiter.pending
  /\ arbiter'.active.sequence = arbiter.active.sequence
  /\ Cancelling => Cancelling'

\* The pending command becomes the active one.
Started ==
  /\ outcome' = outcome
  /\ arbiter.active.sequence = NoCommand
  /\ arbiter'.active.sequence = arbiter.pending
  /\ arbiter'.pending = NoCommand

\* The active command is answered, or the pending one when there is none.
Answers(s) ==
  /\ outcome[s] = "None"
  /\ \E kind \in TerminalEvent : outcome' = [outcome EXCEPT ![s] = kind]
  /\ \/ s = arbiter.active.sequence /\ arbiter'.pending = arbiter.pending
     \/ s = arbiter.pending /\ arbiter.active.sequence = NoCommand /\ arbiter'.pending = NoCommand
  /\ arbiter'.active.sequence = NoCommand

Unsubscribed == runner.lifecycle = "None" => runner.waitFor = {}

LEMMA FinishAnswers ==
  ASSUME DriverInv, HasActive(arbiter), NEW r \in Runner, NEW kind \in TerminalEvent,
         r.operation = runner.operation, FinishTerminal(Terminate(r), kind)
  PROVE  Answers(arbiter.active.sequence) /\ Unsubscribed' /\ arbiter.active.sequence \in Sequence
<1>1. CanFinishActive(arbiter, Terminate(r).operation)
  BY ActiveIsBound DEF CanFinishActive, Terminate, Runner
<1>2. CanReap(Terminate(r), Terminate(r).operation)
  BY DEF CanReap, Owns, Terminate, Runner
<1>3. /\ arbiter' = FinishActive(arbiter)
      /\ runner' = Reap(Terminate(r))
      /\ outcome' = [outcome EXCEPT ![arbiter.active.sequence] = kind]
  BY <1>1, <1>2 DEF FinishTerminal
<1>4. arbiter'.active.sequence = NoCommand /\ arbiter'.pending = arbiter.pending
  BY <1>3 DEF FinishActive, DriverInv, DriverTypeOK, Arbiter, NoActive
<1>5. Unsubscribed'
  <2>1. Terminate(r) \in Runner
    BY TransitionTypes
  <2>2. QED
    BY <1>3, <2>1 DEF Unsubscribed, Reap, Runner
<1>6. QED
  BY <1>3, <1>4, <1>5, ActiveIsBound DEF Answers

LEMMA StartEffect ==
  ASSUME DriverInv, NEW accepted \in BOOLEAN, StartPending(accepted)
  PROVE  (Started \/ \E s \in Sequence : Answers(s)) /\ Unsubscribed'
<1>1. ~HasActive(arbiter) /\ arbiter.starting = NoCommand /\ arbiter.pending # NoCommand
  BY ActionMeaning DEF StartPending
<1>2. CanQueue(runner) /\ arbiter.active.sequence = NoCommand
  BY <1>1 DEF DriverInv, Agreement, CanQueue, HasActive, NoActive
<1>3. arbiter.pending \in Sequence /\ outcome[arbiter.pending] = "None"
  BY <1>1 DEF DriverInv, DriverTypeOK, Accounted, Arbiter
<1>4. runner \in Runner /\ arbiter \in Arbiter(Sequence, OperationId)
  BY DEF DriverInv, DriverTypeOK
<1>5. CASE accepted
  <2>1. /\ runner' = MarkStarted(Queue(runner))
        /\ arbiter' = BindStarted(TakeStartable(arbiter), arbiter.pending, Queue(runner).operation)
        /\ outcome' = outcome
    BY <1>2, <1>5 DEF StartPending
  <2>2. arbiter'.pending = NoCommand /\ arbiter'.active.sequence = arbiter.pending
    BY <1>4, <2>1 DEF BindStarted, TakeStartable, Arbiter
  <2>3. Unsubscribed'
    BY <1>4, <2>1 DEF Unsubscribed, MarkStarted, Queue, Runner
  <2>4. QED
    BY <1>2, <2>1, <2>2, <2>3 DEF Started
<1>6. CASE ~accepted
  <2>1. /\ runner' = Reap(Terminate(Queue(runner)))
        /\ arbiter' = ClearStarting(TakeStartable(arbiter))
        /\ outcome' = [outcome EXCEPT ![arbiter.pending] = "Failed"]
    BY <1>2, <1>6 DEF StartPending
  <2>2. arbiter'.pending = NoCommand /\ arbiter'.active.sequence = NoCommand
    BY <1>2, <1>4, <2>1 DEF ClearStarting, TakeStartable, Arbiter
  <2>3. Unsubscribed'
    BY <1>4, <2>1 DEF Unsubscribed, Reap, Terminate, Queue, Runner
  <2>4. Answers(arbiter.pending)
    BY <1>2, <1>3, <2>1, <2>2 DEF Answers, TerminalEvent
  <2>5. QED
    BY <1>3, <2>3, <2>4
<1>7. QED
  BY <1>5, <1>6

LEMMA CancelEffect ==
  ASSUME DriverInv, NEW accepted \in BOOLEAN, CancelActive(accepted)
  PROVE  (Kept \/ \E s \in Sequence : Answers(s)) /\ Unsubscribed'
<1>1. /\ HasActive(arbiter)
      /\ runner.lifecycle = "Started"
      /\ CancelDirective(runner, arbiter.active.operation) = "NotifyBackend"
  BY CancelIsDue DEF CancelActive
<1>2. arbiter.active \in ActiveCommand(Sequence, OperationId)
  BY <1>1, ActiveIsBound
<1>3. runner \in Runner /\ arbiter \in Arbiter(Sequence, OperationId)
  BY DEF DriverInv, DriverTypeOK
<1>4. /\ RequestCancel(runner) \in Runner
      /\ RequestCancel(runner).operation = runner.operation
      /\ RequestCancel(runner).lifecycle = "CancelRequested"
  BY <1>1, <1>3, TransitionTypes DEF RequestCancel, Runner
<1>5. CASE accepted
  <2>1. /\ runner' = MarkCancelNotified(RequestCancel(runner))
        /\ arbiter' = MarkCancelRequested(arbiter)
        /\ outcome' = outcome
    BY <1>1, <1>5 DEF CancelActive
  <2>2. /\ arbiter'.pending = arbiter.pending
        /\ arbiter'.active.sequence = arbiter.active.sequence
        /\ arbiter'.active.cancelRequested
    BY <1>2, <1>3, <2>1 DEF MarkCancelRequested, Arbiter, ActiveCommand
  <2>3. runner'.lifecycle # "None"
    BY <1>4, <2>1 DEF MarkCancelNotified, Runner
  <2>4. QED
    BY <2>1, <2>2, <2>3 DEF Kept, Cancelling, Unsubscribed
<1>6. CASE ~accepted
  <2>1. FinishTerminal(Terminate(RequestCancel(runner)), "Failed")
    BY <1>1, <1>6 DEF CancelActive
  <2>2. QED
    BY <1>1, <1>4, <2>1, FinishAnswers DEF TerminalEvent
<1>7. QED
  BY <1>5, <1>6

LEMMA PollEffect ==
  ASSUME DriverInv, NEW wake,
         \/ PollWaiting(wake)
         \/ PollMisdirected(wake)
         \/ \E shape \in ReportShape : PollPending(wake, shape) \/ PollTerminal(wake, shape)
         \/ PollFailed(wake)
         \/ \E reported \in OperationId : PollStale(wake, reported)
  PROVE  (Kept \/ \E s \in Sequence : Answers(s)) /\ Unsubscribed'
<1>1. ArbiterAction(arbiter) = "WaitActive"
  BY DEF PollWaiting, PollMisdirected, PollPending, PollTerminal, PollFailed, PollStale,
         PollBackend
<1>2. HasActive(arbiter)
  BY <1>1, ActionMeaning
<1>3. Live(runner, runner.operation) /\ runner.lifecycle # "None"
  BY <1>2, ActiveIsBound DEF Live
<1>4. ASSUME UNCHANGED <<arbiter, outcome>>, runner'.lifecycle = runner.lifecycle
      PROVE  Kept /\ Unsubscribed'
  BY <1>3, <1>4 DEF Kept, Cancelling, Unsubscribed
<1>5. CASE PollWaiting(wake)
  BY <1>4, <1>5, PolledRunner DEF PollWaiting
<1>6. CASE DriverError(arbiter, Polled(wake))
  BY <1>4, <1>6, PolledRunner DEF DriverError
<1>7. ASSUME NEW shape \in ReportShape, PollPending(wake, shape)
      PROVE  Kept /\ Unsubscribed'
  <2>1. runner' = Resubscribe(Polled(wake), shape.waitFor) /\ UNCHANGED <<arbiter, outcome>>
    BY <1>3, <1>7 DEF PollPending
  <2>2. runner'.lifecycle = runner.lifecycle
    BY <2>1, PolledRunner DEF Resubscribe, Runner
  <2>3. QED
    BY <1>4, <2>1, <2>2
<1>8. ASSUME NEW kind \in TerminalEvent, FinishTerminal(Terminate(Polled(wake)), kind)
      PROVE  (\E s \in Sequence : Answers(s)) /\ Unsubscribed'
  BY <1>2, <1>8, PolledRunner, FinishAnswers
<1>9. ASSUME NEW shape \in ReportShape, PollTerminal(wake, shape)
      PROVE  (\E s \in Sequence : Answers(s)) /\ Unsubscribed'
  BY <1>3, <1>8, <1>9 DEF PollTerminal, TerminalEvent
<1>10. CASE PollFailed(wake)
  BY <1>3, <1>8, <1>10 DEF PollFailed, TerminalEvent
<1>11. QED
  BY <1>5, <1>6, <1>7, <1>9, <1>10 DEF PollMisdirected, PollStale

LEMMA DriveEffect ==
  ASSUME DriverInv, Unsubscribed, NEW wake, DriveOnce(wake)
  PROVE  /\ DriverInv' /\ Unsubscribed' /\ submitted' = submitted
         /\ Kept \/ Started \/ \E s \in Sequence : Answers(s)
<1>1. DriverInv'
  BY DriveIdleKeepsInv, StartPendingKeepsInv, CancelActiveKeepsInv, PollKeepsInv DEF DriveOnce
<1>2. submitted' = submitted
  BY DEF DriveOnce, DriveIdle, StartPending, CancelActive, PollWaiting, PollMisdirected,
         PollPending, PollTerminal, PollFailed, PollStale, PollBackend
<1>3. CASE DriveIdle
  BY <1>1, <1>2, <1>3 DEF DriveIdle, DriverError, Kept, Cancelling, Unsubscribed
<1>4. QED
  BY <1>1, <1>2, <1>3, StartEffect, CancelEffect, PollEffect DEF DriveOnce

-----------------------------------------------------------------------------
(* What the parts of the invariant say together *)

LEMMA SameDriver ==
  ASSUME DriverInv, UNCHANGED driver
  PROVE  DriverInv'
BY NextKeepsInv DEF driver, vars

\* The ledger holds the commands without an answer and the one whose answer is
\* to be published.
LEMMA LedgerHolds ==
  ASSUME DriverInv, LedgerMatchesDriver, NEW s \in Sequence
  PROVE  s \in ledger <=> (s <= submitted /\ outcome[s] = "None") \/ s = publishing
BY Held, SameNumbers DEF LedgerMatchesDriver

LEMMA LedgerNext ==
  ASSUME DriverInv', ledger' \subseteq Sequence, publishing' \in Sequence \cup {NoCommand},
         \A s \in Sequence :
           s \in ledger' <=> (s <= submitted' /\ outcome'[s] = "None") \/ s = publishing'
  PROVE  LedgerMatchesDriver'
<1>1. {arbiter'.active.sequence, arbiter'.pending} \subseteq Sequence \cup {NoCommand}
  BY DEF DriverInv, DriverTypeOK, Arbiter, ActiveCommand, NoActive
<1>2. QED
  BY <1>1, HeldNext, SameNumbers DEF LedgerMatchesDriver

\* The requests are those of commands dropped since the oldest one that can be
\* unread, each once: while a future waits there is room for its own.
LEMMA RequestsFit ==
  ASSUME FacadeInv, controller = "waiting"
  PROVE  Len(cancellations) < CancellationCapacity
<1> DEFINE n == Len(cancellations)
<1>1. n \in Nat /\ submitted \in Nat /\ sent \in Nat /\ dropped \subseteq Nat /\ Len(commands) \in Nat
  BY Types DEF FacadeInv
<1>2. Len(commands) <= CommandCapacity
  BY DEF FacadeInv, FacadeTypeOK, ControllerTypeOK
<1>3. /\ CancellationCapacity \in Nat /\ CommandCapacity \in Nat
      /\ CancellationCapacity >= CommandCapacity + 2
  BY FacadeAssumption DEF FacadeAssumption
<1>4. CASE n = 0
  BY <1>2, <1>3, <1>4
<1>5. CASE n # 0
  <2>1. 1 \in 1 .. n /\ n \in 1 .. n /\ 1 <= n
    BY <1>1, <1>5
  <2>2. cancellations[n] - cancellations[1] >= n - 1
    BY <2>1 DEF FacadeInv, Requests
  <2>3. cancellations[1] \in Nat /\ cancellations[1] >= submitted - 1
    <3>1. cancellations[1] \in dropped /\ cancellations[1] >= OldestRequest
      BY <2>1 DEF FacadeInv, Requests
    <3>2. OldestRequest \in Int /\ OldestRequest >= submitted - 1
      BY <1>1 DEF OldestRequest
    <3>3. cancellations[1] \in Nat
      BY <1>1, <3>1
    <3>4. QED
      BY <1>1, <3>1, <3>2, <3>3
  <2>4. cancellations[n] \in Nat /\ cancellations[n] <= sent - 1
    <3>1. cancellations[n] \in dropped
      BY <2>1 DEF FacadeInv, Requests
    <3>2. cancellations[n] <= sent /\ cancellations[n] # sent
      BY <3>1 DEF FacadeInv, Caller
    <3>3. cancellations[n] \in Nat
      BY <1>1, <3>1
    <3>4. QED
      BY <1>1, <3>2, <3>3
  <2>5. sent = submitted + Len(commands)
    BY DEF FacadeInv, Channel
  <2>6. n <= Len(commands) + 1
    BY <1>1, <2>2, <2>3, <2>4, <2>5
  <2>7. QED
    BY <1>1, <1>2, <1>3, <2>6
<1>6. QED
  BY <1>4, <1>5

\* A turn is under way only while no answer is known.
LEMMA TurnIsUnanswered ==
  ASSUME FacadeInv, step \in {"receive", "cancel", "drive"}
  PROVE  /\ controller # "copying"
         /\ controller = "waiting" => outcome[awaited] = "None"
         /\ publishing = NoCommand
BY DEF FacadeInv, Quiet, AnswerKnown, Progress

\* With an answer known nothing wakes the runner.
LEMMA AnswerLeavesNoWake ==
  ASSUME FacadeInv, AnswerKnown
  PROVE  ~Immediate /\ WaitSources = {}
<1>1. /\ commands = <<>> /\ cancellations = <<>>
      /\ ~HasActive(arbiter) /\ arbiter.pending = NoCommand
  BY DEF FacadeInv, Quiet
<1>2. arbiter.starting = NoCommand /\ runner.lifecycle = "None" /\ runner.waitFor = {}
  BY <1>1 DEF FacadeInv, DriverInv, Agreement, Settled
<1>3. ArbiterAction(arbiter) = "Idle"
  BY <1>1, <1>2 DEF ArbiterAction, CancelDue
<1>4. QED
  BY <1>1, <1>2, <1>3 DEF Immediate, RunImmediately, WaitSources

-----------------------------------------------------------------------------
(* The invariant holds initially *)

LEMMA InitEstablishesFacadeInv == FacadeInit => FacadeInv
<1> SUFFICES ASSUME FacadeInit PROVE FacadeInv
  OBVIOUS
<1> USE DEF FacadeInit, ControllerInit
<1>1. DriverInv
  BY InitEstablishesInv
<1>2. FacadeTypeOK
  BY <1>1, FacadeAssumption, DriverAssumption
  DEF FacadeAssumption, DriverAssumption, DriverInv, FacadeTypeOK, ControllerTypeOK,
      CommandNumber, Sequence, FuturePlace
<1>3. LedgerMatchesDriver /\ Settled
  BY DEF LedgerMatchesDriver, Settled, Init, NewArbiter, NewRunner, NoActive
<1>4. Channel /\ Progress /\ Caller /\ Requests
  BY DEF Channel, Progress, Caller, Requests, Init
<1>5. Quiet /\ Cooperative
  BY DEF Quiet, AnswerKnown, Cooperative, DropRequestsCancel
<1>6. QED
  BY <1>1, <1>2, <1>3, <1>4, <1>5 DEF FacadeInv

-----------------------------------------------------------------------------
(* The runner keeps it *)

LEMMA WaitReadyKeepsInv ==
  ASSUME FacadeInv, NEW sources \in SUBSET WaitSource, WaitReady(sources)
  PROVE  FacadeInv'
<1> USE DEF FacadeInv, WaitReady, future
<1>1. ~AnswerKnown
  BY AnswerLeavesNoWake DEF Awake
<1>2. DriverInv'
  BY SameDriver
<1>3. FacadeTypeOK'
  BY <1>2 DEF DriverInv, FacadeTypeOK, ControllerTypeOK
<1>4. LedgerMatchesDriver' /\ Settled' /\ Channel' /\ Progress'
  BY DEF driver, LedgerMatchesDriver, Settled, Channel, Progress
<1>5. Caller' /\ Requests'
  BY DEF driver, Caller, Unanswered, Requests, OldestRequest
<1>6. Quiet'
  BY <1>1 DEF driver, Quiet, AnswerKnown
<1>7. Cooperative'
  BY DEF driver, Cooperative, DropRequestsCancel
<1>8. QED
  BY <1>2, <1>3, <1>4, <1>5, <1>6, <1>7

\* A driver with room for a command holds one at most, so the ledger has room.
LEMMA LedgerHasRoom ==
  ASSUME FacadeInv, step = "receive", CanSubmit(arbiter)
  PROVE  Cardinality(ledger) < LedgerSize
<1>1. arbiter.pending = NoCommand /\ publishing = NoCommand
  BY TurnIsUnanswered DEF CanSubmit
<1>2. ledger = {} \/ ledger = {arbiter.active.sequence}
  BY <1>1 DEF FacadeInv, LedgerMatchesDriver
<1>3. Cardinality(ledger) \in {0, 1}
  BY <1>2, FS_EmptySet, FS_Singleton
<1>4. QED
  BY <1>3 DEF LedgerSize

LEMMA TakeCommandKeepsInv ==
  ASSUME FacadeInv, TakeCommand
  PROVE  FacadeInv'
<1> USE DEF FacadeInv, future
<1> DEFINE c == submitted + 1
<1>1. /\ Tail(commands) \in Seq(Sequence)
      /\ Len(commands) \in Nat \ {0}
      /\ Len(commands') = Len(commands) - 1
      /\ Head(commands) = commands[1] /\ commands[1] \in Sequence
      /\ \A i \in 1 .. Len(commands') : commands'[i] = commands[i + 1]
  BY Types, TailOf DEF TakeCommand
<1>2. Head(commands) = c /\ c \in Sequence /\ submitted \in Nat /\ c # NoCommand
  BY <1>1, Types, SameNumbers DEF Channel
<1>3. arbiter.pending = NoCommand /\ publishing = NoCommand
  BY TurnIsUnanswered DEF TakeCommand, CanSubmit
<1>4. Cardinality(ledger) < LedgerSize
  BY LedgerHasRoom DEF TakeCommand
<1>5. /\ Submit
      /\ ledger' = ledger \cup {c}
      /\ step = "receive" /\ step' = "cancel" /\ commands' = Tail(commands)
      /\ UNCHANGED <<completion, cancellations, controller, awaited, dropped, sent, ready, publishing>>
  BY <1>2, <1>4 DEF TakeCommand
<1>6. DriverInv'
  BY <1>5, SubmitKeepsInv
<1>7. /\ submitted' = c /\ UNCHANGED <<outcome, runner>>
      /\ arbiter'.pending = c /\ arbiter'.active = arbiter.active
  BY <1>5 DEF Submit, Submitted, DriverInv, DriverTypeOK, Arbiter
<1>8. FacadeTypeOK'
  <2>1. Len(commands') <= CommandCapacity
    <3>1. Len(commands) <= CommandCapacity /\ CommandCapacity \in Nat
      BY FacadeAssumption DEF FacadeAssumption, FacadeTypeOK, ControllerTypeOK
    <3>2. QED
      BY <1>1, <3>1
  <2>2. ledger' \subseteq Sequence
    BY <1>2, <1>5 DEF FacadeTypeOK
  <2>3. QED
    BY <1>1, <1>5, <1>6, <2>1, <2>2, SameNumbers DEF DriverInv, FacadeTypeOK, ControllerTypeOK
<1>9. LedgerMatchesDriver'
  BY <1>2, <1>3, <1>5, <1>7 DEF LedgerMatchesDriver
<1>10. Channel'
  <2>1. sent \in Nat /\ sent = submitted + Len(commands)
    BY Types DEF Channel
  <2>2. sent' = submitted' + Len(commands')
    BY <1>1, <1>2, <1>5, <1>7, <2>1
  <2>3. ASSUME NEW i \in 1 .. Len(commands')
        PROVE  commands'[i] = submitted' + i
    <3>1. i + 1 \in 1 .. Len(commands) /\ i \in Nat
      BY <1>1, <2>3
    <3>2. commands[i + 1] = submitted + (i + 1)
      BY <3>1 DEF Channel
    <3>3. QED
      BY <1>1, <1>2, <1>7, <2>3, <3>1, <3>2
  <2>4. QED
    BY <2>2, <2>3 DEF Channel
<1>11. Settled'
  <2>1. arbiter.active.sequence < c
    <3>1. arbiter.active.sequence \in Sequence => arbiter.active.sequence <= submitted
      BY Held
    <3>2. arbiter.active.sequence \in Nat
      BY Types DEF NoCommand
    <3>3. QED
      BY <1>2, <3>1, <3>2, Types DEF NoCommand
  <2>2. QED
    BY <1>7, <2>1 DEF Settled
<1>12. Progress' /\ Caller'
  BY <1>3, <1>5, <1>7 DEF Progress, Caller, Unanswered
<1>13. Requests'
  <2>1. OldestRequest' = OldestRequest
    BY <1>2, <1>5, <1>7 DEF OldestRequest
  <2>2. QED
    BY <1>5, <2>1 DEF Requests
<1>14. Quiet'
  BY <1>5, <1>7, TurnIsUnanswered DEF Quiet, AnswerKnown
<1>15. Cooperative'
  BY <1>2, <1>5, <1>7 DEF Cooperative, DropRequestsCancel
<1>16. QED
  BY <1>6, <1>8, <1>9, <1>10, <1>11, <1>12, <1>13, <1>14, <1>15

LEMMA NoCommandKeepsInv ==
  ASSUME FacadeInv, NoCommandToTake
  PROVE  FacadeInv'
<1> USE DEF FacadeInv, NoCommandToTake, future
<1>1. DriverInv'
  BY SameDriver
<1>2. FacadeTypeOK'
  BY <1>1 DEF DriverInv, FacadeTypeOK, ControllerTypeOK
<1>3. LedgerMatchesDriver' /\ Settled' /\ Channel' /\ Progress' /\ Caller'
  BY DEF driver, LedgerMatchesDriver, Settled, Channel, Progress, Caller, Unanswered
<1>4. Requests'
  <2>1. \A i \in 1 .. Len(cancellations) : cancellations[i] >= submitted /\ cancellations[i] \in Nat
    BY Types DEF Requests, OldestRequest
  <2>2. \A i \in 1 .. Len(cancellations) : cancellations[i] >= submitted - 1
    BY <2>1, Types
  <2>3. QED
    BY <2>2 DEF driver, Requests, OldestRequest
<1>5. Quiet'
  BY TurnIsUnanswered DEF driver, Quiet, AnswerKnown
<1>6. Cooperative'
  BY DEF driver, Cooperative, DropRequestsCancel, CanSubmit
<1>7. QED
  BY <1>1, <1>2, <1>3, <1>4, <1>5, <1>6

\* What is left in the cancellation channel when its oldest request is taken.
LEMMA TakenRequest ==
  ASSUME FacadeInv, cancellations # <<>>, cancellations' = Tail(cancellations)
  PROVE  /\ cancellations' \in Seq(Sequence)
         /\ Len(cancellations) \in Nat \ {0}
         /\ Len(cancellations') = Len(cancellations) - 1
         /\ Head(cancellations) = cancellations[1]
         /\ cancellations[1] \in dropped
         /\ \A i \in 1 .. Len(cancellations') : cancellations'[i] = cancellations[i + 1]
         /\ \A i \in 1 .. Len(cancellations') :
              cancellations'[i] \in dropped /\ cancellations'[i] >= submitted
         /\ \A i, j \in 1 .. Len(cancellations') :
              i <= j => cancellations'[j] - cancellations'[i] >= j - i
<1>1. /\ cancellations' \in Seq(Sequence)
      /\ Len(cancellations) \in Nat \ {0}
      /\ Len(cancellations') = Len(cancellations) - 1
      /\ Head(cancellations) = cancellations[1]
      /\ \A i \in 1 .. Len(cancellations') : cancellations'[i] = cancellations[i + 1]
  BY Types, TailOf DEF FacadeInv
<1>2. /\ \A i \in 1 .. Len(cancellations) :
           cancellations[i] \in dropped /\ cancellations[i] >= OldestRequest
      /\ \A i, j \in 1 .. Len(cancellations) :
           i <= j => cancellations[j] - cancellations[i] >= j - i
  BY DEF FacadeInv, Requests
<1>3. dropped \subseteq Nat /\ submitted \in Nat /\ OldestRequest \in Int /\ OldestRequest >= submitted - 1
  <2>1. dropped \subseteq Nat /\ submitted \in Nat
    BY Types DEF FacadeInv
  <2>2. QED
    BY <2>1 DEF OldestRequest
<1>4. 1 \in 1 .. Len(cancellations)
  BY <1>1
<1>5. ASSUME NEW i \in 1 .. Len(cancellations')
      PROVE  cancellations'[i] \in dropped /\ cancellations'[i] >= submitted
  <2>1. i + 1 \in 1 .. Len(cancellations) /\ 1 <= i + 1 /\ i \in Nat \ {0}
    BY <1>1, <1>5
  <2>2. cancellations[i + 1] - cancellations[1] >= (i + 1) - 1
    BY <1>2, <1>4, <2>1
  <2>3. cancellations[i + 1] \in Nat /\ cancellations[1] \in Nat /\ cancellations[1] >= submitted - 1
    <3>1. cancellations[i + 1] \in dropped /\ cancellations[1] \in dropped /\ cancellations[1] >= OldestRequest
      BY <1>2, <1>4, <2>1
    <3>2. cancellations[i + 1] \in Nat /\ cancellations[1] \in Nat
      BY <1>3, <3>1
    <3>3. QED
      BY <1>3, <3>1, <3>2
  <2>4. cancellations[i + 1] >= submitted
    BY <1>3, <2>1, <2>2, <2>3
  <2>5. QED
    BY <1>1, <1>2, <1>5, <2>1, <2>4
<1>6. ASSUME NEW i \in 1 .. Len(cancellations'), NEW j \in 1 .. Len(cancellations'), i <= j
      PROVE  cancellations'[j] - cancellations'[i] >= j - i
  <2>1. /\ i + 1 \in 1 .. Len(cancellations) /\ j + 1 \in 1 .. Len(cancellations)
        /\ i + 1 <= j + 1 /\ i \in Nat /\ j \in Nat
    BY <1>1, <1>6
  <2>2. cancellations[j + 1] - cancellations[i + 1] >= (j + 1) - (i + 1)
    BY <1>2, <2>1
  <2>3. QED
    BY <1>1, <2>1, <2>2
<1>7. QED
  BY <1>1, <1>2, <1>4, <1>5, <1>6

\* On one cooperative executor a request that is taken is for a command that
\* was received: had a full driver kept it in the channel, the command that
\* fills the driver would be dropped too, and its request be the older one.
LEMMA RequestFindsCommand ==
  ASSUME FacadeInv, ~Preemptive, step = "cancel", cancellations # <<>>,
         outcome[Head(cancellations)] = "None"
  PROVE  CancelKind(arbiter, Head(cancellations)) # "NotFound"
<1> USE DEF FacadeInv
<1> DEFINE s == cancellations[1]
           p == arbiter.pending
<1>1. /\ Len(cancellations) \in Nat \ {0} /\ 1 \in 1 .. Len(cancellations)
      /\ Head(cancellations) = s /\ s \in Sequence
  BY Types, TailOf
<1>2. s \in dropped /\ s <= sent
  BY <1>1 DEF Requests, Caller
<1> SUFFICES ASSUME CancelKind(arbiter, s) = "NotFound" PROVE FALSE
  BY <1>1
<1>3. s # p /\ s # arbiter.active.sequence
  <2>1. s # p /\ ~(HasActive(arbiter) /\ arbiter.active.sequence = s)
    BY DEF CancelKind
  <2>2. arbiter.active.sequence = s => HasActive(arbiter)
    BY <1>1, SameNumbers DEF HasActive, NoActive
  <2>3. QED
    BY <2>1, <2>2
<1>4. s > submitted /\ s \in Nat /\ submitted \in Nat /\ sent \in Nat
  <2>1. ~(s <= submitted)
    BY <1>1, <1>3, Held
  <2>2. s \in Nat /\ submitted \in Nat /\ sent \in Nat
    BY <1>1, Types
  <2>3. QED
    BY <2>1, <2>2
<1>5. commands # <<>>
  <2>1. Len(commands) # 0
    BY <1>2, <1>4 DEF Channel
  <2>2. QED
    BY <2>1
<1>6. p # NoCommand /\ p \in Sequence
  BY <1>5, Types DEF Cooperative
<1>7. p <= submitted /\ outcome[p] = "None" /\ p \in Nat
  BY <1>6, Held, Types
<1>8. p \in dropped
  <2>1. p \in 1 .. sent /\ p # sent
    BY <1>2, <1>4, <1>6, <1>7 DEF Sequence
  <2>2. QED
    BY <1>7, <2>1 DEF Caller, Unanswered
<1>9. arbiter.active.sequence # p
  BY <1>6, <1>7 DEF Settled
<1>10. PICK i \in 1 .. Len(cancellations) : cancellations[i] = p
  BY <1>7, <1>8, <1>9 DEF Cooperative, DropRequestsCancel
<1>11. cancellations[i] - cancellations[1] >= i - 1
  BY <1>1, <1>10 DEF Requests
<1>12. QED
  BY <1>1, <1>4, <1>7, <1>10, <1>11

\* What the request of a dropped command does to the driver.
LEMMA RequestEffect ==
  ASSUME FacadeInv, NEW s \in dropped, s \in Sequence,
         \/ CancelBySequence(s)
         \/ CancelKind(arbiter, s) \in {"AlreadyRequested", "NotFound"} /\ UNCHANGED driver
  PROVE  /\ DriverInv' /\ submitted' = submitted /\ UNCHANGED runner
         /\ arbiter'.active.sequence = arbiter.active.sequence
         /\ Cancelling => Cancelling'
         /\ \/ /\ outcome' = outcome /\ arbiter'.pending = arbiter.pending
               /\ CancelKind(arbiter, s) # "NotFound" => arbiter.active.sequence = s /\ Cancelling'
            \/ /\ outcome[s] = "None" /\ outcome' = [outcome EXCEPT ![s] = "Cancelled"]
               /\ arbiter.pending = s /\ arbiter'.pending = NoCommand
<1> USE DEF FacadeInv
<1>1. arbiter \in Arbiter(Sequence, OperationId) /\ s # NoCommand
  BY SameNumbers DEF DriverInv, DriverTypeOK
<1>2. CASE CancelBySequence(s) /\ CancelKind(arbiter, s) = "RequestActive"
  <2>1. HasActive(arbiter) /\ arbiter.active.sequence = s
    BY <1>2 DEF CancelKind
  <2>2. arbiter' = IntendCancel(arbiter) /\ UNCHANGED <<outcome, runner, submitted>>
    BY <1>2 DEF CancelBySequence
  <2>3. arbiter.active \in ActiveCommand(Sequence, OperationId)
    BY <2>1, ActiveIsBound
  <2>4. /\ arbiter'.active.sequence = arbiter.active.sequence
        /\ arbiter'.active.cancelIntent
        /\ arbiter'.pending = arbiter.pending
    BY <1>1, <2>2, <2>3 DEF IntendCancel, Arbiter, ActiveCommand
  <2>5. s \in 1 .. submitted
    BY <2>1, Held DEF Sequence
  <2>6. DriverInv'
    BY <1>2, <2>5, CancelBySequenceKeepsInv
  <2>7. QED
    BY <2>1, <2>2, <2>4, <2>6 DEF Cancelling
<1>3. CASE CancelBySequence(s) /\ CancelKind(arbiter, s) = "RemovePending"
  <2>1. arbiter.pending = s
    BY <1>3 DEF CancelKind
  <2>2. /\ arbiter' = RemovePending(arbiter) /\ UNCHANGED <<runner, submitted>>
        /\ outcome' = [outcome EXCEPT ![s] = "Cancelled"]
    BY <1>3 DEF CancelBySequence
  <2>3. arbiter'.active = arbiter.active /\ arbiter'.pending = NoCommand
    BY <1>1, <2>2 DEF RemovePending, Arbiter
  <2>4. s \in 1 .. submitted /\ outcome[s] = "None"
    BY <2>1, Held DEF Sequence
  <2>5. DriverInv'
    BY <1>3, <2>4, CancelBySequenceKeepsInv
  <2>6. QED
    BY <2>1, <2>2, <2>3, <2>4, <2>5 DEF Cancelling
<1>4. CASE CancelKind(arbiter, s) \in {"AlreadyRequested", "NotFound"} /\ UNCHANGED driver
  <2>1. CancelKind(arbiter, s) # "NotFound" => arbiter.active.sequence = s /\ Cancelling
    BY <1>4 DEF CancelKind, Cancelling
  <2>2. UNCHANGED <<arbiter, runner, outcome, submitted>>
    BY <1>4 DEF driver
  <2>3. QED
    BY <1>4, <2>1, <2>2, SameDriver DEF Cancelling
<1>5. QED
  BY <1>2, <1>3, <1>4 DEF CancelBySequence

LEMMA TakeCancellationKeepsInv ==
  ASSUME FacadeInv, TakeCancellation
  PROVE  FacadeInv'
<1> USE DEF FacadeInv
<1> DEFINE s == Head(cancellations)
<1>1. /\ step = "cancel" /\ cancellations # <<>>
      /\ cancellations' = Tail(cancellations)
      /\ UNCHANGED <<commands, completion, controller, awaited, dropped, sent, ledger, ready>>
  BY DEF TakeCancellation, future
<1>2. /\ cancellations' \in Seq(Sequence)
      /\ Len(cancellations) \in Nat \ {0}
      /\ Len(cancellations') = Len(cancellations) - 1
      /\ s = cancellations[1] /\ s \in dropped /\ s \in Sequence
      /\ \A i \in 1 .. Len(cancellations') : cancellations'[i] = cancellations[i + 1]
      /\ \A i \in 1 .. Len(cancellations') :
           cancellations'[i] \in dropped /\ cancellations'[i] >= submitted
      /\ \A i, j \in 1 .. Len(cancellations') :
           i <= j => cancellations'[j] - cancellations'[i] >= j - i
  BY <1>1, TakenRequest, Types
<1>3. publishing = NoCommand
  BY <1>1, TurnIsUnanswered
<1>4. \/ CancelBySequence(s)
      \/ CancelKind(arbiter, s) \in {"AlreadyRequested", "NotFound"} /\ UNCHANGED driver
  BY DEF TakeCancellation
<1>5. /\ DriverInv' /\ submitted' = submitted /\ UNCHANGED runner
      /\ arbiter'.active.sequence = arbiter.active.sequence
      /\ Cancelling => Cancelling'
  BY <1>2, <1>4, RequestEffect
<1>6. \/ /\ outcome' = outcome /\ arbiter'.pending = arbiter.pending
         /\ step' = "drive" /\ publishing' = NoCommand
         /\ CancelKind(arbiter, s) # "NotFound" => arbiter.active.sequence = s /\ Cancelling'
      \/ /\ outcome[s] = "None" /\ outcome' = [outcome EXCEPT ![s] = "Cancelled"]
         /\ arbiter.pending = s /\ arbiter'.pending = NoCommand
         /\ step' = "publish" /\ publishing' = s
  <2>1. CASE outcome' = outcome
    <3>1. step' = "drive" /\ publishing' = NoCommand
      BY <1>3, <2>1 DEF TakeCancellation
    <3>2. ~(outcome[s] = "None" /\ outcome' = [outcome EXCEPT ![s] = "Cancelled"])
      BY <1>2, <2>1, Types
    <3>3. QED
      BY <1>2, <1>4, <2>1, <3>1, <3>2, RequestEffect
  <2>2. CASE outcome' # outcome
    <3>1. step' = "publish" /\ publishing' = s
      BY <2>2 DEF TakeCancellation, driver
    <3>2. QED
      BY <1>2, <1>4, <2>2, <3>1, RequestEffect
  <2>3. QED
    BY <2>1, <2>2
<1>7. \A t \in Sequence : outcome'[t] = outcome[t]
                          \/ (t = s /\ publishing' = s /\ outcome'[s] = "Cancelled" /\ outcome[s] = "None")
  BY <1>2, <1>6, Types
<1>8. FacadeTypeOK'
  <2>1. Len(cancellations') <= CancellationCapacity
    BY <1>2, FacadeAssumption DEF FacadeAssumption, FacadeTypeOK, ControllerTypeOK
  <2>2. step' \in {"wait", "receive", "cancel", "drive", "publish"}
        /\ publishing' \in Sequence \cup {NoCommand}
    BY <1>2, <1>6
  <2>3. QED
    BY <1>1, <1>2, <1>5, <2>1, <2>2, SameNumbers DEF DriverInv, FacadeTypeOK, ControllerTypeOK
<1>9. LedgerMatchesDriver'
  <2>1. ASSUME NEW t \in Sequence
        PROVE  t \in ledger' <=> (t <= submitted' /\ outcome'[t] = "None") \/ t = publishing'
    <3>1. t \in ledger <=> t <= submitted /\ outcome[t] = "None"
      BY <1>3, LedgerHolds, SameNumbers
    <3>2. CASE outcome' = outcome /\ publishing' = NoCommand
      BY <1>1, <1>5, <3>1, <3>2, SameNumbers
    <3>3. CASE arbiter.pending = s /\ publishing' = s /\ outcome' = [outcome EXCEPT ![s] = "Cancelled"]
      <4>1. s <= submitted /\ outcome[s] = "None"
        BY <1>2, <3>3, Held
      <4>2. QED
        BY <1>1, <1>2, <1>5, <3>1, <3>3, <4>1, Types
    <3>4. QED
      BY <1>6, <3>2, <3>3
  <2>2. ledger' \subseteq Sequence /\ publishing' \in Sequence \cup {NoCommand}
    BY <1>8 DEF FacadeTypeOK
  <2>3. QED
    BY <1>5, <2>1, <2>2, LedgerNext
<1>10. Channel'
  BY <1>1, <1>5 DEF Channel
<1>11. Settled'
  BY <1>5, <1>6 DEF Settled
<1>12. Progress'
  <2>1. completion # NoCompletion => completion.sequence \in Sequence
    BY SameNumbers DEF FacadeTypeOK, ControllerTypeOK
  <2>2. outcome' = outcome \/ (outcome'[s] # "None" /\ outcome[s] = "None")
    BY <1>2, <1>6, Types
  <2>3. completion # NoCompletion =>
          outcome'[completion.sequence] # "None" /\ completion.sequence # publishing'
    BY <1>2, <1>3, <1>6, <1>7, <2>1, <2>2 DEF Progress
  <2>4. (publishing' # NoCommand <=> step' = "publish")
        /\ (publishing' # NoCommand => outcome'[publishing'] # "None")
    <3>1. CASE outcome' = outcome
      <4>1. outcome'[s] # "Cancelled" \/ outcome[s] # "None"
        BY <3>1
      <4>2. step' = "drive" /\ publishing' = NoCommand
        BY <1>2, <1>6, <4>1, Types
      <4>3. QED
        BY <4>2
    <3>2. CASE outcome' # outcome
      <4>1. step' = "publish" /\ publishing' = s /\ outcome'[s] # "None"
        BY <1>6, <2>2, <3>2
      <4>2. QED
        BY <1>2, <4>1, SameNumbers
    <3>3. QED
      BY <3>1, <3>2
  <2>5. QED
    BY <1>1, <2>3, <2>4 DEF Progress
<1>13. Caller'
  <2>1. ASSUME NEW t \in 1 .. sent, Unanswered(t)'
        PROVE  Unanswered(t) \/ t = s
    <3>1. t \in Sequence
      BY Types DEF Sequence
    <3>2. QED
      BY <1>6, <1>7, <2>1, <3>1, SameNumbers DEF Unanswered
  <2>2. QED
    BY <1>1, <1>2, <2>1 DEF Caller
<1>14. Requests'
  <2>1. OldestRequest' = submitted
    BY <1>5, <1>6 DEF OldestRequest
  <2>2. QED
    BY <1>1, <1>2, <2>1 DEF Requests
<1>15. Quiet'
  <2>1. controller = "waiting" => awaited # s /\ awaited \in Sequence
    BY <1>2, Types, SameNumbers DEF Caller, Sequence
  <2>2. ~AnswerKnown'
    BY <1>1, <1>7, <2>1, TurnIsUnanswered DEF AnswerKnown
  <2>3. QED
    BY <2>2 DEF Quiet
<1>16. Cooperative'
  <2> SUFFICES ASSUME ~Preemptive, NEW t \in dropped, outcome'[t] = "None"
               PROVE  \/ \E i \in 1 .. Len(cancellations') : cancellations'[i] = t
                      \/ arbiter'.active.sequence = t /\ Cancelling'
    BY <1>1, <1>6 DEF Cooperative, DropRequestsCancel, Cancelling
  <2>1. outcome[t] = "None" /\ t \in Sequence
    <3>1. t \in Sequence
      BY Types
    <3>2. QED
      BY <1>7, <3>1
  <2>2. CASE arbiter.active.sequence = t /\ Cancelling
    BY <1>5, <2>2
  <2>3. CASE t = s
    <3>1. outcome' = outcome
      BY <1>2, <1>6, <2>3, Types
    <3>2. CancelKind(arbiter, s) # "NotFound"
      BY <1>1, <2>1, <2>3, RequestFindsCommand
    <3>3. arbiter.active.sequence = s /\ Cancelling'
      BY <1>2, <1>6, <2>1, <2>3, <3>1, <3>2, Types
    <3>4. QED
      BY <1>5, <2>3, <3>3
  <2>4. CASE t # s /\ \E i \in 1 .. Len(cancellations) : cancellations[i] = t
    <3>1. PICK k \in 1 .. Len(cancellations) : cancellations[k] = t
      BY <2>4
    <3>2. k - 1 \in 1 .. Len(cancellations') /\ cancellations'[k - 1] = t
      BY <1>2, <2>4, <3>1
    <3>3. QED
      BY <3>2
  <2>5. QED
    BY <2>1, <2>2, <2>3, <2>4 DEF Cooperative, DropRequestsCancel, Cancelling
<1>17. QED
  BY <1>5, <1>8, <1>9, <1>10, <1>11, <1>12, <1>13, <1>14, <1>15, <1>16

LEMMA NoCancellationKeepsInv ==
  ASSUME FacadeInv, NoCancellationToTake
  PROVE  FacadeInv'
<1> USE DEF FacadeInv, NoCancellationToTake, future
<1>1. DriverInv'
  BY SameDriver
<1>2. FacadeTypeOK'
  BY <1>1 DEF DriverInv, FacadeTypeOK, ControllerTypeOK
<1>3. LedgerMatchesDriver' /\ Settled' /\ Channel' /\ Progress' /\ Caller'
  BY DEF driver, LedgerMatchesDriver, Settled, Channel, Progress, Caller, Unanswered
<1>4. Requests'
  <2>1. Len(cancellations) = 0
    OBVIOUS
  <2>2. QED
    BY <2>1 DEF Requests
<1>5. Quiet'
  BY TurnIsUnanswered DEF driver, Quiet, AnswerKnown
<1>6. Cooperative'
  BY DEF driver, Cooperative, DropRequestsCancel
<1>7. QED
  BY <1>1, <1>2, <1>3, <1>4, <1>5, <1>6

\* The answer of the last command sent leaves nothing in either channel: the
\* requests are of commands that are dropped and not older than it.
LEMMA LastAnswerIsQuiet ==
  ASSUME FacadeInv, step = "drive", controller = "waiting", awaited \in Sequence,
         Answers(awaited), DriverInv', submitted' = submitted
  PROVE  /\ commands = <<>> /\ cancellations = <<>>
         /\ ~HasActive(arbiter') /\ arbiter'.pending = NoCommand
<1> USE DEF FacadeInv
<1>1. awaited = sent /\ sent \notin dropped /\ sent \in Nat /\ submitted \in Nat /\ sent \in Sequence
  BY Types DEF Caller
<1>2. sent <= submitted /\ Len(commands) \in Nat
  <2>1. sent \in {arbiter.pending, arbiter.active.sequence}
    BY <1>1 DEF Answers
  <2>2. QED
    BY <1>1, <2>1, Held, Types
<1>3. sent = submitted /\ commands = <<>>
  <2>1. Len(commands) = 0 /\ sent = submitted
    BY <1>1, <1>2 DEF Channel
  <2>2. QED
    BY <2>1, Types
<1>4. cancellations = <<>>
  <2> SUFFICES ASSUME cancellations # <<>> PROVE FALSE
    OBVIOUS
  <2>1. 1 \in 1 .. Len(cancellations)
    BY Types, TailOf
  <2>2. cancellations[1] \in dropped /\ cancellations[1] >= submitted
    BY <2>1 DEF Requests, OldestRequest
  <2>3. cancellations[1] \in Nat /\ cancellations[1] <= sent
    BY <2>2, Types DEF Caller
  <2>4. cancellations[1] = sent
    BY <1>1, <1>3, <2>2, <2>3
  <2>5. QED
    BY <1>1, <2>2, <2>4
<1>5. ~HasActive(arbiter')
  <2>1. arbiter'.active.sequence = NoCommand
    BY DEF Answers
  <2>2. QED
    BY <2>1, SameNumbers DEF HasActive, DriverInv, DriverTypeOK, Arbiter, ActiveCommand
<1>6. arbiter'.pending = NoCommand
  <2> SUFFICES ASSUME arbiter.pending # NoCommand, awaited = arbiter.active.sequence PROVE FALSE
    BY DEF Answers
  <2>1. arbiter.pending \in Sequence /\ arbiter.active.sequence < arbiter.pending
    BY Types DEF Settled
  <2>2. arbiter.pending <= submitted /\ arbiter.pending \in Nat
    BY <2>1, Held, Types
  <2>3. QED
    BY <1>1, <1>3, <2>1, <2>2
<1>7. QED
  BY <1>3, <1>4, <1>5, <1>6

LEMMA DriveKeepsInv ==
  ASSUME FacadeInv, Drive
  PROVE  FacadeInv'
<1> USE DEF FacadeInv
<1>1. /\ step = "drive" /\ ready' = {} /\ DriveOnce(ready)
      /\ UNCHANGED <<commands, cancellations, completion, controller, awaited, dropped, sent, ledger>>
  BY DEF Drive, future
<1>2. publishing = NoCommand
  BY <1>1, TurnIsUnanswered
<1>3. /\ DriverInv' /\ Unsubscribed' /\ submitted' = submitted
      /\ Kept \/ Started \/ \E s \in Sequence : Answers(s)
  BY <1>1, DriveEffect DEF Settled, Unsubscribed
<1>4. \/ outcome' = outcome /\ step' = "wait" /\ publishing' = NoCommand /\ (Kept \/ Started)
      \/ \E s \in Sequence : Answers(s) /\ step' = "publish" /\ publishing' = s
  <2>1. CASE Kept \/ Started
    BY <1>2, <2>1 DEF Drive, Kept, Started
  <2>2. ASSUME NEW s \in Sequence, Answers(s)
        PROVE  step' = "publish" /\ publishing' = s
    <3>1. /\ outcome'[s] # outcome[s]
          /\ \A t \in Sequence : outcome'[t] # outcome[t] => t = s
      <4>1. PICK kind \in TerminalEvent : outcome' = [outcome EXCEPT ![s] = kind]
        BY <2>2 DEF Answers
      <4>2. kind # "None" /\ outcome[s] = "None"
        BY <2>2 DEF Answers, TerminalEvent
      <4>3. QED
        BY <4>1, <4>2, Types
    <3>2. outcome' # outcome
      BY <3>1
    <3>3. (CHOOSE t \in Sequence : outcome'[t] # outcome[t]) = s
      BY <3>1
    <3>4. QED
      BY <3>2, <3>3 DEF Drive
  <2>3. QED
    BY <1>3, <2>1, <2>2 DEF Kept, Started
<1>5. ASSUME NEW s \in Sequence, Answers(s)
      PROVE  /\ outcome[s] = "None" /\ outcome'[s] # "None"
             /\ \A t \in Sequence : t # s => outcome'[t] = outcome[t]
             /\ s <= submitted
  <2>1. PICK kind \in TerminalEvent : outcome' = [outcome EXCEPT ![s] = kind]
    BY <1>5 DEF Answers
  <2>2. kind # "None"
    BY DEF TerminalEvent
  <2>3. s <= submitted
    BY <1>5, Held DEF Answers
  <2>4. QED
    BY <1>5, <2>1, <2>2, <2>3, Types DEF Answers
<1>6. FacadeTypeOK'
  <2>1. step' \in {"wait", "receive", "cancel", "drive", "publish"}
        /\ publishing' \in Sequence \cup {NoCommand}
    BY <1>4
  <2>2. QED
    BY <1>1, <1>3, <2>1 DEF DriverInv, FacadeTypeOK, ControllerTypeOK
<1>7. LedgerMatchesDriver'
  <2>1. ASSUME NEW t \in Sequence
        PROVE  t \in ledger' <=> (t <= submitted' /\ outcome'[t] = "None") \/ t = publishing'
    <3>1. t \in ledger <=> t <= submitted /\ outcome[t] = "None"
      BY <1>2, LedgerHolds, SameNumbers
    <3>2. CASE outcome' = outcome /\ publishing' = NoCommand
      BY <1>1, <1>3, <3>1, <3>2, SameNumbers
    <3>3. ASSUME NEW s \in Sequence, Answers(s), publishing' = s
          PROVE  t \in ledger' <=> (t <= submitted' /\ outcome'[t] = "None") \/ t = publishing'
      BY <1>1, <1>3, <1>5, <3>1, <3>3
    <3>4. QED
      BY <1>4, <3>2, <3>3
  <2>2. ledger' \subseteq Sequence /\ publishing' \in Sequence \cup {NoCommand}
    BY <1>6 DEF FacadeTypeOK
  <2>3. QED
    BY <1>3, <2>1, <2>2, LedgerNext
<1>8. Channel'
  BY <1>1, <1>3 DEF Channel
<1>9. Settled'
  <2>1. Kept => Settled'
    BY <1>3 DEF Kept, Settled, Unsubscribed
  <2>2. Started => Settled'
    BY <1>3 DEF Started, Settled, Unsubscribed
  <2>3. ASSUME NEW s \in Sequence, Answers(s)
        PROVE  Settled'
    <3>1. arbiter'.active.sequence = 0 /\ arbiter'.pending \in {arbiter.pending, NoCommand}
      BY <2>3 DEF Answers, NoCommand
    <3>2. arbiter.pending # NoCommand => arbiter.pending \in Nat \ {0}
      BY Types DEF NoCommand, Sequence
    <3>3. QED
      BY <1>3, <3>1, <3>2 DEF Settled, Unsubscribed
  <2>4. QED
    BY <1>3, <2>1, <2>2, <2>3
<1>10. Progress'
  <2>1. completion # NoCompletion => completion.sequence \in Sequence
    BY SameNumbers DEF FacadeTypeOK, ControllerTypeOK
  <2>2. CASE outcome' = outcome /\ step' = "wait" /\ publishing' = NoCommand
    BY <1>1, <1>2, <2>2 DEF Progress
  <2>3. ASSUME NEW s \in Sequence, Answers(s), step' = "publish", publishing' = s
        PROVE  Progress'
    <3>1. s # NoCommand /\ outcome'[s] # "None"
      BY <1>5, <2>3, SameNumbers
    <3>2. completion # NoCompletion =>
            outcome'[completion.sequence] # "None" /\ completion.sequence # s
      BY <1>5, <2>1, <2>3 DEF Progress
    <3>3. QED
      BY <1>1, <2>3, <3>1, <3>2 DEF Progress
  <2>4. QED
    BY <1>4, <2>2, <2>3
<1>11. Caller'
  <2>1. ASSUME NEW t \in 1 .. sent, Unanswered(t)'
        PROVE  Unanswered(t)
    <3>1. t \in Sequence
      BY Types DEF Sequence
    <3>2. QED
      BY <1>4, <1>5, <2>1, <3>1, SameNumbers DEF Unanswered
  <2>2. QED
    BY <1>1, <2>1 DEF Caller
<1>12. Requests'
  <2>1. OldestRequest' = OldestRequest
    BY <1>1, <1>3, <1>4 DEF OldestRequest
  <2>2. QED
    BY <1>1, <2>1 DEF Requests
<1>13. Quiet'
  <2> SUFFICES ASSUME AnswerKnown' PROVE Quiet'
    BY DEF Quiet
  <2>1. controller = "waiting" /\ outcome'[awaited] # "None" /\ outcome[awaited] = "None"
    BY <1>1, TurnIsUnanswered DEF AnswerKnown
  <2>2. awaited \in Sequence
    BY <2>1, Types DEF Caller, Sequence, NoSequence
  <2>3. Answers(awaited) /\ step' = "publish" /\ publishing' = awaited
    BY <1>4, <1>5, <2>1, <2>2
  <2>4. QED
    BY <1>1, <1>3, <2>1, <2>2, <2>3, LastAnswerIsQuiet DEF Quiet
<1>14. Cooperative'
  <2> SUFFICES ASSUME ~Preemptive, NEW t \in dropped, outcome'[t] = "None"
               PROVE  \/ \E i \in 1 .. Len(cancellations) : cancellations[i] = t
                      \/ arbiter'.active.sequence = t /\ Cancelling'
    BY <1>1, <1>4 DEF Cooperative, DropRequestsCancel, Cancelling
  <2>1. outcome[t] = "None" /\ t \in Sequence /\ t # NoCommand
    <3>1. t \in Sequence
      BY Types
    <3>2. QED
      BY <1>4, <1>5, <3>1, SameNumbers
  <2>2. CASE arbiter.active.sequence = t /\ Cancelling
    <3>1. CASE Kept
      BY <2>2, <3>1 DEF Kept
    <3>2. CASE Started
      BY <2>1, <2>2, <3>2 DEF Started
    <3>3. ASSUME NEW s \in Sequence, Answers(s) PROVE FALSE
      BY <1>5, <2>1, <2>2, <3>3 DEF Answers
    <3>4. QED
      BY <1>3, <3>1, <3>2, <3>3
  <2>3. QED
    BY <2>1, <2>2 DEF Cooperative, DropRequestsCancel, Cancelling
<1>15. QED
  BY <1>3, <1>6, <1>7, <1>8, <1>9, <1>10, <1>11, <1>12, <1>13, <1>14

LEMMA PublishKeepsInv ==
  ASSUME FacadeInv, NEW matches \in BOOLEAN, Publish(matches)
  PROVE  FacadeInv'
<1> USE DEF FacadeInv, Publish, future
<1>1. DriverInv'
  BY SameDriver
<1>2. publishing \in Sequence /\ publishing # NoCommand /\ outcome[publishing] # "None"
      /\ outcome[publishing] \in TerminalEvent
  BY Types DEF Progress, FacadeTypeOK
<1>3. publishing \notin {arbiter.pending, arbiter.active.sequence}
  BY <1>2, Held
<1>4. /\ completion'.sequence = publishing /\ completion' # NoCompletion
      /\ completion' \in [sequence : CommandNumber, result : Result]
  BY <1>2, SameNumbers DEF Result, NoCompletion
<1>5. FacadeTypeOK'
  BY <1>1, <1>4 DEF DriverInv, FacadeTypeOK, ControllerTypeOK
<1>6. LedgerMatchesDriver'
  BY <1>2, <1>3 DEF LedgerMatchesDriver, driver
<1>7. Channel' /\ Settled'
  BY DEF driver, Channel, Settled
<1>8. Progress'
  BY <1>2, <1>4 DEF driver, Progress
<1>9. Caller'
  <2>1. ASSUME NEW t \in 1 .. sent, Unanswered(t)'
        PROVE  Unanswered(t)
    <3>1. t # NoCommand
      BY DEF NoCommand
    <3>2. QED
      BY <2>1, <3>1 DEF driver, Unanswered
  <2>2. QED
    BY <2>1 DEF Caller
<1>10. Requests'
  BY DEF driver, Requests, OldestRequest
<1>11. Quiet'
  BY <1>4 DEF driver, Quiet, AnswerKnown
<1>12. Cooperative'
  BY DEF driver, Cooperative, DropRequestsCancel
<1>13. QED
  BY <1>1, <1>5, <1>6, <1>7, <1>8, <1>9, <1>10, <1>11, <1>12

-----------------------------------------------------------------------------
(* The controller keeps it *)

LEMMA SendKeepsInv ==
  ASSUME FacadeInv, MayCall, SendCommand, UNCHANGED runnerSide
  PROVE  FacadeInv'
<1> USE DEF FacadeInv, runnerSide, SendCommand
<1>1. DriverInv'
  BY SameDriver
<1>2. sent \in Nat /\ submitted \in Nat /\ sent' = sent + 1 /\ sent' \in Nat /\ Len(commands) \in Nat
  BY Types
<1>3. sent < MaxSequence /\ sent' \in Sequence
  BY <1>2, Types DEF Caller, Sequence
<1>4. /\ commands' \in Seq(Sequence)
      /\ Len(commands') = Len(commands) + 1
      /\ commands'[Len(commands) + 1] = sent'
      /\ \A i \in 1 .. Len(commands) : commands'[i] = commands[i]
  BY <1>2, <1>3, AppendOf, Types
<1>5. FacadeTypeOK'
  <2>1. Len(commands') <= CommandCapacity
    BY <1>2, <1>4, FacadeAssumption DEF FacadeAssumption
  <2>2. sent' \in 0 .. MaxSequence /\ awaited' \in Sequence
    BY <1>2, <1>3, Types
  <2>3. QED
    BY <1>1, <1>4, <2>1, <2>2, SameNumbers DEF DriverInv, FacadeTypeOK, ControllerTypeOK, FuturePlace
<1>6. Channel'
  <2>1. sent = submitted + Len(commands)
    BY DEF Channel
  <2>2. submitted' = submitted
    BY DEF driver
  <2>3. sent' = submitted' + Len(commands')
    BY <1>2, <1>4, <2>1, <2>2
  <2>4. ASSUME NEW i \in 1 .. Len(commands')
        PROVE  commands'[i] = submitted + i
    <3>1. CASE i \in 1 .. Len(commands)
      BY <1>4, <3>1 DEF Channel
    <3>2. CASE i = Len(commands) + 1
      BY <1>2, <1>4, <2>1, <3>2
    <3>3. QED
      BY <1>2, <1>4, <2>4, <3>1, <3>2
  <2>5. QED
    BY <2>2, <2>3, <2>4 DEF Channel
<1>7. LedgerMatchesDriver' /\ Settled' /\ Progress'
  BY DEF driver, LedgerMatchesDriver, Settled, Progress
<1>8. Caller'
  <2>1. ASSUME NEW s \in 1 .. sent', Unanswered(s)
        PROVE  s \in dropped \/ s = sent'
    BY <1>2, <2>1 DEF Caller
  <2>2. \A s \in dropped : s <= sent /\ s \in Nat
    BY Types DEF Caller
  <2>3. (\A s \in dropped : s <= sent') /\ sent' \notin dropped
    BY <1>2, <2>2
  <2>4. sent' # NoSequence
    BY <1>2 DEF NoSequence
  <2>5. QED
    BY <2>1, <2>3, <2>4 DEF driver, Caller, Unanswered
<1>9. Requests'
  BY DEF driver, Requests, OldestRequest
<1>10. Quiet'
  <2>1. sent' > submitted
    BY <1>2 DEF Channel
  <2>2. outcome[sent'] = "None"
    BY <1>3, <2>1 DEF DriverInv, Accounted
  <2>3. QED
    BY <2>2 DEF driver, Quiet, AnswerKnown
<1>11. Cooperative'
  BY DEF driver, MayCall, Cooperative, DropRequestsCancel
<1>12. QED
  BY <1>1, <1>5, <1>6, <1>7, <1>8, <1>9, <1>10, <1>11

\* A completion of an earlier command may be in the slot only before the answer
\* of the awaited one is published.
LEMMA ObserveKeepsInv ==
  ASSUME FacadeInv, Observe, UNCHANGED runnerSide
  PROVE  FacadeInv'
<1> USE DEF FacadeInv, runnerSide, Observe
<1>1. DriverInv'
  BY SameDriver
<1>2. FacadeTypeOK'
  BY <1>1 DEF DriverInv, FacadeTypeOK, ControllerTypeOK, FuturePlace
<1>3. LedgerMatchesDriver' /\ Settled' /\ Channel' /\ Progress'
  BY DEF driver, LedgerMatchesDriver, Settled, Channel, Progress
<1>4. Requests'
  BY DEF driver, Requests, OldestRequest
<1>5. Cooperative'
  BY DEF driver, Cooperative, DropRequestsCancel
<1>6. CASE completion.sequence = awaited
  <2>1. awaited = sent /\ outcome[sent] # "None" /\ publishing # sent
    BY <1>6 DEF Caller, Progress
  <2>2. /\ commands = <<>> /\ cancellations = <<>>
        /\ ~HasActive(arbiter) /\ arbiter.pending = NoCommand
        /\ step = "wait"
    BY <2>1 DEF Quiet, AnswerKnown
  <2>3. Quiet'
    BY <1>6, <2>2 DEF driver, Quiet
  <2>4. Caller'
    BY <1>6, <2>1 DEF driver, Caller, Unanswered
  <2>5. QED
    BY <1>1, <1>2, <1>3, <1>4, <1>5, <2>3, <2>4
<1>7. CASE completion.sequence # awaited
  <2>1. Caller'
    BY <1>7 DEF driver, Caller, Unanswered
  <2>2. Quiet'
    BY <1>7 DEF driver, Quiet, AnswerKnown
  <2>3. QED
    BY <1>1, <1>2, <1>3, <1>4, <1>5, <2>1, <2>2
<1>8. QED
  BY <1>6, <1>7

LEMMA DropWaitingKeepsInv ==
  ASSUME FacadeInv, DropWaiting, UNCHANGED runnerSide
  PROVE  FacadeInv'
<1> USE DEF FacadeInv, runnerSide, DropWaiting
<1>1. DriverInv'
  BY SameDriver
<1>2. /\ awaited = sent /\ sent # NoSequence /\ sent \notin dropped
      /\ sent \in Nat /\ submitted \in Nat /\ dropped \subseteq Nat
  BY Types DEF Caller
<1>3. sent \in Sequence /\ submitted <= sent
  <2>1. Len(commands) \in Nat /\ sent <= MaxSequence
    BY Types
  <2>2. QED
    BY <1>2, <2>1 DEF Sequence, NoSequence, Channel
<1>4. Len(cancellations) < CancellationCapacity
  BY RequestsFit
<1>5. /\ cancellations' \in Seq(Sequence)
      /\ Len(cancellations) \in Nat
      /\ Len(cancellations') = Len(cancellations) + 1
      /\ cancellations'[Len(cancellations) + 1] = sent
      /\ \A i \in 1 .. Len(cancellations) : cancellations'[i] = cancellations[i]
  <2>1. cancellations' = Append(cancellations, sent)
    BY <1>2, <1>4 DEF RequestCancellation
  <2>2. QED
    BY <1>3, <2>1, AppendOf, Types
<1>6. FacadeTypeOK'
  <2>1. Len(cancellations') <= CancellationCapacity
    BY <1>4, <1>5, FacadeAssumption DEF FacadeAssumption
  <2>2. dropped' \subseteq Sequence
    BY <1>2, <1>3, Types
  <2>3. QED
    BY <1>1, <1>5, <2>1, <2>2, SameNumbers DEF DriverInv, FacadeTypeOK, ControllerTypeOK, FuturePlace
<1>7. LedgerMatchesDriver' /\ Settled' /\ Channel' /\ Progress'
  BY DEF driver, LedgerMatchesDriver, Settled, Channel, Progress
<1>8. Caller'
  BY <1>2 DEF driver, Caller, Unanswered
<1>9. Requests'
  <2>1. ASSUME NEW i \in 1 .. Len(cancellations')
        PROVE  cancellations'[i] \in dropped' /\ cancellations'[i] >= OldestRequest
    <3>1. CASE i \in 1 .. Len(cancellations)
      BY <1>5, <3>1 DEF Requests
    <3>2. CASE i = Len(cancellations) + 1
      BY <1>2, <1>3, <1>5, <3>2 DEF OldestRequest
    <3>3. QED
      BY <1>5, <2>1, <3>1, <3>2
  <2>2. ASSUME NEW i \in 1 .. Len(cancellations'), NEW j \in 1 .. Len(cancellations'), i <= j
        PROVE  cancellations'[j] - cancellations'[i] >= j - i
    <3> DEFINE n == Len(cancellations)
    <3>1. CASE j \in 1 .. n
      <4>1. i \in 1 .. n
        BY <2>2, <3>1
      <4>2. QED
        BY <1>5, <2>2, <3>1, <4>1 DEF Requests
    <3>2. CASE i \in 1 .. n /\ j = n + 1
      <4>1. n \in 1 .. n /\ i <= n /\ i \in Nat /\ n \in Nat
        BY <1>5, <3>2
      <4>2. cancellations[n] - cancellations[i] >= n - i
        BY <3>2, <4>1 DEF Requests
      <4>3. cancellations[n] \in dropped /\ cancellations[i] \in dropped
        BY <3>2, <4>1 DEF Requests
      <4>4. cancellations[n] \in Nat /\ cancellations[i] \in Nat /\ cancellations[n] < sent
        <5>1. cancellations[n] <= sent /\ cancellations[n] # sent
          BY <1>2, <4>3 DEF Caller
        <5>2. cancellations[n] \in Nat /\ cancellations[i] \in Nat
          BY <1>2, <4>3
        <5>3. QED
          BY <1>2, <5>1, <5>2
      <4>5. cancellations'[j] = sent /\ cancellations'[i] = cancellations[i]
        BY <1>5, <3>2
      <4>6. QED
        BY <1>2, <3>2, <4>1, <4>2, <4>4, <4>5
    <3>3. CASE i = n + 1 /\ j = n + 1
      BY <1>2, <1>5, <3>3
    <3>4. QED
      BY <1>5, <2>2, <3>1, <3>2, <3>3
  <2>3. QED
    BY <2>1, <2>2 DEF driver, Requests, OldestRequest
<1>10. Quiet'
  BY DEF Quiet, AnswerKnown
<1>11. Cooperative'
  <2>1. ASSUME ~Preemptive, NEW s \in dropped', outcome[s] = "None"
        PROVE  \/ \E i \in 1 .. Len(cancellations') : cancellations'[i] = s
               \/ arbiter.active.sequence = s
                  /\ (arbiter.active.cancelIntent \/ arbiter.active.cancelRequested)
    <3>1. CASE s = sent
      BY <1>5, <3>1
    <3>2. CASE s \in dropped
      BY <1>5, <2>1, <3>2 DEF Cooperative, DropRequestsCancel
    <3>3. QED
      BY <1>2, <2>1, <3>1, <3>2
  <2>2. QED
    BY <2>1 DEF driver, Cooperative, DropRequestsCancel
<1>12. QED
  BY <1>1, <1>6, <1>7, <1>8, <1>9, <1>10, <1>11

\* Steps of a future that does not wait.
LEMMA IdleKeepsInv ==
  ASSUME FacadeInv, Call \/ DropSending \/ CopyResults, UNCHANGED runnerSide
  PROVE  FacadeInv'
<1> USE DEF FacadeInv, runnerSide, Call, DropSending, CopyResults
<1>1. DriverInv'
  BY SameDriver
<1>2. FacadeTypeOK'
  BY <1>1 DEF DriverInv, FacadeTypeOK, ControllerTypeOK, FuturePlace
<1>3. LedgerMatchesDriver' /\ Settled' /\ Channel' /\ Progress'
  BY DEF driver, LedgerMatchesDriver, Settled, Channel, Progress
<1>4. Caller'
  BY DEF driver, Caller, Unanswered
<1>5. Requests' /\ Cooperative'
  BY DEF driver, Requests, OldestRequest, Cooperative, DropRequestsCancel
<1>6. Quiet'
  BY DEF Quiet, AnswerKnown
<1>7. QED
  BY <1>1, <1>2, <1>3, <1>4, <1>5, <1>6

LEMMA FacadeStutter ==
  ASSUME FacadeInv, UNCHANGED facadeVars
  PROVE  FacadeInv'
<1> USE DEF FacadeInv, facadeVars, runnerSide, future
<1>1. DriverInv'
  BY SameDriver
<1>2. FacadeTypeOK'
  BY <1>1 DEF DriverInv, FacadeTypeOK, ControllerTypeOK
<1>3. LedgerMatchesDriver' /\ Settled' /\ Channel' /\ Progress'
  BY DEF driver, LedgerMatchesDriver, Settled, Channel, Progress
<1>4. Caller' /\ Requests'
  BY DEF driver, Caller, Unanswered, Requests, OldestRequest
<1>5. Quiet' /\ Cooperative'
  BY DEF driver, Quiet, AnswerKnown, Cooperative, DropRequestsCancel
<1>6. QED
  BY <1>1, <1>2, <1>3, <1>4, <1>5

LEMMA FacadeStepKeepsInv ==
  ASSUME FacadeInv, [FacadeNext]_facadeVars
  PROVE  FacadeInv'
<1>1. CASE RunnerStep
  BY <1>1, WaitReadyKeepsInv, TakeCommandKeepsInv, NoCommandKeepsInv, TakeCancellationKeepsInv,
     NoCancellationKeepsInv, DriveKeepsInv, PublishKeepsInv
  DEF RunnerStep
<1>2. CASE ControllerStep
  BY <1>2, SendKeepsInv, ObserveKeepsInv, DropWaitingKeepsInv, IdleKeepsInv
  DEF ControllerStep, ControllerNext
<1>3. CASE UNCHANGED facadeVars
  BY <1>3, FacadeStutter
<1>4. QED
  BY <1>1, <1>2, <1>3 DEF FacadeNext

-----------------------------------------------------------------------------
(* The facade calls the driver as the driver's own specification does *)

\* The sources that an operation may wait for, beside its cancellation.
Sources == BackendSources \cup {"COMMAND", "BACKEND", "TIMER"}

\* What wait_ready returns is what a driver may be called with.
KnownSources == runner.waitFor \subseteq Sources /\ ready \in ReadySet

LEMMA ReadySets ==
  ASSUME NEW wake, wake \subseteq Sources \ {"CANCEL"}
  PROVE  wake \in ReadySet
BY DEF ReadySet, Sources

LEMMA StepKeepsSources ==
  ASSUME NEW r \in Runner, r.waitFor \subseteq Sources
  PROVE  /\ Queue(r).waitFor \subseteq Sources
         /\ MarkStarted(r).waitFor \subseteq Sources
         /\ RequestCancel(r).waitFor \subseteq Sources
         /\ MarkCancelNotified(r).waitFor \subseteq Sources
         /\ Terminate(r).waitFor \subseteq Sources
         /\ Reap(r).waitFor \subseteq Sources
BY DEF Queue, MarkStarted, RequestCancel, MarkCancelNotified, Terminate, Reap, Runner, Sources

LEMMA FinishKeepsSources ==
  ASSUME NEW r \in Runner, r.waitFor \subseteq Sources, NEW kind, FinishTerminal(Terminate(r), kind)
  PROVE  runner'.waitFor \subseteq Sources
<1>1. Terminate(r) \in Runner /\ Terminate(r).waitFor \subseteq Sources
  BY StepKeepsSources, TransitionTypes
<1>2. Reap(Terminate(r)).waitFor \subseteq Sources
  BY <1>1, StepKeepsSources
<1>3. QED
  BY <1>1, <1>2 DEF FinishTerminal, DriverError

LEMMA PolledKeepsSources ==
  ASSUME NEW wake, runner \in Runner, runner.waitFor \subseteq Sources
  PROVE  /\ Watched(wake) \in Runner /\ Watched(wake).waitFor \subseteq Sources
         /\ Polled(wake) \in Runner /\ Polled(wake).waitFor \subseteq Sources
<1>1. Watched(wake) \in Runner
  BY TransitionTypes DEF Watched, WaitSource
<1>2. Watched(wake).waitFor \subseteq Sources
  BY DEF Watched, Subscribe, Sources, Runner
<1>3. QED
  BY <1>1, <1>2, SteppedKeepsOperation DEF Polled

LEMMA DriveKeepsSources ==
  ASSUME DriverInv, runner.waitFor \subseteq Sources, NEW wake, DriveOnce(wake)
  PROVE  runner'.waitFor \subseteq Sources
<1>1. runner \in Runner
  BY DEF DriverInv, DriverTypeOK
<1>2. CASE DriveIdle
  BY <1>2 DEF DriveIdle, DriverError
<1>3. ASSUME NEW accepted \in BOOLEAN, StartPending(accepted)
      PROVE  runner'.waitFor \subseteq Sources
  <2>1. Queue(runner).waitFor \subseteq Sources
    BY <1>1, StepKeepsSources
  <2>2. MarkStarted(Queue(runner)).waitFor = {} /\ Reap(Terminate(Queue(runner))).waitFor = {}
    BY <1>1 DEF MarkStarted, Reap, Terminate, Queue, Runner
  <2>3. QED
    BY <1>3, <2>2 DEF StartPending, DriverError
<1>4. ASSUME NEW accepted \in BOOLEAN, CancelActive(accepted)
      PROVE  runner'.waitFor \subseteq Sources
  <2>1. /\ CancelDirective(runner, arbiter.active.operation) = "NotifyBackend"
    BY <1>4, CancelIsDue DEF CancelActive
  <2>2. RequestCancel(runner) \in Runner /\ RequestCancel(runner).waitFor \subseteq Sources
    BY <1>1, StepKeepsSources, TransitionTypes
  <2>3. MarkCancelNotified(RequestCancel(runner)).waitFor \subseteq Sources
    BY <2>2, StepKeepsSources
  <2>4. CASE accepted
    BY <1>4, <2>1, <2>3, <2>4 DEF CancelActive
  <2>5. CASE ~accepted
    BY <1>4, <2>1, <2>2, <2>5, FinishKeepsSources DEF CancelActive
  <2>6. QED
    BY <2>4, <2>5
<1>5. /\ Watched(wake) \in Runner /\ Watched(wake).waitFor \subseteq Sources
      /\ Polled(wake) \in Runner /\ Polled(wake).waitFor \subseteq Sources
  BY <1>1, PolledKeepsSources
<1>6. CASE PollWaiting(wake)
  BY <1>5, <1>6 DEF PollWaiting
<1>7. ASSUME DriverError(arbiter, Polled(wake))
      PROVE  runner'.waitFor \subseteq Sources
  BY <1>5, <1>7 DEF DriverError
<1>8. ASSUME NEW shape \in ReportShape, PollPending(wake, shape)
      PROVE  runner'.waitFor \subseteq Sources
  <2>1. shape.waitFor \subseteq Sources
    BY DEF ReportShape, Sources
  <2>2. Resubscribe(Polled(wake), shape.waitFor).waitFor \subseteq Sources
    BY <1>5, <2>1 DEF Resubscribe, Runner
  <2>3. QED
    BY <1>7, <1>8, <2>2 DEF PollPending
<1>9. ASSUME NEW shape \in ReportShape, PollTerminal(wake, shape)
      PROVE  runner'.waitFor \subseteq Sources
  BY <1>5, <1>7, <1>9, FinishKeepsSources DEF PollTerminal
<1>10. CASE PollFailed(wake)
  BY <1>5, <1>7, <1>10, FinishKeepsSources DEF PollFailed
<1>11. QED
  BY <1>2, <1>3, <1>4, <1>6, <1>7, <1>8, <1>9, <1>10 DEF DriveOnce, PollMisdirected, PollStale

LEMMA StepKeepsKnownSources ==
  ASSUME FacadeInv, KnownSources, [FacadeNext]_facadeVars
  PROVE  KnownSources'
<1>1. {} \in ReadySet
  BY DEF ReadySet
<1>2. ASSUME NEW sources \in SUBSET WaitSource, WaitReady(sources)
      PROVE  KnownSources'
  <2>1. UNCHANGED runner /\ ready' = sources
    BY <1>2 DEF WaitReady, driver
  <2>2. WaitSources \subseteq Sources
    BY DEF WaitSources, KnownSources, Sources
  <2>3. sources = {} \/ sources \subseteq Sources \ {"CANCEL"}
    BY <1>2, <2>2 DEF WaitReady, Awake
  <2>4. ready' \in ReadySet
    BY <1>1, <2>1, <2>3, ReadySets
  <2>5. QED
    BY <2>1, <2>4 DEF KnownSources, ReadySet
<1>3. CASE Drive
  <2>1. runner'.waitFor \subseteq Sources
    BY <1>3, DriveKeepsSources DEF Drive, FacadeInv, KnownSources
  <2>2. QED
    BY <1>1, <1>3, <2>1 DEF Drive, KnownSources, ReadySet
<1>4. ASSUME UNCHANGED runner, ready' \in {ready, {}}
      PROVE  KnownSources'
  BY <1>1, <1>4 DEF KnownSources, ReadySet
<1>5. CASE \/ TakeCommand \/ NoCommandToTake \/ TakeCancellation \/ NoCancellationToTake
           \/ (\E matches \in BOOLEAN : Publish(matches))
           \/ ControllerStep \/ UNCHANGED facadeVars
  <2>1. UNCHANGED runner /\ ready' \in {ready, {}}
    BY <1>5 DEF TakeCommand, NoCommandToTake, TakeCancellation, NoCancellationToTake, Publish,
       ControllerStep, Submit, CancelBySequence, driver, runnerSide, facadeVars
  <2>2. QED
    BY <1>4, <2>1
<1>6. QED
  BY <1>2, <1>3, <1>5 DEF FacadeNext, RunnerStep

\* Each step of the facade is one call of the driver or none.
LEMMA StepKeepsDriver ==
  ASSUME FacadeInv, KnownSources, [FacadeNext]_facadeVars
  PROVE  [Next]_vars
<1>1. UNCHANGED driver => UNCHANGED vars
  BY DEF driver, vars
<1>2. CASE TakeCommand
  BY <1>1, <1>2 DEF TakeCommand, Next
<1>3. CASE TakeCancellation
  <2> DEFINE s == Head(cancellations)
  <2>1. CASE CancelBySequence(s)
    <3>1. s \in Sequence
      BY <1>3, TailOf, Types DEF TakeCancellation, FacadeInv
    <3>2. s \in {arbiter.pending, arbiter.active.sequence}
      BY <2>1 DEF CancelBySequence, CancelKind
    <3>3. s <= submitted /\ s \in Nat /\ submitted \in Nat
      BY <3>1, <3>2, Held, Types DEF FacadeInv
    <3>4. s \in 1 .. submitted
      BY <3>1, <3>3 DEF Sequence
    <3>5. QED
      BY <2>1, <3>4 DEF Next
  <2>2. QED
    BY <1>1, <1>3, <2>1 DEF TakeCancellation
<1>4. CASE Drive
  BY <1>4 DEF Drive, KnownSources, Next
<1>5. CASE \/ (\E sources \in SUBSET WaitSource : WaitReady(sources))
           \/ NoCommandToTake \/ NoCancellationToTake
           \/ (\E matches \in BOOLEAN : Publish(matches))
           \/ ControllerStep \/ UNCHANGED facadeVars
  BY <1>1, <1>5 DEF WaitReady, NoCommandToTake, NoCancellationToTake, Publish, ControllerStep,
     runnerSide, facadeVars
<1>6. QED
  BY <1>2, <1>3, <1>4, <1>5 DEF FacadeNext, RunnerStep

-----------------------------------------------------------------------------
(* The answer in the completion slot *)

\* No answer is taken back.
AnswersKept == \A s \in Sequence : outcome[s] # "None" => outcome'[s] = outcome[s]

LEMMA StepKeepsAnswers ==
  ASSUME FacadeInv, [FacadeNext]_facadeVars
  PROVE  AnswersKept
<1>1. ASSUME outcome' = outcome
      PROVE  AnswersKept
  BY <1>1 DEF AnswersKept
<1>2. ASSUME NEW s \in Sequence, outcome[s] = "None", NEW kind, outcome' = [outcome EXCEPT ![s] = kind]
      PROVE  AnswersKept
  BY <1>2, Types DEF AnswersKept, FacadeInv
<1>3. CASE TakeCommand
  BY <1>1, <1>3 DEF TakeCommand, Submit, driver
<1>4. CASE TakeCancellation
  <2>1. cancellations # <<>> /\ cancellations' = Tail(cancellations)
    BY <1>4 DEF TakeCancellation
  <2>2. Head(cancellations) \in dropped /\ Head(cancellations) \in Sequence
    BY <2>1, TakenRequest, Types DEF FacadeInv
  <2>3. QED
    BY <1>1, <1>2, <1>4, <2>2, RequestEffect DEF TakeCancellation
<1>5. CASE Drive
  <2>1. Kept \/ Started \/ \E s \in Sequence : Answers(s)
    BY <1>5, DriveEffect DEF Drive, FacadeInv, Settled, Unsubscribed
  <2>2. QED
    BY <1>1, <1>2, <2>1 DEF Kept, Started, Answers
<1>6. CASE \/ (\E sources \in SUBSET WaitSource : WaitReady(sources))
           \/ NoCommandToTake \/ NoCancellationToTake
           \/ (\E matches \in BOOLEAN : Publish(matches))
           \/ ControllerStep \/ UNCHANGED facadeVars
  BY <1>1, <1>6 DEF WaitReady, NoCommandToTake, NoCancellationToTake, Publish, ControllerStep,
     driver, runnerSide, facadeVars
<1>7. QED
  BY <1>3, <1>4, <1>5, <1>6 DEF FacadeNext, RunnerStep

\* What the completion slot holds is the answer of its command.
Truthful == completion # NoCompletion => completion.result \in AnswersFor(completion.sequence)

LEMMA StepKeepsTruth ==
  ASSUME FacadeInv, Truthful, [FacadeNext]_facadeVars
  PROVE  Truthful'
<1>1. ASSUME completion' = completion
      PROVE  Truthful'
  <2>1. CASE completion # NoCompletion
    <3>1. completion.sequence \in Sequence /\ outcome[completion.sequence] # "None"
      BY <2>1, SameNumbers DEF FacadeInv, FacadeTypeOK, ControllerTypeOK, Progress
    <3>2. outcome'[completion.sequence] = outcome[completion.sequence]
      BY <3>1, StepKeepsAnswers DEF AnswersKept
    <3>3. QED
      BY <1>1, <2>1, <3>2 DEF Truthful, AnswersFor
  <2>2. QED
    BY <1>1, <2>1 DEF Truthful
<1>2. CASE TakeCommand
  BY <1>1, <1>2, LedgerHasRoom DEF TakeCommand
<1>3. ASSUME NEW matches \in BOOLEAN, Publish(matches)
      PROVE  Truthful'
  <2>1. publishing \in ledger
    BY <1>3 DEF Publish, FacadeInv, LedgerMatchesDriver, Progress
  <2>2. /\ completion'.sequence = publishing
        /\ completion'.result = IF outcome[publishing] = "Completed" => matches
                                THEN outcome[publishing] ELSE "Protocol"
    BY <1>3, <2>1 DEF Publish
  <2>3. outcome' = outcome
    BY <1>3 DEF Publish, driver
  <2>4. QED
    BY <2>2, <2>3 DEF Truthful, AnswersFor
<1>4. CASE ControllerStep
  <2>1. completion' \in {completion, NoCompletion}
    BY <1>4 DEF ControllerStep, ControllerNext, Call, SendCommand, DropSending, Observe,
       CopyResults, DropWaiting
  <2>2. QED
    BY <1>1, <2>1 DEF Truthful
<1>5. CASE \/ (\E sources \in SUBSET WaitSource : WaitReady(sources))
           \/ NoCommandToTake \/ TakeCancellation \/ NoCancellationToTake \/ Drive
           \/ UNCHANGED facadeVars
  BY <1>1, <1>5 DEF WaitReady, NoCommandToTake, TakeCancellation, NoCancellationToTake, Drive,
     facadeVars
<1>6. QED
  BY <1>2, <1>3, <1>4, <1>5 DEF FacadeNext, RunnerStep

-----------------------------------------------------------------------------
(* Theorems *)

\* Every reachable state satisfies the invariant, with and without preemption.
THEOREM FacadeInvHolds == FacadeSpec => []FacadeInv
BY InitEstablishesFacadeInv, FacadeStepKeepsInv, PTL DEF FacadeSpec

\* Every variable keeps its type, the ledger is the driver's, so that no answer
\* turns into a protocol error, and the cancellation channel has a place for
\* the request of a future that is dropped: for every pair of capacities with
\* two more places for requests than for commands, which the code's 1 and 3
\* just are.
THEOREM FacadeIsConsistent == FacadeSpec => []FacadeInvariant
<1>1. FacadeInv => FacadeInvariant
  BY RequestsFit DEF FacadeInv, FacadeInvariant, CancellationsFit, RequestHasRoom
<1>2. QED
  BY <1>1, FacadeInvHolds, PTL

\* The one slot of the completion signal is enough: a published answer stays
\* until the future that waits for it takes it, and it is the answer that the
\* driver gave.
THEOREM AnswerStays == FacadeSpec => []AnswerIsKept
<1>1. FacadeInit => Truthful
  BY DEF FacadeInit, ControllerInit, Truthful
<1>2. FacadeInv /\ Truthful /\ [FacadeNext]_facadeVars => Truthful'
  BY StepKeepsTruth
<1>3. ASSUME FacadeInv, Truthful
      PROVE  AnswerIsKept
  <2>1. SUFFICES ASSUME controller = "waiting", outcome[awaited] # "None", publishing # awaited
                 PROVE  completion.sequence = awaited /\ completion.result \in AnswersFor(awaited)
    BY DEF AnswerIsKept
  <2>2. completion.sequence = awaited /\ awaited # NoSequence
    BY <1>3, <2>1 DEF FacadeInv, Quiet, AnswerKnown, Caller
  <2>3. completion # NoCompletion
    BY <2>2 DEF NoCompletion
  <2>4. QED
    BY <1>3, <2>2, <2>3 DEF Truthful
<1>4. QED
  BY <1>1, <1>2, <1>3, FacadeInvHolds, PTL DEF FacadeSpec

\* While the controller reads the scan buffer or may begin to, nothing is left
\* that could make the runner borrow it.
THEOREM ScanBufferStaysQuiet == FacadeSpec => []ScanBufferIsQuiet
<1>1. ASSUME FacadeInv, ReadsScanBuffer
      PROVE  AnswerKnown
  BY <1>1 DEF FacadeInv, ReadsScanBuffer, AnswerKnown, Caller, Progress, NoCompletion
<1>2. FacadeInv => ScanBufferIsQuiet
  BY <1>1 DEF FacadeInv, ScanBufferIsQuiet, Quiet
<1>3. QED
  BY <1>2, FacadeInvHolds, PTL

\* On one cooperative executor the request of a dropped future is kept until
\* its command is cancelling or answered; the preemptive runner may lose it.
THEOREM CooperativeDropsCancel ==
  ASSUME ~Preemptive PROVE FacadeSpec => []DropRequestsCancel
<1>1. FacadeInv => DropRequestsCancel
  BY DEF FacadeInv, Cooperative
<1>2. QED
  BY <1>1, FacadeInvHolds, PTL

\* The facade calls the driver only as IncrementalDriver lets it be called: it
\* hands over a command when there is room, cancels a number the driver has
\* seen, and drives with the sources that wait_ready found ready.  Whatever
\* was proved of the driver holds inside the facade.
THEOREM FacadeKeepsDriver == FacadeSpec => Spec
<1>1. FacadeInit => Init /\ KnownSources
  BY DEF FacadeInit, Init, NewRunner, KnownSources, ReadySet
<1>2. FacadeInv /\ KnownSources /\ [FacadeNext]_facadeVars => KnownSources' /\ [Next]_vars
  BY StepKeepsKnownSources, StepKeepsDriver
<1>3. QED
  BY <1>1, <1>2, FacadeInvHolds, PTL DEF FacadeSpec, Spec

\* The facade is a command service: commands are accepted in the order of their
\* numbers, each is answered once, and one whose cancellation was taken on is
\* never answered with success.
THEOREM FacadeImplementsService == FacadeSpec => ImplementsService
BY FacadeKeepsDriver, DriverImplementsService, PTL
=============================================================================
