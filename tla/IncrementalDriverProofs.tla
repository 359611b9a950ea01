----------------------- MODULE IncrementalDriverProofs -----------------------
(***************************************************************************)
(* Proofs about IncrementalDriver, for every number of commands, every     *)
(* generation limit and every set of sources a backend subscribes.         *)
(***************************************************************************)
EXTENDS IncrementalDriver, TLAPS

-----------------------------------------------------------------------------
(* The functions of the runner core *)

\* Generations stay non-zero u32 values across the wrap.
LEMMA GenerationRange ==
  ASSUME NEW g \in 0 .. MaxGeneration
  PROVE  NextGeneration(g) \in 1 .. MaxGeneration
BY GenerationAssumption DEF NextGeneration

\* The selector's scan ends on a source: among any eligible indices one is
\* reached first.
LEMMA FirstIndexExists ==
  ASSUME NEW next \in WakeIndex, NEW E \in SUBSET WakeIndex, E # {}
  PROVE  \E i \in E : \A j \in E : Offset(next, i) <= Offset(next, j)
<1> DEFINE At(k) == (next + k) % WakeCount
<1>1. \A i \in WakeIndex : Offset(next, i) \in WakeIndex /\ At(Offset(next, i)) = i
  BY DEF WakeIndex, WakeCount, Offset
<1>2. \A k \in WakeIndex : At(k) \in WakeIndex /\ Offset(next, At(k)) = k
  BY DEF WakeIndex, WakeCount, Offset
<1> HIDE DEF At
<1>3. \E k \in WakeIndex : At(k) \in E
  BY <1>1
<1>4. PICK k \in WakeIndex : At(k) \in E /\ \A l \in WakeIndex : At(l) \in E => k <= l
  <2>1. \A l \in WakeIndex : l \in {0, 1, 2, 3}
    BY DEF WakeIndex, WakeCount
  <2>2. {0, 1, 2, 3} \subseteq WakeIndex
    BY DEF WakeIndex, WakeCount
  <2>3. CASE At(0) \in E
    BY <2>1, <2>2, <2>3
  <2>4. CASE At(0) \notin E /\ At(1) \in E
    BY <2>1, <2>2, <2>4
  <2>5. CASE At(0) \notin E /\ At(1) \notin E /\ At(2) \in E
    BY <2>1, <2>2, <2>5
  <2>6. CASE At(0) \notin E /\ At(1) \notin E /\ At(2) \notin E
    BY <1>3, <2>1, <2>2, <2>6
  <2>7. QED
    BY <2>3, <2>4, <2>5, <2>6
<1>5. \A j \in E : Offset(next, At(k)) <= Offset(next, j)
  BY <1>1, <1>2, <1>4
<1>6. QED
  BY <1>4, <1>5

\* FairWakeSelector::select returns an eligible source, the nearest one.
LEMMA SelectedIsNearest ==
  ASSUME NEW next \in WakeIndex, NEW subscribed, NEW ready,
         Eligible(subscribed, ready) # {}
  PROVE  /\ Selected(next, subscribed, ready) \in Eligible(subscribed, ready)
         /\ \A j \in Eligible(subscribed, ready) :
              Offset(next, Selected(next, subscribed, ready)) <= Offset(next, j)
<1>1. Eligible(subscribed, ready) \in SUBSET WakeIndex
  BY DEF Eligible
<1>2. \E i \in Eligible(subscribed, ready) :
        \A j \in Eligible(subscribed, ready) : Offset(next, i) <= Offset(next, j)
  BY <1>1, FirstIndexExists
<1>3. QED
  BY <1>2 DEF Selected

\* Choosing a step moves the selector's preference and nothing else.
LEMMA SteppedKeepsOperation ==
  ASSUME NEW r \in Runner, NEW ready
  PROVE  /\ Stepped(r, ready) \in Runner
         /\ Stepped(r, ready).nextGeneration = r.nextGeneration
         /\ Stepped(r, ready).operation = r.operation
         /\ Stepped(r, ready).lifecycle = r.lifecycle
         /\ Stepped(r, ready).waitFor = r.waitFor
<1>1. CASE Eligible(r.waitFor, ready) = {}
  BY <1>1 DEF Stepped
<1>2. CASE Eligible(r.waitFor, ready) # {}
  <2> DEFINE i == Selected(r.next, r.waitFor, ready)
  <2>1. i \in WakeIndex
    BY <1>2, SelectedIsNearest DEF Runner, Eligible
  <2>2. (i + 1) % WakeCount \in WakeIndex
    BY <2>1 DEF WakeIndex, WakeCount
  <2>3. QED
    BY <2>2 DEF Stepped, Runner
<1>3. QED
  BY <1>1, <1>2

\* The transitions that end or extend an operation yield runners.
LEMMA TransitionTypes ==
  ASSUME NEW r \in Runner
  PROVE  /\ Terminate(r) \in Runner
         /\ Reap(r) \in Runner
         /\ \A w \in SUBSET WaitSource : Resubscribe(r, w) \in Runner
         /\ \A w \in SUBSET WaitSource : Subscribe(r, w) \in Runner
         /\ MarkCancelNotified(r) \in Runner
         /\ RequestCancel(r) \in Runner
<1>1. Terminate(r) \in Runner
  BY DEF Terminate, Runner, Lifecycle
<1>2. Reap(r) \in Runner
  <2>1. 0 \in 0 .. MaxGeneration /\ "None" \in Lifecycle /\ {} \in SUBSET WaitSource
    BY GenerationAssumption DEF Lifecycle
  <2>2. QED
    BY <2>1 DEF Reap, Runner
<1>3. ASSUME NEW w \in SUBSET WaitSource
      PROVE  Resubscribe(r, w) \in Runner /\ Subscribe(r, w) \in Runner
  BY DEF Resubscribe, Subscribe, Runner
<1>4. MarkCancelNotified(r) \in Runner
  BY DEF MarkCancelNotified, Runner
<1>5. RequestCancel(r) \in Runner
  <2>1. "BACKEND" \in WaitSource /\ "CancelRequested" \in Lifecycle
    BY DEF WaitSource, Lifecycle
  <2>2. r.waitFor \cup {"BACKEND"} \in SUBSET WaitSource
    BY <2>1 DEF Runner
  <2>3. QED
    BY <1>1, <2>1, <2>2 DEF RequestCancel, Runner
<1>6. QED
  BY <1>1, <1>2, <1>3, <1>4, <1>5

-----------------------------------------------------------------------------
(* The inductive invariant *)

\* A cancel call is only ever made for a command that then is cancelling or
\* answered, which is what makes a second one impossible.
CancelCalls ==
  \A s \in Sequence :
    /\ cancelCalls[s] \in {0, 1}
    /\ cancelCalls[s] = 1 =>
         outcome[s] # "None" \/ (arbiter.active.sequence = s /\ arbiter.active.cancelRequested)

DriverInv == DriverTypeOK /\ Agreement /\ Accounted /\ CancelCalls

-----------------------------------------------------------------------------
(* Lemmas about the arbiter *)

\* What each action of the arbiter says about its slots.
LEMMA ActionMeaning ==
  ASSUME NEW a
  PROVE  /\ ArbiterAction(a) = "CancelActive" => CancelDue(a)
         /\ ArbiterAction(a) = "WaitActive" => HasActive(a) /\ ~CancelDue(a)
         /\ ArbiterAction(a) = "StartPending" =>
              ~HasActive(a) /\ a.starting = NoCommand /\ a.pending # NoCommand
         /\ ArbiterAction(a) = "Starting" => a.starting # NoCommand
BY DEF ArbiterAction, CancelDue, NewArbiter, HasActive, NoActive

\* Under the invariant the active command is a real one, bound to the live
\* operation of the runner core.
LEMMA ActiveIsBound ==
  ASSUME DriverInv, HasActive(arbiter)
  PROVE  /\ arbiter.active \in ActiveCommand(Sequence, OperationId)
         /\ arbiter.active.sequence \in Sequence
         /\ runner.operation = arbiter.active.operation
         /\ Live(runner, runner.operation)
         /\ outcome[arbiter.active.sequence] = "None"
BY DEF DriverInv, DriverTypeOK, Agreement, Accounted, HasActive, Arbiter, ActiveCommand,
       Live, Owns

-----------------------------------------------------------------------------
(* Each action preserves the invariant *)

LEMMA SubmitKeepsInv ==
  ASSUME DriverInv, Submit
  PROVE  DriverInv'
<1> DEFINE s == submitted + 1
<1>1. s \in Sequence /\ s # NoCommand /\ s > submitted /\ submitted \in Nat
  BY DriverAssumption DEF DriverInv, DriverTypeOK, Submit, Sequence, NoCommand
<1>2. /\ arbiter'.active = arbiter.active
      /\ arbiter'.starting = arbiter.starting
      /\ arbiter'.pending = s
      /\ arbiter' \in Arbiter(Sequence, OperationId)
  BY <1>1 DEF DriverInv, DriverTypeOK, Submit, Submitted, Arbiter
<1>3. /\ submitted' = s
      /\ UNCHANGED <<runner, deadline, event, outcome, cancelCalls>>
      /\ arbiter.pending = NoCommand
  BY DEF Submit, CanSubmit
<1>4. DriverTypeOK'
  BY <1>1, <1>2, <1>3 DEF DriverInv, DriverTypeOK, Sequence
<1>5. Agreement'
  BY <1>2, <1>3 DEF DriverInv, Agreement, HasActive
<1>6. Accounted'
  <2> SUFFICES ASSUME NEW t \in Sequence
               PROVE  LET held == t \in {arbiter'.pending, arbiter'.active.sequence}
                      IN /\ held => outcome[t] = "None"
                         /\ (t <= s /\ outcome[t] = "None") => held
                         /\ t > s => ~held /\ outcome[t] = "None"
                         /\ ~(t = arbiter'.pending /\ t = arbiter'.active.sequence)
    BY <1>3 DEF Accounted
  <2>1. t \in Nat /\ t # NoCommand
    BY DEF Sequence, NoCommand
  <2>2. /\ t \in {arbiter.pending, arbiter.active.sequence} => outcome[t] = "None"
        /\ (t <= submitted /\ outcome[t] = "None")
             => t \in {arbiter.pending, arbiter.active.sequence}
        /\ t > submitted =>
             t \notin {arbiter.pending, arbiter.active.sequence} /\ outcome[t] = "None"
    BY DEF DriverInv, Accounted
  <2>3. QED
    BY <1>1, <1>2, <1>3, <2>1, <2>2
<1>7. CancelCalls'
  BY <1>2, <1>3 DEF DriverInv, CancelCalls
<1>8. QED
  BY <1>4, <1>5, <1>6, <1>7 DEF DriverInv

\* A step that leaves every command where it is: the slots keep their
\* sequences and whatever moves in the active entry moves in the runner too.
LEMMA KeepingCommandsKeepsInv ==
  ASSUME DriverInv,
         arbiter' \in Arbiter(Sequence, OperationId),
         runner' \in Runner, deadline' \in BOOLEAN, event' \in DriverEvent,
         cancelCalls' \in [Sequence -> Nat],
         UNCHANGED <<submitted, outcome>>,
         arbiter'.starting = arbiter.starting,
         arbiter'.pending = arbiter.pending,
         arbiter'.active.sequence = arbiter.active.sequence,
         Agreement', CancelCalls'
  PROVE  DriverInv'
<1>1. DriverTypeOK'
  BY DEF DriverInv, DriverTypeOK
<1>2. Accounted'
  BY DEF DriverInv, Accounted
<1>3. QED
  BY <1>1, <1>2 DEF DriverInv

\* A step that answers the active command with a terminal event.
LEMMA AnsweringKeepsInv ==
  ASSUME DriverInv, HasActive(arbiter),
         NEW kind \in TerminalEvent,
         NEW r \in Runner,
         r.operation = runner.operation,
         FinishTerminal(Terminate(r), kind),
         Live(r, r.operation),
         deadline' \in BOOLEAN, UNCHANGED submitted,
         cancelCalls' \in [Sequence -> Nat],
         \A t \in Sequence : t # arbiter.active.sequence => cancelCalls'[t] = cancelCalls[t],
         cancelCalls'[arbiter.active.sequence] \in {0, 1}
  PROVE  DriverInv'
<1> DEFINE s == arbiter.active.sequence
<1>1. /\ s \in Sequence
      /\ outcome[s] = "None"
      /\ s # arbiter.pending
      /\ runner.operation = arbiter.active.operation
  BY ActiveIsBound DEF DriverInv, Accounted
<1>2. /\ Terminate(r) \in Runner
      /\ Terminate(r).operation = runner.operation
      /\ Terminate(r).lifecycle = "Terminal"
  BY DEF Terminate, Runner, Lifecycle
<1>3. CanFinishActive(arbiter, Terminate(r).operation) /\ CanReap(Terminate(r), Terminate(r).operation)
  BY <1>1, <1>2 DEF CanFinishActive, CanReap, Owns
<1>4. /\ arbiter' = FinishActive(arbiter)
      /\ runner' = Reap(Terminate(r))
      /\ event' = kind
      /\ outcome' = [outcome EXCEPT ![s] = kind]
  BY <1>3 DEF FinishTerminal
<1>5. /\ arbiter' \in Arbiter(Sequence, OperationId)
      /\ arbiter'.active = NoActive
      /\ arbiter'.active.sequence = NoCommand
      /\ arbiter'.starting = arbiter.starting
      /\ arbiter'.pending = arbiter.pending
  BY <1>4 DEF FinishActive, Arbiter, DriverInv, DriverTypeOK, NoActive
<1>6. runner' \in Runner /\ runner'.lifecycle = "None" /\ runner'.operation = 0
  BY <1>2, <1>4, TransitionTypes DEF Reap, Runner
<1>7. kind \in DriverEvent /\ kind # "None" /\ outcome \in [Sequence -> TerminalEvent \cup {"None"}]
  BY DEF DriverEvent, TerminalEvent, DriverInv, DriverTypeOK
<1>8. DriverTypeOK'
  BY <1>1, <1>4, <1>5, <1>6, <1>7 DEF DriverInv, DriverTypeOK
<1>9. Agreement'
  BY <1>5, <1>6 DEF DriverInv, Agreement, HasActive
<1>10. Accounted'
  <2> SUFFICES ASSUME NEW t \in Sequence
               PROVE  LET held == t \in {arbiter'.pending, arbiter'.active.sequence}
                      IN /\ held => outcome'[t] = "None"
                         /\ (t <= submitted /\ outcome'[t] = "None") => held
                         /\ t > submitted => ~held /\ outcome'[t] = "None"
                         /\ ~(t = arbiter'.pending /\ t = arbiter'.active.sequence)
    BY DEF Accounted
  <2>1. t # NoCommand
    BY DEF Sequence, NoCommand
  <2>2. outcome'[t] = IF t = s THEN kind ELSE outcome[t]
    BY <1>1, <1>4, <1>7
  <2>3. LET held == t \in {arbiter.pending, s}
        IN /\ held => outcome[t] = "None"
           /\ (t <= submitted /\ outcome[t] = "None") => held
           /\ t > submitted => ~held /\ outcome[t] = "None"
    BY DEF DriverInv, Accounted
  <2>4. QED
    BY <1>1, <1>5, <1>7, <2>1, <2>2, <2>3
<1>11. CancelCalls'
  <2> SUFFICES ASSUME NEW t \in Sequence
               PROVE  cancelCalls'[t] \in {0, 1} /\ (cancelCalls'[t] = 1 => outcome'[t] # "None")
    BY DEF CancelCalls
  <2>1. CASE t = s
    BY <1>1, <1>4, <1>7, <2>1
  <2>2. CASE t # s
    <3>1. cancelCalls'[t] = cancelCalls[t] /\ outcome'[t] = outcome[t]
      BY <1>4, <1>7, <2>2
    <3>2. QED
      BY <2>2, <3>1 DEF DriverInv, CancelCalls
  <2>3. QED
    BY <2>1, <2>2
<1>12. QED
  BY <1>8, <1>9, <1>10, <1>11 DEF DriverInv

LEMMA CancelBySequenceKeepsInv ==
  ASSUME DriverInv, NEW s \in 1 .. submitted, CancelBySequence(s)
  PROVE  DriverInv'
<1>1. s \in Sequence /\ s # NoCommand
  BY DriverAssumption DEF DriverInv, DriverTypeOK, Sequence, NoCommand
<1>2. CASE CancelKind(arbiter, s) = "RequestActive"
  <2>1. HasActive(arbiter)
    BY <1>2 DEF CancelKind
  <2>2. arbiter' = IntendCancel(arbiter)
        /\ UNCHANGED <<runner, deadline, event, submitted, outcome, cancelCalls>>
    BY <1>2 DEF CancelBySequence
  <2>3. arbiter.active \in ActiveCommand(Sequence, OperationId)
    BY <2>1, ActiveIsBound
  <2>4. /\ arbiter' \in Arbiter(Sequence, OperationId)
        /\ arbiter'.starting = arbiter.starting
        /\ arbiter'.pending = arbiter.pending
        /\ arbiter'.active.sequence = arbiter.active.sequence
        /\ arbiter'.active.operation = arbiter.active.operation
        /\ arbiter'.active.cancelRequested = arbiter.active.cancelRequested
    BY <2>2, <2>3 DEF IntendCancel, Arbiter, ActiveCommand, DriverInv, DriverTypeOK
  <2>5. HasActive(arbiter')
    BY <2>3, <2>4 DEF HasActive, NoActive, ActiveCommand, Sequence, NoCommand
  <2>6. Agreement'
    BY <2>1, <2>2, <2>4, <2>5 DEF DriverInv, Agreement, HasActive
  <2>7. CancelCalls'
    BY <2>2, <2>4 DEF DriverInv, CancelCalls
  <2>8. QED
    BY <2>2, <2>4, <2>6, <2>7, KeepingCommandsKeepsInv DEF DriverInv, DriverTypeOK
<1>3. CASE CancelKind(arbiter, s) = "RemovePending"
  <2>1. arbiter.pending = s
    BY <1>3 DEF CancelKind
  <2>2. /\ arbiter' = RemovePending(arbiter)
        /\ event' = "Cancelled"
        /\ outcome' = [outcome EXCEPT ![s] = "Cancelled"]
        /\ UNCHANGED <<runner, deadline, submitted, cancelCalls>>
    BY <1>3 DEF CancelBySequence
  <2>3. /\ arbiter' \in Arbiter(Sequence, OperationId)
        /\ arbiter'.starting = arbiter.starting
        /\ arbiter'.pending = NoCommand
        /\ arbiter'.active = arbiter.active
    BY <2>2 DEF RemovePending, Arbiter, DriverInv, DriverTypeOK
  <2>4. DriverTypeOK'
    BY <1>1, <2>2, <2>3 DEF DriverInv, DriverTypeOK, DriverEvent, TerminalEvent
  <2>5. Agreement'
    BY <2>2, <2>3 DEF DriverInv, Agreement, HasActive
  <2>6. \A t \in Sequence : outcome'[t] = IF t = s THEN "Cancelled" ELSE outcome[t]
    BY <1>1, <2>2 DEF DriverInv, DriverTypeOK
  <2>7. Accounted'
    BY <1>1, <2>1, <2>2, <2>3, <2>6 DEF DriverInv, Accounted, Sequence, NoCommand
  <2>8. CancelCalls'
    BY <2>2, <2>3, <2>6 DEF DriverInv, CancelCalls
  <2>9. QED
    BY <2>4, <2>5, <2>7, <2>8 DEF DriverInv
<1>4. QED
  BY <1>2, <1>3 DEF CancelBySequence

LEMMA DriveIdleKeepsInv ==
  ASSUME DriverInv, DriveIdle
  PROVE  DriverInv'
<1>1. UNCHANGED <<arbiter, runner, deadline, submitted, outcome, cancelCalls>>
      /\ event' \in DriverEvent
  BY DEF DriveIdle, DriverError, DriverEvent
<1>2. Agreement' /\ CancelCalls'
  BY <1>1 DEF DriverInv, Agreement, CancelCalls, HasActive
<1>3. QED
  BY <1>1, <1>2, KeepingCommandsKeepsInv DEF DriverInv, DriverTypeOK

LEMMA StartPendingKeepsInv ==
  ASSUME DriverInv, NEW accepted \in BOOLEAN, StartPending(accepted)
  PROVE  DriverInv'
<1> DEFINE s      == arbiter.pending
           taken  == TakeStartable(arbiter)
           queued == Queue(runner)
           id     == NextGeneration(runner.nextGeneration)
<1>1. ~HasActive(arbiter) /\ arbiter.starting = NoCommand /\ s # NoCommand
  BY ActionMeaning DEF StartPending
<1>2. CanQueue(runner)
  BY <1>1 DEF DriverInv, Agreement, CanQueue
<1>3. id \in OperationId
  BY GenerationRange DEF DriverInv, DriverTypeOK, Runner, OperationId
<1>4. queued \in Runner /\ queued.operation = id
  <2>1. /\ id \in 0 .. MaxGeneration /\ "Queued" \in Lifecycle
        /\ {"COMMAND"} \in SUBSET WaitSource
    BY <1>3, GenerationAssumption DEF OperationId, Lifecycle, WaitSource
  <2>2. runner \in Runner
    BY DEF DriverInv, DriverTypeOK
  <2> HIDE DEF id
  <2>3. QED
    BY <2>1, <2>2 DEF Queue, Runner, id
<1>5. /\ s \in Sequence
      /\ outcome[s] = "None"
      /\ s <= submitted
      /\ arbiter.active = NoActive
  BY <1>1 DEF DriverInv, DriverTypeOK, Arbiter, Accounted, HasActive, Sequence
<1>6. deadline' \in BOOLEAN /\ UNCHANGED <<submitted, cancelCalls>>
  BY DEF StartPending
<1>7. CASE accepted
  <2>1. /\ runner' = MarkStarted(queued)
        /\ arbiter' = BindStarted(taken, s, queued.operation)
        /\ event' = "Started"
        /\ UNCHANGED outcome
    BY <1>2, <1>7 DEF StartPending
  <2>2. /\ runner' \in Runner
        /\ runner'.lifecycle = "Started"
        /\ runner'.operation = id
    <3> HIDE DEF queued
    <3>1. QED
      BY <1>4, <2>1 DEF MarkStarted, Runner, Lifecycle
  <2>3. /\ arbiter'.starting = NoCommand
        /\ arbiter'.pending = NoCommand
        /\ arbiter'.active = [sequence |-> s, operation |-> id,
                              cancelIntent |-> FALSE, cancelRequested |-> FALSE]
        /\ arbiter' \in Arbiter(Sequence, OperationId)
    <3> HIDE DEF id, queued
    <3>1. QED
      BY <1>3, <1>4, <1>5, <2>1
      DEF BindStarted, TakeStartable, Arbiter, ActiveCommand, DriverInv, DriverTypeOK
  <2>4. HasActive(arbiter')
    BY <1>1, <2>3 DEF HasActive, NoActive
  <2>5. DriverTypeOK'
    BY <1>6, <2>1, <2>2, <2>3 DEF DriverInv, DriverTypeOK, DriverEvent
  <2>6. Agreement'
    BY <2>2, <2>3, <2>4 DEF Agreement, HasActive
  <2>7. Accounted'
    BY <1>1, <1>5, <1>6, <2>1, <2>3 DEF DriverInv, Accounted, NoActive, NoCommand, Sequence
  <2>8. CancelCalls'
    BY <1>5, <1>6, <2>1 DEF DriverInv, CancelCalls, NoActive
  <2>9. QED
    BY <2>5, <2>6, <2>7, <2>8 DEF DriverInv
<1>8. CASE ~accepted
  <2>1. /\ runner' = Reap(Terminate(queued))
        /\ arbiter' = ClearStarting(taken)
        /\ event' = "Failed"
        /\ outcome' = [outcome EXCEPT ![s] = "Failed"]
    BY <1>2, <1>8 DEF StartPending
  <2>2. runner' \in Runner /\ runner'.lifecycle = "None" /\ runner'.operation = 0
    <3>1. Terminate(queued) \in Runner
      BY <1>4, TransitionTypes
    <3>2. QED
      BY <2>1, <3>1, TransitionTypes DEF Reap, Runner
  <2>3. /\ arbiter'.starting = NoCommand
        /\ arbiter'.pending = NoCommand
        /\ arbiter'.active = NoActive
        /\ arbiter' \in Arbiter(Sequence, OperationId)
    BY <1>5, <2>1 DEF ClearStarting, TakeStartable, Arbiter, DriverInv, DriverTypeOK
  <2>4. DriverTypeOK'
    BY <1>5, <1>6, <2>1, <2>2, <2>3 DEF DriverInv, DriverTypeOK, DriverEvent, TerminalEvent
  <2>5. Agreement'
    BY <2>2, <2>3 DEF Agreement, HasActive
  <2>6. \A t \in Sequence : outcome'[t] = IF t = s THEN "Failed" ELSE outcome[t]
    BY <1>5, <2>1 DEF DriverInv, DriverTypeOK
  <2>7. Accounted'
    BY <1>1, <1>5, <1>6, <2>3, <2>6 DEF DriverInv, Accounted, NoActive, NoCommand, Sequence
  <2>8. CancelCalls'
    BY <1>5, <1>6, <2>3, <2>6 DEF DriverInv, CancelCalls, NoActive
  <2>9. QED
    BY <2>4, <2>5, <2>7, <2>8 DEF DriverInv
<1>9. QED
  BY <1>7, <1>8

\* When the arbiter asks for the cancel call, the runner core is ready for it.
LEMMA CancelIsDue ==
  ASSUME DriverInv, ArbiterAction(arbiter) = "CancelActive"
  PROVE  /\ HasActive(arbiter)
         /\ ~arbiter.active.cancelRequested
         /\ runner.lifecycle = "Started"
         /\ runner.operation = arbiter.active.operation
         /\ CancelDirective(runner, arbiter.active.operation) = "NotifyBackend"
<1>1. HasActive(arbiter) /\ ~arbiter.active.cancelRequested
  BY ActionMeaning DEF CancelDue
<1>2. runner.lifecycle = "Started" /\ runner.operation = arbiter.active.operation
  BY <1>1 DEF DriverInv, Agreement
<1>3. QED
  BY <1>1, <1>2 DEF CancelDirective, Owns

LEMMA CancelActiveKeepsInv ==
  ASSUME DriverInv, NEW accepted \in BOOLEAN, CancelActive(accepted)
  PROVE  DriverInv'
<1> DEFINE s         == arbiter.active.sequence
           requested == RequestCancel(runner)
<1>1. /\ HasActive(arbiter)
      /\ ~arbiter.active.cancelRequested
      /\ runner.lifecycle = "Started"
      /\ runner.operation = arbiter.active.operation
      /\ CancelDirective(runner, arbiter.active.operation) = "NotifyBackend"
  BY CancelIsDue DEF CancelActive
<1>2. s \in Sequence /\ outcome[s] = "None"
      /\ arbiter.active \in ActiveCommand(Sequence, OperationId)
  BY <1>1, ActiveIsBound
<1>3. /\ cancelCalls' = [cancelCalls EXCEPT ![s] = @ + 1]
      /\ deadline' \in BOOLEAN
      /\ UNCHANGED submitted
  BY <1>1 DEF CancelActive
<1>4. cancelCalls[s] = 0 /\ cancelCalls \in [Sequence -> Nat]
  BY <1>1, <1>2 DEF DriverInv, CancelCalls, DriverTypeOK
<1>5. /\ cancelCalls' \in [Sequence -> Nat]
      /\ cancelCalls'[s] = 1
      /\ \A t \in Sequence : t # s => cancelCalls'[t] = cancelCalls[t]
  BY <1>2, <1>3, <1>4
<1>6. /\ requested \in Runner
      /\ requested.operation = runner.operation
      /\ requested.lifecycle = "CancelRequested"
  BY <1>1, TransitionTypes DEF RequestCancel, Runner, DriverInv, DriverTypeOK
<1> HIDE DEF requested
<1>7. CASE accepted
  <2>1. /\ runner' = MarkCancelNotified(requested)
        /\ arbiter' = MarkCancelRequested(arbiter)
        /\ event' = "CancelRequested"
        /\ UNCHANGED outcome
    BY <1>1, <1>7 DEF CancelActive, requested
  <2>2. /\ runner' \in Runner
        /\ runner'.operation = runner.operation
        /\ runner'.lifecycle = "CancelRequested"
    BY <1>6, <2>1, TransitionTypes DEF MarkCancelNotified, Runner
  <2>3. /\ arbiter' \in Arbiter(Sequence, OperationId)
        /\ arbiter'.starting = arbiter.starting
        /\ arbiter'.pending = arbiter.pending
        /\ arbiter'.active.sequence = s
        /\ arbiter'.active.operation = arbiter.active.operation
        /\ arbiter'.active.cancelRequested = TRUE
    BY <1>2, <2>1 DEF MarkCancelRequested, Arbiter, ActiveCommand, DriverInv, DriverTypeOK
  <2>4. HasActive(arbiter')
    BY <2>3 DEF HasActive, NoActive
  <2>5. Agreement'
    BY <1>1, <2>2, <2>3, <2>4 DEF DriverInv, Agreement
  <2>6. CancelCalls'
    BY <1>2, <1>5, <2>1, <2>3 DEF DriverInv, CancelCalls
  <2>7. event' \in DriverEvent
    BY <2>1 DEF DriverEvent
  <2>8. QED
    BY <1>3, <1>5, <2>1, <2>2, <2>3, <2>5, <2>6, <2>7, KeepingCommandsKeepsInv
<1>8. CASE ~accepted
  <2>1. FinishTerminal(Terminate(requested), "Failed")
    BY <1>1, <1>8 DEF CancelActive, requested
  <2>2. "Failed" \in TerminalEvent /\ Live(requested, requested.operation)
    BY <1>6 DEF TerminalEvent, Live, Owns
  <2>3. QED
    BY <1>1, <1>3, <1>5, <1>6, <2>1, <2>2, AnsweringKeepsInv
<1>9. QED
  BY <1>7, <1>8

\* The runner a poll works on: the driver's timer subscription and the
\* selector's turn change neither the operation nor its lifecycle.
LEMMA PolledRunner ==
  ASSUME DriverInv, NEW ready
  PROVE  /\ Watched(ready) \in Runner
         /\ Watched(ready).operation = runner.operation
         /\ Watched(ready).lifecycle = runner.lifecycle
         /\ Polled(ready) \in Runner
         /\ Polled(ready).operation = runner.operation
         /\ Polled(ready).lifecycle = runner.lifecycle
         /\ Polled(ready).waitFor = Watched(ready).waitFor
<1>1. runner \in Runner /\ {"TIMER"} \in SUBSET WaitSource
  BY DEF DriverInv, DriverTypeOK, WaitSource
<1>2. /\ Subscribe(runner, {"TIMER"}) \in Runner
      /\ Subscribe(runner, {"TIMER"}).operation = runner.operation
      /\ Subscribe(runner, {"TIMER"}).lifecycle = runner.lifecycle
  <2>1. Subscribe(runner, {"TIMER"}) \in Runner
    BY <1>1, TransitionTypes
  <2>2. QED
    BY <1>1, <2>1 DEF Subscribe, Runner
<1>3. /\ Watched(ready) \in Runner
      /\ Watched(ready).operation = runner.operation
      /\ Watched(ready).lifecycle = runner.lifecycle
  BY <1>1, <1>2 DEF Watched
<1>4. QED
  BY <1>3, SteppedKeepsOperation DEF Polled

\* A poll that moves nothing but the runner's subscription and preference.
LEMMA PollingKeepsInv ==
  ASSUME DriverInv, NEW ready, HasActive(arbiter),
         runner' \in Runner,
         runner'.operation = runner.operation,
         runner'.lifecycle = runner.lifecycle,
         deadline' \in BOOLEAN, event' \in DriverEvent,
         UNCHANGED <<arbiter, submitted, outcome, cancelCalls>>
  PROVE  DriverInv'
<1>1. Agreement' /\ CancelCalls'
  BY DEF DriverInv, Agreement, CancelCalls, HasActive
<1>2. QED
  BY <1>1, KeepingCommandsKeepsInv DEF DriverInv, DriverTypeOK

LEMMA PollKeepsInv ==
  ASSUME DriverInv, NEW ready,
         \/ PollWaiting(ready)
         \/ PollMisdirected(ready)
         \/ \E shape \in ReportShape : PollPending(ready, shape) \/ PollTerminal(ready, shape)
         \/ PollFailed(ready)
         \/ \E reported \in OperationId : PollStale(ready, reported)
  PROVE  DriverInv'
<1>1. ArbiterAction(arbiter) = "WaitActive"
  BY DEF PollWaiting, PollMisdirected, PollPending, PollTerminal, PollFailed, PollStale,
         PollBackend
<1>2. HasActive(arbiter)
  BY <1>1, ActionMeaning
<1>3. Live(runner, runner.operation)
  BY <1>2, ActiveIsBound
<1>4. deadline \in BOOLEAN /\ cancelCalls \in [Sequence -> Nat]
  BY DEF DriverInv, DriverTypeOK
<1>5. CASE PollWaiting(ready)
  <2>1. "Waiting" \in DriverEvent
    BY DEF DriverEvent
  <2>2. QED
    BY <1>2, <1>4, <1>5, <2>1, PolledRunner, PollingKeepsInv DEF PollWaiting
<1>6. CASE PollMisdirected(ready)
  <2>1. "Error" \in DriverEvent
    BY DEF DriverEvent
  <2>2. QED
    BY <1>2, <1>4, <1>6, <2>1, PolledRunner, PollingKeepsInv DEF PollMisdirected, DriverError
<1>7. ASSUME NEW shape \in ReportShape, PollPending(ready, shape)
      PROVE  DriverInv'
  <2>1. /\ shape.waitFor \in SUBSET WaitSource
        /\ shape.disposition \in DriverEvent
    BY <1>7, DriverAssumption DEF PollPending, ReportShape, DriverEvent
  <2>2. /\ runner' = Resubscribe(Polled(ready), shape.waitFor)
        /\ event' = shape.disposition
        /\ deadline' \in BOOLEAN
        /\ UNCHANGED <<arbiter, submitted, outcome, cancelCalls>>
    BY <1>3, <1>7 DEF PollPending, PollBackend
  <2>3. /\ runner' \in Runner
        /\ runner'.operation = runner.operation
        /\ runner'.lifecycle = runner.lifecycle
    BY <2>1, <2>2, PolledRunner, TransitionTypes DEF Resubscribe, Runner
  <2>4. QED
    BY <1>2, <2>1, <2>2, <2>3, PollingKeepsInv
<1>8. ASSUME NEW kind \in TerminalEvent, FinishTerminal(Terminate(Polled(ready)), kind),
             deadline' \in BOOLEAN, UNCHANGED <<submitted, cancelCalls>>
      PROVE  DriverInv'
  <2>1. cancelCalls'[arbiter.active.sequence] \in {0, 1}
    BY <1>2, <1>8, ActiveIsBound DEF DriverInv, CancelCalls
  <2>2. Live(Polled(ready), Polled(ready).operation)
    BY <1>3, PolledRunner DEF Live, Owns
  <2>3. QED
    BY <1>2, <1>4, <1>8, <2>1, <2>2, PolledRunner, AnsweringKeepsInv
<1>9. ASSUME NEW shape \in ReportShape, PollTerminal(ready, shape)
      PROVE  DriverInv'
  BY <1>3, <1>8, <1>9 DEF PollTerminal, PollBackend, TerminalEvent
<1>10. CASE PollFailed(ready)
  BY <1>3, <1>8, <1>10 DEF PollFailed, PollBackend, TerminalEvent
<1>11. ASSUME NEW reported \in OperationId, PollStale(ready, reported)
       PROVE  DriverInv'
  <2>1. "Error" \in DriverEvent
    BY DEF DriverEvent
  <2>2. QED
    BY <1>2, <1>11, <2>1, PolledRunner, PollingKeepsInv DEF PollStale, PollBackend, DriverError
<1>12. QED
  BY <1>5, <1>6, <1>7, <1>9, <1>10, <1>11

-----------------------------------------------------------------------------
(* Theorems *)

\* The invariant is inductive.
LEMMA InitEstablishesInv == Init => DriverInv
<1> SUFFICES ASSUME Init PROVE DriverInv
  OBVIOUS
<1>1. /\ NewArbiter \in Arbiter(Sequence, OperationId)
      /\ NewRunner \in Runner
  BY GenerationAssumption
  DEF NewArbiter, NewRunner, Arbiter, Runner, Lifecycle, WaitSource, WakeIndex, WakeCount
<1>2. DriverTypeOK
  <2>1. outcome \in [Sequence -> TerminalEvent \cup {"None"}] /\ cancelCalls \in [Sequence -> Nat]
    BY DEF Init
  <2>2. submitted \in 0 .. MaxSequence
    BY DriverAssumption DEF Init
  <2>3. event \in DriverEvent /\ deadline \in BOOLEAN
    BY DEF Init, DriverEvent
  <2>4. QED
    BY <1>1, <2>1, <2>2, <2>3 DEF Init, DriverTypeOK
<1>3. Agreement
  BY DEF Init, Agreement, NewArbiter, NewRunner, HasActive
<1>4. Accounted
  BY DEF Init, Accounted, NewArbiter, NoActive, NoCommand, Sequence
<1>5. CancelCalls
  BY DEF Init, CancelCalls
<1>6. QED
  BY <1>2, <1>3, <1>4, <1>5 DEF DriverInv

LEMMA NextKeepsInv == DriverInv /\ [Next]_vars => DriverInv'
<1> SUFFICES ASSUME DriverInv, [Next]_vars PROVE DriverInv'
  OBVIOUS
<1>1. CASE Submit
  BY <1>1, SubmitKeepsInv
<1>2. ASSUME NEW s \in 1 .. submitted, CancelBySequence(s)
      PROVE  DriverInv'
  BY <1>2, CancelBySequenceKeepsInv
<1>3. ASSUME NEW ready \in ReadySet, DriveOnce(ready)
      PROVE  DriverInv'
  BY <1>3, DriveIdleKeepsInv, StartPendingKeepsInv, CancelActiveKeepsInv, PollKeepsInv
  DEF DriveOnce
<1>4. CASE UNCHANGED vars
  BY <1>4 DEF vars, DriverInv, DriverTypeOK, Agreement, Accounted, CancelCalls
<1>5. QED
  BY <1>1, <1>2, <1>3, <1>4 DEF Next

\* The arbiter, the runner core and the history of answers stay in step.
THEOREM DriverInvariant == Spec => []DriverInv
BY InitEstablishesInv, NextKeepsInv, PTL DEF Spec

\* Every driver field, generation and outcome keeps its type.
THEOREM DriverTypeCorrect == Spec => []DriverTypeOK
<1>1. DriverInv => DriverTypeOK
  BY DEF DriverInv
<1>2. QED
  BY <1>1, DriverInvariant, PTL

\* The arbiter and the runner core never disagree about the active command.
THEOREM ArbiterAgreesWithRunner == Spec => []DriverConsistent
<1>1. DriverInv => DriverConsistent
  BY DEF DriverInv, DriverConsistent
<1>2. QED
  BY <1>1, DriverInvariant, PTL

\* No submitted command is ever lost, answered while it runs, or held twice.
THEOREM CommandsAreAccounted == Spec => []Accounted
<1>1. DriverInv => Accounted
  BY DEF DriverInv
<1>2. QED
  BY <1>1, DriverInvariant, PTL

\* The backend's cancel is called at most once for each command.
THEOREM BackendCancelledOnce == Spec => []CancelledOnce
<1>1. DriverInv => CancelledOnce
  BY DEF DriverInv, CancelCalls, CancelledOnce
<1>2. QED
  BY <1>1, DriverInvariant, PTL

-----------------------------------------------------------------------------
(* What follows from the invariant *)

\* An arbiter always has one of the five actions.
LEMMA ActionCases ==
  ASSUME NEW a
  PROVE  ArbiterAction(a) \in {"CancelActive", "WaitActive", "Starting", "StartPending", "Idle"}
<1>1. CancelDue(a) => HasActive(a)
  BY DEF CancelDue
<1>2. QED
  BY <1>1, Zenon DEF ArbiterAction

\* A live operation is polled by the driver unless the selector finds nothing
\* it waits for.
LEMMA LiveWhenWaiting ==
  ASSUME DriverInv, ArbiterAction(arbiter) = "WaitActive"
  PROVE  HasActive(arbiter) /\ runner.lifecycle \in {"Started", "CancelRequested"}
BY ActionMeaning, ActiveIsBound DEF Live

\* A wake on a source the wait intent names is always served: the selector
\* then has an eligible source, or the operation is owed a poll anyway.
LEMMA SubscribedWakesAreServed == DriverInv => WakesAreServed
<1>1. ASSUME DriverInv, ArbiterAction(arbiter) = "WaitActive",
             NEW ready \in ReadySet,
             NEW source \in ready \cap WaitSources \cap {"BACKEND", "L2_RX", "TIMER"}
      PROVE  Step(ready) # "Waiting"
  <2>1. HasActive(arbiter) /\ runner.lifecycle \in {"Started", "CancelRequested"}
    BY <1>1, ActionMeaning, ActiveIsBound DEF Live
  <2>2. source \in Watched(ready).waitFor
    <3>1. runner \in Runner
      BY <1>1 DEF DriverInv, DriverTypeOK
    <3>2. QED
      BY <1>1, <3>1 DEF Watched, Subscribe, WaitSources, Runner
  <2>3. PICK i \in WakeIndex : WakeReason(i) = source
    <3>1. 1 \in WakeIndex /\ 2 \in WakeIndex /\ 3 \in WakeIndex
      BY DEF WakeIndex, WakeCount
    <3>2. WakeReason(1) = "BACKEND" /\ WakeReason(2) = "L2_RX" /\ WakeReason(3) = "TIMER"
      BY DEF WakeReason
    <3>3. QED
      BY <1>1, <3>1, <3>2
  <2>4. Eligible(Watched(ready).waitFor, ready) # {}
    BY <1>1, <2>2, <2>3 DEF Eligible
  <2>5. Watched(ready).lifecycle = runner.lifecycle
    BY <1>1, PolledRunner
  <2>6. QED
    BY <2>1, <2>4, <2>5 DEF Step, StepKind
<1>2. QED
  BY <1>1 DEF WakesAreServed

\* The runner is told to sleep exactly when a drive_once with nothing ready
\* would find nothing to do.
LEMMA SleepIsSafe == DriverInv => SleepsOnlyWhenIdle
<1> SUFFICES ASSUME DriverInv PROVE SleepsOnlyWhenIdle
  OBVIOUS
<1>1. CASE ArbiterAction(arbiter) = "WaitActive"
  <2>1. Watched({}) = runner
    BY DEF Watched
  <2>2. Eligible(runner.waitFor, {}) = {}
    BY DEF Eligible
  <2>3. Step({}) = "Waiting" <=> runner.waitFor # {}
    BY <1>1, <2>1, <2>2, LiveWhenWaiting DEF Step, StepKind, OwedPoll
  <2>4. QED
    BY <1>1, <2>3 DEF SleepsOnlyWhenIdle, RunImmediately
<1>2. CASE ArbiterAction(arbiter) # "WaitActive"
  BY <1>2, ActionCases DEF SleepsOnlyWhenIdle, RunImmediately
<1>3. QED
  BY <1>1, <1>2

\* The wait intent of the driver is exact for every set of sources a backend
\* may subscribe and whatever is ready.
THEOREM WaitIntentCorrect == Spec => []WaitIntentIsExact
<1>1. DriverInv => WaitIntentIsExact
  BY SubscribedWakesAreServed, SleepIsSafe DEF WaitIntentIsExact
<1>2. QED
  BY <1>1, DriverInvariant, PTL

\* The selector never gives the command plane a turn that no report asked for.
LEMMA NoTurnForCommands ==
  ASSUME DriverInv, ArbiterAction(arbiter) = "WaitActive",
         "COMMAND" \notin runner.waitFor, NEW ready
  PROVE  Step(ready) \notin {"Idle", "CommandReady"}
<1> DEFINE w == Watched(ready)
<1>1. w \in Runner /\ w.lifecycle \in {"Started", "CancelRequested"}
  BY PolledRunner, LiveWhenWaiting
<1>2. "COMMAND" \notin w.waitFor
  <2>1. runner \in Runner
    BY DEF DriverInv, DriverTypeOK
  <2>2. QED
    BY <2>1 DEF Watched, Subscribe, Runner
<1>3. ASSUME Eligible(w.waitFor, ready) # {}
      PROVE  Selected(w.next, w.waitFor, ready) # 0
  <2>1. w.next \in WakeIndex
    BY <1>1 DEF Runner
  <2>2. Selected(w.next, w.waitFor, ready) \in Eligible(w.waitFor, ready)
    BY <1>3, <2>1, SelectedIsNearest
  <2>3. WakeReason(0) = "COMMAND"
    BY DEF WakeReason
  <2>4. QED
    BY <1>2, <2>2, <2>3 DEF Eligible
<1>4. QED
  BY <1>1, <1>3 DEF Step, StepKind

\* Every internal call of the driver is legal when the driver makes it.
THEOREM StepsAreDirected == Spec => []NoMisdirectedStep
<1>1. ASSUME DriverInv PROVE NoMisdirectedStep
  <2>1. ArbiterAction(arbiter) # "Starting"
    BY <1>1, ActionMeaning DEF DriverInv, Agreement
  <2>2. ArbiterAction(arbiter) = "StartPending" => CanQueue(runner)
    BY <1>1, ActionMeaning DEF DriverInv, Agreement, CanQueue
  <2>3. ArbiterAction(arbiter) = "CancelActive" =>
          CancelDirective(runner, arbiter.active.operation) = "NotifyBackend"
    BY <1>1, CancelIsDue
  <2>4. QED
    BY <1>1, <2>1, <2>2, <2>3, NoTurnForCommands DEF NoMisdirectedStep
<1>2. QED
  BY <1>1, DriverInvariant, PTL

-----------------------------------------------------------------------------
(* Errors *)

\* What a step that ends in an error may do to the runner.
Harmless ==
  /\ arbiter' = arbiter
  /\ outcome' = outcome
  /\ runner'.operation = runner.operation
  /\ runner'.lifecycle = runner.lifecycle
  /\ runner'.waitFor \subseteq runner.waitFor \cup {"TIMER"}

\* The live operation can always be finished: its terminal state is reaped.
LEMMA FinishNeverFails ==
  ASSUME DriverInv, HasActive(arbiter), NEW r, NEW kind,
         r.operation = runner.operation,
         FinishTerminal(Terminate(r), kind),
         r \in Runner
  PROVE  event' = kind
<1>1. CanFinishActive(arbiter, Terminate(r).operation)
  BY ActiveIsBound DEF CanFinishActive, Terminate, Runner
<1>2. CanReap(Terminate(r), Terminate(r).operation)
  BY DEF CanReap, Owns, Terminate, Runner
<1>3. QED
  BY <1>1, <1>2 DEF FinishTerminal

\* Looking for a wake changes nothing but the subscription and the turn.
LEMMA PolledIsHarmless ==
  ASSUME DriverInv, NEW ready, DriverError(arbiter, Polled(ready))
  PROVE  Harmless
<1>1. Watched(ready).waitFor \subseteq runner.waitFor \cup {"TIMER"}
  <2>1. runner \in Runner
    BY DEF DriverInv, DriverTypeOK
  <2>2. QED
    BY <2>1 DEF Watched, Subscribe, Runner
<1>2. QED
  BY <1>1, PolledRunner DEF DriverError, Harmless

\* A step of the driver that ends in an error and changes the runner is one
\* of a stale report or of a turn nobody can use.
LEMMA ErrorsAreHarmless ==
  ASSUME DriverInv, Next, event' = "Error", runner' # runner
  PROVE  Harmless
<1>1. CASE Submit
  BY <1>1 DEF Submit
<1>2. CASE \E s \in 1 .. submitted : CancelBySequence(s)
  BY <1>2 DEF CancelBySequence
<1>3. ASSUME NEW ready \in ReadySet, DriveOnce(ready)
      PROVE  Harmless
  <2>1. CASE DriveIdle
    BY <2>1 DEF DriveIdle, DriverError
  <2>2. ASSUME NEW accepted \in BOOLEAN, StartPending(accepted)
        PROVE  Harmless
    BY <2>2 DEF StartPending, DriverError
  <2>3. ASSUME NEW accepted \in BOOLEAN, CancelActive(accepted)
        PROVE  Harmless
    <3>1. HasActive(arbiter)
          /\ CancelDirective(runner, arbiter.active.operation) = "NotifyBackend"
      BY <2>3, CancelIsDue DEF CancelActive
    <3>2. accepted \/ FinishTerminal(Terminate(RequestCancel(runner)), "Failed")
      BY <2>3, <3>1 DEF CancelActive
    <3>3. ~accepted
      BY <2>3, <3>1 DEF CancelActive
    <3>4. RequestCancel(runner) \in Runner /\ RequestCancel(runner).operation = runner.operation
      <4>1. runner \in Runner
        BY DEF DriverInv, DriverTypeOK
      <4>2. QED
        BY <4>1, TransitionTypes DEF RequestCancel, Terminate, Runner
    <3>5. event' = "Failed"
      BY <3>1, <3>2, <3>3, <3>4, FinishNeverFails
    <3>6. QED
      BY <3>5
  <2>4. CASE PollWaiting(ready)
    BY <2>4 DEF PollWaiting
  <2>5. CASE PollMisdirected(ready)
    BY <2>5, PolledIsHarmless DEF PollMisdirected
  <2>6. CASE PollBackend(ready) /\ DriverError(arbiter, Polled(ready))
    BY <2>6, PolledIsHarmless
  <2>7. ASSUME NEW shape \in ReportShape, PollPending(ready, shape)
        PROVE  Harmless
    BY <2>6, <2>7 DEF PollPending
  <2>8. ASSUME PollBackend(ready), NEW kind \in TerminalEvent,
               FinishTerminal(Terminate(Polled(ready)), kind)
        PROVE  FALSE
    <3>1. HasActive(arbiter)
      BY <2>8, ActionMeaning DEF PollBackend
    <3>2. event' = kind
      BY <2>8, <3>1, PolledRunner, FinishNeverFails
    <3>3. QED
      BY <3>2 DEF TerminalEvent
  <2>9. ASSUME NEW shape \in ReportShape, PollTerminal(ready, shape)
        PROVE  Harmless
    BY <2>6, <2>8, <2>9 DEF PollTerminal, TerminalEvent
  <2>10. CASE PollFailed(ready)
    BY <2>6, <2>8, <2>10 DEF PollFailed, TerminalEvent
  <2>11. ASSUME NEW reported \in OperationId, PollStale(ready, reported)
         PROVE  Harmless
    BY <2>6, <2>11 DEF PollStale
  <2>12. QED
    BY <1>3, <2>1, <2>2, <2>3, <2>4, <2>5, <2>7, <2>9, <2>10, <2>11 DEF DriveOnce
<1>4. QED
  BY <1>1, <1>2, <1>3 DEF Next

\* Whatever a backend reports under an identity that is not the live one, the
\* live command, its cancellation state and its answer stay as they were.
THEOREM StaleReportsAreHarmless == Spec => StaleReportHarmless
<1>1. DriverInv /\ [Next]_vars => [event' = "Error" /\ runner' # runner => Harmless]_vars
  BY ErrorsAreHarmless
<1>2. [][event' = "Error" /\ runner' # runner => Harmless]_vars => StaleReportHarmless
  BY DEF Harmless, StaleReportHarmless
<1>3. QED
  BY <1>1, <1>2, DriverInvariant, PTL DEF Spec

-----------------------------------------------------------------------------
(* Fairness of the selector *)

\* The preference after a turn that took j.
Behind(j) == (j + 1) % WakeCount

\* A turn takes an eligible source or brings it nearer.
LEMMA TakenOrNearer ==
  ASSUME NEW next \in WakeIndex, NEW subscribed, NEW ready,
         NEW i \in Eligible(subscribed, ready), Selected(next, subscribed, ready) # i
  PROVE  /\ Behind(Selected(next, subscribed, ready)) \in WakeIndex
         /\ Offset(Behind(Selected(next, subscribed, ready)), i) < Offset(next, i)
<1> DEFINE j == Selected(next, subscribed, ready)
<1>1. j \in WakeIndex /\ i \in WakeIndex /\ j # i /\ Offset(next, j) <= Offset(next, i)
  BY SelectedIsNearest DEF Eligible
<1> HIDE DEF j
<1>2. /\ Behind(j) \in WakeIndex
      /\ Offset(Behind(j), i) < Offset(next, i)
  BY <1>1 DEF Behind, WakeIndex, WakeCount, Offset
<1>3. QED
  BY <1>2 DEF j

\* FairWakeSelector starves nobody: a source that is subscribed and ready at
\* four turns in a row is taken at one of them, whatever else is ready.
THEOREM EverySourceGetsItsTurn ==
  ASSUME NEW i \in WakeIndex,
         NEW next \in [0 .. WakeCount -> WakeIndex], NEW subscribed, NEW ready,
         \A k \in 0 .. WakeCount - 1 :
           /\ i \in Eligible(subscribed[k], ready[k])
           /\ next[k + 1] = Behind(Selected(next[k], subscribed[k], ready[k]))
  PROVE  \E k \in 0 .. WakeCount - 1 : Selected(next[k], subscribed[k], ready[k]) = i
<1> SUFFICES ASSUME \A k \in 0 .. WakeCount - 1 : Selected(next[k], subscribed[k], ready[k]) # i
             PROVE  FALSE
  OBVIOUS
<1>1. \A k \in 0 .. WakeCount - 1 : Offset(next[k + 1], i) < Offset(next[k], i)
  BY TakenOrNearer DEF WakeCount
<1>2. \A k \in 0 .. WakeCount : Offset(next[k], i) \in 0 .. WakeCount - 1
  BY DEF Offset, WakeIndex, WakeCount
<1>3. /\ Offset(next[1], i) < Offset(next[0], i) /\ Offset(next[2], i) < Offset(next[1], i)
      /\ Offset(next[3], i) < Offset(next[2], i) /\ Offset(next[4], i) < Offset(next[3], i)
  <2>1. \A k \in {0, 1, 2, 3} : Offset(next[k + 1], i) < Offset(next[k], i)
    BY <1>1 DEF WakeCount
  <2>2. 0 + 1 = 1 /\ 1 + 1 = 2 /\ 2 + 1 = 3 /\ 3 + 1 = 4
    OBVIOUS
  <2>3. QED
    BY <2>1, <2>2
<1>4. \A k \in {0, 1, 2, 3, 4} : Offset(next[k], i) \in 0 .. 3
  BY <1>2 DEF WakeCount
<1>5. QED
  BY <1>3, <1>4

\* What a poll does to the preference: it is the one of the fair turn.
LEMMA PollTurnsSelector ==
  ASSUME DriverInv, NEW wake, ArbiterAction(arbiter) = "WaitActive", DriveOnce(wake)
  PROVE  runner'.next = Polled(wake).next
<1>1. Polled(wake) \in Runner /\ Watched(wake) \in Runner
  BY PolledRunner
<1>2. CASE PollWaiting(wake)
  <2>1. Eligible(Watched(wake).waitFor, wake) = {}
    BY <1>2 DEF PollWaiting, Step, StepKind
  <2>2. QED
    BY <1>2, <2>1 DEF PollWaiting, Polled, Stepped
<1>3. ASSUME DriverError(arbiter, Polled(wake))
      PROVE  runner'.next = Polled(wake).next
  BY <1>3 DEF DriverError
<1>4. ASSUME NEW shape \in ReportShape, PollPending(wake, shape)
      PROVE  runner'.next = Polled(wake).next
  BY <1>1, <1>3, <1>4 DEF PollPending, Resubscribe, Runner
<1>5. ASSUME NEW kind, FinishTerminal(Terminate(Polled(wake)), kind)
      PROVE  runner'.next = Polled(wake).next
  BY <1>1, <1>5 DEF FinishTerminal, DriverError, Terminate, Reap, Runner
<1>6. QED
  BY <1>2, <1>3, <1>4, <1>5
  DEF DriveOnce, DriveIdle, StartPending, CancelActive, PollMisdirected, PollTerminal, PollFailed,
      PollStale

\* Only a poll takes a turn.
LEMMA OthersKeepSelector ==
  ASSUME DriverInv, ArbiterAction(arbiter) # "WaitActive", [Next]_vars
  PROVE  runner'.next = runner.next
<1>1. runner \in Runner
  BY DEF DriverInv, DriverTypeOK
<1>2. CASE UNCHANGED runner
  BY <1>2
<1>3. ASSUME NEW accepted \in BOOLEAN, StartPending(accepted)
      PROVE  runner'.next = runner.next
  BY <1>1, <1>3 DEF StartPending, DriverError, Queue, MarkStarted, Terminate, Reap, Runner
<1>4. ASSUME NEW accepted \in BOOLEAN, CancelActive(accepted)
      PROVE  runner'.next = runner.next
  BY <1>1, <1>4, CancelIsDue
  DEF CancelActive, FinishTerminal, DriverError, RequestCancel, MarkCancelNotified, Terminate, Reap,
      Runner
<1>5. QED
  BY <1>2, <1>3, <1>4
  DEF Next, vars, Submit, CancelBySequence, DriveOnce, DriveIdle, DriverError, PollWaiting,
      PollMisdirected, PollPending, PollTerminal, PollFailed, PollStale, PollBackend

\* A drive_once that finds source i both subscribed and ready takes it or
\* brings it nearer, and nothing but such a turn moves the preference.
FairTurn(i) ==
  IF ArbiterAction(arbiter) = "WaitActive"
  THEN \A wake \in ReadySet :
         DriveOnce(wake) /\ i \in Eligible(Watched(wake).waitFor, wake) =>
           \/ Selected(runner.next, Watched(wake).waitFor, wake) = i
           \/ Offset(runner'.next, i) < Offset(runner.next, i)
  ELSE runner'.next = runner.next

\* The driver asks the selector once a poll and keeps its preference through
\* starts, cancellations, errors and the end of an operation: a source that
\* waits is overtaken by each of the others at most once, then polled.
THEOREM TurnsAreFair == Spec => [][\A i \in WakeIndex : FairTurn(i)]_vars
<1>1. ASSUME DriverInv, [Next]_vars, NEW i \in WakeIndex
      PROVE  FairTurn(i)
  <2>1. SUFFICES ASSUME ArbiterAction(arbiter) = "WaitActive", NEW wake \in ReadySet, DriveOnce(wake),
                        i \in Eligible(Watched(wake).waitFor, wake),
                        Selected(runner.next, Watched(wake).waitFor, wake) # i
                 PROVE  Offset(runner'.next, i) < Offset(runner.next, i)
    BY <1>1, OthersKeepSelector DEF FairTurn
  <2> DEFINE w == Watched(wake)
  <2>2. w \in Runner /\ w.next = runner.next /\ w.lifecycle = runner.lifecycle
    BY <1>1, PolledRunner DEF Watched, Subscribe, Runner
  <2>3. runner.lifecycle \notin {"None", "Terminal"}
    BY <1>1, <2>1, LiveWhenWaiting DEF Live
  <2>4. ~OwedPoll(w)
    BY <2>1 DEF OwedPoll, Eligible
  <2>5. Polled(wake).next = Behind(Selected(w.next, w.waitFor, wake))
    BY <2>1, <2>2, <2>3, <2>4 DEF Polled, Stepped, Behind, Runner
  <2>6. runner'.next = Polled(wake).next
    BY <1>1, <2>1, PollTurnsSelector
  <2>7. w.next \in WakeIndex
    BY <2>2 DEF Runner
  <2>8. QED
    BY <2>1, <2>2, <2>5, <2>6, <2>7, TakenOrNearer
<1>2. DriverInv /\ [Next]_vars => [\A i \in WakeIndex : FairTurn(i)]_vars
  BY <1>1
<1>3. QED
  BY <1>2, DriverInvariant, PTL DEF Spec

-----------------------------------------------------------------------------
(* The refinement: each step of the driver, seen through ServiceStatus, is *)
(* a step of CommandService or leaves the status of every command alone.   *)

\* A step that moves one command, seen through the mapping.
LEMMA StatusStep ==
  ASSUME NEW s \in Sequence, NEW next,
         StatusOf(s)' = next,
         \A t \in Sequence : t # s => StatusOf(t)' = StatusOf(t)
  PROVE  Service!Becomes(s, next)
BY DEF Service!Becomes, ServiceStatus

\* A step that moves no command.
LEMMA StatusStutter ==
  ASSUME \A t \in Sequence : StatusOf(t)' = StatusOf(t)
  PROVE  UNCHANGED ServiceStatus
BY DEF ServiceStatus

\* The mapping, read case by case under the invariant.
LEMMA StatusMeaning ==
  ASSUME DriverInv, NEW t \in Sequence
  PROVE  /\ ServiceStatus[t] = StatusOf(t)
         /\ outcome[t] # "None" => StatusOf(t) = outcome[t] /\ outcome[t] \in TerminalEvent
         /\ outcome[t] = "None" =>
              /\ t > submitted <=> StatusOf(t) = "Unknown"
              /\ t = arbiter.pending <=> StatusOf(t) = "Waiting"
              /\ t = arbiter.active.sequence <=> StatusOf(t) \in {"Running", "Cancelling"}
         /\ t > submitted \/ t = arbiter.pending \/ t = arbiter.active.sequence => outcome[t] = "None"
<1>1. submitted \in Nat /\ t \in Nat
  BY DriverAssumption DEF DriverInv, DriverTypeOK, Sequence
<1>2. ServiceStatus[t] = StatusOf(t)
  BY DEF ServiceStatus
<1>3. outcome[t] \in TerminalEvent \cup {"None"}
  BY DEF DriverInv, DriverTypeOK
<1>4. LET held == t \in {arbiter.pending, arbiter.active.sequence}
      IN /\ held => outcome[t] = "None"
         /\ (t <= submitted /\ outcome[t] = "None") => held
         /\ t > submitted => ~held /\ outcome[t] = "None"
         /\ ~(t = arbiter.pending /\ t = arbiter.active.sequence)
  BY DEF DriverInv, Accounted
<1>5. QED
  BY <1>1, <1>2, <1>3, <1>4 DEF StatusOf

LEMMA InitRefines == Init => Service!ServiceInit
<1> SUFFICES ASSUME Init PROVE Service!ServiceInit
  OBVIOUS
<1>1. \A s \in Sequence : StatusOf(s) = "Unknown"
  BY DEF Init, StatusOf, NewArbiter, NoActive, NoCommand, Sequence
<1>2. QED
  BY <1>1 DEF Service!ServiceInit, ServiceStatus, Service!Commands, Sequence

LEMMA SubmitRefines ==
  ASSUME DriverInv, Submit
  PROVE  \E s \in Sequence : Service!Accept(s)
<1>0. submitted + 1 \in Sequence
  BY DriverAssumption DEF DriverInv, DriverTypeOK, Submit, Sequence
<1> PICK s \in Sequence : s = submitted + 1
  BY <1>0
<1>1. s \in Sequence /\ submitted \in Nat /\ s = submitted + 1
  BY DEF DriverInv, DriverTypeOK
<1>2. /\ arbiter'.active = arbiter.active
      /\ arbiter'.pending = s
      /\ arbiter.pending = NoCommand
      /\ outcome' = outcome
  BY <1>1 DEF DriverInv, DriverTypeOK, Submit, CanSubmit, Submitted, Arbiter
<1>3. StatusOf(s) = "Unknown" /\ outcome[s] = "None"
      /\ s # arbiter.active.sequence
  BY <1>1, StatusMeaning DEF DriverInv, Accounted
<1>4. StatusOf(s)' = "Waiting"
  BY <1>2, <1>3 DEF StatusOf
<1>5. \A t \in Sequence : t # s => StatusOf(t)' = StatusOf(t)
  BY <1>2 DEF StatusOf, Sequence, NoCommand
<1>6. Service!Becomes(s, "Waiting")
  BY <1>1, <1>4, <1>5, StatusStep
<1>7. ASSUME NEW t \in Sequence
      PROVE  /\ t < s => ServiceStatus[t] # "Unknown"
             /\ ServiceStatus[t] # "Waiting"
  <2>1. t \in Nat /\ t # NoCommand
    BY DEF Sequence, NoCommand
  <2>2. QED
    BY <1>1, <1>2, <2>1, StatusMeaning DEF TerminalEvent
<1>8. ServiceStatus[s] = "Unknown"
  BY <1>1, <1>3, StatusMeaning
<1>9. Service!Accept(s)
  BY <1>6, <1>7, <1>8 DEF Service!Accept, Service!Commands, Sequence
<1>10. QED
  BY <1>9

LEMMA CancelBySequenceRefines ==
  ASSUME DriverInv, NEW s \in 1 .. submitted, CancelBySequence(s)
  PROVE  s \in Sequence /\ (Service!TakeOnCancel(s) \/ Service!Withdraw(s))
<1>1. s \in Sequence /\ s # NoCommand
  BY DriverAssumption DEF DriverInv, DriverTypeOK, Sequence, NoCommand
<1>2. CASE CancelKind(arbiter, s) = "RequestActive"
  <2>1. /\ HasActive(arbiter) /\ arbiter.active.sequence = s
        /\ ~arbiter.active.cancelIntent /\ ~arbiter.active.cancelRequested
    BY <1>2 DEF CancelKind
  <2>2. arbiter' = IntendCancel(arbiter) /\ outcome' = outcome
    BY <1>2 DEF CancelBySequence
  <2>3. arbiter.active \in ActiveCommand(Sequence, OperationId) /\ outcome[s] = "None"
    BY <2>1, ActiveIsBound
  <2>4. /\ arbiter'.pending = arbiter.pending
        /\ arbiter'.active.sequence = s
        /\ arbiter'.active.cancelIntent = TRUE
    BY <2>1, <2>2, <2>3 DEF IntendCancel, Arbiter, ActiveCommand, DriverInv, DriverTypeOK
  <2>5. StatusOf(s) = "Running" /\ StatusOf(s)' = "Cancelling"
    BY <2>1, <2>2, <2>3, <2>4 DEF StatusOf
  <2>6. \A t \in Sequence : t # s => StatusOf(t)' = StatusOf(t)
    BY <2>1, <2>2, <2>4 DEF StatusOf
  <2>7. Service!Becomes(s, "Cancelling")
    BY <1>1, <2>5, <2>6, StatusStep
  <2>8. QED
    BY <1>1, <2>5, <2>7 DEF Service!TakeOnCancel, ServiceStatus
<1>3. CASE CancelKind(arbiter, s) = "RemovePending"
  <2>1. arbiter.pending = s
    BY <1>3 DEF CancelKind
  <2>2. /\ arbiter' = RemovePending(arbiter)
        /\ outcome' = [outcome EXCEPT ![s] = "Cancelled"]
    BY <1>3 DEF CancelBySequence
  <2>3. arbiter'.pending = NoCommand /\ arbiter'.active = arbiter.active
    BY <2>2 DEF RemovePending, Arbiter, DriverInv, DriverTypeOK
  <2>4. \A t \in Sequence : outcome'[t] = IF t = s THEN "Cancelled" ELSE outcome[t]
    BY <1>1, <2>2 DEF DriverInv, DriverTypeOK
  <2>5. StatusOf(s) = "Waiting"
    BY <1>1, <2>1, StatusMeaning
  <2>6. StatusOf(s)' = "Cancelled"
    BY <1>1, <2>4 DEF StatusOf
  <2>7. \A t \in Sequence : t # s => StatusOf(t)' = StatusOf(t)
    BY <2>1, <2>3, <2>4 DEF StatusOf, Sequence, NoCommand
  <2>8. Service!Becomes(s, "Cancelled")
    BY <1>1, <2>6, <2>7, StatusStep
  <2>9. QED
    BY <1>1, <2>5, <2>8 DEF Service!Withdraw, ServiceStatus
<1>4. QED
  BY <1>2, <1>3 DEF CancelBySequence

\* An unanswered active command runs, or is being cancelled.
LEMMA ActiveStatus ==
  ASSUME DriverInv, HasActive(arbiter), NEW s \in Sequence, s = arbiter.active.sequence
  PROVE  /\ arbiter.active.cancelIntent \/ arbiter.active.cancelRequested
              => ServiceStatus[s] = "Cancelling"
         /\ ~arbiter.active.cancelIntent /\ ~arbiter.active.cancelRequested
              => ServiceStatus[s] = "Running"
<1>1. outcome[s] = "None"
  BY ActiveIsBound
<1>2. ServiceStatus[s] = StatusOf(s)
  BY DEF ServiceStatus
<1>3. QED
  BY <1>1, <1>2 DEF StatusOf

\* With no active command nothing runs in the service.
LEMMA NoActiveNoneRuns ==
  ASSUME DriverInv, ~HasActive(arbiter)
  PROVE  Service!NoneRuns
<1>1. ASSUME NEW t \in Sequence
      PROVE  ServiceStatus[t] \notin {"Running", "Cancelling"}
  <2>1. t # arbiter.active.sequence
    BY DEF HasActive, NoActive, NoCommand, Sequence
  <2>2. outcome[t] \in TerminalEvent \cup {"None"} /\ ServiceStatus[t] = StatusOf(t)
    BY DEF DriverInv, DriverTypeOK, ServiceStatus
  <2>3. QED
    BY <2>1, <2>2, StatusMeaning DEF TerminalEvent
<1>2. QED
  BY <1>1 DEF Service!NoneRuns, Service!Commands, Sequence

LEMMA StartPendingRefines ==
  ASSUME DriverInv, NEW accepted \in BOOLEAN, StartPending(accepted)
  PROVE  \E s \in Sequence : Service!Start(s) \/ Service!Refuse(s)
<1>1. ~HasActive(arbiter) /\ arbiter.starting = NoCommand /\ arbiter.pending # NoCommand
  BY ActionMeaning DEF StartPending
<1>2. CanQueue(runner)
  BY <1>1 DEF DriverInv, Agreement, CanQueue
<1>3. arbiter.pending \in Sequence
  BY <1>1 DEF DriverInv, DriverTypeOK, Arbiter
<1> PICK s \in Sequence : s = arbiter.pending
  BY <1>3
<1>4. s # NoCommand /\ s # arbiter.active.sequence /\ outcome[s] = "None"
  BY <1>1 DEF DriverInv, Accounted
<1>5. ServiceStatus[s] = "Waiting" /\ StatusOf(s) = "Waiting"
  BY <1>4, StatusMeaning
<1>6. Service!NoneRuns
  BY <1>1, NoActiveNoneRuns
<1>7. \A t \in Sequence : t # NoCommand /\ t # arbiter.active.sequence
  BY <1>1 DEF HasActive, NoActive, NoCommand, Sequence
<1>8. /\ TakeStartable(arbiter).active = NoActive
      /\ TakeStartable(arbiter).pending = NoCommand
      /\ TakeStartable(arbiter) \in Arbiter(Sequence, OperationId)
  BY <1>1, <1>3 DEF TakeStartable, HasActive, DriverInv, DriverTypeOK, Arbiter
<1>9. CASE accepted
  <2>1. /\ arbiter' = BindStarted(TakeStartable(arbiter), s, Queue(runner).operation)
        /\ outcome' = outcome
    BY <1>2, <1>9 DEF StartPending
  <2>2. /\ arbiter'.pending = NoCommand
        /\ arbiter'.active.sequence = s
        /\ arbiter'.active.cancelIntent = FALSE
        /\ arbiter'.active.cancelRequested = FALSE
    BY <1>8, <2>1 DEF BindStarted, Arbiter
  <2>3. StatusOf(s)' = "Running"
    BY <1>4, <2>1, <2>2 DEF StatusOf
  <2>4. \A t \in Sequence : t # s => StatusOf(t)' = StatusOf(t)
    BY <1>7, <2>1, <2>2 DEF StatusOf
  <2>5. Service!Becomes(s, "Running")
    BY <2>3, <2>4, StatusStep
  <2>6. QED
    BY <1>5, <1>6, <2>5 DEF Service!Start
<1>10. CASE ~accepted
  <2>1. /\ arbiter' = ClearStarting(TakeStartable(arbiter))
        /\ outcome' = [outcome EXCEPT ![s] = "Failed"]
    BY <1>2, <1>10 DEF StartPending
  <2>2. /\ arbiter'.pending = NoCommand
        /\ arbiter'.active = arbiter.active
    BY <1>1, <1>8, <2>1 DEF ClearStarting, Arbiter, HasActive
  <2>3. \A t \in Sequence : outcome'[t] = IF t = s THEN "Failed" ELSE outcome[t]
    BY <2>1 DEF DriverInv, DriverTypeOK
  <2>4. StatusOf(s)' = "Failed"
    BY <2>3 DEF StatusOf
  <2>5. \A t \in Sequence : t # s => StatusOf(t)' = StatusOf(t)
    BY <1>7, <2>2, <2>3 DEF StatusOf
  <2>6. Service!Becomes(s, "Failed")
    BY <2>4, <2>5, StatusStep
  <2>7. QED
    BY <1>5, <1>6, <2>6 DEF Service!Refuse
<1>11. QED
  BY <1>9, <1>10

\* finish_terminal answers the active command and touches no other.
LEMMA AnsweringRefines ==
  ASSUME DriverInv, HasActive(arbiter),
         NEW kind \in TerminalEvent,
         NEW r \in Runner, r.operation = runner.operation,
         FinishTerminal(Terminate(r), kind),
         NEW s \in Sequence, s = arbiter.active.sequence
  PROVE  Service!Becomes(s, kind)
<1>1. /\ Terminate(r).operation = arbiter.active.operation
      /\ Terminate(r).lifecycle = "Terminal"
  BY ActiveIsBound DEF Terminate, Runner
<1>2. /\ arbiter' = FinishActive(arbiter)
      /\ outcome' = [outcome EXCEPT ![s] = kind]
  BY <1>1 DEF FinishTerminal, CanFinishActive, CanReap, Owns
<1>3. arbiter'.active = NoActive /\ arbiter'.pending = arbiter.pending
  BY <1>2 DEF FinishActive, Arbiter, DriverInv, DriverTypeOK
<1>4. \A t \in Sequence : outcome'[t] = IF t = s THEN kind ELSE outcome[t]
  BY <1>2 DEF DriverInv, DriverTypeOK
<1>5. kind # "None"
  BY DEF TerminalEvent
<1>6. StatusOf(s)' = kind
  BY <1>4, <1>5 DEF StatusOf
<1>7. \A t \in Sequence : t # s => StatusOf(t)' = StatusOf(t)
  BY <1>3, <1>4 DEF StatusOf, NoActive, NoCommand, Sequence
<1>8. QED
  BY <1>6, <1>7, StatusStep

LEMMA CancelActiveRefines ==
  ASSUME DriverInv, NEW accepted \in BOOLEAN, CancelActive(accepted)
  PROVE  \/ UNCHANGED ServiceStatus
         \/ \E s \in Sequence : Service!TakeOnCancel(s) \/ Service!Fail(s)
<1>1. /\ HasActive(arbiter)
      /\ ~arbiter.active.cancelRequested
      /\ runner.lifecycle = "Started"
      /\ CancelDirective(runner, arbiter.active.operation) = "NotifyBackend"
  BY CancelIsDue DEF CancelActive
<1>2. /\ arbiter.active.sequence \in Sequence
      /\ arbiter.active \in ActiveCommand(Sequence, OperationId)
      /\ outcome[arbiter.active.sequence] = "None"
  BY <1>1, ActiveIsBound
<1> PICK s \in Sequence : s = arbiter.active.sequence
  BY <1>2
<1>3. CASE accepted
  <2>1. arbiter' = MarkCancelRequested(arbiter) /\ outcome' = outcome
    BY <1>1, <1>3 DEF CancelActive
  <2>2. /\ arbiter'.pending = arbiter.pending
        /\ arbiter'.active.sequence = s
        /\ arbiter'.active.cancelRequested = TRUE
    BY <1>2, <2>1 DEF MarkCancelRequested, Arbiter, ActiveCommand, DriverInv, DriverTypeOK
  <2>3. \A t \in Sequence : t # s => StatusOf(t)' = StatusOf(t)
    BY <2>1, <2>2 DEF StatusOf
  <2>4. StatusOf(s)' = "Cancelling"
    BY <1>2, <2>1, <2>2 DEF StatusOf
  <2>5. CASE arbiter.active.cancelIntent
    <3>1. StatusOf(s) = "Cancelling"
      BY <1>2, <2>5 DEF StatusOf
    <3>2. QED
      BY <2>3, <2>4, <3>1, StatusStutter
  <2>6. CASE ~arbiter.active.cancelIntent
    <3>1. ServiceStatus[s] = "Running"
      BY <1>1, <2>6, ActiveStatus
    <3>2. Service!Becomes(s, "Cancelling")
      BY <2>3, <2>4, StatusStep
    <3>3. QED
      BY <3>1, <3>2 DEF Service!TakeOnCancel
  <2>7. QED
    BY <2>5, <2>6
<1>4. CASE ~accepted
  <2> DEFINE requested == RequestCancel(runner)
  <2>1. FinishTerminal(Terminate(requested), "Failed")
    BY <1>1, <1>4 DEF CancelActive
  <2>2. requested \in Runner /\ requested.operation = runner.operation
    BY <1>1, TransitionTypes DEF RequestCancel, Runner, DriverInv, DriverTypeOK
  <2> HIDE DEF requested
  <2>3. "Failed" \in TerminalEvent
    BY DEF TerminalEvent
  <2>4. Service!Becomes(s, "Failed")
    BY <1>1, <2>1, <2>2, <2>3, AnsweringRefines
  <2>5. ServiceStatus[s] \in {"Running", "Cancelling"}
    BY <1>1, <1>2, ActiveStatus
  <2>6. QED
    BY <2>4, <2>5 DEF Service!Fail
<1>5. QED
  BY <1>3, <1>4

LEMMA PollRefines ==
  ASSUME DriverInv, NEW ready,
         \/ PollWaiting(ready)
         \/ PollMisdirected(ready)
         \/ \E shape \in ReportShape : PollPending(ready, shape) \/ PollTerminal(ready, shape)
         \/ PollFailed(ready)
         \/ \E reported \in OperationId : PollStale(ready, reported)
  PROVE  \/ UNCHANGED ServiceStatus
         \/ \E s \in Sequence : Service!Succeed(s) \/ Service!Stop(s) \/ Service!Fail(s)
<1>1. ArbiterAction(arbiter) = "WaitActive"
  BY DEF PollWaiting, PollMisdirected, PollPending, PollTerminal, PollFailed, PollStale,
         PollBackend
<1>2. HasActive(arbiter) /\ ~CancelDue(arbiter)
  BY <1>1, ActionMeaning
<1>3. Live(runner, runner.operation) /\ arbiter.active.sequence \in Sequence
  BY <1>2, ActiveIsBound
<1> PICK s \in Sequence : s = arbiter.active.sequence
  BY <1>3
<1>4. ServiceStatus[s] \in {"Running", "Cancelling"}
  BY <1>2, ActiveStatus, ActiveIsBound DEF ActiveCommand
<1>5. runner.lifecycle # "CancelRequested" => ServiceStatus[s] = "Running"
  <2>1. runner.lifecycle # "CancelRequested" => ~arbiter.active.cancelRequested
    BY <1>2 DEF DriverInv, Agreement
  <2>2. ~arbiter.active.cancelRequested => ~arbiter.active.cancelIntent
    BY <1>2 DEF CancelDue
  <2>3. QED
    BY <1>2, <2>1, <2>2, ActiveStatus
<1>6. ASSUME NEW kind \in TerminalEvent, FinishTerminal(Terminate(Polled(ready)), kind)
      PROVE  Service!Becomes(s, kind)
  BY <1>2, <1>6, PolledRunner, AnsweringRefines
<1>7. ASSUME UNCHANGED <<arbiter, outcome>>
      PROVE  UNCHANGED ServiceStatus
  BY <1>7, StatusStutter DEF StatusOf
<1>8. ASSUME NEW shape \in ReportShape, PollTerminal(ready, shape)
      PROVE  Service!Succeed(s) \/ Service!Stop(s)
  <2>1. CASE shape.disposition = "Complete" /\ runner.lifecycle # "CancelRequested"
    <3>1. Service!Becomes(s, "Completed")
      BY <1>3, <1>6, <1>8, <2>1 DEF PollTerminal, TerminalEvent
    <3>2. QED
      BY <1>5, <2>1, <3>1 DEF Service!Succeed
  <2>2. CASE ~(shape.disposition = "Complete" /\ runner.lifecycle # "CancelRequested")
    <3>1. Service!Becomes(s, "Cancelled")
      BY <1>3, <1>6, <1>8, <2>2 DEF PollTerminal, TerminalEvent
    <3>2. QED
      BY <1>4, <3>1 DEF Service!Stop
  <2>3. QED
    BY <2>1, <2>2
<1>9. CASE PollFailed(ready)
  <2>1. Service!Becomes(s, "Failed")
    BY <1>3, <1>6, <1>9 DEF PollFailed, TerminalEvent
  <2>2. QED
    BY <1>4, <2>1 DEF Service!Fail
<1>10. ASSUME \/ PollWaiting(ready)
              \/ PollMisdirected(ready)
              \/ \E shape \in ReportShape : PollPending(ready, shape)
              \/ \E reported \in OperationId : PollStale(ready, reported)
       PROVE  UNCHANGED <<arbiter, outcome>>
  BY <1>3, <1>10 DEF PollWaiting, PollMisdirected, PollPending, PollStale, PollBackend, DriverError
<1>11. QED
  BY <1>7, <1>8, <1>9, <1>10

\* Every step.
LEMMA StepRefines ==
  ASSUME DriverInv, [Next]_vars
  PROVE  [Service!ServiceNext]_ServiceStatus
<1>1. Service!Commands = Sequence
  BY DEF Service!Commands, Sequence
<1>2. CASE Submit
  BY <1>1, <1>2, SubmitRefines DEF Service!ServiceNext
<1>3. ASSUME NEW s \in 1 .. submitted, CancelBySequence(s)
      PROVE  Service!ServiceNext
  BY <1>1, <1>3, CancelBySequenceRefines DEF Service!ServiceNext
<1>4. CASE DriveIdle
  <2>1. ArbiterAction(arbiter) # "Starting"
    BY DEF DriverInv, Agreement, ArbiterAction, CancelDue
  <2>2. UNCHANGED <<arbiter, outcome>>
    BY <1>4 DEF DriveIdle, DriverError
  <2>3. QED
    BY <2>2, StatusStutter DEF StatusOf
<1>5. ASSUME NEW accepted \in BOOLEAN, StartPending(accepted)
      PROVE  Service!ServiceNext
  BY <1>1, <1>5, StartPendingRefines DEF Service!ServiceNext
<1>6. ASSUME NEW accepted \in BOOLEAN, CancelActive(accepted)
      PROVE  [Service!ServiceNext]_ServiceStatus
  BY <1>1, <1>6, CancelActiveRefines DEF Service!ServiceNext
<1>7. ASSUME NEW ready \in ReadySet, DriveOnce(ready)
      PROVE  [Service!ServiceNext]_ServiceStatus
  BY <1>1, <1>4, <1>5, <1>6, <1>7, PollRefines DEF DriveOnce, Service!ServiceNext
<1>8. CASE UNCHANGED vars
  BY <1>8, StatusStutter DEF vars, StatusOf
<1>9. QED
  BY <1>2, <1>3, <1>7, <1>8 DEF Next

\* The driver implements the command service: whatever the backend answers
\* and reports, submit, request_cancel and drive_once start commands in
\* order and one at a time, answer each once, and never answer success after
\* its cancellation was taken on.
THEOREM DriverImplementsService == Spec => ImplementsService
<1>1. Init => Service!ServiceInit
  BY InitRefines
<1>2. DriverInv /\ [Next]_vars => [Service!ServiceNext]_ServiceStatus
  BY StepRefines
<1>3. QED
  BY <1>1, <1>2, DriverInvariant, PTL DEF Spec, ImplementsService, Service!ServiceSpec
=============================================================================
