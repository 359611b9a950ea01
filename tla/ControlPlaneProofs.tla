-------------------------- MODULE ControlPlaneProofs --------------------------
(***************************************************************************)
(* The lifecycle and the transport of a protocol driver, alone and side by *)
(* side.                                                                   *)
(*                                                                         *)
(* The first invariant of the lifecycle holds however guards and runner    *)
(* are scheduled; the second one when calls are not interleaved.           *)
(*                                                                         *)
(* OnePlace of the transport is inductive once types are known: each field *)
(* of the two sides is updated by the side that just changed the shared    *)
(* state, and OnePlace says for each of the half-finished calls where the  *)
(* command is.                                                             *)
(*                                                                         *)
(* Each step of the plane is a step of either protocol or leaves it alone, *)
(* so the theorems about the two hold of the plane.  The rule of is_active *)
(* then gives more than it asks for: an active phase has its guard in the  *)
(* hands of its owner, and only the newest generation has a phase.         *)
(***************************************************************************)
EXTENDS ControlPlane, TLAPS

-----------------------------------------------------------------------------
(* Lemmas about phases *)

\* The phases are told apart by their fields.
LEMMA PhaseFields ==
  ASSUME NEW p \in Phase
  PROVE  /\ p.id \in LifecycleId \cup {NoId}
         /\ p = Idle \/ (p.id \in LifecycleId /\ p.id # NoId)
         /\ p.kind = "Idle" <=> p = Idle
         /\ p.kind = "Starting" => p = Starting(p.id)
         /\ p.kind = "Active" => p = Active(p.id)
         /\ p.kind = "Cancelling" => p = Cancelling(p.id, p.attached)
         /\ p.kind = "Terminal" => p = Terminal(p.id)
         /\ p.kind \in {"Idle", "Starting", "Active", "Cancelling", "Terminal"}
BY LifecycleAssumption
DEF Phase, Idle, Starting, Active, Cancelling, Terminal, LifecycleId, NoId

\* The fields of each phase.
LEMMA PhaseValues ==
  ASSUME NEW id \in LifecycleId
  PROVE  /\ Idle \in Phase
         /\ Starting(id) \in Phase
         /\ Active(id) \in Phase
         /\ Cancelling(id, TRUE) \in Phase
         /\ Cancelling(id, FALSE) \in Phase
         /\ Terminal(id) \in Phase
         /\ id # NoId
<1>1. id # NoId
  BY LifecycleAssumption DEF LifecycleId, NoId
<1>2. Idle \in Phase
  BY DEF Phase
<1>3. ASSUME NEW p \in {Starting(id), Active(id), Cancelling(id, FALSE),
                       Cancelling(id, TRUE), Terminal(id)}
      PROVE  p \in Phase
  BY <1>3, Zenon DEF Phase
<1>4. QED
  BY <1>1, <1>2, <1>3

LEMMA NextGenerationRange ==
  ASSUME LifecycleTypeOK
  PROVE  NextGeneration \in LifecycleId
<1>1. nextGeneration \in 0 .. MaxGeneration /\ MaxGeneration \in Nat /\ MaxGeneration # 0
  BY LifecycleAssumption DEF LifecycleTypeOK
<1>2. QED
  BY <1>1 DEF NextGeneration, LifecycleId

-----------------------------------------------------------------------------
(* Whatever the schedule *)

LEMMA TypePreserved == LifecycleTypeOK /\ [Next]_vars => LifecycleTypeOK'
<1> SUFFICES ASSUME LifecycleTypeOK, [Next]_vars PROVE LifecycleTypeOK'
  OBVIOUS
<1>1. NextGeneration \in LifecycleId /\ LifecycleId \subseteq 0 .. MaxGeneration
  BY NextGenerationRange DEF LifecycleId
<1>2. ASSUME NEW id \in LifecycleId, NEW place \in GuardPlace, GuardAt(id, place)
      PROVE  guard' \in [LifecycleId -> GuardPlace]
  BY <1>2 DEF GuardAt, LifecycleTypeOK
<1>3. ASSUME phase.kind = "Cancelling", NEW id \in LifecycleId, End(id)
      PROVE  phase' \in Phase /\ finishing' \in LifecycleId \cup {NoId}
  BY <1>3, PhaseValues DEF End, LifecycleTypeOK
<1>4. CASE Begin
  BY <1>1, <1>4, PhaseValues DEF Begin, LifecycleTypeOK
<1>5. CASE AbortStart
  BY <1>1, <1>5, PhaseValues DEF AbortStart, LifecycleTypeOK
<1>6. CASE Activate
  <2>1. nextGeneration \in LifecycleId
    BY <1>6, PhaseFields DEF Activate, LifecycleTypeOK, Starting, Idle
  <2>2. QED
    BY <1>6, <2>1, PhaseValues DEF Activate, LifecycleTypeOK, GuardPlace
<1>7. CASE Adopt
  BY <1>1, <1>7, PhaseValues DEF Adopt, LifecycleTypeOK, GuardPlace
<1>8. CASE TryTakeCancel
  BY <1>8 DEF TryTakeCancel, LifecycleTypeOK
<1>9. CASE Finish
  BY <1>3, <1>9 DEF Finish, LifecycleTypeOK
<1>10. CASE Terminate
  <2>1. phase.kind = "Cancelling" => phase.id \in LifecycleId
    BY PhaseFields DEF LifecycleTypeOK, Idle
  <2>2. Idle \in Phase
    BY DEF Phase
  <2>3. QED
    BY <1>3, <1>10, <2>1, <2>2 DEF Terminate, LifecycleTypeOK
<1>11. CASE SignalTerminal
  BY <1>11 DEF SignalTerminal, LifecycleTypeOK
<1>12. ASSUME NEW id \in LifecycleId, DropGuard(id) \/ Stop(id) PROVE LifecycleTypeOK'
  <2>1. phase' \in Phase /\ guard' \in [LifecycleId -> GuardPlace]
    BY <1>2, <1>12, PhaseValues
    DEF DropGuard, Stop, RequestCancel, LifecycleTypeOK, GuardPlace
  <2>2. QED
    BY <1>12, <2>1 DEF DropGuard, Stop, LifecycleTypeOK, guardless
<1>13. ASSUME NEW id \in LifecycleId, SignalCancellation(id) PROVE LifecycleTypeOK'
  BY <1>2, <1>13 DEF SignalCancellation, LifecycleTypeOK, GuardPlace, guardless
<1>14. ASSUME NEW id \in LifecycleId, TakeTerminal(id) PROVE LifecycleTypeOK'
  BY <1>2, <1>14 DEF TakeTerminal, LifecycleTypeOK, GuardPlace, guardless
<1>15. ASSUME NEW id \in LifecycleId, AcknowledgeTerminal(id) PROVE LifecycleTypeOK'
  BY <1>2, <1>15, PhaseValues
  DEF AcknowledgeTerminal, LifecycleTypeOK, GuardPlace, guardless
<1>16. ASSUME NEW id \in LifecycleId, DropStop(id) PROVE LifecycleTypeOK'
  <2>1. guard' \in [LifecycleId -> GuardPlace]
    BY <1>2, <1>16 DEF DropStop, GuardPlace
  <2>2. phase' \in Phase /\ terminal' \in LifecycleId \cup {NoId}
    BY <1>16, PhaseValues DEF DropStop, LifecycleTypeOK
  <2>3. QED
    BY <1>16, <2>1, <2>2 DEF DropStop, LifecycleTypeOK, guardless
<1>17. CASE UNCHANGED vars
  BY <1>17 DEF vars, LifecycleTypeOK
<1>18. QED
  BY <1>4, <1>5, <1>6, <1>7, <1>8, <1>9, <1>10, <1>11, <1>12, <1>13, <1>14, <1>15, <1>16, <1>17
  DEF Next, RunnerNext, GuardNext

\* Only a runner step makes a generation Starting or Active, and a guard
\* leaves "held" only with a step that also ends its phase.
LEMMA ActiveHasGuardPreserved == LifecycleInv /\ [Next]_vars => ActiveHasGuard'
<1> SUFFICES ASSUME LifecycleTypeOK, ActiveHasGuard, [Next]_vars PROVE ActiveHasGuard'
  BY DEF LifecycleInv
<1>1. NextGeneration \in LifecycleId /\ phase \in Phase /\ guard \in [LifecycleId -> GuardPlace]
  BY NextGenerationRange DEF LifecycleTypeOK
<1>2. ASSUME phase'.kind \notin {"Starting", "Active"} PROVE ActiveHasGuard'
  BY <1>2 DEF ActiveHasGuard
<1>3. ASSUME UNCHANGED <<phase, guard>> PROVE ActiveHasGuard'
  BY <1>3 DEF ActiveHasGuard
<1>4. ASSUME NEW id \in LifecycleId, NEW place, GuardAt(id, place), UNCHANGED phase,
             guard[id] \notin {"none", "held"} \/ phase.id # id
      PROVE  ActiveHasGuard'
  BY <1>1, <1>4 DEF GuardAt, ActiveHasGuard
<1>5. ASSUME NEW id, End(id) PROVE ActiveHasGuard'
  BY <1>2, <1>5 DEF End, Terminal, Idle
<1>6. CASE Begin
  BY <1>1, <1>6 DEF Begin, Forgotten, Starting, ActiveHasGuard
<1>7. CASE AbortStart
  BY <1>2, <1>7 DEF AbortStart, Idle
<1>8. CASE Activate
  <2>1. nextGeneration \in LifecycleId
    BY <1>1, <1>8, PhaseFields DEF Activate, Starting, Idle
  <2>2. QED
    BY <1>1, <1>8, <2>1 DEF Activate, Active, ActiveHasGuard
<1>9. CASE Adopt
  BY <1>1, <1>9 DEF Adopt, Active, ActiveHasGuard
<1>10. CASE TryTakeCancel \/ SignalTerminal
  BY <1>3, <1>10 DEF TryTakeCancel, SignalTerminal
<1>11. CASE Finish
  BY <1>3, <1>5, <1>11 DEF Finish
<1>12. CASE Terminate
  <2>1. CASE phase' = Idle
    BY <1>2, <2>1 DEF Idle
  <2>2. CASE End(phase.id)
    BY <1>5, <2>2
  <2>3. QED
    BY <1>12, <2>1, <2>2 DEF Terminate
<1>13. ASSUME NEW id \in LifecycleId, DropGuard(id) \/ Stop(id) PROVE ActiveHasGuard'
  <2>1. CASE phase.id # id
    BY <1>4, <1>13, <2>1 DEF DropGuard, Stop, RequestCancel
  <2>2. CASE phase.id = id /\ phase.kind \in {"Starting", "Active"}
    BY <1>2, <1>13, <2>2 DEF DropGuard, Stop, RequestCancel, Cancelling
  <2>3. CASE phase.id = id /\ phase.kind \notin {"Starting", "Active"}
    BY <1>2, <1>13, <2>3 DEF DropGuard, Stop, RequestCancel
  <2>4. QED
    BY <2>1, <2>2, <2>3
<1>14. ASSUME NEW id \in LifecycleId, SignalCancellation(id) \/ TakeTerminal(id)
       PROVE  ActiveHasGuard'
  BY <1>4, <1>14 DEF SignalCancellation, TakeTerminal
<1>15. ASSUME NEW id \in LifecycleId, AcknowledgeTerminal(id) PROVE ActiveHasGuard'
  BY <1>2, <1>4, <1>15 DEF AcknowledgeTerminal, Idle
<1>16. ASSUME NEW id \in LifecycleId, DropStop(id) PROVE ActiveHasGuard'
  <2>1. CASE phase' = phase
    BY <1>4, <1>16, <2>1 DEF DropStop
  <2>2. CASE phase' \in {Idle, Cancelling(id, FALSE)}
    BY <1>2, <2>2 DEF Idle, Cancelling
  <2>3. QED
    BY <1>16, <2>1, <2>2 DEF DropStop
<1>17. CASE UNCHANGED vars
  BY <1>3, <1>17 DEF vars
<1>18. QED
  BY <1>6, <1>7, <1>8, <1>9, <1>10, <1>11, <1>12, <1>13, <1>14, <1>15, <1>16, <1>17
  DEF Next, RunnerNext, GuardNext

\* However guards and runner are scheduled, every variable keeps its type and
\* an active lifecycle its guard.
THEOREM LifecycleInvariant == Spec => []LifecycleInv
<1>1. Init => LifecycleInv
  BY LifecycleAssumption
  DEF Init, LifecycleInv, LifecycleTypeOK, ActiveHasGuard, Phase, Idle, GuardPlace
<1>2. LifecycleInv /\ [Next]_vars => LifecycleInv'
  BY TypePreserved, ActiveHasGuardPreserved DEF LifecycleInv
<1>3. QED
  BY <1>1, <1>2, PTL DEF Spec

\* Phase, slots and guards keep their types, generations never reach zero.
THEOREM LifecycleTypeCorrect == Spec => []LifecycleTypeOK
<1>1. LifecycleInv => LifecycleTypeOK
  BY DEF LifecycleInv
<1>2. QED
  BY <1>1, LifecycleInvariant, PTL

\* However guards and runner are scheduled, an active lifecycle has exactly
\* the guard that can stop it, and one that starts has none yet.
THEOREM ActiveLifecycleHasGuard == Spec => []ActiveHasGuard
<1>1. LifecycleInv => ActiveHasGuard
  BY DEF LifecycleInv
<1>2. QED
  BY <1>1, LifecycleInvariant, PTL

-----------------------------------------------------------------------------
(* On one cooperative executor *)

\* Where a guard is tells the phase of its generation.
GuardFits(id) ==
  /\ guard[id] = "held" /\ phase.id = id => phase.kind = "Active"
  /\ guard[id] = "dropping" => phase = Cancelling(id, FALSE)
  /\ guard[id] = "requesting" => phase = Cancelling(id, TRUE)
  /\ guard[id] = "waiting" => phase \in {Cancelling(id, TRUE), Terminal(id)}
  /\ guard[id] = "acknowledging" => phase = Terminal(id) /\ terminal = NoId

\* Nobody is inside a call while the runner is about to signal a terminal.
OneCall ==
  finishing # NoId =>
    /\ phase = Terminal(finishing)
    /\ \A id \in LifecycleId : ~InsideCall(id)

CooperativeInv ==
  /\ LifecycleInv
  /\ \A id \in LifecycleId : GuardFits(id)
  /\ NotStranded
  /\ terminal # NoId => phase = Terminal(terminal)
  /\ CancellationIsKnown
  /\ OneCall

\* Under the invariant the phases of two generations exclude each other.
LEMMA PhaseOwner ==
  ASSUME NEW i \in LifecycleId, NEW j \in LifecycleId, i # j, NEW w, NEW x
  PROVE  /\ Cancelling(i, w) # Cancelling(j, x)
         /\ Cancelling(i, w) # Terminal(j)
         /\ Terminal(i) # Terminal(j)
         /\ Cancelling(i, w) # Terminal(i)
BY DEF Cancelling, Terminal

\* What each conjunct that speaks of one guard needs of a step of another.
LEMMA OtherGuardsFit ==
  ASSUME CooperativeInv, NEW id \in LifecycleId, NEW other \in LifecycleId, other # id,
         guard'[other] = guard[other],
         phase' = phase \/ (phase.id = id /\ phase'.id # other),
         terminal' = terminal \/ terminal' = NoId
  PROVE  GuardFits(other)'
<1>1. GuardFits(other)
  BY DEF CooperativeInv
<1>2. CASE phase' = phase
  BY <1>1, <1>2 DEF GuardFits, Cancelling, Terminal
<1>3. CASE phase.id = id /\ phase'.id # other
  BY <1>1, <1>3 DEF GuardFits, Cancelling, Terminal
<1>4. QED
  BY <1>2, <1>3


\* A step of one guard, and of no other.
LEMMA GuardStep ==
  ASSUME CooperativeInv, NEW id \in LifecycleId, NEW place \in GuardPlace,
         GuardAt(id, place), UNCHANGED guardless,
         phase' = phase \/ (phase.id = id /\ phase' \in {Idle, Cancelling(id, TRUE), Cancelling(id, FALSE)}),
         terminal' = terminal \/ terminal' = NoId,
         GuardFits(id)', LifecycleInv',
         phase'.attached /\ phase'.id = id => place \in {"requesting", "waiting", "acknowledging"},
         terminal' # NoId => phase' = Terminal(terminal'),
         CancellationIsKnown',
         finishing = NoId
  PROVE  CooperativeInv'
<1>1. /\ guard \in [LifecycleId -> GuardPlace]
      /\ guard'[id] = place
      /\ \A j \in LifecycleId : j # id => guard'[j] = guard[j]
  BY DEF CooperativeInv, LifecycleInv, LifecycleTypeOK, GuardAt
<1>2. ASSUME NEW j \in LifecycleId PROVE GuardFits(j)'
  <2>1. CASE j = id
    BY <2>1
  <2>2. CASE j # id
    <3>1. phase' = phase \/ (phase.id = id /\ phase'.id # j)
      <4>1. j # NoId
        BY PhaseValues
      <4>2. Idle.id # j /\ Cancelling(id, TRUE).id # j /\ Cancelling(id, FALSE).id # j
        BY <2>2, <4>1 DEF Idle, Cancelling
      <4>3. QED
        BY <4>2
    <3>2. QED
      BY <1>1, <2>2, <3>1, OtherGuardsFit
  <2>3. QED
    BY <2>1, <2>2
<1>3. NotStranded'
  <2>1. CASE phase'.id = id
    BY <1>1, <2>1 DEF NotStranded
  <2>2. CASE phase'.id # id
    <3>1. phase' = phase \/ phase' = Idle
      BY <2>2 DEF Cancelling
    <3>2. phase'.attached => phase' = phase /\ phase.id \in LifecycleId
      BY <3>1, PhaseFields DEF Idle, CooperativeInv, LifecycleInv, LifecycleTypeOK
    <3>3. QED
      BY <1>1, <2>2, <3>2 DEF NotStranded, CooperativeInv
  <2>3. QED
    BY <2>1, <2>2
<1>4. OneCall'
  BY DEF OneCall, guardless
<1>5. QED
  BY <1>2, <1>3, <1>4 DEF CooperativeInv

LEMMA GuardKeepsInv ==
  ASSUME ~Preemptive, CooperativeInv, LifecycleInv', NEW id \in LifecycleId, GuardNext(id)
  PROVE  CooperativeInv'
<1>1. /\ GuardFits(id) /\ OneCall /\ CancellationIsKnown /\ NotStranded
      /\ phase \in Phase /\ guard \in [LifecycleId -> GuardPlace]
      /\ terminal # NoId => phase = Terminal(terminal)
      /\ id # NoId
  BY PhaseValues DEF CooperativeInv, LifecycleInv, LifecycleTypeOK
<1>2. ASSUME GuardMayCall PROVE finishing = NoId
  BY <1>2 DEF GuardMayCall
<1>3. ASSUME InsideCall(id) PROVE finishing = NoId
  BY <1>1, <1>3 DEF OneCall
<1>4. ASSUME NEW waiter \in BOOLEAN, NEW place \in {"dropping", "requesting"}, NEW known, NEW stale,
             waiter <=> place = "requesting",
             GuardMayCall, guard[id] = "held",
             RequestCancel(id, waiter, place, known, stale), stale = "none",
             UNCHANGED <<cancellation, terminal>>, UNCHANGED guardless
      PROVE  CooperativeInv'
  <2>1. CASE phase.id # id
    <3>1. phase' = phase /\ GuardAt(id, "none")
      BY <1>4, <2>1 DEF RequestCancel
    <3>2. guard'[id] = "none"
      BY <1>1, <3>1 DEF GuardAt
    <3>3. GuardFits(id)'
      BY <3>2 DEF GuardFits
    <3>4. phase.kind = "Cancelling" => phase.id \in LifecycleId
      BY <1>1, PhaseFields DEF Idle
    <3>5. CancellationIsKnown'
      BY <1>1, <1>4, <2>1, <3>1, <3>4 DEF CancellationIsKnown, GuardAt, guardless
    <3>6. QED
      BY <1>1, <1>2, <1>4, <2>1, <3>1, <3>3, <3>5, GuardStep DEF GuardPlace
  <2>2. CASE phase.id = id
    <3>1. phase.kind = "Active"
      BY <1>1, <1>4, <2>2 DEF GuardFits
    <3>2. phase' = Cancelling(id, waiter) /\ GuardAt(id, place)
      BY <1>4, <2>2, <3>1 DEF RequestCancel
    <3>3. guard'[id] = place
      BY <1>1, <3>2 DEF GuardAt
    <3>4. GuardFits(id)'
      BY <1>4, <3>2, <3>3 DEF GuardFits
    <3>5. terminal = NoId
      BY <1>1, <3>1 DEF Terminal
    <3>6. CancellationIsKnown'
      BY <3>2, <3>3 DEF CancellationIsKnown, Cancelling
    <3>7. place \in GuardPlace
      BY DEF GuardPlace
    <3>8. phase'.attached => place = "requesting"
      BY <1>4, <3>2 DEF Cancelling
    <3>9. phase' \in {Cancelling(id, TRUE), Cancelling(id, FALSE)}
      BY <3>2
    <3>10. QED
      BY <1>2, <1>4, <2>2, <3>2, <3>4, <3>5, <3>6, <3>7, <3>8, <3>9, GuardStep
  <2>3. QED
    BY <2>1, <2>2
<1>5. CASE DropGuard(id)
  BY <1>4, <1>5 DEF DropGuard
<1>6. CASE Stop(id)
  BY <1>4, <1>6 DEF Stop
<1>7. CASE SignalCancellation(id)
  <2> DEFINE place == IF guard[id] = "dropping" THEN "none" ELSE "waiting"
  <2>1. GuardAt(id, place) /\ cancellation' = id /\ UNCHANGED <<phase, terminal>>
    BY <1>7 DEF SignalCancellation
  <2>2. place \in GuardPlace /\ guard'[id] = place
    BY <1>1, <2>1 DEF GuardPlace, GuardAt
  <2>3. phase = Cancelling(id, place = "waiting")
    BY <1>1, <1>7 DEF SignalCancellation, GuardFits
  <2>4. GuardFits(id)' /\ CancellationIsKnown'
    BY <2>1, <2>2, <2>3 DEF GuardFits, CancellationIsKnown, Cancelling
  <2>5. phase'.attached => place = "waiting"
    BY <2>1, <2>3 DEF Cancelling
  <2>6. finishing = NoId
    BY <1>3, <1>7 DEF SignalCancellation, InsideCall
  <2>7. UNCHANGED guardless
    BY <1>7 DEF SignalCancellation
  <2> HIDE DEF place
  <2>8. QED
    BY <1>1, <2>1, <2>2, <2>4, <2>5, <2>6, <2>7, GuardStep
<1>8. CASE TakeTerminal(id)
  <2>1. phase = Terminal(id) /\ terminal = id
    BY <1>1, <1>8 DEF TakeTerminal, GuardFits, Terminal, Cancelling
  <2>2. GuardAt(id, "acknowledging") /\ terminal' = NoId /\ phase' = phase
        /\ UNCHANGED guardless /\ finishing = NoId
    BY <1>2, <1>8, <2>1 DEF TakeTerminal
  <2>3. guard'[id] = "acknowledging" /\ "acknowledging" \in GuardPlace
    BY <1>1, <2>2 DEF GuardAt, GuardPlace
  <2>4. GuardFits(id)' /\ CancellationIsKnown'
    BY <2>1, <2>2, <2>3 DEF GuardFits, CancellationIsKnown, Terminal
  <2>5. QED
    BY <2>2, <2>3, <2>4, GuardStep
<1>9. CASE AcknowledgeTerminal(id)
  <2>1. phase = Terminal(id) /\ terminal = NoId /\ finishing = NoId
    BY <1>1, <1>3, <1>9 DEF AcknowledgeTerminal, GuardFits, InsideCall
  <2>2. phase' = Idle /\ GuardAt(id, "none") /\ terminal' = NoId /\ UNCHANGED guardless
    BY <1>9, <2>1 DEF AcknowledgeTerminal
  <2>3. guard'[id] = "none" /\ "none" \in GuardPlace
    BY <1>1, <2>2 DEF GuardAt, GuardPlace
  <2>4. GuardFits(id)' /\ CancellationIsKnown'
    BY <2>2, <2>3 DEF GuardFits, CancellationIsKnown, Idle
  <2>5. phase.id = id /\ phase' = Idle /\ ~phase'.attached
    BY <2>1, <2>2 DEF Terminal, Idle
  <2>6. QED
    BY <2>1, <2>2, <2>3, <2>4, <2>5, GuardStep
<1>10. CASE DropStop(id)
  <2>1. finishing = NoId /\ GuardAt(id, "none") /\ UNCHANGED guardless /\ cancellation' = cancellation
    BY <1>2, <1>10 DEF DropStop
  <2>2. guard'[id] = "none" /\ "none" \in GuardPlace
    BY <1>1, <2>1 DEF GuardAt, GuardPlace
  <2>3. GuardFits(id)'
    BY <2>2 DEF GuardFits
  <2>4. CASE phase = Cancelling(id, TRUE)
    <3>1. phase' = Cancelling(id, FALSE) /\ terminal' = terminal
      <4>1. phase # Terminal(id)
        BY <2>4 DEF Cancelling, Terminal
      <4>2. QED
        BY <1>10, <2>4, <4>1 DEF DropStop
    <3>2. phase.id = id /\ ~phase'.attached /\ terminal = NoId
      BY <1>1, <2>4, <3>1 DEF Cancelling, Terminal
    <3>3. CancellationIsKnown'
      BY <1>1, <1>10, <2>1, <2>4, <3>1 DEF CancellationIsKnown, Cancelling, DropStop, guardless
    <3>4. QED
      BY <2>1, <2>2, <2>3, <3>1, <3>2, <3>3, GuardStep
  <2>5. CASE phase = Terminal(id)
    <3>1. phase' = Idle /\ terminal' = NoId
      BY <1>10, <2>5 DEF DropStop, Terminal, Cancelling
    <3>2. phase.id = id /\ ~phase'.attached
      BY <2>5, <3>1 DEF Terminal, Idle
    <3>3. CancellationIsKnown'
      BY <3>1 DEF CancellationIsKnown, Idle
    <3>4. QED
      BY <2>1, <2>2, <2>3, <3>1, <3>2, <3>3, GuardStep
  <2>6. QED
    BY <1>1, <1>10, <2>4, <2>5 DEF DropStop, GuardFits
<1>11. QED
  BY <1>5, <1>6, <1>7, <1>8, <1>9, <1>10 DEF GuardNext


\* A runner step that gives the phase to a fresh generation.
LEMMA FreshGeneration ==
  ASSUME CooperativeInv, LifecycleInv', NEW id \in LifecycleId,
         phase.kind \in {"Idle", "Starting"},
         phase.kind = "Starting" => phase.id = id,
         phase' \in {Idle, Starting(id), Active(id)},
         guard[id] = "none",
         guard' = [guard EXCEPT ![id] = IF phase' = Active(id) THEN "held" ELSE "none"],
         UNCHANGED <<cancellation, terminal, stopping, finishing>>
  PROVE  CooperativeInv'
<1>1. /\ guard \in [LifecycleId -> GuardPlace] /\ phase \in Phase
      /\ terminal = NoId /\ finishing = NoId
  BY DEF CooperativeInv, LifecycleInv, LifecycleTypeOK, OneCall, Terminal
<1>2. phase'.kind \notin {"Cancelling", "Terminal"} /\ ~phase'.attached
  BY DEF Idle, Starting, Active
<1>3. ASSUME NEW j \in LifecycleId PROVE GuardFits(j)'
  <2>1. GuardFits(j) /\ j # NoId
    BY PhaseValues DEF CooperativeInv
  <2>2. guard[j] \in {"none", "held"}
    BY <1>1, <2>1 DEF GuardFits, GuardPlace, Cancelling, Terminal
  <2>3. CASE j = id
    <3>1. guard'[id] = IF phase' = Active(id) THEN "held" ELSE "none"
      BY <1>1
    <3>2. phase' = Active(id) => phase'.kind = "Active"
      BY DEF Active
    <3>3. guard'[id] \in {"none", "held"} /\ (guard'[id] = "held" => phase' = Active(id))
      BY <3>1
    <3>4. QED
      BY <2>3, <3>2, <3>3 DEF GuardFits
  <2>4. CASE j # id
    <3>1. guard'[j] = guard[j] /\ phase'.id # j
      BY <1>1, <2>1, <2>4 DEF Idle, Starting, Active
    <3>2. QED
      BY <2>2, <3>1 DEF GuardFits
  <2>5. QED
    BY <2>3, <2>4
<1>4. NotStranded' /\ CancellationIsKnown' /\ OneCall'
  BY <1>1, <1>2 DEF NotStranded, CancellationIsKnown, OneCall
<1>5. QED
  BY <1>1, <1>3, <1>4 DEF CooperativeInv

\* A runner step that ends the current generation while no call is under way.
LEMMA EndingKeepsInv ==
  ASSUME CooperativeInv, LifecycleInv', NEW id \in LifecycleId,
         phase.kind \in {"Starting", "Active", "Cancelling"}, phase.id = id,
         \A j \in LifecycleId : ~InsideCall(j),
         finishing = NoId,
         IF phase.attached
         THEN phase' = Terminal(id) /\ finishing' = id
         ELSE phase' = Idle /\ finishing' = finishing,
         UNCHANGED <<cancellation, terminal, guard>>
  PROVE  CooperativeInv'
<1>1. /\ phase \in Phase /\ guard \in [LifecycleId -> GuardPlace] /\ id # NoId
      /\ terminal = NoId
  <2>1. Terminal(terminal).kind = "Terminal"
    BY DEF Terminal
  <2>2. QED
    BY <2>1, PhaseValues DEF CooperativeInv, LifecycleInv, LifecycleTypeOK
<1>2. ASSUME NEW j \in LifecycleId
      PROVE  /\ guard[j] \in {"none", "held", "waiting"}
             /\ guard[j] = "waiting" => j = id /\ phase.attached
  <2>1. GuardFits(j) /\ ~InsideCall(j)
    BY DEF CooperativeInv
  <2>2. QED
    BY <1>1, <2>1 DEF GuardFits, InsideCall, GuardPlace, Cancelling, Terminal
<1>3. CASE phase.attached
  <2>1. phase' = Terminal(id) /\ finishing' = id /\ phase'.id = id
    BY <1>3 DEF Terminal
  <2>2. guard[id] = "waiting"
    BY <1>2, <1>3 DEF CooperativeInv, NotStranded
  <2>3. ASSUME NEW j \in LifecycleId PROVE GuardFits(j)'
    BY <1>2, <2>1, <2>2, <2>3 DEF GuardFits, Terminal
  <2>4. NotStranded' /\ CancellationIsKnown'
    BY <2>1, <2>2 DEF NotStranded, CancellationIsKnown, Terminal
  <2>5. OneCall'
    BY <2>1 DEF OneCall, InsideCall
  <2>6. QED
    BY <1>1, <2>3, <2>4, <2>5 DEF CooperativeInv
<1>4. CASE ~phase.attached
  <2>1. phase' = Idle /\ finishing' = NoId
    BY <1>4
  <2>2. ASSUME NEW j \in LifecycleId PROVE GuardFits(j)'
    <3>1. guard[j] \in {"none", "held"} /\ j # NoId
      BY <1>2, <1>4, PhaseValues
    <3>2. QED
      BY <2>1, <3>1 DEF GuardFits, Idle
  <2>3. NotStranded' /\ CancellationIsKnown' /\ OneCall'
    BY <2>1 DEF NotStranded, CancellationIsKnown, OneCall, Idle
  <2>4. QED
    BY <1>1, <2>2, <2>3 DEF CooperativeInv
<1>5. QED
  BY <1>3, <1>4

LEMMA RunnerKeepsInv ==
  ASSUME ~Preemptive, CooperativeInv, LifecycleInv', RunnerNext
  PROVE  CooperativeInv'
<1>1. /\ phase \in Phase /\ guard \in [LifecycleId -> GuardPlace]
      /\ NextGeneration \in LifecycleId
  BY NextGenerationRange DEF CooperativeInv, LifecycleInv, LifecycleTypeOK
<1>2. ASSUME RunnerMayCall
      PROVE  finishing = NoId /\ \A j \in LifecycleId : ~InsideCall(j)
  BY <1>2 DEF RunnerMayCall
<1>3. ASSUME NEW id \in LifecycleId, guard[id] = "none"
      PROVE  guard = [guard EXCEPT ![id] = "none"]
  BY <1>1, <1>3
<1>4. ASSUME phase.kind = "Starting"
      PROVE  phase.id \in LifecycleId /\ guard[phase.id] = "none"
  BY <1>1, <1>4, PhaseFields DEF Idle, CooperativeInv, LifecycleInv, ActiveHasGuard
<1>5. CASE Begin
  <2>1. guard[NextGeneration] = "none" /\ phase' = Starting(NextGeneration)
    BY <1>5 DEF Begin, Forgotten
  <2>2. phase' # Active(NextGeneration)
    BY <2>1 DEF Starting, Active
  <2>3. QED
    BY <1>1, <1>3, <1>5, <2>1, <2>2, FreshGeneration DEF Begin, Idle
<1>6. CASE AbortStart
  <2>1. phase.kind = "Starting" /\ phase.id = nextGeneration /\ phase' = Idle
    BY <1>6 DEF AbortStart, Starting
  <2>2. phase' # Active(nextGeneration)
    BY <2>1 DEF Idle, Active
  <2>3. QED
    BY <1>3, <1>4, <1>6, <2>1, <2>2, FreshGeneration DEF AbortStart
<1>7. CASE Activate
  <2>1. phase.kind = "Starting" /\ phase.id = nextGeneration
        /\ phase' = Active(nextGeneration)
    BY <1>7 DEF Activate, Starting
  <2>2. QED
    BY <1>4, <1>7, <2>1, FreshGeneration DEF Activate
<1>8. CASE Adopt
  <2>1. guard[NextGeneration] = "none" /\ phase' = Active(NextGeneration)
        /\ phase.kind = "Idle"
    BY <1>8 DEF Adopt, Forgotten, Idle
  <2>2. QED
    BY <1>1, <1>8, <2>1, FreshGeneration DEF Adopt
<1>9. CASE TryTakeCancel
  <2>1. UNCHANGED <<phase, terminal, guard, finishing>>
        /\ stopping' = cancellation /\ stopping = NoId
    BY <1>9 DEF TryTakeCancel
  <2>2. CancellationIsKnown'
    <3>1. phase.kind = "Cancelling" => phase.id # NoId
      BY <1>1, PhaseFields DEF Idle
    <3>2. QED
      BY <2>1, <3>1 DEF CooperativeInv, CancellationIsKnown
  <2>3. QED
    BY <2>1, <2>2 DEF CooperativeInv, GuardFits, NotStranded, OneCall, InsideCall
<1>10. CASE Finish
  <2>1. CASE phase.kind = "Cancelling" /\ phase.id = stopping
    <3>1. stopping \in LifecycleId
      BY <1>10 DEF Finish, CooperativeInv, LifecycleInv, LifecycleTypeOK
    <3>2. QED
      BY <1>2, <1>10, <2>1, <3>1, EndingKeepsInv DEF Finish, End
  <2>2. CASE ~(phase.kind = "Cancelling" /\ phase.id = stopping)
    <3>1. UNCHANGED <<phase, terminal, guard, finishing, cancellation>> /\ stopping' = NoId
      BY <1>10, <2>2 DEF Finish
    <3>2. CancellationIsKnown'
      BY <2>2, <3>1 DEF CooperativeInv, CancellationIsKnown
    <3>3. QED
      BY <3>1, <3>2 DEF CooperativeInv, GuardFits, NotStranded, OneCall, InsideCall
  <2>3. QED
    BY <2>1, <2>2
<1>11. CASE Terminate
  <2>1. phase.kind \in {"Starting", "Active"} => ~phase.attached
    BY <1>1, PhaseFields DEF Starting, Active
  <2>2. phase.id \in LifecycleId
    BY <1>1, <1>11, PhaseFields DEF Terminate, Idle
  <2>3. QED
    BY <1>2, <1>11, <2>1, <2>2, EndingKeepsInv DEF Terminate, End
<1>12. CASE SignalTerminal
  <2>1. /\ UNCHANGED <<phase, cancellation, guard, stopping>>
        /\ terminal' = finishing /\ finishing' = NoId /\ finishing # NoId
    BY <1>12 DEF SignalTerminal
  <2>2. phase = Terminal(finishing) /\ \A j \in LifecycleId : ~InsideCall(j)
    BY <2>1 DEF CooperativeInv, OneCall
  <2>3. \A j \in LifecycleId : GuardFits(j)'
    BY <2>1, <2>2 DEF CooperativeInv, GuardFits, InsideCall
  <2>4. QED
    BY <2>1, <2>2, <2>3
    DEF CooperativeInv, NotStranded, CancellationIsKnown, OneCall, Terminal
<1>13. QED
  BY <1>5, <1>6, <1>7, <1>8, <1>9, <1>10, <1>11, <1>12 DEF RunnerNext

LEMMA CooperativeInvariant ==
  ASSUME ~Preemptive PROVE Spec => []CooperativeInv
<1>1. Init => CooperativeInv
  <2> SUFFICES ASSUME Init PROVE CooperativeInv
    OBVIOUS
  <2>1. LifecycleInv
    BY LifecycleAssumption
    DEF Init, LifecycleInv, LifecycleTypeOK, ActiveHasGuard, Phase, Idle, GuardPlace
  <2>2. \A id \in LifecycleId : GuardFits(id)
    BY DEF Init, GuardFits
  <2>3. NotStranded /\ CancellationIsKnown /\ OneCall /\ terminal = NoId
    BY DEF Init, NotStranded, CancellationIsKnown, OneCall, Idle
  <2>4. QED
    BY <2>1, <2>2, <2>3 DEF CooperativeInv
<1>2. CooperativeInv /\ [Next]_vars => CooperativeInv'
  <2> SUFFICES ASSUME CooperativeInv, [Next]_vars PROVE CooperativeInv'
    OBVIOUS
  <2>1. LifecycleInv'
    BY TypePreserved, ActiveHasGuardPreserved DEF CooperativeInv, LifecycleInv
  <2>2. CASE UNCHANGED vars
    BY <2>1, <2>2
    DEF vars, CooperativeInv, GuardFits, NotStranded, CancellationIsKnown, OneCall, InsideCall
  <2>3. QED
    BY <2>1, <2>2, RunnerKeepsInv, GuardKeepsInv DEF Next
<1>3. QED
  BY <1>1, <1>2, PTL DEF Spec

\* On one cooperative executor dropping a guard, stopping one and dropping
\* the stop never strand the lifecycle.
THEOREM CooperativeNotStranded ==
  ASSUME ~Preemptive PROVE Spec => []NotStranded
<1>1. CooperativeInv => NotStranded
  BY DEF CooperativeInv
<1>2. QED
  BY <1>1, CooperativeInvariant, PTL

\* On one cooperative executor a stop is answered by its own generation only.
THEOREM CooperativeTerminalIsCurrent ==
  ASSUME ~Preemptive PROVE Spec => []TerminalIsCurrent
<1>1. CooperativeInv => TerminalIsCurrent
  BY DEF CooperativeInv, TerminalIsCurrent, GuardFits
<1>2. QED
  BY <1>1, CooperativeInvariant, PTL

\* On one cooperative executor no cancellation is overwritten or lost.
THEOREM CooperativeCancellationIsKnown ==
  ASSUME ~Preemptive PROVE Spec => []CancellationIsKnown
<1>1. CooperativeInv => CancellationIsKnown
  BY DEF CooperativeInv
<1>2. QED
  BY <1>1, CooperativeInvariant, PTL

-----------------------------------------------------------------------------
(* The transport *)

\* An allocated id is a ControlId: the counter never yields zero.
LEMMA AllocatedIsId ==
  ASSUME nextId \in 0 .. MaxId
  PROVE  AllocateId \in ControlId
BY TransportAssumption DEF TransportAssumption, AllocateId, ControlId

\* Every reachable state of the transport is well typed and keeps the command
\* under way in one place.
THEOREM TransportIsConsistent == TransportSpec => []TransportInvariant
<1>1. TransportInit => TransportInvariant
  <2> SUFFICES ASSUME TransportInit PROVE TransportInvariant
    OBVIOUS
  <2>1. TransportTypeOK
    <3>1. {command, completion, outstanding, submitting, active} \subseteq ControlId \cup {NoControl}
      BY DEF TransportInit
    <3>2. nextId \in 0 .. MaxId
      BY TransportAssumption DEF TransportAssumption, TransportInit
    <3>3. completing \in BOOLEAN
      BY DEF TransportInit
    <3> QED
      BY <3>1, <3>2, <3>3 DEF TransportTypeOK
  <2>2. OnePlace
    BY DEF TransportInit, OnePlace, Expected, NoControl
  <2> QED
    BY <2>1, <2>2 DEF TransportInvariant
<1>2. TransportInvariant /\ [TransportNext]_transportVars => TransportInvariant'
  <2> SUFFICES ASSUME TransportInvariant, [TransportNext]_transportVars
               PROVE  TransportInvariant'
    OBVIOUS
  <2> USE DEF TransportInvariant, TransportTypeOK, OnePlace, Expected, Unanswered, NoControl
  <2>1. CASE TrySubmit
    <3>1. AllocateId \in ControlId
      BY AllocatedIsId
    <3>2. TransportTypeOK'
      BY <2>1, <3>1, TransportAssumption DEF TransportAssumption, TrySubmit, ControlId
    <3>3. OnePlace'
      BY <2>1, <3>1, TransportAssumption DEF TransportAssumption, TrySubmit, ControlId
    <3> QED BY <3>2, <3>3
  <2>2. CASE RecordOutstanding
    BY <2>2 DEF RecordOutstanding
  <2>3. CASE TryTakeCompletion
    BY <2>3 DEF TryTakeCompletion
  <2>4. CASE TryTakeCommand
    BY <2>4 DEF TryTakeCommand
  <2>5. ASSUME NEW id \in ControlId, Complete(id)
        PROVE  TransportInvariant'
    BY <2>5 DEF Complete
  <2>6. CASE ReleaseActive
    BY <2>6 DEF ReleaseActive
  <2>7. CASE UNCHANGED transportVars
    BY <2>7 DEF transportVars
  <2> QED
    BY <2>1, <2>2, <2>3, <2>4, <2>5, <2>6, <2>7 DEF TransportNext
<1> QED
  BY <1>1, <1>2, PTL DEF TransportSpec

\* The fields hold ids of the range the code allows.
THEOREM TransportTypeCorrect == TransportSpec => []TransportTypeOK
<1>1. TransportInvariant => TransportTypeOK
  BY DEF TransportInvariant
<1> QED
  BY <1>1, TransportIsConsistent, PTL

\* A command under way is in the channel, with the runner or in the slot, in
\* exactly one of them: try_submit is never refused for want of room, and no
\* completion overwrites another.
THEOREM CommandHasOnePlace == TransportSpec => []OnePlace
<1>1. TransportInvariant => OnePlace
  BY DEF TransportInvariant
<1> QED
  BY <1>1, TransportIsConsistent, PTL

\* try_take_completion never returns StaleControlCompletion.
THEOREM CompletionsAreCurrent == TransportSpec => []NoStaleCompletion
<1>1. TransportInvariant => NoStaleCompletion
  BY DEF TransportInvariant, OnePlace, NoStaleCompletion, Unanswered
<1> QED
  BY <1>1, TransportIsConsistent, PTL

-----------------------------------------------------------------------------
(* The control plane *)

\* The plane runs both protocols and nothing else of them.
THEOREM PlaneKeepsProtocols == PlaneSpec => Spec /\ TransportSpec
<1>1. PlaneInit => Init /\ TransportInit
  BY DEF PlaneInit
<1>2. [PlaneNext]_planeVars => [Next]_vars
  BY DEF planeVars, PlaneNext, SubmitFor, Touch, Answer, TransportStep, LifecycleStep
<1>3. [PlaneNext]_planeVars => [TransportNext]_transportVars
  BY DEF planeVars, PlaneNext, SubmitFor, Touch, Answer, TransportStep, LifecycleStep, TransportNext
<1>4. QED
  BY <1>1, <1>2, <1>3, PTL DEF PlaneSpec, Spec, TransportSpec

LEMMA PlaneTypes == PlaneSpec => []PlaneTypeOK
<1>1. PlaneInit => PlaneTypeOK
  BY DEF PlaneInit, PlaneTypeOK
<1>2. PlaneTypeOK /\ [PlaneNext]_planeVars => PlaneTypeOK'
  BY DEF PlaneTypeOK, planeVars, PlaneNext, SubmitFor, Touch, Answer, TransportStep, LifecycleStep
<1>3. QED
  BY <1>1, <1>2, PTL DEF PlaneSpec

\* Types, the guard of an active resource and the one place of a command, for
\* every number of generations and ids, cooperative or preemptive.
THEOREM PlaneIsConsistent == PlaneSpec => []PlaneInvariant
<1>1. PlaneTypeOK /\ LifecycleInv /\ TransportInvariant => PlaneInvariant
  BY DEF PlaneInvariant
<1>2. QED
  BY <1>1, PlaneTypes, PlaneKeepsProtocols, LifecycleInvariant, TransportIsConsistent, PTL

\* On a cooperative executor the plane strands no phase.
THEOREM PlaneNotStranded ==
  ASSUME ~Preemptive PROVE PlaneSpec => []NotStranded
BY PlaneKeepsProtocols, CooperativeNotStranded, PTL

\* On a cooperative executor both signals carry what their taker can use.
THEOREM PlaneSignalsAreCurrent ==
  ASSUME ~Preemptive PROVE PlaneSpec => []SignalsAreCurrent
<1>1. TerminalIsCurrent /\ CancellationIsKnown => SignalsAreCurrent
  BY DEF SignalsAreCurrent
<1>2. QED
  BY <1>1, PlaneKeepsProtocols, CooperativeTerminalIsCurrent, CooperativeCancellationIsKnown, PTL

\* Only the newest generation has a phase.
NewestHasPhase == phase # Idle => phase.id = nextGeneration

LEMMA NewestHasPhaseHolds == Spec => []NewestHasPhase
<1>1. Init => NewestHasPhase
  BY DEF Init, NewestHasPhase
<1>2. LifecycleInv /\ NewestHasPhase /\ [Next]_vars => NewestHasPhase'
  <2> SUFFICES ASSUME LifecycleInv, NewestHasPhase, [Next]_vars PROVE NewestHasPhase'
    OBVIOUS
  <2>1. phase \in Phase
    BY DEF LifecycleInv, LifecycleTypeOK
  <2>2. CASE Begin \/ Adopt
    BY <2>2 DEF Begin, Adopt, NewestHasPhase, Starting, Active
  <2>3. ASSUME UNCHANGED nextGeneration, phase' = Idle \/ phase' = phase \/ phase'.id = phase.id,
               phase = Idle => phase' = Idle
        PROVE  NewestHasPhase'
    BY <2>3 DEF NewestHasPhase
  <2>4. CASE AbortStart \/ TryTakeCancel \/ SignalTerminal
    BY <2>3, <2>4 DEF AbortStart, TryTakeCancel, SignalTerminal
  <2>5. CASE Activate
    BY <2>3, <2>5 DEF Activate, Starting, Active, Idle
  <2>6. CASE Finish
    BY <2>3, <2>6 DEF Finish, End, Terminal, Idle
  <2>7. CASE Terminate
    BY <2>3, <2>7 DEF Terminate, End, Terminal, Idle
  <2>8. ASSUME NEW id \in LifecycleId, GuardNext(id)
        PROVE  NewestHasPhase'
    <3>1. UNCHANGED nextGeneration
      BY <2>8 DEF GuardNext, DropGuard, Stop, SignalCancellation, TakeTerminal,
                  AcknowledgeTerminal, DropStop, guardless
    <3>2. CASE DropGuard(id) \/ Stop(id)
      BY <2>3, <3>1, <3>2 DEF DropGuard, Stop, RequestCancel, Cancelling, Idle
    <3>3. CASE SignalCancellation(id) \/ TakeTerminal(id) \/ AcknowledgeTerminal(id)
      BY <2>3, <3>1, <3>3 DEF SignalCancellation, TakeTerminal, AcknowledgeTerminal
    <3>4. CASE DropStop(id)
      <4>1. CASE phase = Cancelling(id, TRUE)
        <5>1. phase' = Cancelling(id, FALSE)
          BY <3>4, <4>1 DEF DropStop, Cancelling, Terminal
        <5>2. QED
          BY <2>3, <3>1, <4>1, <5>1 DEF Cancelling, Idle
      <4>2. CASE phase = Terminal(id)
        <5>1. phase' = Idle
          BY <3>4, <4>2 DEF DropStop, Cancelling, Terminal
        <5>2. QED
          BY <2>3, <3>1, <5>1
      <4>3. CASE phase # Cancelling(id, TRUE) /\ phase # Terminal(id)
        <5>1. phase' = phase
          BY <3>4, <4>3 DEF DropStop
        <5>2. QED
          BY <2>3, <3>1, <5>1
      <4>4. QED
        BY <4>1, <4>2, <4>3
    <3>5. QED
      BY <2>8, <3>2, <3>3, <3>4 DEF GuardNext
  <2>9. CASE UNCHANGED vars
    BY <2>9 DEF vars, NewestHasPhase
  <2>10. QED
    BY <2>2, <2>4, <2>5, <2>6, <2>7, <2>8, <2>9 DEF Next, RunnerNext
<1>3. QED
  BY <1>1, <1>2, LifecycleInvariant, PTL DEF Spec

\* However long a command was queued, and whoever may run between its steps,
\* it acts only on the newest generation while the owner holds its guard.
THEOREM CommandsActOnHeldResource == PlaneSpec => ActsOnHeldResource
<1>1. LifecycleInv /\ NewestHasPhase /\ [PlaneNext]_planeVars
        => [~touched /\ touched' => guard[target] = "held" /\ target = nextGeneration]_planeVars
  <2> SUFFICES ASSUME LifecycleInv, NewestHasPhase, PlaneNext, ~touched, touched'
               PROVE  guard[target] = "held" /\ target = nextGeneration
    OBVIOUS
  <2>1. phase = Active(target)
    BY DEF PlaneNext, SubmitFor, Touch, IsActive, Answer, TransportStep, LifecycleStep
  <2>2. phase.kind = "Active" /\ phase.id = target /\ phase # Idle
    BY <2>1 DEF Active, Idle
  <2>3. QED
    BY <2>2 DEF LifecycleInv, ActiveHasGuard, NewestHasPhase
<1>2. QED
  BY <1>1, PlaneKeepsProtocols, LifecycleInvariant, NewestHasPhaseHolds, PTL
  DEF PlaneSpec, ActsOnHeldResource
=============================================================================
