-------------------------- MODULE WbArbiterProofs --------------------------
(* For any number of initiators, any choice of those with LOCK and any memory *)
(* contents: the invariants that the run wb_arbiter checks.                   *)
EXTENDS WbArbiter, TLAPS

USE NAssumption, LockAssumption, ValuesAssumption DEF Initiators

\* Whoever is between its read and its write owns the bus.
OwnerInside ==
  \A i \in Initiators : /\ phase[i] \in {"hold", "gap", "write"} => grant = i
                        /\ phase[i] = "gap" => i \in LockCapable

\* While its acknowledge lasts, a read's data is the memory's.
ReadIsCurrent == ack => /\ phase[grant] \in {"read", "write", "idle"}
                        /\ phase[grant] = "read" => dat_r = mem

\* Each grant given to another brings the bus nearer to an initiator that waits.
Line == \A i \in Initiators :
          Cyc(i) /\ grant # i => bypassed[i] + Dist(grant, i) <= N - 1

IInv == /\ TypeOK
        /\ OwnerInside
        /\ AckReachesServed
        /\ ReadIsCurrent
        /\ AtomicUpdate
        /\ Line
        /\ BoundedBypass

\* The distances around the ring of initiators.
LEMMA DistRange ==
  ASSUME NEW g \in Initiators, NEW j \in Initiators
  PROVE  /\ Dist(g, j) \in 1 .. N
         /\ g # j => Dist(g, j) <= N - 1
  BY DEF Dist

\* Moving from g to j, which is nearer than i, brings i nearer by as much.
LEMMA DistAdvance ==
  ASSUME NEW g \in Initiators, NEW j \in Initiators, NEW i \in Initiators,
         j # i, Dist(g, j) <= Dist(g, i)
  PROVE  Dist(j, i) <= Dist(g, i) - 1
  BY DEF Dist

(* After reset nobody holds the bus and nobody waits: the invariant holds.     *)
THEOREM InitEstablishes == Init => IInv
  <1> SUFFICES ASSUME Init PROVE IInv
    OBVIOUS
  <1>1. TypeOK
    <2>1. grant \in Initiators /\ served \in Initiators /\ bypassed \in [Initiators -> 0 .. N]
      BY DEF Init
    <2>2. phase \in [Initiators -> Phases] /\ got \in [Initiators -> Values]
      BY DEF Init, Phases
    <2>3. mem \in Values /\ dat_r \in Values /\ ack \in BOOLEAN
      BY DEF Init
    <2> QED
      BY <2>1, <2>2, <2>3 DEF TypeOK
  <1>2. OwnerInside /\ AckReachesServed /\ ReadIsCurrent /\ AtomicUpdate
    BY DEF Init, OwnerInside, AckReachesServed, ReadIsCurrent, AtomicUpdate, AckTo
  <1>3. Line /\ BoundedBypass
    BY DEF Init, Line, BoundedBypass, Cyc
  <1> QED
    BY <1>1, <1>2, <1>3 DEF IInv

\* The grant stays where it is while its owner holds CYC or LOCK.
LEMMA GrantHeld ==
  ASSUME TypeOK, Arbitrate, Cyc(grant) \/ Lock(grant)
  PROVE  grant' = grant
  BY DEF Arbitrate, MayRearbitrate

\* A cycle leaves every register in its range.
LEMMA ClockPreservesTypes ==
  ASSUME TypeOK, Clock(Release) \/ Clock(Wait) \/ Clock(Access)
  PROVE  TypeOK'
  <1>1. grant' \in Initiators
    BY DEF TypeOK, Clock, Arbitrate
  <1>2. mem' \in Values /\ dat_r' \in Values /\ ack' \in BOOLEAN /\ served' \in Initiators
    BY DEF TypeOK, Clock, Release, Wait, Access
  <1>3. phase' \in [Initiators -> Phases]
    BY DEF Clock
  <1>4. got' \in [Initiators -> Values]
    BY DEF TypeOK, Clock, Sample
  <1>5. bypassed' \in [Initiators -> 0 .. N]
    BY DEF TypeOK, Clock, CountBypass
  <1> QED
    BY <1>1, <1>2, <1>3, <1>4, <1>5 DEF TypeOK

\* A cycle does not take the bus from an initiator inside its transaction.
LEMMA ClockPreservesOwner ==
  ASSUME IInv, Clock(Release) \/ Clock(Wait) \/ Clock(Access)
  PROVE  OwnerInside'
  <1> SUFFICES ASSUME NEW i \in Initiators
               PROVE  /\ phase'[i] \in {"hold", "gap", "write"} => grant' = i
                      /\ phase'[i] = "gap" => i \in LockCapable
    BY DEF OwnerInside
  <1> USE DEF IInv
  <1>1. InitiatorStep(i) /\ Arbitrate
    BY DEF Clock
  <1>2. CASE phase[i] \in {"hold", "gap", "write"}
    <2>1. grant = i /\ (Cyc(grant) \/ Lock(grant))
      BY <1>2 DEF OwnerInside, Cyc, Lock
    <2>2. grant' = i
      BY <1>1, <2>1, GrantHeld
    <2> QED
      BY <1>1, <1>2, <2>2 DEF InitiatorStep, OwnerInside
  <1>3. CASE phase[i] = "read" /\ AckTo(i)
    <2>1. grant' = i
      BY <1>1, <1>3, GrantHeld DEF Cyc, AckTo
    <2> QED
      BY <1>1, <1>3, <2>1 DEF InitiatorStep
  <1>4. CASE phase[i] = "idle" \/ (phase[i] = "read" /\ ~AckTo(i))
    BY <1>1, <1>4 DEF InitiatorStep
  <1> QED
    BY <1>2, <1>3, <1>4 DEF TypeOK, Phases

\* A cycle keeps acknowledges with their owner, and what an owner read true.
LEMMA ClockPreservesMemory ==
  ASSUME IInv, Clock(Release) \/ Clock(Wait) \/ Clock(Access)
  PROVE  (AckReachesServed /\ ReadIsCurrent /\ AtomicUpdate)'
  <1> USE DEF IInv
  <1>1. Arbitrate /\ (\A i \in Initiators : InitiatorStep(i)) /\ Sample
    BY DEF Clock
  <1>2. OwnerInside' /\ TypeOK'
    BY ClockPreservesOwner, ClockPreservesTypes
  <1>3. CASE Release
    <2>1. ack /\ ~ack' /\ mem' = mem
      BY <1>3 DEF Release
    <2>2. ASSUME NEW i \in Initiators, phase'[i] \in {"hold", "gap", "write"}
          PROVE  got'[i] = mem'
      <3>1. InitiatorStep(i)
        BY <1>1
      <3>2. CASE phase[i] = "read" /\ AckTo(i)
        BY <1>1, <2>1, <3>2 DEF Sample, ReadIsCurrent, AckTo, TypeOK
      <3>3. CASE phase[i] = "write" /\ ~AckTo(i)
        BY <2>1, <3>3 DEF OwnerInside, AckTo
      <3>4. CASE phase[i] \in {"hold", "gap"}
        BY <2>1, <3>4 DEF OwnerInside, ReadIsCurrent
      <3> QED
        BY <2>2, <3>1, <3>2, <3>3, <3>4 DEF InitiatorStep
    <2> QED
      BY <2>1, <2>2 DEF AckReachesServed, ReadIsCurrent, AtomicUpdate
  <1>4. CASE Wait
    <2>1. ~ack /\ ~ack' /\ mem' = mem
      BY <1>4 DEF Wait
    <2>2. ASSUME NEW i \in Initiators, phase'[i] \in {"hold", "gap", "write"}
          PROVE  got'[i] = mem'
      <3>1. phase[i] \in {"hold", "gap", "write"}
        BY <1>1, <2>1, <2>2 DEF InitiatorStep, AckTo
      <3> QED
        BY <1>1, <2>1, <3>1 DEF Sample, AckTo, AtomicUpdate, TypeOK
    <2> QED
      BY <2>1, <2>2 DEF AckReachesServed, ReadIsCurrent, AtomicUpdate
  <1>5. CASE Access
    <2>1. ~ack /\ ack' /\ served' = grant /\ grant' = grant
      BY <1>1, <1>5, GrantHeld DEF Access
    <2>2. /\ phase[grant] = "read" /\ dat_r' = mem /\ mem' = mem
          \/ phase[grant] = "write"
      BY <1>5 DEF Access
    <2>3. phase'[grant] \in {phase[grant], "idle"}
      BY <1>1, <2>1, <2>2 DEF InitiatorStep, AckTo, TypeOK
    <2>4. ReadIsCurrent'
      BY <2>1, <2>2, <2>3 DEF ReadIsCurrent
    <2>5. ASSUME NEW i \in Initiators, phase'[i] \in {"hold", "gap", "write"}
          PROVE  AckTo(i)'
      BY <1>2, <2>1, <2>5 DEF OwnerInside, AckTo
    <2> QED
      BY <2>1, <2>4, <2>5 DEF AckReachesServed, AtomicUpdate
  <1> QED
    BY <1>3, <1>4, <1>5 DEF Clock

\* When the grant moves, whoever waits comes nearer by at least one bypass.
LEMMA ClockPreservesLine ==
  ASSUME IInv, Clock(Release) \/ Clock(Wait) \/ Clock(Access)
  PROVE  (Line /\ BoundedBypass)'
  <1> USE DEF IInv
  <1> SUFFICES ASSUME NEW i \in Initiators
               PROVE  /\ Cyc(i)' /\ grant' # i => bypassed'[i] + Dist(grant', i) <= N - 1
                      /\ bypassed'[i] <= IF N = 1 THEN 0 ELSE N - 2
    BY DEF Line, BoundedBypass
  <1> DEFINE Waits == Cyc(i) /\ grant # i
  <1>1. Arbitrate /\ CountBypass /\ TypeOK'
    BY ClockPreservesTypes DEF Clock
  <1>2. grant \in Initiators /\ grant' \in Initiators /\ bypassed[i] \in 0 .. N
    BY <1>1 DEF TypeOK
  <1>3. grant' # i => Dist(grant', i) \in 1 .. N - 1
    BY <1>2, DistRange
  <1>4. CASE ~Waits
    <2>1. bypassed'[i] = 0
      BY <1>1, <1>4 DEF CountBypass
    <2> QED
      BY <1>3, <2>1
  <1>5. CASE Waits /\ grant' = grant
    <2>1. bypassed'[i] = bypassed[i]
      BY <1>1, <1>5 DEF CountBypass
    <2> QED
      BY <1>5, <2>1 DEF Line, BoundedBypass
  <1>6. CASE Waits /\ grant' # grant
    <2>1. grant' \in Rivals /\ Dist(grant, grant') <= Dist(grant, i)
      BY <1>1, <1>6 DEF Arbitrate, FirstInLine, Rivals
    <2>2. bypassed[i] + Dist(grant, i) <= N - 1
      BY <1>6 DEF Line
    <2>3. Dist(grant, i) \in 1 .. N
      BY <1>2, DistRange
    <2>4. CASE grant' = i
      <3>1. bypassed'[i] = bypassed[i]
        BY <1>1, <1>6, <2>4 DEF CountBypass
      <3> QED
        BY <2>4, <3>1 DEF BoundedBypass
    <2>5. CASE grant' # i
      <3>1. Dist(grant', i) <= Dist(grant, i) - 1 /\ Dist(grant', i) \in 1 .. N - 1
        BY <1>2, <1>3, <2>1, <2>5, DistAdvance
      <3>2. bypassed'[i] \in {bypassed[i], bypassed[i] + 1}
        BY <1>1, <1>6, <2>5 DEF CountBypass
      <3> HIDE DEF Waits
      <3> QED
        BY <1>2, <2>2, <2>3, <2>5, <3>1, <3>2
    <2> QED
      BY <2>4, <2>5
  <1> QED
    BY <1>4, <1>5, <1>6

(* Every cycle of the arbiter, its initiators and the memory keeps the         *)
(* invariant.                                                                  *)
THEOREM StepPreserves == IInv /\ [Next]_vars => IInv'
  <1> SUFFICES ASSUME IInv, [Next]_vars PROVE IInv'
    OBVIOUS
  <1>1. CASE Next
    BY <1>1, ClockPreservesTypes, ClockPreservesOwner, ClockPreservesMemory,
       ClockPreservesLine DEF Next, IInv
  <1>2. CASE UNCHANGED vars
    BY <1>2 DEF vars, IInv, TypeOK, OwnerInside, AckReachesServed, ReadIsCurrent,
                AtomicUpdate, Line, BoundedBypass, Cyc, AckTo
  <1> QED
    BY <1>1, <1>2

(* The invariant holds in every state of every behaviour of the arbiter.       *)
THEOREM Invariance == Spec => []IInv
  BY InitEstablishes, StepPreserves, PTL DEF Spec

(* The registers of the arbiter and the memory keep to their ranges.          *)
THEOREM TypeCorrect == Spec => []TypeOK
  BY Invariance, PTL DEF IInv

(* However many initiators share the bus, an acknowledge goes to the one      *)
(* whose access was performed.                                                *)
THEOREM AcksAreRouted == Spec => []AckReachesServed
  BY Invariance, PTL DEF IInv

(* No initiator's read-modify-write transaction is interrupted by a write of  *)
(* another.                                                                   *)
THEOREM UpdatesAreAtomic == Spec => []AtomicUpdate
  BY Invariance, PTL DEF IInv

(* A waiting initiator is bypassed by each other initiator at most once.      *)
THEOREM BypassIsBounded == Spec => []BoundedBypass
  BY Invariance, PTL DEF IInv
=============================================================================
