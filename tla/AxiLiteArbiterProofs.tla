------------------------ MODULE AxiLiteArbiterProofs ------------------------
(* For any number of masters, on AXI4-Lite and on AXI4: what the run           *)
(* axi_arbiter checks of the arbiter's locks and of its round robin.           *)
EXTENDS AxiLiteArbiter, TLAPS, WellFoundedInduction

Typed == /\ full \in BOOLEAN
         /\ grant \in Masters
         /\ locked \in [Channels -> BOOLEAN]
         /\ slave \in [Channels -> {"free", "data", "busy", "response"}]
         /\ slave["read"] # "data"
         /\ bypassed \in [Masters -> 0 .. N]

\* Each grant given to another brings the slave nearer to a master that waits.
Line == \A i \in Masters :
          Requests(i) /\ grant # i => bypassed[i] + Dist(grant, i) <= N - 1

IInv == Typed /\ LockTracksSlave /\ Line /\ BoundedBypass

-----------------------------------------------------------------------------
\* The distances around the ring of masters.
LEMMA DistRange ==
  ASSUME NEW g \in Masters, NEW j \in Masters
  PROVE  /\ Dist(g, j) \in 1 .. N
         /\ g # j => Dist(g, j) <= N - 1
  BY NAssumption DEF Dist, Masters

\* Moving from g to j, which is nearer than i, brings i nearer by as much.
LEMMA DistAdvance ==
  ASSUME NEW g \in Masters, NEW j \in Masters, NEW i \in Masters,
         j # i, Dist(g, j) <= Dist(g, i)
  PROVE  Dist(j, i) <= Dist(g, i) - 1
  BY NAssumption DEF Dist, Masters

\* There is a first in line: of any masters but the granted one, the nearest.
LEMMA FirstExists ==
  ASSUME NEW g \in Masters, NEW S \in SUBSET Masters, S \ {g} # {}
  PROVE  /\ FirstInLine(g, S) \in S \ {g}
         /\ \A k \in S \ {g} : Dist(g, FirstInLine(g, S)) <= Dist(g, k)
  <1> DEFINE Distances == {Dist(g, k) : k \in S \ {g}}
             Before    == OpToRel(<, Nat)
  <1>1. Distances \subseteq Nat /\ Distances # {}
    BY DistRange, NAssumption
  <1>2. PICK d \in Distances : \A e \in Distances : ~(<<e, d>> \in Before)
    <2>1. IsWellFoundedOn(Before, Nat)
      BY NatLessThanWellFounded
    <2> HIDE DEF Distances, Before
    <2> QED
      BY <1>1, <2>1, WFMin
  <1>3. \A e \in Distances : d <= e
    <2>1. \A e \in Nat : e < d => <<e, d>> \in Before
      BY <1>1 DEF OpToRel
    <2>2. SUFFICES ASSUME NEW e \in Distances PROVE ~(e < d)
      BY <1>1
    <2> QED
      BY <1>1, <1>2, <2>1
  <1>4. PICK j \in S \ {g} : d = Dist(g, j)
    BY <1>2
  <1>5. \A k \in S \ {g} : Dist(g, j) <= Dist(g, k)
    BY <1>3, <1>4
  <1> HIDE DEF Distances
  <1> QED
    BY <1>5 DEF FirstInLine

\* The grant goes nowhere or to the first in line.
LEMMA GrantMoves ==
  ASSUME Typed, Arbitrate
  PROVE  /\ grant' \in Masters
         /\ grant' # grant =>
              /\ ~AnyLocked
              /\ Requests(grant')
              /\ \A k \in Masters : Requests(k) /\ k # grant => Dist(grant, grant') <= Dist(grant, k)
  <1>1. Requesting \in SUBSET Masters
    BY DEF Requesting
  <1>2. CASE Locked(locked) \/ Requesting \ {grant} = {}
    BY <1>2 DEF Arbitrate, NextGrant, Typed
  <1>3. CASE ~(Locked(locked) \/ Requesting \ {grant} = {})
    <2>1. grant' = FirstInLine(grant, Requesting)
      BY <1>3 DEF Arbitrate, NextGrant
    <2>2. /\ grant' \in Requesting \ {grant}
          /\ \A k \in Requesting \ {grant} : Dist(grant, grant') <= Dist(grant, k)
      BY <1>1, <1>3, <2>1, FirstExists DEF Typed
    <2> QED
      BY <1>3, <2>2 DEF Requesting, AnyLocked
  <1> QED
    BY <1>2, <1>3

-----------------------------------------------------------------------------
(* After reset the slave is free, no lock is held and nobody waits.            *)
THEOREM InitEstablishes == Init => IInv
  <1> SUFFICES ASSUME Init PROVE IInv
    OBVIOUS
  <1>1. Typed
    BY NAssumption, KindsAssumption DEF Init, Typed, Masters, Channels
  <1>2. LockTracksSlave
    BY DEF Init, LockTracksSlave, Channels
  <1>3. Line /\ BoundedBypass
    BY NAssumption DEF Init, Line, BoundedBypass, Requests, Masters
  <1> QED
    BY <1>1, <1>2, <1>3 DEF IInv

\* What a cycle does, without the choices of masters and slave that do not matter.
Cycle == /\ full' = full /\ Arbitrate /\ CountBypass
         /\ \E ending \in BOOLEAN, answering \in SUBSET Channels :
              Lock(ending) /\ SlaveStep(ending, answering)

LEMMA NextIsCycle == ASSUME Next PROVE Cycle
  BY DEF Next, Cycle

\* A cycle leaves every register in its range.
LEMMA CyclePreservesTypes ==
  ASSUME Typed, Cycle
  PROVE  Typed'
  <1>1. grant' \in Masters
    BY GrantMoves DEF Cycle
  <1>2. PICK ending \in BOOLEAN, answering \in SUBSET Channels :
          Lock(ending) /\ SlaveStep(ending, answering)
    BY DEF Cycle
  <1>3. locked' \in [Channels -> BOOLEAN]
    <2>1. \A a, b, c : FullLock(a, b, c) \in BOOLEAN /\ LiteLock(a, b, c) \in BOOLEAN
      BY Zenon DEF FullLock, LiteLock
    <2> QED
      BY <1>2, <2>1 DEF Typed, Lock, Channels
  <1>4. /\ slave' \in [Channels -> {"free", "data", "busy", "response"}]
        /\ slave'["read"] # "data"
    BY <1>2 DEF Typed, SlaveStep, NextSlave, Channels
  <1>5. bypassed' \in [Masters -> 0 .. N]
    BY NAssumption DEF Typed, Cycle, CountBypass
  <1> QED
    BY <1>1, <1>3, <1>4, <1>5 DEF Typed, Cycle

\* A lock is taken and released in the cycles in which the slave is.
LEMMA CyclePreservesLocks ==
  ASSUME Typed, LockTracksSlave, Cycle
  PROVE  LockTracksSlave'
  <1>1. PICK ending \in BOOLEAN, answering \in SUBSET Channels :
          Lock(ending) /\ SlaveStep(ending, answering)
    BY DEF Cycle
  <1>2. locked'["read"] <=> slave'["read"] # "free"
    BY <1>1 DEF Typed, LockTracksSlave, Lock, SlaveStep, NextSlave, Channels, FullLock, LiteLock,
                AddressShake, ResponseShake
  <1>3. CASE full
    BY <1>1, <1>2, <1>3 DEF Typed, LockTracksSlave, Lock, SlaveStep, NextSlave, Channels, FullLock,
                            AddressShake, LastShake, Cycle
  <1>4. CASE ~full
    BY <1>1, <1>2, <1>4 DEF Typed, LockTracksSlave, Lock, SlaveStep, NextSlave, Channels, LiteLock,
                            AddressShake, LastShake, ResponseShake, Cycle
  <1> QED
    BY <1>3, <1>4

\* When the grant moves, a master that waits comes nearer by at least one bypass.
LEMMA CyclePreservesLine ==
  ASSUME IInv, Cycle
  PROVE  (Line /\ BoundedBypass)'
  <1> USE DEF IInv
  <1> SUFFICES ASSUME NEW i \in Masters
               PROVE  /\ Requests(i)' /\ grant' # i => bypassed'[i] + Dist(grant', i) <= N - 1
                      /\ bypassed'[i] <= IF N = 1 THEN 0 ELSE N - 2
    BY DEF Line, BoundedBypass
  <1> DEFINE Waits == Requests(i) /\ grant # i
  <1>1. Arbitrate /\ CountBypass /\ Typed'
    BY CyclePreservesTypes DEF Cycle
  <1>2. grant \in Masters /\ grant' \in Masters /\ bypassed[i] \in 0 .. N
    BY <1>1 DEF Typed
  <1>3. grant' # i => Dist(grant', i) \in 1 .. N - 1
    BY <1>2, DistRange, NAssumption
  <1>4. CASE ~Waits
    <2>1. bypassed'[i] = 0
      BY <1>1, <1>4 DEF CountBypass
    <2> QED
      BY <1>3, <2>1, NAssumption
  <1>5. CASE Waits /\ grant' = grant
    <2>1. bypassed'[i] = bypassed[i]
      BY <1>1, <1>5 DEF CountBypass
    <2> QED
      BY <1>5, <2>1 DEF Line, BoundedBypass
  <1>6. CASE Waits /\ grant' # grant
    <2>1. Dist(grant, grant') <= Dist(grant, i)
      BY <1>1, <1>6, GrantMoves
    <2>2. bypassed[i] + Dist(grant, i) <= N - 1
      BY <1>6 DEF Line
    <2>3. Dist(grant, i) \in 1 .. N
      BY <1>2, DistRange
    <2>4. CASE grant' = i
      <3>1. bypassed'[i] = bypassed[i]
        BY <1>1, <1>6, <2>4 DEF CountBypass
      <3> QED
        BY <2>4, <3>1 DEF BoundedBypass
    <2>5. CASE grant' # i
      <3>1. Dist(grant', i) <= Dist(grant, i) - 1 /\ Dist(grant', i) \in 1 .. N - 1
        BY <1>2, <1>3, <2>1, <2>5, DistAdvance
      <3>2. bypassed'[i] \in {bypassed[i], bypassed[i] + 1}
        BY <1>1, <1>6, <2>5 DEF CountBypass
      <3> HIDE DEF Waits
      <3> QED
        BY <1>2, <2>2, <2>3, <2>5, <3>1, <3>2, NAssumption
    <2> QED
      BY <2>4, <2>5
  <1> QED
    BY <1>4, <1>5, <1>6

(* Every cycle of the arbiter, its masters and the slave keeps the invariant.  *)
THEOREM StepPreserves == IInv /\ [Next]_vars => IInv'
  <1> SUFFICES ASSUME IInv, [Next]_vars PROVE IInv'
    OBVIOUS
  <1>1. CASE Next
    BY <1>1, NextIsCycle, CyclePreservesTypes, CyclePreservesLocks, CyclePreservesLine DEF IInv
  <1>2. CASE UNCHANGED vars
    BY <1>2 DEF vars, IInv, Typed, LockTracksSlave, Line, BoundedBypass, Requests
  <1> QED
    BY <1>1, <1>2

(* The invariant holds in every state of every behaviour of the arbiter.       *)
THEOREM Invariance == Spec => []IInv
  BY InitEstablishes, StepPreserves, PTL DEF Spec

(* The read locks, and AXI4-Lite's write lock, are held exactly while the      *)
(* slave has a transaction; AXI4's write lock exactly while the slave awaits   *)
(* write data, and so no longer while it has yet to respond to the write.      *)
THEOREM LocksTrack == Spec => []LockTracksSlave
  BY Invariance, PTL DEF IInv

(* However many masters share the slave, one that waits is bypassed by each    *)
(* other master at most once.                                                  *)
THEOREM BypassIsBounded == Spec => []BoundedBypass
  BY Invariance, PTL DEF IInv

\* The slave is in a transaction that a lock is for: not in the cycle of its
\* address handshake, nor when it owes only the response to an AXI4 write.
Engaged == \/ slave["read"] # "free"
           \/ ~full /\ slave["write"] # "free"
           \/ full /\ slave["write"] = "data"

\* The grant stays, or goes to the nearest of the masters that request.
ToNearest ==
  grant' # grant =>
    /\ Requests(grant')
    /\ \A k \in Masters : Requests(k) /\ k # grant => Dist(grant, grant') <= Dist(grant, k)

(* The grant rests while the slave is engaged, and in any other cycle it stays *)
(* or goes to the nearest other master that requests, whether or not the one   *)
(* that has it requests, and even in the cycle of that one's own handshake     *)
(* (run axi_arbiter_route).                                                    *)
THEOREM GrantRestsOrMovesOn == Spec => [][ToNearest /\ (Engaged => UNCHANGED grant)]_vars
  <1> DEFINE Moves == ToNearest /\ (Engaged => UNCHANGED grant)
  <1>1. IInv /\ [Next]_vars => [Moves]_vars
    <2> SUFFICES ASSUME IInv, Next PROVE Moves
      OBVIOUS
    <2>1. Typed /\ Arbitrate
      BY NextIsCycle DEF IInv, Cycle
    <2>2. ToNearest
      BY <2>1, GrantMoves DEF ToNearest
    <2>3. Engaged => AnyLocked
      BY DEF IInv, LockTracksSlave, Engaged, AnyLocked, Locked
    <2>4. Engaged => UNCHANGED grant
      BY <2>1, <2>3, GrantMoves
    <2> QED
      BY <2>2, <2>4
  <1> QED
    BY <1>1, Invariance, PTL DEF Spec
=============================================================================
