------------------------------ MODULE WbArbiter ------------------------------
(* The Wishbone arbiter (wishbone/bus.py, class Arbiter): N initiators share   *)
(* one bus.  A step of the specification is one clock cycle.  The initiators   *)
(* perform read-modify-write transactions, either by holding CYC or, where     *)
(* their interface has LOCK, by holding LOCK while CYC drops.  The shared bus  *)
(* ends in a memory that acknowledges like wishbone/sram.py, after any number  *)
(* of wait states.  The features the initiators and the bus have in common     *)
(* make _FeatureShim a set of wires here.                                      *)
EXTENDS Integers

CONSTANTS N,            \* number of initiators, len(self._intrs)
          LockCapable,  \* the initiators whose interface has the LOCK feature
          Values        \* contents of the shared memory word

Initiators == 0 .. N-1

ASSUME NAssumption      == N \in Nat \ {0}
ASSUME LockAssumption   == LockCapable \subseteq Initiators
ASSUME ValuesAssumption == Values # {}

(* What an initiator drives: nothing; a read access; CYC without STB between   *)
(* the read and the write; LOCK without CYC; the write access.                 *)
Phases == {"idle", "read", "hold", "gap", "write"}

VARIABLES grant,     \* the initiator that owns the shared bus
          phase,     \* what each initiator drives in this cycle
          got,       \* the word each initiator read last
          mem,       \* the shared memory word
          dat_r,     \* the memory's read data register
          ack,       \* the memory's acknowledge register
          served,    \* history: whose access the memory performed last
          bypassed   \* history: grants given to others while an initiator waits

vars == <<grant, phase, got, mem, dat_r, ack, served, bypassed>>

-----------------------------------------------------------------------------
(* Combinational signals.                                                      *)

Cyc(i)  == phase[i] \in {"read", "hold", "write"}
Stb(i)  == phase[i] \in {"read", "write"}
Lock(i) == i \in LockCapable /\ phase[i] # "idle"

\* The acknowledge reaches the granted initiator only.
AckTo(i) == ack /\ grant = i

\* Others that request the bus, and how far after g, cyclically, j comes.
Rivals     == {j \in Initiators \ {grant} : Cyc(j)}
Dist(g, j) == IF j > g THEN j - g ELSE j - g + N

-----------------------------------------------------------------------------
(* The arbiter.                                                                *)

LowestFirst(j) == j \in Rivals /\ \A k \in Rivals : j <= k   \* mutant of FirstInLine

\* The successors of grant take precedence over its predecessors, and among
\* either the nearest to the front of the list: the first rival in cyclic order.
FirstInLine(j) == j \in Rivals /\ \A k \in Rivals : Dist(grant, j) <= Dist(grant, k)

IgnoreCyc  == ~Lock(grant)   \* mutants of MayRearbitrate
IgnoreLock == ~Cyc(grant)

MayRearbitrate == ~Cyc(grant) /\ ~Lock(grant)

AdvanceWithoutWrap ==        \* mutant of Arbitrate
  grant' = IF MayRearbitrate /\ Rivals # {} THEN grant + 1 ELSE grant

Arbitrate ==
  \/ MayRearbitrate /\ \E j \in Initiators : FirstInLine(j) /\ grant' = j
  \/ (MayRearbitrate => Rivals = {}) /\ UNCHANGED grant

(* The memory behind the shared bus: an acknowledge lasts one cycle, and an    *)
(* access is performed at the edge that raises it.                             *)
Release == ack /\ ack' = FALSE /\ UNCHANGED <<mem, dat_r, served>>
Wait    == ~ack /\ UNCHANGED <<ack, mem, dat_r, served>>
Access  ==
  /\ ~ack /\ Cyc(grant) /\ Stb(grant)
  /\ ack' = TRUE
  /\ served' = grant
  /\ \/ phase[grant] = "read" /\ dat_r' = mem /\ UNCHANGED mem
     \/ phase[grant] = "write" /\ mem' \in Values /\ UNCHANGED dat_r

(* An initiator may abort an access, but otherwise waits for its acknowledge,  *)
(* and leaves the bus for a cycle after its write.                             *)
InitiatorStep(i) ==
  \/ phase[i] = "idle" /\ phase'[i] \in {"idle", "read"}
  \/ phase[i] = "read" /\ ~AckTo(i) /\ phase'[i] \in {"read", "idle"}
  \/ phase[i] = "read" /\ AckTo(i) /\ phase'[i] \in {"idle", "hold", "write"}
  \/ phase[i] = "read" /\ AckTo(i) /\ i \in LockCapable /\ phase'[i] = "gap"
  \/ phase[i] \in {"hold", "gap"} /\ phase'[i] \in {phase[i], "write"}
  \/ phase[i] = "write" /\ ~AckTo(i) /\ phase'[i] \in {"write", "idle"}
  \/ phase[i] = "write" /\ AckTo(i) /\ phase'[i] = "idle"

Sample == got' = [i \in Initiators |->
                    IF phase[i] = "read" /\ AckTo(i) THEN dat_r ELSE got[i]]

\* i waits when it requests the bus and is not granted.  The count saturates at N.
CountBypass ==
  bypassed' = [i \in Initiators |->
                 IF ~Cyc(i) \/ grant = i THEN 0
                 ELSE IF grant' \in {grant, i} \/ bypassed[i] = N THEN bypassed[i]
                 ELSE bypassed[i] + 1]

Init ==
  /\ grant = 0
  /\ phase = [i \in Initiators |-> "idle"]
  /\ mem \in Values
  /\ dat_r = mem
  /\ got = [i \in Initiators |-> mem]
  /\ ack = FALSE
  /\ served = 0
  /\ bypassed = [i \in Initiators |-> 0]

Clock(Memory) ==
  /\ Memory
  /\ Arbitrate
  /\ phase' \in [Initiators -> Phases]
  /\ \A i \in Initiators : InitiatorStep(i)
  /\ Sample
  /\ CountBypass

Next == Clock(Release) \/ Clock(Wait) \/ Clock(Access)

(* The memory answers eventually, and an initiator between its read and its    *)
(* write goes on to the write.                                                 *)
Proceed(i) == phase[i] \in {"hold", "gap"} /\ Next /\ phase'[i] = "write"

Fairness == /\ WF_vars(Next)
            /\ WF_vars(Clock(Access))
            /\ \A i \in Initiators : WF_vars(Proceed(i))

Spec == Init /\ [][Next]_vars /\ Fairness

-----------------------------------------------------------------------------
(* Every register holds a value of its range, after any sequence of cycles.    *)
TypeOK ==
  /\ grant \in Initiators
  /\ phase \in [Initiators -> Phases]
  /\ got \in [Initiators -> Values]
  /\ mem \in Values
  /\ dat_r \in Values
  /\ ack \in BOOLEAN
  /\ served \in Initiators
  /\ bypassed \in [Initiators -> 0 .. N]

(* The acknowledge of an access, one or more cycles after the initiator put it *)
(* on the bus, reaches that initiator and no other: the grant never moves      *)
(* between an access and its acknowledge, even when the initiator aborts.      *)
AckReachesServed == ack => grant = served

(* Between an initiator's read and its write no other initiator changes the    *)
(* memory, whether it held CYC or only LOCK in between ("do not re-arbitrate   *)
(* even if cyc drops briefly"): no update is lost.                             *)
AtomicUpdate ==
  \A i \in Initiators :
    phase[i] \in {"hold", "gap", "write"} /\ ~AckTo(i) => got[i] = mem

(* Round robin: an initiator that waits sees the bus go to each other          *)
(* initiator at most once, and never back to the one that had it.              *)
BoundedBypass == \A i \in Initiators : bypassed[i] <= IF N = 1 THEN 0 ELSE N - 2

(* An initiator that keeps requesting is acknowledged: no starvation, and no   *)
(* deadlock of the grant with LOCK.                                            *)
Served == \A i \in Initiators : Cyc(i) ~> (AckTo(i) \/ ~Cyc(i))
=============================================================================
