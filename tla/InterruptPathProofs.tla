------------------------- MODULE InterruptPathProofs -------------------------
(* What an event and an edge can rely on, for every set of events of the       *)
(* monitor, every period of the timer and every controller.                    *)
EXTENDS InterruptPath, TLAPS

-----------------------------------------------------------------------------
(* No event is lost.                                                           *)

\* A cycle clears only what the processor has seen.
LEMMA ClearsWhatIsSeen ==
  ASSUME Next
  PROVE  /\ Observe
         /\ \E clear \in SUBSET Seen : pending' = (pending \ clear) \union Device!Happened
<1> DEFINE Claim == \E clear \in SUBSET Seen :
                      pending' = (pending \ clear) \union Device!Happened
<1>0. Device!Latch({}) => Claim
  BY DEF Device!Latch
<1>1. ASSUME NEW v \in Vectors, Clock(SetVector(v)) PROVE Observe /\ Claim
  BY <1>0, <1>1 DEF Clock, SetVector, Device!NoWrite
<1>2. CASE Clock(SetupDone)
  BY <1>0, <1>2 DEF Clock, SetupDone, Device!NoWrite
<1>3. ASSUME NEW events, Clock(EnableEvents(events)) PROVE Observe /\ Claim
  BY <1>0, <1>3 DEF Clock, EnableEvents, Device!WriteEnable
<1>4. CASE Clock(Wait)
  BY <1>0, <1>4 DEF Clock, Wait, Device!NoWrite
<1>5. CASE Clock(Wake)
  BY <1>0, <1>5 DEF Clock, Wake, Device!NoWrite
<1>6. CASE Clock(ClearVector)
  BY <1>0, <1>6 DEF Clock, ClearVector, Device!NoWrite
<1>7. CASE Clock(Look)
  BY <1>0, <1>7 DEF Clock, Look, Device!NoWrite
<1>8. CASE Clock(Clear)
  <2>1. pending' = (pending \ mask) \union Device!Happened
    BY <1>8 DEF Clock, Clear, Device!WritePending, Device!Latch
  <2>2. Seen = mask
    BY <1>8 DEF Clock, Clear, Seen
  <2>3. QED  BY <1>8, <2>1, <2>2 DEF Clock
<1>9. CASE Clock(Serve)
  BY <1>0, <1>9 DEF Clock, Serve, Device!NoWrite
<1>10. QED
  BY <1>1, <1>2, <1>3, <1>4, <1>5, <1>6, <1>7, <1>8, <1>9 DEF Next

\* An event that the processor has not seen is pending, whenever the clear of
\* software falls, be it in the cycle of the event itself (InterruptPath,
\* NoEventLost; event.py, Monitor; csr/action.py, RW1C).
THEOREM EventIsKept == Spec => []NoEventLost
<1>1. Init => NoEventLost
  BY DEF Init, NoEventLost
<1>2. NoEventLost /\ [Next]_vars => NoEventLost'
  <2> SUFFICES ASSUME NoEventLost, [Next]_vars PROVE NoEventLost'
    OBVIOUS
  <2>1. CASE Next
    <3>1. PICK clear \in SUBSET Seen : pending' = (pending \ clear) \union Device!Happened
      BY <2>1, ClearsWhatIsSeen
    <3>2. unseen' = (unseen \ Seen) \union Device!Happened
      BY <2>1, ClearsWhatIsSeen DEF Observe
    <3>3. QED  BY <3>1, <3>2 DEF NoEventLost
  <2>2. CASE UNCHANGED vars
    BY <2>2 DEF NoEventLost, vars, deviceVars
  <2>3. QED  BY <2>1, <2>2
<1>3. QED  BY <1>1, <1>2, PTL DEF Spec

-----------------------------------------------------------------------------
(* The invariant of the controller and of the processor that waits for it.     *)
TypeInv ==
  /\ system \in Systems
  /\ inbox \subseteq Vectors
  /\ cfg \in [Vectors -> {0, 1, 2}]
  /\ vec_enable \subseteq Vectors
  /\ prev \subseteq Vectors
  /\ vec_pending \subseteq Vectors

\* The vectors that are watched are enabled, and their messages configured.
SetUp ==
  /\ cpu # "setup" => vec_enable = Vectors
  /\ msi => vec_pending \subseteq vec_enable
  /\ msi => \A v \in vec_enable : cfg[v] = v

\* Only the MSI controller has messages.
OnlyMessages == ~msi => inbox = {} /\ fired = {}

\* The processor has not been told of the device, or not since it last looked.
Untold == \/ cpu \in {"setup", "idle"}
          \/ cpu = "clear_vector" /\ 1 \notin told

\* A high line of the device that is not an edge any more has left its mark.
Covered ==
  Untold /\ system.controller # "level" /\ 1 \in prev => 1 \in vec_pending \union inbox

IInv == TypeInv /\ SetUp /\ OnlyMessages /\ FiringsReported /\ Covered

-----------------------------------------------------------------------------
\* The systems there are.
LEMMA Kinds ==
  ASSUME system \in Systems
  PROVE  system.controller \in {"msi", "intc", "edge", "level"}
BY ControllersAssumption DEF Systems

\* The lowest of the vectors that are shown is one of them.
LEMMA VectorIsShown ==
  ASSUME Ctrl!Shown \subseteq Vectors, Ctrl!valid
  PROVE  Ctrl!Vector \in Ctrl!Shown
<1>1. \E v \in Ctrl!Shown : \A u \in Ctrl!Shown : v <= u
  <2>1. CASE 0 \in Ctrl!Shown
    <3>1. \A u \in Ctrl!Shown : 0 <= u
      BY DEF Vectors
    <3>2. QED  BY <2>1, <3>1
  <2>2. CASE 0 \notin Ctrl!Shown
    <3>1. Ctrl!Shown = {1}
      BY <2>2 DEF Ctrl!valid, Vectors
    <3>2. QED  BY <3>1
  <2>3. QED  BY <2>1, <2>2
<1>2. QED  BY <1>1 DEF Ctrl!Vector

\* Software sets the vectors up, and not again after that.
SettingUp ==
  \/ vec_enable' = vec_enable /\ cfg' = cfg
     /\ (cpu' # "setup" => cpu # "setup" \/ vec_enable = Vectors)
  \/ /\ cpu' = "setup"
     /\ \E v \in Vectors :
          \/ msi /\ v \notin vec_enable /\ cfg' = [cfg EXCEPT ![v] = v] /\ vec_enable' = vec_enable
          \/ (msi => cfg[v] = v) /\ vec_enable' = vec_enable \union {v} /\ cfg' = cfg

\* The processor is still untold only if it did not clear the device's vector
\* and had no message of it, or when it has looked and found nothing.
Looking ==
  Untold' => \/ Untold /\ 1 \notin Cleared /\ ~(cpu = "idle" /\ msi /\ 1 \in inbox)
             \/ 1 \notin Sources

\* What a cycle does, whatever the processor does in it.
LEMMA NextIsCycle ==
  ASSUME Next, system \in Systems
  PROVE  system' = system /\ Controller /\ SettingUp /\ Looking
<1> DEFINE Both == system' = system /\ Controller
<1> DEFINE NotTold == cpu = "idle" /\ Told = {} => 1 \notin Cleared /\ ~(msi /\ 1 \in inbox)
<1>a. NotTold
  BY Kinds DEF Told, Cleared, msi
<1>b. cpu = "setup" => 1 \notin Cleared
  BY DEF Cleared
<1>1. ASSUME NEW v \in Vectors, Clock(SetVector(v)) PROVE Both /\ SettingUp /\ Looking
  <2>1. cpu = "setup" /\ cpu' = "setup"
    BY <1>1 DEF Clock, SetVector
  <2>2. Both /\ SettingUp
    BY <1>1, <2>1 DEF Clock, SetVector, Ctrl!Configure, SettingUp
  <2>3. QED  BY <2>1, <2>2, <1>b DEF Looking, Untold
<1>2. ASSUME Clock(SetupDone) PROVE Both /\ SettingUp /\ Looking
  BY <1>2, <1>b DEF Clock, SetupDone, SettingUp, Looking, Untold
<1>3. ASSUME NEW events, Clock(EnableEvents(events)) PROVE Both /\ SettingUp /\ Looking
  BY <1>3, <1>a, <1>b DEF Clock, EnableEvents, SettingUp, Looking, Untold
<1>4. ASSUME Clock(Wait) PROVE Both /\ SettingUp /\ Looking
  BY <1>4, <1>a DEF Clock, Wait, SettingUp, Looking, Untold
<1>5. ASSUME Clock(Wake) PROVE Both /\ SettingUp /\ Looking
  <2>1. Both /\ SettingUp /\ cpu = "idle"
    BY <1>5 DEF Clock, Wake, SettingUp
  <2>2. CASE system.controller = "intc"
    <3>1. 1 \notin Cleared /\ ~msi
      BY <2>1, <2>2 DEF Cleared, msi
    <3>2. QED  BY <2>1, <3>1 DEF Looking, Untold
  <2>3. CASE system.controller # "intc"
    <3>1. Untold' => 1 \notin Told
      BY <1>5, <2>3 DEF Clock, Wake, Untold
    <3>2. 1 \notin Told => 1 \notin Cleared /\ ~(msi /\ 1 \in inbox)
      BY <2>1, Kinds DEF Told, Cleared, msi
    <3>3. QED  BY <2>1, <3>1, <3>2 DEF Looking, Untold
  <2>4. QED  BY <2>2, <2>3
<1>6. ASSUME Clock(ClearVector) PROVE Both /\ SettingUp /\ Looking
  <2>1. Both /\ SettingUp /\ cpu = "clear_vector" /\ (Untold' => 1 \notin told)
    BY <1>6 DEF Clock, ClearVector, SettingUp, Untold
  <2>2. QED  BY <2>1 DEF Looking, Untold, Cleared
<1>7. ASSUME Clock(Look) PROVE Both /\ SettingUp /\ Looking
  <2>1. Both /\ SettingUp
    BY <1>7 DEF Clock, Look, SettingUp
  <2>2. Untold' => pending \intersect enable = {}
    BY <1>7 DEF Clock, Look, Untold
  <2>3. Untold' => 1 \notin Sources
    BY <2>2 DEF Sources, Device!Irq
  <2>4. QED  BY <2>1, <2>3 DEF Looking
<1>8. ASSUME Clock(Clear) PROVE Both /\ SettingUp /\ Looking
  BY <1>8 DEF Clock, Clear, SettingUp, Looking, Untold
<1>9. ASSUME Clock(Serve) PROVE Both /\ SettingUp /\ Looking
  BY <1>9 DEF Clock, Serve, SettingUp, Looking, Untold
<1>10. QED
  BY <1>1, <1>2, <1>3, <1>4, <1>5, <1>6, <1>7, <1>8, <1>9 DEF Next

\* The pending and the watched vectors stay among the vectors.
LEMMA ControllerKeepsType ==
  ASSUME IInv, Next
  PROVE  inbox' \subseteq Vectors /\ prev' \subseteq Vectors /\ vec_pending' \subseteq Vectors
<1> USE DEF IInv, TypeInv
<1>0. Ctrl!Watched \subseteq Vectors /\ Ctrl!Rising \subseteq Vectors
  BY DEF Ctrl!Watched, Ctrl!Masked, Ctrl!Rising, Sources
<1>1. Controller /\ system.controller \in {"msi", "intc", "edge", "level"}
  BY NextIsCycle, Kinds
<1>2. ASSUME NEW clear, Ctrl!Step(clear)
      PROVE  prev' \subseteq Vectors /\ vec_pending' \subseteq Vectors
  BY <1>0, <1>1, <1>2 DEF Ctrl!Step, Ctrl!Pend, Ctrl!Track
<1>3. CASE msi
  <2>1. Messages
    BY <1>1, <1>3 DEF Controller
  <2>2. CASE Ctrl!valid /\ Ctrl!Step({Ctrl!Vector})
             /\ inbox' = (inbox \ (IF cpu = "idle" THEN inbox ELSE {})) \union {Ctrl!Message}
    <3>1. Ctrl!Shown \subseteq vec_enable
      BY <1>3 DEF Ctrl!Shown, SetUp, msi
    <3>2. Ctrl!Message \in Vectors
      BY <1>3, <2>2, <3>1, VectorIsShown DEF Ctrl!Message, SetUp
    <3>3. QED  BY <1>2, <2>2, <3>2
  <2>3. CASE Ctrl!Step({}) /\ inbox' = inbox \ (IF cpu = "idle" THEN inbox ELSE {})
    BY <1>2, <2>3
  <2>4. QED  BY <2>1, <2>2, <2>3 DEF Messages
<1>4. CASE ~msi
  BY <1>1, <1>2, <1>4 DEF Controller
<1>5. QED  BY <1>3, <1>4

\* The MSI controller sends the message of the vector that it takes, once.
LEMMA MessageIsVector ==
  ASSUME IInv, msi, Ctrl!valid
  PROVE  Ctrl!Vector \in vec_pending /\ Ctrl!Message = Ctrl!Vector
<1>1. Ctrl!Shown = vec_pending /\ vec_pending \subseteq vec_enable /\ vec_pending \subseteq Vectors
  BY DEF Ctrl!Shown, msi, IInv, SetUp, TypeInv
<1>2. Ctrl!Vector \in vec_pending
  BY <1>1, VectorIsShown
<1>3. QED  BY <1>1, <1>2 DEF IInv, SetUp, Ctrl!Message

\* What a cycle of the MSI controller does to a vector: an edge is pending
\* after it or its message has arrived, and so is what was pending before.
LEMMA MessageStep ==
  ASSUME IInv, Messages, msi
  PROVE  LET read == IF cpu = "idle" THEN inbox ELSE {}
         IN  /\ fired' = (fired \ read) \union Ctrl!Rising
             /\ vec_pending \union Ctrl!Rising \union (inbox \ read) \subseteq vec_pending' \union inbox'
             /\ vec_pending' \subseteq vec_pending \union Ctrl!Rising
             /\ prev' = Ctrl!Watched
<1> DEFINE read == IF cpu = "idle" THEN inbox ELSE {}
<1>1. ASSUME NEW clear, Ctrl!Step(clear)
      PROVE  vec_pending' = (vec_pending \union Ctrl!Rising) \ clear /\ prev' = Ctrl!Watched
  BY <1>1 DEF msi, Ctrl!Step, Ctrl!Pend, Ctrl!Track
<1>2. fired' = (fired \ read) \union Ctrl!Rising
  BY DEF Messages
<1>3. CASE Ctrl!valid /\ Ctrl!Step({Ctrl!Vector}) /\ inbox' = (inbox \ read) \union {Ctrl!Message}
  BY <1>1, <1>2, <1>3, MessageIsVector
<1>4. CASE Ctrl!Step({}) /\ inbox' = inbox \ read
  BY <1>1, <1>2, <1>4
<1>5. QED  BY <1>3, <1>4 DEF Messages

LEMMA SetUpStep ==
  ASSUME IInv, Next
  PROVE  SetUp' /\ cfg' \in [Vectors -> {0, 1, 2}] /\ vec_enable' \subseteq Vectors
<1> USE DEF IInv, TypeInv
<1>1. system' = system /\ Controller /\ SettingUp
  BY NextIsCycle
<1>2. cfg' \in [Vectors -> {0, 1, 2}] /\ vec_enable' \subseteq Vectors
  <2>1. \A v \in Vectors : [cfg EXCEPT ![v] = v] \in [Vectors -> {0, 1, 2}]
    BY DEF Vectors
  <2>2. QED  BY <1>1, <2>1 DEF SettingUp
<1>3. cpu' # "setup" => vec_enable' = Vectors
  BY <1>1 DEF SettingUp, SetUp
<1>4. msi => \A v \in vec_enable' : cfg'[v] = v
  BY <1>1 DEF SettingUp, SetUp
<1>5. msi => vec_pending' \subseteq vec_enable'
  <2>1. vec_enable \subseteq vec_enable'
    BY <1>1 DEF SettingUp
  <2>2. msi => Ctrl!Rising \subseteq vec_enable
    BY DEF Ctrl!Rising, Ctrl!Watched, Ctrl!Masked, msi
  <2>3. msi => vec_pending' \subseteq vec_pending \union Ctrl!Rising
    BY <1>1, MessageStep DEF Controller
  <2>4. QED  BY <2>1, <2>2, <2>3 DEF SetUp
<1>6. QED  BY <1>1, <1>2, <1>3, <1>4, <1>5 DEF SetUp, msi

LEMMA CoveredStep ==
  ASSUME IInv, Next
  PROVE  Covered'
<1> SUFFICES ASSUME Untold', system.controller # "level", 1 \in prev'
             PROVE  1 \in vec_pending' \union inbox'
  BY NextIsCycle DEF Covered, IInv, TypeInv
<1>1. Controller /\ Looking /\ system.controller \in {"msi", "intc", "edge"}
  BY NextIsCycle, Kinds DEF IInv, TypeInv
<1>2. 1 \in Ctrl!Watched
  <2>1. CASE msi
    BY <1>1, <2>1, MessageStep DEF Controller
  <2>2. CASE ~msi
    BY <1>1, <2>2 DEF Controller, Ctrl!Step, Ctrl!Track
  <2>3. QED  BY <2>1, <2>2
<1>3. Untold /\ 1 \notin Cleared /\ ~(cpu = "idle" /\ msi /\ 1 \in inbox)
  BY <1>1, <1>2 DEF Looking, Ctrl!Watched, Ctrl!Masked
<1>4. 1 \in Ctrl!Rising \/ 1 \in vec_pending \union inbox
  BY <1>2, <1>3 DEF Ctrl!Rising, IInv, Covered
<1>5. CASE msi
  BY <1>1, <1>3, <1>4, <1>5, MessageStep DEF Controller
<1>6. CASE ~msi
  <2>1. Ctrl!Step(Cleared) /\ inbox = {} /\ inbox' = inbox
    BY <1>1, <1>6 DEF Controller, IInv, OnlyMessages
  <2>2. 1 \in vec_pending'
    BY <1>1, <1>3, <1>4, <1>6, <2>1 DEF Ctrl!Step, Ctrl!Pend, msi
  <2>3. QED  BY <2>2
<1>7. QED  BY <1>5, <1>6

LEMMA IInvInit == Init => IInv
BY DEF Init, IInv, TypeInv, SetUp, OnlyMessages, FiringsReported, Covered, Ctrl!Init, Vectors

LEMMA IInvStep ==
  ASSUME IInv, Next
  PROVE  IInv'
<1>1. system' = system /\ Controller
  BY NextIsCycle DEF IInv, TypeInv
<1>2. TypeInv'
  BY <1>1, ControllerKeepsType, SetUpStep DEF IInv, TypeInv
<1>3. OnlyMessages'
  BY <1>1 DEF Controller, OnlyMessages, IInv, msi
<1>4. FiringsReported'
  <2>1. CASE msi
    BY <1>1, <2>1, MessageStep DEF Controller, IInv, FiringsReported
  <2>2. CASE ~msi
    BY <1>1, <1>3, <2>2 DEF OnlyMessages, FiringsReported, msi
  <2>3. QED  BY <2>1, <2>2
<1>5. QED  BY <1>2, <1>3, <1>4, SetUpStep, CoveredStep DEF IInv

LEMMA Invariance == Spec => []IInv
<1>1. IInv /\ [Next]_vars => IInv'
  <2> SUFFICES ASSUME IInv, [Next]_vars PROVE IInv'
    OBVIOUS
  <2>1. CASE Next
    BY <2>1, IInvStep
  <2>2. CASE UNCHANGED vars
    BY <2>2 DEF IInv, TypeInv, SetUp, OnlyMessages, FiringsReported, Covered, Untold,
                vars, ctrlVars, cpuVars, msi
  <2>3. QED  BY <2>1, <2>2
<1>2. QED  BY IInvInit, <1>1, PTL DEF Spec

-----------------------------------------------------------------------------
\* Every edge of an enabled source of the MSI controller is followed by a
\* message of its vector, however many come together and however long the bus
\* takes (InterruptPath, FiringsReported; periph/msi.py, MSIController).
THEOREM EdgeIsReported == Spec => []FiringsReported
<1>1. IInv => FiringsReported
  BY DEF IInv
<1>2. QED  BY <1>1, Invariance, PTL

\* The processor that has served the events that it saw is told of those that
\* came meanwhile, though the line never fell and the controller sees only edges
\* (InterruptPath, WakesUp; periph/intc.py, periph/msi.py).
THEOREM ProcessorIsWoken == Spec => []WakesUp
<1>1. IInv => WakesUp
  <2> SUFFICES ASSUME IInv, cpu = "idle", Device!Irq
               PROVE  1 \in Ctrl!Rising \union Ctrl!Shown \union (IF msi THEN inbox ELSE {})
    BY DEF WakesUp
  <2>1. 1 \in Sources /\ 1 \in vec_enable
    BY DEF Sources, Vectors, IInv, SetUp
  <2>2. CASE system.controller = "level"
    BY <2>1, <2>2 DEF Ctrl!Shown, Ctrl!Masked
  <2>3. CASE system.controller # "level"
    <3>1. 1 \in Ctrl!Rising \/ 1 \in prev
      BY <2>1 DEF Ctrl!Rising, Ctrl!Watched, Ctrl!Masked
    <3>2. 1 \in prev => 1 \in vec_pending \union inbox
      BY <2>3 DEF IInv, Covered, Untold
    <3>3. QED  BY <2>3, <3>1, <3>2 DEF Ctrl!Shown, IInv, OnlyMessages
  <2>4. QED  BY <2>2, <2>3
<1>2. QED  BY <1>1, Invariance, PTL
=============================================================================
