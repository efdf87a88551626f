---------------------------- MODULE InterruptPath ----------------------------
(* From an event to the processor.  A device, an event monitor or a timer,     *)
(* raises its line; that is a source of an interrupt controller, next to the   *)
(* line of another device with a lower vector.  A processor sets the two up    *)
(* and then serves the events: told by the controller, it reads the pending    *)
(* events, clears those that it read, serves them, and looks again until there *)
(* are none.  "system" says which device and which controller there are.       *)
(* A step is a clock cycle.                                                    *)
EXTENDS Naturals

CONSTANTS LevelEvents, RisingEvents,   \* of the monitor, by their trigger modes
          Reloads,                     \* periods of the timer, less one
          Controllers                  \* which there are before the timer

Trigger == [e \in LevelEvents \union RisingEvents |-> IF e \in LevelEvents THEN "level" ELSE "rise"]

Systems ==
  [device : {"monitor"}, reload : {0}, controller : {"msi", "intc"}]
    \union [device : {"timer"}, reload : Reloads, controller : Controllers]

Events  == DOMAIN Trigger \union {"tick"}
Vectors == {0, 1}    \* the other device's and the device's

ASSUME EventsAssumption == LevelEvents \intersect RisingEvents = {}
ASSUME ControllersAssumption == Controllers \subseteq {"intc", "edge", "level"}

VARIABLES system,
          lines, lines_r, counter, enable, pending,   \* the device
          line,                                 \* the other device's line
          vec_enable, prev, vec_pending, cfg,   \* the controller
          inbox,                                \* messages that have arrived
          cpu, told, mask,   \* what the processor does, to which vectors and events
          unseen,  \* history: events that happened and that the processor has not seen
          fired    \* history: edges that the processor has not had a message of

deviceVars == <<lines, lines_r, counter, enable, pending>>
ctrlVars   == <<line, vec_enable, prev, vec_pending, cfg>>
cpuVars    == <<inbox, cpu, told, mask>>
vars       == <<system, deviceVars, ctrlVars, cpuVars, unseen, fired>>

Device == INSTANCE EventSources WITH device <- system.device, reload <- system.reload

timer == system.device = "timer"
msi   == system.controller = "msi"

Sources == {v \in Vectors : (v = 0 /\ line) \/ (v = 1 /\ Device!Irq)}

Ctrl == INSTANCE Intc WITH kind <- system.controller, sources <- Sources, Unset <- 2

-----------------------------------------------------------------------------
(* The processor; the device sees what it writes.                              *)
SetVector(v) ==
  /\ cpu = "setup" /\ v \notin vec_enable
  /\ \/ msi /\ cfg[v] # v /\ Ctrl!Configure(v, v) /\ UNCHANGED vec_enable
     \/ (msi => cfg[v] = v) /\ vec_enable' = vec_enable \union {v} /\ UNCHANGED cfg
  /\ Device!NoWrite
  /\ UNCHANGED <<cpu, told, mask>>

SetupDone ==
  /\ cpu = "setup" /\ vec_enable = Vectors
  /\ cpu' = "idle"
  /\ Device!NoWrite
  /\ UNCHANGED <<told, mask, vec_enable, cfg>>

\* What the controller tells a processor that is idle.
Told ==
  CASE msi                                      -> inbox
    [] system.controller = "intc"               -> Ctrl!Enabled
    [] system.controller \in {"edge", "level"} -> IF Ctrl!valid THEN {Ctrl!Vector} ELSE {}

\* What is cleared in the controller: a register is cleared by a write of its
\* own, a vector by the handshake in which it is told.
Cleared ==
  CASE cpu = "clear_vector"                             -> told
    [] system.controller = "edge" /\ cpu = "idle"       -> Told
    [] ~(cpu = "clear_vector")
         /\ ~(system.controller = "edge" /\ cpu = "idle") -> {}

EnableEvents(events) ==
  /\ cpu \in {"setup", "idle"} /\ Told = {}
  /\ Device!WriteEnable(events)
  /\ UNCHANGED <<cpu, told, mask, vec_enable, cfg>>

Wait ==
  /\ cpu = "idle" /\ Told = {}
  /\ Device!NoWrite
  /\ UNCHANGED <<cpu, told, mask, vec_enable, cfg>>

Wake ==
  /\ cpu = "idle" /\ Told # {}
  /\ IF system.controller = "intc" THEN cpu' = "clear_vector" /\ told' = Told
     ELSE cpu' = (IF 1 \in Told THEN "look" ELSE "idle") /\ UNCHANGED told
  /\ Device!NoWrite
  /\ UNCHANGED <<mask, vec_enable, cfg>>

ClearVector ==
  /\ cpu = "clear_vector"
  /\ cpu' = (IF 1 \in told THEN "look" ELSE "idle") /\ told' = {}
  /\ Device!NoWrite
  /\ UNCHANGED <<mask, vec_enable, cfg>>

Look ==
  /\ cpu = "look"
  /\ mask' = pending \intersect enable
  /\ cpu' = IF mask' = {} THEN "idle" ELSE "clear"
  /\ Device!NoWrite
  /\ UNCHANGED <<told, vec_enable, cfg>>

Clear ==
  /\ cpu = "clear"
  /\ Device!WritePending(mask)
  /\ cpu' = "serve"
  /\ UNCHANGED <<told, mask, vec_enable, cfg>>

Serve ==
  /\ cpu = "serve"
  /\ cpu' = "look" /\ mask' = {}
  /\ Device!NoWrite
  /\ UNCHANGED <<told, vec_enable, cfg>>

-----------------------------------------------------------------------------
(* The devices: a level-triggered line stays high until it is served.          *)
Levels == {e \in DOMAIN Trigger : Trigger[e] = "level"}
Served == IF cpu = "serve" THEN mask ELSE {}

Lines ==
  IF timer THEN lines' = {}
  ELSE \E high \in SUBSET DOMAIN Trigger :
         /\ (lines \intersect Levels) \ Served \subseteq high
         /\ Levels \intersect Served \intersect high = {}
         /\ lines' = high

Devices == Lines /\ line' \in BOOLEAN

(* The controller: a message that is taken arrives, and the processor takes    *)
(* all there are.                                                              *)
Messages ==
  LET read == IF cpu = "idle" THEN inbox ELSE {}
  IN  /\ \/ Ctrl!valid /\ Ctrl!Step({Ctrl!Vector}) /\ inbox' = (inbox \ read) \union {Ctrl!Message}
         \/ Ctrl!Step({}) /\ inbox' = inbox \ read
      /\ fired' = (fired \ read) \union Ctrl!Rising

Controller == IF msi THEN Messages ELSE Ctrl!Step(Cleared) /\ UNCHANGED <<inbox, fired>>

\* The processor sees the events that it reads into its mask.  What comes between
\* that and the clear of the same bit is one with it, and is served after both;
\* what comes in the cycle of the clear is yet to be seen.
Seen == IF cpu \in {"look", "clear"} THEN mask' ELSE {}

Observe == unseen' = (unseen \ Seen) \union Device!Happened

Init ==
  /\ system \in Systems
  /\ Device!Init /\ Ctrl!Init
  /\ lines = {} /\ line = FALSE /\ vec_enable = {}
  /\ inbox = {} /\ cpu = "setup" /\ told = {} /\ mask = {} /\ unseen = {} /\ fired = {}

Clock(Processor) == UNCHANGED system /\ Processor /\ Devices /\ Controller /\ Observe

Next ==
  \/ \E v \in Vectors : Clock(SetVector(v))
  \/ Clock(SetupDone)
  \/ \E events \in SUBSET (IF timer THEN {"tick"} ELSE DOMAIN Trigger) : Clock(EnableEvents(events))
  \/ Clock(Wait)
  \/ Clock(Wake)
  \/ Clock(ClearVector)
  \/ Clock(Look)
  \/ Clock(Clear)
  \/ Clock(Serve)

(* The clock runs, the processor finishes its setup, the bus takes messages    *)
(* often enough that none is left now and then, and a controller without a     *)
(* memory is not kept busy by the other line for ever.                         *)
NoWait == /\ cpu # "setup"
          /\ msi => vec_pending = {}
          /\ system.controller = "level" => ~line

Fairness == WF_vars(Next) /\ []<>NoWait

Spec == Init /\ [][Next]_vars /\ Fairness

-----------------------------------------------------------------------------
(* An event that the processor has not seen is pending: a clear by software    *)
(* takes along no event of another bit, and none of the same bit that happens  *)
(* in the very cycle of the clear.                                             *)
NoEventLost == unseen \subseteq pending

(* Every edge of a source is followed by a message: an edge is only dropped in *)
(* the cycle in which a message of its vector leaves.                          *)
FiringsReported == fired \subseteq vec_pending \union inbox

(* The processor does not sleep while an enabled event is pending and nothing  *)
(* will tell it, though a controller sees edges and the device's line stays    *)
(* high from one event to the next.                                            *)
WakesUp ==
  cpu = "idle" /\ Device!Irq =>
    1 \in Ctrl!Rising \union Ctrl!Shown \union (IF msi THEN inbox ELSE {})

(* An event that the processor has not seen and that stays enabled is served.  *)
EventServed ==
  \A e \in Events : e \in unseen \intersect enable ~> e \in Served \/ e \notin enable
=============================================================================
