---------------------------- MODULE EventSources ----------------------------
(* The devices that raise interrupts.  The CSR event monitor (csr/event.py,    *)
(* class EventMonitor, around event.py, class Monitor) latches the events of   *)
(* its sources; the countdown timer (periph/timer.py, TimerPeripheral) latches *)
(* its zero event in a register that software clears by writing ones (RW1C).   *)
(* Both assert their line while an enabled event is pending.  Bit masks are    *)
(* sets of events.                                                             *)
EXTENDS Naturals

CONSTANT Trigger   \* the trigger mode of each source: "level", "rise" or "fall"

VARIABLES device,   \* "monitor" or "timer"
          lines,    \* the sources whose input line is high
          lines_r,  \* sub_i_r: the lines of the edge-triggered ones, a cycle ago
          reload,   \* the reload register of the timer
          counter,
          enable,   \* monitor.enable, ev_enable
          pending   \* monitor.pending, ev_pending

-----------------------------------------------------------------------------
\* sub.trg
Triggered == {s \in DOMAIN Trigger : CASE Trigger[s] = "level" -> s \in lines
                                       [] Trigger[s] = "rise"  -> s \in lines \ lines_r
                                       [] Trigger[s] = "fall"  -> s \in lines_r \ lines}

\* The timer's own enable register is set.
ZeroEvent == IF counter = 0 THEN {"tick"} ELSE {}

Happened == IF device = "timer" THEN ZeroEvent ELSE Triggered

AllOfThem == enable # {} /\ enable \subseteq pending   \* mutant of Irq: all, not any

\* src.i, irq
Irq == enable \intersect pending # {}

ClearWins(clear) ==    \* mutant of Latch: the clear has precedence
  pending' = (pending \union Happened) \ clear

\* A trigger has precedence over a clear in the same cycle.
Latch(clear) == pending' = (pending \ clear) \union Happened

Sample == lines_r' = {s \in lines : Trigger[s] # "level"} /\ UNCHANGED counter

Count == counter' = (IF counter = 0 THEN reload ELSE counter - 1) /\ UNCHANGED lines_r

Run == IF device = "timer" THEN Count ELSE Sample

Init == lines_r = {} /\ counter = 0 /\ enable = {} /\ pending = {}

(* One cycle, by what the CSR bus does to the two registers.                   *)
WritePending(mask) == Latch(mask) /\ Run /\ UNCHANGED enable
WriteEnable(mask)  == Latch({}) /\ Run /\ enable' = mask
NoWrite            == Latch({}) /\ Run /\ UNCHANGED enable
=============================================================================
