-------------------------------- MODULE Intc --------------------------------
(* The interrupt controllers of periph/intc.py and periph/msi.py.              *)
(* InterruptController ("intc") is read and cleared through CSR registers;     *)
(* MSIInterruptController offers the lowest vector with a handshake and        *)
(* detects edges ("edge") or has no memory of its own ("level"); MSIController *)
(* ("msi") sends that vector's message.  Bit masks are sets of vectors, and a  *)
(* message stands for its address and data.                                    *)
EXTENDS Naturals

CONSTANTS Vectors,    \* the vectors, numbers
          Unset       \* the message of a vector that has not been configured

VARIABLES kind,          \* "intc", "edge", "level" or "msi"
          sources,       \* the sources that are high
          vec_enable,    \* the enable register or input
          prev,          \* the sources of the previous cycle that are looked at
          vec_pending,   \* the pending register
          cfg            \* cfg_addrs and cfg_datas of the MSI controller

Init == prev = {} /\ vec_pending = {} /\ cfg = [v \in Vectors |-> Unset]

Masked == sources \intersect vec_enable

\* Only InterruptController looks at the sources that are not enabled.
Watched == IF kind = "intc" THEN sources ELSE Masked

Rising == Watched \ prev

Shown == IF kind = "level" THEN Masked ELSE vec_pending

\* irq_out is high while there are any.
Enabled == Shown \intersect vec_enable

valid   == Shown # {}
Vector  == CHOOSE v \in Shown : \A u \in Shown : v <= u
Message == cfg[Vector]

ForgetOthers(clear) ==    \* mutant of Pend: a clear takes every vector along
  vec_pending' = IF clear = {} THEN vec_pending \union Rising ELSE Rising

\* In a pending register of RW1C bits an edge has precedence over a clear in the
\* same cycle, in the controllers with a handshake the clear has.
Pend(clear) ==
  vec_pending' = CASE kind = "intc"             -> (vec_pending \ clear) \union Rising
                   [] kind \in {"edge", "msi"} -> (vec_pending \union Rising) \ clear
                   [] kind = "level"            -> {}

TrackSources == prev' = sources    \* mutant of Track

Track == prev' = Watched

Step(clear) == Pend(clear) /\ Track

Configure(v, message) == cfg' = [cfg EXCEPT ![v] = message]
=============================================================================
