----------------------------- MODULE MCBurstPath -----------------------------
(* Four words of two bytes: all burst types, narrow beats, an unaligned start,  *)
(* a burst that crosses from one subordinate to the other, and a word that is  *)
(* faulty, behind the first or the second beat of a burst.                     *)
EXTENDS BurstPath

Burst(a, l, s, type) == [addr |-> a, len |-> l, size |-> s, burst |-> type]

MCTargetsOf == [p \in Paths |-> CASE p = "single" -> {"any"} [] OTHER -> {"sram"}]

MCBurstsOf ==
  [p \in Paths |->
     CASE p = "native"   -> {Burst(3, 1, 0, "WRAP"), Burst(1, 1, 1, "INCR")}
       [] p = "adapter"  -> {Burst(2, 3, 0, "WRAP"), Burst(1, 1, 1, "INCR"), Burst(3, 1, 0, "FIXED")}
       [] p = "bridged"  -> {Burst(3, 1, 1, "INCR"), Burst(6, 1, 1, "WRAP")}
       [] p = "single"   -> {Burst(2, 0, 1, "INCR"), Burst(6, 0, 1, "INCR")}
       [] p = "wishbone" -> {Burst(2, 1, 1, "WRAP"), Burst(6, 1, 1, "WRAP"), Burst(4, 0, 1, "INCR"),
                             Burst(0, 2, 1, "FIXED")}]
=============================================================================
