------------------------------ MODULE CsrShadow ------------------------------
(* How a shadow register is laid out (csr/bus.py, class Multiplexer._Shadow):   *)
(* registers are added one at a time while the design is elaborated, and then   *)
(* prepare() doubles the shadow until no chunk has too many registers.          *)
EXTENDS CsrChunks

CONSTANT ShadowOverlaps   \* the shadow_overlaps argument of the multiplexer

VARIABLES ranges,   \* self._ranges
          size,     \* self._size
          stage     \* registers are added, then prepare() runs, then it is done

vars == <<ranges, size, stage>>

\* Doubling a shadow that has a chunk for every address changes no chunk.
MaxSize == RegSize([start |-> 0, stop |-> MaxAddr])

Disjoint(r, s) == r.stop <= s.start \/ s.stop <= r.start

Init == ranges = {} /\ size = 1 /\ stage = "adding"

LastSize(r) == RegSize(r)   \* mutant of GrownTo: the last register decides

\* The size that makes room for r.
GrownTo(r) == IF RegSize(r) > size THEN RegSize(r) ELSE size

\* add(): the registers of a memory map do not overlap.
Add(r) ==
  /\ stage = "adding"
  /\ \A s \in ranges : Disjoint(r, s)
  /\ ranges' = ranges \union {r}
  /\ size' = GrownTo(r)
  /\ UNCHANGED stage

Prepare ==
  /\ stage = "adding"
  /\ stage' = "preparing"
  /\ UNCHANGED <<ranges, size>>

StopAtHalf ==   \* mutant of Double: a shadow half as large must do
  /\ stage = "preparing" /\ ~Balanced(ranges, size, ShadowOverlaps)
  /\ size' = IF 2 * size < MaxSize THEN 2 * size ELSE size
  /\ UNCHANGED <<ranges, stage>>

Double ==
  /\ stage = "preparing" /\ ~Balanced(ranges, size, ShadowOverlaps)
  /\ size' = IF size < MaxSize THEN 2 * size ELSE size
  /\ UNCHANGED <<ranges, stage>>

Freeze ==
  /\ stage = "preparing" /\ Balanced(ranges, size, ShadowOverlaps)
  /\ stage' = "done"
  /\ UNCHANGED <<ranges, size>>
=============================================================================
