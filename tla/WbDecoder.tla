----------------------------- MODULE WbDecoder -----------------------------
(* The Wishbone decoder (wishbone/bus.py, class Decoder) with its burst latch,  *)
(* and the shim (class _FeatureShim) through which it drives a pipelined       *)
(* subordinate for an initiator that knows no STALL.                           *)
EXTENDS Integers

VARIABLES sub_latched, sub_latched_valid,   \* the burst latch
          shim                              \* the shim's state machine

vars == <<sub_latched, sub_latched_valid, shim>>

BurstActive(cti) == cti \in {"CONST_BURST", "INCR_BURST"}

\* The subordinates selected; hits are those whose pattern matches.
Selected(hits, cti) ==
  IF sub_latched_valid /\ BurstActive(cti) THEN {sub_latched} ELSE hits

AlwaysFirst(hits) == 0    \* mutant of SubSel

\* sub_sel: 0 when no pattern matches.
SubSel(hits) == IF hits = {} THEN 0 ELSE CHOOSE s \in hits : TRUE

Init == sub_latched = 0 /\ sub_latched_valid = FALSE /\ shim = "IDLE"

\* Latched on a burst's first cycle, cleared on its last one or when CYC drops.
Latch(cyc, stb, cti, hits) ==
  LET first == cyc /\ stb /\ BurstActive(cti) /\ ~sub_latched_valid
      ends  == ~cyc \/ (stb /\ cti = "END_OF_BURST")
  IN  /\ sub_latched' = IF first THEN SubSel(hits) ELSE sub_latched
      /\ sub_latched_valid' = (~ends /\ (first \/ sub_latched_valid))

(* The shim limits STB to a pulse until the subordinate answers.               *)
ShimStb(stb) == stb /\ shim = "IDLE"

ShimIdle(cyc, stb, stall) ==
  /\ shim = "IDLE"
  /\ shim' = IF cyc /\ stb /\ ~stall THEN "BUSY" ELSE shim

ShimBusy(cyc, answered) ==
  /\ shim = "BUSY"
  /\ shim' = IF ~cyc \/ answered THEN "IDLE" ELSE shim
=============================================================================
