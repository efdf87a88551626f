----------------------------- MODULE MCDmaPath -----------------------------
(* Words of two bytes.  The read descriptors are cut into requests of two, one *)
(* and two words (the last half a word short), the write descriptors into two, *)
(* two and one: requests of the two sides overlap in every way.                *)
EXTENDS DmaPath

MCReadDescs  == <<[addr |-> 8, length |-> 6], [addr |-> 20, length |-> 3]>>
MCWriteDescs == <<[addr |-> 40, length |-> 4], [addr |-> 50, length |-> 6]>>

Set(loop, stream, buffered, restarts, m) ==
  [loop |-> loop, stream |-> stream, buffered |-> buffered, restarts |-> restarts, mode |-> m]

MCSetups ==
  {Set(FALSE, TRUE, FALSE, TRUE, "both"), Set(FALSE, TRUE, FALSE, FALSE, "bypass"),
   Set(FALSE, FALSE, TRUE, FALSE, "pps"),
   Set(TRUE, TRUE, TRUE, FALSE, "bypass"), Set(TRUE, FALSE, FALSE, FALSE, "both")}
=============================================================================
