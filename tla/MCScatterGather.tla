-------------------------- MODULE MCScatterGather --------------------------
(* One full burst of two, and one and a half; the second descriptor          *)
(* copies on what the first one copied.                                        *)
EXTENDS ScatterGather

MCDescriptors ==
  {[src |-> 0, dst |-> 3, length |-> 3, last |-> FALSE],
   [src |-> 4, dst |-> 1, length |-> 2, last |-> TRUE]}
MCCounts == {1, 2}
=============================================================================
