------------------------------ MODULE MCFabric ------------------------------
(* Decoders before two slaves, with all that a master may do, and crossbars of *)
(* two masters and two slaves.                                                 *)
EXTENDS Fabric

Decoder(full, pipelined, beats) ==
  [masters |-> 1, crossbar |-> FALSE, full |-> full, pipelined |-> pipelined, beats |-> beats,
   eager |-> TRUE, stalls |-> TRUE, misses |-> TRUE, flight |-> 3]

Crossbar(full, beats, flight, misses) ==
  [masters |-> 2, crossbar |-> TRUE, full |-> full, pipelined |-> FALSE, beats |-> beats,
   eager |-> FALSE, stalls |-> FALSE, misses |-> misses, flight |-> flight]

MCTopologies == {Decoder(TRUE, FALSE, {2}), Decoder(FALSE, TRUE, {1}),
                 Crossbar(FALSE, {1}, 3, FALSE), Crossbar(TRUE, {2}, 2, TRUE)}
=============================================================================
