----------------------------- MODULE MCCsrLayout -----------------------------
(* Callers: sixteen addresses; a register and a memory, two windows of as wide a bus,   *)
(* one of them without a name, and one of a bus of half the width.             *)
EXTENDS CsrLayout

MCResources == [reg |-> <<"a">>, mem |-> <<"b", "a">>]

MCWindows ==
  [plain |-> [name |-> <<"b">>, addr_width |-> 1, ratio |-> 1,
              resources |-> (<<"a">> :> [start |-> 1, stop |-> 2])],
   dense |-> [name |-> <<"c">>, addr_width |-> 3, ratio |-> 2,
              resources |-> (<<"a">> :> [start |-> 0, stop |-> 2]
                             @@ <<"b">> :> [start |-> 4, stop |-> 8])],
   bare  |-> [name |-> Anonymous, addr_width |-> 2, ratio |-> 1,
              resources |-> (<<"a", "x">> :> [start |-> 2, stop |-> 4])]]

\* The builder: a register with fields in an array in a map, an odd number of
\* bits that makes three chunks, and a single field to read.
MCField(width, access) == [width |-> width, access |-> access]
MCRegisters ==
  [ctl  |-> [access |-> "rw",
             fields |-> [items |-> <<[key |-> "en", value |-> MCField(1, "rw")],
                                     [key |-> "ch", value |->
                                       [items |-> <<[key |-> 0, value |-> MCField(1, "r")],
                                                    [key |-> 1, value |-> MCField(1, "w")]>>]]>>]],
   data |-> [access |-> "w", fields |-> MCField(5, "w")],
   flag |-> [access |-> "r", fields |-> MCField(1, "r")]]
=============================================================================
