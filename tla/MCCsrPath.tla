------------------------------ MODULE MCCsrPath ------------------------------
(* Two buses.  On the one, an unaligned register of three chunks and one of two *)
(* that the hardware changes: chunk 1 of the four of their shadow belongs to    *)
(* both, and the second is a word of two chunks.  On the other, a register in   *)
(* the last chunk of a word, whose first chunk is nothing: a write of the word  *)
(* takes effect when the answer is due.                                         *)
EXTENDS CsrPath

MCBuses    == {0, 8}
MCSpan     == [bus \in MCBuses |-> IF bus = 0 THEN 8 ELSE 2]
MCWide     == [bus |-> 0, start |-> 1, stop |-> 4]
MCNarrow   == [bus |-> 0, start |-> 4, stop |-> 6]
MCHigh     == [bus |-> 8, start |-> 9, stop |-> 10]
MCRegs     == {MCWide, MCNarrow, MCHigh}
MCVolatile == {MCNarrow}
MCWords    == {2, 4}
MCSelects  == {{0, 1}, {0}}
MCReached  == {MCWide, MCNarrow}
MCFronts   == {"direct", "wishbone", "axi"}

ASSUME Regs = MCRegs => WholeRegisters /\ InitialLanes

\* A register of two words, which the hardware changes.
MCTwoWords == {[bus |-> 0, start |-> 0, stop |-> 4]}
MCOneBus   == {0}
MCOneSpan  == [bus \in MCOneBus |-> 4]
=============================================================================
