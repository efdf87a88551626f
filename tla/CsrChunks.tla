------------------------------ MODULE CsrChunks ------------------------------
(* Address arithmetic of the CSR multiplexer's shadow registers (csr/bus.py,    *)
(* class Multiplexer._Shadow).  A register's address range is a record          *)
(* [start, stop], stop excluded.  Sizes are powers of two, so masking is        *)
(* division and remainder.                                                      *)
EXTENDS Integers, FiniteSets

CONSTANT MaxAddr   \* the CSR bus has the addresses 0 .. MaxAddr - 1

ASSUME MaxAddrAssumption == MaxAddr \in Nat \ {0}

PowersOfTwo == {2^k : k \in 0 .. MaxAddr}

\* Arithmetic.
ASSUME PowersAssumption ==
  /\ PowersOfTwo \subseteq Nat \ {0}
  /\ \A m, n \in PowersOfTwo : m <= n => n % m = 0
  /\ MaxAddr <= 2^MaxAddr

AddressesOf(range) == range.start .. range.stop - 1
Length(range)      == range.stop - range.start

\* 2 ** ceil_log2(Length(range))
RegSize(range) ==
  CHOOSE n \in PowersOfTwo : /\ Length(range) <= n
                             /\ \A m \in PowersOfTwo : Length(range) <= m => n <= m

\* The shadow chunk that addr, an address of range, uses: its lower bits are
\* those of addr, and its upper bits those of the start of the register.
DecodeAddress(addr, range, size) ==
  LET reg == RegSize(range)
  IN  ((range.start % size) \div reg) * reg + (addr % reg)

\* The address of range that uses the chunk at offset.
EncodeOffset(offset, range) ==
  range.start + ((offset - range.start) % RegSize(range))

\* The registers that the chunk at offset stores a part of.
Sharers(offset, ranges, size) ==
  {r \in ranges : \E addr \in AddressesOf(r) : DecodeAddress(addr, r, size) = offset}

\* prepare() refuses a register for a chunk that already has more than overlaps.
Balanced(ranges, size, overlaps) ==
  \A offset \in 0 .. size - 1 : Cardinality(Sharers(offset, ranges, size)) <= overlaps + 1
=============================================================================
