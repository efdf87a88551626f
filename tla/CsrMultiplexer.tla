--------------------------- MODULE CsrMultiplexer ---------------------------
(* CSR multiplexers behind a CSR decoder (csr/bus.py, classes Multiplexer and  *)
(* Decoder).  A multiplexer has one shadow register for reads and one for      *)
(* writes, whose chunks its registers share; the decoder gives the strobes to  *)
(* the one whose window has the address, and ORs what all of them read.  A     *)
(* step is a clock cycle in which the bus initiator reads or writes one chunk  *)
(* of a register, or nothing.  A register is its address range on the          *)
(* decoder's bus with the window it is in, and a chunk's value is the set of   *)
(* its bits that are 1, so the OR of chunks is their union.                    *)
EXTENDS CsrChunks

CONSTANTS Buses,      \* the subordinate buses, by the bases of their windows
          Span,       \* the sizes of the windows
          Regs,       \* the registers: [bus, start, stop]
          Volatile,   \* those that the hardware may change
          Bits,       \* the bits of a chunk
          Overlaps,   \* shadow_overlaps
          Ratio,      \* chunks in a word of a bridge's wider bus
          Words,      \* the word addresses that the initiators of bridges use
          Reached     \* the registers that an initiator on the bus itself uses

Data == SUBSET Bits

AllAddresses(regs) == UNION {AddressesOf(r) : r \in regs}

Window(bus) == bus .. bus + Span[bus] - 1

ASSUME BusesAssumption ==
  /\ Buses \subseteq 0 .. MaxAddr - 1 /\ Span \in [Buses -> PowersOfTwo]
  /\ \A b \in Buses : b % Span[b] = 0 /\ b + Span[b] <= MaxAddr
  /\ \A b, c \in Buses : b = c \/ Window(b) \intersect Window(c) = {}
ASSUME RegsAssumption ==
  /\ Regs \subseteq [bus : Buses, start : 0 .. MaxAddr - 1, stop : 1 .. MaxAddr]
  /\ \A r \in Regs : r.start < r.stop /\ AddressesOf(r) \subseteq Window(r.bus)
  /\ \A r, s \in Regs : r = s \/ r.stop <= s.start \/ s.stop <= r.start
ASSUME VolatileAssumption == Volatile \subseteq Regs
ASSUME RatioAssumption == Ratio \in Nat \ {0} /\ MaxAddr % Ratio = 0
ASSUME WordsAssumption == Words \subseteq 0 .. MaxAddr \div Ratio - 1
ASSUME ReachedAssumption == Reached \subseteq Regs

Lanes             == 0 .. Ratio - 1
Addr(word, lane)  == word * Ratio + lane

-----------------------------------------------------------------------------
(* The decoder.                                                                *)

\* The Case of the bus's window pattern, and bus.addr[:sub_bus.addr_width].
Routed(bus, addr)   == addr \in Window(bus)
SubAddr(bus, addr)  == addr % Span[bus]

Local(r) == [start |-> r.start - r.bus, stop |-> r.stop - r.bus]
On(bus)  == {r \in Regs : r.bus = bus}

-----------------------------------------------------------------------------
(* The multiplexers, elaborated.                                               *)

\* prepare(): the first balanced size, from that of the widest register on.
Fits(bus, size) ==
  LET ranges == {Local(r) : r \in On(bus)}
  IN  /\ \A range \in ranges : RegSize(range) <= size
      /\ Balanced(ranges, size, Overlaps)

Size == [bus \in Buses |->
  CHOOSE n \in PowersOfTwo : Fits(bus, n) /\ \A m \in PowersOfTwo : Fits(bus, m) => n <= m]

\* prepare() comes to an end.
ASSUME SizeAssumption == \A bus \in Buses : \E n \in PowersOfTwo : Fits(bus, n)

\* The chunks of all shadows: the bus, and the offset.
Chunks == UNION {{bus} \X (0 .. Size[bus] - 1) : bus \in Buses}

\* chunk.registers() of all chunks, and the address at which a register uses it.
OffsetsOf(r) == {DecodeAddress(a, Local(r), Size[r.bus]) : a \in AddressesOf(Local(r))}

Uses ==
  UNION {{[reg |-> r, chunk |-> <<r.bus, o>>, addr |-> EncodeOffset(o, Local(r))]
            : o \in OffsetsOf(r)} : r \in Regs}

VARIABLES val,        \* element.r_data of the registers, chunk by chunk
          txn,        \* the initiator's transaction and its next address
          r_shadow,   \* r_chunk.data, by chunk
          r_en,       \* r_chunk.r_en
          w_shadow,   \* w_chunk.data
          w_stb       \* element.w_stb, by register

vars == <<val, txn, r_shadow, r_en, w_shadow, w_stb>>

-----------------------------------------------------------------------------
(* Combinational signals.                                                      *)

\* The registers whose Case of the chunk matches the bus address.
Selected(c, addr) ==
  {u.reg : u \in {v \in Uses : /\ v.chunk = c
                               /\ Routed(v.reg.bus, addr)
                               /\ v.addr = SubAddr(v.reg.bus, addr)}}

AnyChunk(r, addr) == \E c \in Chunks : r \in Selected(c, addr)   \* mutant

\* element.r_stb, when the bus reads addr: only at the start of a register.
Strobed(r, addr) == \E c \in Chunks : r \in Selected(c, addr) /\ addr = r.start

\* Every chunk of a strobed register captures its part of the register.
Capture(addr) ==
  r_shadow' = [c \in Chunks |->
                 LET sources == {u \in Uses : u.chunk = c /\ Strobed(u.reg, addr)}
                 IN  IF sources = {} THEN r_shadow[c]
                     ELSE UNION {val[u.reg.bus + u.addr] : u \in sources}]

\* The OR, over the buses, of the OR over the chunks of each.
BusRData == UNION {r_shadow[c] : c \in {d \in Chunks : r_en[d]}}

\* element.w_data: the register's chunks of the shadow.
ChunkAt(r, a) == (CHOOSE u \in Uses : u.reg = r /\ u.addr = SubAddr(r.bus, a)).chunk

WData(r) == [a \in AddressesOf(r) |-> w_shadow[ChunkAt(r, a)]]

-----------------------------------------------------------------------------
(* What the multiplexer does in a cycle, given its bus inputs.                 *)

\* A strobed register takes its value, and any other volatile one may change.
Registers ==
  \E hw \in [AllAddresses(Volatile) -> Data] :
    val' = [a \in AllAddresses(Regs) |->
              LET r == CHOOSE s \in Regs : a \in AddressesOf(s)
              IN  IF w_stb[r] THEN WData(r)[a]
                  ELSE IF r \in Volatile THEN hw[a] ELSE val[a]]

BusRead(addr) ==
  /\ Capture(addr)
  /\ r_en' = [c \in Chunks |-> Selected(c, addr) # {}]
  /\ w_stb' = [s \in Regs |-> FALSE]
  /\ Registers
  /\ UNCHANGED w_shadow

\* element.w_stb in the next cycle: a write to the last chunk.
NextWStb(r, addr) == \E c \in Chunks : r \in Selected(c, addr) /\ addr = r.stop - 1

BusWrite(addr, d) ==
  /\ w_shadow' = [c \in Chunks |-> IF Selected(c, addr) # {} THEN d ELSE w_shadow[c]]
  /\ w_stb' = [r \in Regs |-> NextWStb(r, addr)]
  /\ r_en' = [c \in Chunks |-> FALSE]
  /\ Registers
  /\ UNCHANGED r_shadow

BusIdle ==
  /\ r_en' = [c \in Chunks |-> FALSE]
  /\ w_stb' = [r \in Regs |-> FALSE]
  /\ Registers
  /\ UNCHANGED <<r_shadow, w_shadow>>

-----------------------------------------------------------------------------
(* The initiator has the bus for the duration of a transaction, goes through   *)
(* a register in ascending order, and may pause or abort after any cycle.      *)
Advance(kind, r, addr) ==
  /\ addr = r.start \/ txn = [kind |-> kind, reg |-> r, next |-> addr]
  /\ txn' = [kind |-> kind, reg |-> r, next |-> addr + 1]

ReadChunk(r, addr)     == Advance("read", r, addr) /\ BusRead(addr)
WriteChunk(r, addr, d) == Advance("write", r, addr) /\ BusWrite(addr, d)
Pause                  == BusIdle /\ UNCHANGED txn

Init ==
  /\ val = [a \in AllAddresses(Regs) |-> {}]
  /\ txn = [kind |-> "none"]
  /\ r_shadow = [c \in Chunks |-> {}]
  /\ w_shadow = [c \in Chunks |-> {}]
  /\ r_en = [c \in Chunks |-> FALSE]
  /\ w_stb = [r \in Regs |-> FALSE]

Direct == \/ \E r \in Reached : \E addr \in AddressesOf(r) :
               ReadChunk(r, addr) \/ \E d \in Data : WriteChunk(r, addr, d)
          \/ Pause

-----------------------------------------------------------------------------
(* What the registers are to their initiator.                                  *)

\* The transaction that an access by a bridge, which knows no registers, is
\* part of.
Follow(kind, addr) ==
  IF \E r \in Regs : addr \in AddressesOf(r)
  THEN txn' = [kind |-> kind, next |-> addr + 1,
               reg |-> CHOOSE r \in Regs : addr \in AddressesOf(r)]
  ELSE UNCHANGED txn

Captured(r) == [a \in AddressesOf(r) |-> r_shadow[ChunkAt(r, a)]]
Nothing     == [a \in {} |-> {}]

Snap    == IF txn.kind = "read" THEN Captured(txn.reg) ELSE Nothing
Sent    == IF txn.kind # "write" THEN Nothing
           ELSE [a \in txn.reg.start .. txn.next - 1 |-> WData(txn.reg)[a]]
Commits == {WData(r) : r \in {s \in Regs : w_stb[s]}}

Atomic == INSTANCE CsrAtomic WITH
  snap <- Snap, sent <- Sent, answer <- BusRData, commits <- Commits
=============================================================================
