------------------------------ MODULE CsrLayout ------------------------------
(* From registers to wires: a memory map is filled by a CSR builder, or by      *)
(* whoever calls it, and frozen; a bridge gives it to a multiplexer, which lays *)
(* out its two shadow registers for it.                                         *)
EXTENDS MemoryMap, CsrBuilder

CONSTANT ShadowOverlaps   \* shadow_overlaps

ASSUME OverlapsAssumption == ShadowOverlaps \in Nat

VARIABLES filled_by,   \* who fills the map: "builder" or "callers"
          direction,   \* which of the two shadows this is: "r" or "w"
          refused,     \* the map refused a register of the builder
          ranges, size, stage   \* of the shadow

allVars == <<vars, builderVars, filled_by, direction, refused, ranges, size, stage>>

Shadow == INSTANCE CsrShadow WITH MaxAddr <- 2^AddrWidth

mapVars == vars

\* Registers, resources and windows are different objects.  The rest is
\* arithmetic: n < 2^n, and a power of two divides the larger ones.
ASSUME LayoutAssumption ==
  /\ DOMAIN Registers \cap (DOMAIN Resources \cup DOMAIN Windows) = {}
  /\ 2^AddrWidth \in Nat \ {0} /\ 2^AddrWidth <= 2^(2^AddrWidth)
  /\ Shadow!PowersOfTwo \subseteq Nat \ {0} /\ 1 \in Shadow!PowersOfTwo
  /\ \A m, n \in Shadow!PowersOfTwo : m <= n => n % m = 0
  /\ \A reg \in DOMAIN Registers : 2^CeilLog2(RegChunks(reg)) \in Nat \ {0}

LayoutInit ==
  /\ Init /\ BuilderInit /\ Shadow!Init
  /\ \/ filled_by = "builder" /\ direction \in {"r", "w"}
     \/ filled_by = "callers" /\ direction = "r"   \* both are alike
  /\ refused = FALSE

-----------------------------------------------------------------------------
\* as_memory_map(): one register after the other, and then it is frozen.
Mapped(i) == ~Unplaced(registers[i].reg)
IsNext(i) == ~Mapped(i) /\ \A j \in 1 .. i - 1 : Mapped(j)

AskMap(entry) ==
  LET chunks == RegChunks(entry.reg)
  IN  AddResource(entry.reg, entry.name, chunks, RegAddr(entry), CeilLog2(chunks))

Mappable(entry) ==
  LET chunks == RegChunks(entry.reg)
  IN  /\ IsAvailable({entry.name})
      /\ Accepted(RegAddr(entry),
                  ComputeRange(RegAddr(entry), chunks, MaxOf(CeilLog2(chunks), Alignment)))

MapNext ==
  /\ builder_frozen /\ ~refused /\ ~frozen
  /\ \/ \E i \in DOMAIN registers :
          /\ IsNext(i)
          /\ \/ AskMap(registers[i]) /\ UNCHANGED refused
             \/ ~Mappable(registers[i]) /\ refused' = TRUE /\ UNCHANGED mapVars
     \/ (\A i \in DOMAIN registers : Mapped(i)) /\ Freeze /\ UNCHANGED refused
  /\ UNCHANGED <<builderVars, ranges, size, stage>>

\* A register's element has the access that says which shadows it is in.  What
\* callers add has both.
InShadow(item) ==
  item \in DOMAIN Registers =>
    IF direction = "r" THEN Readable(Registers[item].access) ELSE Writable(Registers[item].access)

\* Bridge and Multiplexer: the map has no windows, and both are of registers.
Elaborating == frozen /\ \A i \in DOMAIN keys : IsResource(keys[i])

RangesToAdd ==
  {[start |-> keys[i].start, stop |-> keys[i].stop] : i \in {j \in DOMAIN keys : InShadow(keys[j].item)}}

Elaborate ==
  /\ Elaborating
  /\ \/ \E r \in RangesToAdd \ ranges :
          (\A s \in RangesToAdd \ ranges : r.start <= s.start) /\ Shadow!Add(r)
     \/ RangesToAdd = ranges /\ Shadow!Prepare
     \/ Shadow!Double
     \/ Shadow!Freeze
  /\ UNCHANGED <<mapVars, builderVars, refused>>

LayoutNext ==
  /\ UNCHANGED <<filled_by, direction>>
  /\ \/ filled_by = "builder" /\ Build /\ UNCHANGED <<mapVars, refused, ranges, size, stage>>
     \/ filled_by = "builder" /\ MapNext
     \/ filled_by = "callers" /\ Call /\ UNCHANGED <<builderVars, refused, ranges, size, stage>>
     \/ Elaborate

LayoutSpec == LayoutInit /\ [][LayoutNext]_allVars /\ WF_<<ranges, size, stage>>(Elaborate)

-----------------------------------------------------------------------------
Bits(reg) == 0 .. Width(reg) - 1

\* The address and the bit of the bus where a bit of a register is.
Position(key, bit) == <<key.start + (bit \div DataWidth), bit % DataWidth>>

(* Every bit of every field of a builder's register can be reached: its bus     *)
(* address is in the register's range and decodes to that register, and        *)
(* no other field's bit is there.                                              *)
FieldBitsAreReached ==
  \A k \in {i \in DOMAIN keys : keys[i].item \in DOMAIN Registers} :
    LET reg == keys[k].item
    IN  \A i \in DOMAIN Fields[reg] : \A bit \in 0 .. Fields[reg][i].field.width - 1 :
          LET position == Position(keys[k], FieldStart(reg, i) + bit)
          IN  /\ DecodeAddress(position[1]) = {<<reg>>}
              /\ \A j \in DOMAIN Fields[reg] : \A other \in 0 .. Fields[reg][j].field.width - 1 :
                   Position(keys[k], FieldStart(reg, j) + other) = position
                     => i = j /\ bit = other

(* In a shadow of any size that prepare() settles on, every address of a       *)
(* register has a chunk of its own among the size chunks, and encode_offset    *)
(* finds the address back: elaborate() wires each chunk to the right part of   *)
(* the register, aligned or not.                                               *)
ChunksRoundTrip ==
  \A r \in ranges : \A addr \in Shadow!AddressesOf(r) :
    LET offset == Shadow!DecodeAddress(addr, r, size)
    IN  offset \in 0 .. size - 1 /\ Shadow!EncodeOffset(offset, r) = addr

(* prepare() returns when every register starts at a multiple of its size, as  *)
(* a builder's registers do that are not given an offset.                      *)
TerminatesAligned ==
  stage = "preparing" /\ (\A r \in ranges : r.start % Shadow!RegSize(r) = 0) ~> stage = "done"
=============================================================================
