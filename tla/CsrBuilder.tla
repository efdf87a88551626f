----------------------------- MODULE CsrBuilder -----------------------------
(* Registers with their fields, and the builder that collects them for a map    *)
(* (csr/reg.py, classes Register, FieldActionMap, FieldActionArray, Builder).   *)
(* A call that is refused changes nothing.                                      *)
EXTENDS Integers, SequencesExt

CONSTANTS Registers,                \* by name: their access and field collections
          Nesting,                  \* of the deepest of these collections
          DataWidth, Granularity,   \* of the builder
          Labels,                   \* clusters and array indices
          Offsets                   \* the explicit offsets that callers ask for

NoOffset == -1

VARIABLES registers,        \* self._registers: they come with names and offsets
          scope,            \* self._scope_stack
          builder_frozen

builderVars == <<registers, scope, builder_frozen>>

-----------------------------------------------------------------------------
(* A collection is a field, or has items: keys with collections.               *)
\* flatten(): collections give way to their items, in order, level by level.
Opened(entry) ==
  IF "items" \notin DOMAIN entry.field THEN <<entry>>
  ELSE [i \in DOMAIN entry.field.items |->
         [path  |-> Append(entry.path, entry.field.items[i].key),
          field |-> entry.field.items[i].value]]

Flatten(collection) ==
  LET level[n \in 0 .. Nesting] ==
        IF n = 0 THEN <<[path |-> <<>>, field |-> collection]>>
        ELSE FlattenSeq([i \in DOMAIN level[n - 1] |-> Opened(level[n - 1][i])])
  IN  level[Nesting]

\* The fields of a register, in order, and where each one begins in the element.
Fields           == [reg \in DOMAIN Registers |-> Flatten(Registers[reg].fields)]
WidthUpTo(reg, n) ==
  LET width[i \in 0 .. Len(Fields[reg])] ==
        IF i = 0 THEN 0 ELSE width[i - 1] + Fields[reg][i].field.width
  IN  width[n]
Width(reg)         == WidthUpTo(reg, Len(Fields[reg]))
FieldStart(reg, i) == WidthUpTo(reg, i - 1)

Readable(access) == access \in {"r", "rw"}
Writable(access) == access \in {"w", "rw"}

\* What Register.__init__ refuses is not a register, and what Builder.__init__
\* refuses is no granularity.
ASSUME RegistersAssumption ==
  \A reg \in DOMAIN Registers :
    /\ reg \in STRING
    /\ Fields[reg] \in Seq(Range(Fields[reg]))
    /\ \A i \in DOMAIN Fields[reg] :
         LET field == Fields[reg][i].field
         IN  /\ field.width \in Nat
             /\ Readable(field.access) => Readable(Registers[reg].access)
             /\ Writable(field.access) => Writable(Registers[reg].access)
ASSUME GranularityAssumption ==
  DataWidth \in Nat \ {0} /\ Granularity \in Nat \ {0} /\ DataWidth % Granularity = 0
ASSUME CallsAssumption == Labels \subseteq STRING /\ Offsets \subseteq Nat

-----------------------------------------------------------------------------
\* Entering and leaving Cluster and Index; a context is left before the one
\* around it.  MaxDepth bounds the nesting.
MaxDepth == 1

Enter(label) ==
  /\ Len(scope) < MaxDepth
  /\ scope' = Append(scope, label)
  /\ UNCHANGED <<registers, builder_frozen>>

Leave ==
  /\ scope # <<>>
  /\ scope' = SubSeq(scope, 1, Len(scope) - 1)
  /\ UNCHANGED <<registers, builder_frozen>>

Add(reg, offset) ==
  /\ ~builder_frozen
  /\ offset # NoOffset => offset % (DataWidth \div Granularity) = 0
  /\ \A i \in DOMAIN registers : registers[i].reg # reg
  /\ registers' = Append(registers, [reg |-> reg, name |-> Append(scope, reg),
                                     offset |-> offset])
  /\ UNCHANGED <<scope, builder_frozen>>

\* as_memory_map() begins; it is called outside of all clusters here.
Finish ==
  /\ ~builder_frozen /\ scope = <<>>
  /\ builder_frozen' = TRUE
  /\ UNCHANGED <<registers, scope>>

\* What as_memory_map() asks the map for.
RegAddr(entry) == IF entry.offset = NoOffset THEN NoOffset
                  ELSE (entry.offset * Granularity) \div DataWidth

WholeChunks(reg) == Width(reg) \div DataWidth   \* mutant of RegChunks

RegChunks(reg) == (Width(reg) + DataWidth - 1) \div DataWidth

CeilLog2(n) == CHOOSE k \in 0 .. n : 2^k >= n /\ \A j \in 0 .. k - 1 : 2^j < n

BuilderInit == registers = <<>> /\ scope = <<>> /\ builder_frozen = FALSE

Build == \/ \E label \in Labels : Enter(label)
         \/ Leave
         \/ \E reg \in DOMAIN Registers, offset \in Offsets \union {NoOffset} : Add(reg, offset)
         \/ Finish
=============================================================================
