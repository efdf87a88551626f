------------------------------ MODULE MemoryMap ------------------------------
(* A memory map while a design is built (memory.py, class MemoryMap): resources *)
(* and windows, which are maps of subordinate buses, get address ranges, and    *)
(* then the map is frozen and the decoders use it.  A call that is refused      *)
(* changes nothing.  Windows here hold resources only.                          *)
EXTENDS Integers, SequencesExt

CONSTANTS AddrWidth, Alignment,   \* the map's own
          Resources,     \* the resources that callers add, with their names
          Windows,       \* its windows: name, addr_width, ratio of the data widths
                         \* and, by name, the ranges of their resources
          Sizes,         \* what the callers ask for: sizes,
          Addresses,     \* explicit addresses
          Alignments     \* and alignments

NoAddr    == -1
Anonymous == <<>>

ASSUME WidthAssumption   == AddrWidth \in Nat \ {0} /\ Alignment \in 0 .. AddrWidth
ASSUME ResourcesAssumption ==
  /\ DOMAIN Resources \cap DOMAIN Windows = {}
  /\ \A r \in DOMAIN Resources : Resources[r] \in Seq(STRING)
\* A window is a map itself: no name there is a prefix of another.
ASSUME WindowsAssumption ==
  \A w \in DOMAIN Windows :
    /\ Windows[w].addr_width \in Nat /\ Windows[w].ratio \in Nat \ {0}
    /\ Windows[w].name \in Seq(STRING)
    /\ \A r \in DOMAIN Windows[w].resources :
         LET range == Windows[w].resources[r]
         IN  /\ r \in Seq(STRING)
             /\ \A s \in DOMAIN Windows[w].resources : r # s => ~IsPrefix(r, s)
             /\ range.start \in Nat /\ range.stop \in Nat
             /\ range.start < range.stop /\ range.stop <= 2 ^ Windows[w].addr_width
             /\ range.start % Windows[w].ratio = 0 /\ range.stop % Windows[w].ratio = 0
ASSUME ArgumentsAssumption ==
  Sizes \subseteq Nat /\ Addresses \subseteq Nat /\ Alignments \subseteq Nat
\* Arithmetic: so are all powers of two.
ASSUME PowersAssumption ==
  /\ \A n \in Alignments \cup {Alignment} : 2^n > 0
  /\ \A w \in DOMAIN Windows :
       2^Windows[w].addr_width > 0 /\ 2^(Windows[w].addr_width \div Windows[w].ratio) > 0

VARIABLES keys,        \* self._ranges: ranges with their items and the items'
                       \* names, in ascending order
          names,       \* the keys of self._namespace
          next_addr,   \* self._next_addr
          frozen       \* self._frozen

vars == <<keys, names, next_addr, frozen>>

-----------------------------------------------------------------------------
(* _RangeMap: the starts and the stops of the keys are sorted, so bisecting    *)
(* them counts those below a point.                                            *)
StopsUpTo(point)    == Cardinality({i \in DOMAIN keys : keys[i].stop <= point})
StartsUpTo(point)   == Cardinality({i \in DOMAIN keys : keys[i].start <= point})
StartsBefore(point) == Cardinality({i \in DOMAIN keys : keys[i].start < point})

Overlaps(range) == StopsUpTo(range.start) < StartsBefore(range.stop)

Insert(key) == keys' = InsertAt(keys, StartsUpTo(key.start) + 1, key)

\* The keys that contain point: one or none.
Get(point) ==
  LET i == StopsUpTo(point) + 1
  IN  IF i <= Len(keys) /\ point >= keys[i].start THEN {keys[i]} ELSE {}

-----------------------------------------------------------------------------
(* _Namespace: a name must not be a prefix of another.                         *)
EqualOnly(queries) == \A n \in queries : n \notin names   \* mutant of IsAvailable

IsAvailable(queries) ==
  \A n \in queries, m \in names : ~IsPrefix(n, m) /\ ~IsPrefix(m, n)

Queries(w) == IF Windows[w].name = Anonymous THEN DOMAIN Windows[w].resources
              ELSE {Windows[w].name}

-----------------------------------------------------------------------------
MaxOf(a, b) == IF a > b THEN a ELSE b

AlignUp(value, alignment) ==
  IF value % 2^alignment = 0 THEN value
  ELSE value + 2^alignment - (value % 2^alignment)

ComputeRange(addr, size, alignment) ==
  LET start == IF addr = NoAddr THEN AlignUp(next_addr, alignment) ELSE addr
  IN  [start |-> start, stop |-> start + AlignUp(MaxOf(size, 1), alignment)]

Accepted(addr, range) ==
  /\ addr # NoAddr => addr % 2^Alignment = 0
  /\ range.stop <= 2^AddrWidth
  /\ ~Overlaps(range)

Unplaced(item) == \A i \in DOMAIN keys : keys[i].item # item

Place(item, name, range, step) ==
  /\ Insert([start |-> range.start, stop |-> range.stop, step |-> step,
             item |-> item, name |-> name])
  /\ next_addr' = range.stop

AddResource(r, name, size, addr, alignment) ==
  /\ ~frozen /\ Unplaced(r)
  /\ IsAvailable({name})
  /\ LET range == ComputeRange(addr, size, MaxOf(alignment, Alignment))
     IN  Accepted(addr, range) /\ Place(r, name, range, 1)
  /\ names' = names \union {name}
  /\ UNCHANGED frozen

AddWindow(w, addr) ==
  /\ ~frozen /\ Unplaced(w)
  /\ IsAvailable(Queries(w))
  /\ LET ratio == Windows[w].ratio
         range == ComputeRange(addr, 2^Windows[w].addr_width \div ratio,
                               MaxOf(Alignment, Windows[w].addr_width \div ratio))
     IN  Accepted(addr, range) /\ Place(w, Windows[w].name, range, ratio)
  /\ names' = names \union Queries(w)
  /\ UNCHANGED frozen

AlignTo(alignment) ==
  /\ next_addr' = AlignUp(next_addr, MaxOf(alignment, Alignment))
  /\ UNCHANGED <<keys, names, frozen>>

Freeze == frozen' = TRUE /\ UNCHANGED <<keys, names, next_addr>>

Init == keys = <<>> /\ names = {} /\ next_addr = 0 /\ frozen = FALSE

Call ==
  \/ \E r \in DOMAIN Resources, size \in Sizes, addr \in Addresses \union {NoAddr} :
       \E alignment \in Alignments : AddResource(r, Resources[r], size, addr, alignment)
  \/ \E w \in DOMAIN Windows, addr \in Addresses \union {NoAddr} : AddWindow(w, addr)
  \/ \E alignment \in Alignments : AlignTo(alignment)
  \/ Freeze

\* The map and its callers alone.
Spec == Init /\ [][Call]_vars

-----------------------------------------------------------------------------
(* What the map is asked.                                                      *)

IsResource(key) == key.item \notin DOMAIN Windows

IgnoresStep(address) ==    \* mutant of DecodeAddress
  LET Through(key, r) == LET range == Windows[key.item].resources[r]
                             inner == address - key.start
                         IN  range.start <= inner /\ inner < range.stop
  IN  UNION {IF IsResource(key) THEN {<<key.item>>}
             ELSE {<<key.item, r>> : r \in {q \in DOMAIN Windows[key.item].resources :
                                              Through(key, q)}} : key \in Get(address)}

\* The resources that decode_address returns: one or none.
DecodeAddress(address) ==
  LET Through(key, r) == LET range == Windows[key.item].resources[r]
                             inner == (address - key.start) * key.step
                         IN  range.start <= inner /\ inner < range.stop
  IN  UNION {IF IsResource(key) THEN {<<key.item>>}
             ELSE {<<key.item, r>> : r \in {q \in DOMAIN Windows[key.item].resources :
                                              Through(key, q)}} : key \in Get(address)}

\* The range that find_resource and all_resources give a window's resource.
Translate(key, range) ==
  LET start == range.start \div key.step + key.start
  IN  [start |-> start, stop |-> start + (range.stop - range.start) \div key.step]

\* All resources, with the ranges where they are found and their paths.
AllResources ==
  UNION {IF IsResource(keys[i])
         THEN {[id |-> <<keys[i].item>>, path |-> keys[i].name,
                start |-> keys[i].start, stop |-> keys[i].stop]}
         ELSE LET window == Windows[keys[i].item]
              IN  {[id    |-> <<keys[i].item, r>>,
                    path  |-> keys[i].name \o r,
                    start |-> Translate(keys[i], window.resources[r]).start,
                    stop  |-> Translate(keys[i], window.resources[r]).stop]
                     : r \in DOMAIN window.resources}
           : i \in DOMAIN keys}

\* Mutant of Matches: the pattern as wide as a window of twice the size.
TooWide(key, address) ==
  LET size == 2 * 2^Windows[key.item].addr_width
  IN  address \div size = key.start \div size

\* window_patterns: whether an address has the constant bits of a window.
Matches(key, address) ==
  address \div 2^Windows[key.item].addr_width = key.start \div 2^Windows[key.item].addr_width

WindowKeys == {keys[i] : i \in {j \in DOMAIN keys : keys[j].item \in DOMAIN Windows}}

BusAddresses == 0 .. 2^AddrWidth - 1

-----------------------------------------------------------------------------
(* Decoding an address and finding a resource are inverse to each other, also  *)
(* through dense windows: decode_address returns a resource exactly at the     *)
(* addresses of the range where find_resource and all_resources place it.      *)
LookupsAgree ==
  \A a \in BusAddresses : \A r \in AllResources :
    (r.id \in DecodeAddress(a)) <=> (r.start <= a /\ a < r.stop)

(* No resource's path is that of another, or leads to another, whether it is   *)
(* local or in a window with or without a name.                                *)
PathsAreDistinct ==
  \A r, s \in AllResources : r.id # s.id => ~IsPrefix(r.path, s.path)

(* "pattern may be used to determine if an address signal is within the        *)
(* address range of window": an address that leads to a resource in a window   *)
(* matches the pattern of that window and of no other.                         *)
PatternsSelect ==
  \A a \in BusAddresses : \A k, l \in WindowKeys :
    k \in Get(a) /\ (\E r \in DOMAIN Windows[k.item].resources : <<k.item, r>> \in DecodeAddress(a))
      => (Matches(l, a) <=> k = l)

(* The same, where every window is of a bus as wide as the map's, and starts at *)
(* a multiple of 2 ** window.addr_width as the map itself places it.           *)
PlainPatternsSelect ==
  (\A k \in WindowKeys : k.step = 1 /\ k.start % 2^Windows[k.item].addr_width = 0)
    => PatternsSelect
=============================================================================
