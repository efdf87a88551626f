---------------------------- MODULE CsrPathProofs ----------------------------
(* The CSR registers and the three ways to them, for any registers, windows    *)
(* and widths: what the run csr_path checks.                                   *)
EXTENDS CsrPath, TLAPS, WellFoundedInduction

-----------------------------------------------------------------------------
(* Remainders.                                                                 *)

LEMMA RemainderOfSum ==
  ASSUME NEW d \in Nat \ {0}, NEW k \in Int, NEW x \in 0 .. d - 1
  PROVE  (k * d + x) % d = x
  <1>1. \A m, n \in Int : m % d = 0 /\ m <= n /\ n < m + d => n % d = n - m
    OBVIOUS
  <1>2. (k * d) % d = 0 /\ k * d \in Int
    OBVIOUS
  <1> QED
    BY <1>1, <1>2

LEMMA RemainderInWindow ==
  ASSUME NEW d \in Nat \ {0}, NEW m \in Int, NEW n \in Int, m % d = 0, m <= n, n < m + d
  PROVE  n % d = n - m
  OBVIOUS

LEMMA Division ==
  ASSUME NEW d \in Nat \ {0}, NEW x \in Int
  PROVE  /\ x \div d \in Int
         /\ x % d \in 0 .. d - 1
         /\ x = (x \div d) * d + (x % d)
  <1>1. (x \div d) * d <= x /\ x < (x \div d) * d + d
    OBVIOUS
  <1>2. \A k \in Int : (k * d) % d = 0 /\ k * d \in Int
    OBVIOUS
  <1>3. x \div d \in Int /\ x % d \in 0 .. d - 1
    OBVIOUS
  <1> DEFINE below == (x \div d) * d
  <1>4. below \in Int /\ below % d = 0 /\ below <= x /\ x < below + d
    BY <1>1, <1>2, <1>3
  <1> HIDE DEF below
  <1>5. x % d = x - below
    BY <1>4, RemainderInWindow
  <1>6. x = below + (x % d)
    BY <1>4, <1>5
  <1> QED
    BY <1>3, <1>6 DEF below

LEMMA MultipleInside ==
  ASSUME NEW d \in Nat \ {0}, NEW m \in Int, m % d = 0, NEW k \in Int, k * d < m
  PROVE  k * d + d <= m
  <1>1. m = (m \div d) * d /\ m \div d \in Int
    BY Division
  <1>2. k < m \div d
    BY <1>1
  <1>3. k + 1 <= m \div d
    BY <1>1, <1>2
  <1>4. (k + 1) * d <= (m \div d) * d
    BY <1>1, <1>3
  <1> QED
    BY <1>1, <1>4

LEMMA LeastExists ==
  ASSUME NEW S \in SUBSET Nat, S # {}
  PROVE  \E least \in S : \A n \in S : least <= n
  <1> DEFINE Before == OpToRel(<, Nat)
  <1>1. PICK least \in S : \A n \in S : ~(<<n, least>> \in Before)
    <2>1. IsWellFoundedOn(Before, Nat)
      BY NatLessThanWellFounded
    <2> HIDE DEF Before
    <2> QED
      BY <2>1, WFMin
  <1>2. \A n \in S : n < least => <<n, least>> \in Before
    BY DEF OpToRel
  <1> HIDE DEF Before
  <1>3. ASSUME NEW n \in S PROVE least <= n
    <2>1. n \in Nat /\ least \in Nat /\ ~(n < least)
      BY <1>1, <1>2
    <2> QED
      BY <2>1
  <1> QED
    BY <1>3

-----------------------------------------------------------------------------
(* The layout of the shadows.                                                  *)

LEMMA RegTypes ==
  ASSUME NEW r \in Regs
  PROVE  /\ r.bus \in Buses /\ r.bus \in Nat /\ r.start \in Nat /\ r.stop \in Nat
         /\ r.bus <= r.start /\ r.start < r.stop /\ r.stop <= r.bus + Span[r.bus]
         /\ r.stop <= MaxAddr
         /\ Span[r.bus] \in Nat \ {0} /\ r.bus % Span[r.bus] = 0
  <1>1. /\ r.bus \in Buses /\ r.bus \in Nat /\ r.start \in Nat /\ r.stop \in Nat
        /\ r.start < r.stop /\ r.stop <= MaxAddr
        /\ r.start .. r.stop - 1 \subseteq r.bus .. r.bus + Span[r.bus] - 1
    <2>1. /\ r.bus \in Buses /\ r.start \in 0 .. MaxAddr - 1 /\ r.stop \in 1 .. MaxAddr
          /\ r.start < r.stop /\ AddressesOf(r) \subseteq Window(r.bus)
      BY RegsAssumption
    <2>2. r.bus \in 0 .. MaxAddr - 1
      BY <2>1, BusesAssumption
    <2> QED
      BY <2>1, <2>2, MaxAddrAssumption DEF AddressesOf, Window
  <1>2. Span[r.bus] \in Nat \ {0} /\ r.bus % Span[r.bus] = 0
    BY <1>1, BusesAssumption, PowersAssumption
  <1>3. r.start \in r.bus .. r.bus + Span[r.bus] - 1 /\ r.stop - 1 \in r.bus .. r.bus + Span[r.bus] - 1
    BY <1>1
  <1> QED
    BY <1>1, <1>2, <1>3

LEMMA OneRegisterAtAnAddress ==
  ASSUME NEW r \in Regs, NEW s \in Regs, NEW a, a \in AddressesOf(r), a \in AddressesOf(s)
  PROVE  r = s
  BY RegsAssumption, RegTypes DEF AddressesOf

LEMMA RegSizeFits ==
  ASSUME NEW range, range.start \in Int, range.stop \in Int, Length(range) <= MaxAddr
  PROVE  RegSize(range) \in PowersOfTwo /\ Length(range) <= RegSize(range)
  <1> DEFINE fitting == {n \in PowersOfTwo : Length(range) <= n}
  <1>1. 2^MaxAddr \in PowersOfTwo
    BY MaxAddrAssumption DEF PowersOfTwo
  <1>2. fitting \in SUBSET Nat /\ fitting # {}
    <2>1. 2^MaxAddr \in Nat /\ MaxAddr <= 2^MaxAddr
      BY <1>1, PowersAssumption
    <2>2. Length(range) \in Int /\ MaxAddr \in Nat
      BY MaxAddrAssumption DEF Length
    <2>3. Length(range) <= 2^MaxAddr
      BY <2>1, <2>2
    <2> QED
      BY <1>1, <2>3, PowersAssumption
  <1>3. PICK least \in fitting : \A n \in fitting : least <= n
    <2> HIDE DEF fitting
    <2> QED
      BY <1>2, LeastExists
  <1> QED
    BY <1>3 DEF RegSize

LEMMA SizeFits ==
  ASSUME NEW bus \in Buses
  PROVE  Size[bus] \in PowersOfTwo /\ Fits(bus, Size[bus])
  <1> DEFINE fitting == {n \in PowersOfTwo : Fits(bus, n)}
  <1>1. fitting \in SUBSET Nat /\ fitting # {}
    BY SizeAssumption, PowersAssumption
  <1>2. PICK least \in fitting : \A n \in fitting : least <= n
    <2> HIDE DEF fitting
    <2> QED
      BY <1>1, LeastExists
  <1> QED
    BY <1>2 DEF Size

\* Every address of a register has a chunk of its own in the shadow, and
\* encode_offset finds the address back.
LEMMA RoundTrip ==
  ASSUME NEW r \in Regs, NEW a \in AddressesOf(r)
  PROVE  LET offset == DecodeAddress(a - r.bus, Local(r), Size[r.bus])
         IN  /\ offset \in 0 .. Size[r.bus] - 1
             /\ EncodeOffset(offset, Local(r)) = a - r.bus
  <1> DEFINE reg    == RegSize(Local(r))
             size   == Size[r.bus]
             start  == r.start - r.bus
             addr   == a - r.bus
             bottom == start % size
             upper  == bottom \div reg
  <1>1. /\ start \in Nat /\ addr \in Nat /\ start <= addr
        /\ Local(r).start = start /\ Local(r).stop = r.stop - r.bus
        /\ addr < r.stop - r.bus /\ r.stop - r.bus - start <= MaxAddr
    BY RegTypes, MaxAddrAssumption DEF AddressesOf, Local
  <1>2. reg \in Nat \ {0} /\ reg \in PowersOfTwo /\ r.stop - r.bus - start <= reg
    <2>1. Local(r).start \in Int /\ Local(r).stop \in Int /\ Length(Local(r)) <= MaxAddr
      BY <1>1, RegTypes DEF Length
    <2>2. reg \in PowersOfTwo /\ Length(Local(r)) <= reg
      BY <2>1, RegSizeFits
    <2> QED
      BY <1>1, <2>2, PowersAssumption DEF Length
  <1>3. size \in Nat \ {0} /\ size \in PowersOfTwo /\ reg <= size
    <2>1. r.bus \in Buses /\ r \in On(r.bus)
      BY RegTypes DEF On
    <2>2. size \in PowersOfTwo /\ Fits(r.bus, size)
      BY <2>1, SizeFits
    <2> QED
      BY <2>1, <2>2, PowersAssumption DEF Fits
  <1>4. size % reg = 0
    BY <1>2, <1>3, PowersAssumption
  <1>5. /\ DecodeAddress(addr, Local(r), size) = upper * reg + (addr % reg)
        /\ \A o : EncodeOffset(o, Local(r)) = start + ((o - start) % reg)
    BY <1>1 DEF DecodeAddress, EncodeOffset
  <1> HIDE DEF reg, size, start, addr
  <1>6. bottom \in 0 .. size - 1
    BY <1>1, <1>3, Division
  <1>7. upper \in Int /\ upper * reg <= bottom /\ 0 <= upper * reg /\ upper * reg \in Int
    <2> HIDE DEF bottom
    <2>1. bottom \in Nat
      BY <1>3, <1>6
    <2>2. /\ upper \in Int /\ bottom % reg \in 0 .. reg - 1
          /\ bottom = upper * reg + (bottom % reg)
      BY <1>2, <2>1, Division
    <2>3. upper * reg \in Nat
      <3>1. \A n \in Nat, d \in Nat \ {0} : n \div d \in Nat
        OBVIOUS
      <3>2. upper \in Nat
        BY <1>2, <2>1, <3>1
      <3> HIDE DEF upper
      <3> QED
        BY <1>2, <3>2
    <2> QED
      BY <1>2, <2>2, <2>3
  <1>8. upper * reg + reg <= size
    <2> HIDE DEF upper, bottom
    <2> QED
      BY <1>2, <1>3, <1>4, <1>6, <1>7, MultipleInside
  <1>9. addr % reg \in 0 .. reg - 1 /\ addr = (addr \div reg) * reg + (addr % reg)
        /\ addr \div reg \in Int
    BY <1>1, <1>2, Division
  <1>10. upper * reg + (addr % reg) \in 0 .. size - 1
    <2> DEFINE product == upper * reg
    <2> HIDE DEF upper, product
    <2>1. product \in Int /\ 0 <= product /\ product + reg <= size
      BY <1>7, <1>8 DEF product
    <2>2. product + (addr % reg) \in 0 .. size - 1
      BY <1>2, <1>3, <1>9, <2>1
    <2> QED
      BY <2>2 DEF product
  <1>11. ((upper * reg + (addr % reg)) - start) % reg = addr - start
    <2> DEFINE k == upper - (addr \div reg)
    <2> HIDE DEF upper
    <2>1. k \in Int /\ addr - start \in 0 .. reg - 1
      <3>1. upper \in Int /\ addr \div reg \in Int
        BY <1>7, <1>9
      <3>2. addr - start \in 0 .. reg - 1
        BY <1>1, <1>2, RegTypes DEF addr, start
      <3> QED
        BY <3>1, <3>2
    <2>2. upper * reg = k * reg + (addr \div reg) * reg
      BY <1>2, <1>7, <1>9
    <2>3. (k * reg + (addr - start)) % reg = addr - start
      BY <1>2, <2>1, RemainderOfSum
    <2>4. (upper * reg + (addr % reg)) - start = k * reg + (addr - start)
      <3> DEFINE times == (addr \div reg) * reg
                 product == k * reg
      <3> HIDE DEF k
      <3>1. times \in Int /\ product \in Int
        BY <1>2, <1>9, <2>1
      <3> HIDE DEF times, product
      <3>2. upper * reg = product + times /\ addr = times + (addr % reg)
        BY <1>9, <2>2 DEF times, product
      <3>3. (upper * reg + (addr % reg)) - start = product + (addr - start)
        BY <1>1, <1>2, <1>9, <3>1, <3>2
      <3> QED
        BY <3>3 DEF product
    <2> QED
      BY <2>3, <2>4
  <1>12. start + (addr - start) = addr
    BY <1>1
  <1>13. /\ DecodeAddress(addr, Local(r), size) \in 0 .. size - 1
         /\ EncodeOffset(DecodeAddress(addr, Local(r), size), Local(r)) = addr
    <2> DEFINE offset == upper * reg + (addr % reg)
    <2>1. offset \in 0 .. size - 1 /\ DecodeAddress(addr, Local(r), size) = offset
      BY <1>5, <1>10
    <2>2. EncodeOffset(offset, Local(r)) = start + ((offset - start) % reg)
      BY <1>5
    <2>3. (offset - start) % reg = addr - start
      BY <1>11
    <2> HIDE DEF offset
    <2> QED
      BY <1>12, <2>1, <2>2, <2>3
  <1> QED
    BY <1>13 DEF addr, size

\* How a register uses the chunk of one of its addresses.
UseOf(r, a) ==
  LET offset == DecodeAddress(a - r.bus, Local(r), Size[r.bus])
  IN  [reg |-> r, chunk |-> <<r.bus, offset>>, addr |-> EncodeOffset(offset, Local(r))]

LEMMA UseOfAddress ==
  ASSUME NEW r \in Regs, NEW a \in AddressesOf(r)
  PROVE  /\ UseOf(r, a) \in Uses
         /\ UseOf(r, a).reg = r /\ UseOf(r, a).addr = a - r.bus
         /\ UseOf(r, a).chunk \in Chunks
         /\ SubAddr(r.bus, a) = a - r.bus /\ Routed(r.bus, a)
  <1>1. a - r.bus \in AddressesOf(Local(r))
    BY RegTypes DEF AddressesOf, Local
  <1>2. UseOf(r, a) \in Uses
    BY <1>1 DEF UseOf, Uses, OffsetsOf
  <1>3. /\ UseOf(r, a).reg = r /\ UseOf(r, a).addr = a - r.bus
        /\ UseOf(r, a).chunk \in {r.bus} \X (0 .. Size[r.bus] - 1)
    BY RoundTrip DEF UseOf
  <1>4. UseOf(r, a).chunk \in Chunks
    BY <1>3, RegTypes DEF Chunks
  <1>5. /\ a \in Int /\ r.bus <= a /\ a < r.bus + Span[r.bus]
        /\ r.bus \in Int /\ Span[r.bus] \in Nat \ {0} /\ r.bus % Span[r.bus] = 0
    BY RegTypes DEF AddressesOf
  <1>6. a % Span[r.bus] = a - r.bus
    BY <1>5, RemainderInWindow
  <1>7. Routed(r.bus, a)
    BY <1>5 DEF Routed, Window
  <1> QED
    BY <1>2, <1>3, <1>4, <1>6, <1>7 DEF SubAddr

LEMMA UsesAreOfAddresses ==
  ASSUME NEW u \in Uses
  PROVE  /\ u.reg \in Regs
         /\ u.addr + u.reg.bus \in AddressesOf(u.reg)
         /\ u = UseOf(u.reg, u.addr + u.reg.bus)
  <1>1. PICK r \in Regs : \E o \in OffsetsOf(r) :
          u = [reg |-> r, chunk |-> <<r.bus, o>>, addr |-> EncodeOffset(o, Local(r))]
    BY DEF Uses
  <1>2. PICK b \in AddressesOf(Local(r)) :
          LET o == DecodeAddress(b, Local(r), Size[r.bus])
          IN  u = [reg |-> r, chunk |-> <<r.bus, o>>, addr |-> EncodeOffset(o, Local(r))]
    BY <1>1 DEF OffsetsOf
  <1>3. b + r.bus \in AddressesOf(r) /\ b = (b + r.bus) - r.bus
    BY RegTypes DEF AddressesOf, Local
  <1>4. u = UseOf(r, b + r.bus)
    BY <1>2, <1>3 DEF UseOf
  <1>5. u.reg = r /\ u.addr = b
    BY <1>3, <1>4, UseOfAddress
  <1> QED
    BY <1>3, <1>4, <1>5

LEMMA ChunkAtIs ==
  ASSUME NEW r \in Regs, NEW a \in AddressesOf(r)
  PROVE  /\ ChunkAt(r, a) = UseOf(r, a).chunk
         /\ ChunkAt(r, a) \in Chunks
  <1> DEFINE use == CHOOSE u \in Uses : u.reg = r /\ u.addr = SubAddr(r.bus, a)
  <1>1. use \in Uses /\ use.reg = r /\ use.addr = a - r.bus
    BY UseOfAddress
  <1>2. use.addr + use.reg.bus = a
    BY <1>1, RegTypes DEF AddressesOf
  <1>3. use = UseOf(r, a)
    <2> HIDE DEF use
    <2> QED
      BY <1>1, <1>2, UsesAreOfAddresses
  <1> QED
    BY <1>3, UseOfAddress DEF ChunkAt

\* No two addresses of a register share a chunk.
LEMMA ChunksAreDistinct ==
  ASSUME NEW r \in Regs, NEW a \in AddressesOf(r), NEW b \in AddressesOf(r),
         ChunkAt(r, a) = ChunkAt(r, b)
  PROVE  a = b
  <1>1. UseOf(r, a).chunk = UseOf(r, b).chunk
    BY ChunkAtIs
  <1>2. UseOf(r, a).addr = UseOf(r, b).addr
    BY <1>1 DEF UseOf
  <1>3. a - r.bus = b - r.bus
    BY <1>2, UseOfAddress
  <1> QED
    BY <1>3, RegTypes DEF AddressesOf

LEMMA SelectedIs ==
  ASSUME NEW c, NEW addr
  PROVE  Selected(c, addr) = {r \in Regs : addr \in AddressesOf(r) /\ c = ChunkAt(r, addr)}
  <1>1. ASSUME NEW r \in Selected(c, addr)
        PROVE  r \in Regs /\ addr \in AddressesOf(r) /\ c = ChunkAt(r, addr)
    <2>1. PICK u \in Uses : /\ u.reg = r /\ u.chunk = c
                            /\ Routed(r.bus, addr) /\ u.addr = SubAddr(r.bus, addr)
      BY DEF Selected
    <2>2. r \in Regs /\ u.addr + r.bus \in AddressesOf(r) /\ u = UseOf(r, u.addr + r.bus)
      BY <2>1, UsesAreOfAddresses
    <2>3. u.addr = addr - r.bus /\ addr \in Int /\ r.bus \in Int
      <3>1. /\ addr \in Int /\ r.bus <= addr /\ addr < r.bus + Span[r.bus]
            /\ r.bus \in Int /\ Span[r.bus] \in Nat \ {0} /\ r.bus % Span[r.bus] = 0
        BY <2>1, <2>2, RegTypes DEF Routed, Window
      <3>2. addr % Span[r.bus] = addr - r.bus
        BY <3>1, RemainderInWindow
      <3> QED
        BY <2>1, <3>1, <3>2 DEF SubAddr
    <2>4. u.addr + r.bus = addr
      BY <2>3
    <2> QED
      BY <2>1, <2>2, <2>4, ChunkAtIs
  <1>2. ASSUME NEW r \in Regs, addr \in AddressesOf(r), c = ChunkAt(r, addr)
        PROVE  r \in Selected(c, addr)
    <2>1. /\ UseOf(r, addr) \in Uses /\ UseOf(r, addr).reg = r /\ UseOf(r, addr).chunk = c
          /\ UseOf(r, addr).addr = SubAddr(r.bus, addr) /\ Routed(r.bus, addr)
      BY <1>2, UseOfAddress, ChunkAtIs
    <2> QED
      BY <2>1 DEF Selected
  <1> QED
    BY <1>1, <1>2

-----------------------------------------------------------------------------
(* What the multiplexers do in a cycle, register by register.                  *)

NobodyAt(addr) == \A r \in Regs : addr \notin AddressesOf(r)

\* A read of the first address of a register captures it and leaves the chunks
\* of all others alone but those that they share.
LEMMA CapturesRegister ==
  ASSUME NEW addr, Capture(addr)
  PROVE  /\ \A r \in Regs : addr = r.start =>
              \A a \in AddressesOf(r) : r_shadow'[ChunkAt(r, a)] = val[a]
         /\ (\A r \in Regs : addr # r.start) =>
              \A c \in Chunks : r_shadow'[c] = r_shadow[c]
  <1> DEFINE sources(c) == {u \in Uses : u.chunk = c /\ Strobed(u.reg, addr)}
  <1>1. \A c \in Chunks :
          r_shadow'[c] = IF sources(c) = {} THEN r_shadow[c]
                         ELSE UNION {val[u.reg.bus + u.addr] : u \in sources(c)}
    BY DEF Capture
  <1>2. ASSUME NEW r \in Regs, NEW s \in Regs, Strobed(s, addr), addr = r.start
        PROVE  s = r
    <2>1. addr \in AddressesOf(r) /\ addr \in AddressesOf(s)
      BY <1>2, RegTypes, SelectedIs DEF Strobed, AddressesOf
    <2> QED
      BY <2>1, OneRegisterAtAnAddress
  <1>3. ASSUME NEW r \in Regs, addr = r.start, NEW a \in AddressesOf(r)
        PROVE  r_shadow'[ChunkAt(r, a)] = val[a]
    <2> DEFINE c == ChunkAt(r, a)
    <2>1. Strobed(r, addr)
      <3>1. addr \in AddressesOf(r)
        BY <1>3, RegTypes DEF AddressesOf
      <3> QED
        BY <1>3, <3>1, ChunkAtIs, SelectedIs DEF Strobed
    <2>2. UseOf(r, a) \in sources(c)
      BY <2>1, UseOfAddress, ChunkAtIs
    <2>3. ASSUME NEW u \in sources(c) PROVE u = UseOf(r, a)
      <3>1. u.reg = r /\ u.chunk = c
        BY <1>2, <1>3, <2>3, UsesAreOfAddresses
      <3>2. PICK b \in AddressesOf(r) : u = UseOf(r, b)
        BY <2>3, <3>1, UsesAreOfAddresses
      <3>3. ChunkAt(r, b) = ChunkAt(r, a)
        BY <3>1, <3>2, ChunkAtIs
      <3> QED
        BY <3>2, <3>3, ChunksAreDistinct
    <2>4. sources(c) = {UseOf(r, a)}
      BY <2>2, <2>3
    <2>5. UseOf(r, a).reg.bus + UseOf(r, a).addr = a
      BY UseOfAddress, RegTypes DEF AddressesOf
    <2>6. {val[u.reg.bus + u.addr] : u \in sources(c)} = {val[a]}
      BY <2>4, <2>5
    <2>7. r_shadow'[c] = val[a]
      <3>1. c \in Chunks /\ sources(c) # {}
        BY <2>2, ChunkAtIs
      <3>2. r_shadow'[c] = UNION {val[u.reg.bus + u.addr] : u \in sources(c)}
        BY <1>1, <3>1
      <3>3. UNION {val[a]} = val[a]
        OBVIOUS
      <3> HIDE DEF sources, c
      <3> QED
        BY <2>6, <3>2, <3>3
    <2> QED
      BY <2>7 DEF c
  <1>4. ASSUME \A r \in Regs : addr # r.start, NEW c \in Chunks
        PROVE  r_shadow'[c] = r_shadow[c]
    <2>1. sources(c) = {}
      BY <1>4, UsesAreOfAddresses DEF Strobed
    <2> HIDE DEF sources
    <2> QED
      BY <1>1, <2>1
  <1> QED
    BY <1>3, <1>4

LEMMA ReadCycle ==
  ASSUME NEW addr, BusRead(addr)
  PROVE  /\ \A r \in Regs : addr \in AddressesOf(r) => BusRData' = r_shadow'[ChunkAt(r, addr)]
         /\ NobodyAt(addr) => BusRData' = {}
         /\ \A r \in Regs : ~w_stb'[r]
  <1>1. \A c \in Chunks : r_en'[c] = (\E r \in Regs : addr \in AddressesOf(r) /\ c = ChunkAt(r, addr))
    BY SelectedIs DEF BusRead
  <1>2. BusRData' = UNION {r_shadow'[c] : c \in {d \in Chunks : r_en'[d]}}
    BY DEF BusRData, Chunks
  <1>3. ASSUME NEW r \in Regs, addr \in AddressesOf(r)
        PROVE  BusRData' = r_shadow'[ChunkAt(r, addr)]
    <2>1. ASSUME NEW c \in Chunks PROVE r_en'[c] = (c = ChunkAt(r, addr))
      BY <1>1, <1>3, ChunkAtIs, OneRegisterAtAnAddress
    <2>2. {d \in Chunks : r_en'[d]} = {ChunkAt(r, addr)}
      BY <2>1, <1>3, ChunkAtIs
    <2>3. {r_shadow'[c] : c \in {ChunkAt(r, addr)}} = {r_shadow'[ChunkAt(r, addr)]}
      OBVIOUS
    <2>4. UNION {r_shadow'[ChunkAt(r, addr)]} = r_shadow'[ChunkAt(r, addr)]
      OBVIOUS
    <2> QED
      BY <1>2, <2>2, <2>3, <2>4
  <1>4. ASSUME NobodyAt(addr) PROVE BusRData' = {}
    <2>1. {d \in Chunks : r_en'[d]} = {}
      BY <1>1, <1>4 DEF NobodyAt
    <2> QED
      BY <1>2, <2>1
  <1>5. \A r \in Regs : ~w_stb'[r]
    BY DEF BusRead
  <1> QED
    BY <1>3, <1>4, <1>5

LEMMA WriteCycle ==
  ASSUME NEW addr, NEW d, BusWrite(addr, d)
  PROVE  /\ \A r \in Regs : addr \in AddressesOf(r) => w_shadow'[ChunkAt(r, addr)] = d
         /\ \A r \in Regs : addr \in AddressesOf(r) =>
              \A a \in AddressesOf(r) \ {addr} :
                w_shadow'[ChunkAt(r, a)] = w_shadow[ChunkAt(r, a)]
         /\ NobodyAt(addr) => \A c \in Chunks : w_shadow'[c] = w_shadow[c]
         /\ \A r \in Regs : w_stb'[r] = (addr = r.stop - 1)
         /\ BusRData' = {}
  <1>1. \A c \in Chunks :
          w_shadow'[c] = IF \E r \in Regs : addr \in AddressesOf(r) /\ c = ChunkAt(r, addr)
                         THEN d ELSE w_shadow[c]
    BY SelectedIs DEF BusWrite
  <1>2. ASSUME NEW r \in Regs, addr \in AddressesOf(r)
        PROVE  /\ w_shadow'[ChunkAt(r, addr)] = d
               /\ \A a \in AddressesOf(r) \ {addr} :
                    w_shadow'[ChunkAt(r, a)] = w_shadow[ChunkAt(r, a)]
    <2>1. w_shadow'[ChunkAt(r, addr)] = d
      BY <1>1, <1>2, ChunkAtIs
    <2>2. ASSUME NEW a \in AddressesOf(r) \ {addr}
          PROVE  w_shadow'[ChunkAt(r, a)] = w_shadow[ChunkAt(r, a)]
      <3>1. ASSUME NEW s \in Regs, addr \in AddressesOf(s), ChunkAt(r, a) = ChunkAt(s, addr)
            PROVE  FALSE
        BY <1>2, <3>1, OneRegisterAtAnAddress, ChunksAreDistinct
      <3> QED
        BY <1>1, <3>1, ChunkAtIs
    <2> QED
      BY <2>1, <2>2
  <1>3. NobodyAt(addr) => \A c \in Chunks : w_shadow'[c] = w_shadow[c]
    BY <1>1 DEF NobodyAt
  <1>4. ASSUME NEW r \in Regs PROVE w_stb'[r] = (addr = r.stop - 1)
    <2>1. w_stb'[r] = NextWStb(r, addr)
      BY DEF BusWrite
    <2>2. addr = r.stop - 1 => addr \in AddressesOf(r)
      BY RegTypes DEF AddressesOf
    <2>3. NextWStb(r, addr) = (addr = r.stop - 1)
      BY <2>2, ChunkAtIs, SelectedIs DEF NextWStb
    <2> QED
      BY <2>1, <2>3
  <1>5. BusRData' = {}
    <2>1. {c \in Chunks : r_en'[c]} = {}
      BY DEF BusWrite
    <2> QED
      BY <2>1 DEF BusRData, Chunks
  <1> QED
    BY <1>2, <1>3, <1>4, <1>5

LEMMA IdleCycle ==
  ASSUME BusIdle
  PROVE  /\ BusRData' = {} /\ \A r \in Regs : ~w_stb'[r]
         /\ r_shadow' = r_shadow /\ w_shadow' = w_shadow
  <1>1. {c \in Chunks : r_en'[c]} = {}
    BY DEF BusIdle
  <1> QED
    BY <1>1 DEF BusRData, Chunks, BusIdle

-----------------------------------------------------------------------------
(* The state of the bridges.                                                   *)

TxnTyped ==
  \/ txn = [kind |-> "none"]
  \/ \E kind \in {"read", "write"}, r \in Regs : \E next \in r.start + 1 .. r.stop :
       txn = [kind |-> kind, reg |-> r, next |-> next]

IsArray(f) == f = [lane \in Lanes |-> f[lane]]

WbTyped ==
  /\ front # "wishbone" => wb = Quiet /\ ~ack /\ cycle = 0
  /\ wb \in WbRequests \union {Quiet}
  /\ ack \in BOOLEAN /\ cycle \in 0 .. Ratio /\ IsArray(dat_r)
  /\ ack => wb.cyc /\ cycle = Ratio
  /\ ~wb.cyc => cycle = 0

AxiTyped ==
  /\ front # "axi" => state = "IDLE"
  /\ axi \in AxiRequests \union {NoRequest}
  /\ state \in {"IDLE", "WRITE", "WRITE_RESP", "READ", "READ_RESP"}
  /\ state # "IDLE" => request \in AxiRequests
  /\ state \in {"WRITE", "WRITE_RESP"} => request.channel = "write"
  /\ state \in {"READ", "READ_RESP"} => request.channel = "read"
  /\ state = "WRITE" => beat \in 0 .. Ratio - 1
  /\ state = "READ" => beat \in 0 .. Ratio
  /\ IsArray(r_data)

\* The age of a request is the progress that the bridge has made with it.
Aged ==
  /\ WbBusy => age = cycle
  /\ wb.cyc /\ ack => age = Ratio + 1
  /\ AxiBusy => age = beat
  /\ state = "WRITE_RESP" => age \in {0, Ratio}
  /\ state = "READ_RESP" => age \in {0, Ratio + 1}
  /\ ~Pending /\ ~Answered => age = 0

PathInv ==
  /\ front \in {"direct", "wishbone", "axi"}
  /\ TxnTyped /\ WbTyped /\ AxiTyped /\ Aged

\* The chunks that the bridge has strobed of the word that it was asked for.
Count == IF WbBusy THEN cycle ELSE IF AxiBusy THEN beat
         ELSE IF state = "WRITE_RESP" THEN Ratio ELSE Ratio + 1

\* The transaction that the last strobe was part of.
InOrder ==
  Pending /\ Count > 0 =>
    LET addr == Addr(Asked.word, Count - 1)
    IN  \A r \in Regs :
          addr \in AddressesOf(r) /\ (front = "wishbone" => Count - 1 \in wb.sel) =>
            txn = [kind |-> IF Asked.write THEN "write" ELSE "read", reg |-> r, next |-> addr + 1]

\* A chunk that was written waits in the shadow for the last one.
Written ==
  Asked.whole /\ Asked.write =>
    \A r \in Regs \ Volatile : Within(r) =>
      \A a \in AddressesOf(r) : LaneOf(a) < Count =>
        Asked.data[LaneOf(a)] =
          IF r.stop <= Addr(Asked.word, Count) THEN AfterThisCycle(r, a) ELSE WData(r)[a]

\* A cycle after the last strobe, the registers have what was written.
Stored ==
  Asked.whole /\ Asked.write /\ Count = Ratio + 1 =>
    \A r \in Regs \ Volatile : Within(r) =>
      \A a \in AddressesOf(r) : val[a] = Asked.data[LaneOf(a)]

\* The chunks of a register that was captured are in the bridge, on the bus, or
\* in the shadow.
Fetched ==
  Asked.whole /\ ~Asked.write =>
    \A r \in Regs : Within(r) /\ LaneOf(r.start) < Count =>
      \E w \in seen : \A a \in AddressesOf(r) :
        w[LaneOf(a)] = IF LaneOf(a) < Count - 1 THEN Answer[LaneOf(a)]
                       ELSE IF LaneOf(a) = Count - 1 THEN BusRData
                       ELSE r_shadow[ChunkAt(r, a)]

-----------------------------------------------------------------------------
(* A bridge takes the same number of cycles for every request.                 *)

LEMMA RequestTypes ==
  /\ Quiet.cyc = FALSE
  /\ \A w \in WbRequests : w.cyc = TRUE /\ w.adr \in Words /\ w.we \in BOOLEAN /\ w.sel \in Selects
  /\ NoRequest.channel = "none"
  /\ \A m \in AxiRequests : m.channel \in {"read", "write"} /\ m.word \in Words
  /\ \A w \in WbRequests : w.we => w.dat_w \in [Lanes -> Data]
  /\ \A m \in AxiRequests : m.channel = "write" => m.data \in [Lanes -> Data]
  /\ \A w \in Words : w \in Nat
  <1>1. Quiet.cyc = FALSE /\ NoRequest.channel = "none"
    BY DEF Quiet, NoRequest
  <1>2. \A w \in WbRequests : w.cyc = TRUE /\ w.adr \in Words /\ w.we \in BOOLEAN /\ w.sel \in Selects
    BY DEF WbRequests
  <1>3. \A m \in AxiRequests : m.channel \in {"read", "write"} /\ m.word \in Words
    BY DEF AxiRequests
  <1>4. \A w \in Words : w \in Nat
    <2>1. Words \subseteq 0 .. MaxAddr \div Ratio - 1 /\ MaxAddr \div Ratio \in Int
      BY WordsAssumption, RatioAssumption, MaxAddrAssumption, Division
    <2> QED
      BY <2>1
  <1>5. \A w \in WbRequests : w.we => w.dat_w \in [Lanes -> Data]
    BY DEF WbRequests
  <1>6. \A m \in AxiRequests : m.channel = "write" => m.data \in [Lanes -> Data]
    BY DEF AxiRequests
  <1> QED
    BY <1>1, <1>2, <1>3, <1>4, <1>5, <1>6

LEMMA FollowTyped ==
  ASSUME TxnTyped, NEW kind \in {"read", "write"}, NEW addr, Follow(kind, addr)
  PROVE  TxnTyped'
  <1>1. CASE \E r \in Regs : addr \in AddressesOf(r)
    <2> DEFINE r == CHOOSE s \in Regs : addr \in AddressesOf(s)
    <2>1. r \in Regs /\ addr \in AddressesOf(r)
      BY <1>1
    <2>2. txn' = [kind |-> kind, reg |-> r, next |-> addr + 1]
      BY <1>1 DEF Follow
    <2> HIDE DEF r
    <2>3. addr + 1 \in r.start + 1 .. r.stop
      BY <2>1, RegTypes DEF AddressesOf
    <2> QED
      BY <2>1, <2>2, <2>3 DEF TxnTyped
  <1>2. CASE ~\E r \in Regs : addr \in AddressesOf(r)
    BY <1>2 DEF Follow, TxnTyped
  <1> QED
    BY <1>1, <1>2

LEMMA DirectPathInv ==
  ASSUME PathInv, front = "direct", front' = front, Direct, UNCHANGED <<wbVars, axiVars>>, History
  PROVE  PathInv'
  <1>1. TxnTyped'
    <2>1. ASSUME NEW kind \in {"read", "write"}, NEW r \in Regs, NEW addr \in AddressesOf(r),
                 Advance(kind, r, addr)
          PROVE  TxnTyped'
      <3>1. addr + 1 \in r.start + 1 .. r.stop
        BY RegTypes DEF AddressesOf
      <3> QED
        BY <2>1, <3>1 DEF Advance, TxnTyped
    <2>2. CASE Pause
      BY <2>2 DEF Pause, TxnTyped, PathInv
    <2>3. CASE \E r \in Reached : \E addr \in AddressesOf(r) :
                 ReadChunk(r, addr) \/ \E d \in Data : WriteChunk(r, addr, d)
      BY <2>1, <2>3, ReachedAssumption DEF ReadChunk, WriteChunk
    <2> QED
      BY <2>2, <2>3 DEF Direct
  <1>2. WbTyped' /\ AxiTyped'
    BY DEF PathInv, WbTyped, AxiTyped, wbVars, axiVars, IsArray
  <1>3. ~Pending /\ ~Answered /\ ~Pending' /\ ~Answered' /\ age' = 0
    BY RequestTypes
    DEF PathInv, WbTyped, AxiTyped, wbVars, axiVars, History, Pending, Answered, WbBusy, AxiBusy, Responding
  <1>4. Aged'
    BY <1>3 DEF Aged, Pending, Answered, Responding
  <1> QED
    BY <1>1, <1>2, <1>4 DEF PathInv

LEMMA WbPathInv ==
  ASSUME PathInv, front = "wishbone", front' = front, ByWishbone, UNCHANGED axiVars, History
  PROVE  PathInv'
  <1>1. /\ state = "IDLE" /\ state' = "IDLE"
        /\ Pending <=> wb.cyc /\ ~ack
        /\ Pending' <=> wb'.cyc /\ ~ack'
        /\ Answered <=> wb.cyc /\ ack
        /\ Answered' <=> wb'.cyc /\ ack'
    BY DEF PathInv, AxiTyped, axiVars, Pending, Answered, WbBusy, AxiBusy, Responding
  <1>2. /\ wb.cyc \in BOOLEAN /\ ack \in BOOLEAN /\ cycle \in 0 .. Ratio /\ IsArray(dat_r)
        /\ ack => wb.cyc /\ cycle = Ratio
        /\ ~wb.cyc => cycle = 0
        /\ wb.cyc /\ ~ack => age = cycle
    BY <1>1, RequestTypes DEF PathInv, WbTyped, Aged, Pending, Answered, WbBusy
  <1>3. wb' \in WbRequests \union {Quiet} /\ (wb.cyc /\ ~ack => wb' = wb)
    BY DEF ByWishbone, WbInitiator, PathInv, WbTyped
  <1>4. age' = IF wb.cyc /\ ~ack THEN cycle + 1 ELSE 0
    <2>1. CASE wb.cyc /\ ~ack
      BY <1>1, <1>2, <2>1, RatioAssumption DEF History, MaxAge
    <2>2. CASE ~(wb.cyc /\ ~ack)
      BY <1>1, <2>2 DEF History
    <2> QED
      BY <2>1, <2>2
  <1>5. ASSUME NEW lane, Register(lane) PROVE IsArray(dat_r)'
    BY <1>2, <1>5 DEF Register, IsArray
  <1>6. AxiTyped'
    BY <1>1 DEF PathInv, AxiTyped, axiVars, IsArray
  <1>7. /\ TxnTyped'
        /\ IsArray(dat_r)' /\ ack' \in BOOLEAN /\ cycle' \in 0 .. Ratio
        /\ ack' => wb'.cyc /\ cycle' = Ratio /\ age' = Ratio + 1
        /\ ~ack' => age' = cycle' /\ (~wb'.cyc => cycle' = 0)
    <2>1. CASE \E lane \in Lanes : Strobe(lane)
      <3> PICK index \in Lanes : Strobe(index)
        BY <2>1
      <3>1. TxnTyped'
        BY FollowTyped DEF Strobe, Access, PathInv, TxnTyped
      <3>2. wb' = wb /\ wb.cyc /\ ~ack /\ ack' = FALSE /\ cycle' = cycle + 1 /\ cycle < Ratio
        BY <1>2, <1>3, RatioAssumption DEF Strobe, Lanes
      <3>3. IsArray(dat_r)'
        BY <1>5 DEF Strobe
      <3> QED
        <4>1. age' = cycle' /\ cycle' \in 0 .. Ratio
          BY <1>2, <1>4, <3>2, RatioAssumption
        <4>2. wb'.cyc /\ ~ack' /\ ack' \in BOOLEAN
          BY <3>2
        <4> QED
          BY <3>1, <3>3, <4>1, <4>2
    <2>2. CASE Finish
      <3>1. TxnTyped'
        BY <2>2 DEF Finish, PathInv, TxnTyped
      <3>2. wb' = wb /\ wb.cyc /\ ~ack /\ ack' /\ cycle' = cycle /\ cycle = Ratio /\ ack' \in BOOLEAN
        BY <1>3, <2>2 DEF Finish
      <3>3. IsArray(dat_r)'
        BY <1>5, <2>2 DEF Finish
      <3> QED
        BY <1>2, <1>4, <3>1, <3>2, <3>3, RatioAssumption
    <2>3. CASE Reset
      <3>1. TxnTyped'
        BY <2>3 DEF Reset, PathInv, TxnTyped
      <3>2. ack' = FALSE /\ cycle' = 0 /\ age' = 0 /\ wb'.cyc \in BOOLEAN
        BY <1>3, <1>4, <2>3, RequestTypes DEF Reset
      <3>3. IsArray(dat_r)'
        BY <1>2, <1>5, <2>3 DEF Reset
      <3>4. ~ack' /\ ack' \in BOOLEAN /\ age' = cycle' /\ cycle' \in 0 .. Ratio
        <4>1. 0 \in 0 .. Ratio
          BY RatioAssumption
        <4> QED
          BY <3>2, <4>1
      <3> QED
        BY <3>1, <3>2, <3>3, <3>4
    <2>4. CASE Idle
      <3>1. TxnTyped' /\ IsArray(dat_r)'
        BY <1>2, <2>4 DEF Idle, PathInv, TxnTyped, IsArray
      <3>2. ack' = FALSE /\ cycle' = 0 /\ age' = 0 /\ wb'.cyc \in BOOLEAN
        BY <1>2, <1>3, <1>4, <2>4, RequestTypes DEF Idle
      <3>3. ~ack' /\ ack' \in BOOLEAN /\ age' = cycle' /\ cycle' \in 0 .. Ratio
        <4>1. 0 \in 0 .. Ratio
          BY RatioAssumption
        <4> QED
          BY <3>2, <4>1
      <3> QED
        BY <3>1, <3>2, <3>3
    <2> QED
      BY <2>1, <2>2, <2>3, <2>4 DEF ByWishbone
  <1>8. WbTyped'
    BY <1>3, <1>7 DEF WbTyped
  <1>9. Aged'
    BY <1>1, <1>7 DEF Aged, WbBusy, AxiBusy
  <1> QED
    BY <1>6, <1>7, <1>8, <1>9 DEF PathInv

LEMMA AxiPathInv ==
  ASSUME PathInv, front = "axi", front' = front, ByAxi, UNCHANGED wbVars, History
  PROVE  PathInv'
  <1>1. /\ ~wb.cyc /\ ~ack /\ ~wb'.cyc /\ ~ack'
        /\ Pending <=> AxiBusy
        /\ Pending' <=> AxiBusy'
        /\ Answered <=> Responding
        /\ Answered' <=> Responding'
    BY RequestTypes DEF PathInv, WbTyped, wbVars, Pending, Answered, WbBusy, AxiBusy, Responding
  <1>2. AxiTyped /\ (AxiBusy => age = beat)
    BY DEF PathInv, Aged
  <1>3. axi' \in AxiRequests \union {NoRequest}
    BY <1>2 DEF ByAxi, AxiMaster, AxiTyped
  <1>4. age' = IF AxiBusy THEN beat + 1 ELSE 0
    <2>1. CASE AxiBusy
      <3>1. beat \in 0 .. Ratio /\ age = beat
        BY <1>2, <2>1, RatioAssumption DEF AxiTyped, AxiBusy
      <3> QED
        BY <1>1, <2>1, <3>1, RatioAssumption DEF History, MaxAge
    <2>2. CASE ~AxiBusy
      BY <1>1, <2>2 DEF History
    <2> QED
      BY <2>1, <2>2
  <1>5. WbTyped'
    BY DEF PathInv, WbTyped, wbVars, IsArray
  <1>6. TxnTyped' /\ AxiTyped' /\ Aged'
    <2>1. CASE Accept
      <3>1. TxnTyped' /\ IsArray(r_data)'
        BY <1>2, <2>1 DEF Accept, PathInv, TxnTyped, AxiTyped, IsArray
      <3>2. age' = 0
        BY <1>4, <2>1 DEF Accept, AxiBusy
      <3>3. CASE axi.channel = "none"
        <4>1. state' = "IDLE"
          BY <2>1, <3>3 DEF Accept
        <4> QED
          BY <1>1, <1>3, <3>1, <3>2, <4>1 DEF AxiTyped, Aged, AxiBusy, WbBusy
      <3>4. CASE axi.channel # "none"
        <4>1. axi \in AxiRequests /\ axi.channel \in {"read", "write"}
          BY <1>2, <3>4, RequestTypes DEF AxiTyped
        <4>2. /\ state' = IF axi.channel = "write" THEN "WRITE" ELSE "READ"
              /\ request' = axi /\ beat' = 0
          BY <2>1, <3>4 DEF Accept
        <4>3. AxiTyped'
          BY <1>3, <3>1, <4>1, <4>2, RatioAssumption DEF AxiTyped, PathInv
        <4>4. Aged'
          BY <1>1, <3>2, <4>2 DEF Aged, AxiBusy, WbBusy
        <4> QED
          BY <3>1, <4>3, <4>4
      <3> QED
        BY <3>3, <3>4
    <2>2. CASE WriteBeat
      <3>1. TxnTyped' /\ IsArray(r_data)'
        BY <1>2, <2>2, FollowTyped DEF WriteBeat, PathInv, TxnTyped, AxiTyped, IsArray
      <3>2. /\ beat \in 0 .. Ratio - 1 /\ request \in AxiRequests /\ request.channel = "write"
            /\ age' = beat + 1 /\ request' = request
        BY <1>2, <1>4, <2>2 DEF WriteBeat, AxiTyped, AxiBusy
      <3>3. \/ beat = Ratio - 1 /\ state' = "WRITE_RESP" /\ beat' = beat
            \/ beat # Ratio - 1 /\ state' = "WRITE" /\ beat' = beat + 1
        BY <2>2 DEF WriteBeat
      <3>4. AxiTyped'
        BY <1>3, <3>1, <3>2, <3>3, RatioAssumption DEF AxiTyped, PathInv
      <3>5. Aged'
        BY <1>1, <3>2, <3>3, RatioAssumption DEF Aged, AxiBusy, WbBusy, Responding
      <3> QED
        BY <3>1, <3>4, <3>5
    <2>3. CASE ReadBeat
      <3>1. TxnTyped' /\ IsArray(r_data)'
        BY <1>2, <2>3, FollowTyped DEF ReadBeat, PathInv, TxnTyped, AxiTyped, IsArray
      <3>2. /\ beat \in 0 .. Ratio /\ request \in AxiRequests /\ request.channel = "read"
            /\ age' = beat + 1 /\ request' = request
        BY <1>2, <1>4, <2>3 DEF ReadBeat, AxiTyped, AxiBusy
      <3>3. \/ beat = Ratio /\ state' = "READ_RESP" /\ beat' = beat
            \/ beat # Ratio /\ state' = "READ" /\ beat' = beat + 1
        BY <2>3 DEF ReadBeat
      <3>4. AxiTyped'
        BY <1>3, <3>1, <3>2, <3>3, RatioAssumption DEF AxiTyped, PathInv
      <3>5. Aged'
        BY <1>1, <3>2, <3>3, RatioAssumption DEF Aged, AxiBusy, WbBusy, Responding
      <3> QED
        BY <3>1, <3>4, <3>5
    <2>4. CASE \E ready \in BOOLEAN : Respond(ready)
      <3>1. TxnTyped' /\ IsArray(r_data)'
        BY <1>2, <2>4 DEF Respond, PathInv, TxnTyped, AxiTyped, IsArray
      <3>2. age' = 0 /\ Responding
        BY <1>4, <2>4 DEF Respond, Responding, AxiBusy
      <3>3. state' = "IDLE" \/ (state' = state /\ request' = request)
        BY <2>4 DEF Respond
      <3>4. AxiTyped'
        BY <1>2, <1>3, <3>1, <3>2, <3>3 DEF AxiTyped, Responding
      <3>5. Aged'
        BY <1>1, <3>2, <3>3 DEF Aged, AxiBusy, WbBusy, Responding
      <3> QED
        BY <3>1, <3>4, <3>5
    <2> QED
      BY <2>1, <2>2, <2>3, <2>4 DEF ByAxi
  <1> QED
    BY <1>5, <1>6 DEF PathInv

LEMMA PathInvariant == PathSpec => []PathInv
  <1>1. PathInit => PathInv
    <2> SUFFICES ASSUME PathInit PROVE PathInv
      OBVIOUS
    <2>1. TxnTyped /\ front \in {"direct", "wishbone", "axi"} /\ age = 0
      BY FrontsAssumption DEF PathInit, Init, TxnTyped
    <2>2. WbTyped
      <3>1. wb = Quiet /\ ~ack /\ ack \in BOOLEAN /\ cycle = 0 /\ cycle \in 0 .. Ratio /\ IsArray(dat_r)
        <4>1. 0 \in 0 .. Ratio
          BY RatioAssumption
        <4> QED
          BY <4>1 DEF PathInit, WbInit, IsArray
      <3> QED
        BY <3>1 DEF WbTyped
    <2>3. AxiTyped
      BY DEF PathInit, AxiInit, AxiTyped, IsArray
    <2>4. Aged
      <3>1. ~wb.cyc /\ state = "IDLE"
        BY RequestTypes DEF PathInit, WbInit, AxiInit
      <3> QED
        BY <2>1, <3>1 DEF Aged, WbBusy, AxiBusy
    <2> QED
      BY <2>1, <2>2, <2>3, <2>4 DEF PathInv
  <1>2. PathInv /\ [PathNext]_allVars => PathInv'
    <2> SUFFICES ASSUME PathInv, [PathNext]_allVars PROVE PathInv'
      OBVIOUS
    <2>1. CASE PathNext
      BY <2>1, DirectPathInv, WbPathInv, AxiPathInv DEF PathNext
    <2>2. CASE UNCHANGED allVars
      BY <2>2
      DEF allVars, vars, wbVars, axiVars, pathVars, PathInv, TxnTyped, WbTyped, AxiTyped, Aged,
          IsArray, WbBusy, AxiBusy, Pending, Answered, Responding
    <2> QED
      BY <2>1, <2>2
  <1> QED
    BY <1>1, <1>2, PTL DEF PathSpec

\* Each access takes a constant number of cycles, for any width of a word and
\* any registers: by Wishbone the documented one, and so an AXI4-Lite read; an
\* AXI4-Lite write one less than csr/axi_lite.py:24 says.
THEOREM LatenciesAreConstant == PathSpec => []LatencyIsConstant
  <1>1. PathInv => LatencyIsConstant
    <2> SUFFICES ASSUME PathInv PROVE LatencyIsConstant
      OBVIOUS
    <2>1. CASE front = "axi"
      <3>1. ~wb.cyc
        BY <2>1, RequestTypes DEF PathInv, WbTyped
      <3>2. CASE state = "IDLE"
        BY <2>1, <3>1, <3>2, RatioAssumption
        DEF PathInv, Aged, LatencyIsConstant, Pending, Answered, WbBusy, AxiBusy, Responding
      <3>3. CASE state # "IDLE"
        <4>1. Asked.write <=> request.channel = "write"
          BY <2>1, <3>1, <3>3 DEF Asked
        <4>2. ~wb.cyc /\ ~WbBusy
          BY <3>1 DEF WbBusy
        <4>3. CASE state \in {"WRITE", "WRITE_RESP"}
          <5>1. Asked.write /\ age \in 0 .. Ratio
            BY <4>1, <4>3, RatioAssumption DEF PathInv, AxiTyped, Aged, AxiBusy
          <5>2. Answered => state = "WRITE_RESP" /\ age \in {0, Ratio}
            BY <4>2, <4>3 DEF Answered, Responding, PathInv, Aged
          <5> QED
            BY <2>1, <5>1, <5>2, RatioAssumption DEF LatencyIsConstant
        <4>4. CASE state \in {"READ", "READ_RESP"}
          <5>1. ~Asked.write /\ age \in 0 .. Ratio + 1
            BY <4>1, <4>4, RatioAssumption DEF PathInv, AxiTyped, Aged, AxiBusy
          <5>2. Answered => state = "READ_RESP" /\ age \in {0, Ratio + 1}
            BY <4>2, <4>4 DEF Answered, Responding, PathInv, Aged
          <5> QED
            BY <5>1, <5>2, RatioAssumption DEF LatencyIsConstant
        <4> QED
          BY <3>3, <4>3, <4>4 DEF PathInv, AxiTyped
      <3> QED
        BY <3>2, <3>3
    <2>2. CASE front # "axi"
      <3>1. state = "IDLE"
        BY <2>2 DEF PathInv, AxiTyped
      <3> QED
        BY <2>2, <3>1, RatioAssumption, RequestTypes
        DEF PathInv, WbTyped, Aged, LatencyIsConstant, Pending, Answered, WbBusy, AxiBusy, Responding
    <2> QED
      BY <2>1, <2>2
  <1> QED
    BY <1>1, PathInvariant, PTL

-----------------------------------------------------------------------------
(* What the two bridges have in common: the steps of a bridge.                 *)

\* The data of the strobe before arrives.
Fetches(lane) == Answer' = IF lane \in Lanes THEN [Answer EXCEPT ![lane] = BusRData] ELSE Answer

BridgeReads(addr)     == BusRead(addr) /\ Follow("read", addr)
BridgeWrites(addr, d) == BusWrite(addr, d) /\ Follow("write", addr)
BridgeIdles           == BusIdle /\ UNCHANGED txn

Strobes ==
  /\ Pending /\ Count \in Lanes /\ Count' = Count + 1 /\ Asked' = Asked
  /\ front = "wishbone" => wb' = wb /\ Count \in wb.sel /\ wb.sel \in Selects
  /\ \/ Asked.write /\ BridgeWrites(Addr(Asked.word, Count), Asked.data[Count])
     \/ ~Asked.write /\ BridgeReads(Addr(Asked.word, Count)) /\ Fetches(Count - 1)

Skips ==
  /\ Pending /\ Count \in Lanes /\ Count' = Count + 1 /\ Asked' = Asked /\ ~Asked.whole
  /\ front = "wishbone" /\ wb' = wb /\ Count \notin wb.sel
  /\ BridgeIdles

Finishes ==
  /\ Pending /\ ~Pending' /\ Count = Ratio /\ Count' = Ratio + 1 /\ Asked' = Asked
  /\ Fetches(Ratio - 1)
  /\ BridgeIdles \/ (~Asked.write /\ BridgeReads(Addr(Asked.word, 0)))

Rests ==
  /\ ~Pending /\ BridgeIdles
  /\ \/ Pending' /\ Count' = 0 /\ Asked'.word \in Nat
     \/ ~Pending' /\ ~Answered' /\ ~Asked'.whole
     \/ Answered /\ Answered' /\ ~Pending' /\ Count' = Count /\ Asked' = Asked /\ Answer' = Answer

LEMMA AskedTypes ==
  ASSUME PathInv
  PROVE  /\ Pending \/ Answered => front \in {"wishbone", "axi"} /\ Asked.word \in Words
         /\ Answered => Count \in {Ratio, Ratio + 1} /\ (~Asked.write => Count = Ratio + 1)
         /\ IsArray(Answer)
         /\ (Pending \/ Answered) /\ Asked.write => Asked.data \in [Lanes -> Data]
         /\ Asked.whole => Pending \/ Answered
  <1>1. CASE front = "wishbone"
    <2>1. state = "IDLE" /\ IsArray(Answer)
      BY <1>1 DEF PathInv, AxiTyped, WbTyped, Answer
    <2>2. CASE wb.cyc
      <3>1. Asked.word = wb.adr /\ wb \in WbRequests
        BY <1>1, <2>2, RequestTypes DEF Asked, PathInv, WbTyped
      <3>2. Pending \/ Answered
        BY <2>2 DEF Pending, Answered, WbBusy
      <3>3. Answered => Count = Ratio + 1
        BY <2>1 DEF Answered, Responding, Count, WbBusy, AxiBusy
      <3>4. Asked.write => Asked.data \in [Lanes -> Data]
        <4>1. Asked.write = wb.we /\ (wb.we => Asked.data = wb.dat_w)
          BY <1>1, <2>2 DEF Asked
        <4> QED
          BY <3>1, <4>1, RequestTypes
      <3> QED
        BY <1>1, <2>1, <3>1, <3>2, <3>3, <3>4, RequestTypes
    <2>3. CASE ~wb.cyc
      <3>1. ~Pending /\ ~Answered
        BY <2>1, <2>3 DEF Pending, Answered, WbBusy, AxiBusy, Responding
      <3>2. Asked.whole = FALSE
        BY <1>1, <2>3 DEF Asked
      <3> QED
        BY <2>1, <3>1, <3>2
    <2> QED
      BY <2>2, <2>3
  <1>2. CASE front = "axi"
    <2>1. ~wb.cyc /\ ~WbBusy /\ IsArray(Answer)
      BY <1>2, RequestTypes DEF PathInv, WbTyped, AxiTyped, Answer, WbBusy
    <2>2. CASE state # "IDLE"
      <3>1. /\ Asked.word = request.word /\ Asked.write = (request.channel = "write")
            /\ request \in AxiRequests
        BY <1>2, <2>1, <2>2 DEF Asked, PathInv, AxiTyped
      <3>2. Pending \/ Answered
        BY <2>2 DEF Pending, Answered, AxiBusy, Responding, PathInv, AxiTyped
      <3>3. /\ Answered => Count \in {Ratio, Ratio + 1}
            /\ Answered /\ ~Asked.write => Count = Ratio + 1
        BY <2>1, <3>1 DEF Answered, Responding, Count, AxiBusy, PathInv, AxiTyped
      <3>4. Asked.write => Asked.data \in [Lanes -> Data]
        <4>1. request.channel = "write" => Asked.data = request.data
          BY <1>2, <2>1, <2>2 DEF Asked
        <4> QED
          BY <3>1, <4>1, RequestTypes
      <3> QED
        BY <1>2, <2>1, <3>1, <3>2, <3>3, <3>4, RequestTypes
    <2>3. CASE state = "IDLE"
      <3>1. ~Pending /\ ~Answered
        BY <2>1, <2>3 DEF Pending, Answered, AxiBusy, Responding
      <3>2. Asked.whole = FALSE
        BY <1>2, <2>3 DEF Asked
      <3> QED
        BY <2>1, <3>1, <3>2
    <2> QED
      BY <2>2, <2>3
  <1>3. CASE front = "direct"
    <2>1. ~Pending /\ ~Answered /\ IsArray(Answer)
      BY <1>3, RequestTypes
      DEF PathInv, WbTyped, AxiTyped, Pending, Answered, WbBusy, AxiBusy, Responding, Answer
    <2>2. Asked.whole = FALSE
      BY <1>3 DEF Asked
    <2> QED
      BY <2>1, <2>2
  <1> QED
    BY <1>1, <1>2, <1>3 DEF PathInv

LEMMA WbBridgeStep ==
  ASSUME PathInv, PathInv', front = "wishbone", front' = front, ByWishbone, UNCHANGED axiVars
  PROVE  Strobes \/ Skips \/ Finishes \/ Rests
  <1>1. /\ state = "IDLE" /\ state' = "IDLE" /\ ~AxiBusy /\ ~AxiBusy'
        /\ Answer = dat_r /\ Answer' = dat_r'
    BY DEF PathInv, AxiTyped, axiVars, AxiBusy, Answer
  <1>2. /\ Pending <=> wb.cyc /\ ~ack
        /\ Pending' <=> wb'.cyc /\ ~ack'
        /\ Answered <=> wb.cyc /\ ack
        /\ Answered' <=> wb'.cyc /\ ack'
    BY <1>1 DEF Pending, Answered, WbBusy, AxiBusy, Responding
  <1>3. /\ Count = (IF wb.cyc /\ ~ack THEN cycle ELSE Ratio + 1)
        /\ Count' = (IF wb'.cyc /\ ~ack' THEN cycle' ELSE Ratio + 1)
    BY <1>1 DEF Count, WbBusy
  <1>4. wb.cyc => /\ wb \in WbRequests /\ wb.sel \in Selects
                  /\ Asked = [word |-> wb.adr, write |-> wb.we, whole |-> wb.sel = Lanes,
                              data |-> IF wb.we THEN wb.dat_w ELSE Nothing]
    BY RequestTypes DEF Asked, PathInv, WbTyped
  <1>5. wb' = wb => Asked' = Asked
    BY <1>1 DEF Asked
  <1>6. ~wb'.cyc => ~Asked'.whole
    BY DEF Asked
  <1>7. CASE \E lane \in Lanes : Strobe(lane)
    <2> PICK index \in Lanes : Strobe(index)
      BY <1>7
    <2>1. wb' = wb /\ wb.cyc /\ ~ack /\ ~ack' /\ cycle = index /\ cycle' = index + 1
      BY DEF Strobe, ByWishbone, WbInitiator
    <2>2. Pending /\ Count = index /\ Count' = index + 1 /\ Asked' = Asked
      BY <1>2, <1>3, <1>5, <2>1
    <2>3. /\ Asked.write = wb.we /\ Asked.whole = (wb.sel = Lanes) /\ Asked.word = wb.adr
          /\ wb.we => Asked.data = wb.dat_w
          /\ wb.sel \in Selects
      BY <1>4, <2>1
    <2>4. Fetches(index - 1)
      BY <1>1 DEF Strobe, Register, Fetches
    <2>5. CASE index \in wb.sel
      <3>1. \/ ~wb.we /\ BridgeReads(Addr(wb.adr, index))
            \/ wb.we /\ BridgeWrites(Addr(wb.adr, index), wb.dat_w[index])
        BY <2>5 DEF Strobe, Access, BridgeReads, BridgeWrites
      <3> QED
        BY <2>1, <2>2, <2>3, <2>4, <2>5, <3>1 DEF Strobes
    <2>6. CASE index \notin wb.sel
      <3>1. BridgeIdles
        BY <2>6 DEF Strobe, Access, BridgeIdles
      <3>2. ~Asked.whole
        BY <2>3, <2>6
      <3> QED
        BY <2>1, <2>2, <2>6, <3>1, <3>2 DEF Skips
    <2> QED
      BY <2>5, <2>6
  <1>8. CASE Finish
    <2>1. wb' = wb /\ wb.cyc /\ ~ack /\ ack' /\ cycle = Ratio /\ BridgeIdles
      BY <1>8 DEF Finish, ByWishbone, WbInitiator, BridgeIdles
    <2>2. Fetches(Ratio - 1)
      BY <1>1, <1>8 DEF Finish, Register, Fetches
    <2> QED
      BY <1>2, <1>3, <1>5, <2>1, <2>2 DEF Finishes
  <1>9. CASE Reset \/ Idle
    <2>1. BridgeIdles /\ ~ack' /\ ~Pending
      BY <1>2, <1>9 DEF Reset, Idle, BridgeIdles
    <2>2. wb'.cyc => cycle' = 0
      BY <1>9, <2>1 DEF Reset, Idle, PathInv, WbTyped
    <2>3. CASE wb'.cyc
      <3>1. Asked'.word = wb'.adr
        BY <2>3 DEF Asked
      <3>2. wb' \in WbRequests
        BY <2>3, RequestTypes DEF PathInv, WbTyped
      <3>3. Asked'.word \in Nat
        BY <3>1, <3>2, RequestTypes
      <3> QED
        BY <1>2, <1>3, <2>1, <2>2, <2>3, <3>3 DEF Rests
    <2>4. CASE ~wb'.cyc
      BY <1>2, <1>6, <2>1, <2>4 DEF Rests
    <2> QED
      BY <2>3, <2>4
  <1> QED
    BY <1>7, <1>8, <1>9 DEF ByWishbone

LEMMA AxiBridgeStep ==
  ASSUME PathInv, PathInv', front = "axi", front' = front, ByAxi, UNCHANGED wbVars
  PROVE  Strobes \/ Finishes \/ Rests
  <1>1. /\ ~WbBusy /\ ~WbBusy' /\ ~wb.cyc /\ ~wb'.cyc
        /\ Answer = r_data /\ Answer' = r_data'
    BY RequestTypes DEF PathInv, WbTyped, wbVars, WbBusy, Answer
  <1>2. /\ Pending <=> state \in {"READ", "WRITE"}
        /\ Pending' <=> state' \in {"READ", "WRITE"}
        /\ Answered <=> state \in {"WRITE_RESP", "READ_RESP"}
        /\ Answered' <=> state' \in {"WRITE_RESP", "READ_RESP"}
    BY <1>1 DEF Pending, Answered, AxiBusy, Responding
  <1>3. /\ state \in {"READ", "WRITE"} => Count = beat
        /\ state' \in {"READ", "WRITE"} => Count' = beat'
        /\ state' = "WRITE_RESP" => Count' = Ratio
        /\ state' = "READ_RESP" => Count' = Ratio + 1
    BY <1>1 DEF Count, AxiBusy
  <1>4. state # "IDLE" =>
          Asked = [word |-> request.word, write |-> request.channel = "write", whole |-> TRUE,
                   data |-> IF request.channel = "write" THEN request.data ELSE Nothing]
    BY <1>1 DEF Asked
  <1>5. state # "IDLE" /\ state' # "IDLE" /\ request' = request => Asked' = Asked
    BY <1>1 DEF Asked
  <1>6. state' = "IDLE" => ~Asked'.whole
    BY DEF Asked
  <1>7. CASE Accept
    <2>1. BridgeIdles /\ ~Pending
      BY <1>2, <1>7 DEF Accept, BridgeIdles
    <2>2. \/ state' = "IDLE"
          \/ state' \in {"READ", "WRITE"} /\ beat' = 0
      BY <1>7 DEF Accept
    <2>3. state' # "IDLE" => Asked'.word \in Nat
      <3>1. state' # "IDLE" => request' \in AxiRequests
        BY DEF PathInv, AxiTyped
      <3>2. state' # "IDLE" => Asked'.word = request'.word
        BY <1>1 DEF Asked
      <3> QED
        BY <3>1, <3>2, RequestTypes
    <2> QED
      BY <1>2, <1>3, <1>6, <2>1, <2>2, <2>3 DEF Rests
  <1>8. CASE WriteBeat
    <2>1. /\ state = "WRITE" /\ request' = request /\ request.channel = "write"
          /\ beat \in 0 .. Ratio - 1
      BY <1>8 DEF WriteBeat, PathInv, AxiTyped
    <2>2. /\ Asked.write /\ Asked.word = request.word /\ Asked.data = request.data
          /\ Pending /\ Count = beat
      <3>1. state # "IDLE" /\ Pending /\ Count = beat
        BY <1>2, <1>3, <2>1
      <3>2. Asked = [word |-> request.word, write |-> TRUE, whole |-> TRUE, data |-> request.data]
        BY <1>4, <2>1, <3>1
      <3> QED
        BY <3>1, <3>2
    <2>3. CsrAddr = Addr(request.word, beat)
      BY <2>1, RatioAssumption DEF CsrAddr
    <2>4. BridgeWrites(Addr(Asked.word, Count), Asked.data[Count])
      BY <1>8, <2>2, <2>3 DEF WriteBeat, BridgeWrites
    <2>5. Count' = beat + 1 /\ state' # "IDLE"
      BY <1>3, <1>8, <2>1, RatioAssumption DEF WriteBeat
    <2> QED
      BY <1>5, <2>1, <2>2, <2>4, <2>5 DEF Strobes, Lanes
  <1>9. CASE ReadBeat
    <2>1. /\ state = "READ" /\ request' = request /\ request.channel = "read"
          /\ beat \in 0 .. Ratio
      BY <1>9 DEF ReadBeat, PathInv, AxiTyped
    <2>2. /\ ~Asked.write /\ Asked.word = request.word /\ Pending /\ Count = beat
      <3>1. state # "IDLE" /\ Pending /\ Count = beat /\ ~(request.channel = "write")
        BY <1>2, <1>3, <2>1
      <3>2. Asked.word = request.word /\ Asked.write = (request.channel = "write")
        BY <1>4, <3>1
      <3> QED
        BY <3>1, <3>2
    <2>3. Fetches(beat - 1)
      BY <1>1, <1>9, <2>1, RatioAssumption DEF ReadBeat, Fetches, Lanes
    <2>4. BridgeReads(CsrAddr)
      BY <1>9 DEF ReadBeat, BridgeReads
    <2>5. state' # "IDLE" /\ Asked' = Asked
      BY <1>5, <1>9, <2>1 DEF ReadBeat
    <2>6. CASE beat = Ratio
      <3>1. CsrAddr = Addr(Asked.word, 0)
        BY <2>2, <2>6, RatioAssumption DEF CsrAddr
      <3>2. state' = "READ_RESP"
        BY <1>9, <2>6 DEF ReadBeat
      <3> QED
        BY <1>2, <1>3, <2>2, <2>3, <2>4, <2>5, <2>6, <3>1, <3>2 DEF Finishes
    <2>7. CASE beat # Ratio
      <3>1. CsrAddr = Addr(Asked.word, beat)
        BY <2>1, <2>2, <2>7, RatioAssumption DEF CsrAddr
      <3>2. Count' = beat + 1 /\ beat \in Lanes
        BY <1>3, <1>9, <2>1, <2>7, RatioAssumption DEF ReadBeat, Lanes
      <3> QED
        BY <2>2, <2>3, <2>4, <2>5, <3>1, <3>2 DEF Strobes
    <2> QED
      BY <2>6, <2>7
  <1>10. CASE \E ready \in BOOLEAN : Respond(ready)
    <2>1. /\ BridgeIdles /\ ~Pending /\ Answered /\ Answer' = Answer
          /\ state \in {"WRITE_RESP", "READ_RESP"}
      BY <1>1, <1>2, <1>10 DEF Respond, Responding, BridgeIdles
    <2>2. state' = "IDLE" \/ (state' = state /\ request' = request)
      BY <1>10 DEF Respond
    <2>3. CASE state' = "IDLE"
      BY <1>2, <1>6, <2>1, <2>3 DEF Rests
    <2>4. CASE state' = state /\ request' = request
      <3>1. Answered' /\ ~Pending' /\ Asked' = Asked
        BY <1>2, <1>5, <2>1, <2>4
      <3>2. Count' = Count
        BY <1>1, <2>1, <2>4 DEF Count, AxiBusy
      <3> QED
        BY <2>1, <3>1, <3>2 DEF Rests
    <2> QED
      BY <2>2, <2>3, <2>4
  <1> QED
    BY <1>7, <1>8, <1>9, <1>10 DEF ByAxi

LEMMA BridgeStep ==
  ASSUME PathInv, PathInv', PathNext, front # "direct"
  PROVE  Strobes \/ Skips \/ Finishes \/ Rests
  BY WbBridgeStep, AxiBridgeStep DEF PathNext, PathInv

-----------------------------------------------------------------------------
(* The CSR bus keeps its promise.                                              *)

LEMMA FollowIs ==
  ASSUME NEW kind, NEW r \in Regs, NEW addr \in AddressesOf(r), Follow(kind, addr)
  PROVE  txn' = [kind |-> kind, reg |-> r, next |-> addr + 1]
  <1>1. r = CHOOSE s \in Regs : addr \in AddressesOf(s)
    BY OneRegisterAtAnAddress
  <1> QED
    BY <1>1 DEF Follow

LEMMA AtomicRegisters ==
  ASSUME Registers
  PROVE  Atomic!Registers
  <1>1. /\ Atomic!Addresses(Regs) = AllAddresses(Regs)
        /\ Atomic!Addresses(Volatile) = AllAddresses(Volatile)
    BY DEF Atomic!Addresses, AllAddresses, AddressesOf
  <1>2. PICK hw \in [AllAddresses(Volatile) -> Data] :
          val' = [a \in AllAddresses(Regs) |->
                    LET r == CHOOSE s \in Regs : a \in AddressesOf(s)
                    IN  IF w_stb[r] THEN WData(r)[a]
                        ELSE IF r \in Volatile THEN hw[a] ELSE val[a]]
    BY DEF Registers
  <1> DEFINE commit(a) == CHOOSE c \in Commits : a \in DOMAIN c
  <1>3. ASSUME NEW a \in AllAddresses(Regs)
        PROVE  LET r == CHOOSE s \in Regs : a \in AddressesOf(s)
               IN  (IF w_stb[r] THEN WData(r)[a] ELSE IF r \in Volatile THEN hw[a] ELSE val[a])
                   = (IF \E c \in Commits : a \in DOMAIN c THEN commit(a)[a]
                      ELSE IF a \in AllAddresses(Volatile) THEN hw[a] ELSE val[a])
    <2> PICK r \in Regs : a \in AddressesOf(r)
      BY DEF AllAddresses
    <2>1. r = CHOOSE s \in Regs : a \in AddressesOf(s)
      BY OneRegisterAtAnAddress
    <2>2. ASSUME NEW c \in Commits, a \in DOMAIN c
          PROVE  w_stb[r] /\ c = WData(r)
      <3>1. PICK s \in Regs : w_stb[s] /\ c = WData(s)
        BY DEF Commits
      <3>2. a \in AddressesOf(s)
        BY <2>2, <3>1 DEF WData
      <3> QED
        BY <3>1, <3>2, OneRegisterAtAnAddress
    <2>3. CASE w_stb[r]
      <3>1. WData(r) \in Commits /\ a \in DOMAIN WData(r)
        BY <2>3 DEF Commits, WData
      <3>2. commit(a) = WData(r)
        BY <2>2, <3>1
      <3> HIDE DEF commit
      <3> QED
        BY <2>1, <2>3, <3>1, <3>2
    <2>4. CASE ~w_stb[r]
      <3>1. ~\E c \in Commits : a \in DOMAIN c
        BY <2>2, <2>4
      <3>2. r \in Volatile <=> a \in AllAddresses(Volatile)
        BY VolatileAssumption, OneRegisterAtAnAddress DEF AllAddresses
      <3> HIDE DEF commit
      <3> QED
        BY <2>1, <2>4, <3>1, <3>2
    <2> QED
      BY <2>3, <2>4
  <1>4. val' = [a \in AllAddresses(Regs) |->
                  IF \E c \in Commits : a \in DOMAIN c THEN commit(a)[a]
                  ELSE IF a \in AllAddresses(Volatile) THEN hw[a] ELSE val[a]]
    BY <1>2, <1>3
  <1> QED
    BY <1>1, <1>4 DEF Atomic!Registers

LEMMA NoCommits ==
  ASSUME \A r \in Regs : ~w_stb[r]
  PROVE  Commits = {}
  BY DEF Commits

LEMMA AtomicPause ==
  ASSUME TxnTyped, txn' = txn, Registers, BusRData' = {}, \A r \in Regs : ~w_stb'[r],
         \A c \in Chunks : r_shadow'[c] = r_shadow[c],
         \A c \in Chunks : w_shadow'[c] = w_shadow[c]
  PROVE  Atomic!Pause
  <1>1. Commits' = {}
    BY DEF Commits
  <1>2. ASSUME NEW r \in Regs
        PROVE  /\ \A a \in AddressesOf(r) : r_shadow'[ChunkAt(r, a)] = r_shadow[ChunkAt(r, a)]
               /\ \A a \in AddressesOf(r) : w_shadow'[ChunkAt(r, a)] = w_shadow[ChunkAt(r, a)]
    BY ChunkAtIs
  <1>3. ASSUME NEW r \in Regs PROVE Captured(r)' = Captured(r) /\ WData(r)' = WData(r)
    BY <1>2 DEF Captured, WData
  <1>4. txn.kind \in {"read", "write"} => txn.reg \in Regs
    BY DEF TxnTyped
  <1>5. Snap' = Snap /\ Sent' = Sent
    BY <1>3, <1>4 DEF Snap, Sent
  <1> QED
    BY <1>1, <1>5, AtomicRegisters DEF Atomic!Pause

LEMMA AtomicRead ==
  ASSUME TxnTyped, NEW r \in Regs, NEW addr \in AddressesOf(r),
         Advance("read", r, addr), BusRead(addr)
  PROVE  Atomic!Read(r, addr)
  <1>1. txn' = [kind |-> "read", reg |-> r, next |-> addr + 1]
    BY DEF Advance
  <1>2. Snap' = [a \in AddressesOf(r) |-> r_shadow'[ChunkAt(r, a)]]
    BY <1>1 DEF Snap, Captured
  <1>3. Sent' = Nothing /\ Commits' = {}
    BY <1>1, ReadCycle DEF Sent, Commits
  <1>4. Snap' = IF addr = r.start THEN Atomic!Contents(r, val) ELSE Snap
    <2>1. CASE addr = r.start
      <3>1. \A a \in AddressesOf(r) : r_shadow'[ChunkAt(r, a)] = val[a]
        BY <2>1, CapturesRegister DEF BusRead
      <3>2. Snap' = [a \in AddressesOf(r) |-> val[a]]
        BY <1>2, <3>1
      <3> QED
        BY <2>1, <3>2 DEF Atomic!Contents, AddressesOf
    <2>2. CASE addr # r.start
      <3>1. txn = [kind |-> "read", reg |-> r, next |-> addr]
        BY <2>2 DEF Advance
      <3>2. ASSUME NEW s \in Regs, addr = s.start PROVE FALSE
        <4>1. addr \in AddressesOf(s)
          BY <3>2, RegTypes DEF AddressesOf
        <4> QED
          BY <2>2, <3>2, <4>1, OneRegisterAtAnAddress
      <3>3. \A c \in Chunks : r_shadow'[c] = r_shadow[c]
        BY <3>2, CapturesRegister DEF BusRead
      <3>4. \A a \in AddressesOf(r) : r_shadow'[ChunkAt(r, a)] = r_shadow[ChunkAt(r, a)]
        BY <3>3, ChunkAtIs
      <3>5. Snap = [a \in AddressesOf(r) |-> r_shadow[ChunkAt(r, a)]]
        BY <3>1 DEF Snap, Captured
      <3> QED
        BY <1>2, <2>2, <3>4, <3>5
    <2> QED
      BY <2>1, <2>2
  <1>5. BusRData' = Snap'[addr]
    BY <1>2, ReadCycle
  <1>6. Atomic!Registers
    BY AtomicRegisters DEF BusRead
  <1>7. Atomic!Advance("read", r, addr)
    BY DEF Advance, Atomic!Advance
  <1> QED
    BY <1>3, <1>4, <1>5, <1>6, <1>7 DEF Atomic!Read, Atomic!Nothing, Nothing

LEMMA AtomicWrite ==
  ASSUME TxnTyped, NEW r \in Regs, NEW addr \in AddressesOf(r), NEW d,
         Advance("write", r, addr), BusWrite(addr, d)
  PROVE  Atomic!Write(r, addr, d)
  <1>1. txn' = [kind |-> "write", reg |-> r, next |-> addr + 1]
    BY DEF Advance
  <1>2. addr \in Int /\ r.start <= addr /\ addr <= r.stop - 1 /\ (addr + 1) - 1 = addr
        /\ r.start \in Int /\ r.stop \in Int
    BY RegTypes DEF AddressesOf
  <1>3. /\ w_shadow'[ChunkAt(r, addr)] = d
        /\ \A a \in AddressesOf(r) \ {addr} :
             w_shadow'[ChunkAt(r, a)] = w_shadow[ChunkAt(r, a)]
    BY WriteCycle
  <1>4. /\ WData(r) = [a \in AddressesOf(r) |-> w_shadow[ChunkAt(r, a)]]
        /\ WData(r)' = [a \in AddressesOf(r) |-> w_shadow'[ChunkAt(r, a)]]
    BY DEF WData
  <1>5. r.start .. addr \subseteq AddressesOf(r)
    BY <1>2 DEF AddressesOf
  <1>6. Sent' = [a \in r.start .. addr |-> WData(r)'[a]]
    BY <1>1, <1>2 DEF Sent
  <1>7. ASSUME NEW a \in r.start .. addr, a # addr
        PROVE  WData(r)'[a] = Sent[a]
    <2>1. txn = [kind |-> "write", reg |-> r, next |-> addr]
      BY <1>2, <1>7 DEF Advance
    <2>2. Sent = [b \in r.start .. addr - 1 |-> WData(r)[b]]
      BY <2>1 DEF Sent
    <2>3. a \in r.start .. addr - 1
      BY <1>2, <1>7
    <2>4. a \in AddressesOf(r) \ {addr}
      BY <1>5, <1>7
    <2> QED
      BY <1>3, <1>4, <2>2, <2>3, <2>4
  <1>8. Sent' = [a \in r.start .. addr |-> IF a = addr THEN d ELSE Sent[a]]
    <2>1. WData(r)'[addr] = d
      BY <1>3, <1>4
    <2> QED
      BY <1>6, <1>7, <2>1
  <1>9. Commits' = IF addr = r.stop - 1 THEN {Sent'} ELSE {}
    <2>1. \A s \in Regs : w_stb'[s] <=> addr = s.stop - 1
      BY WriteCycle
    <2>2. \A s \in Regs : addr = s.stop - 1 => s = r
      <3>1. \A s \in Regs : addr = s.stop - 1 => addr \in AddressesOf(s)
        BY RegTypes DEF AddressesOf
      <3> QED
        BY <3>1, OneRegisterAtAnAddress
    <2>3. Commits' = {WData(s)' : s \in {q \in Regs : w_stb'[q]}}
      BY DEF Commits
    <2>4. CASE addr = r.stop - 1
      <3>1. {q \in Regs : w_stb'[q]} = {r}
        BY <2>1, <2>2, <2>4
      <3>2. WData(r)' = Sent'
        <4>1. AddressesOf(r) = r.start .. addr
          BY <2>4 DEF AddressesOf
        <4> QED
          BY <1>4, <1>6, <4>1
      <3> QED
        BY <2>3, <2>4, <3>1, <3>2
    <2>5. CASE addr # r.stop - 1
      <3>1. {q \in Regs : w_stb'[q]} = {}
        BY <2>1, <2>2, <2>5
      <3> QED
        BY <2>3, <2>5, <3>1
    <2> QED
      BY <2>4, <2>5
  <1>10. Snap' = Nothing /\ BusRData' = {}
    BY <1>1, WriteCycle DEF Snap
  <1>11. Atomic!Registers
    BY AtomicRegisters DEF BusWrite
  <1>12. Atomic!Advance("write", r, addr)
    BY DEF Advance, Atomic!Advance
  <1> QED
    BY <1>8, <1>9, <1>10, <1>11, <1>12 DEF Atomic!Write, Atomic!Nothing, Nothing

LEMMA InOrderStep ==
  ASSUME PathInv, PathInv', InOrder, PathNext
  PROVE  InOrder'
  <1>1. CASE front = "direct"
    <2>1. front' = "direct"
      BY <1>1 DEF PathNext
    <2>2. ~Pending'
      BY <2>1, RequestTypes DEF PathInv, WbTyped, AxiTyped, Pending, WbBusy, AxiBusy
    <2> QED
      BY <2>2 DEF InOrder
  <1>2. CASE front # "direct"
    <2>1. front' = front
      BY DEF PathNext
    <2>2. CASE Strobes
      <3> DEFINE addr == Addr(Asked.word, Count)
      <3>1. Count' - 1 = Count /\ Asked' = Asked /\ Count \in Int
        BY <2>2, RatioAssumption DEF Strobes, Lanes
      <3>2. \A r \in Regs : addr \in AddressesOf(r) =>
              txn' = [kind |-> IF Asked.write THEN "write" ELSE "read", reg |-> r, next |-> addr + 1]
        BY <2>2, FollowIs DEF Strobes, BridgeReads, BridgeWrites
      <3> QED
        BY <3>1, <3>2 DEF InOrder, Addr
    <2>3. CASE Skips
      <3>1. Count' - 1 = Count /\ front' = "wishbone" /\ Count \notin wb'.sel
        BY <2>1, <2>3, RatioAssumption DEF Skips, Lanes
      <3> QED
        BY <3>1 DEF InOrder
    <2>4. CASE Finishes
      BY <2>4 DEF Finishes, InOrder
    <2>5. CASE Rests
      <3>1. Pending' => ~(Count' > 0)
        BY <2>5 DEF Rests
      <3> QED
        BY <3>1 DEF InOrder
    <2> QED
      BY <1>2, <2>2, <2>3, <2>4, <2>5, BridgeStep
  <1> QED
    BY <1>1, <1>2

\* A bridge goes through the registers of a word as an initiator should.
LEMMA BridgesAdvance ==
  ASSUME PathInv, InOrder, WholeRegisters, InitialLanes, Strobes,
         NEW r \in Regs, Addr(Asked.word, Count) \in AddressesOf(r)
  PROVE  Advance(IF Asked.write THEN "write" ELSE "read", r, Addr(Asked.word, Count))
  <1> DEFINE addr == Addr(Asked.word, Count)
             kind == IF Asked.write THEN "write" ELSE "read"
  <1>1. Pending /\ Count \in Lanes /\ Count \in Nat /\ Count < Ratio
    BY RatioAssumption DEF Strobes, Lanes
  <1>2. Asked.word \in Words /\ Asked.word \in Nat /\ front \in {"wishbone", "axi"}
    BY <1>1, AskedTypes, RequestTypes
  <1>3. txn' = [kind |-> kind, reg |-> r, next |-> addr + 1]
    BY FollowIs DEF Strobes, BridgeReads, BridgeWrites
  <1>4. CASE addr = r.start
    BY <1>3, <1>4 DEF Advance
  <1>5. CASE addr # r.start
    <2>1. r.start >= Addr(Asked.word, 0) /\ r.start \in Int /\ r.stop \in Int
      BY <1>1, <1>2, RegTypes DEF WholeRegisters, InWord
    <2>2. /\ Count > 0 /\ Count - 1 \in Lanes /\ Count - 1 < Count
          /\ Addr(Asked.word, Count - 1) = addr - 1
          /\ Addr(Asked.word, Count - 1) \in AddressesOf(r)
      <3> DEFINE base == Asked.word * Ratio
      <3>1. base \in Int /\ addr = base + Count /\ Addr(Asked.word, Count - 1) = base + (Count - 1)
            /\ Addr(Asked.word, 0) = base + 0
        BY <1>2, RatioAssumption DEF Addr
      <3> HIDE DEF base, addr
      <3>2. addr \in r.start .. r.stop - 1
        BY DEF AddressesOf, addr
      <3> QED
        BY <1>1, <1>5, <2>1, <3>1, <3>2, RatioAssumption DEF AddressesOf, Lanes
    <2>3. front = "wishbone" => Count - 1 \in wb.sel
      <3> SUFFICES ASSUME front = "wishbone" PROVE Count - 1 \in wb.sel
        OBVIOUS
      <3>1. Count \in wb.sel /\ wb.sel \in Selects
        BY DEF Strobes
      <3> QED
        BY <1>1, <1>2, <2>2, <3>1 DEF InitialLanes
    <2>4. txn = [kind |-> kind, reg |-> r, next |-> (addr - 1) + 1]
      BY <1>1, <2>2, <2>3 DEF InOrder
    <2>5. (addr - 1) + 1 = addr
      BY <1>1, <1>2, RatioAssumption DEF Addr
    <2> QED
      BY <1>3, <2>4, <2>5 DEF Advance
  <1> QED
    BY <1>4, <1>5

LEMMA NobodyReads ==
  ASSUME TxnTyped, NEW addr, NobodyAt(addr), BridgeReads(addr)
  PROVE  Atomic!Pause
  <1>1. \A r \in Regs : addr # r.start
    BY RegTypes DEF NobodyAt, AddressesOf
  <1>2. \A c \in Chunks : r_shadow'[c] = r_shadow[c]
    BY <1>1, CapturesRegister DEF BridgeReads, BusRead
  <1>3. txn' = txn
    BY DEF BridgeReads, Follow, NobodyAt
  <1>4. BusRData' = {} /\ \A r \in Regs : ~w_stb'[r]
    BY ReadCycle DEF BridgeReads
  <1> QED
    BY <1>2, <1>3, <1>4, AtomicPause DEF BridgeReads, BusRead

LEMMA NobodyWrites ==
  ASSUME TxnTyped, NEW addr, NEW d, NobodyAt(addr), BridgeWrites(addr, d)
  PROVE  Atomic!Pause
  <1>1. \A r \in Regs : addr # r.stop - 1
    BY RegTypes DEF NobodyAt, AddressesOf
  <1>2. \A c \in Chunks : w_shadow'[c] = w_shadow[c] /\ r_shadow'[c] = r_shadow[c]
    BY WriteCycle DEF BridgeWrites, BusWrite
  <1>3. txn' = txn
    BY DEF BridgeWrites, Follow, NobodyAt
  <1>4. BusRData' = {} /\ \A r \in Regs : ~w_stb'[r]
    BY <1>1, WriteCycle DEF BridgeWrites
  <1> QED
    BY <1>2, <1>3, <1>4, AtomicPause DEF BridgeWrites, BusWrite

LEMMA IdlePauses ==
  ASSUME TxnTyped, BusIdle, txn' = txn
  PROVE  Atomic!Pause
  BY IdleCycle, AtomicPause DEF BusIdle

\* An access to an address of a register is one by the initiator of the
\* abstract bus.
LEMMA AtomicNext ==
  ASSUME NEW r \in Regs, NEW addr \in AddressesOf(r), NEW d \in Data,
         Atomic!Read(r, addr) \/ Atomic!Write(r, addr, d)
  PROVE  Atomic!Next
  BY DEF Atomic!Next, AddressesOf

LEMMA StepIsAtomic ==
  ASSUME PathInv, PathInv', InOrder, WholeRegisters, InitialLanes, PathNext
  PROVE  Atomic!Next
  <1>1. TxnTyped /\ TxnTyped'
    BY DEF PathInv
  <1>2. {} \in Data
    BY DEF Data
  <1>3. CASE front = "direct"
    <2>1. CASE Pause
      BY <1>1, <2>1, IdlePauses DEF Pause, Atomic!Next
    <2>2. CASE \E r \in Reached : \E addr \in AddressesOf(r) :
                 ReadChunk(r, addr) \/ \E d \in Data : WriteChunk(r, addr, d)
      <3> PICK r \in Reached : \E addr \in AddressesOf(r) :
                 ReadChunk(r, addr) \/ \E d \in Data : WriteChunk(r, addr, d)
        BY <2>2
      <3> PICK addr \in AddressesOf(r) : ReadChunk(r, addr) \/ \E d \in Data : WriteChunk(r, addr, d)
        OBVIOUS
      <3>1. r \in Regs
        BY ReachedAssumption
      <3>2. CASE ReadChunk(r, addr)
        BY <1>1, <1>2, <3>1, <3>2, AtomicRead, AtomicNext DEF ReadChunk
      <3>3. CASE \E d \in Data : WriteChunk(r, addr, d)
        BY <1>1, <3>1, <3>3, AtomicWrite, AtomicNext DEF WriteChunk
      <3> QED
        BY <3>2, <3>3
    <2> QED
      BY <1>3, <2>1, <2>2 DEF PathNext, Direct
  <1>4. CASE Strobes
    <2> DEFINE addr == Addr(Asked.word, Count)
    <2>1. CASE NobodyAt(addr)
      BY <1>1, <1>4, <2>1, NobodyReads, NobodyWrites DEF Strobes, Atomic!Next
    <2>2. CASE ~NobodyAt(addr)
      <3> PICK r \in Regs : addr \in AddressesOf(r)
        BY <2>2 DEF NobodyAt
      <3>1. Advance(IF Asked.write THEN "write" ELSE "read", r, addr)
        BY <1>4, BridgesAdvance
      <3>2. CASE Asked.write
        <4>1. Asked.data[Count] \in Data
          BY <1>4, <3>2, AskedTypes DEF Strobes
        <4>2. BusWrite(addr, Asked.data[Count])
          BY <1>4, <3>2 DEF Strobes, BridgeWrites
        <4> HIDE DEF addr
        <4> QED
          BY <1>1, <3>1, <3>2, <4>1, <4>2, AtomicWrite, AtomicNext
      <3>3. CASE ~Asked.write
        <4>1. BusRead(addr)
          BY <1>4, <3>3 DEF Strobes, BridgeReads
        <4> HIDE DEF addr
        <4> QED
          BY <1>1, <1>2, <3>1, <3>3, <4>1, AtomicRead, AtomicNext
      <3> QED
        BY <3>2, <3>3
    <2> QED
      BY <2>1, <2>2
  <1>5. CASE Skips
    BY <1>1, <1>5, IdlePauses DEF Skips, BridgeIdles, Atomic!Next
  <1>6. CASE Finishes
    <2> DEFINE addr == Addr(Asked.word, 0)
    <2>1. CASE BridgeIdles
      BY <1>1, <2>1, IdlePauses DEF BridgeIdles, Atomic!Next
    <2>2. CASE BridgeReads(addr)
      <3>1. CASE NobodyAt(addr)
        BY <1>1, <2>2, <3>1, NobodyReads DEF Atomic!Next
      <3>2. CASE ~NobodyAt(addr)
        <4> PICK r \in Regs : addr \in AddressesOf(r)
          BY <3>2 DEF NobodyAt
        <4>1. addr = r.start
          <5>1. Asked.word \in Words /\ 0 \in Lanes
            BY <1>6, AskedTypes, RatioAssumption DEF Finishes, Lanes
          <5>2. r.start >= addr
            BY <5>1 DEF WholeRegisters, InWord
          <5> HIDE DEF addr
          <5>3. addr \in r.start .. r.stop - 1 /\ r.start \in Int /\ r.stop \in Int
            BY RegTypes DEF AddressesOf
          <5> QED
            BY <5>2, <5>3
        <4>2. txn' = [kind |-> "read", reg |-> r, next |-> addr + 1]
          BY <2>2, FollowIs DEF BridgeReads
        <4>3. Advance("read", r, addr) /\ BusRead(addr)
          BY <2>2, <4>1, <4>2 DEF Advance, BridgeReads
        <4> HIDE DEF addr
        <4> QED
          BY <1>1, <1>2, <4>3, AtomicRead, AtomicNext
      <3> QED
        BY <3>1, <3>2
    <2> QED
      BY <1>6, <2>1, <2>2 DEF Finishes
  <1>7. CASE Rests
    BY <1>1, <1>7, IdlePauses DEF Rests, BridgeIdles, Atomic!Next
  <1> QED
    BY <1>3, <1>4, <1>5, <1>6, <1>7, BridgeStep

\* The multiplexers and the bridges implement the abstract CSR bus, for any
\* registers, windows, shadows and widths, if the words have whole registers.
THEOREM PathIsAtomic == WholeRegisters /\ InitialLanes /\ PathSpec => ImplementsAtomic
  <1> SUFFICES ASSUME WholeRegisters, InitialLanes PROVE PathSpec => ImplementsAtomic
    OBVIOUS
  <1>1. PathInit => InOrder
    BY RequestTypes DEF PathInit, WbInit, AxiInit, InOrder, Pending, WbBusy, AxiBusy
  <1>2. PathInv /\ PathInv' /\ InOrder /\ [PathNext]_allVars => InOrder'
    <2>1. ASSUME InOrder, UNCHANGED allVars PROVE InOrder'
      BY <2>1 DEF allVars, vars, wbVars, axiVars, pathVars, InOrder, Pending, WbBusy, AxiBusy,
                  Count, Asked
    <2> QED
      BY <2>1, InOrderStep
  <1>3. PathInit => Atomic!Init
    <2> SUFFICES ASSUME PathInit PROVE Atomic!Init
      OBVIOUS
    <2>1. Snap = Nothing /\ Sent = Nothing /\ Commits = {}
      BY DEF PathInit, Init, Snap, Sent, Commits
    <2>2. BusRData = {}
      <3>1. {c \in Chunks : r_en[c]} = {}
        BY DEF PathInit, Init
      <3> QED
        BY <3>1 DEF BusRData, Chunks
    <2>3. val = [a \in Atomic!Addresses(Regs) |-> {}] /\ txn = [kind |-> "none"]
      BY DEF PathInit, Init, AllAddresses, AddressesOf, Atomic!Addresses
    <2> QED
      BY <2>1, <2>2, <2>3 DEF Atomic!Init, Atomic!Nothing, Nothing
  <1>4. PathInv /\ PathInv' /\ InOrder /\ [PathNext]_allVars => [Atomic!Next]_(Atomic!vars)
    <2>1. ASSUME UNCHANGED allVars PROVE UNCHANGED Atomic!vars
      BY <2>1 DEF allVars, vars, Atomic!vars, Snap, Sent, Captured, WData, Commits, BusRData
    <2> QED
      BY <2>1, StepIsAtomic
  <1> QED
    BY <1>1, <1>2, <1>3, <1>4, PathInvariant, PTL DEF PathSpec, ImplementsAtomic, Atomic!Spec

-----------------------------------------------------------------------------
(* What a bridge answers, and what it has written by then.                     *)

LEMMA AddrIs ==
  ASSUME NEW word \in Nat, NEW lane \in Int
  PROVE  Addr(word, lane) = Addr(word, 0) + lane /\ Addr(word, 0) \in Nat
  <1>1. word * Ratio \in Nat
    BY RatioAssumption
  <1> QED
    BY <1>1 DEF Addr

\* The lanes of a register that fits in the word.
LEMMA LanesOf ==
  ASSUME Asked.word \in Nat, NEW r \in Regs, Within(r), NEW a \in AddressesOf(r)
  PROVE  /\ LaneOf(a) \in Lanes /\ LaneOf(a) \in Nat /\ LaneOf(a) < Ratio
         /\ LaneOf(r.start) \in Nat /\ LaneOf(r.start) <= LaneOf(a)
         /\ a = Addr(Asked.word, LaneOf(a))
         /\ r.stop <= Addr(Asked.word, Ratio)
  <1> DEFINE base == Addr(Asked.word, 0)
  <1>1. base \in Nat /\ Ratio \in Nat \ {0}
    BY AddrIs, RatioAssumption
  <1>2. /\ Addr(Asked.word, Ratio - 1) = base + (Ratio - 1)
        /\ Addr(Asked.word, Ratio) = base + Ratio
    BY <1>1, AddrIs
  <1>3. /\ a \in r.start .. r.stop - 1 /\ r.start \in Nat /\ r.stop \in Nat
        /\ r.start >= base /\ r.stop <= (base + (Ratio - 1)) + 1
    BY <1>2, RegTypes DEF AddressesOf, Within
  <1>4. LaneOf(a) = a - base /\ LaneOf(r.start) = r.start - base
    BY DEF LaneOf
  <1> HIDE DEF base
  <1>5. /\ LaneOf(a) \in Nat /\ LaneOf(a) < Ratio /\ LaneOf(a) \in Lanes
        /\ LaneOf(r.start) \in Nat /\ LaneOf(r.start) <= LaneOf(a)
        /\ a = base + LaneOf(a)
    BY <1>1, <1>3, <1>4 DEF Lanes
  <1>6. a = Addr(Asked.word, LaneOf(a))
    BY <1>5, AddrIs DEF base
  <1> QED
    BY <1>1, <1>2, <1>3, <1>5, <1>6

LEMMA RegistersKeep ==
  ASSUME Registers, NEW r \in Regs \ Volatile, NEW a \in AddressesOf(r)
  PROVE  val'[a] = AfterThisCycle(r, a)
  <1>1. a \in AllAddresses(Regs)
    BY DEF AllAddresses
  <1>2. r = CHOOSE s \in Regs : a \in AddressesOf(s)
    BY OneRegisterAtAnAddress
  <1> QED
    BY <1>1, <1>2 DEF Registers, AfterThisCycle

\* When the answer is near, nothing happens to the registers that it is about.
LEMMA WrittenKeeps ==
  ASSUME PathInv, Written, BridgeIdles, Asked' = Asked, Asked.whole, Asked.write,
         NEW r \in Regs \ Volatile, Within(r), NEW a \in AddressesOf(r),
         Count \in {Ratio, Ratio + 1}
  PROVE  Asked.data[LaneOf(a)] = AfterThisCycle(r, a)' /\ Asked.data[LaneOf(a)] = val'[a]
  <1>1. Asked.word \in Nat
    BY AskedTypes, RequestTypes
  <1>2. r.stop <= Addr(Asked.word, Count) /\ LaneOf(a) < Count
    <2>1. /\ LaneOf(a) \in Nat /\ LaneOf(a) < Ratio /\ r.stop <= Addr(Asked.word, Ratio)
          /\ r.stop \in Nat
      BY <1>1, LanesOf, RegTypes
    <2>2. /\ Addr(Asked.word, Ratio) \in Nat
          /\ Addr(Asked.word, Ratio + 1) = Addr(Asked.word, Ratio) + 1
      <3>1. /\ Addr(Asked.word, Ratio) = Addr(Asked.word, 0) + Ratio
            /\ Addr(Asked.word, Ratio + 1) = Addr(Asked.word, 0) + (Ratio + 1)
            /\ Addr(Asked.word, 0) \in Nat
        BY <1>1, AddrIs, RatioAssumption
      <3> QED
        BY <3>1, RatioAssumption
    <2> QED
      BY <2>1, <2>2, RatioAssumption
  <1>3. Asked.data[LaneOf(a)] = AfterThisCycle(r, a)
    BY <1>2 DEF Written
  <1>4. val'[a] = AfterThisCycle(r, a)
    BY RegistersKeep DEF BridgeIdles, BusIdle
  <1>5. ~w_stb'[r]
    BY IdleCycle DEF BridgeIdles
  <1> QED
    BY <1>3, <1>4, <1>5 DEF AfterThisCycle

LEMMA WrittenStep ==
  ASSUME PathInv, PathInv', Written, PathNext
  PROVE  Written'
  <1> SUFFICES ASSUME Asked'.whole, Asked'.write, NEW r \in Regs \ Volatile, Within(r)',
                      NEW a \in AddressesOf(r), LaneOf(a)' < Count'
               PROVE  Asked'.data[LaneOf(a)'] =
                        IF r.stop <= Addr(Asked'.word, Count')
                        THEN AfterThisCycle(r, a)' ELSE WData(r)'[a]
    BY DEF Written
  <1>1. CASE front = "direct"
    BY <1>1 DEF PathNext, Asked
  <1>2. ASSUME Asked' = Asked
        PROVE  /\ Asked.whole /\ Asked.write /\ Within(r) /\ LaneOf(a)' = LaneOf(a)
               /\ Asked.word \in Nat
    BY <1>2, AskedTypes, RequestTypes DEF Within, LaneOf
  <1>3. CASE Strobes
    <2> DEFINE addr == Addr(Asked.word, Count)
               d    == Asked.data[Count]
    <2>1. Asked' = Asked /\ Asked.write /\ Within(r) /\ LaneOf(a)' = LaneOf(a) /\ Asked.whole
      BY <1>2, <1>3 DEF Strobes
    <2>2. Asked.word \in Nat /\ Count \in Nat /\ Count < Ratio /\ Count' = Count + 1
      BY <1>2, <1>3, RatioAssumption DEF Strobes, Lanes
    <2>3. BusWrite(addr, d)
      BY <1>3, <2>1 DEF Strobes, BridgeWrites
    <2>4. /\ LaneOf(a) \in Nat /\ LaneOf(a) < Count + 1 /\ a = Addr(Asked.word, LaneOf(a))
          /\ r.start \in Nat /\ r.stop \in Nat /\ a \in r.start .. r.stop - 1
      BY <2>1, <2>2, LanesOf, RegTypes DEF AddressesOf
    <2>5. /\ addr = Addr(Asked.word, 0) + Count /\ Addr(Asked.word, 0) \in Nat
          /\ Addr(Asked.word, Count + 1) = Addr(Asked.word, 0) + (Count + 1)
          /\ a = Addr(Asked.word, 0) + LaneOf(a)
      <3>1. Count \in Int /\ Count + 1 \in Int /\ LaneOf(a) \in Int
        BY <2>2, <2>4
      <3>2. \A lane \in Int : Addr(Asked.word, lane) = Addr(Asked.word, 0) + lane
        BY <2>2, AddrIs
      <3>3. Addr(Asked.word, 0) \in Nat
        BY <2>2, AddrIs
      <3>4. a = Addr(Asked.word, 0) + LaneOf(a)
        BY <2>4, <3>1, <3>2
      <3> QED
        BY <3>1, <3>2, <3>3, <3>4
    <2>6. val'[a] = AfterThisCycle(r, a)
      BY <2>3, RegistersKeep DEF BusWrite
    <2>7. w_stb'[r] = (addr = r.stop - 1)
      BY <2>3, WriteCycle
    <2>8. CASE r.stop <= addr
      <3> HIDE DEF addr, d
      <3>1. LaneOf(a) < Count /\ addr # r.stop - 1 /\ r.stop <= Addr(Asked.word, Count + 1)
        BY <2>2, <2>4, <2>5, <2>8
      <3>2. Asked.data[LaneOf(a)] = AfterThisCycle(r, a)
        BY <2>1, <2>8, <3>1 DEF Written, addr
      <3>3. AfterThisCycle(r, a)' = AfterThisCycle(r, a)
        BY <2>6, <2>7, <3>1 DEF AfterThisCycle
      <3> QED
        BY <2>1, <2>2, <3>1, <3>2, <3>3
    <2>9. CASE ~(r.stop <= addr)
      <3>1. addr \in AddressesOf(r) /\ r.stop >= Addr(Asked.word, Count + 1)
            /\ (a # addr => LaneOf(a) < Count) /\ (a = addr => LaneOf(a) = Count)
        <4> HIDE DEF addr
        <4> QED
          BY <2>2, <2>4, <2>5, <2>9 DEF AddressesOf
      <3>2. /\ w_shadow'[ChunkAt(r, addr)] = d
            /\ a # addr => w_shadow'[ChunkAt(r, a)] = w_shadow[ChunkAt(r, a)]
        BY <2>3, <3>1, WriteCycle
      <3>3. WData(r)[a] = w_shadow[ChunkAt(r, a)] /\ WData(r)'[a] = w_shadow'[ChunkAt(r, a)]
        BY DEF WData
      <3>4. WData(r)'[a] = Asked.data[LaneOf(a)]
        <4>1. CASE a = addr
          BY <3>1, <3>2, <3>3, <4>1
        <4>2. CASE a # addr
          BY <2>1, <2>9, <3>1, <3>2, <3>3, <4>2 DEF Written
        <4> QED
          BY <4>1, <4>2
      <3>5. r.stop <= Addr(Asked.word, Count + 1) => AfterThisCycle(r, a)' = WData(r)'[a]
        <4> HIDE DEF addr
        <4>1. r.stop <= Addr(Asked.word, Count + 1) => addr = r.stop - 1
          BY <2>2, <2>4, <2>5, <3>1
        <4> QED
          BY <2>7, <4>1 DEF AfterThisCycle
      <3> QED
        BY <2>1, <2>2, <3>4, <3>5
    <2> QED
      BY <2>8, <2>9
  <1>4. CASE Skips
    BY <1>4 DEF Skips
  <1>5. CASE Finishes
    <2>1. BridgeIdles /\ Asked' = Asked /\ Count = Ratio /\ Count' = Ratio + 1
      BY <1>2, <1>5 DEF Finishes
    <2>2. Asked.data[LaneOf(a)] = AfterThisCycle(r, a)'
      BY <1>2, <2>1, WrittenKeeps
    <2>3. r.stop <= Addr(Asked.word, Ratio + 1)
      <3>1. /\ r.stop <= Addr(Asked.word, Ratio) /\ Addr(Asked.word, Ratio) = Addr(Asked.word, 0) + Ratio
            /\ Addr(Asked.word, Ratio + 1) = Addr(Asked.word, 0) + (Ratio + 1)
            /\ Addr(Asked.word, 0) \in Nat
        BY <1>2, <2>1, LanesOf, AddrIs, RatioAssumption
      <3> QED
        BY <3>1, RegTypes, RatioAssumption
    <2> QED
      BY <1>2, <2>1, <2>2, <2>3
  <1>6. CASE Rests
    <2>1. CASE Pending' /\ Count' = 0 /\ Asked'.word \in Nat
      <3>1. a \in Nat /\ a >= r.start /\ r.start \in Nat /\ r.start >= Addr(Asked'.word, 0)
        BY RegTypes DEF AddressesOf, Within
      <3>2. LaneOf(a)' = a - Addr(Asked'.word, 0) /\ Addr(Asked'.word, 0) \in Nat
        BY <2>1, AddrIs DEF LaneOf
      <3> QED
        BY <2>1, <3>1, <3>2
    <2>2. CASE Answered /\ Count' = Count /\ Asked' = Asked
      <3>1. Count \in {Ratio, Ratio + 1} /\ BridgeIdles
        BY <1>6, <2>2, AskedTypes DEF Rests
      <3>2. Asked.data[LaneOf(a)] = AfterThisCycle(r, a)'
        BY <1>2, <2>2, <3>1, WrittenKeeps
      <3>3. r.stop <= Addr(Asked.word, Count)
        <4>1. /\ r.stop <= Addr(Asked.word, Ratio) /\ Addr(Asked.word, Ratio) = Addr(Asked.word, 0) + Ratio
              /\ Addr(Asked.word, Ratio + 1) = Addr(Asked.word, 0) + (Ratio + 1)
              /\ Addr(Asked.word, 0) \in Nat
          BY <1>2, <2>2, LanesOf, AddrIs, RatioAssumption
        <4> QED
          BY <3>1, <4>1, RegTypes, RatioAssumption
      <3> QED
        BY <1>2, <2>2, <3>2, <3>3
    <2> QED
      BY <1>6, <2>1, <2>2 DEF Rests
  <1> QED
    BY <1>1, <1>3, <1>4, <1>5, <1>6, BridgeStep

LEMMA StoredStep ==
  ASSUME PathInv, PathInv', Written, PathNext
  PROVE  Stored'
  <1> SUFFICES ASSUME Asked'.whole, Asked'.write, Count' = Ratio + 1,
                      NEW r \in Regs \ Volatile, Within(r)', NEW a \in AddressesOf(r)
               PROVE  val'[a] = Asked'.data[LaneOf(a)']
    BY DEF Stored
  <1>1. CASE front = "direct"
    BY <1>1 DEF PathNext, Asked
  <1>2. CASE Strobes \/ Skips
    BY <1>2, RatioAssumption DEF Strobes, Skips, Lanes
  <1>3. ASSUME Asked' = Asked, BridgeIdles, Count \in {Ratio, Ratio + 1}
        PROVE  val'[a] = Asked'.data[LaneOf(a)']
    <2>1. Asked.whole /\ Asked.write /\ Within(r) /\ LaneOf(a)' = LaneOf(a)
      BY <1>3 DEF Within, LaneOf
    <2> QED
      BY <1>3, <2>1, WrittenKeeps
  <1>4. CASE Finishes
    BY <1>3, <1>4 DEF Finishes
  <1>5. CASE Rests
    BY <1>3, <1>5, AskedTypes, RatioAssumption DEF Rests
  <1> QED
    BY <1>1, <1>2, <1>4, <1>5, BridgeStep

\* "Write side effects occur simultaneously with acknowledgement", for any
\* registers and widths: a register has what was written when the Wishbone
\* acknowledge is up, and at the end of that cycle when BVALID is.
THEOREM WritesAreDone == PathSpec => []WriteIsDone
  <1>1. PathInit => Written
    BY RequestTypes DEF PathInit, WbInit, AxiInit, Written, Asked
  <1>2. PathInv /\ PathInv' /\ Written /\ [PathNext]_allVars => Written'
    <2>1. ASSUME Written, UNCHANGED allVars PROVE Written'
      BY <2>1 DEF allVars, vars, wbVars, axiVars, pathVars, Written, WbBusy, AxiBusy, Count, Asked,
                  Within, LaneOf, AfterThisCycle, WData
    <2> QED
      BY <2>1, WrittenStep
  <1>3. PathInit => Stored
    BY RequestTypes DEF PathInit, WbInit, AxiInit, Stored, Asked
  <1>4. PathInv /\ PathInv' /\ Written /\ Stored /\ [PathNext]_allVars => Stored'
    <2>1. ASSUME Stored, UNCHANGED allVars PROVE Stored'
      BY <2>1 DEF allVars, vars, wbVars, axiVars, pathVars, Stored, WbBusy, AxiBusy, Count, Asked,
                  Within, LaneOf
    <2> QED
      BY <2>1, StoredStep
  <1>5. PathInv /\ Written /\ Stored => WriteIsDone
    <2> SUFFICES ASSUME PathInv, Written, Stored, Answered, Asked.whole, Asked.write,
                        NEW r \in Regs \ Volatile, Within(r), NEW a \in AddressesOf(r)
                 PROVE  /\ front = "wishbone" => val[a] = Asked.data[LaneOf(a)]
                        /\ front # "wishbone" => AfterThisCycle(r, a) = Asked.data[LaneOf(a)]
      BY DEF WriteIsDone
    <2>1. Asked.word \in Nat /\ Count \in {Ratio, Ratio + 1}
      BY AskedTypes, RequestTypes
    <2>2. /\ LaneOf(a) \in Nat /\ LaneOf(a) < Ratio /\ r.stop <= Addr(Asked.word, Ratio)
          /\ Addr(Asked.word, Ratio) = Addr(Asked.word, 0) + Ratio
          /\ Addr(Asked.word, Ratio + 1) = Addr(Asked.word, 0) + (Ratio + 1)
          /\ Addr(Asked.word, 0) \in Nat
      BY <2>1, LanesOf, AddrIs, RatioAssumption
    <2>3. LaneOf(a) < Count /\ r.stop <= Addr(Asked.word, Count)
      BY <2>1, <2>2, RegTypes, RatioAssumption
    <2>4. front = "wishbone" => Count = Ratio + 1
      BY DEF PathInv, AxiTyped, WbTyped, Answered, Responding, Count, WbBusy, AxiBusy
    <2> QED
      BY <2>3, <2>4 DEF Written, Stored
  <1> QED
    BY <1>1, <1>2, <1>3, <1>4, <1>5, PathInvariant, PTL DEF PathSpec

\* The registers are all there is in val.
Mapped == DOMAIN val = AllAddresses(Regs)

LEMMA MappedStep ==
  ASSUME PathInv, PathInv', PathNext
  PROVE  Mapped'
  <1>1. Registers => Mapped'
    BY DEF Registers, Mapped
  <1>2. CASE front = "direct"
    BY <1>1, <1>2 DEF PathNext, Direct, Pause, ReadChunk, WriteChunk, BusIdle, BusRead, BusWrite
  <1>3. CASE front # "direct"
    <2>1. Strobes \/ Skips \/ Finishes \/ Rests
      BY <1>3, BridgeStep
    <2> QED
      BY <1>1, <2>1 DEF Strobes, Skips, Finishes, Rests, BridgeReads, BridgeWrites, BridgeIdles,
                        BusIdle, BusRead, BusWrite
  <1> QED
    BY <1>2, <1>3

\* A register that the bridge has begun to read is what it was in some cycle.
LEMMA FetchedStrobe ==
  ASSUME PathInv, Fetched, Mapped, Strobes, Asked.whole, ~Asked.write,
         NEW r \in Regs, Within(r), LaneOf(r.start) < Count + 1
  PROVE  \E w \in seen \union {Word(Asked.word)} : \A a \in AddressesOf(r) :
           w[LaneOf(a)] = IF LaneOf(a) < Count THEN Answer'[LaneOf(a)]
                          ELSE IF LaneOf(a) = Count THEN BusRData'
                          ELSE r_shadow'[ChunkAt(r, a)]
  <1> DEFINE addr == Addr(Asked.word, Count)
  <1>1. Asked.word \in Nat /\ Count \in Nat /\ Count < Ratio /\ Count \in Lanes
    BY AskedTypes, RequestTypes, RatioAssumption DEF Strobes, Lanes
  <1>2. BusRead(addr) /\ Fetches(Count - 1)
    BY DEF Strobes, BridgeReads
  <1>3. ASSUME NEW a \in AddressesOf(r)
        PROVE  /\ LaneOf(a) \in Lanes /\ LaneOf(a) \in Nat /\ LaneOf(r.start) \in Nat
               /\ LaneOf(r.start) <= LaneOf(a) /\ a = Addr(Asked.word, LaneOf(a))
               /\ LaneOf(a) = Count => a = addr
    BY <1>1, LanesOf
  <1>4. addr \in AddressesOf(r) => BusRData' = r_shadow'[ChunkAt(r, addr)]
    BY <1>2, ReadCycle
  <1>5. r.start \in AddressesOf(r)
    BY RegTypes DEF AddressesOf
  <1>6. CASE LaneOf(r.start) = Count
    <2>1. addr = r.start
      BY <1>3, <1>5, <1>6
    <2>2. ASSUME NEW a \in AddressesOf(r)
          PROVE  /\ r_shadow'[ChunkAt(r, a)] = val[a]
                 /\ Word(Asked.word)[LaneOf(a)] = val[a]
      <3>1. r_shadow'[ChunkAt(r, a)] = val[a]
        BY <1>2, <2>1, CapturesRegister DEF BusRead
      <3>2. a \in DOMAIN val
        BY DEF Mapped, AllAddresses
      <3>3. Word(Asked.word)[LaneOf(a)] = val[a]
        BY <1>3, <3>2 DEF Word
      <3> QED
        BY <3>1, <3>3
    <2>3. ASSUME NEW a \in AddressesOf(r)
          PROVE  /\ ~(LaneOf(a) < Count)
                 /\ LaneOf(a) = Count => BusRData' = val[a]
      <3>1. ~(LaneOf(a) < Count)
        BY <1>1, <1>3, <1>6
      <3>2. LaneOf(a) = Count => a = addr
        BY <1>3
      <3> QED
        BY <1>4, <2>2, <3>1, <3>2
    <2> HIDE DEF addr
    <2> QED
      BY <2>2, <2>3
  <1>7. CASE LaneOf(r.start) # Count
    <2>1. LaneOf(r.start) < Count
      BY <1>1, <1>3, <1>5, <1>7
    <2>2. PICK w \in seen : \A a \in AddressesOf(r) :
            w[LaneOf(a)] = IF LaneOf(a) < Count - 1 THEN Answer[LaneOf(a)]
                           ELSE IF LaneOf(a) = Count - 1 THEN BusRData
                           ELSE r_shadow[ChunkAt(r, a)]
      BY <2>1 DEF Fetched
    <2>3. ASSUME NEW a \in AddressesOf(r), LaneOf(a) < Count
          PROVE  w[LaneOf(a)] = Answer'[LaneOf(a)]
      <3>1. Count - 1 \in Lanes /\ LaneOf(a) \in Lanes
        <4>1. LaneOf(a) \in Nat /\ LaneOf(a) \in Lanes
          BY <1>3
        <4>2. Count - 1 \in 0 .. Ratio - 1
          BY <1>1, <2>3, <4>1, RatioAssumption
        <4> QED
          BY <4>1, <4>2 DEF Lanes
      <3>2. Answer' = [Answer EXCEPT ![Count - 1] = BusRData]
        BY <1>2, <3>1 DEF Fetches
      <3>3. Answer = [lane \in Lanes |-> Answer[lane]]
        BY AskedTypes DEF IsArray
      <3>4. Answer'[LaneOf(a)] = IF LaneOf(a) = Count - 1 THEN BusRData ELSE Answer[LaneOf(a)]
        BY <3>1, <3>2, <3>3
      <3>5. LaneOf(a) # Count - 1 => LaneOf(a) < Count - 1
        BY <1>1, <1>3, <2>3
      <3> QED
        BY <1>1, <1>3, <2>2, <3>4, <3>5
    <2>4. ASSUME NEW a \in AddressesOf(r), ~(LaneOf(a) < Count)
          PROVE  w[LaneOf(a)] = r_shadow'[ChunkAt(r, a)] /\ addr \in AddressesOf(r)
      <3>1. addr \in AddressesOf(r) /\ addr # r.start
        <4>1. /\ r.start = Addr(Asked.word, 0) + LaneOf(r.start)
              /\ addr = Addr(Asked.word, 0) + Count /\ a = Addr(Asked.word, 0) + LaneOf(a)
              /\ Addr(Asked.word, 0) \in Nat
          <5>1. \A lane \in Int : Addr(Asked.word, lane) = Addr(Asked.word, 0) + lane
            BY <1>1, AddrIs
          <5>2. Addr(Asked.word, 0) \in Nat
            BY <1>1, AddrIs
          <5> QED
            BY <1>1, <1>3, <1>5, <5>1, <5>2
        <4> HIDE DEF addr
        <4>2. a \in r.start .. r.stop - 1 /\ r.start \in Nat /\ r.stop \in Nat
          BY RegTypes DEF AddressesOf
        <4> QED
          BY <1>1, <1>3, <1>5, <2>1, <2>4, <4>1, <4>2 DEF AddressesOf
      <3>2. ASSUME NEW s \in Regs, addr = s.start PROVE FALSE
        <4>1. addr \in AddressesOf(s)
          BY <3>2, RegTypes DEF AddressesOf
        <4> QED
          BY <3>1, <3>2, <4>1, OneRegisterAtAnAddress
      <3>3. r_shadow'[ChunkAt(r, a)] = r_shadow[ChunkAt(r, a)]
        BY <1>2, <3>2, CapturesRegister, ChunkAtIs DEF BusRead
      <3>4. ~(LaneOf(a) < Count - 1) /\ LaneOf(a) # Count - 1
        BY <1>1, <1>3, <2>4
      <3> QED
        BY <2>2, <3>1, <3>3, <3>4
    <2>5. ASSUME NEW a \in AddressesOf(r), LaneOf(a) = Count
          PROVE  w[LaneOf(a)] = BusRData'
      <3>1. w[LaneOf(a)] = r_shadow'[ChunkAt(r, a)] /\ a = addr
        BY <1>1, <1>3, <2>4, <2>5
      <3> QED
        BY <1>4, <3>1
    <2> HIDE DEF addr
    <2> QED
      BY <2>3, <2>4, <2>5
  <1> QED
    BY <1>6, <1>7

LEMMA FetchedStep ==
  ASSUME PathInv, PathInv', Fetched, Mapped, PathNext
  PROVE  Fetched'
  <1> SUFFICES ASSUME Asked'.whole, ~Asked'.write, NEW r \in Regs, Within(r)', LaneOf(r.start)' < Count'
               PROVE  \E w \in seen' : \A a \in AddressesOf(r) :
                        w[LaneOf(a)'] = IF LaneOf(a)' < Count' - 1 THEN Answer'[LaneOf(a)']
                                        ELSE IF LaneOf(a)' = Count' - 1 THEN BusRData'
                                        ELSE r_shadow'[ChunkAt(r, a)]
    BY DEF Fetched
  <1>1. CASE front = "direct"
    BY <1>1 DEF PathNext, Asked
  <1>2. ASSUME Asked' = Asked
        PROVE  /\ Asked.whole /\ ~Asked.write /\ Within(r) /\ \A a : LaneOf(a)' = LaneOf(a)
               /\ Asked.word \in Nat
    BY <1>2, AskedTypes, RequestTypes DEF Within, LaneOf
  <1>3. seen' = IF Pending /\ ~Asked.write /\ Asked.whole THEN seen \union {Word(Asked.word)}
                ELSE IF Answered' THEN seen ELSE {}
    BY DEF PathNext, History
  <1>4. ASSUME NEW a \in AddressesOf(r), Asked' = Asked
        PROVE  LaneOf(a) \in Nat /\ LaneOf(a) < Ratio /\ LaneOf(a) \in Lanes
               /\ LaneOf(r.start) \in Nat /\ LaneOf(r.start) <= LaneOf(a)
    BY <1>2, <1>4, LanesOf
  <1>5. r.start \in AddressesOf(r)
    BY RegTypes DEF AddressesOf
  <1>6. CASE Strobes
    <2>1. /\ Asked' = Asked /\ Pending /\ Count' = Count + 1 /\ Count \in Int
          /\ Count' - 1 = Count
      BY <1>6, RatioAssumption DEF Strobes, Lanes
    <2>2. seen' = seen \union {Word(Asked.word)}
      BY <1>2, <1>3, <2>1
    <2> QED
      BY <1>2, <1>6, <2>1, <2>2, FetchedStrobe
  <1>7. CASE Skips
    BY <1>7 DEF Skips
  <1>8. CASE Finishes
    <2>1. /\ Asked' = Asked /\ Pending /\ Count = Ratio /\ Count' = Ratio + 1
          /\ Fetches(Ratio - 1)
      BY <1>8 DEF Finishes
    <2>2. seen \subseteq seen'
      BY <1>2, <1>3, <2>1
    <2>3. PICK w \in seen : \A a \in AddressesOf(r) :
            w[LaneOf(a)] = IF LaneOf(a) < Count - 1 THEN Answer[LaneOf(a)]
                           ELSE IF LaneOf(a) = Count - 1 THEN BusRData
                           ELSE r_shadow[ChunkAt(r, a)]
      <3>1. LaneOf(r.start) < Count
        BY <1>4, <1>5, <2>1
      <3> QED
        BY <1>2, <2>1, <3>1 DEF Fetched
    <2>4. ASSUME NEW a \in AddressesOf(r)
          PROVE  w[LaneOf(a)] = Answer'[LaneOf(a)] /\ LaneOf(a) < Count' - 1
      <3>1. LaneOf(a) \in Nat /\ LaneOf(a) < Ratio /\ LaneOf(a) \in Lanes
        BY <1>4, <2>1
      <3>2. Ratio - 1 \in Lanes
        BY RatioAssumption DEF Lanes
      <3>3. Answer' = [Answer EXCEPT ![Ratio - 1] = BusRData]
        BY <2>1, <3>2 DEF Fetches
      <3>4. Answer = [lane \in Lanes |-> Answer[lane]]
        BY AskedTypes DEF IsArray
      <3>5. Answer'[LaneOf(a)] = IF LaneOf(a) = Ratio - 1 THEN BusRData ELSE Answer[LaneOf(a)]
        BY <3>1, <3>2, <3>3, <3>4
      <3>6. /\ LaneOf(a) # Ratio - 1 => LaneOf(a) < Ratio - 1
            /\ LaneOf(a) = Ratio - 1 => ~(LaneOf(a) < Ratio - 1)
            /\ LaneOf(a) < Count' - 1
        BY <2>1, <3>1, RatioAssumption
      <3> QED
        BY <2>1, <2>3, <3>5, <3>6
    <2> QED
      BY <1>2, <2>1, <2>2, <2>4
  <1>9. CASE Rests
    <2>1. CASE Pending' /\ Count' = 0 /\ Asked'.word \in Nat
      <3>1. r.start \in Nat /\ r.start >= Addr(Asked'.word, 0)
        BY RegTypes DEF Within
      <3>2. LaneOf(r.start)' = r.start - Addr(Asked'.word, 0) /\ Addr(Asked'.word, 0) \in Nat
        BY <2>1, AddrIs DEF LaneOf
      <3> QED
        BY <2>1, <3>1, <3>2
    <2>2. CASE Answered /\ Answered' /\ Count' = Count /\ Asked' = Asked /\ Answer' = Answer
      <3>1. ~Pending /\ Count = Ratio + 1 /\ seen' = seen
        BY <1>2, <1>3, <1>9, <2>2, AskedTypes DEF Rests
      <3>2. PICK w \in seen : \A a \in AddressesOf(r) :
              w[LaneOf(a)] = IF LaneOf(a) < Count - 1 THEN Answer[LaneOf(a)]
                             ELSE IF LaneOf(a) = Count - 1 THEN BusRData
                             ELSE r_shadow[ChunkAt(r, a)]
        <4>1. LaneOf(r.start) < Count
          BY <1>4, <1>5, <2>2, <3>1, RatioAssumption
        <4> QED
          BY <1>2, <2>2, <4>1 DEF Fetched
      <3>3. \A a \in AddressesOf(r) : LaneOf(a) < Count - 1
        BY <1>4, <2>2, <3>1, RatioAssumption
      <3> QED
        BY <1>2, <2>2, <3>1, <3>2, <3>3
    <2> QED
      BY <1>9, <2>1, <2>2 DEF Rests
  <1> QED
    BY <1>1, <1>6, <1>7, <1>8, <1>9, BridgeStep

\* A register is read as it was at one moment, for any registers and widths.
THEOREM ReadsAreOneMoment == PathSpec => []ReadIsOneMoment
  <1>1. PathInit => Fetched /\ Mapped
    BY RequestTypes DEF PathInit, Init, WbInit, AxiInit, Fetched, Asked, Mapped
  <1>2. PathInv /\ PathInv' /\ Fetched /\ Mapped /\ [PathNext]_allVars => Fetched' /\ Mapped'
    <2>1. ASSUME Fetched, Mapped, UNCHANGED allVars PROVE Fetched' /\ Mapped'
      BY <2>1 DEF allVars, vars, wbVars, axiVars, pathVars, Fetched, Mapped, WbBusy, AxiBusy, Count,
                  Asked, Within, LaneOf, Answer, BusRData
    <2> QED
      BY <2>1, FetchedStep, MappedStep
  <1>3. PathInv /\ Fetched => ReadIsOneMoment
    <2> SUFFICES ASSUME PathInv, Fetched, Answered, Asked.whole, ~Asked.write, NEW r \in Regs, Within(r)
                 PROVE  \E w \in seen : \A a \in AddressesOf(r) : Answer[LaneOf(a)] = w[LaneOf(a)]
      BY DEF ReadIsOneMoment
    <2>1. Asked.word \in Nat /\ Count = Ratio + 1
      BY AskedTypes, RequestTypes
    <2>2. \A a \in AddressesOf(r) :
            LaneOf(a) \in Nat /\ LaneOf(a) < Count - 1 /\ LaneOf(r.start) < Count
      BY <2>1, LanesOf, RatioAssumption
    <2>3. r.start \in AddressesOf(r)
      BY RegTypes DEF AddressesOf
    <2> QED
      BY <2>2, <2>3 DEF Fetched
  <1> QED
    BY <1>1, <1>2, <1>3, PathInvariant, PTL DEF PathSpec
=============================================================================
