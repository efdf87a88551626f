# A verification development for amaranth-soc

amaranth-soc is a library of gateware for systems on a chip, written in Python: each
component's `elaborate()` describes synchronous logic, and a few classes compute
layouts (address maps, register fields, shadow registers) while the design is built.
This directory models the parts whose behaviour is hard to test, alone and composed
into the paths that a request, a burst, an event or a stream takes through them;
checks the models with TLC on small instances; and proves, for all sizes, some of
what TLC checks.

Two kinds of model occur:

* **Clocked models.** A step is one cycle of the `sync` domain. Variables are the
  registers of the components (`m.d.sync`) and the phases of the actors around them;
  combinational signals (`m.d.comb`) are operators. A next-state relation is a
  conjunction of what all components do in the same cycle; there is no interleaving
  inside a clock domain, but the environment (initiators, memories, software,
  devices) chooses freely in every cycle, which is where the orders that no test
  bench drives come from.
* **Elaboration-time models.** A step is one call of a method (`add_resource`,
  `add`, `prepare`). A call that raises changes nothing and is no step.

What differs between designs (a topology, a mode, a kind of bus) is either a
constant or a variable that the initial state chooses and no step changes, so that
one run covers several designs.

## Inventory

| Part (under `src/amaranth_soc/`) | State | Operations and interactions | What makes it correct |
|---|---|---|---|
| `wishbone/bus.py` Arbiter | `grant` | rotates the grant; routes CYC, STB, ACK | acknowledges routed, transactions atomic, fairness |
| `wishbone/bus.py` Decoder, `_FeatureShim`, Crossbar | burst latch; two-state machine | routes by pattern, adapts features | one subordinate selected; one request, one access |
| `wishbone/sram.py` | `ack`, memory | answers after a cycle | an access is performed once |
| `csr/bus.py` Multiplexer, `_Shadow` | shadow chunks, strobes; ranges and size | reads and writes of chunks; layout | registers wider than the bus stay atomic; layout is a bijection and is found |
| `csr/bus.py` Decoder | none | routes by pattern | reads are ORed, so one source may drive |
| `csr/wishbone.py`, `csr/axi_lite.py` | `cycle` or `beat`, data register, `ack` or FSM | split a word into chunks | atomicity of the word, latency, an answer for every request |
| `csr/reg.py`, `csr/action.py` | field storage; clusters and names | register access, set and clear by hardware; fields to bits | every bit at an address of its own; set and clear in one cycle |
| `event.py`, `csr/event.py` | `pending`, `enable`, delayed lines | triggers, CSR writes | no event lost to a clear |
| `periph/msi.py`, `periph/intc.py` | `pending`, `prev`, masks, configuration | edges or levels to messages or an interrupt | no edge without a message |
| `periph/timer.py` | counter, reload, pending | CSR access, event | the processor is told of each zero |
| `memory.py` | sorted ranges, names, `next_addr`, `frozen` | add, align, freeze, decode, translate | disjoint, lookups inverse, patterns select |
| `axi/timeout.py` | FSM, counter, ID per path | passes channels through, answers on expiry | one answer per transaction, bounded wait |
| `axi/arbiter.py` | `grant`, two locks | round robin, routing | answers routed, fairness |
| `axi/decoder.py`, `axi/crossbar.py` | FSMs with latched and next targets | routing, DECERR | answers from the addressed subordinate |
| `axi/adapter.py`, `axi/burst.py` | FSMs, beat address and count, worst response | bursts to single accesses | every beat once, at the right address |
| `axi/sram.py` | FSMs, memory | answers reads and writes | every accepted request is answered |
| `bridge/axi_to_wb.py`, `bridge/wb_to_axi.py` | FSM, latches | AXI4-Lite to Wishbone and back | one access per request |
| `dma/scatter_gather.py`, `dma/reader.py`, `dma/writer.py` | three FSMs, descriptors, address and beat counters | start, abort, table writes; bursts; a stream from reader to writer | every word once, in order; reports what is copied; ends |
| `dma/descriptor_table.py`, `dma/splitter.py`, `dma/*_controller.py` | FIFOs, registered input, loop index, pending count | descriptors, splitting, requests, completions | every word once, in order; capacity; loop index |
| `dma/synchronizer.py`, `buffering.py`, `loopback.py` | gate, FIFOs | streams between the controllers | nothing dropped or doubled |
| `gpio.py`, `periph/gpio.py`, `periph/base.py`, `periph/__init__.py` | plain registers; classes | - | - |
| `soc/*`, `cpu/*` | lists of parts | instantiates and connects | addresses and interrupts do not collide |
| `sim/*`, `export/*`, `utils/*`, `bridge/registry.py`, `axi/bus.py` | test benches, text, constructors | - | - |

Parts interact by signals in the same cycle (bus channels, event lines, strobes), by
the memory map that the decoders read their patterns from, and by descriptors and
registers that software writes. The behaviours that are hard to test are the
coincidences: a grant that moves in the cycle of a handshake, an event in the cycle
of its clear, an expiry in the cycle of an answer, address and data that arrive in
either order, a read next to a write; then starvation, counters and FIFOs at their
limits, boundaries of bursts and of address ranges, and orders of calls to the
memory map. `PROJECT.json` lists them under "hazards", at their lines, with the
properties that would catch each and the premises under which those hold.

## Modules

**Wishbone.** `WbArbiter` is the arbiter between N initiators and one memory.
`grant` is the register; `Arbitrate` is the `Switch` over it, where the last
assignment that applies wins: the nearest successor, and if there is none the lowest
predecessor, which `FirstInLine` says as the first rival in cyclic order. An
initiator drives nothing, a read, CYC only, LOCK only, or a write, and may abort.
`Release`, `Wait` and `Access` are the cases of the SRAM's acknowledge register,
with wait states added. `served` and `bypassed` are history. `WbDecoder` has the
decoder's burst latch and the shim's two states; `BurstPath` uses it.

**CSR bus.** `CsrChunks` has the address arithmetic of `_Shadow`, with masks as
division and remainder; `CsrShadow` builds a shadow (`Add` is `add()`; `Prepare`,
`Double` and `Freeze` are the entry, the recursion and the end of `prepare()`).
`CsrMultiplexer` is the logic that `elaborate()` generates from the finished layout,
for several multiplexers behind a CSR decoder. `CsrBridges` adds the Wishbone and
the AXI4-Lite bridge with their initiators, and `CsrPath` chooses who drives the
bus: an initiator of its own that goes through a register in ascending order, as the
docstring demands, and may stop anywhere, or one of the bridges. `CsrAtomic` is the
abstract specification, written from the docstring of `Interface`: transactions have
copies of their own, and nothing is shared.

**Layout.** `MemoryMap` keeps `_ranges` in order (`keys`) and the namespace
(`names`); `AddResource`, `AddWindow`, `AlignTo` and `Freeze` are the calls,
`DecodeAddress`, `AllResources` and `Matches` the queries. Bisecting the sorted
lists is counting. `CsrBuilder` has registers with nested fields, the builder with
its clusters and indices, and where a field's bits lie. `CsrLayout` composes the two
with `CsrShadow`: registers through a builder, or callers in any order, fill a map;
it is frozen; a shadow is laid out for what is in it.

**Interrupts.** `EventSources` has the devices, the event monitor and the timer,
which latch what happened in the same way and differ in what happens; `Intc` has the
four kinds of controllers of `periph/intc.py` and `periph/msi.py`. An operator is
one way in which a cycle can go. `InterruptPath` connects a device's line to a
controller's source, next to another line of higher priority, and adds a processor
whose handler looks, clears what it saw, serves it, and looks again.

**AXI.** `AxiRouting` has the registers of the arbiters and of the decoders' paths as
parameters and records, so that there may be several of each.
`AxiLiteArbiter` puts N masters around an arbiter and one slave. `Fabric` builds
decoders before two slaves and crossbars of two masters and two slaves, AXI4-Lite
and AXI4, and implements `AxiTransactions`: a transaction is performed once, by the
slave that its address selects, and is answered with what came of it. `AxiTimeout`
is one path of a watchdog, between a master and a slave that answers, drops or
refuses; transactions have identities, so that an answer can be told from the answer
to another.

**Bursts.** `AxiBurst` is the beat address generator; `AxiAdapter`, `AxiSram`,
`BusBridges` (one bridge in each direction) and `WbDecoder` hold the components'
machines. `BurstPath` composes them into five ways from a master to a memory (the
header of the module draws them) and implements `BurstMemory`: each beat once, in
order, at its address, with a read as of one moment and the worst response of all.
The memory is one word array whoever owns it, so the abstract memory needs no
mapping; what is mapped are the two response channels.

**DMA.** `DmaEngines` has the reader and the writer, an operator per FSM state whose
parameters are the inputs of the cycle. `ScatterGather` extends it by the
controller, by the table's write port, which software may use in any cycle, and by a
memory of two ports. The reader's stream is the writer's, so a beat moves when
`Beat` holds, in both at once. Memory words are the addresses they come from;
`reading` and `writing` are the bursts the memory is in the middle of. `DmaCopy` is
the abstract specification: no bursts and no bus, a descriptor is loaded, its words
are copied one by one, it is reported, the next one is loaded; an abort stops the
reports and not the copy. `DmaDescriptors` is the other family's descriptor table
and splitter, `DmaControllers` its read and its write controller;
`DmaPath` joins two of each with the plugins between them (synchroniser, buffers,
loopback) and implements `DmaStream`: the words the read descriptors name go, in
order, to where the write descriptors say.

Operators marked "mutant of" are plausible mistakes; `PROJECT.json` pairs each
property with one that violates it. No specification uses them. The MC modules
define the values of constants that a configuration cannot write.

## Runs

| Run | Bounds | States | Shows |
|---|---|---|---|
| `wb_arbiter` | 3 initiators, 2 with LOCK, 2 values | 9 thousand | `TypeOK`, `AckReachesServed`, `AtomicUpdate`, `BoundedBypass`, `Served` |
| `csr_path` | two buses, registers of 3, 2 and 1 chunks, words of 2 chunks, all three fronts | 233 thousand | `ReadIsOneMoment`, `WriteIsDone`, `LatencyIsConstant`, `ImplementsAtomic` |
| `csr_path_wide` | a register of 2 words behind the AXI4-Lite bridge | - | `NextWordIsOfThisCapture` is violated |
| `csr_layout` | 16 addresses; 2 resources and 3 windows, or 3 registers with fields; 0 overlaps | 198 thousand | `LookupsAgree`, `PathsAreDistinct`, `PlainPatternsSelect`, `FieldBitsAreReached`, `ChunksRoundTrip`, `TerminatesAligned` |
| `axi_timeout` | period 8, latency at most 5 or never, bursts of 2, three paths | 459 | `ResponseIsAwaited`, `TakesOverDropped`, `BoundedWait`, `Completes` |
| `axi_arbiter` | 3 masters, AXI4-Lite and AXI4 | 68 thousand | `LockTracksSlave`, `BoundedBypass`, `Granted` |
| `axi_arbiter_route` | 2 masters, AXI4-Lite | - | `ResponseToRequester` is violated |
| `interrupt_path` | a monitor with a level and a rising event behind MSI and the interrupt controller; a timer with and without reload behind that and both modes of the other | 71 thousand | `NoEventLost`, `FiringsReported`, `WakesUp`, `EventServed` |
| `dma` | bursts of 2, lengths 3 and 2, a table of 2, 6 words, aborts | 2 thousand | `LastBeatAgrees`, `ImplementsCopy`, `Finishes` |
| `burst_path` | 4 words of 2 bytes, 2 values, one faulty word, bursts of up to 4 beats, five paths | 93 thousand | `ImplementsBursts`, `RequestHolds`, `BurstsComplete` |
| `axi_fabric` | 2 slaves; a decoder with pipelined and plain targets, crossbars of 2 masters | 14 thousand | `ImplementsTransactions`, `TransactionsEnd` |
| `dma_path` | 2 descriptors each way, requests of up to 2 words, FIFO of 4, table of 2, five setups | 17 thousand | `CompletionsFit`, `WriterHasData`, `FirstMarksDescriptor`, `LoopIndexIsLast`, `ImplementsStream`, `Delivers` |

### Why the bounds are enough

Three initiators or masters are the least with a successor, a predecessor and a
rival between the two; two with LOCK and one without cover every pair. In the
multiplexer's instance a shadow of four chunks has one chunk that belongs to both
registers, one register is not aligned, and the hardware changes the other; one bit
suffices because data is only copied and ORed. A word of two chunks has a first and
a last lane; the second bus has a register in the last chunk of a word whose first
chunk is nothing, so that a write takes effect in the cycle in which the answer is
due. Sixteen addresses have room for resources below, between and above
two windows, and for every alignment of registers of up to three chunks next to each
other; all orders of the calls are explored. The fields fill a single chunk, three
chunks with a part of the last one unused, and three bits in nested containers
(`Nesting` is how deep the deepest of them is).

The period of the watchdog leaves room for the three cycles between handshake,
expiry and answer; what matters is only whether a latency is below it, and the
theorems say so for every period. The scatter-gather engine's descriptors take a
full burst, and a full one and a short one; one copies what the other wrote, either
may be first or overwrite the other in the table, and one ends the list early.
Bursts of two beats have a first and a last beat; those of four are there for the
wrap of a narrow burst. The four words belong to two subordinates, so that each
burst is in one, or crosses (FIXED and single beats) between bursts. The faulty word
is behind a first and behind a second beat. The crossbars need two masters for
contention for the grant and two slaves for a wrong target; a decoder alone is
explored with masters that stall, send data first, ask for addresses that no slave
has, and have three transactions in flight. In the stream's instance requests of the
two sides overlap in every way, the FIFO holds two full requests, and the table is
full and is emptied.

Counters saturate where nothing depends on more: `bypassed` at N, ages one above
their bounds. `IndexBound`, `IdBound` (2^16 and 2^8 in the code), `LenValues`
(256) and `PendingBound` (2^n for a counter of n bits) have to be at least what
the instance uses; the first two wrap within a run.

`CHECK_DEADLOCK FALSE` is set for `csr_layout` only: elaboration ends.

### Fairness

The clock runs: weak fairness of the next-state relation. Beyond that, nothing is
assumed of any component of the library, and of the environment only that it does
not keep anything waiting for ever:

* `wb_arbiter`: the memory acknowledges an access some time (the SRAM does after one
  cycle), and an initiator goes on from its read to its write.
* `axi_arbiter`: the slave is not busy for ever. `Granted` has the premise that both
  locks are free again and again, since a master that overlaps reads and writes
  without end keeps one of them.
* `axi_timeout`: the master is ready for its response again and again, and the slave
  is ready for requests again and again (strong fairness, since either may change
  its mind); it need not answer.
* `burst_path`, `axi_fabric`: there is, again and again, a cycle in which initiators
  hold back nothing, and one in which the subordinates that are not of this library
  hold up nothing (`NoDelay`, `NoWait`).
* `dma`: address, beat and response each have a weak fairness of their own.
* `dma_path`: software programs and starts what it means to; bus and reference pulse
  do not wait for ever.
* `interrupt_path`: the processor finishes its setup; the bus that carries messages
  takes them often enough that none is left now and then, and the line of the other
  device is low now and then where the controller has no memory. Without this a busy
  device with the lower vector starves the other, as fixed priority means it to.
* `csr_layout`: the recursion of `prepare()` goes on.

### What the violations say

* `axi_arbiter_route`: the AXI4-Lite grant can move in the cycle of an address
  handshake, before the lock is set; the response goes to the new owner of the
  grant.
* `csr_path_wide`: the AXI4-Lite to CSR bridge strobes the first chunk of a word
  again in the cycle in which it takes the last chunk's data. A register of more
  than one word is captured a second time, so that its next word is not of the
  moment of the first; and a read that has a side effect has it twice.

### Where the documentation says otherwise

The docstring of the AXI4-Lite to CSR bridge (`csr/axi_lite.py:24`, and `README.md:879`
of the repository) has one figure for reads and writes, `data_width //
csr_bus.data_width + 1` cycles. From the cycle after the address handshake a read
takes that many, to take the last chunk's data, and a write one less; with the
handshake's cycle counted, the write takes that many and the read one more. Neither
count makes both right. `LatencyIsConstant` states what the code does, with the first
count; by Wishbone, whose documentation has the same figure, it is exact.

## Proofs

Eight modules hold theorems. All assumptions are the named ones of the modules about
the constants, which TLC evaluates in every run. Most say that a constant is of its
type, or what a design guarantees of it (`SizesAssumption`: a FIFO holds more than
a request and its counter does not wrap; `WindowsAssumption`: a window is a memory
map itself, so that its names are no prefixes of each other and its ranges are in
it). The two `PowersAssumption` and most of
`LayoutAssumption` are arithmetic: the prover does not know that a power of two is
positive, is more than its exponent, or divides the larger ones, as those are
inductions. `SizeAssumption` says that `prepare()` ends, without which there is no
multiplexer.

`CsrPathProofs`: for any registers, windows, ratio, number of overlaps and history
of the registers, `ReadIsOneMoment`, `WriteIsDone`, `LatencyIsConstant`, and the
refinement of `CsrAtomic`. The last has two hypotheses, because a bridge knows no
registers: a word has its registers whole (`WholeRegisters`; the run `csr_path_wide`
shows what happens without it), and a select pattern leaves out no chunk before one
of the same register (`InitialLanes`; compare the hazard at `csr/wishbone.py:94`).
TLC evaluates both for the constants of `csr_path`. First comes the layout:
`encode_offset` finds back the address that `decode_address` has mapped
(`RoundTrip`), so no two addresses of a register share a chunk (`ChunksAreDistinct`)
and a chunk is selected by the one register that the address belongs to
(`SelectedIs`). Then what a cycle does to a register, shared chunks or not
(`CapturesRegister`, `ReadCycle`, `WriteCycle`), and that each cycle of either
bridge is one of four (`BridgeStep`: it strobes, skips a lane, finishes, or rests).
The invariants count the lanes strobed so far (`Count`): the transaction is at the
next one (`InOrder`); a register that was captured lies with its first lanes in the
bridge, with one lane on the bus and with the others in the shadow, all from one
cycle (`Fetched`); and the chunks written wait in the shadow until the register has
been given its last (`Written`); a cycle after the last strobe, which is when the
Wishbone acknowledge is up, the registers themselves have it (`Stored`). The latency
that is proved is the documented one but for AXI4-Lite writes, which take one cycle
less.

`WbArbiterProofs`: for every number of initiators, every choice of those with LOCK
and every set of memory contents, `TypeOK`, `AckReachesServed`, `AtomicUpdate` and
`BoundedBypass`. None of the last three is inductive. The invariant adds
`OwnerInside` (who is between its read and its write owns the bus, and who is in a
gap has LOCK; the grant cannot move then), `ReadIsCurrent` (while the acknowledge of
a read lasts, the data register equals the memory) and `Line`: the bypasses so far
and the cyclic distance from the grant to a waiting initiator add up to at most N -
1. When the grant moves to the first in line, the distance shrinks by at least one
(`DistAdvance`) while the count grows by one.

`AxiLiteArbiterProofs`: for every number of masters, on AXI4-Lite and AXI4,
`LockTracksSlave`, `BoundedBypass`, and an action property: the grant rests while
the slave has a transaction that a lock is for, and otherwise stays or goes to the
nearest other master that requests. AXI4's write lock is for the data only, so the
grant does move while the slave owes the response to a write; and no lock is held
yet in the cycle of an address handshake, so it moves in that one too
(`axi_arbiter_route`). The arbiter's grant is chosen with `CHOOSE`, so that there is
a first in line has to be shown first (the masters' distances are well-founded); the
`Line` argument is that of the Wishbone arbiter, with a grant that may move only
while no lock is held.

`AxiTimeoutProofs`: for every period, latency and number of beats with `MaxLatency +
2 < Timeout` and a master that takes responses at once, `ResponseIsAwaited`,
`TakesOverDropped` and `BoundedWait`, on each path. The invariant says that the
master's, the watchdog's and the slave's idea of the transaction are one, and that
all three count the same cycles: the watchdog's counter, the age of the transaction
and the work of the slave differ by constants. So an expiry finds that the slave has
dropped the transaction, with all the data that it will ever take.

`ScatterGatherProofs`: for every maximal burst, memory size, table size and set of
descriptors that fit the memory, the engine implements `DmaCopy`, and WLAST comes
with the last beat of the burst that was announced. The refinement needs `ReaderAt`
and `WriterAt`: the address and the count that an engine keeps, those of the burst
in the memory, and the words moved so far account for the whole descriptor, and
neither address has wrapped. `Coupled` adds that the two engines start together,
that nothing starts while one of them is at work, and that all words are moved when
the writer rests. A cycle with a beat is a word copied (`BeatMoves`), one without is
what the controller does (`CycleCopies`).

`CsrLayoutProofs` is about a map and its callers (`Spec` of `MemoryMap`) and about the
map of a builder with a shadow of it (`LayoutSpec`), for any resources, windows,
ratios, sizes, alignments, fields, offsets, number of overlaps and order of calls.
Both have `LookupsAgree`, `PathsAreDistinct` and `PlainPatternsSelect`; the second
has `FieldBitsAreReached` and `ChunksRoundTrip`. The map's invariant is that the keys
are in ascending order and do not overlap, that each window's range is as long as its
map, and that the names of two items are no prefixes of each other (`Ordered`,
`Placed`). That it is kept rests on what bisecting finds (`Bisected`: counting the
starts and the stops below a point gives a position, because the lists are sorted;
`Free`: a range for which the two counts agree is between two keys) and on what
inserting there does (`Inserted`, `InsertKeys`). Above it, the arithmetic of dense
windows (`Dense`) and of prefixes (`PrefixesMeet`, `PrefixAfterName`) give the three
properties. `LayoutInv` adds that a register's range has room for its chunks
(`Sized`), also when the builder rounds it up or asks for an offset, and that the
shadow is, at every size that `prepare()` tries, a multiple of each register rounded
up to a power of two (`ShadowInv`). Fields then have bits of their own because the
widths before a field add up to where it starts (`Widths`, whose sums have to be
shown to exist: `SumExists`), and division by the data width keeps bits apart
(`FieldBits`). A chunk is found back because an address and its offset agree modulo
the rounded size, and a register is no longer than that (`ChunksHold`, `RoundTrip`).

`InterruptPathProofs`: for any level and rising events, any reload values and any
choice of controllers, `NoEventLost`, `FiringsReported` and `WakesUp`. The first is
inductive once a cycle is seen to clear only what the processor has seen
(`ClearsWhatIsSeen`): `unseen` has every event from the cycle in which it happens to
the one in which the processor reads it or, if it came between the read of an
earlier one and its clear, to that clear. An event in the cycle of the clear counts
as a new one, so a clear with precedence over a trigger loses it. The others need
`SetUp` (only vectors whose message is configured are watched) and `Covered`: while
the processor has not been told of the device since it last looked, a line that the
controller has already seen high has left its vector pending or its message in the
inbox. A handler that goes to sleep has looked and found nothing, so the line was
low then (`Looking`).

`DmaPathProofs`: for every depth, request size, table size and list of descriptors,
the four invariants of `dma_path` and its refinement of `DmaStream`.
`CompletionsFit` needs an account (`Room`): the words in the read FIFO and those
that the bus still owes add up to `pending` (`Counted`), and with the request about
to be made they fit the FIFO; the resets that software makes while nothing is under
way keep that. `WriterHasData` needs that a write in progress has its remaining
words in the FIFO (`Data`).

`LoopIndexIsLast` needs the history of a loop's table. While software fills it
nothing is taken, so that only the first descriptor has the first flag (`Filling`);
from then on the FIFO and its registered input hold the list turned by some k, and
the index is k - 1, or the last place if k is 0 (`TurnedBy`; `TableTurns` is what
taking a descriptor does to the two, `TakenIndex` what it does to the index, which
starts again before it wraps). `FirstMarksDescriptor` needs to know which requests are
those of a descriptor: an id is not that of the first completion before it just when
its request is at the start of a descriptor (`ReadMarked`). That is a property of
the chain of the requests at the bus (`Chain`), which serving its first word or
adding one keeps (`ServedChain`, `AppendedChain`), and of the piece that is next
(`PieceMarked`). It survives software that stops the controllers, because requests
are answered all the same, and the splitter goes on with the piece that it has.

The refinement (`StreamIsImplemented`) follows the words. What is on its way at any
place, be it the writer's FIFO, the buffers, the reader's FIFO, the requests at the
bus or a table of descriptors, is a sequence whose elements stand for spans of the
stream, each going on where the one before it has ended (`Flow`). A flow loses its
head, gains an end, or is joined to the next one (`FlowsMeet`), and that is all that
the cycles do to them: a word is popped, a request becomes words, a piece becomes a
request, a descriptor becomes pieces. So all of them lie end to end from the word
that is written next (`WordsComing`, `ReadComing`); the addresses do the same on the
other side (`WriteComing`), where the writer is the `req_count`-th word into its
request (`Anchored`). A loop makes the stream begin again at its end, and once
software has stopped the controllers words may be missing between two spans (the
parameter `slack`), but none is out of place. `Switches` says what the plugins let
pass meanwhile. What the stream is, the descriptors' words one after the other, is a
fold over the list; the proof needs only where each descriptor begins in it
(`LaidOut`, by the least place that would break it, with the library's
well-foundedness of the naturals).

Two assumptions of `DmaPath` are about software. Read descriptors do not overlap,
and none is there twice: otherwise the data, which in the model are addresses, would
not tell which descriptor a word is from (`Position` needs it as well). A loop is not stopped (`SetupsAssumption`): what the splitter takes in
the cycle after is not refilled, and the table would have to be filled again.

Only model-checked: liveness (the prover handles neither fairness nor `ENABLED`);
the refinements by the burst paths and the fabric, whose invariants have to relate
all the units of a path at once. All invariants of the runs are proved.

## Limits: premises of the runs, and what fails without them

What environments are kept from doing in the models is what the code does not
support, found while the models were written. Most are in the hazards list, at their
lines.

*CSR.* The Wishbone initiator holds its request until the acknowledge (the counter
is not reset otherwise), and its selects begin with a register's first chunk. The
AXI4-Lite master of the bridge sends address and data together, all strobes set, and
no read next to a write: `IDLE` accepts the others and drops them
(`csr/axi_lite.py:125`). `prepare()` need not end for unaligned registers: with
`shadow_overlaps=0` and 0..1, 1..2 and 3..6 (stops excluded) two of them share a
chunk at every size, hence the premise of `TerminatesAligned`; and its comparison
(`csr/bus.py:432`) lets one more register share a chunk than documented. Keyword
arguments of `from_peripheral` (`csr/reg.py:893`) always raise.

*Memory map.* `window_patterns` makes the pattern of a dense window `ratio` times
too wide (`memory.py:579`), hence the premise of `PlainPatternsSelect`. An explicit
address is checked against the map's own alignment only (`memory.py:281`).

*AXI.* AXI4LiteSRAM's `IDLE` has all READY signals up (`axi/sram.py:122`): a read
next to a write, or an address whose data comes later, is accepted and lost. So a
write of a decoder, which forwards AW and then W (`axi/decoder.py`), never ends
there; and the adapter and AXI4LiteDecoder wait for each other
(`axi/adapter.py:149`). These pairs are not in `burst_path`. AXI4Arbiter clears its
write lock with the last data beat (`axi/arbiter.py:302`): the masters of
`axi_fabric` use a slave one at a time. The pipelined decoder keeps a next target
that another state has consumed (`axi/decoder.py:325`). A watchdog does not count
before the address handshake, and a response in the cycle of the expiry is delivered
and answered again: hence the fairness of the slave and the bound on its latency.

*Wishbone.* A burst that begins at an unmapped address latches subordinate 0
(`wishbone/bus.py:472`), one that crosses windows stays with the first, and an
unmapped classic access is never answered. A pipelined subordinate that answers in
the cycle in which it accepts leaves the shim in `BUSY`. `WishboneToAXI4Lite` reads
the address of a read as it goes: an initiator must hold it (`RequestHolds`).

*DMA.* An abort of the scatter-gather engine does not reach its reader and writer
(`dma/scatter_gather.py:241`); software waits for them before it starts again. Empty
descriptors hang the writer. Responses with errors are ignored. The table's reset is
combined with what its register held before (`dma/descriptor_table.py:166`); a reset
while the splitter runs leaves it with a descriptor of the past; the read
controller's pending count underflows if it is enabled again while requests are on
their way. The FIFOs, of another library, are queues whose head is valid as soon as the
level counts it.

*Interrupts.* A clear takes precedence over a new edge (`periph/intc.py:218`), which
is why the handler must look again after it has cleared. The timer's line is a level
and some controllers see edges only.

## Not modelled

* Wishbone Crossbar: wiring of the decoder and the arbiter, which are modelled.
* `EventMap`, annotations, reserved fields and `RW1S`; `BARMemoryMap`, sparse
  windows and windows inside windows; the run-time depth of the DMA's buffers and
  their status registers.
* GPIO: synchronisers and pin modes, one bit each, without an interleaving.
* `soc/*`, `cpu/*`, `periph/base.py`, `bridge/registry.py`, `axi/bus.py`: lists,
  protocols and constructors of Python classes without behaviour over time.
* `sim/*`, `export/*`: test benches and text. The rules of `sim/protocol_checker.py`
  are used as the statement of what masters expect.
* Data widths, byte enables, protection bits and other attributes that are passed
  along; resets in mid-operation; clock-domain crossings, of which there are none in
  these parts.

Worth adding next: proofs of the refinements of `AxiTransactions` and `BurstMemory`.
