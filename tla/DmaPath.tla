------------------------------ MODULE DmaPath ------------------------------
(* The DMA of bus-agnostic parts (docs/dma/index.rst): for reading and for     *)
(* writing a descriptor table, its splitter and a controller, and the plugins  *)
(* between the controllers.  Software programs the tables, starts, and may     *)
(* stop and start again; the bus answers when it pleases.  A step is a clock   *)
(* cycle.  What is set up for good is in the record "setup".                   *)
EXTENDS SequencesExt, Integers

CONSTANTS ReadDescs, WriteDescs,   \* what software programs, in this order
          WordBytes, MaxWords,     \* bytes of a word, words of a request
          TableDepth, FifoDepth, BufferDepth,
          PendingBound,            \* 2^n: the read controller counts up to FifoDepth in n bits
          IndexBound, IdBound,
          Setups                   \* [loop, stream, buffered, restarts, mode]

ASSUME SizesAssumption ==
  /\ WordBytes \in Nat \ {0} /\ MaxWords \in Nat \ {0}
  /\ FifoDepth \in Nat /\ MaxWords < FifoDepth
  /\ PendingBound \in Nat /\ PendingBound > FifoDepth
  /\ IdBound \in Nat /\ IdBound > 1
  /\ TableDepth \in Nat /\ IndexBound \in Nat /\ TableDepth <= IndexBound
  /\ Len(ReadDescs) <= TableDepth /\ Len(WriteDescs) <= TableDepth
ASSUME DescsAssumption ==
  /\ ReadDescs \in Seq([addr : Nat, length : Nat \ {0}])
  /\ WriteDescs \in Seq([addr : Nat, length : Nat \ {0}])
  /\ \A d \in Range(ReadDescs) \cup Range(WriteDescs) : d.addr % WordBytes = 0
  /\ \A d, e \in Range(ReadDescs) : d.addr < e.addr => d.addr + d.length <= e.addr
  /\ \A i, j \in DOMAIN ReadDescs : i # j => ReadDescs[i].addr # ReadDescs[j].addr
\* A loop is not stopped: software would have to fill its table again.
ASSUME SetupsAssumption ==
  \A s \in Setups : /\ s.loop \in BOOLEAN /\ s.restarts \in BOOLEAN
                    /\ ~(s.loop /\ s.restarts)
                    /\ s.stream \in BOOLEAN /\ s.buffered \in BOOLEAN
                    /\ s.mode \in {"bypass", "off", "both", "pps"}

VARIABLES setup,
          programmed,    \* the descriptors that software has written: reading, writing
          reset_data,    \* the reset register of the read table
          on, stopped,   \* the enable bits; history: whether they were ever cleared
          r_table, r_refill, r_loop_status, r_split, r_piece, r_left, r_user_id,
          w_table, w_refill, w_loop_status, w_split, w_piece, w_left, w_user_id,
          r_state, pending, r_fifo, last_id,
          w_state, req_count, w_fifo,
          synced, rbuf, wbuf,
          reads,         \* the requests at the bus: next word, words left, id, first
          mem, from, to  \* memory; history: words read and written

software  == <<setup, programmed, reset_data, on, stopped>>
r_path    == <<r_table, r_refill, r_loop_status, r_split, r_piece, r_left, r_user_id>>
w_path    == <<w_table, w_refill, w_loop_status, w_split, w_piece, w_left, w_user_id>>
ctrl      == <<r_state, pending, r_fifo, last_id, w_state, req_count, w_fifo>>
vars      == <<software, r_path, w_path, ctrl, synced, rbuf, wbuf, reads, mem, from, to>>

RPath == INSTANCE DmaDescriptors WITH
  Depth <- TableDepth, MaxSize <- MaxWords * WordBytes,
  table <- r_table, refill <- r_refill, loop_status <- r_loop_status,
  state <- r_split, piece <- r_piece, left <- r_left, user_id <- r_user_id
WPath == INSTANCE DmaDescriptors WITH
  Depth <- TableDepth, MaxSize <- MaxWords * WordBytes,
  table <- w_table, refill <- w_refill, loop_status <- w_loop_status,
  state <- w_split, piece <- w_piece, left <- w_left, user_id <- w_user_id
Ctrl  == INSTANCE DmaControllers WITH Depth <- FifoDepth

-----------------------------------------------------------------------------
(* Software.  A loop is programmed before the controllers are enabled and the  *)
(* tables set to loop; otherwise they run from the start.                      *)
Desc(d) == [addr |-> d.addr, length |-> d.length, first |-> FALSE]

\* The strobes of a cycle: nothing or the next descriptor.  It takes the bus
\* some cycles to write the value of a descriptor before its strobe.
Strobes(descs, n, refill) ==
  {<<>>} \cup (IF n < Len(descs) /\ refill = <<>> THEN {<<Desc(descs[n + 1])>>} ELSE {})

AllProgrammed == programmed = <<Len(ReadDescs), Len(WriteDescs)>>

Quiet == r_state = "IDLE" /\ w_state = "IDLE" /\ reads = <<>>

\* Software stops at any time, and starts when nothing is on its way.
Enables ==
  IF on THEN IF setup.restarts /\ ~stopped THEN BOOLEAN ELSE {TRUE}
  ELSE IF Quiet /\ (setup.loop => AllProgrammed /\ r_refill = <<>> /\ w_refill = <<>>)
       THEN BOOLEAN ELSE {FALSE}

\* Only a table that was stopped is reset: software writes a one.
Resets == IF setup.restarts /\ ~on THEN BOOLEAN ELSE {FALSE}

\* The strobe is combined with what the register holds before the write.
TableReset(stb) == stb /\ reset_data = 1

looping == setup.loop /\ AllProgrammed /\ on
mode    == IF on THEN setup.mode ELSE "off"

-----------------------------------------------------------------------------
(* The bus: it answers the requests in their order, word by word.              *)
Completion ==
  [data |-> reads[1].word, id |-> reads[1].id, first |-> reads[1].first,
   last |-> reads[1].left = 1]

Served ==
  IF reads[1].left = 1 THEN Tail(reads)
  ELSE [reads EXCEPT ![1].word = @ + 1, ![1].left = @ - 1, ![1].first = FALSE]

Request ==
  [word |-> r_piece.addr \div WordBytes, left |-> Ctrl!Words(r_piece.length),
   id |-> r_user_id, first |-> TRUE]

BusReads(req_ready, cmp) ==
  reads' = (IF cmp # <<>> /\ Ctrl!CmpReady(on) THEN Served ELSE reads)
             \o (IF Ctrl!Requests /\ req_ready THEN <<Request>> ELSE <<>>)

-----------------------------------------------------------------------------
(* The words that are to be copied, as the descriptors name them.              *)
WordsOf(d) ==
  LET n == Ctrl!Words(d.length)
  IN [k \in 1 .. n |-> [addr |-> d.addr \div WordBytes + k - 1,
                        end  |-> k % MaxWords = 0 \/ k = n]]

Src == FlattenSeq([i \in DOMAIN ReadDescs |-> WordsOf(ReadDescs[i])])
Dst == FlattenSeq([i \in DOMAIN WriteDescs |-> WordsOf(WriteDescs[i])])

Position(word) == CHOOSE k \in DOMAIN Src : Src[k].addr = word

-----------------------------------------------------------------------------
(* The writer's side of the bus takes a word.                                  *)
nolast == setup.stream   \* last_disable of the write descriptors

After(k, n) == IF setup.loop /\ k + 1 = n THEN 0 ELSE k + 1

BusWrites(req_ready) ==
  IF ~(Ctrl!Writes /\ req_ready) THEN UNCHANGED <<mem, from, to>>
  ELSE LET word == Head(w_fifo).data
           addr == w_piece.addr \div WordBytes + req_count
           k    == Position(word) - 1
       IN /\ mem' = [mem EXCEPT ![addr] = word]
          /\ from' = IF Ctrl!Pops(w_piece.length, nolast) THEN After(k, Len(Src)) ELSE k
          /\ to' = After(to, Len(Dst))

-----------------------------------------------------------------------------
(* The plugins between the controllers, in the order of docs/dma/index.rst:     *)
(* the synchronizer (dma/synchronizer.py), the buffers (dma/buffering.py), if   *)
(* there are any, and the loopback (dma/loopback.py), which is enabled: what    *)
(* leaves the reader's buffer enters the writer's.                             *)
SyncNext(pps, sink_valid) ==
  CASE mode = "bypass" -> TRUE
    [] mode = "off"    -> FALSE
    [] mode = "both"   -> synced \/ (pps /\ sink_valid)
    [] mode = "pps"    -> synced \/ pps

\* Whether a word of the reader is taken.
SinkReady(source_ready) ==
  synced /\ (IF setup.buffered THEN Len(rbuf) < BufferDepth ELSE source_ready)

\* The word that is offered to the writer: one or none.
Source(sink) ==
  IF ~synced THEN <<>>
  ELSE IF ~setup.buffered THEN sink
  ELSE IF wbuf # <<>> THEN <<Head(wbuf)>> ELSE <<>>

\* A cycle: "sink" is the word that the reader offers (one or none).  While it
\* is not synced, the synchronizer acknowledges what comes back and drops it.
PluginsStep(pps, sink, source_ready) ==
  LET enters  == IF setup.buffered /\ SinkReady(source_ready) THEN sink ELSE <<>>
      through == IF rbuf # <<>> /\ Len(wbuf) < BufferDepth THEN <<Head(rbuf)>> ELSE <<>>
      leaves  == wbuf # <<>> /\ (synced => source_ready)
  IN /\ synced' = SyncNext(pps, sink # <<>>)
     /\ rbuf' = IF ~on THEN <<>>
                ELSE (IF through # <<>> THEN Tail(rbuf) ELSE rbuf) \o enters
     /\ wbuf' = IF ~on THEN <<>>
                ELSE (IF leaves THEN Tail(wbuf) ELSE wbuf) \o through

-----------------------------------------------------------------------------
Init ==
  /\ setup \in Setups /\ programmed = <<0, 0>> /\ reset_data = 0
  /\ on = ~setup.loop /\ stopped = FALSE
  /\ RPath!Init /\ WPath!Init /\ Ctrl!ReaderInit /\ Ctrl!WriterInit
  /\ synced = FALSE /\ rbuf = <<>> /\ wbuf = <<>>
  /\ reads = <<>>
  /\ mem = [a \in {Dst[i].addr : i \in DOMAIN Dst} |-> 0] /\ from = 0 /\ to = 0

Software(r_we, w_we, reset, enable) ==
  /\ programmed' = <<programmed[1] + Len(r_we), programmed[2] + Len(w_we)>>
  /\ reset_data' = (IF reset THEN 1 ELSE reset_data)
  /\ on' = enable
  /\ stopped' = (stopped \/ (on /\ ~enable))
  /\ UNCHANGED setup

Clock(r_we, w_we, reset, r_ready, w_ready, cmp, pps) ==
  LET offered  == IF r_fifo # <<>> THEN <<Head(r_fifo)>> ELSE <<>>
      in_ready == Ctrl!InReady(on)
      in       == Source(offered)
  IN /\ RPath!Step(r_we, looping, TableReset(reset), Ctrl!ReaderReady(r_ready))
     /\ Ctrl!ReaderStep(on, RPath!Offers, r_piece.length, r_ready, cmp, SinkReady(in_ready))
     /\ PluginsStep(pps, offered, in_ready)
     /\ Ctrl!WriterStep(on, WPath!Offers, w_piece.length, nolast, in, w_ready)
     /\ WPath!Step(w_we, looping, FALSE, Ctrl!WriterReady(w_piece.length, w_ready))
     /\ BusReads(r_ready, cmp)
     /\ BusWrites(w_ready)

Maybe(asked) == IF asked THEN BOOLEAN ELSE {FALSE}

Next ==
  \E r_we \in Strobes(ReadDescs, programmed[1], r_refill),
     w_we \in Strobes(WriteDescs, programmed[2], w_refill),
     enable \in Enables, reset \in Resets,
     r_ready \in Maybe(Ctrl!Requests), w_ready \in Maybe(Ctrl!Writes),
     answers \in Maybe(reads # <<>>), pps \in Maybe(~synced) :
    /\ Software(r_we, w_we, reset, enable)
    /\ Clock(r_we, w_we, reset, r_ready, w_ready, IF answers THEN <<Completion>> ELSE <<>>, pps)

(* The clock runs, software programs and starts what it means to, and neither  *)
(* the bus nor the reference pulse keeps anything waiting for ever.            *)
Answers == Next /\ reads # <<>> /\ Len(reads') <= Len(reads) /\ reads' # reads

NoWait ==
  /\ []<>AllProgrammed /\ []<>on
  /\ []<>~Ctrl!Requests /\ []<>~Ctrl!Writes
  /\ []<>(synced \/ r_fifo = <<>>)

Fairness == WF_vars(Next) /\ WF_vars(Answers) /\ NoWait

Spec == Init /\ [][Next]_vars /\ Fairness

-----------------------------------------------------------------------------
Stream == INSTANCE DmaStream WITH loop <- setup.loop, lossy <- stopped

(* Whatever the requests, the delays of the bus, the plugins on the way and    *)
(* the moment at which software programs the tables: the words of the read     *)
(* descriptors are written, in order and each once, where the write            *)
(* descriptors say.  Words are lost only when software stops the controllers.  *)
ImplementsStream == Stream!Spec

(* The read controller checks for room a cycle before it asks, and counts a    *)
(* request when it is accepted: no completion is ever kept waiting for room.   *)
CompletionsFit == reads # <<>> => Ctrl!CmpReady(on)

(* The write controller compares the level with the length of the piece once,  *)
(* and never looks at the valid flag of its FIFO while it writes: there is     *)
(* always a word to write.                                                     *)
WriterHasData == Ctrl!Writes => w_fifo # <<>>

(* A word is marked as a first one if it is the first of its descriptor,       *)
(* although each request begins with a first completion.                       *)
FirstMarksDescriptor ==
  \A i \in DOMAIN r_fifo :
    r_fifo[i].first <=> \E d \in Range(ReadDescs) : d.addr = r_fifo[i].data * WordBytes

(* "16-bit index of the last descriptor executed": in a loop, the descriptor   *)
(* that was taken last is the one at the loop index.                           *)
LoopIndexIsLast ==
  looping /\ ~r_loop_status.first =>
    LET all == r_table \o r_refill
    IN all[Len(all)].addr = ReadDescs[r_loop_status.index + 1].addr

(* Everything that is programmed is written, and a loop goes on for ever.      *)
Delivers ==
  /\ <>(setup.loop \/ stopped \/ to = Len(Dst))
  /\ []<>(~setup.loop \/ to = 0) /\ []<>(~setup.loop \/ to # 0)
=============================================================================
