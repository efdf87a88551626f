----------------------------- MODULE BurstPath -----------------------------
(* The ways from an initiator of bursts to a memory.  A path is chosen when the *)
(* design is elaborated:                                                       *)
(*   native    AXI4 master, AXI4SRAM                                           *)
(*   adapter   AXI4 master, AXI4ToAXI4Lite, AXI4LiteSRAM                       *)
(*   bridged   AXI4 master, AXI4ToAXI4Lite, AXI4LiteToWishbone, Wishbone       *)
(*   single    AXI4-Lite master, AXI4LiteToWishbone, Wishbone                  *)
(*   wishbone  Wishbone initiator with CTI, Wishbone                           *)
(* where Wishbone is a decoder with two subordinates of half the memory each:  *)
(* WishboneToAXI4Lite with an AXI4-Lite slave (the SRAM, or any), and, behind   *)
(* the shim, a pipelined one with wait states and errors.  A step is a cycle.  *)
EXTENDS Integers, Sequences

CONSTANTS AddrSpace, WordBytes, Values, Faulty, None,
          Paths, TargetsOf, \* what may be behind WishboneToAXI4Lite, by path
          BurstsOf,         \* the bursts of the initiator, by path
          Prompt            \* the paths whose initiator never delays VALID or READY

ASSUME SpaceAssumption == AddrSpace \in Nat /\ WordBytes \in Nat \ {0}
                          /\ AddrSpace % (2 * WordBytes) = 0
ASSUME PathsAssumption == Paths \subseteq {"native", "adapter", "bridged", "single", "wishbone"}
                          /\ TargetsOf \in [Paths -> SUBSET {"sram", "any"}]

VARIABLES path, target,                   \* rigid
          aw, w, wburst, sent, tag, bready, werr, \* the initiator's write side
          ar, rburst, got, rready,        \* its read side
          n_wr, n_wb, n_rd, n_rb, n_len, n_beat, n_data,       \* AXI4SRAM
          a_wr, a_wb, a_wlen, a_wcnt, a_wresp,                 \* AXI4ToAXI4Lite
          a_rd, a_rb, a_rlen, a_rcnt, a_data, a_rresp,
          x_fsm, x_waddr, x_w, x_raddr, x_data, x_werr, x_rerr, \* AXI4LiteToWishbone
          d_sub, d_valid, shim,           \* the decoder's latch and the shim
          y_fsm, y_req,                   \* WishboneToAXI4Lite
          l_fsm, l_data,                  \* AXI4LiteSRAM
          e_fsm, e_has, e_rdy, e_data,    \* any other AXI4-Lite slave
          p_stall, p_job, p_ans, p_data,  \* the pipelined subordinate
          mem,
          done, taken, rval               \* history: beats performed, beats sampled, the sample

config    == <<path, target>>
writer    == <<aw, w, wburst, sent, tag, bready, werr>>
reader    == <<ar, rburst, got, rready>>
native    == <<n_wr, n_wb, n_rd, n_rb, n_len, n_beat, n_data>>
adapter   == <<a_wr, a_wb, a_wlen, a_wcnt, a_wresp, a_rd, a_rb, a_rlen, a_rcnt, a_data, a_rresp>>
bridge    == <<x_fsm, x_waddr, x_w, x_raddr, x_data, x_werr, x_rerr>>
decoder   == <<d_sub, d_valid, shim>>
back      == <<y_fsm, y_req>>
sram      == <<l_fsm, l_data>>
slave     == <<e_fsm, e_has, e_rdy, e_data>>
pipelined == <<p_stall, p_job, p_ans, p_data>>
history   == <<done, taken, rval>>
vars == <<config, writer, reader, native, adapter, bridge, decoder, back, sram, slave,
          pipelined, mem, history>>

Sram    == INSTANCE AxiSram WITH wr_fsm <- n_wr, wr_b2b <- n_wb, rd_fsm <- n_rd, rd_b2b <- n_rb,
                                 rd_len <- n_len, rd_beat <- n_beat, rdata <- n_data,
                                 lite_fsm <- l_fsm, lite_rdata <- l_data
Adapter == INSTANCE AxiAdapter WITH
             wr_fsm <- a_wr, wr_b2b <- a_wb, wr_len <- a_wlen, wr_beat_cnt <- a_wcnt,
             wr_resp <- a_wresp, rd_fsm <- a_rd, rd_b2b <- a_rb, rd_len <- a_rlen,
             rd_beat_cnt <- a_rcnt, rd_data <- a_data, rd_resp <- a_rresp
Bridges == INSTANCE BusBridges WITH to_wb <- x_fsm, wr_addr <- x_waddr, wr_w <- x_w,
             rd_addr <- x_raddr, rd_data <- x_data, wr_err <- x_werr, rd_err <- x_rerr,
             to_axi <- y_fsm, req <- y_req
Decoder == INSTANCE WbDecoder WITH sub_latched <- d_sub, sub_latched_valid <- d_valid

WbPaths == {"bridged", "single", "wishbone"}

-----------------------------------------------------------------------------
(* What the initiator drives.                                                  *)
FaultyWords == IF path \in WbPaths THEN Faulty ELSE {}
Bursts == UNION {BurstsOf[p] : p \in Paths}

Ref == INSTANCE BurstMemory WITH faulty <- FaultyWords, bchan <- None, rchan <- None

Half       == AddrSpace \div (2 * WordBytes)    \* words of a subordinate
BeatNow    == Len(sent) - 1
WAddr      == Ref!BeatAddr(wburst, BeatNow)
WBeat      == [data |-> sent[Len(sent)], strb |-> Ref!Lanes(wburst, BeatNow)]
AwValid    == aw = "valid"
WLast      == BeatNow = wburst.len
Request(addr, beat) == [word |-> Ref!Word(addr), data |-> beat.data, strb |-> beat.strb]

\* The Wishbone initiator drives CYC for a burst, its word address and its type.
Cti(b, k) == IF k = b.len THEN "END_OF_BURST"
             ELSE IF b.burst = "FIXED" THEN "CONST_BURST" ELSE "INCR_BURST"

(* The Wishbone bus, driven by the initiator or by the bridge.                 *)
Direct == path = "wishbone"
Cyc    == IF Direct THEN wburst # None \/ rburst # None ELSE Bridges!Cyc
Stb    == IF Direct THEN w \/ ar = "valid" ELSE Bridges!Cyc
We     == IF Direct THEN w ELSE Bridges!We
Cti_   == IF ~Direct \/ ~Stb THEN "CLASSIC"
          ELSE IF w THEN Cti(wburst, BeatNow) ELSE Cti(rburst, got)
WbReq  == IF Direct
          THEN (IF w THEN Request(WAddr, WBeat)
                ELSE [word |-> Ref!BeatWord(rburst, got), data |-> None, strb |-> {}])
          ELSE [word |-> Ref!Word(Bridges!Adr), data |-> x_w.data, strb |-> x_w.strb]

Hits   == IF Stb THEN {WbReq.word \div Half} ELSE {}
SubCyc(s) == Cyc /\ s \in Decoder!Selected(Hits, Cti_)
SubStb(s) == SubCyc(s) /\ Stb
Local  == WbReq.word % Half     \* a subordinate sees the lower bits

(* Behind WishboneToAXI4Lite.                                                  *)
LAwReady == IF target = "sram" THEN Sram!LiteReady ELSE "aw" \in e_rdy \ e_has
LWReady  == IF target = "sram" THEN Sram!LiteReady ELSE "w" \in e_rdy \ e_has
LArReady == IF target = "sram" THEN Sram!LiteReady ELSE "ar" \in e_rdy
LBValid  == IF target = "sram" THEN Sram!LiteBValid ELSE e_fsm = "b"
LRValid  == IF target = "sram" THEN Sram!LiteRValid ELSE e_fsm = "r"
LRData   == IF target = "sram" THEN l_data ELSE e_data

(* The Wishbone answer, routed by the decoder.                                 *)
Answer(s) == IF s = 0 THEN (IF Bridges!Ack(LBValid, LRValid) THEN "ack" ELSE "none") ELSE p_ans
WbAns  == IF \E s \in {0, 1} : SubCyc(s) THEN Answer(CHOOSE s \in {0, 1} : SubCyc(s)) ELSE "none"
Ack    == WbAns = "ack"
Err    == WbAns = "err"
DatR   == IF SubCyc(1) THEN p_data ELSE LRData

(* The AXI4-Lite bus of the adapter, to the SRAM or to the bridge.             *)
ALiteWr      == Adapter!LiteWrValid(w)
AdAwReady    == IF path = "adapter" THEN Sram!LiteReady ELSE Bridges!AwReady(ALiteWr)
AdWReady     == IF path = "adapter" THEN Sram!LiteReady ELSE Bridges!WReady(ALiteWr)
AdArReady    == IF path = "adapter" THEN Sram!LiteReady ELSE Bridges!ArReady(ALiteWr)
AdBValid     == IF path = "adapter" THEN Sram!LiteBValid ELSE Bridges!BValid
AdBResp      == IF path = "adapter" THEN 0 ELSE Bridges!BResp
AdRValid     == IF path = "adapter" THEN Sram!LiteRValid ELSE Bridges!RValid
AdRData      == IF path = "adapter" THEN l_data ELSE x_data
AdRResp      == IF path = "adapter" THEN 0 ELSE Bridges!RResp

(* The answers that the initiator sees, from the first component of its path.  *)
Adapted == path \in {"adapter", "bridged"}
AwReady == CASE path = "native" -> Sram!AwReady [] Adapted -> Adapter!AwReady
             [] path = "single" -> Bridges!AwReady(AwValid) [] Direct -> FALSE
WReady  == CASE path = "native" -> Sram!WReady [] Adapted -> Adapter!WReady(AdAwReady, AdWReady)
             [] path = "single" -> Bridges!WReady(AwValid) [] Direct -> Ack \/ Err
ArReady == CASE path = "native" -> Sram!ArReady [] Adapted -> Adapter!ArReady
             [] path = "single" -> Bridges!ArReady(AwValid) [] Direct -> FALSE
BValid  == CASE path = "native" -> Sram!BValid [] Adapted -> Adapter!BValid
             [] path = "single" -> Bridges!BValid [] Direct -> w /\ (Ack \/ Err) /\ WLast
BResp   == CASE path = "native" -> 0 [] Adapted -> a_wresp
             [] path = "single" -> Bridges!BResp [] Direct -> IF werr \/ Err THEN 2 ELSE 0
RValid  == CASE path = "native" -> Sram!RValid [] Adapted -> Adapter!RValid
             [] path = "single" -> Bridges!RValid [] Direct -> ~w /\ (Ack \/ Err)
RLast   == CASE path = "native" -> Sram!RLast [] Adapted -> Adapter!RLast
             [] OTHER -> got = rburst.len
RData   == CASE path = "native" -> n_data [] Adapted -> a_data
             [] path = "single" -> x_data [] Direct -> DatR
RResp   == CASE path = "native" -> 0 [] Adapted -> a_rresp
             [] path = "single" -> Bridges!RResp [] Direct -> IF Err THEN 2 ELSE 0

WTaken == w /\ WReady
BTaken == BValid /\ (bready \/ Direct)
RTaken == RValid /\ (rready \/ Direct)

-----------------------------------------------------------------------------
(* The initiator.  Behind the adapter alone it does not overlap reads and       *)
(* writes, since the SRAM drops a read that comes with a write; a Wishbone     *)
(* initiator has one bus for both, and its bursts stay with a subordinate.     *)
Overlaps == path \in {"native", "bridged", "single"}

\* The bus of a single transaction, and the bursts that one subordinate serves.
Usable(b) ==
  CASE path = "single"   -> b.len = 0
    [] path = "wishbone" -> /\ 2 ^ b.size = WordBytes
                            /\ \A k \in 0 .. b.len : Ref!BeatWord(b, k) \div Half
                                                     = Ref!Word(b.addr) \div Half
    [] OTHER             -> TRUE

Asked == IF path \in Prompt THEN {"valid"} ELSE {"later", "valid"}

Data(k) == IF k % 2 = 0 THEN tag' ELSE CHOOSE v \in Values : v # tag'

Present(b) ==    \* a beat of data, now or later
  \/ (path \notin Prompt \/ Len(sent) > b.len) /\ w' = FALSE /\ UNCHANGED sent
  \/ Len(sent) <= b.len /\ w' = TRUE /\ sent' = Append(sent, Data(Len(sent)))

WriterIdle ==
  /\ wburst = None
  /\ \/ UNCHANGED <<aw, w, wburst, sent, tag>>
     \/ /\ Overlaps \/ rburst = None
        /\ \E b \in BurstsOf[path] : Usable(b) /\ wburst' = b /\ tag' \in Values /\ Present(b)
        /\ aw' \in IF Direct THEN {"later"} ELSE Asked
  /\ UNCHANGED werr

NextValid(state, ready) ==
  CASE state = "later" -> Asked
    [] state = "valid" -> {IF ready THEN "done" ELSE "valid"}
    [] state = "done"  -> {"done"}

WriterBusy ==
  /\ wburst # None /\ ~BTaken
  /\ UNCHANGED <<wburst, tag>>
  /\ aw' \in IF Direct THEN {"later"} ELSE NextValid(aw, AwReady)
  /\ IF w /\ ~WReady THEN UNCHANGED <<w, sent>> ELSE Present(wburst)
  /\ werr' = (werr \/ (Direct /\ Err))

WriterDone ==
  /\ wburst # None /\ BTaken
  /\ wburst' = None /\ aw' = "later" /\ w' = FALSE /\ sent' = <<>>
  /\ tag' = CHOOSE v \in Values : TRUE
  /\ werr' = FALSE

ReaderIdle ==
  /\ rburst = None
  /\ \/ UNCHANGED <<ar, rburst, got>>
     \/ /\ Overlaps \/ (wburst = None /\ wburst' = None)
        /\ \E b \in BurstsOf[path] : Usable(b) /\ rburst' = b
        /\ ar' \in Asked
        /\ UNCHANGED got

ReaderBusy ==
  /\ rburst # None /\ ~(RTaken /\ RLast)
  /\ UNCHANGED rburst
  /\ got' = IF RTaken THEN got + 1 ELSE got
  /\ ar' \in IF Direct /\ RTaken THEN Asked ELSE NextValid(ar, ArReady)

ReaderDone ==
  /\ rburst # None /\ RTaken /\ RLast
  /\ rburst' = None /\ got' = 0 /\ ar' = "later"

\* READY matters only next to VALID.
Patience == IF path \in Prompt THEN {TRUE} ELSE BOOLEAN

Readiness ==
  /\ bready' \in IF BValid' /\ ~Direct THEN Patience ELSE {FALSE}
  /\ rready' \in IF RValid' /\ ~Direct THEN Patience ELSE {FALSE}

-----------------------------------------------------------------------------
(* The components, each with the inputs that its path connects.                *)
On(p)     == path \in p
ArValid   == ar = "valid"

NativeStep ==
  /\ \/ Sram!WrIdle(On({"native"}) /\ AwValid, wburst)
     \/ Sram!WrData(w, WLast)
     \/ Sram!WrResp(bready)
  /\ \/ Sram!RdIdle(On({"native"}) /\ ArValid, rburst)
     \/ Sram!RdMem(Ref!Contents(mem, Ref!Word(n_rb.addr)))
     \/ Sram!RdData(rready)

AdapterStep ==
  /\ \/ Adapter!WrIdle(Adapted /\ AwValid, wburst)
     \/ Adapter!WrBeat(w, AdAwReady, AdWReady)
     \/ Adapter!WrBeatResp(AdBValid, AdBResp)
     \/ Adapter!WrResp(bready)
  /\ \/ Adapter!RdIdle(Adapted /\ ArValid, rburst)
     \/ Adapter!RdBeatAddr(AdArReady)
     \/ Adapter!RdBeatData(AdRValid, AdRData, AdRResp)
     \/ Adapter!RdForward(rready)

XAwValid == IF path = "bridged" THEN ALiteWr ELSE path = "single" /\ AwValid
XWValid  == IF path = "bridged" THEN ALiteWr ELSE path = "single" /\ w
XArValid == IF path = "bridged" THEN Adapter!LiteArValid ELSE path = "single" /\ ArValid
XAwAddr  == IF path = "bridged" THEN a_wb.addr ELSE wburst.addr
XArAddr  == IF path = "bridged" THEN a_rb.addr ELSE rburst.addr

BridgeStep ==
  \/ Bridges!ToWbIdle(XAwValid, XAwAddr, XWValid, WBeat, XArValid, XArAddr)
  \/ Bridges!WrData(XWValid, WBeat)
  \/ Bridges!WrCycle(Ack, Err)
  \/ Bridges!RdCycle(Ack, Err, DatR)
  \/ Bridges!WrResp(IF path = "bridged" THEN Adapter!LiteBReady ELSE bready)
  \/ Bridges!RdResp(IF path = "bridged" THEN Adapter!LiteRReady ELSE rready)

PStall == p_stall \/ p_job # None

DecoderStep ==
  /\ IF Direct THEN Decoder!Latch(Cyc, Stb, Cti_, Hits)    \* the bus has CTI
     ELSE UNCHANGED <<d_sub, d_valid>>
  /\ Decoder!ShimIdle(SubCyc(1), SubStb(1), PStall) \/ Decoder!ShimBusy(SubCyc(1), p_ans # "none")

LocalReq == [WbReq EXCEPT !.word = Local]

BackStep ==
  \/ Bridges!ToAxiIdle(SubStb(0), We, LocalReq)
  \/ Bridges!WriteAddr(LAwReady, LWReady)
  \/ Bridges!WriteData(LWReady)
  \/ Bridges!WriteAddrPending(LAwReady)
  \/ Bridges!WriteResp(LBValid)
  \/ Bridges!ReadAddr(LArReady)
  \/ Bridges!ReadData(LRValid)

\* The SRAM serves the adapter, or the bridge back from Wishbone.
ToSram     == target = "sram"
SrAwValid  == IF path = "adapter" THEN ALiteWr ELSE ToSram /\ Bridges!AwValid
SrWValid   == IF path = "adapter" THEN ALiteWr ELSE ToSram /\ Bridges!WValid
SrArValid  == IF path = "adapter" THEN Adapter!LiteArValid ELSE ToSram /\ Bridges!ArValid
SrReq      == IF path = "adapter" THEN Request(a_wb.addr, WBeat) ELSE y_req
SrReadWord == IF path = "adapter" THEN Ref!Word(a_rb.addr) ELSE Local

SramStep ==
  \/ Sram!LiteIdle(SrAwValid, SrWValid, SrArValid, Ref!Contents(mem, SrReadWord))
  \/ Sram!LiteRead(IF path = "adapter" THEN Adapter!LiteRReady ELSE Bridges!RReady)
  \/ Sram!LiteWriteResp(IF path = "adapter" THEN Adapter!LiteBReady ELSE Bridges!BReady)

(* Any other AXI4-Lite slave: it accepts AW and W in any order.                *)
SlaveTakes == (IF Bridges!AwValid /\ LAwReady THEN {"aw"} ELSE {})
              \union (IF Bridges!WValid /\ LWReady THEN {"w"} ELSE {})
SlaveReads == target = "any" /\ Bridges!ArValid /\ LArReady
SlaveStores == e_fsm = "idle" /\ e_has = {"aw", "w"}

SlaveStep ==
  /\ \/ SlaveStores /\ e_fsm' = "b" /\ e_has' = {} /\ UNCHANGED e_data
     \/ SlaveReads /\ e_fsm' = "r" /\ e_data' = Ref!Contents(mem, Local) /\ UNCHANGED e_has
     \/ /\ e_fsm = "idle" /\ ~SlaveStores /\ ~SlaveReads
        /\ e_has' = IF target = "any" THEN e_has \union SlaveTakes ELSE e_has
        /\ UNCHANGED <<e_fsm, e_data>>
     \/ /\ e_fsm # "idle"
        /\ e_fsm' = IF Bridges!BReady \/ Bridges!RReady THEN "idle" ELSE e_fsm
        /\ UNCHANGED <<e_has, e_data>>

(* The pipelined subordinate: a request is a cycle with STB and without STALL. *)
PRequest == SubCyc(1) /\ Decoder!ShimStb(SubStb(1)) /\ ~PStall

PipelinedStep ==
  /\ \/ /\ p_job = None
        /\ p_job' = IF PRequest THEN [we |-> We, req |-> [LocalReq EXCEPT !.word = @ + Half]] ELSE None
        /\ p_ans' = "none" /\ UNCHANGED p_data
     \/ p_job # None /\ p_ans' = "none" /\ UNCHANGED <<p_job, p_data>>
     \/ /\ p_job # None /\ p_job' = None
        /\ p_ans' = IF p_job.req.word \in Faulty THEN "err" ELSE "ack"
        /\ p_data' = Ref!Contents(mem, p_job.req.word)

\* The readiness of both, chosen when something is asked of them.
WaitStates ==
  /\ e_rdy' \in IF target = "any" /\ (Bridges!AwValid \/ Bridges!WValid \/ Bridges!ArValid)'
               THEN {{}, {"aw"}, {"w"}, {"aw", "w", "ar"}} ELSE {{}}
  /\ p_stall' \in IF SubStb(1)' /\ shim' = "IDLE" THEN BOOLEAN ELSE {FALSE}

PFinishes(we) == p_job # None /\ p_job' = None /\ p_job.we = we

(* What reaches the memory in a cycle: the writes, and the words read.         *)
Writes ==
  (IF Sram!Store(w) THEN {Request(n_wb.addr, WBeat)} ELSE {})
  \union (IF Sram!LiteStore(SrAwValid, SrWValid) THEN {SrReq} ELSE {})
  \union (IF SlaveStores THEN {y_req} ELSE {})
  \union (IF PFinishes(TRUE) THEN {p_job.req} ELSE {})

Reads ==
  (IF Sram!Fetch THEN {Ref!Word(n_rb.addr)} ELSE {})
  \union (IF Sram!LiteFetch(SrAwValid, SrWValid, SrArValid) THEN {SrReadWord} ELSE {})
  \union (IF SlaveReads THEN {Local} ELSE {})
  \union (IF PFinishes(FALSE) THEN {p_job.req.word} ELSE {})

MemoryStep ==
  mem' = IF \E r \in Writes : r.word \notin FaultyWords
         THEN LET r == CHOOSE x \in Writes : TRUE IN Ref!Stored(mem, r.word, r.data, r.strb)
         ELSE mem

History ==
  /\ done' = IF BTaken THEN 0 ELSE IF Writes # {} THEN done + 1 ELSE done
  /\ taken' = IF RTaken /\ RLast THEN 0 ELSE IF Reads # {} THEN taken + 1 ELSE taken
  /\ rval' = IF RTaken THEN None
             ELSE IF Reads = {} THEN rval
             ELSE LET word == CHOOSE x \in Reads : TRUE
                  IN  [data |-> Ref!Contents(mem, word), resp |-> Ref!RespOf(word)]

Nil == [data |-> None, strb |-> {}]
NoBurst == [addr |-> 0, len |-> 0, size |-> 0, burst |-> "FIXED"]

Init ==
  /\ path \in Paths /\ target \in TargetsOf[path]
  /\ aw = "later" /\ w = FALSE /\ wburst = None /\ sent = <<>> /\ bready = FALSE /\ werr = FALSE
  /\ tag = CHOOSE v \in Values : TRUE
  /\ ar = "later" /\ rburst = None /\ got = 0 /\ rready = FALSE
  /\ Sram!Init(NoBurst, None) /\ Adapter!Init(NoBurst, None) /\ Bridges!ToWbInit(Nil, None)
  /\ Decoder!Init /\ Bridges!ToAxiInit(Nil) /\ Sram!LiteInit(None)
  /\ e_fsm = "idle" /\ e_has = {} /\ e_rdy = {} /\ e_data = None
  /\ p_stall = FALSE /\ p_job = None /\ p_ans = "none" /\ p_data = None
  /\ mem = [a \in 0 .. AddrSpace - 1 |-> CHOOSE v \in Values : TRUE]
  /\ done = 0 /\ taken = 0 /\ rval = None

Next ==
  /\ UNCHANGED config
  /\ NativeStep /\ AdapterStep /\ BridgeStep /\ DecoderStep /\ BackStep /\ SramStep
  /\ SlaveStep /\ PipelinedStep
  /\ WriterIdle \/ WriterBusy \/ WriterDone
  /\ ReaderIdle \/ ReaderBusy \/ ReaderDone
  /\ Readiness /\ WaitStates
  /\ MemoryStep /\ History

(* The clock runs.  Again and again there is a cycle in which the initiator     *)
(* holds back nothing, and one in which no subordinate that is not of this     *)
(* library holds up what it is asked for.                                      *)
NoDelay == /\ wburst # None => (aw # "later" \/ Direct) /\ (w \/ Len(sent) > wburst.len)
           /\ rburst # None => ar # "later"
           /\ (BValid => bready \/ Direct) /\ (RValid => rready \/ Direct)
NoWait  == /\ p_job = None /\ ~p_stall
           /\ target = "any" => /\ Bridges!AwValid => "aw" \in e_rdy
                                /\ Bridges!WValid  => "w" \in e_rdy
                                /\ Bridges!ArValid => "ar" \in e_rdy

Fairness == WF_vars(Next) /\ []<>NoDelay /\ []<>NoWait

Spec == Init /\ [][Next]_vars /\ Fairness

-----------------------------------------------------------------------------
Bursting == INSTANCE BurstMemory WITH
  faulty <- FaultyWords,
  bchan  <- IF BValid THEN BResp ELSE None,
  rchan  <- IF RValid THEN [data |-> RData, resp |-> RResp, last |-> RLast] ELSE None

(* Whatever the path, "decomposes AXI4 burst transactions into individual       *)
(* AXI4-Lite transactions" (AXI4ToAXI4Lite) and its peers lose, repeat, reorder *)
(* or misplace no beat: the initiator cannot tell the path from a memory that  *)
(* performs bursts, including the responses and the mark of the last beat.     *)
ImplementsBursts == Bursting!Spec

(* A Wishbone request that is not answered stays as it is, and stays with the  *)
(* subordinate it was made to: the bridge to AXI4-Lite reads the address of a  *)
(* read as it goes, and the shim takes one STB for one request.                *)
RequestHolds ==
  [][Stb /\ WbAns = "none" => /\ Stb' /\ WbReq' = WbReq /\ We' = We
                              /\ \A s \in {0, 1} : SubCyc(s)' = SubCyc(s)]_vars

(* No handshake is missed for good: a burst that was begun ends, read or write, *)
(* even if both are under way.                                                 *)
BurstsComplete == (wburst # None ~> wburst = None) /\ (rburst # None ~> rburst = None)
=============================================================================
