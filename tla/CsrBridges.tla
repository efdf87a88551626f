----------------------------- MODULE CsrBridges -----------------------------
(* The two bridges before the multiplexers of a CSR bus, each with its          *)
(* initiator: from Wishbone (csr/wishbone.py) and from AXI4-Lite               *)
(* (csr/axi_lite.py).  A word has Ratio chunks, and a bridge goes through them *)
(* one cycle each.  A step is a clock cycle.                                   *)
EXTENDS CsrMultiplexer

CONSTANT Selects   \* the select patterns that the Wishbone initiator uses

ASSUME SelectsAssumption == Selects \subseteq SUBSET Lanes

VARIABLES wb,      \* what the Wishbone initiator drives
          cycle,   \* its bridge's cycle counter
          dat_r,   \* its read data register, by lane
          ack      \* its acknowledge register

VARIABLES axi,       \* what the AXI4-Lite master drives: a request, or what it waits for
          state,     \* the bridge's FSM
          request,   \* latched_addr and w_data
          beat,      \* the beat counter, Ratio for "done"
          r_data     \* the read data register, by lane

wbVars == <<wb, cycle, dat_r, ack>>

Quiet == [cyc |-> FALSE]

WbRequests ==
  [cyc : {TRUE}, adr : Words, we : {FALSE}, sel : Selects]
  \union [cyc : {TRUE}, adr : Words, we : {TRUE}, sel : Selects, dat_w : [Lanes -> Data]]

-----------------------------------------------------------------------------
(* From Wishbone.  The strobes of the CSR bus, and the transaction they are    *)
(* part of.  The acknowledge comes one cycle after the last chunk.             *)
Access(index) ==
  LET addr == Addr(wb.adr, index)
  IN  \/ index \in wb.sel /\ ~wb.we /\ BusRead(addr) /\ Follow("read", addr)
      \/ index \in wb.sel /\ wb.we /\ BusWrite(addr, wb.dat_w[index]) /\ Follow("write", addr)
      \/ index \notin wb.sel /\ BusIdle /\ UNCHANGED txn

\* CSR reads are registered: a lane's data arrives the cycle after its strobe.
Register(lane) ==
  dat_r' = IF lane \in Lanes THEN [dat_r EXCEPT ![lane] = BusRData] ELSE dat_r

Hasty(index) ==    \* mutant of Strobe: acknowledged with the last strobe
  /\ wb.cyc /\ ~ack /\ cycle = index
  /\ Access(index)
  /\ Register(index - 1)
  /\ cycle' = index + 1
  /\ ack' = (index = Ratio - 1)

Strobe(index) ==
  /\ wb.cyc /\ ~ack /\ cycle = index
  /\ Access(index)
  /\ Register(index - 1)
  /\ cycle' = index + 1
  /\ UNCHANGED ack

Finish ==
  /\ wb.cyc /\ ~ack /\ cycle = Ratio
  /\ Register(Ratio - 1)
  /\ ack' = TRUE
  /\ UNCHANGED cycle
  /\ BusIdle /\ UNCHANGED txn

NeverReset ==    \* mutant of Reset: the next access starts where this one ended
  /\ ack
  /\ IF wb.cyc THEN Register(Ratio - 1) ELSE UNCHANGED dat_r
  /\ ack' = FALSE
  /\ UNCHANGED cycle
  /\ BusIdle /\ UNCHANGED txn

Reset ==
  /\ ack
  /\ IF wb.cyc THEN Register(Ratio - 1) ELSE UNCHANGED dat_r
  /\ ack' = FALSE
  /\ cycle' = 0
  /\ BusIdle /\ UNCHANGED txn

Idle ==
  /\ ~wb.cyc /\ ~ack
  /\ UNCHANGED <<cycle, dat_r, ack>>
  /\ BusIdle /\ UNCHANGED txn

(* The initiator holds its request until the acknowledge, and may then go on   *)
(* with another.                                                               *)
WbInitiator ==
  \/ (ack \/ ~wb.cyc) /\ wb' \in WbRequests \union {Quiet}
  \/ wb.cyc /\ ~ack /\ UNCHANGED wb

WbInit == wb = Quiet /\ cycle = 0 /\ ack = FALSE /\ dat_r = [lane \in Lanes |-> {}]

ByWishbone == /\ WbInitiator
              /\ (\E index \in Lanes : Strobe(index)) \/ Finish \/ Reset \/ Idle

-----------------------------------------------------------------------------
axiVars == <<axi, state, request, beat, r_data>>

AxiRequests == [channel : {"write"}, word : Words, data : [Lanes -> Data]]
               \union [channel : {"read"}, word : Words]

NoRequest == [channel |-> "none"]

(* From AXI4-Lite.  In the cycle in which the bridge captures the last chunk of *)
(* a read it strobes the first one again.  The write strobes are ignored and   *)
(* are not here.                                                               *)
Accept ==
  /\ state = "IDLE"
  /\ IF axi.channel = "none"
     THEN UNCHANGED <<state, request, beat>>
     ELSE /\ state' = IF axi.channel = "write" THEN "WRITE" ELSE "READ"
          /\ request' = axi
          /\ beat' = 0
  /\ BusIdle
  /\ UNCHANGED <<txn, r_data>>

CsrAddr == Addr(request.word, beat % Ratio)   \* Cat(beat[:beat_bits], latched_addr)

WriteBeat ==
  /\ state = "WRITE"
  /\ BusWrite(CsrAddr, request.data[beat]) /\ Follow("write", CsrAddr)
  /\ IF beat = Ratio - 1 THEN state' = "WRITE_RESP" /\ UNCHANGED beat
     ELSE beat' = beat + 1 /\ UNCHANGED state
  /\ UNCHANGED <<request, r_data>>

Shifted ==    \* mutant of ReadBeat: the data of this beat, not of the one before
  /\ state = "READ"
  /\ BusRead(CsrAddr) /\ Follow("read", CsrAddr)
  /\ r_data' = IF beat < Ratio THEN [r_data EXCEPT ![beat] = BusRData] ELSE r_data
  /\ IF beat = Ratio THEN state' = "READ_RESP" /\ UNCHANGED beat
     ELSE beat' = beat + 1 /\ UNCHANGED state
  /\ UNCHANGED request

\* The data of the beat before arrives, and at Ratio that is all.
ReadBeat ==
  /\ state = "READ"
  /\ BusRead(CsrAddr) /\ Follow("read", CsrAddr)
  /\ r_data' = IF beat > 0 THEN [r_data EXCEPT ![beat - 1] = BusRData] ELSE r_data
  /\ IF beat = Ratio THEN state' = "READ_RESP" /\ UNCHANGED beat
     ELSE beat' = beat + 1 /\ UNCHANGED state
  /\ UNCHANGED request

\* BVALID and RVALID are up in the response states.
Responding == state \in {"WRITE_RESP", "READ_RESP"}

Respond(ready) ==
  /\ Responding
  /\ IF ready THEN state' = "IDLE" /\ request' = NoRequest   \* nobody reads it
     ELSE UNCHANGED <<state, request>>
  /\ BusIdle
  /\ UNCHANGED <<txn, beat, r_data>>

-----------------------------------------------------------------------------
(* The master presents an address and its data together, and never a read next *)
(* to a write: IDLE raises all three READY signals and takes the one or the    *)
(* other.  It takes a response when it likes, and then goes on.                *)
AxiMaster ==
  \/ state = "IDLE" /\ axi' = NoRequest
  \/ state = "IDLE" /\ axi.channel = "none" /\ axi' \in AxiRequests
  \/ Responding /\ state' = "IDLE" /\ axi' \in AxiRequests
  \/ state # "IDLE" /\ UNCHANGED axi

AxiInit == /\ axi = NoRequest /\ request = NoRequest
           /\ state = "IDLE" /\ beat = 0 /\ r_data = [lane \in Lanes |-> {}]

ByAxi == /\ Accept \/ WriteBeat \/ ReadBeat \/ \E ready \in BOOLEAN : Respond(ready)
         /\ AxiMaster
=============================================================================
