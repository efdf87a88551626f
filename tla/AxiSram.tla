------------------------------ MODULE AxiSram ------------------------------
(* The AXI SRAMs (axi/sram.py).  AXI4SRAM has a write path and a read path with *)
(* a burst address generator and a memory port each; AXI4LiteSRAM one machine. *)
(* The memory is the client's: Store says when it is written, Fetch when it is *)
(* read.                                                                       *)
EXTENDS AxiBurst

VARIABLES wr_fsm, wr_b2b,                    \* the write path
          rd_fsm, rd_b2b, rd_len, rd_beat,   \* the read path
          rdata,                             \* the read port's data
          lite_fsm, lite_rdata               \* AXI4-Lite: the machine, the read port's data

wrVars == <<wr_fsm, wr_b2b>>
rdVars == <<rd_fsm, rd_b2b, rd_len, rd_beat, rdata>>

-----------------------------------------------------------------------------
(* AXI4SRAM.                                                                   *)

AwReady == wr_fsm = "WR_IDLE"    \* while AWVALID
WReady  == wr_fsm = "WR_DATA"    \* while WVALID
BValid  == wr_fsm = "WR_RESP"
ArReady == rd_fsm = "RD_IDLE"
RValid  == rd_fsm = "RD_DATA"
RLast   == rd_beat = rd_len

\* The memory ports: addressed by the generators.
Store(wvalid) == wr_fsm = "WR_DATA" /\ wvalid
Fetch         == rd_fsm = "RD_MEM"

Init(b, nothing) ==
  /\ wr_fsm = "WR_IDLE" /\ wr_b2b = Load(b)
  /\ rd_fsm = "RD_IDLE" /\ rd_b2b = Load(b) /\ rd_len = 0 /\ rd_beat = 0 /\ rdata = nothing

WrIdle(awvalid, aw) ==
  /\ wr_fsm = "WR_IDLE"
  /\ IF awvalid THEN wr_fsm' = "WR_DATA" /\ wr_b2b' = Load(aw) ELSE UNCHANGED wrVars

WrData(wvalid, wlast) ==
  /\ wr_fsm = "WR_DATA"
  /\ wr_fsm' = IF wvalid /\ wlast THEN "WR_RESP" ELSE wr_fsm
  /\ wr_b2b' = IF wvalid /\ ~wlast THEN Advance(wr_b2b) ELSE wr_b2b

WrResp(bready) ==
  /\ wr_fsm = "WR_RESP"
  /\ wr_fsm' = IF bready THEN "WR_IDLE" ELSE wr_fsm
  /\ UNCHANGED wr_b2b

RdIdle(arvalid, ar) ==
  /\ rd_fsm = "RD_IDLE"
  /\ IF arvalid THEN rd_fsm' = "RD_MEM" /\ rd_b2b' = Load(ar) /\ rd_len' = ar.len /\ rd_beat' = 0
     ELSE UNCHANGED <<rd_fsm, rd_b2b, rd_len, rd_beat>>
  /\ UNCHANGED rdata

RdMem(contents) ==
  /\ rd_fsm = "RD_MEM" /\ rd_fsm' = "RD_DATA"
  /\ rdata' = contents
  /\ UNCHANGED <<rd_b2b, rd_len, rd_beat>>

RdData(rready) ==
  /\ rd_fsm = "RD_DATA"
  /\ IF rready /\ ~RLast
     THEN rd_b2b' = Advance(rd_b2b) /\ rd_beat' = (rd_beat + 1) % 256
     ELSE UNCHANGED <<rd_b2b, rd_beat>>
  /\ rd_fsm' = IF ~rready THEN rd_fsm ELSE IF RLast THEN "RD_IDLE" ELSE "RD_MEM"
  /\ UNCHANGED <<rd_len, rdata>>

-----------------------------------------------------------------------------
(* AXI4LiteSRAM.                                                               *)
LiteReady  == lite_fsm = "IDLE"         \* awready, wready and arready
LiteBValid == lite_fsm = "WRITE_RESP"
LiteRValid == lite_fsm = "READ"

\* A write needs its address and its data in the same cycle, and goes first.
LiteStore(awvalid, wvalid)          == LiteReady /\ awvalid /\ wvalid
LiteFetch(awvalid, wvalid, arvalid) == LiteReady /\ ~(awvalid /\ wvalid) /\ arvalid

LiteInit(nothing) == lite_fsm = "IDLE" /\ lite_rdata = nothing

LiteIdle(awvalid, wvalid, arvalid, contents) ==
  /\ lite_fsm = "IDLE"
  /\ lite_fsm' = IF LiteStore(awvalid, wvalid) THEN "WRITE_RESP" ELSE IF arvalid THEN "READ" ELSE lite_fsm
  /\ lite_rdata' = IF LiteFetch(awvalid, wvalid, arvalid) THEN contents ELSE lite_rdata

LiteRead(rready) ==
  /\ lite_fsm = "READ"
  /\ lite_fsm' = IF rready THEN "IDLE" ELSE lite_fsm
  /\ UNCHANGED lite_rdata

LiteWriteResp(bready) ==
  /\ lite_fsm = "WRITE_RESP"
  /\ lite_fsm' = IF bready THEN "IDLE" ELSE lite_fsm
  /\ UNCHANGED lite_rdata
=============================================================================
