----------------------------- MODULE BusBridges -----------------------------
(* The bridges between AXI4-Lite and Wishbone.  AXI4LiteToWishbone              *)
(* (bridge/axi_to_wb.py) has one machine for writes and reads; a write goes    *)
(* first.  WishboneToAXI4Lite (bridge/wb_to_axi.py) latches a write, so that   *)
(* AW and W may be accepted in any order; a read's address is the initiator's, *)
(* as it is in each cycle.  SLVERR is 2.                                       *)
EXTENDS Integers

VARIABLES to_wb,              \* the state machine of the one
          wr_addr, wr_w,      \* the latched address; data and strobes
          rd_addr, rd_data,
          wr_err, rd_err

VARIABLES to_axi, req   \* that of the other; the latched address, data and strobes

-----------------------------------------------------------------------------
(* From AXI4-Lite to Wishbone.                                                 *)
AwReady(awvalid) == to_wb = "IDLE" /\ awvalid
WReady(awvalid)  == AwReady(awvalid) \/ to_wb = "WR_DATA"    \* while WVALID
ArReady(awvalid) == to_wb = "IDLE" /\ ~awvalid               \* while ARVALID
BValid == to_wb = "WR_RESP"
RValid == to_wb = "RD_RESP"
BResp  == IF wr_err THEN 2 ELSE 0
RResp  == IF rd_err THEN 2 ELSE 0

\* CYC and STB are the same.
Cyc == to_wb \in {"WR_CYCLE", "RD_CYCLE"}
We  == to_wb = "WR_CYCLE"
Adr == IF We THEN wr_addr ELSE rd_addr

ToWbInit(no_w, no_data) ==
  /\ to_wb = "IDLE" /\ wr_addr = 0 /\ rd_addr = 0 /\ wr_w = no_w /\ rd_data = no_data
  /\ wr_err = FALSE /\ rd_err = FALSE

ToWbIdle(awvalid, awaddr, wvalid, w, arvalid, araddr) ==
  /\ to_wb = "IDLE"
  /\ to_wb' = IF awvalid THEN (IF wvalid THEN "WR_CYCLE" ELSE "WR_DATA")
            ELSE IF arvalid THEN "RD_CYCLE" ELSE to_wb
  /\ wr_addr' = IF awvalid THEN awaddr ELSE wr_addr
  /\ wr_w' = IF awvalid /\ wvalid THEN w ELSE wr_w
  /\ rd_addr' = IF ~awvalid /\ arvalid THEN araddr ELSE rd_addr
  /\ UNCHANGED <<rd_data, wr_err, rd_err>>

WrData(wvalid, w) ==
  /\ to_wb = "WR_DATA"
  /\ IF wvalid THEN to_wb' = "WR_CYCLE" /\ wr_w' = w ELSE UNCHANGED <<to_wb, wr_w>>
  /\ UNCHANGED <<wr_addr, rd_addr, rd_data, wr_err, rd_err>>

WrCycle(ack, err) ==
  /\ to_wb = "WR_CYCLE"
  /\ IF ack \/ err THEN to_wb' = "WR_RESP" /\ wr_err' = err ELSE UNCHANGED <<to_wb, wr_err>>
  /\ UNCHANGED <<wr_addr, wr_w, rd_addr, rd_data, rd_err>>

RdCycle(ack, err, dat_r) ==
  /\ to_wb = "RD_CYCLE"
  /\ IF ack \/ err THEN to_wb' = "RD_RESP" /\ rd_data' = dat_r /\ rd_err' = err
     ELSE UNCHANGED <<to_wb, rd_data, rd_err>>
  /\ UNCHANGED <<wr_addr, wr_w, rd_addr, wr_err>>

WrResp(bready) ==
  /\ to_wb = "WR_RESP"
  /\ to_wb' = IF bready THEN "IDLE" ELSE to_wb
  /\ UNCHANGED <<wr_addr, wr_w, rd_addr, rd_data, wr_err, rd_err>>

RdResp(rready) ==
  /\ to_wb = "RD_RESP"
  /\ to_wb' = IF rready THEN "IDLE" ELSE to_wb
  /\ UNCHANGED <<wr_addr, wr_w, rd_addr, rd_data, wr_err, rd_err>>

-----------------------------------------------------------------------------
(* From Wishbone to AXI4-Lite.                                                 *)
AwValid == to_axi \in {"WRITE_ADDR", "WRITE_ADDR_PENDING"}
WValid  == to_axi \in {"WRITE_ADDR", "WRITE_DATA"}
BReady  == to_axi = "WRITE_RESP"
ArValid == to_axi = "READ_ADDR"
RReady  == to_axi = "READ_DATA"

\* The acknowledge is the response handshake; ERR comes together with ACK.
Ack(bvalid, rvalid) == (BReady /\ bvalid) \/ (RReady /\ rvalid)

ToAxiInit(nothing) == to_axi = "IDLE" /\ req = nothing

ToAxiIdle(stb, we, request) ==    \* stb: CYC and STB
  /\ to_axi = "IDLE"
  /\ to_axi' = IF ~stb THEN to_axi ELSE IF we THEN "WRITE_ADDR" ELSE "READ_ADDR"
  /\ req' = IF stb /\ we THEN request ELSE req

DropsLateAw(awready, wready) ==    \* mutant of WriteAddr: W accepted first ends the request
  /\ to_axi = "WRITE_ADDR"
  /\ to_axi' = CASE wready              -> "WRITE_RESP"
              [] awready /\ ~wready  -> "WRITE_DATA"
              [] OTHER               -> to_axi
  /\ UNCHANGED req

WriteAddr(awready, wready) ==
  /\ to_axi = "WRITE_ADDR"
  /\ to_axi' = CASE awready /\ wready   -> "WRITE_RESP"
              [] awready /\ ~wready  -> "WRITE_DATA"
              [] ~awready /\ wready  -> "WRITE_ADDR_PENDING"
              [] OTHER               -> to_axi
  /\ UNCHANGED req

WriteData(wready) ==
  /\ to_axi = "WRITE_DATA"
  /\ to_axi' = IF wready THEN "WRITE_RESP" ELSE to_axi
  /\ UNCHANGED req

WriteAddrPending(awready) ==
  /\ to_axi = "WRITE_ADDR_PENDING"
  /\ to_axi' = IF awready THEN "WRITE_RESP" ELSE to_axi
  /\ UNCHANGED req

WriteResp(bvalid) ==
  /\ to_axi = "WRITE_RESP"
  /\ to_axi' = IF bvalid THEN "IDLE" ELSE to_axi
  /\ UNCHANGED req

ReadAddr(arready) ==
  /\ to_axi = "READ_ADDR"
  /\ to_axi' = IF arready THEN "READ_DATA" ELSE to_axi
  /\ UNCHANGED req

ReadData(rvalid) ==
  /\ to_axi = "READ_DATA"
  /\ to_axi' = IF rvalid THEN "IDLE" ELSE to_axi
  /\ UNCHANGED req
=============================================================================
