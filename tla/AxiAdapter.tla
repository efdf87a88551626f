----------------------------- MODULE AxiAdapter -----------------------------
(* The AXI4 to AXI4-Lite adapter (axi/adapter.py, class AXI4ToAXI4Lite): every  *)
(* beat of a burst is a transaction of its own downstream.  Responses are       *)
(* numbers, as in the code: the worse, the higher.                              *)
EXTENDS AxiBurst

VARIABLES wr_fsm, wr_b2b, wr_len, wr_beat_cnt, wr_resp,           \* the write path
          rd_fsm, rd_b2b, rd_len, rd_beat_cnt, rd_data, rd_resp   \* the read path

wrVars == <<wr_fsm, wr_b2b, wr_len, wr_beat_cnt, wr_resp>>
rdVars == <<rd_fsm, rd_b2b, rd_len, rd_beat_cnt, rd_data, rd_resp>>

\* Upstream.
AwReady == wr_fsm = "WR_IDLE"
BValid  == wr_fsm = "WR_RESP"
ArReady == rd_fsm = "RD_IDLE"
RValid  == rd_fsm = "RD_FORWARD"
RLast   == rd_beat_cnt = rd_len
WLast   == wr_beat_cnt = wr_len

\* Downstream: AWVALID and WVALID are the same, the addresses are the beats'.
LiteWrValid(wvalid) == wr_fsm = "WR_BEAT" /\ wvalid
LiteBReady          == wr_fsm = "WR_BEAT_RESP"
LiteArValid         == rd_fsm = "RD_BEAT_ADDR"
LiteRReady          == rd_fsm = "RD_BEAT_DATA"

Init(b, nothing) ==
  /\ wr_fsm = "WR_IDLE" /\ wr_b2b = Load(b) /\ wr_len = 0 /\ wr_beat_cnt = 0 /\ wr_resp = 0
  /\ rd_fsm = "RD_IDLE" /\ rd_b2b = Load(b) /\ rd_len = 0 /\ rd_beat_cnt = 0
  /\ rd_data = nothing /\ rd_resp = 0

WrIdle(awvalid, aw) ==
  /\ wr_fsm = "WR_IDLE"
  /\ IF awvalid THEN /\ wr_fsm' = "WR_BEAT" /\ wr_b2b' = Load(aw)
                     /\ wr_len' = aw.len /\ wr_beat_cnt' = 0 /\ wr_resp' = 0
     ELSE UNCHANGED wrVars

\* The beat is consumed when the address and the data are accepted downstream.
WReady(awready, wready) == wr_fsm = "WR_BEAT" /\ awready /\ wready

WrBeat(wvalid, awready, wready) ==
  /\ wr_fsm = "WR_BEAT"
  /\ wr_fsm' = IF wvalid /\ WReady(awready, wready) THEN "WR_BEAT_RESP" ELSE wr_fsm
  /\ UNCHANGED <<wr_b2b, wr_len, wr_beat_cnt, wr_resp>>

Worst(bresp) == IF bresp > wr_resp THEN bresp ELSE wr_resp

WrBeatResp(bvalid, bresp) ==
  /\ wr_fsm = "WR_BEAT_RESP"
  /\ wr_resp' = IF bvalid THEN Worst(bresp) ELSE wr_resp
  /\ wr_fsm' = IF ~bvalid THEN wr_fsm ELSE IF WLast THEN "WR_RESP" ELSE "WR_BEAT"
  /\ IF bvalid /\ ~WLast
     THEN wr_b2b' = Advance(wr_b2b) /\ wr_beat_cnt' = (wr_beat_cnt + 1) % 256
     ELSE UNCHANGED <<wr_b2b, wr_beat_cnt>>
  /\ UNCHANGED wr_len

WrResp(bready) ==
  /\ wr_fsm = "WR_RESP"
  /\ wr_fsm' = IF bready THEN "WR_IDLE" ELSE wr_fsm
  /\ UNCHANGED <<wr_b2b, wr_len, wr_beat_cnt, wr_resp>>

RdIdle(arvalid, ar) ==
  /\ rd_fsm = "RD_IDLE"
  /\ IF arvalid THEN /\ rd_fsm' = "RD_BEAT_ADDR" /\ rd_b2b' = Load(ar)
                     /\ rd_len' = ar.len /\ rd_beat_cnt' = 0
     ELSE UNCHANGED <<rd_fsm, rd_b2b, rd_len, rd_beat_cnt>>
  /\ UNCHANGED <<rd_data, rd_resp>>

RdBeatAddr(arready) ==
  /\ rd_fsm = "RD_BEAT_ADDR"
  /\ rd_fsm' = IF arready THEN "RD_BEAT_DATA" ELSE rd_fsm
  /\ UNCHANGED <<rd_b2b, rd_len, rd_beat_cnt, rd_data, rd_resp>>

RdBeatData(rvalid, rdata, rresp) ==
  /\ rd_fsm = "RD_BEAT_DATA"
  /\ IF rvalid THEN rd_fsm' = "RD_FORWARD" /\ rd_data' = rdata /\ rd_resp' = rresp
     ELSE UNCHANGED <<rd_fsm, rd_data, rd_resp>>
  /\ UNCHANGED <<rd_b2b, rd_len, rd_beat_cnt>>

RdForward(rready) ==
  /\ rd_fsm = "RD_FORWARD"
  /\ rd_fsm' = IF ~rready THEN rd_fsm ELSE IF RLast THEN "RD_IDLE" ELSE "RD_BEAT_ADDR"
  /\ IF rready /\ ~RLast
     THEN rd_b2b' = Advance(rd_b2b) /\ rd_beat_cnt' = (rd_beat_cnt + 1) % 256
     ELSE UNCHANGED <<rd_b2b, rd_beat_cnt>>
  /\ UNCHANGED <<rd_len, rd_data, rd_resp>>
=============================================================================
