----------------------------- MODULE DmaEngines -----------------------------
(* The DMA reader (dma/reader.py, class DMAReader) cuts a transfer into AXI4    *)
(* bursts and passes their beats on; the DMA writer (dma/writer.py, class      *)
(* DMAWriter) cuts one into bursts that take their beats from a stream.  Each  *)
(* operator is a state of an engine's machine, and its parameters are the      *)
(* inputs of the cycle.  Addresses count beats.                                *)
EXTENDS Integers

CONSTANTS MaxBurst,   \* max_burst_len
          LenValues,  \* the values of ARLEN and AWLEN, 256
          Space       \* the size of the address space

ASSUME BurstAssumption == MaxBurst \in Nat \ {0} /\ LenValues \in Nat /\ MaxBurst <= LenValues
ASSUME SpaceAssumption == Space \in Nat

VARIABLES rd_state, rd_addr, rd_left,   \* the FSM, current_addr, beats_remaining
          wr_state, wr_addr, wr_left,
          wr_burst, wr_count            \* burst_beats, burst_beat_cnt

reader == <<rd_state, rd_addr, rd_left>>
writer == <<wr_state, wr_addr, wr_left, wr_burst, wr_count>>

\* burst_beats, and how many beats the LEN made from it asks for.
Burst(left) == IF left >= MaxBurst THEN MaxBurst ELSE left
Beats(left) == ((Burst(left) - 1) % LenValues) + 1

ReaderBusy == rd_state \in {"AR_PHASE", "R_PHASE"}
WriterBusy == wr_state \in {"AW_PHASE", "W_PHASE", "B_PHASE"}

-----------------------------------------------------------------------------
ReaderInit == rd_state = "IDLE" /\ rd_addr = 0 /\ rd_left = 0

ReaderIdle(start, src, length) ==
  /\ rd_state = "IDLE"
  /\ IF start THEN rd_state' = "AR_PHASE" /\ rd_addr' = src /\ rd_left' = length
     ELSE UNCHANGED reader

NoAdvance(arready) ==    \* mutant of ArPhase: every burst starts where the first did
  /\ rd_state = "AR_PHASE"
  /\ IF arready THEN /\ rd_left' = rd_left - Burst(rd_left)
                     /\ rd_state' = "R_PHASE"
                     /\ UNCHANGED rd_addr
     ELSE UNCHANGED reader

ArPhase(arready) ==
  /\ rd_state = "AR_PHASE"
  /\ IF arready THEN /\ rd_left' = rd_left - Burst(rd_left)
                     /\ rd_addr' = (rd_addr + Burst(rd_left)) % Space
                     /\ rd_state' = "R_PHASE"
     ELSE UNCHANGED reader

RPhase(beat, rlast) ==
  /\ rd_state = "R_PHASE"
  /\ rd_state' = IF ~(beat /\ rlast) THEN rd_state
                 ELSE IF rd_left = 0 THEN "DONE" ELSE "AR_PHASE"
  /\ UNCHANGED <<rd_addr, rd_left>>

ReaderDone == rd_state = "DONE" /\ rd_state' = "IDLE" /\ UNCHANGED <<rd_addr, rd_left>>

-----------------------------------------------------------------------------
WriterInit == wr_state = "IDLE" /\ wr_addr = 0 /\ wr_left = 0 /\ wr_burst = 0 /\ wr_count = 0

WLast == wr_count = wr_burst - 1

WriterIdle(start, dst, length) ==
  /\ wr_state = "IDLE"
  /\ IF start THEN wr_state' = "AW_PHASE" /\ wr_addr' = dst /\ wr_left' = length
              ELSE UNCHANGED <<wr_state, wr_addr, wr_left>>
  /\ UNCHANGED <<wr_burst, wr_count>>

KeepsCount(awready) ==    \* mutant of AwPhase: the beats of the last burst count
  /\ wr_state = "AW_PHASE"
  /\ IF awready THEN wr_state' = "W_PHASE" /\ wr_burst' = Burst(wr_left)
     ELSE UNCHANGED <<wr_state, wr_burst>>
  /\ UNCHANGED <<wr_addr, wr_left, wr_count>>

AwPhase(awready) ==
  /\ wr_state = "AW_PHASE"
  /\ IF awready THEN wr_state' = "W_PHASE" /\ wr_burst' = Burst(wr_left) /\ wr_count' = 0
     ELSE UNCHANGED <<wr_state, wr_burst, wr_count>>
  /\ UNCHANGED <<wr_addr, wr_left>>

WPhase(beat) ==
  /\ wr_state = "W_PHASE"
  /\ wr_count' = IF beat THEN wr_count + 1 ELSE wr_count
  /\ wr_state' = IF beat /\ WLast THEN "B_PHASE" ELSE wr_state
  /\ UNCHANGED <<wr_addr, wr_left, wr_burst>>

BPhase(bvalid) ==
  /\ wr_state = "B_PHASE"
  /\ IF bvalid THEN /\ wr_left' = wr_left - wr_burst
                    /\ wr_addr' = (wr_addr + wr_burst) % Space
                    /\ wr_state' = IF wr_left = wr_burst THEN "DONE" ELSE "AW_PHASE"
     ELSE UNCHANGED <<wr_state, wr_addr, wr_left>>
  /\ UNCHANGED <<wr_burst, wr_count>>

WriterDone ==
  /\ wr_state = "DONE" /\ wr_state' = "IDLE"
  /\ UNCHANGED <<wr_addr, wr_left, wr_burst, wr_count>>
=============================================================================
