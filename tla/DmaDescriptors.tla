--------------------------- MODULE DmaDescriptors ---------------------------
(* The descriptor path.  The table (dma/descriptor_table.py,                   *)
(* DMADescriptorTable) is a FIFO that software fills (prog mode) or that       *)
(* refills itself with what is taken from it (loop mode); its input is         *)
(* registered: a descriptor reaches the FIFO a cycle after the strobe or the   *)
(* handshake that it comes from.  The splitter (dma/splitter.py,               *)
(* DMADescriptorSplitter) cuts a descriptor into pieces that share a user_id.  *)
EXTENDS Sequences, Naturals

CONSTANTS Depth,        \* descriptors in the FIFO
          IndexBound,   \* 2^16: the loop index and the loop count wrap
          MaxSize,      \* of a piece, in bytes
          IdBound       \* 2^8: the user_id wraps

VARIABLES table,        \* the FIFO: descriptors and their first flags
          refill,       \* its registered input: at most one descriptor
          loop_status,  \* what the register of that name shows
          state,        \* of the splitter: "IDLE" or "RUN"
          piece,        \* its registered piece; NoPiece in IDLE
          left,         \* bytes of the descriptor that are left
          user_id

NeverLooped == [first |-> TRUE, index |-> 0, count |-> 0]
NoPiece == [addr |-> 0, length |-> 0, first |-> FALSE, last |-> FALSE]

Init == /\ table = <<>> /\ refill = <<>> /\ loop_status = NeverLooped
        /\ state = "IDLE" /\ piece = NoPiece /\ left = 0 /\ user_id = 0

-----------------------------------------------------------------------------
(* The table.                                                                  *)
CountTaken(loop) ==
  LET next == (loop_status.index + 1) % IndexBound
  IN IF loop /\ Head(table).first
     THEN [first |-> FALSE, index |-> 0,
           count |-> IF loop_status.first THEN loop_status.count
                     ELSE (loop_status.count + 1) % IndexBound]
     ELSE [loop_status EXCEPT !.index = next,
             !.count = IF next = 0 THEN (@ + 1) % IndexBound ELSE @]

EveryFirst == TRUE   \* mutant of FirstFlag: each descriptor begins a loop

\* The first flag of a descriptor that software writes.
FirstFlag == table = <<>>

\* A cycle: software writes the descriptors "we" (one or none).
TableStep(we, loop, reset, ready) ==
  LET taken == table # <<>> /\ ready
      rest  == IF taken THEN Tail(table) ELSE table
  IN /\ table' = IF reset THEN <<>>
                 ELSE IF Len(table) < Depth THEN rest \o refill ELSE rest
     /\ refill' = IF ~loop THEN [i \in DOMAIN we |-> [we[i] EXCEPT !.first = FirstFlag]]
                  ELSE IF taken THEN <<Head(table)>> ELSE <<>>
     /\ loop_status' = IF reset THEN NeverLooped
                       ELSE IF taken THEN CountTaken(loop) ELSE loop_status

-----------------------------------------------------------------------------
(* The splitter.                                                               *)
Piece(addr, length, first) ==
  [addr |-> addr, first |-> first, last |-> length <= MaxSize,
   length |-> IF length > MaxSize THEN MaxSize ELSE length]

Offers == state = "RUN"

\* The descriptor is taken with its last piece.
SinkReady(ready) == Offers /\ ready /\ piece.last

Idle ==
  /\ state = "IDLE"
  /\ IF table = <<>> THEN UNCHANGED <<state, piece, left>>
     ELSE /\ state' = "RUN"
          /\ piece' = Piece(Head(table).addr, Head(table).length, TRUE)
          /\ left' = Head(table).length
  /\ UNCHANGED user_id

Run(ready) ==
  /\ state = "RUN"
  /\ IF ~ready THEN UNCHANGED <<state, piece, left, user_id>>
     ELSE IF piece.last
     THEN /\ state' = "IDLE" /\ piece' = NoPiece /\ left' = 0
          /\ user_id' = (user_id + 1) % IdBound
     ELSE /\ piece' = Piece(piece.addr + MaxSize, left - MaxSize, FALSE)
          /\ left' = left - MaxSize
          /\ UNCHANGED <<state, user_id>>

Step(we, loop, reset, ready) ==
  /\ TableStep(we, loop, reset, SinkReady(ready))
  /\ Idle \/ Run(ready)
=============================================================================
