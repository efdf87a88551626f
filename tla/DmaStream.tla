----------------------------- MODULE DmaStream -----------------------------
(* What the controllers of the DMA promise together (docs/dma/index.rst): the  *)
(* words that the read descriptors name, in their order, go to where the write *)
(* descriptors say, in theirs.  There are no requests, FIFOs or plugins here.  *)
(* A frame is what a read request fetches; a write request that honours        *)
(* frames repeats the last word of a frame until it is full.                   *)
EXTENDS Sequences, Naturals

CONSTANTS Src,    \* the words to read: address, and whether a frame ends
          Dst     \* the words to write: address, and whether a request ends

VARIABLES loop,   \* whether the tables refill themselves
          nolast, \* whether the write descriptors ignore frames
          lossy,  \* whether words may have been lost: a controller was stopped
          mem,    \* destination: the source address of the word it holds, or 0
          from,   \* the words read, in the current loop
          to      \* the words written, in the current loop

vars == <<loop, nolast, lossy, mem, from, to>>

Init ==
  /\ loop \in BOOLEAN /\ nolast \in BOOLEAN /\ lossy = FALSE
  /\ mem = [a \in {Dst[i].addr : i \in DOMAIN Dst} |-> 0] /\ from = 0 /\ to = 0

After(k, n) == IF loop /\ k + 1 = n THEN 0 ELSE k + 1

\* The k-th word is written; if words were lost, others before it may be missing.
WriteWord(k) ==
  /\ k < Len(Src) /\ to < Len(Dst)
  /\ k = from \/ (lossy /\ k > from)
  /\ mem' = [mem EXCEPT ![Dst[to + 1].addr] = Src[k + 1].addr]
  /\ to' = After(to, Len(Dst))
  /\ from' = IF Src[k + 1].end /\ ~nolast /\ ~Dst[to + 1].end THEN k ELSE After(k, Len(Src))

Next ==
  /\ lossy' \in {lossy, TRUE}
  /\ \/ \E k \in 0 .. Len(Src) - 1 : WriteWord(k)
     \/ UNCHANGED <<mem, from, to>>
  /\ UNCHANGED <<loop, nolast>>

Spec == Init /\ [][Next]_vars
=============================================================================
