------------------------------ MODULE DmaCopy ------------------------------
(* What the scatter-gather engine promises (dma/scatter_gather.py, docstring): *)
(* "Manages a table of DMA descriptors, executing them sequentially".  There   *)
(* are no bursts and no buses: the engine copies word by word, in order.       *)
EXTENDS Naturals

CONSTANTS Space,         \* the number of words
          Descriptors,   \* what software puts into the table
          MaxDesc,       \* the size of the table
          Counts         \* the numbers of descriptors that software asks for

VARIABLES mem,      \* the memory, word by word
          table,    \* the descriptors
          status,   \* "idle", "load", "copy", "report" or "done"
          idx, num, \* the current descriptor and how many there are
          cur,      \* its contents
          pos       \* how many of its words are copied

vars == <<mem, table, status, idx, num, cur, pos>>

Init ==
  /\ mem = [a \in 0 .. Space - 1 |-> a]
  /\ table \in [0 .. MaxDesc - 1 -> Descriptors]
  /\ cur \in Descriptors
  /\ status = "idle" /\ idx = 0 /\ num = 0 /\ pos = cur.length

\* Software may write a descriptor at any time.
Program ==
  \/ UNCHANGED table
  \/ \E i \in DOMAIN table, d \in Descriptors : table' = [table EXCEPT ![i] = d]

\* After an abort the copy goes on to its end, and no start is given before.
Start ==
  /\ status = "idle" /\ pos = cur.length /\ status' = "load"
  /\ idx' = 0 /\ num' \in Counts
  /\ UNCHANGED <<mem, cur, pos>>

Load ==
  /\ status = "load" /\ status' = "copy"
  /\ cur' = table[idx] /\ pos' = 0
  /\ UNCHANGED <<mem, idx, num>>

\* The word at the end of an abort's cycle is still copied.
Copy ==
  /\ status \in {"copy", "idle"} /\ pos < cur.length
  /\ mem' = [mem EXCEPT ![cur.dst + pos] = mem[cur.src + pos]]
  /\ pos' = pos + 1
  /\ status' \in {status, "idle"}
  /\ UNCHANGED <<idx, num, cur>>

Abort == status = "copy" /\ status' = "idle" /\ UNCHANGED <<mem, idx, num, cur, pos>>

Report ==
  /\ status = "copy" /\ pos = cur.length
  /\ status' = "report"
  /\ UNCHANGED <<mem, idx, num, cur, pos>>

Proceed ==
  /\ status = "report"
  /\ IF cur.last \/ idx = num - 1
     THEN status' = "done" /\ UNCHANGED idx
     ELSE status' = "load" /\ idx' = idx + 1
  /\ UNCHANGED <<mem, num, cur, pos>>

Finish == status = "done" /\ status' = "idle" /\ UNCHANGED <<mem, idx, num, cur, pos>>

Rest == UNCHANGED <<mem, status, idx, num, cur, pos>>

Next == Program /\ (Start \/ Load \/ Copy \/ Abort \/ Report \/ Proceed \/ Finish \/ Rest)

Spec == Init /\ [][Next]_vars
=============================================================================
