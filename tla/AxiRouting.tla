----------------------------- MODULE AxiRouting -----------------------------
(* The two parts of an AXI interconnect, as operators on their registers, for  *)
(* there may be several of each.  The arbiters (axi/arbiter.py, classes        *)
(* AXI4LiteArbiter and AXI4Arbiter) stand between N masters and one slave:     *)
(* grant, wr_locked and rd_locked.  A path of an address decoder               *)
(* (axi/decoder.py, classes AXI4LiteDecoder and AXI4Decoder) is a record: its  *)
(* state, the latched target (NoSub for wr_no_match), the pipelined next       *)
(* target (None while wr_next_valid is low), and, for the answers to an        *)
(* unmapped burst, rd_len_latched and rd_decerr_cnt.                           *)
EXTENDS Integers

CONSTANT N   \* number of masters

ASSUME NAssumption == N \in Nat \ {0}

NoSub == -1   \* what an address that matches no window selects
None  == -2

-----------------------------------------------------------------------------
(* The arbiters.                                                               *)
Masters == 0 .. N-1

\* wr_locked | rd_locked
Locked(locked) == locked["write"] \/ locked["read"]

Dist(g, j) == IF j > g THEN j - g ELSE j - g + N

LowestFirst(g, requests) ==    \* mutant of FirstInLine
  CHOOSE j \in requests \ {g} : \A k \in requests \ {g} : j <= k

\* Successors first, then predecessors, the nearest to the front of the list:
\* the first in cyclic order.  The granted master is not among them.
FirstInLine(g, requests) ==
  CHOOSE j \in requests \ {g} : \A k \in requests \ {g} : Dist(g, j) <= Dist(g, k)

\* requests: the masters with awvalid | arvalid.
NextGrant(g, locked, requests) ==
  IF Locked(locked) \/ requests \ {g} = {} THEN g ELSE FirstInLine(g, requests)

\* AXI4-Lite: If, If.  The later assignment wins.  A response ends either lock.
LiteLock(locked, address, response) == ~response /\ (address \/ locked)

NeverCleared(locked, address, last) == address \/ locked    \* mutant of FullLock

\* AXI4: If, Elif.  The last beat ends either lock, of the data for a write.
FullLock(locked, address, last) == address \/ (locked /\ ~last)

-----------------------------------------------------------------------------
(* A path of a decoder.                                                        *)
PathInit == [fsm |-> "IDLE", target |-> 0, next |-> None, len |-> 0, cnt |-> 0]

\* The phase in which the path forwards a channel to, or from, a subordinate.
Forwards(d, phase, j) == d.fsm = phase /\ d.target = j

\* The decoder's own handshakes, in place of a subordinate's.
OwnReady(d, phase) == d.fsm = phase /\ d.target = NoSub
DecErr(d)          == d.fsm = "RESP" /\ d.target = NoSub
DecErrLast(d)      == d.cnt = d.len

\* IDLE: an address is there; t is the window that it decodes to.
Latched(d, t, len) == [d EXCEPT !.fsm = "ADDR", !.target = t, !.len = len, !.cnt = 0]

(* ADDR: an unmatched address is accepted at once, whether it is there or not. *)
Addressed(d, accepted) == d.target = NoSub \/ accepted

KeepsTarget(d) ==    \* mutant of Finished
  IF d.next # None THEN [d EXCEPT !.fsm = "ADDR", !.next = None] ELSE PathInit

\* RESP, the last beat is taken: a target latched meanwhile saves the IDLE state.
\* What IDLE leaves in the other registers is never read: they are cleared here.
Finished(d) == IF d.next # None
               THEN [d EXCEPT !.fsm = "ADDR", !.target = d.next, !.next = None]
               ELSE PathInit

\* RESP, pipelined: the next address is latched while the response is awaited.
Anticipated(d, now, valid, t) == IF valid /\ d.next = None THEN [now EXCEPT !.next = t] ELSE now

\* A response's phase, in which the next address may show up.
Responding(d, last, taken, pipelined, valid, t) ==
  LET now == IF taken /\ last THEN Finished(d) ELSE d
  IN  IF pipelined THEN Anticipated(d, now, valid, t) ELSE now

(* The write path.                                                             *)
WrIdle(d, awvalid, t) == IF awvalid THEN Latched(d, t, 0) ELSE d
WrAddr(d, accepted)   == IF Addressed(d, accepted) THEN [d EXCEPT !.fsm = "DATA"] ELSE d
WrData(d, last)       == IF last THEN [d EXCEPT !.fsm = "RESP", !.next = None] ELSE d

(* The read path counts the beats of an unmapped burst.                        *)
RdIdle(d, arvalid, t, len) == IF arvalid THEN Latched(d, t, len) ELSE d

\* An unmatched address does not clear the next target.
RdAddr(d, accepted) ==
  IF ~Addressed(d, accepted) THEN d
  ELSE [d EXCEPT !.fsm = "RESP", !.next = IF d.target = NoSub THEN d.next ELSE None]

Counted(d, taken) ==
  IF DecErr(d) /\ taken /\ ~DecErrLast(d) THEN [d EXCEPT !.cnt = @ + 1] ELSE d
=============================================================================
