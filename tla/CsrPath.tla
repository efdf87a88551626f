------------------------------- MODULE CsrPath -------------------------------
(* The CSR registers and the three ways to them: an initiator on the CSR bus    *)
(* itself, one on Wishbone, and one on AXI4-Lite.  A step is a clock cycle.     *)
EXTENDS CsrBridges

CONSTANT Fronts   \* the ways that a run looks at

ASSUME FrontsAssumption == Fronts \subseteq {"direct", "wishbone", "axi"}

VARIABLES front,   \* which of them this system has
          age,     \* history: cycles since a bridge has the request
          seen     \* history: the words in the cycles since a read request

pathVars == <<front, age, seen>>
allVars  == <<vars, wbVars, axiVars, pathVars>>

-----------------------------------------------------------------------------
(* What is going on at the bridge, if any: a request in progress, or the cycle *)
(* in which the answer to it appears.                                          *)
WbBusy   == wb.cyc /\ ~ack
AxiBusy  == state \in {"READ", "WRITE"}
Pending  == WbBusy \/ AxiBusy
Answered == (wb.cyc /\ ack) \/ Responding

Asked ==
  IF front = "wishbone" /\ wb.cyc
  THEN [word |-> wb.adr, write |-> wb.we, whole |-> wb.sel = Lanes,
        data |-> IF wb.we THEN wb.dat_w ELSE Nothing]
  ELSE IF front = "axi" /\ state # "IDLE"
  THEN [word |-> request.word, write |-> request.channel = "write", whole |-> TRUE,
        data |-> IF request.channel = "write" THEN request.data ELSE Nothing]
  ELSE [word |-> 0, write |-> FALSE, whole |-> FALSE, data |-> Nothing]

Answer == IF front = "wishbone" THEN dat_r ELSE r_data

MaxAge == Ratio + 2   \* age saturates here

Word(w) == [lane \in Lanes |-> IF Addr(w, lane) \in DOMAIN val
                               THEN val[Addr(w, lane)] ELSE {}]

History ==
  /\ age' = IF ~Pending THEN 0 ELSE IF age < MaxAge THEN age + 1 ELSE age
  /\ seen' = IF Pending /\ ~Asked.write /\ Asked.whole
             THEN seen \union {Word(Asked.word)}
             ELSE IF Answered' THEN seen ELSE {}

PathInit ==
  /\ Init /\ WbInit /\ AxiInit
  /\ front \in Fronts
  /\ age = 0 /\ seen = {}

PathNext ==
  /\ UNCHANGED front
  /\ \/ front = "direct" /\ Direct /\ UNCHANGED <<wbVars, axiVars>>
     \/ front = "wishbone" /\ ByWishbone /\ UNCHANGED axiVars
     \/ front = "axi" /\ ByAxi /\ UNCHANGED wbVars
  /\ History

PathSpec == PathInit /\ [][PathNext]_allVars

-----------------------------------------------------------------------------
(* Whatever the registers, their windows and alignment and the order of the    *)
(* transactions, complete or aborted, the shared shadows keep the promise of a *)
(* CSR bus, and the bridges are initiators that it may rely on: a read returns *)
(* a register as it was at one moment, a write takes effect once and whole,    *)
(* and the bus reads as zero when nothing was asked.                           *)
ImplementsAtomic == Atomic!Spec

(* What the bridges need for that, as they know no registers: a word that they  *)
(* are asked for has the registers that it has chunks of whole, and a select    *)
(* pattern has no chunk of a register without those before it.                  *)
InWord(r, word) == \E lane \in Lanes : Addr(word, lane) \in AddressesOf(r)

WholeRegisters ==
  \A word \in Words, r \in Regs :
    InWord(r, word) => r.start >= Addr(word, 0) /\ r.stop <= Addr(word, Ratio)

InitialLanes ==
  \A word \in Words, sel \in Selects, r \in Regs :
    \A lane \in sel, before \in Lanes :
      /\ before < lane
      /\ Addr(word, before) \in AddressesOf(r) /\ Addr(word, lane) \in AddressesOf(r)
      => before \in sel

Within(r) == r.start >= Addr(Asked.word, 0) /\ r.stop <= Addr(Asked.word, Ratio - 1) + 1

LaneOf(a) == a - Addr(Asked.word, 0)

(* A register that fits in a word of a bridge is read as it was in one cycle   *)
(* of the access, although its chunks reach the bridge one after another.      *)
ReadIsOneMoment ==
  Answered /\ Asked.whole /\ ~Asked.write =>
    \A r \in Regs : Within(r) =>
      \E w \in seen : \A a \in AddressesOf(r) : Answer[LaneOf(a)] = w[LaneOf(a)]

AfterThisCycle(r, a) == IF w_stb[r] THEN WData(r)[a] ELSE val[a]

(* "Write side effects occur simultaneously with acknowledgement": a register  *)
(* that the word covers has what was written in the cycle in which the         *)
(* Wishbone acknowledge is up, and takes it in the first cycle of an AXI4-Lite *)
(* response at the latest, a register in the last lane too.                    *)
WriteIsDone ==
  Answered /\ Asked.whole /\ Asked.write =>
    \A r \in Regs \ Volatile : Within(r) =>
      \A a \in AddressesOf(r) :
        (IF front = "wishbone" THEN val[a] ELSE AfterThisCycle(r, a)) = Asked.data[LaneOf(a)]

(* Every access of a kind takes the same number of cycles, regardless of the   *)
(* select inputs.  By Wishbone it is the documented Ratio + 1                  *)
(* (csr/wishbone.py:23).  By AXI4-Lite a read takes that many, counted from    *)
(* the cycle after the address handshake, and a write one less, as it needs no *)
(* cycle for data to come back.  This is NOT what csr/axi_lite.py:24 says,     *)
(* "Reads and writes take data_width // csr_bus.data_width + 1 cycles": with   *)
(* the handshake's cycle counted too, the write takes that many and the read   *)
(* one more, so that the two never agree.  The property is what the code does. *)
LatencyIsConstant ==
  LET latency == IF front = "axi" /\ Asked.write THEN Ratio ELSE Ratio + 1
  IN  /\ age <= latency
      /\ Answered /\ age > 0 => age = latency

(* "When the first chunk of a register is read, the value of a register is     *)
(* captured, and reads from subsequent chunks of the same register return the  *)
(* captured values": while a bridge answers with the first word of a register  *)
(* that goes on in the next word, the capture that the next word will be read  *)
(* from is still the one that the answer is from.                              *)
NextWordIsOfThisCapture ==
  Answered /\ Asked.whole /\ ~Asked.write =>
    \A r \in Regs :
      LET here == {a \in AddressesOf(r) : LaneOf(a) \in Lanes}
      IN  r.start \in here /\ here # AddressesOf(r) =>
            \A a \in here : Answer[LaneOf(a)] = Captured(r)[a]
=============================================================================
