--------------------------- MODULE ScatterGather ---------------------------
(* The scatter-gather DMA engine (dma/scatter_gather.py, ScatterGatherDMA):    *)
(* its controller starts a reader and a writer for each descriptor, and the    *)
(* reader's stream is the writer's.  A memory with wait states is behind the   *)
(* two AXI4 ports, and software writes the table and aborts at any time.  An   *)
(* abort does not reach the reader and the writer, so software waits for their *)
(* end before it starts again.  A step is a clock cycle.                       *)
EXTENDS DmaEngines

CONSTANTS Descriptors, MaxDesc, Counts

ASSUME DescriptorsAssumption ==
  /\ Descriptors \subseteq [src : Nat, dst : Nat, length : Nat \ {0}, last : BOOLEAN]
  /\ \A d \in Descriptors : d.src + d.length <= Space /\ d.dst + d.length <= Space
ASSUME CountsAssumption == MaxDesc \in Nat \ {0} /\ Counts \subseteq 1 .. MaxDesc

VARIABLES state, idx, num, cur, table,   \* the controller
          reading, writing,   \* the bursts in the memory: next address, beats left
          mem,                \* its words; each is the address it comes from
          moved               \* history: words written for the current descriptor

controller == <<state, idx, num, cur>>
vars       == <<controller, table, reader, writer, reading, writing, mem, moved>>

Addresses == 0 .. Space - 1

-----------------------------------------------------------------------------
(* The controller.                                                             *)
start == state = "START_XFER"   \* reader.start and writer.start

Quiet == state = "IDLE" /\ ~ReaderBusy /\ ~WriterBusy

Idle ==
  /\ state = "IDLE"
  /\ \/ Quiet /\ state' = "LOAD_DESC" /\ idx' = 0 /\ num' \in Counts
     \/ UNCHANGED <<state, idx, num>>
  /\ UNCHANGED cur

LoadDesc ==
  /\ state = "LOAD_DESC" /\ state' = "START_XFER"
  /\ cur' = table[idx]
  /\ UNCHANGED <<idx, num>>

StartXfer == state = "START_XFER" /\ state' = "WAIT_XFER" /\ UNCHANGED <<idx, num, cur>>

ReaderOnly ==    \* mutant of WaitXfer: the writer may still be at work
  /\ state = "WAIT_XFER"
  /\ state' = IF ReaderBusy THEN state ELSE "DESC_DONE"
  /\ UNCHANGED <<idx, num, cur>>

WaitXfer ==
  /\ state = "WAIT_XFER"
  /\ \/ state' = "IDLE"     \* abort
     \/ state' = IF ReaderBusy \/ WriterBusy THEN state ELSE "DESC_DONE"
  /\ UNCHANGED <<idx, num, cur>>

IsLast == cur.last \/ idx = num - 1

DescDone ==
  /\ state = "DESC_DONE"
  /\ IF IsLast THEN state' = "ALL_DONE" /\ UNCHANGED idx
     ELSE state' = "LOAD_DESC" /\ idx' = (idx + 1) % MaxDesc
  /\ UNCHANGED <<num, cur>>

AllDone == state = "ALL_DONE" /\ state' = "IDLE" /\ UNCHANGED <<idx, num, cur>>

\* The write port of the table.
DescWrite ==
  \/ UNCHANGED table
  \/ \E i \in DOMAIN table, d \in Descriptors : table' = [table EXCEPT ![i] = d]

-----------------------------------------------------------------------------
(* The engines and the memory.  An engine waits for one answer of its port at  *)
(* a time, rready or wready: arready or a beat, and awready, a beat or bvalid.  *)
Ar(rready) == rd_state = "AR_PHASE" /\ rready
Aw(wready) == wr_state = "AW_PHASE" /\ wready
Beat(wready) == rd_state = "R_PHASE" /\ wr_state = "W_PHASE" /\ wready
                  /\ reading.beats > 0 /\ writing.beats > 0
Resp(wready) == writing.beats = 0 /\ wready

ReaderStep(rready, wready) ==
  \/ ReaderIdle(start, cur.src, cur.length)
  \/ ArPhase(rready)
  \/ RPhase(Beat(wready), reading.beats = 1)
  \/ ReaderDone

WriterStep(wready) ==
  \/ WriterIdle(start, cur.dst, cur.length)
  \/ AwPhase(wready)
  \/ WPhase(Beat(wready))
  \/ BPhase(Resp(wready))
  \/ WriterDone

Rest(burst) == [addr |-> (burst.addr + 1) % Space, beats |-> burst.beats - 1]

MemoryStep(rready, wready) ==
  /\ reading' = IF Ar(rready) THEN [addr |-> rd_addr, beats |-> Beats(rd_left)]
                ELSE IF Beat(wready) THEN Rest(reading) ELSE reading
  /\ writing' = IF Aw(wready) THEN [addr |-> wr_addr, beats |-> Beats(wr_left)]
                ELSE IF Beat(wready) THEN Rest(writing) ELSE writing
  /\ mem' = IF Beat(wready) THEN [mem EXCEPT ![writing.addr] = mem[reading.addr]] ELSE mem

Transfer(rready, wready) ==
  /\ ReaderStep(rready, wready)
  /\ WriterStep(wready)
  /\ MemoryStep(rready, wready)
  /\ moved' = IF state = "LOAD_DESC" THEN 0 ELSE IF Beat(wready) THEN moved + 1 ELSE moved

Init ==
  /\ state = "IDLE" /\ idx = 0 /\ num = 0 /\ cur \in Descriptors
  /\ table \in [0 .. MaxDesc - 1 -> Descriptors]
  /\ ReaderInit /\ WriterInit
  /\ reading = [addr |-> 0, beats |-> 0] /\ writing = [addr |-> 0, beats |-> 0]
  /\ mem = [a \in Addresses |-> a]
  /\ moved = cur.length

Clock(Controller) ==
  /\ Controller
  /\ DescWrite
  /\ \E rready, wready \in BOOLEAN : Transfer(rready, wready)

Next == \/ Clock(Idle)
        \/ Clock(LoadDesc)
        \/ Clock(StartXfer)
        \/ Clock(WaitXfer)
        \/ Clock(DescDone)
        \/ Clock(AllDone)

(* The clock runs, and the memory lets nothing wait for ever.                  *)
ArTaken  == Next /\ rd_state = "AR_PHASE" /\ rd_state' # "AR_PHASE"
AwTaken  == Next /\ wr_state = "AW_PHASE" /\ wr_state' # "AW_PHASE"
Moves    == Next /\ moved' = moved + 1
Responds == Next /\ wr_state = "B_PHASE" /\ wr_state' # "B_PHASE"

Fairness == /\ WF_vars(Next) /\ WF_vars(ArTaken) /\ WF_vars(AwTaken)
            /\ WF_vars(Moves) /\ WF_vars(Responds)

Spec == Init /\ [][Next]_vars /\ Fairness

-----------------------------------------------------------------------------
(* The writer raises WLAST with the beat that is the last of the burst it      *)
(* announced, although it counts the beats itself.                             *)
LastBeatAgrees == wr_state = "W_PHASE" => (WLast <=> writing.beats = 1)

Status == CASE state = "IDLE"                        -> "idle"
            [] state = "LOAD_DESC"                   -> "load"
            [] state \in {"START_XFER", "WAIT_XFER"} -> "copy"
            [] state = "DESC_DONE"                   -> "report"
            [] state = "ALL_DONE"                    -> "done"

Copy == INSTANCE DmaCopy WITH pos <- moved, status <- Status

(* Whatever the lengths, the bursts they are cut into, the wait states and the *)
(* moments at which software writes the table or aborts: the engine copies the *)
(* descriptors' words in order, each once, and reports when all are written.   *)
ImplementsCopy == Copy!Spec

(* An engine that was started, and one that was aborted, comes to rest, reader *)
(* and writer included.                                                        *)
Finishes == state = "LOAD_DESC" ~> Quiet
=============================================================================
