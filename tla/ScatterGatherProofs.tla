------------------------ MODULE ScatterGatherProofs ------------------------
(* For every burst length, every table and every set of descriptors that fit   *)
(* the memory: the scatter-gather engine implements the word by word copy that *)
(* it promises, and its WLAST agrees with the bursts it announced.             *)
EXTENDS ScatterGather, TLAPS

(* What the controller's registers hold, whatever software does to the table.  *)
States == {"IDLE", "LOAD_DESC", "START_XFER", "WAIT_XFER", "DESC_DONE", "ALL_DONE"}

Controlled ==
  /\ state \in States
  /\ cur \in Descriptors
  /\ table \in [0 .. MaxDesc - 1 -> Descriptors]
  /\ moved \in 0 .. cur.length
  /\ idx \in 0 .. MaxDesc - 1 /\ num \in Nat
  /\ state # "IDLE" => num \in 1 .. MaxDesc /\ idx < num

(* The engines start together, and nothing else starts while they are at work; *)
(* when the writer rests, all of the current descriptor is copied.             *)
Coupled ==
  /\ state \in {"LOAD_DESC", "START_XFER"} => rd_state = "IDLE" /\ wr_state = "IDLE"
  /\ state = "START_XFER" => moved = 0
  /\ state \in {"DESC_DONE", "ALL_DONE"} => ~ReaderBusy /\ ~WriterBusy
  /\ ~WriterBusy /\ state # "START_XFER" => moved = cur.length

(* The reader's next burst begins at the next word to move, and the burst in   *)
(* the memory is at it; what is left of both makes up the descriptor.          *)
ReaderAt ==
  /\ rd_state \in {"IDLE", "AR_PHASE", "R_PHASE", "DONE"}
  /\ rd_left \in Nat
  /\ rd_state = "AR_PHASE" =>
       /\ moved < cur.length
       /\ rd_left = cur.length - moved
       /\ rd_addr = cur.src + moved
  /\ rd_state = "R_PHASE" =>
       /\ moved < cur.length
       /\ reading.beats \in Nat \ {0}
       /\ reading.addr = cur.src + moved
       /\ rd_left = cur.length - moved - reading.beats
       /\ rd_left > 0 => rd_addr = cur.src + moved + reading.beats

(* The writer counts a burst's beats up while the memory counts them down.     *)
WriterAt ==
  /\ wr_state \in {"IDLE", "AW_PHASE", "W_PHASE", "B_PHASE", "DONE"}
  /\ wr_left \in Nat /\ wr_burst \in Nat /\ wr_count \in Nat
  /\ wr_state = "AW_PHASE" =>
       /\ moved < cur.length
       /\ wr_left = cur.length - moved
       /\ wr_addr = cur.dst + moved
  /\ wr_state = "W_PHASE" =>
       /\ wr_count < wr_burst /\ wr_burst <= wr_left
       /\ writing.beats = wr_burst - wr_count
       /\ moved = cur.length - wr_left + wr_count
       /\ writing.addr = cur.dst + moved
       /\ wr_addr = cur.dst + moved - wr_count
  /\ wr_state = "B_PHASE" =>
       /\ wr_burst \in 1 .. wr_left
       /\ moved = cur.length - wr_left + wr_burst
       /\ wr_addr = cur.dst + moved - wr_burst

IInv == Controlled /\ Coupled /\ ReaderAt /\ WriterAt

-----------------------------------------------------------------------------
(* A descriptor fits into the memory.                                          *)
LEMMA DescriptorsFit ==
  \A d \in Descriptors :
    /\ d.src \in Nat /\ d.dst \in Nat /\ d.length \in Nat \ {0}
    /\ d.src + d.length <= Space /\ d.dst + d.length <= Space
  BY DescriptorsAssumption

(* Addresses below the end of the memory do not wrap.                          *)
LEMMA NoWrap == \A a \in Nat : a < Space => a % Space = a
  BY SpaceAssumption

(* What a burst of at most MaxBurst beats announces is what it has.            *)
LEMMA BurstFits ==
  \A left \in Nat \ {0} : Burst(left) \in 1 .. left /\ Beats(left) = Burst(left)
  <1> TAKE left \in Nat \ {0}
  <1>1. Burst(left) \in 1 .. left /\ Burst(left) <= LenValues
    BY BurstAssumption DEF Burst
  <1>2. \A b, v \in Nat : 0 < b /\ b <= v => ((b - 1) % v) + 1 = b
    OBVIOUS
  <1> QED
    BY <1>1, <1>2, BurstAssumption DEF Beats

(* A cycle: one state of the controller, the table, and one of each engine.    *)
Controls == Idle \/ LoadDesc \/ StartXfer \/ WaitXfer \/ DescDone \/ AllDone

LEMMA NextIsCycle ==
  Next => Controls /\ DescWrite /\ \E rready, wready \in BOOLEAN : Transfer(rready, wready)
  BY DEF Next, Clock, Controls

(* The controller changes the descriptor only while the engines are at rest.   *)
LEMMA DescriptorHolds ==
  ASSUME IInv, Controls
  PROVE  /\ state = "LOAD_DESC" => state' = "START_XFER" /\ cur' \in Descriptors
         /\ state # "LOAD_DESC" => cur' = cur /\ state' # "START_XFER"
         /\ state = "START_XFER" => state' = "WAIT_XFER"
         /\ state' = "START_XFER" => state = "LOAD_DESC"
  <1>1. table[idx] \in Descriptors
    BY DEF IInv, Controlled
  <1> QED
    BY <1>1 DEF IInv, Controlled, Controls, Idle, LoadDesc, StartXfer, WaitXfer, DescDone, AllDone, States

(* A beat moves the next word, and only while the engines work on a descriptor.*)
LEMMA BeatMoves ==
  ASSUME IInv, NEW rready \in BOOLEAN, NEW wready \in BOOLEAN, Transfer(rready, wready)
  PROVE  /\ Beat(wready) => /\ state \in {"IDLE", "WAIT_XFER"}
                            /\ moved < cur.length
                            /\ moved' = moved + 1
                            /\ mem' = [mem EXCEPT ![cur.dst + moved] = mem[cur.src + moved]]
         /\ ~Beat(wready) => mem' = mem /\ moved' = IF state = "LOAD_DESC" THEN 0 ELSE moved
  BY DEF IInv, Controlled, States, Coupled, ReaderAt, WriterAt, ReaderBusy, WriterBusy,
         Beat, Transfer, MemoryStep

(* The reader's registers follow the words that are moved.                     *)
LEMMA ReaderKeeps ==
  ASSUME IInv, Controls, NEW rready \in BOOLEAN, NEW wready \in BOOLEAN, Transfer(rready, wready)
  PROVE  ReaderAt'
  <1> DEFINE L == cur.length
  <1>0. L \in Nat \ {0} /\ cur.src \in Nat /\ cur.src + L <= Space /\ moved \in 0 .. L
    BY DescriptorsFit DEF IInv, Controlled
  <1>1. CASE ReaderIdle(start, cur.src, cur.length)
    <2>1. CASE start
      <3>1. cur' = cur /\ moved = 0 /\ moved' = 0
        BY <2>1, DescriptorHolds, BeatMoves DEF IInv, Coupled, start
      <3> QED
        BY <1>0, <1>1, <2>1, <3>1 DEF ReaderIdle, ReaderAt
    <2>2. CASE ~start
      BY <1>1, <2>2 DEF ReaderIdle, ReaderAt, reader, IInv
    <2> QED
      BY <2>1, <2>2
  <1>2. CASE ArPhase(rready)
    <2>1. ~Beat(wready) /\ cur' = cur /\ moved' = moved
      BY <1>2, DescriptorHolds, BeatMoves DEF ArPhase, Beat, IInv, Coupled
    <2>2. moved < L /\ rd_left = L - moved /\ rd_addr = cur.src + moved
      BY <1>2 DEF IInv, ReaderAt, ArPhase
    <2>3. CASE rready
      <3> DEFINE b == Burst(rd_left)
      <3>1. b \in 1 .. rd_left /\ Beats(rd_left) = b
        BY <1>0, <2>2, BurstFits
      <3>2. /\ rd_state' = "R_PHASE" /\ rd_left' = rd_left - b /\ rd_addr' = (rd_addr + b) % Space
            /\ reading' = [addr |-> rd_addr, beats |-> b]
        BY <1>2, <2>3, <3>1 DEF ArPhase, Transfer, MemoryStep, Ar
      <3>3. rd_left - b > 0 => (rd_addr + b) % Space = cur.src + moved + b
        <4> SUFFICES ASSUME rd_left - b > 0 PROVE (rd_addr + b) % Space = cur.src + moved + b
          OBVIOUS
        <4>1. rd_addr + b \in Nat /\ rd_addr + b < Space /\ rd_addr + b = cur.src + moved + b
          BY <1>0, <2>2, <3>1, SpaceAssumption
        <4> QED
          BY <4>1, NoWrap
      <3>4. rd_left - b \in Nat /\ b \in Nat \ {0} /\ rd_left - b = L - moved - b
        BY <1>0, <2>2, <3>1
      <3> QED
        BY <2>1, <2>2, <3>2, <3>3, <3>4 DEF ReaderAt
    <2>4. CASE ~rready
      BY <1>2, <2>1, <2>2, <2>4 DEF ArPhase, reader, ReaderAt, IInv
    <2> QED
      BY <2>3, <2>4
  <1>3. CASE RPhase(Beat(wready), reading.beats = 1)
    <2>0. /\ rd_state = "R_PHASE" /\ cur' = cur /\ rd_left' = rd_left /\ rd_addr' = rd_addr /\ rd_left \in Nat
          /\ moved < L /\ reading.beats \in Nat \ {0} /\ reading.addr = cur.src + moved
          /\ rd_left = L - moved - reading.beats
          /\ rd_left > 0 => rd_addr = cur.src + moved + reading.beats
      BY <1>3, DescriptorHolds DEF RPhase, IInv, ReaderAt, Coupled
    <2>1. CASE ~Beat(wready)
      <3>1. moved' = moved /\ reading' = reading /\ rd_state' = rd_state
        BY <1>3, <2>0, <2>1, BeatMoves DEF RPhase, Transfer, MemoryStep, Ar, IInv, Coupled
      <3> QED
        BY <2>0, <3>1 DEF ReaderAt
    <2>2. CASE Beat(wready) /\ reading.beats # 1
      <3>1. /\ moved' = moved + 1 /\ rd_state' = rd_state
            /\ reading' = [addr |-> (reading.addr + 1) % Space, beats |-> reading.beats - 1]
        BY <1>3, <2>0, <2>2, BeatMoves DEF RPhase, Transfer, MemoryStep, Ar, Rest
      <3>2. reading.addr + 1 \in Nat /\ reading.addr + 1 < Space /\ reading.addr + 1 = cur.src + (moved + 1)
        BY <1>0, <2>0, <2>2, SpaceAssumption
      <3>3. (reading.addr + 1) % Space = cur.src + (moved + 1)
        BY <3>2, NoWrap
      <3>4. /\ moved + 1 < L /\ reading.beats - 1 \in Nat \ {0}
            /\ rd_left = L - (moved + 1) - (reading.beats - 1)
            /\ cur.src + moved + reading.beats = cur.src + (moved + 1) + (reading.beats - 1)
        BY <1>0, <2>0, <2>2
      <3> QED
        BY <2>0, <3>1, <3>3, <3>4 DEF ReaderAt
    <2>3. CASE Beat(wready) /\ reading.beats = 1
      <3>1. moved' = moved + 1 /\ rd_state' = IF rd_left = 0 THEN "DONE" ELSE "AR_PHASE"
        BY <1>3, <2>3, BeatMoves DEF RPhase
      <3>2. /\ rd_left # 0 => moved + 1 < L
            /\ rd_left = L - (moved + 1)
            /\ rd_left # 0 => rd_addr = cur.src + (moved + 1)
        BY <1>0, <2>0, <2>3
      <3> QED
        BY <2>0, <3>1, <3>2 DEF ReaderAt
    <2> QED
      BY <2>1, <2>2, <2>3
  <1>4. CASE ReaderDone
    BY <1>4 DEF ReaderDone, ReaderAt, IInv
  <1> QED
    BY <1>1, <1>2, <1>3, <1>4 DEF Transfer, ReaderStep

(* The writer's registers follow them too, to the response of each burst.      *)
LEMMA WriterKeeps ==
  ASSUME IInv, Controls, NEW rready \in BOOLEAN, NEW wready \in BOOLEAN, Transfer(rready, wready)
  PROVE  WriterAt'
  <1> DEFINE L == cur.length
  <1>0. L \in Nat \ {0} /\ cur.dst \in Nat /\ cur.dst + L <= Space /\ moved \in 0 .. L
    BY DescriptorsFit DEF IInv, Controlled
  <1>1. CASE WriterIdle(start, cur.dst, cur.length)
    <2>1. CASE start
      <3>1. cur' = cur /\ moved = 0 /\ moved' = 0
        BY <2>1, DescriptorHolds, BeatMoves DEF IInv, Coupled, start
      <3> QED
        BY <1>0, <1>1, <2>1, <3>1 DEF WriterIdle, WriterAt, IInv
    <2>2. CASE ~start
      BY <1>1, <2>2 DEF WriterIdle, WriterAt, IInv
    <2> QED
      BY <2>1, <2>2
  <1>2. CASE AwPhase(wready)
    <2>1. ~Beat(wready) /\ cur' = cur /\ moved' = moved
      BY <1>2, DescriptorHolds, BeatMoves DEF AwPhase, Beat, IInv, Coupled
    <2>2. moved < L /\ wr_left = L - moved /\ wr_addr = cur.dst + moved
      BY <1>2 DEF IInv, WriterAt, AwPhase
    <2>3. CASE wready
      <3> DEFINE b == Burst(wr_left)
      <3>1. b \in 1 .. wr_left /\ Beats(wr_left) = b
        BY <1>0, <2>2, BurstFits
      <3>2. /\ wr_state' = "W_PHASE" /\ wr_left' = wr_left /\ wr_addr' = wr_addr
            /\ wr_burst' = b /\ wr_count' = 0
            /\ writing' = [addr |-> wr_addr, beats |-> b]
        BY <1>2, <2>3, <3>1 DEF AwPhase, Transfer, MemoryStep, Aw
      <3>3. /\ b \in Nat /\ wr_left \in Nat /\ 0 < b /\ b <= wr_left /\ b = b - 0
            /\ moved = L - wr_left + 0 /\ wr_addr = cur.dst + moved - 0
        BY <1>0, <2>2, <3>1
      <3> QED
        BY <2>1, <2>2, <3>2, <3>3 DEF WriterAt
    <2>4. CASE ~wready
      BY <1>2, <2>1, <2>2, <2>4 DEF AwPhase, WriterAt, IInv
    <2> QED
      BY <2>3, <2>4
  <1>3. CASE WPhase(Beat(wready))
    <2>0. /\ wr_state = "W_PHASE" /\ cur' = cur /\ wr_left' = wr_left /\ wr_addr' = wr_addr /\ wr_burst' = wr_burst
          /\ wr_left \in Nat /\ wr_burst \in Nat /\ wr_count \in Nat
          /\ wr_count < wr_burst /\ wr_burst <= wr_left
          /\ writing.beats = wr_burst - wr_count
          /\ moved = L - wr_left + wr_count
          /\ writing.addr = cur.dst + moved
          /\ wr_addr = cur.dst + moved - wr_count
      BY <1>3, DescriptorHolds DEF WPhase, IInv, WriterAt, Coupled
    <2>1. CASE ~Beat(wready)
      <3>1. moved' = moved /\ writing' = writing /\ wr_state' = wr_state /\ wr_count' = wr_count
        BY <1>3, <2>0, <2>1, BeatMoves DEF WPhase, Transfer, MemoryStep, Aw, IInv, Coupled
      <3> QED
        BY <2>0, <3>1 DEF WriterAt
    <2>2. CASE Beat(wready) /\ ~WLast
      <3>1. /\ moved' = moved + 1 /\ wr_state' = wr_state /\ wr_count' = wr_count + 1
            /\ writing' = [addr |-> (writing.addr + 1) % Space, beats |-> writing.beats - 1]
        BY <1>3, <2>0, <2>2, BeatMoves DEF WPhase, Transfer, MemoryStep, Aw, Rest
      <3>2. wr_count + 1 < wr_burst
        BY <2>0, <2>2 DEF WLast
      <3>3. writing.addr + 1 \in Nat /\ writing.addr + 1 < Space /\ writing.addr + 1 = cur.dst + (moved + 1)
        BY <1>0, <2>0, <3>2, SpaceAssumption
      <3>4. (writing.addr + 1) % Space = cur.dst + (moved + 1)
        BY <3>3, NoWrap
      <3>5. /\ wr_count + 1 \in Nat
            /\ writing.beats - 1 = wr_burst - (wr_count + 1)
            /\ moved + 1 = L - wr_left + (wr_count + 1)
            /\ wr_addr = cur.dst + (moved + 1) - (wr_count + 1)
        BY <1>0, <2>0
      <3> QED
        BY <2>0, <3>1, <3>2, <3>4, <3>5 DEF WriterAt
    <2>3. CASE Beat(wready) /\ WLast
      <3>1. moved' = moved + 1 /\ wr_state' = "B_PHASE" /\ wr_count' = wr_count + 1
        BY <1>3, <2>3, BeatMoves DEF WPhase
      <3>2. /\ wr_count + 1 \in Nat /\ wr_burst \in 1 .. wr_left
            /\ moved + 1 = L - wr_left + wr_burst
            /\ wr_addr = cur.dst + (moved + 1) - wr_burst
        BY <1>0, <2>0, <2>3 DEF WLast
      <3> QED
        BY <2>0, <3>1, <3>2 DEF WriterAt
    <2> QED
      BY <2>1, <2>2, <2>3
  <1>4. CASE BPhase(Resp(wready))
    <2>0. /\ wr_state = "B_PHASE" /\ cur' = cur /\ moved' = moved
          /\ wr_burst' = wr_burst /\ wr_count' = wr_count
          /\ wr_left \in Nat /\ wr_burst \in Nat /\ wr_count \in Nat
          /\ wr_burst \in 1 .. wr_left
          /\ moved = L - wr_left + wr_burst
          /\ wr_addr = cur.dst + moved - wr_burst
      BY <1>4, DescriptorHolds, BeatMoves DEF BPhase, IInv, WriterAt, Coupled, Beat
    <2>1. CASE Resp(wready)
      <3>1. /\ wr_left' = wr_left - wr_burst /\ wr_addr' = (wr_addr + wr_burst) % Space
            /\ wr_state' = IF wr_left = wr_burst THEN "DONE" ELSE "AW_PHASE"
        BY <1>4, <2>1 DEF BPhase
      <3>2. wr_left - wr_burst \in Nat /\ wr_left - wr_burst = L - moved
        BY <1>0, <2>0
      <3>3. wr_left # wr_burst => moved < L /\ (wr_addr + wr_burst) % Space = cur.dst + moved
        <4> SUFFICES ASSUME wr_left # wr_burst
                     PROVE  moved < L /\ (wr_addr + wr_burst) % Space = cur.dst + moved
          OBVIOUS
        <4>1. /\ moved < L /\ wr_addr + wr_burst \in Nat /\ wr_addr + wr_burst < Space
              /\ wr_addr + wr_burst = cur.dst + moved
          BY <1>0, <2>0, SpaceAssumption
        <4> QED
          BY <4>1, NoWrap
      <3> QED
        BY <2>0, <3>1, <3>2, <3>3 DEF WriterAt
    <2>2. CASE ~Resp(wready)
      BY <1>4, <2>0, <2>2 DEF BPhase, WriterAt
    <2> QED
      BY <2>1, <2>2
  <1>5. CASE WriterDone
    BY <1>5 DEF WriterDone, WriterAt, IInv
  <1> QED
    BY <1>1, <1>2, <1>3, <1>4, <1>5 DEF Transfer, WriterStep

(* An engine that is not at work, and not started, is in IDLE a cycle later.   *)
LEMMA EnginesRest ==
  ASSUME IInv, NEW rready \in BOOLEAN, NEW wready \in BOOLEAN, Transfer(rready, wready), ~start
  PROVE  /\ ~ReaderBusy => rd_state' = "IDLE"
         /\ ~WriterBusy => wr_state' = "IDLE"
  <1>1. ~ReaderBusy => rd_state' = "IDLE"
    BY DEF Transfer, ReaderStep, ReaderIdle, ArPhase, RPhase, ReaderDone, ReaderBusy, IInv, ReaderAt, reader
  <1>2. ~WriterBusy => wr_state' = "IDLE"
    BY DEF Transfer, WriterStep, WriterIdle, AwPhase, WPhase, BPhase, WriterDone, WriterBusy, IInv, WriterAt
  <1> QED
    BY <1>1, <1>2

LEMMA ControllerKeeps ==
  ASSUME IInv, Controls, DescWrite,
         NEW rready \in BOOLEAN, NEW wready \in BOOLEAN, Transfer(rready, wready)
  PROVE  Controlled'
  <1>1. state' \in States /\ cur' \in Descriptors
    BY DescriptorHolds DEF IInv, Controlled, Controls, Idle, LoadDesc, StartXfer, WaitXfer, DescDone, AllDone,
                           States
  <1>2. table' \in [0 .. MaxDesc - 1 -> Descriptors]
    BY DEF IInv, Controlled, DescWrite
  <1>3. moved' \in 0 .. cur'.length
    <2>0. \A d \in Descriptors : 0 \in 0 .. d.length
      BY DescriptorsFit
    <2>1. CASE state = "LOAD_DESC"
      BY <1>1, <2>0, <2>1, BeatMoves
    <2>2. CASE state # "LOAD_DESC"
      <3>1. moved \in 0 .. cur.length /\ cur.length \in Nat /\ (moved < cur.length => moved + 1 \in 0 .. cur.length)
        BY DescriptorsFit DEF IInv, Controlled
      <3> QED
        BY <2>2, <3>1, DescriptorHolds, BeatMoves
    <2> QED
      BY <2>1, <2>2
  <1>4. idx' \in 0 .. MaxDesc - 1 /\ num' \in Nat /\ (state' # "IDLE" => num' \in 1 .. MaxDesc /\ idx' < num')
    <2>1. CASE Idle
      <3>1. \A n \in Counts : n \in 1 .. MaxDesc /\ 0 < n /\ n \in Nat /\ 0 \in 0 .. MaxDesc - 1
        BY CountsAssumption
      <3> QED
        BY <2>1, <3>1 DEF Idle, IInv, Controlled
    <2>2. CASE DescDone
      <3>1. state = "DESC_DONE" /\ num' = num /\ num \in 1 .. MaxDesc /\ idx \in 0 .. MaxDesc - 1 /\ idx < num /\ MaxDesc \in Nat
        BY <2>2, CountsAssumption DEF DescDone, IInv, Controlled
      <3>2. ~IsLast => (idx + 1) % MaxDesc \in 0 .. MaxDesc - 1 /\ (idx + 1) % MaxDesc < num
        BY <3>1 DEF IsLast
      <3> QED
        BY <2>2, <3>1, <3>2 DEF DescDone
    <2> QED
      BY <2>1, <2>2 DEF IInv, Controlled, Controls, LoadDesc, StartXfer, WaitXfer, AllDone
  <1> QED
    BY <1>1, <1>2, <1>3, <1>4 DEF Controlled

LEMMA CouplingKeeps ==
  ASSUME IInv, Controls, NEW rready \in BOOLEAN, NEW wready \in BOOLEAN, Transfer(rready, wready)
  PROVE  Coupled'
  <1>1. state' \in {"LOAD_DESC", "START_XFER"} => rd_state' = "IDLE" /\ wr_state' = "IDLE"
    <2> SUFFICES ASSUME state' \in {"LOAD_DESC", "START_XFER"} PROVE rd_state' = "IDLE" /\ wr_state' = "IDLE"
      OBVIOUS
    <2>1. ~start /\ ~ReaderBusy /\ ~WriterBusy
      BY DEF Controls, Idle, Quiet, LoadDesc, StartXfer, WaitXfer, DescDone, AllDone, IInv, Coupled, start,
             ReaderBusy, WriterBusy
    <2> QED
      BY <2>1, EnginesRest
  <1>2. state' = "START_XFER" => moved' = 0
    BY DescriptorHolds, BeatMoves
  <1>3. state' \in {"DESC_DONE", "ALL_DONE"} => ~ReaderBusy' /\ ~WriterBusy'
    <2> SUFFICES ASSUME state' \in {"DESC_DONE", "ALL_DONE"} PROVE ~ReaderBusy' /\ ~WriterBusy'
      OBVIOUS
    <2>1. ~start /\ ~ReaderBusy /\ ~WriterBusy
      BY DEF Controls, Idle, LoadDesc, StartXfer, WaitXfer, DescDone, AllDone, IInv, Coupled, start
    <2> QED
      BY <2>1, EnginesRest DEF ReaderBusy, WriterBusy
  <1>4. ~WriterBusy' /\ state' # "START_XFER" => moved' = cur'.length
    <2> SUFFICES ASSUME ~WriterBusy', state' # "START_XFER" PROVE moved' = cur'.length
      OBVIOUS
    <2>1. state # "START_XFER"
      BY DEF start, IInv, Coupled, Transfer, WriterStep, WriterIdle, AwPhase, WPhase, BPhase, WriterDone, WriterBusy
    <2>2. state # "LOAD_DESC" /\ cur' = cur
      BY DescriptorHolds
    <2>3. CASE ~WriterBusy
      BY <2>1, <2>2, <2>3, BeatMoves DEF IInv, Coupled, Beat, WriterBusy
    <2>4. CASE WriterBusy
      <3>1. wr_state = "B_PHASE" /\ wr_left = wr_burst
        BY <2>4 DEF WriterBusy, Transfer, WriterStep, WriterIdle, AwPhase, WPhase, BPhase, WriterDone
      <3>2. cur.length \in Nat /\ moved = cur.length - wr_left + wr_burst /\ wr_left \in Nat
        BY <3>1, DescriptorsFit DEF IInv, WriterAt, Controlled
      <3>3. moved = cur.length
        BY <3>1, <3>2
      <3> QED
        BY <2>2, <3>1, <3>3, BeatMoves DEF Beat
    <2> QED
      BY <2>3, <2>4
  <1> QED
    BY <1>1, <1>2, <1>3, <1>4 DEF Coupled

-----------------------------------------------------------------------------
THEOREM InitEstablishes == Init => IInv
  <1> SUFFICES ASSUME Init PROVE IInv
    OBVIOUS
  <1>1. \A d \in Descriptors : d.length \in 0 .. d.length
    BY DescriptorsFit
  <1>2. 0 \in 0 .. MaxDesc - 1
    BY CountsAssumption
  <1>3. Controlled
    BY <1>1, <1>2 DEF Init, Controlled, States
  <1>4. Coupled /\ ReaderAt /\ WriterAt
    BY DEF Init, ReaderInit, WriterInit, Coupled, ReaderAt, WriterAt, ReaderBusy, WriterBusy
  <1> QED
    BY <1>3, <1>4 DEF IInv

THEOREM StepPreserves == IInv /\ [Next]_vars => IInv'
  <1> SUFFICES ASSUME IInv, [Next]_vars PROVE IInv'
    OBVIOUS
  <1>1. CASE Next
    <2>1. PICK rready \in BOOLEAN, wready \in BOOLEAN : Transfer(rready, wready)
      BY <1>1, NextIsCycle
    <2>2. Controls /\ DescWrite
      BY <1>1, NextIsCycle
    <2> QED
      BY <2>1, <2>2, ControllerKeeps, CouplingKeeps, ReaderKeeps, WriterKeeps DEF IInv
  <1>2. CASE UNCHANGED vars
    BY <1>2 DEF vars, controller, reader, writer, IInv, Controlled, Coupled, ReaderAt, WriterAt,
                ReaderBusy, WriterBusy
  <1> QED
    BY <1>1, <1>2

THEOREM Invariance == Spec => []IInv
  BY InitEstablishes, StepPreserves, PTL DEF Spec

(* The writer's own count of the beats and the burst it announced end          *)
(* together, for every maximal burst, transfer length and table.               *)
THEOREM LastBeats == Spec => []LastBeatAgrees
  <1>1. IInv => LastBeatAgrees
    BY DEF IInv, WriterAt, LastBeatAgrees, WLast
  <1> QED
    BY <1>1, Invariance, PTL

-----------------------------------------------------------------------------
(* The refinement: a cycle with a beat is a word copied, one without is what   *)
(* the controller does, or nothing.                                            *)
LEMMA CycleCopies ==
  ASSUME IInv, Controls, DescWrite,
         NEW rready \in BOOLEAN, NEW wready \in BOOLEAN, Transfer(rready, wready)
  PROVE  Copy!Next
  <1>0. Copy!Program
    BY DEF DescWrite, Copy!Program
  <1>1. CASE Beat(wready)
    <2>1. /\ state \in {"IDLE", "WAIT_XFER"} /\ moved < cur.length /\ moved' = moved + 1
          /\ mem' = [mem EXCEPT ![cur.dst + moved] = mem[cur.src + moved]]
      BY <1>1, BeatMoves
    <2>2. ReaderBusy /\ WriterBusy /\ ~Quiet
      BY <1>1 DEF Beat, ReaderBusy, WriterBusy, Quiet
    <2>3. /\ UNCHANGED <<idx, num, cur>>
          /\ state' = state \/ state' = "IDLE"
      BY <2>1, <2>2 DEF Controls, Idle, LoadDesc, StartXfer, WaitXfer, DescDone, AllDone
    <2>4. Copy!Copy
      BY <2>1, <2>3 DEF Copy!Copy, Status
    <2> QED
      BY <1>0, <2>4 DEF Copy!Next
  <1>2. CASE ~Beat(wready)
    <2>0. mem' = mem /\ moved' = IF state = "LOAD_DESC" THEN 0 ELSE moved
      BY <1>2, BeatMoves
    <2>1. CASE Idle
      <3>1. CASE state' = "IDLE"
        BY <2>0, <2>1, <3>1, <1>0 DEF Idle, Status, Copy!Next, Copy!Rest
      <3>2. CASE state' # "IDLE"
        <4>1. moved = cur.length
          BY <2>1, <3>2 DEF Idle, Quiet, IInv, Coupled
        <4> QED
          BY <2>0, <2>1, <3>2, <4>1, <1>0 DEF Idle, Status, Copy!Next, Copy!Start
      <3> QED
        BY <3>1, <3>2
    <2>2. CASE LoadDesc
      BY <2>0, <2>2, <1>0 DEF LoadDesc, Status, Copy!Next, Copy!Load
    <2>3. CASE StartXfer
      BY <2>0, <2>3, <1>0 DEF StartXfer, Status, Copy!Next, Copy!Rest
    <2>4. CASE WaitXfer
      <3>1. CASE state' = "IDLE"
        BY <2>0, <2>4, <3>1, <1>0 DEF WaitXfer, Status, Copy!Next, Copy!Abort
      <3>2. CASE state' = "WAIT_XFER"
        BY <2>0, <2>4, <3>2, <1>0 DEF WaitXfer, Status, Copy!Next, Copy!Rest
      <3>3. CASE state' = "DESC_DONE"
        <4>1. moved = cur.length
          BY <2>4, <3>3 DEF WaitXfer, IInv, Coupled
        <4> QED
          BY <2>0, <2>4, <3>3, <4>1, <1>0 DEF WaitXfer, Status, Copy!Next, Copy!Report
      <3> QED
        BY <2>4, <3>1, <3>2, <3>3 DEF WaitXfer
    <2>5. CASE DescDone
      <3>1. CASE IsLast
        BY <2>0, <2>5, <3>1, <1>0 DEF DescDone, IsLast, Status, Copy!Next, Copy!Proceed
      <3>2. CASE ~IsLast
        <4>1. state = "DESC_DONE" /\ num \in 1 .. MaxDesc /\ idx \in 0 .. MaxDesc - 1 /\ idx < num /\ MaxDesc \in Nat
          BY <2>5, CountsAssumption DEF DescDone, IInv, Controlled
        <4>2. idx + 1 \in Nat /\ idx + 1 < MaxDesc
          BY <3>2, <4>1 DEF IsLast
        <4>3. (idx + 1) % MaxDesc = idx + 1
          BY <4>1, <4>2
        <4> QED
          BY <2>0, <2>5, <3>2, <4>3, <1>0 DEF DescDone, IsLast, Status, Copy!Next, Copy!Proceed
      <3> QED
        BY <3>1, <3>2
    <2>6. CASE AllDone
      BY <2>0, <2>6, <1>0 DEF AllDone, Status, Copy!Next, Copy!Finish
    <2> QED
      BY <2>1, <2>2, <2>3, <2>4, <2>5, <2>6 DEF Controls
  <1> QED
    BY <1>1, <1>2

(* Whatever the lengths, the bursts, the wait states, and the moments at which *)
(* software writes the table or aborts: what is copied is what the descriptors *)
(* say, word by word and in order, and no descriptor is reported before.       *)
THEOREM CopiesAsPromised == Spec => ImplementsCopy
  <1>1. Init => Copy!Init
    BY DEF Init, Copy!Init, Status, Addresses
  <1>2. IInv /\ [Next]_vars => [Copy!Next]_(Copy!vars)
    <2> SUFFICES ASSUME IInv, [Next]_vars PROVE Copy!Next \/ UNCHANGED Copy!vars
      OBVIOUS
    <2>1. CASE Next
      <3>1. PICK rready \in BOOLEAN, wready \in BOOLEAN : Transfer(rready, wready)
        BY <2>1, NextIsCycle
      <3> QED
        BY <2>1, <3>1, NextIsCycle, CycleCopies
    <2>2. CASE UNCHANGED vars
      BY <2>2 DEF vars, controller, Copy!vars, Status
    <2> QED
      BY <2>1, <2>2
  <1> QED
    BY <1>1, <1>2, Invariance, PTL DEF Spec, ImplementsCopy, Copy!Spec
=============================================================================
