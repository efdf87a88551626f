--------------------------- MODULE AxiLiteArbiter ---------------------------
(* The AXI4-Lite and the AXI4 arbiter (axi/arbiter.py, classes AXI4LiteArbiter *)
(* and AXI4Arbiter) at work: N masters share one slave, which serves one write *)
(* and one read at a time and is ready whenever it is free.  An AXI4-Lite      *)
(* write's data travels with its address, an AXI4 write's follows it.  Masters *)
(* accept responses at once.  A step is a clock cycle.                         *)
EXTENDS AxiRouting

CONSTANT Kinds   \* of TRUE, for AXI4, and FALSE, for AXI4-Lite

ASSUME KindsAssumption == Kinds \subseteq BOOLEAN

Channels == {"write", "read"}

VARIABLES full,       \* whether the bus is AXI4
          grant,      \* the master connected to the slave
          locked,     \* wr_locked and rd_locked, by channel
          master,     \* what each master does on each channel
          wdata,      \* whether each master has write data to send
          slave,      \* what the slave does on each channel
          bypassed    \* history: grants given to others while a master waits

vars == <<full, grant, locked, master, wdata, slave, bypassed>>

-----------------------------------------------------------------------------
(* Combinational signals.                                                      *)

\* awvalid | arvalid
Requests(i) == \E ch \in Channels : master[i][ch] = "valid"

\* The handshakes between the granted master and the slave.  ending: whether
\* the data beat that the master offers is its last.
AddressShake(ch)  == master[grant][ch] = "valid" /\ slave[ch] = "free"
LastShake(ending) == full /\ slave["write"] = "data" /\ wdata[grant] /\ ending
ResponseShake(ch) == slave[ch] = "response"

(* The arbiter.                                                                *)
WritersOnly == {j \in Masters : master[j]["write"] = "valid"}  \* mutant of Requesting

Requesting == {j \in Masters : Requests(j)}
AnyLocked  == Locked(locked)

Arbitrate == grant' = NextGrant(grant, locked, Requesting)

Lock(ending) ==
  locked' = [write |-> IF full THEN FullLock(locked["write"], AddressShake("write"), LastShake(ending))
                       ELSE LiteLock(locked["write"], AddressShake("write"), ResponseShake("write")),
             read  |-> IF full THEN FullLock(locked["read"], AddressShake("read"), ResponseShake("read"))
                       ELSE LiteLock(locked["read"], AddressShake("read"), ResponseShake("read"))]

-----------------------------------------------------------------------------
(* A master keeps VALID until READY, awaits the response, and takes one that   *)
(* it does not await for what it is: nothing.                                  *)
NextMaster(i, ch, asks) ==
  CASE master[i][ch] = "idle"  -> IF asks THEN "valid" ELSE "idle"
    [] master[i][ch] = "valid" -> IF grant = i /\ AddressShake(ch) THEN "waits" ELSE "valid"
    [] master[i][ch] = "waits" -> IF grant = i /\ ResponseShake(ch) THEN "idle" ELSE "waits"

MasterStep(asking) ==
  master' = [i \in Masters |-> [ch \in Channels |-> NextMaster(i, ch, <<i, ch>> \in asking)]]

\* Write data is there with its address, and goes with it on AXI4-Lite.
Send(ending) ==
  wdata' = [i \in Masters |->
              \/ master[i]["write"] # "valid" /\ master'[i]["write"] = "valid"
              \/ /\ wdata[i]
                 /\ ~(grant = i /\ (LastShake(ending) \/ (~full /\ AddressShake("write"))))]

NextSlave(ch, ending, answers) ==
  CASE slave[ch] = "free"     -> IF ~AddressShake(ch) THEN "free"
                                 ELSE IF full /\ ch = "write" THEN "data" ELSE "busy"
    [] slave[ch] = "data"     -> IF LastShake(ending) THEN "busy" ELSE "data"
    [] slave[ch] = "busy"     -> IF answers THEN "response" ELSE "busy"
    [] slave[ch] = "response" -> "free"

SlaveStep(ending, answering) ==
  slave' = [ch \in Channels |-> NextSlave(ch, ending, ch \in answering)]


\* i waits while it requests the slave and is not granted.  Saturates at N.
CountBypass ==
  bypassed' = [i \in Masters |->
                 IF ~Requests(i) \/ grant = i THEN 0
                 ELSE IF grant' \in {grant, i} \/ bypassed[i] = N THEN bypassed[i]
                 ELSE bypassed[i] + 1]

Init ==
  /\ full \in Kinds
  /\ grant = 0
  /\ locked = [ch \in Channels |-> FALSE]
  /\ master = [i \in Masters |-> [ch \in Channels |-> "idle"]]
  /\ wdata = [i \in Masters |-> FALSE]
  /\ slave = [ch \in Channels |-> "free"]
  /\ bypassed = [i \in Masters |-> 0]

Next ==
  \E ending \in IF full THEN BOOLEAN ELSE {FALSE} :
    /\ UNCHANGED full
    /\ Arbitrate
    /\ Lock(ending)
    /\ \E answering \in SUBSET {ch \in Channels : slave[ch] = "busy"} : SlaveStep(ending, answering)
    /\ \E asking \in SUBSET {r \in Masters \X Channels : master[r[1]][r[2]] = "idle"} :
         MasterStep(asking)
    /\ Send(ending)
    /\ CountBypass

(* The clock runs, and the slave answers eventually.                           *)
Fairness == WF_vars(Next) /\ \A ch \in Channels : []<>(slave[ch] # "busy")

Spec == Init /\ [][Next]_vars /\ Fairness

-----------------------------------------------------------------------------
(* The read lock, and on AXI4-Lite the write lock too, is held from the cycle  *)
(* after the address handshake to the response, for as long as the slave has   *)
(* the transaction.  On AXI4 the write lock is held for the data only: it is   *)
(* cleared with the last beat, while the slave still owes the response.        *)
LockTracksSlave ==
  /\ locked["read"] <=> slave["read"] # "free"
  /\ ~full => (locked["write"] <=> slave["write"] # "free")
  /\ full  => (locked["write"] <=> slave["write"] = "data")

(* Round robin: a master that waits sees the grant go to each other master at  *)
(* most once.                                                                  *)
BoundedBypass == \A i \in Masters : bypassed[i] <= IF N = 1 THEN 0 ELSE N - 2

(* "Round-robin arbitration": a master that requests the slave is granted it,  *)
(* unless another one overlaps its reads and writes for ever, so that one of   *)
(* the two locks is always held.                                               *)
Granted == []<>~AnyLocked => \A i \in Masters : Requests(i) ~> grant = i

(* "bvalid must not be asserted without a prior AW handshake": a response      *)
(* reaches a master that awaits one.                                           *)
ResponseToRequester ==
  \A ch \in Channels : slave[ch] = "response" => master[grant][ch] = "waits"
=============================================================================
