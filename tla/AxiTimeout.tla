----------------------------- MODULE AxiTimeout -----------------------------
(* One path of a watchdog (axi/timeout.py, classes AXI4LiteTimeout and         *)
(* AXI4Timeout), between a master with one transaction outstanding and a slave.*)
(* All are the same machine: in the AXI4-Lite one a write's data travels with  *)
(* its address, as the slaves of this library accept them; the AXI4 ones keep  *)
(* the transaction's ID, the data of a write follow its address, and a read    *)
(* has several beats, of which the watchdog gives one.  A step is a cycle.     *)
EXTENDS Integers

CONSTANTS Paths,         \* the paths to look at
          Beats,         \* data beats of an AXI4 burst
          Timeout,       \* clock cycles until the watchdog answers
          MaxLatency,    \* the slave answers within as many cycles, or never
          MasterStalls   \* whether the master may delay a response

ASSUME PathsAssumption   == Paths \subseteq {"lite", "write", "read"}
ASSUME BeatsAssumption   == Beats \in Nat \ {0}
ASSUME TimeoutAssumption == Timeout \in Nat \ {0}
ASSUME LatencyAssumption == MaxLatency \in Nat /\ Beats <= MaxLatency
ASSUME MasterAssumption  == MasterStalls \in BOOLEAN

Ids  == 0 .. 2    \* names of transactions, their AXI IDs, reused in turn
None == 3

VARIABLES path,       \* which one this is
          fsm,        \* WR_IDLE, WR_MONITOR or WR_TIMEOUT_RESP
          counter,    \* wr_counter
          timed_out,  \* wr_timed_out
          saved_id,   \* wr_saved_id
          mreq,       \* the master's AWVALID
          mready,     \* the master's BREADY
          id,         \* the name of its next transaction
          want,       \* the transaction it awaits the response of
          data,       \* the data beats it still has to send
          sready,     \* the slave's AWREADY
          owed,       \* the transaction the slave is working on
          work,       \* for how many cycles it has been
          left,       \* the beats it has not presented yet
          sresp,      \* the transaction whose response the slave presents
          age         \* history: cycles since the awaited request was accepted

master   == <<mreq, mready, id, want, data, age>>
slave    == <<sready, owed, work, left, sresp>>
watchdog == <<fsm, counter, timed_out, saved_id>>
vars     == <<path, master, slave, watchdog>>

-----------------------------------------------------------------------------
(* The channels through the watchdog: after a timeout the request channel is   *)
(* shut, and the response is the watchdog's own.                               *)
Request      == mreq /\ sready /\ ~timed_out
BusRespValid == timed_out \/ sresp # None
Response     == BusRespValid /\ mready
SubResponse  == sresp # None /\ mready /\ ~timed_out
BusId        == IF timed_out THEN saved_id ELSE sresp

\* The B response, or the R beat with RLAST.
BusLast == timed_out \/ left = 0
Completion == Response /\ BusLast

(* The watchdog's state machine.                                               *)
NoReset ==    \* mutant of WrIdle: the counter goes on from where it was
  /\ fsm = "WR_IDLE"
  /\ timed_out' = FALSE
  /\ IF Request
     THEN saved_id' = id /\ fsm' = "WR_MONITOR"
     ELSE UNCHANGED <<saved_id, fsm>>
  /\ UNCHANGED counter

WrIdle ==
  /\ fsm = "WR_IDLE"
  /\ timed_out' = FALSE
  /\ IF Request
     THEN counter' = 0 /\ saved_id' = id /\ fsm' = "WR_MONITOR"
     ELSE UNCHANGED <<counter, saved_id, fsm>>

OneLate == counter > Timeout - 1     \* mutant of Expired

Expired == counter >= Timeout - 1

\* The second assignment to the next state wins: expiry over completion.
WrMonitor ==
  /\ fsm = "WR_MONITOR"
  /\ counter' = counter + 1
  /\ timed_out' = Expired
  /\ fsm' = IF Expired THEN "WR_TIMEOUT_RESP"
            ELSE IF Completion THEN "WR_IDLE" ELSE fsm
  /\ UNCHANGED saved_id

WaitsForRequest ==    \* mutant of WrTimeoutResp
  /\ fsm = "WR_TIMEOUT_RESP"
  /\ IF Request THEN timed_out' = FALSE /\ fsm' = "WR_IDLE"
     ELSE UNCHANGED <<timed_out, fsm>>
  /\ UNCHANGED <<counter, saved_id>>

WrTimeoutResp ==
  /\ fsm = "WR_TIMEOUT_RESP"
  /\ IF mready THEN timed_out' = FALSE /\ fsm' = "WR_IDLE"
     ELSE UNCHANGED <<timed_out, fsm>>
  /\ UNCHANGED <<counter, saved_id>>

-----------------------------------------------------------------------------
(* A master that follows the protocol: VALID stays until READY, and a request  *)
(* waits for the previous one's response.                                      *)
Master ==
  /\ IF Request THEN want' = id /\ id' = (id + 1) % 3
     ELSE want' = (IF Completion THEN None ELSE want) /\ UNCHANGED id
  /\ mreq' \in IF Request THEN {FALSE}
               ELSE IF mreq THEN {TRUE}
               ELSE IF want' = None THEN BOOLEAN ELSE {FALSE}
  /\ mready' \in IF MasterStalls THEN BOOLEAN ELSE {TRUE}
  /\ age' = IF want = None \/ Completion THEN 0
            ELSE IF age <= Timeout THEN age + 1 ELSE age

\* The W channel of an AXI4 write, which is shut with the request channel.
Data(taken) ==
  /\ taken => data > 0 /\ ~timed_out
  /\ data' = IF Request /\ path = "write" THEN Beats ELSE IF taken THEN data - 1 ELSE data

(* A slave that serves one transaction at a time, and answers within           *)
(* MaxLatency cycles or drops the transaction, when it has all of its data.    *)
Begin ==
  /\ owed' = id /\ work' = 0
  /\ left' = IF path = "read" THEN Beats ELSE 1
  /\ UNCHANGED sresp

Present ==
  /\ data = 0
  /\ sresp' = owed /\ left' = left - 1
  /\ owed' = IF left = 1 THEN None ELSE owed
  /\ work' = work + 1

Delay(taken) ==
  /\ taken \/ work + left + data <= MaxLatency
  /\ work' = work + 1 /\ sresp' = None
  /\ UNCHANGED <<owed, left>>

Drop ==
  /\ data = 0 /\ work + left = MaxLatency + 1
  /\ owed' = None /\ sresp' = None /\ left' = 0
  /\ UNCHANGED work

Slave(taken) ==
  /\ \/ Request /\ Begin
     \/ owed # None /\ (sresp = None \/ SubResponse) /\ (Present \/ Delay(taken) \/ Drop)
     \/ owed # None /\ sresp # None /\ ~SubResponse /\ UNCHANGED <<owed, work, left, sresp>>
     \/ ~Request /\ owed = None /\ sresp' = (IF SubResponse THEN None ELSE sresp)
                 /\ UNCHANGED <<owed, work, left>>
  /\ sready' \in IF owed' = None /\ sresp' = None THEN BOOLEAN ELSE {FALSE}

Init ==
  /\ path \in Paths
  /\ fsm = "WR_IDLE" /\ counter = 0 /\ timed_out = FALSE /\ saved_id = 0
  /\ mreq = FALSE /\ mready = TRUE /\ id = 0 /\ want = None /\ data = 0 /\ age = 0
  /\ sready = FALSE /\ owed = None /\ work = 0 /\ left = 0 /\ sresp = None

Clock(Watchdog) == /\ UNCHANGED path
                   /\ Watchdog /\ Master
                   /\ \E taken \in BOOLEAN : Data(taken) /\ Slave(taken)

Next == Clock(WrIdle) \/ Clock(WrMonitor) \/ Clock(WrTimeoutResp)

(* The clock runs; the slave is ready for a request again and again, since the *)
(* watchdog counts from the moment at which a request is accepted, and so is   *)
(* the master for its response.                                                *)
SlaveReady  == Next /\ sready'
MasterReady == Next /\ mready'

Fairness == /\ WF_vars(Next)
            /\ SF_vars(MasterReady)
            /\ SF_vars(SlaveReady)

Spec == Init /\ [][Next]_vars /\ Fairness

-----------------------------------------------------------------------------
(* "Generates a SLVERR response if a transaction doesn't complete within the   *)
(* timeout period": a response on the bus, the slave's or the watchdog's, is   *)
(* for the transaction that the master awaits, never for an earlier one, nor   *)
(* for a burst that has ended; and with IDs it has that transaction's ID.      *)
ResponseIsAwaited ==
  BusRespValid => want # None /\ ((timed_out /\ path = "lite") \/ BusId = want)

(* "Transparent pass-through": the watchdog takes over only a transaction that *)
(* the slave has given up, so no response of the slave is shut out or late,    *)
(* and no data that it would take.                                             *)
TakesOverDropped == timed_out => owed = None /\ sresp = None /\ data = 0

(* An accepted transaction has its response in Timeout cycles.                 *)
BoundedWait == want # None => age <= Timeout

(* A transaction that the master starts gets a response, although the slave    *)
(* may drop it.                                                                *)
Completes == mreq ~> (want # None /\ Completion)
=============================================================================
