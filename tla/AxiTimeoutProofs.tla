-------------------------- MODULE AxiTimeoutProofs --------------------------
(* The safety of the watchdog, for every timeout, latency and burst length: a   *)
(* slave that answers in time or drops the transaction with all of its data is *)
(* never cut short, and the watchdog answers for it only when it has.           *)
EXTENDS AxiTimeout, TLAPS

(* What the three properties rest on: the transaction of the master, of the     *)
(* watchdog and of the slave are one, and all three count the same cycles.      *)
Types ==
  /\ path \in Paths
  /\ id \in Ids /\ want \in Ids \union {None}
  /\ owed \in Ids \union {None} /\ sresp \in Ids \union {None}
  /\ counter \in Nat /\ age \in Nat /\ work \in Nat /\ left \in Nat /\ data \in Nat
  /\ fsm \in {"WR_IDLE", "WR_MONITOR", "WR_TIMEOUT_RESP"}
  /\ timed_out \in BOOLEAN /\ (timed_out <=> fsm = "WR_TIMEOUT_RESP")
  /\ mready = TRUE /\ mreq \in BOOLEAN /\ sready \in BOOLEAN

IdleInv == fsm = "WR_IDLE" => want = None /\ owed = None /\ sresp = None

MonitorInv ==
  fsm = "WR_MONITOR" =>
    want \in Ids /\ saved_id = want /\ age = counter /\ counter < Timeout

TimeoutInv ==
  fsm = "WR_TIMEOUT_RESP" =>
    want \in Ids /\ saved_id = want /\ age = Timeout /\ owed = None /\ sresp = None

SlaveInv ==
  /\ owed = None => data = 0 /\ left = 0
  /\ owed # None => /\ owed = want /\ work = counter
                    /\ left >= 1 /\ work + left + data <= MaxLatency + 1
  /\ sresp # None => sresp = want /\ counter <= MaxLatency + 1 /\ data = 0
  /\ mreq => want = None
  /\ sready => owed = None /\ sresp = None

IInv == Types /\ IdleInv /\ MonitorInv /\ TimeoutInv /\ SlaveInv

\* The slave answers before the watchdog, and the master takes what comes.
InTime == MaxLatency + 2 < Timeout /\ MasterStalls = FALSE

-----------------------------------------------------------------------------
(* The reset of the watchdog, the master and the slave.                        *)
LEMMA InitIInv == ASSUME InTime PROVE Init => IInv
<1> SUFFICES ASSUME Init PROVE IInv  OBVIOUS
<1>1. Types
  <2>1. timed_out = FALSE /\ mreq = FALSE /\ mready = TRUE /\ sready = FALSE
    BY DEF Init
  <2>2. fsm = "WR_IDLE"  BY DEF Init
  <2>3. timed_out \in BOOLEAN /\ (timed_out <=> fsm = "WR_TIMEOUT_RESP")  BY <2>1, <2>2
  <2>4. /\ path \in Paths /\ id \in Ids /\ want \in Ids \union {None}
        /\ owed \in Ids \union {None} /\ sresp \in Ids \union {None}
        /\ counter \in Nat /\ age \in Nat /\ work \in Nat /\ left \in Nat /\ data \in Nat
    BY DEF Init, Ids
  <2> QED  BY <2>1, <2>2, <2>3, <2>4 DEF Types
<1>2. IdleInv /\ MonitorInv /\ TimeoutInv  BY DEF Init, IdleInv, MonitorInv, TimeoutInv
<1>3. SlaveInv  BY DEF Init, SlaveInv, None
<1> QED  BY <1>1, <1>2, <1>3 DEF IInv

(* A request is accepted by an idle watchdog only.                             *)
LEMMA RequestWhenIdle == ASSUME IInv, Request PROVE fsm = "WR_IDLE"
BY DEF IInv, Types, IdleInv, MonitorInv, TimeoutInv, SlaveInv, Request, Ids, None

(* At the expiry the slave has nothing to do with the transaction any more.     *)
LEMMA ExpiryFindsNothing ==
  ASSUME InTime, IInv, fsm = "WR_MONITOR", Expired
  PROVE  owed = None /\ sresp = None
BY TimeoutAssumption, LatencyAssumption
DEF InTime, IInv, Types, MonitorInv, SlaveInv, Expired, Ids, None

(* Every cycle keeps the invariant, whatever state the watchdog is in.         *)
LEMMA IdleStep ==
  ASSUME InTime, IInv, Clock(WrIdle) PROVE IInv'
<1>1. fsm = "WR_IDLE" /\ timed_out = FALSE /\ want = None /\ owed = None /\ sresp = None
        /\ data = 0 /\ left = 0
  BY DEF Clock, WrIdle, IInv, Types, IdleInv, SlaveInv
<1>2. CASE Request
  <2>1. fsm' = "WR_MONITOR" /\ counter' = 0 /\ saved_id' = id /\ timed_out' = FALSE
    BY <1>2 DEF Clock, WrIdle
  <2>2. want' = id /\ age' = 0 /\ mready' = TRUE /\ id' \in Ids /\ mreq' = FALSE /\ path' = path
    BY <1>1, <1>2 DEF Clock, Master, InTime, IInv, Types, Ids
  <2>3. data' \in Nat /\ data' <= Beats
    <3>1. PICK taken \in BOOLEAN : Data(taken)  BY DEF Clock
    <3>2. ~taken  BY <1>1, <3>1 DEF Data
    <3>3. data' = IF path = "write" THEN Beats ELSE 0  BY <1>1, <1>2, <3>1, <3>2 DEF Data
    <3> QED  BY <3>3, BeatsAssumption
  <2>4. /\ owed' = id /\ work' = 0 /\ left' \in Nat /\ left' >= 1 /\ sresp' = None
        /\ left' + data' <= MaxLatency + 1 /\ sready' = FALSE
    <3>1. PICK taken \in BOOLEAN : Data(taken) /\ Slave(taken)  BY DEF Clock
    <3>2. Begin  BY <1>1, <1>2, <3>1 DEF Slave
    <3>3. owed' = id /\ work' = 0 /\ sresp' = None  BY <1>1, <3>2 DEF Begin
    <3>4. sready' = FALSE
      <4>1. id # None  BY DEF IInv, Types, Ids, None
      <4>2. owed' # None  BY <4>1, <3>3
      <4> QED  BY <4>2, <3>1 DEF Slave
    <3>5. left' + data' <= MaxLatency + 1 /\ left' \in Nat /\ left' >= 1
      <4>1. CASE path = "read"
        <5>1. data' = 0
          <6>1. ~taken  BY <1>1, <3>1 DEF Data
          <6> QED  BY <1>1, <4>1, <3>1, <6>1 DEF Data
        <5> QED  BY <5>1, <4>1, <3>2, LatencyAssumption, BeatsAssumption DEF Begin
      <4>2. CASE path # "read"
        <5>1. left' = 1  BY <4>2, <3>2 DEF Begin
        <5>2. left' \in Nat /\ left' >= 1  BY <5>1
        <5>3. \A d \in Nat : d <= Beats => 1 + d <= MaxLatency + 1
          BY LatencyAssumption, BeatsAssumption
        <5>4. left' + data' <= MaxLatency + 1  BY <5>1, <5>3, <2>3
        <5> QED  BY <5>2, <5>4
      <4> QED  BY <4>1, <4>2
    <3> QED  BY <3>3, <3>4, <3>5
  <2>5. id \in Ids /\ id # None /\ path \in Paths  BY DEF IInv, Types, Ids, None
  <2>6. Types'  BY <2>1, <2>2, <2>3, <2>4, <2>5 DEF Types
  <2>7. IdleInv' /\ MonitorInv' /\ TimeoutInv'
    BY <2>1, <2>2, <2>4, <2>5, TimeoutAssumption DEF IdleInv, MonitorInv, TimeoutInv
  <2>8. work' + left' + data' <= MaxLatency + 1  BY <2>3, <2>4
  <2>9. SlaveInv'  BY <2>1, <2>2, <2>4, <2>5, <2>8 DEF SlaveInv
  <2> QED  BY <2>6, <2>7, <2>9 DEF IInv
<1>3. CASE ~Request
  <2>1. fsm' = "WR_IDLE" /\ counter' = counter /\ saved_id' = saved_id /\ timed_out' = FALSE
    BY <1>1, <1>3 DEF Clock, WrIdle
  <2>2. /\ want' = None /\ age' \in Nat /\ mready' = TRUE /\ id' = id /\ mreq' \in BOOLEAN
        /\ path' = path
    BY <1>1, <1>3 DEF Clock, Master, InTime, Completion, Response, BusRespValid, IInv, Types
  <2>3. PICK taken \in BOOLEAN : Data(taken) /\ Slave(taken)  BY DEF Clock
  <2>4. data' = 0
    <3>1. ~taken  BY <1>1, <2>3 DEF Data
    <3> QED  BY <1>1, <1>3, <2>3, <3>1 DEF Data
  <2>5. owed' = None /\ sresp' = None /\ work' = work /\ left' = 0
    BY <1>1, <1>3, <2>3 DEF Slave
  <2>6. sready' \in BOOLEAN  BY <2>3, <2>5 DEF Slave
  <2>7. Types'  BY <2>1, <2>2, <2>4, <2>5, <2>6 DEF IInv, Types
  <2>8. IdleInv' /\ MonitorInv' /\ TimeoutInv'
    BY <2>1, <2>2, <2>5 DEF IdleInv, MonitorInv, TimeoutInv
  <2>9. SlaveInv'  BY <2>2, <2>4, <2>5 DEF SlaveInv
  <2> QED  BY <2>7, <2>8, <2>9 DEF IInv
<1> QED  BY <1>2, <1>3

(* While the watchdog counts, the slave works on the transaction that it       *)
(* counts for, until the last beat is presented or the transaction dropped.    *)
LEMMA SlaveWorks ==
  ASSUME InTime, IInv, fsm = "WR_MONITOR", owed # None, ~Request,
         NEW taken \in BOOLEAN, Data(taken), Slave(taken)
  PROVE  /\ data' \in Nat /\ left' \in Nat /\ work' \in Nat /\ sready' \in BOOLEAN
         /\ owed' = None => data' = 0 /\ left' = 0
         /\ owed' # None => /\ owed' = want /\ work' = counter + 1 /\ left' >= 1
                            /\ work' + left' + data' <= MaxLatency + 1
         /\ sresp' # None => sresp' = want /\ data' = 0
         /\ owed' \in {want, None} /\ sresp' \in {want, None}
         /\ sready' => owed' = None /\ sresp' = None
<1>1. /\ work = counter /\ owed = want /\ counter \in Nat /\ left \in Nat /\ data \in Nat
      /\ left >= 1 /\ counter + left + data <= MaxLatency + 1 /\ mready = TRUE
      /\ timed_out = FALSE
  BY DEF IInv, Types, SlaveInv
<1>2. Present \/ Delay(taken) \/ Drop
  <2>1. sresp # None => SubResponse  BY <1>1 DEF SubResponse
  <2> QED  BY <2>1 DEF Slave
<1>3. data' = IF taken THEN data - 1 ELSE data  BY DEF Data
<1>4. taken => data > 0  BY DEF Data
<1>5. data = 0 => data' = 0  BY <1>1, <1>3, <1>4
<1>6. data' \in Nat  BY <1>1, <1>3, <1>4
<1>7. sready' \in BOOLEAN /\ (sready' => owed' = None /\ sresp' = None)  BY DEF Slave
<1>8. \A c, l, d, m \in Nat : l >= 1 /\ c + l + d <= m + 1 =>
        /\ l - 1 \in Nat /\ (l # 1 => l - 1 >= 1) /\ (c + 1) + (l - 1) + d <= m + 1
        /\ (d > 0 => (c + 1) + l + (d - 1) <= m + 1)
        /\ (c + l + d <= m => (c + 1) + l + d <= m + 1)
  OBVIOUS
<1>9. MaxLatency \in Nat  BY LatencyAssumption
<1>10. CASE Present
  <2>1. /\ sresp' = want /\ left' = left - 1 /\ owed' = (IF left = 1 THEN None ELSE want)
        /\ work' = counter + 1 /\ data' = 0 /\ data = 0
    BY <1>1, <1>5, <1>10 DEF Present
  <2>2. left' \in Nat /\ (owed' # None => left' >= 1) /\ (owed' = None => left' = 0)
    <3>1. want # None  BY <1>1
    <3> QED  BY <1>1, <1>8, <1>9, <2>1, <3>1
  <2>3. work' + left' + data' <= MaxLatency + 1
    <3>1. (counter + 1) + (left - 1) + data <= MaxLatency + 1  BY <1>1, <1>8, <1>9
    <3> QED  BY <2>1, <3>1
  <2>4. work' \in Nat /\ data' \in Nat
    <3>1. counter + 1 \in Nat  BY <1>1
    <3> QED  BY <2>1, <3>1
  <2> QED  BY <1>7, <2>1, <2>2, <2>3, <2>4
<1>11. CASE Delay(taken)
  <2>1. work' = counter + 1 /\ sresp' = None /\ owed' = want /\ left' = left
    BY <1>1, <1>11 DEF Delay
  <2>2. work' + left' + data' <= MaxLatency + 1
    <3>1. CASE taken
      <4>1. (counter + 1) + left + (data - 1) <= MaxLatency + 1  BY <1>1, <1>4, <1>8, <1>9, <3>1
      <4> QED  BY <1>3, <2>1, <3>1, <4>1
    <3>2. CASE ~taken
      <4>1. counter + left + data <= MaxLatency  BY <1>1, <1>11, <3>2 DEF Delay
      <4>2. (counter + 1) + left + data <= MaxLatency + 1  BY <1>1, <1>8, <1>9, <4>1
      <4> QED  BY <1>3, <2>1, <3>2, <4>2
    <3> QED  BY <3>1, <3>2
  <2>3. want # None  BY <1>1
  <2> QED  BY <1>1, <1>6, <1>7, <2>1, <2>2, <2>3
<1>12. CASE Drop
  <2>1. owed' = None /\ sresp' = None /\ left' = 0 /\ data' = 0  BY <1>5, <1>12 DEF Drop
  <2> QED  BY <1>1, <1>7, <1>12, <2>1 DEF Drop
<1> QED  BY <1>2, <1>10, <1>11, <1>12

LEMMA MonitorStep ==
  ASSUME InTime, IInv, Clock(WrMonitor) PROVE IInv'
<1>1. /\ fsm = "WR_MONITOR" /\ timed_out = FALSE /\ want \in Ids /\ want # None
      /\ saved_id = want /\ age = counter /\ counter < Timeout /\ counter \in Nat
      /\ mready = TRUE /\ mreq = FALSE /\ id \in Ids /\ path \in Paths
  BY DEF Clock, WrMonitor, IInv, Types, MonitorInv, SlaveInv, Ids, None
<1>2. ~Request  BY <1>1 DEF Request
<1>3. /\ counter' = counter + 1 /\ saved_id' = want /\ timed_out' = Expired
      /\ fsm' = IF Expired THEN "WR_TIMEOUT_RESP" ELSE IF Completion THEN "WR_IDLE" ELSE "WR_MONITOR"
  BY <1>1 DEF Clock, WrMonitor
<1>4. /\ mready' = TRUE /\ id' = id /\ path' = path /\ want' = IF Completion THEN None ELSE want
      /\ mreq' \in BOOLEAN /\ (mreq' => want' = None)
      /\ age' = IF Completion THEN 0 ELSE counter + 1
  <2>1. age <= Timeout  BY <1>1, TimeoutAssumption
  <2> QED  BY <1>1, <1>2, <2>1 DEF Clock, Master, InTime
<1>5. PICK taken \in BOOLEAN : Data(taken) /\ Slave(taken)  BY DEF Clock
<1>6. Completion <=> sresp # None /\ left = 0
  BY <1>1 DEF Completion, Response, BusRespValid, BusLast
<1>7. Expired <=> counter = Timeout - 1  BY <1>1, TimeoutAssumption DEF Expired
<1>8. \A c, m, t \in Nat : m + 2 < t /\ c <= m + 1 => c # t - 1 /\ c + 1 < t
  OBVIOUS
<1>9. MaxLatency \in Nat /\ Timeout \in Nat /\ MaxLatency + 2 < Timeout
  BY LatencyAssumption, TimeoutAssumption DEF InTime
<1>10. CASE owed # None
  <2>1. /\ counter <= MaxLatency /\ left # 0
    <3>1. /\ counter + left + data <= MaxLatency + 1 /\ left >= 1 /\ left \in Nat /\ data \in Nat
      BY <1>1, <1>10 DEF IInv, Types, SlaveInv
    <3> QED  BY <1>1, <1>9, <3>1
  <2>2. ~Completion /\ ~Expired  BY <1>1, <1>6, <1>7, <1>8, <1>9, <2>1
  <2>3. fsm' = "WR_MONITOR" /\ timed_out' = FALSE /\ want' = want /\ age' = counter' /\ mreq' = FALSE
    BY <1>1, <1>3, <1>4, <2>2
  <2>4. counter' \in Nat /\ counter' < Timeout /\ counter' <= MaxLatency + 1
    <3>1. counter + 1 \in Nat /\ counter + 1 < Timeout /\ counter + 1 <= MaxLatency + 1
      BY <1>1, <1>9, <2>1
    <3> QED  BY <1>3, <3>1
  <2>5. /\ data' \in Nat /\ left' \in Nat /\ work' \in Nat /\ sready' \in BOOLEAN
        /\ owed' = None => data' = 0 /\ left' = 0
        /\ owed' # None => /\ owed' = want /\ work' = counter + 1 /\ left' >= 1
                           /\ work' + left' + data' <= MaxLatency + 1
        /\ sresp' # None => sresp' = want /\ data' = 0
        /\ owed' \in {want, None} /\ sresp' \in {want, None}
        /\ sready' => owed' = None /\ sresp' = None
    BY <1>1, <1>2, <1>5, <1>10, SlaveWorks
  <2>6. Types'  BY <1>1, <1>4, <2>3, <2>4, <2>5 DEF Types
  <2>7. IdleInv' /\ MonitorInv' /\ TimeoutInv'
    BY <1>1, <1>3, <2>3, <2>4 DEF IdleInv, MonitorInv, TimeoutInv
  <2>8. SlaveInv'  BY <1>3, <2>3, <2>4, <2>5 DEF SlaveInv
  <2> QED  BY <2>6, <2>7, <2>8 DEF IInv
<1>11. CASE owed = None
  <2>1. data = 0 /\ left = 0 /\ work \in Nat  BY <1>11 DEF IInv, Types, SlaveInv
  <2>2. data' = 0
    <3>1. ~taken  BY <1>5, <2>1 DEF Data
    <3> QED  BY <1>2, <1>5, <2>1, <3>1 DEF Data
  <2>3. owed' = None /\ sresp' = None /\ left' = 0 /\ work' \in Nat /\ sready' \in BOOLEAN
    <3>1. sresp # None => SubResponse  BY <1>1 DEF SubResponse
    <3> QED  BY <1>2, <1>5, <1>11, <2>1, <3>1 DEF Slave
  <2>4. counter' \in Nat /\ age' \in Nat
    <3>1. counter + 1 \in Nat  BY <1>1
    <3> QED  BY <1>3, <1>4, <3>1
  <2>5. SlaveInv'  BY <1>4, <2>2, <2>3 DEF SlaveInv
  <2>6. CASE Completion
    <3>1. ~Expired
      <4>1. counter <= MaxLatency + 1  BY <1>6, <2>6 DEF IInv, SlaveInv
      <4> QED  BY <1>1, <1>7, <1>8, <1>9, <4>1
    <3>2. fsm' = "WR_IDLE" /\ timed_out' = FALSE /\ want' = None  BY <1>3, <1>4, <2>6, <3>1
    <3>3. Types'  BY <1>1, <1>4, <2>2, <2>3, <2>4, <3>2 DEF Types
    <3>4. IdleInv' /\ MonitorInv' /\ TimeoutInv'
      BY <2>3, <3>2 DEF IdleInv, MonitorInv, TimeoutInv
    <3> QED  BY <2>5, <3>3, <3>4 DEF IInv
  <2>7. CASE ~Completion /\ Expired
    <3>1. fsm' = "WR_TIMEOUT_RESP" /\ timed_out' = TRUE /\ want' = want  BY <1>3, <1>4, <2>7
    <3>2. age' = Timeout
      <4>1. counter + 1 = Timeout  BY <1>1, <1>7, <1>9, <2>7
      <4> QED  BY <1>4, <2>7, <4>1
    <3>3. Types'  BY <1>1, <1>4, <2>2, <2>3, <2>4, <3>1 DEF Types
    <3>4. IdleInv' /\ MonitorInv' /\ TimeoutInv'
      BY <1>1, <1>3, <2>3, <3>1, <3>2 DEF IdleInv, MonitorInv, TimeoutInv
    <3> QED  BY <2>5, <3>3, <3>4 DEF IInv
  <2>8. CASE ~Completion /\ ~Expired
    <3>1. fsm' = "WR_MONITOR" /\ timed_out' = FALSE /\ want' = want /\ age' = counter'
      BY <1>3, <1>4, <2>8
    <3>2. counter' < Timeout
      <4>1. counter + 1 < Timeout  BY <1>1, <1>7, <1>9, <2>8
      <4> QED  BY <1>3, <4>1
    <3>3. Types'  BY <1>1, <1>4, <2>2, <2>3, <2>4, <3>1 DEF Types
    <3>4. IdleInv' /\ MonitorInv' /\ TimeoutInv'
      BY <1>1, <1>3, <3>1, <3>2 DEF IdleInv, MonitorInv, TimeoutInv
    <3> QED  BY <2>5, <3>3, <3>4 DEF IInv
  <2> QED  BY <2>6, <2>7, <2>8
<1> QED  BY <1>10, <1>11

(* The watchdog's own response takes one cycle, since the master is ready.     *)
LEMMA TimeoutStep ==
  ASSUME InTime, IInv, Clock(WrTimeoutResp) PROVE IInv'
<1>1. /\ fsm = "WR_TIMEOUT_RESP" /\ timed_out = TRUE /\ mready = TRUE /\ mreq = FALSE
      /\ want # None /\ owed = None /\ sresp = None /\ data = 0 /\ left = 0
      /\ counter \in Nat /\ work \in Nat /\ id \in Ids /\ path \in Paths
  BY DEF Clock, WrTimeoutResp, IInv, Types, TimeoutInv, SlaveInv, Ids, None
<1>2. ~Request /\ Completion
  BY <1>1 DEF Request, Completion, Response, BusRespValid, BusLast
<1>3. fsm' = "WR_IDLE" /\ timed_out' = FALSE /\ counter' = counter
  BY <1>1 DEF Clock, WrTimeoutResp
<1>4. /\ want' = None /\ age' = 0 /\ mready' = TRUE /\ mreq' \in BOOLEAN /\ id' = id /\ path' = path
  BY <1>1, <1>2 DEF Clock, Master, InTime
<1>5. PICK taken \in BOOLEAN : Data(taken) /\ Slave(taken)  BY DEF Clock
<1>6. data' = 0
  <2>1. ~taken  BY <1>1, <1>5 DEF Data
  <2> QED  BY <1>1, <1>2, <1>5, <2>1 DEF Data
<1>7. owed' = None /\ sresp' = None /\ left' = 0 /\ work' = work /\ sready' \in BOOLEAN
  BY <1>1, <1>2, <1>5 DEF Slave
<1>8. Types'  BY <1>1, <1>3, <1>4, <1>6, <1>7 DEF Types
<1>9. IdleInv' /\ MonitorInv' /\ TimeoutInv'
  BY <1>3, <1>4, <1>7 DEF IdleInv, MonitorInv, TimeoutInv
<1>10. SlaveInv'  BY <1>4, <1>6, <1>7 DEF SlaveInv
<1> QED  BY <1>8, <1>9, <1>10 DEF IInv

-----------------------------------------------------------------------------
THEOREM Inductive == ASSUME InTime PROVE Spec => []IInv
<1>1. Init => IInv  BY InitIInv
<1>2. IInv /\ [Next]_vars => IInv'
  <2>1. IInv /\ Next => IInv'  BY IdleStep, MonitorStep, TimeoutStep DEF Next
  <2>2. IInv /\ UNCHANGED vars => IInv'
    BY DEF IInv, Types, IdleInv, MonitorInv, TimeoutInv, SlaveInv, vars, master, slave, watchdog
  <2> QED  BY <2>1, <2>2
<1> QED  BY <1>1, <1>2, PTL DEF Spec

(* A response on the bus is for the transaction that the master awaits.        *)
THEOREM Awaited == ASSUME InTime PROVE Spec => []ResponseIsAwaited
<1>1. IInv => ResponseIsAwaited
  BY DEF IInv, Types, TimeoutInv, IdleInv, MonitorInv, SlaveInv, ResponseIsAwaited, BusRespValid, BusId,
         Ids, None
<1> QED  BY <1>1, Inductive, PTL

(* The watchdog answers only for what the slave has given up.                  *)
THEOREM NeverCutShort == ASSUME InTime PROVE Spec => []TakesOverDropped
<1>1. IInv => TakesOverDropped
  BY DEF IInv, Types, TimeoutInv, SlaveInv, TakesOverDropped
<1> QED  BY <1>1, Inductive, PTL

(* No transaction is without a response for longer than the timeout.           *)
THEOREM Bounded == ASSUME InTime PROVE Spec => []BoundedWait
<1>1. IInv => BoundedWait
  BY TimeoutAssumption
  DEF IInv, Types, IdleInv, MonitorInv, TimeoutInv, BoundedWait
<1> QED  BY <1>1, Inductive, PTL
=============================================================================
