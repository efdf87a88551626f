------------------------------- MODULE Fabric -------------------------------
(* AXI interconnects: masters, an address decoder for each, an arbiter before  *)
(* each slave (axi/crossbar.py, classes AXI4LiteCrossbar and AXI4Crossbar), or *)
(* one master and its decoder before the slaves.  Slaves serve one write and   *)
(* one read at a time, with any latency.  Masters use a slave one at a time.   *)
(* A step is a clock cycle.                                                    *)
EXTENDS Integers, Sequences, FiniteSets

CONSTANTS N, S,         \* number of masters, at most, and of slaves
          Topologies    \* the interconnects considered, see TopologyAssumption

Channels == {"write", "read"}

ASSUME TopologyAssumption ==
  \A t \in Topologies :
    /\ t.masters \in 1 .. N
    /\ t.crossbar \in BOOLEAN    \* whether slaves have arbiters
    /\ t.crossbar \/ t.masters = 1
    /\ t.full \in BOOLEAN        \* AXI4, else AXI4-Lite
    /\ t.beats \subseteq Nat \ {0}   \* of a burst
    /\ t.pipelined \in BOOLEAN   \* AXI4LiteDecoder's argument
    /\ t.eager \in BOOLEAN       \* masters announce a request before the last response
    /\ t.stalls \in BOOLEAN      \* they delay data and responses
    /\ t.misses \in BOOLEAN      \* they ask for addresses without a slave
    /\ t.flight \in Nat \ {0}    \* how many requests are on their way, at most

VARIABLES topo,       \* the interconnect
          ask, want,  \* masters, by channel: the target asked, the one awaited
          left,       \* masters, by channel: the beats to send or to receive
          up,         \* masters: WVALID
          dec,        \* decoders, by channel
          arb,        \* arbiters
          slave,      \* slaves, by channel: state and beats left to send
          who,          \* history: slaves, by channel: the master served
          done, answer  \* history: who performed a transaction, who answered it

masters == <<ask, want, left, up>>
vars    == <<topo, masters, dec, arb, slave, who, done, answer>>

Routing == INSTANCE AxiRouting

Masters == Routing!Masters
NoSub   == Routing!NoSub
None    == Routing!None
Subs    == 0 .. S-1
Ports   == Masters \X Channels

-----------------------------------------------------------------------------
(* Combinational signals: the request channels ...                             *)
Granted(j)  == IF topo.crossbar THEN arb[j].grant ELSE 0
Asks(i, ch) == ask[i][ch] # None

AddrTo(i, ch, j) == Asks(i, ch) /\ Routing!Forwards(dec[i][ch], "ADDR", j)
WValid(i)        == left[i]["write"] > 0 /\ up[i]
WLast(i)         == left[i]["write"] = 1
DataTo(i, j)     == WValid(i) /\ Routing!Forwards(dec[i]["write"], "DATA", j)

AddrShake(j, ch) == AddrTo(Granted(j), ch, j) /\ slave[j][ch].state = "free"
DataShake(j)     == DataTo(Granted(j), j) /\ slave[j]["write"].state = "data"
LastShake(j)     == DataShake(j) /\ WLast(Granted(j))

\* The handshakes at a master's port.
Accepted(i, ch) ==
  \/ \E j \in Subs : Granted(j) = i /\ AddrShake(j, ch)
  \/ Asks(i, ch) /\ Routing!OwnReady(dec[i][ch], "ADDR")
Sent(i) ==
  \/ \E j \in Subs : Granted(j) = i /\ DataShake(j)
  \/ WValid(i) /\ Routing!OwnReady(dec[i]["write"], "DATA")

(* ... and the response channels.                                              *)
Responds(j, i, ch) == /\ slave[j][ch].state = "response" /\ Granted(j) = i
                      /\ Routing!Forwards(dec[i][ch], "RESP", j)
DecErr(i, ch)      == Routing!DecErr(dec[i][ch])
RespValid(i, ch)   == DecErr(i, ch) \/ \E j \in Subs : Responds(j, i, ch)
RespLast(i, ch) ==
  IF DecErr(i, ch) THEN Routing!DecErrLast(dec[i][ch])
  ELSE \E j \in Subs : Responds(j, i, ch) /\ slave[j][ch].left <= 1

\* The next three have the ports that take their response in this cycle.
RespTaken(i, ch, taking) == <<i, ch>> \in taking /\ RespValid(i, ch)
RespShake(j, ch, taking) == Responds(j, Granted(j), ch) /\ <<Granted(j), ch>> \in taking
LastTaken(i, ch, taking) == RespTaken(i, ch, taking) /\ RespLast(i, ch)
LastResp(j, ch, taking)  == RespShake(j, ch, taking) /\ slave[j][ch].left <= 1

-----------------------------------------------------------------------------
(* The decoders.                                                               *)
DecodeWrite(i, taking) ==
  LET d == dec[i]["write"]
      t == ask[i]["write"]
  IN  CASE d.fsm = "IDLE" -> Routing!WrIdle(d, Asks(i, "write"), t)
        [] d.fsm = "ADDR" -> Routing!WrAddr(d, Accepted(i, "write"))
        [] d.fsm = "DATA" -> Routing!WrData(d, Sent(i) /\ WLast(i))
        [] d.fsm = "RESP" ->
             Routing!Responding(d, TRUE, RespTaken(i, "write", taking), topo.pipelined, Asks(i, "write"), t)

DecodeRead(i, taking) ==
  LET d == dec[i]["read"]
      t == ask[i]["read"]
  IN  CASE d.fsm = "IDLE" -> Routing!RdIdle(d, Asks(i, "read"), t, left[i]["read"] - 1)
        [] d.fsm = "ADDR" -> Routing!RdAddr(d, Accepted(i, "read"))
        [] d.fsm = "RESP" ->
             Routing!Responding(Routing!Counted(d, RespTaken(i, "read", taking)), RespLast(i, "read"),
                          RespTaken(i, "read", taking), topo.pipelined, Asks(i, "read"), t)

Decode(taking) ==
  dec' = [i \in Masters |-> [write |-> DecodeWrite(i, taking), read |-> DecodeRead(i, taking)]]

(* The arbiters.                                                               *)
Requests(j) == {i \in Masters : \E ch \in Channels : AddrTo(i, ch, j)}

NextArbiter(j, taking) ==
  LET a == arb[j] IN
  [grant |-> Routing!NextGrant(a.grant, a, Requests(j)),
   write |-> IF topo.full THEN Routing!FullLock(a.write, AddrShake(j, "write"), LastShake(j))
             ELSE Routing!LiteLock(a.write, AddrShake(j, "write"), RespShake(j, "write", taking)),
   read  |-> IF topo.full THEN Routing!FullLock(a.read, AddrShake(j, "read"), LastResp(j, "read", taking))
             ELSE Routing!LiteLock(a.read, AddrShake(j, "read"), RespShake(j, "read", taking))]

Arbitrate(taking) ==
  arb' = IF topo.crossbar THEN [j \in Subs |-> NextArbiter(j, taking)] ELSE arb

-----------------------------------------------------------------------------
(* The slaves: a write's address, then its data, then its response; a read's   *)
(* beats one by one.                                                           *)
NextWrite(j, answering, taking) ==
  LET s == slave[j]["write"] IN
  CASE s.state = "free" /\ AddrShake(j, "write")         -> [s EXCEPT !.state = "data"]
    [] s.state = "data" /\ LastShake(j)                     -> [s EXCEPT !.state = "busy"]
    [] s.state = "busy" /\ <<j, "write">> \in answering     -> [s EXCEPT !.state = "response"]
    [] s.state = "response" /\ RespShake(j, "write", taking) -> [s EXCEPT !.state = "free"]
    [] OTHER -> s

NextRead(j, answering, taking) ==
  LET s == slave[j]["read"] IN
  CASE s.state = "free" /\ AddrShake(j, "read") ->
         [state |-> "busy", left |-> left[Granted(j)]["read"]]
    [] s.state = "busy" /\ <<j, "read">> \in answering -> [s EXCEPT !.state = "response"]
    [] s.state = "response" /\ RespShake(j, "read", taking) ->
         IF s.left > 1 THEN [s EXCEPT !.state = "busy", !.left = @ - 1]
         ELSE [s EXCEPT !.state = "free", !.left = 0]
    [] OTHER -> s

Serve(answering, taking) ==
  slave' = [j \in Subs |-> [write |-> NextWrite(j, answering, taking),
                            read  |-> NextRead(j, answering, taking)]]

(* The masters.  VALID stays until READY.  A request is made when the previous *)
(* one is answered, or, by an eager master, accepted.                          *)
MayAsk(i, ch) == /\ i < topo.masters
                 /\ ask[i][ch] = None /\ left[i][ch] = 0 /\ (want[i][ch] = None \/ topo.eager)

\* A pipelined decoder answers an unmapped read twice when it is announced in
\* the cycle in which the previous read ends: such reads are left out.
Targets(i, ch) ==
  IF ~topo.misses \/ (topo.pipelined /\ ch = "read" /\ want[i][ch] # None) THEN Subs
  ELSE Subs \union {NoSub}

Uses(i) == {ask[i][ch] : ch \in Channels} \union {want[i][ch] : ch \in Channels}
Apart   == \A i, k \in Masters : i # k => Uses(i) \intersect Uses(k) \subseteq {NoSub, None}

NextLeft(i, ch, new) ==
  IF new.port = <<i, ch>> THEN new.beats
  ELSE CASE ch = "write" /\ Sent(i)        -> left[i][ch] - 1
         [] ch = "read" /\ Accepted(i, ch) -> 0
         [] OTHER                          -> left[i][ch]

Drive(new, taking) ==
  /\ ask' = [i \in Masters |-> [ch \in Channels |->
               IF new.port = <<i, ch>> THEN new.to
               ELSE IF Accepted(i, ch) THEN None ELSE ask[i][ch]]]
  /\ want' = [i \in Masters |-> [ch \in Channels |->
                CASE LastTaken(i, ch, taking) -> None
                  [] Accepted(i, ch)          -> ask[i][ch]
                  [] OTHER                    -> want[i][ch]]]
  /\ left' = [i \in Masters |-> [ch \in Channels |-> NextLeft(i, ch, new)]]
  /\ Apart'
  /\ up' \in [Masters -> BOOLEAN]
  /\ \A i \in Masters : /\ up'[i] => left'[i]["write"] > 0
                        /\ left'[i]["write"] > 0 /\ (~topo.stalls \/ (WValid(i) /\ ~Sent(i))) => up'[i]

-----------------------------------------------------------------------------
(* History.                                                                    *)
\* The slaves that perform a transaction of i in this cycle: they have all of it.
Performers(i, ch) ==
  {j \in Subs : /\ Granted(j) = i
                /\ IF ch = "read" THEN AddrShake(j, ch) ELSE LastShake(j) /\ who[j][ch] = i}

\* Whose response i takes: Stray is that to another master's transaction.
Stray == -1
Answerer(i, ch) ==
  IF DecErr(i, ch) THEN NoSub
  ELSE LET j == CHOOSE j \in Subs : Responds(j, i, ch)
       IN  IF who[j][ch] = i THEN j ELSE Stray

Record(taking) ==
  /\ who' = [j \in Subs |-> [ch \in Channels |->
               IF AddrShake(j, ch) THEN Granted(j)
               ELSE IF LastResp(j, ch, taking) THEN 0 ELSE who[j][ch]]]
  /\ done' = [p \in Ports |->
                IF LastTaken(p[1], p[2], taking) THEN None
                ELSE IF Performers(p[1], p[2]) # {} THEN CHOOSE j \in Performers(p[1], p[2]) : TRUE
                ELSE done[p]]
  /\ answer' = [p \in Ports |->
                  IF LastTaken(p[1], p[2], taking) THEN Answerer(p[1], p[2]) ELSE None]

Init ==
  /\ topo \in Topologies
  /\ ask  = [i \in Masters |-> [ch \in Channels |-> None]] /\ want = ask
  /\ left = [i \in Masters |-> [ch \in Channels |-> 0]]
  /\ up   = [i \in Masters |-> FALSE]
  /\ dec  = [i \in Masters |-> [ch \in Channels |-> Routing!PathInit]]
  /\ arb  = [j \in Subs |-> [grant |-> 0, write |-> FALSE, read |-> FALSE]]
  /\ slave = [j \in Subs |-> [ch \in Channels |-> [state |-> "free", left |-> 0]]]
  /\ who  = [j \in Subs |-> [ch \in Channels |-> 0]]
  /\ done = [p \in Ports |-> None] /\ answer = done

Busy      == {s \in Subs \X Channels : slave[s[1]][s[2]].state = "busy"}
InFlight  == Cardinality({p \in Ports : ask[p[1]][p[2]] # None})
             + Cardinality({p \in Ports : want[p[1]][p[2]] # None})
Answers   == {p \in Ports : RespValid(p[1], p[2])}
Nothing   == [port |-> <<>>]
NewRequests == UNION {[port : {p}, to : Targets(p[1], p[2]), beats : topo.beats] :
                      p \in {q \in Ports : MayAsk(q[1], q[2])}}

\* At most one request a cycle; several may be on their way.
Next ==
  \E answering \in SUBSET Busy,
     taking \in IF topo.stalls THEN SUBSET Answers ELSE {Answers},
     new \in {Nothing} \union (IF InFlight < topo.flight THEN NewRequests ELSE {}) :
    /\ UNCHANGED topo
    /\ Decode(taking) /\ Arbitrate(taking) /\ Serve(answering, taking)
    /\ Drive(new, taking)
    /\ Record(taking)

(* The clock runs, slaves answer, and masters send their data and take their   *)
(* responses, again and again.                                                 *)
NoDelay == Answers = {} /\ \A i \in Masters : left[i]["write"] > 0 => up[i]
NoWait  == Busy = {}

Fairness == WF_vars(Next) /\ []<>NoDelay /\ []<>NoWait

Spec == Init /\ [][Next]_vars /\ Fairness

-----------------------------------------------------------------------------
Unanswered(p) == SelectSeq(<<want[p[1]][p[2]], ask[p[1]][p[2]]>>, LAMBDA t : t # None)

Transactions == INSTANCE AxiTransactions WITH pending <- [p \in Ports |-> Unanswered(p)]

(* "Routes transactions to subordinates based on address decoding": masters    *)
(* that use a slave one at a time see an interconnect that performs each       *)
(* transaction once, at the slave that its address selects, and answers it     *)
(* with that slave's response, or with DECERR if there is none.                *)
ImplementsTransactions == Transactions!Spec

(* Every transaction is answered: no lock, latched target or grant of an       *)
(* earlier transaction stands in the way.                                      *)
TransactionsEnd == \A p \in Ports : Unanswered(p) # <<>> ~> answer[p] # None
=============================================================================
