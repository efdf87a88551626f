---------------------------- MODULE BurstMemory ----------------------------
(* What a memory owes an initiator of bursts (the Burst type and the response   *)
(* rules of axi/bus.py, burst.py and IHI0022, A3.4): each beat is performed     *)
(* once, in order, at its own address, on the data sent for it; a read returns  *)
(* what a word holds at one moment; the response comes when all is done and     *)
(* tells the worst; the last beat is marked.  There are no buses here.          *)
EXTENDS Integers, Sequences

CONSTANTS AddrSpace, WordBytes,
          Values,       \* of a byte
          Bursts,       \* [addr, len, size, burst]
          None

VARIABLES faulty,                        \* words whose accesses end in an error
          mem,                           \* byte by byte
          wburst, sent, done, bchan,     \* a write: data sent, beats performed, its response
          rburst, got, taken, rval, rchan \* a read: beats delivered, beats sampled,
                                         \* the sample, the data channel
vars == <<faulty, mem, wburst, sent, done, bchan, rburst, got, taken, rval, rchan>>

\* The address of beat k: IHI0022, A3.4.1.
BeatAddr(b, k) ==
  LET bytes   == 2 ^ b.size
      aligned == (b.addr \div bytes) * bytes
      span    == bytes * (b.len + 1)
      lower   == (b.addr \div span) * span
  IN  CASE k = 0 \/ b.burst = "FIXED" -> b.addr
        [] b.burst = "INCR"           -> aligned + k * bytes
        [] b.burst = "WRAP"           -> lower + ((b.addr - lower + k * bytes) % span)

Word(a)   == a \div WordBytes
BeatWord(b, k) == Word(BeatAddr(b, k))

\* The byte lanes that a beat transfers.
Lanes(b, k) ==
  LET a == BeatAddr(b, k)  bytes == 2 ^ b.size
  IN  {x % WordBytes : x \in a .. (a \div bytes) * bytes + bytes - 1}

Contents(m, word) == [lane \in 0 .. WordBytes - 1 |-> m[word * WordBytes + lane]]

Stored(m, word, data, strb) ==
  [a \in DOMAIN m |-> IF Word(a) = word /\ a % WordBytes \in strb THEN data ELSE m[a]]

RespOf(word) == IF word \in faulty THEN 2 ELSE 0
WorstOf(b, n) == IF \E k \in 0 .. n - 1 : BeatWord(b, k) \in faulty THEN 2 ELSE 0

Init ==
  /\ faulty \in SUBSET (0 .. AddrSpace \div WordBytes - 1)
  /\ mem \in [0 .. AddrSpace - 1 -> Values]
  /\ wburst = None /\ sent = <<>> /\ done = 0 /\ bchan = None
  /\ rburst = None /\ got = 0 /\ taken = 0 /\ rval = None /\ rchan = None

-----------------------------------------------------------------------------
\* The initiator sends the data of the next beat, which holds until the end.
Send(b) ==
  \/ UNCHANGED sent
  \/ Len(sent) <= b.len /\ \E d \in Values : sent' = Append(sent, d)

StartWrite ==
  /\ wburst = None /\ wburst' \in Bursts
  /\ Send(wburst')
  /\ UNCHANGED <<mem, done, bchan>>

Perform ==
  /\ done < Len(sent) /\ done' = done + 1
  /\ LET word == BeatWord(wburst, done)
     IN  mem' = IF word \in faulty THEN mem
                ELSE Stored(mem, word, sent[done + 1], Lanes(wburst, done))

WriteProgress ==
  /\ wburst # None /\ UNCHANGED wburst
  /\ Send(wburst)
  /\ Perform \/ UNCHANGED <<mem, done>>
  /\ \/ UNCHANGED bchan
     \/ done' = wburst.len + 1 /\ bchan' = WorstOf(wburst, done')

EndWrite ==
  /\ bchan # None
  /\ wburst' = None /\ sent' = <<>> /\ done' = 0 /\ bchan' = None
  /\ UNCHANGED mem

WriteRest == UNCHANGED <<mem, wburst, sent, done, bchan>>

StartRead ==
  /\ rburst = None /\ rburst' \in Bursts
  /\ UNCHANGED <<got, taken, rval, rchan>>

Sample ==
  /\ taken = got /\ taken' = taken + 1
  /\ LET word == BeatWord(rburst, got)
     IN  rval' = [data |-> Contents(mem, word), resp |-> RespOf(word)]

ReadProgress ==
  /\ rburst # None /\ UNCHANGED <<rburst, got>>
  /\ Sample \/ UNCHANGED <<taken, rval>>
  /\ \/ UNCHANGED rchan
     \/ taken' = got + 1 /\ rchan' = [data |-> rval'.data, resp |-> rval'.resp,
                                      last |-> got = rburst.len]

Deliver ==
  /\ rchan # None /\ rchan' = None /\ rval' = None
  /\ IF rchan.last THEN rburst' = None /\ got' = 0 /\ taken' = 0
     ELSE got' = got + 1 /\ UNCHANGED <<rburst, taken>>

ReadRest == UNCHANGED <<rburst, got, taken, rval, rchan>>

Next == /\ UNCHANGED faulty
        /\ StartWrite \/ WriteProgress \/ EndWrite \/ WriteRest
        /\ StartRead \/ ReadProgress \/ Deliver \/ ReadRest

Spec == Init /\ [][Next]_vars
=============================================================================
