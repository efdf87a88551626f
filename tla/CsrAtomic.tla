------------------------------ MODULE CsrAtomic ------------------------------
(* What the CSR bus promises (csr/bus.py, class Interface): "when the first     *)
(* chunk of a register is read, the value of a register is captured, and reads  *)
(* from subsequent chunks of the same register return the captured values";     *)
(* "a write to the last chunk writes the captured value to the register".       *)
(* There is no sharing of storage here: a transaction has copies of its own.    *)
EXTENDS Integers

CONSTANTS Regs,      \* the registers: their address ranges, [start, stop]
          Volatile,  \* the registers that the hardware may change
          Data       \* the values of a chunk; {} is what an idle bus reads

Addresses(regs)   == UNION {r.start .. r.stop - 1 : r \in regs}
Contents(r, f)    == [a \in r.start .. r.stop - 1 |-> f[a]]

VARIABLES val,      \* the chunk of a register at each address
          txn,      \* the transaction in progress and its next address
          snap,     \* the register as it was when the transaction read its start
          sent,     \* the chunks that the transaction wrote
          answer,   \* what the bus reads in this cycle
          commits   \* the registers strobed in this cycle, with what they take

vars == <<val, txn, snap, sent, answer, commits>>

Nothing == [a \in {} |-> {}]

Init ==
  /\ val = [a \in Addresses(Regs) |-> {}]
  /\ txn = [kind |-> "none"]
  /\ snap = Nothing /\ sent = Nothing /\ answer = {} /\ commits = {}

(* A strobed register takes its value; any other volatile one may change.      *)
Registers ==
  \E hw \in [Addresses(Volatile) -> Data] :
    val' = [a \in Addresses(Regs) |->
              IF \E c \in commits : a \in DOMAIN c
              THEN (CHOOSE c \in commits : a \in DOMAIN c)[a]
              ELSE IF a \in Addresses(Volatile) THEN hw[a] ELSE val[a]]

(* A transaction goes through a register in ascending order; it may stop       *)
(* anywhere, and then another starts.                                          *)
Advance(kind, r, addr) ==
  /\ addr = r.start \/ txn = [kind |-> kind, reg |-> r, next |-> addr]
  /\ txn' = [kind |-> kind, reg |-> r, next |-> addr + 1]

Read(r, addr) ==
  /\ Advance("read", r, addr)
  /\ snap' = IF addr = r.start THEN Contents(r, val) ELSE snap
  /\ answer' = snap'[addr]
  /\ sent' = Nothing /\ commits' = {}
  /\ Registers

Write(r, addr, d) ==
  /\ Advance("write", r, addr)
  /\ sent' = [a \in r.start .. addr |-> IF a = addr THEN d ELSE sent[a]]
  /\ commits' = IF addr = r.stop - 1 THEN {sent'} ELSE {}
  /\ snap' = Nothing /\ answer' = {}
  /\ Registers

Pause == answer' = {} /\ commits' = {} /\ Registers /\ UNCHANGED <<txn, snap, sent>>

Next == \/ \E r \in Regs : \E addr \in r.start .. r.stop - 1 :
             Read(r, addr) \/ \E d \in Data : Write(r, addr, d)
        \/ Pause

Spec == Init /\ [][Next]_vars
=============================================================================
