--------------------------- MODULE AxiTransactions ---------------------------
(* What masters may expect of an AXI interconnect: each transaction is         *)
(* performed once, by the subordinate that its address selects and by no       *)
(* other, and then answered, in order, with that subordinate's response; one   *)
(* that selects no subordinate is performed by none and still answered.        *)
EXTENDS Sequences

CONSTANTS Ports,   \* a master and one of its channels, read or write
          Subs, NoSub, None

VARIABLES pending,   \* by port: the targets of the transactions not answered
          done,      \* by port: who performed the oldest of them
          answer     \* by port: whose response is taken in this cycle

vars == <<pending, done, answer>>

Init ==
  /\ pending = [p \in Ports |-> <<>>]
  /\ done    = [p \in Ports |-> None]
  /\ answer  = [p \in Ports |-> None]

Performed(p) == pending[p] # <<>> /\ (Head(pending[p]) = NoSub \/ done[p] = Head(pending[p]))

\* A port is answered, makes a request, or both; and its oldest transaction
\* is performed.
Next ==
  \E answering \in SUBSET {p \in Ports : Performed(p)} :
    LET Rest(p) == IF p \in answering THEN Tail(pending[p]) ELSE pending[p]
    IN  /\ \A p \in Ports :
             /\ \/ pending'[p] = Rest(p)
                \/ \E t \in Subs \union {NoSub} : pending'[p] = Append(Rest(p), t)
             /\ \/ done'[p] = (IF p \in answering THEN None ELSE done[p])
                \/ /\ pending[p] # <<>> /\ p \notin answering /\ done[p] = None
                   /\ done'[p] = Head(pending[p]) /\ done'[p] # NoSub
        /\ answer' = [p \in Ports |-> IF p \in answering THEN Head(pending[p]) ELSE None]

Spec == Init /\ [][Next]_vars
=============================================================================
