---------------------------- MODULE DmaPathProofs ----------------------------
(* What the controllers of the DMA rely on without looking, for all lists of   *)
(* descriptors and sizes of words, requests and FIFOs.                         *)
EXTENDS DmaPath, SequenceTheorems, WellFoundedInduction, TLAPS

MaxSize    == MaxWords * WordBytes   \* of a piece
Descriptor == [addr : Nat, length : Nat \ {0}, first : BOOLEAN]
Piece      == [addr : Nat, length : 1 .. MaxSize, first : BOOLEAN, last : BOOLEAN]
Word       == [data : Nat, last : BOOLEAN, first : BOOLEAN]
Read       == [word : Nat, left : Nat \ {0}, id : Nat, first : BOOLEAN]

\* A splitter that runs has bytes left, and knows its last piece.
Cut(split, piece, left) ==
  /\ split \in {"IDLE", "RUN"}
  /\ split = "RUN" => piece \in Piece /\ left \in Nat \ {0} /\ piece.last = (left <= MaxSize)

TypeInv ==
  /\ on \in BOOLEAN /\ programmed \in Nat \X Nat
  /\ r_table \in Seq(Descriptor) /\ r_refill \in Seq(Descriptor)
  /\ w_table \in Seq(Descriptor) /\ w_refill \in Seq(Descriptor)
  /\ Cut(r_split, r_piece, r_left) /\ r_user_id \in Nat
  /\ Cut(w_split, w_piece, w_left)
  /\ r_state \in {"IDLE", "REQUEST"} /\ pending \in 0 .. FifoDepth
  /\ w_state \in {"IDLE", "WRITE"} /\ req_count \in Nat
  /\ r_fifo \in Seq(Word) /\ rbuf \in Seq(Word) /\ wbuf \in Seq(Word) /\ w_fifo \in Seq(Word)
  /\ reads \in Seq(Read)

\* The requests in s have "total" words left: "sum" adds up those of the first.
AddUpTo(s, total) ==
  \E sum \in [0 .. Len(s) -> 0 .. FifoDepth] :
    /\ sum[0] = 0 /\ sum[Len(s)] = total
    /\ \A i \in 1 .. Len(s) : sum[i] = sum[i - 1] + s[i].left
    /\ \A i \in 0 .. Len(s) : sum[i] <= total

\* The words that are pending are in the FIFO or at the bus.
Counted == AddUpTo(reads, pending - Len(r_fifo))

\* The room that the read controller found is still there when it asks.
Room ==
  /\ r_state = "REQUEST" => r_split = "RUN"
  /\ on => Counted /\ (r_state = "REQUEST" => pending < FifoDepth - MaxWords)

\* The words that are left of a request are in the FIFO.
Data ==
  w_state = "WRITE" =>
    LET n == Ctrl!Words(w_piece.length)
    IN w_split = "RUN" /\ req_count < n /\ n - req_count <= Len(w_fifo)

IInv == TypeInv /\ Room /\ Data

\* What comes in a cycle: an element of a set, or nothing.
Offer(S) == {<<>>} \cup {<<x>> : x \in S}

-----------------------------------------------------------------------------
(* Sizes and sequences.                                                        *)

\* A piece is of one word or more, and of as many as a request may have.
LEMMA WordsOfPiece ==
  /\ MaxSize \in Nat \ {0}
  /\ \A n \in 1 .. MaxSize : Ctrl!Words(n) \in 1 .. MaxWords
<1>1. /\ WordBytes \in Nat \ {0} /\ MaxWords \in Nat \ {0}
  BY SizesAssumption
<1>2. MaxSize \in Nat \ {0}
  BY <1>1 DEF MaxSize
<1>3. ASSUME NEW n \in 1 .. MaxSize PROVE Ctrl!Words(n) \in 1 .. MaxWords
  <2> DEFINE q == (n + WordBytes - 1) \div WordBytes
  <2>1. q \in Nat /\ q * WordBytes <= n + WordBytes - 1 /\ n + WordBytes - 1 < (q + 1) * WordBytes
    BY <1>1, <1>2
  <2>2. n <= MaxWords * WordBytes
    BY <1>3, <1>2 DEF MaxSize
  <2>3. q # 0
    BY <2>1, <1>1
  <2>4. q < MaxWords + 1
    BY <2>1, <2>2, <1>1
  <2>5. QED  BY <2>1, <2>3, <2>4, <1>1 DEF Ctrl!Words
<1>4. QED  BY <1>2, <1>3

LEMMA OfferIsSeq ==
  ASSUME NEW S, NEW offered \in Offer(S)
  PROVE  offered \in Seq(S)
<1>1. ASSUME NEW x \in S, offered = <<x>> PROVE offered \in Seq(S)
  BY <1>1
<1>2. <<>> \in Seq(S)
  BY EmptySeq
<1>3. QED  BY <1>1, <1>2 DEF Offer

\* What is offered is added at the end.
LEMMA Appended ==
  ASSUME NEW S, NEW s \in Seq(S), NEW offered \in Offer(S)
  PROVE  /\ s \o offered \in Seq(S)
         /\ Len(offered) \in {0, 1}
         /\ Len(s \o offered) = Len(s) + Len(offered)
         /\ \A i \in 1 .. Len(s) : (s \o offered)[i] = s[i]
         /\ offered # <<>> => offered[1] \in S /\ (s \o offered)[Len(s) + 1] = offered[1]
<1>1. CASE offered = <<>>
  <2>1. offered \in Seq(S) /\ Len(offered) = 0 /\ s \o offered = s
    BY <1>1, ConcatEmptySeq
  <2>2. QED  BY <1>1, <2>1
<1>2. ASSUME NEW x \in S, offered = <<x>>
      PROVE  offered \in Seq(S) /\ Len(offered) = 1 /\ offered[1] = x
  BY <1>2
<1>3. ASSUME NEW x \in S, offered = <<x>>
      PROVE  /\ s \o offered \in Seq(S)
             /\ Len(s \o offered) = Len(s) + 1
             /\ \A i \in 1 .. Len(s) : (s \o offered)[i] = s[i]
             /\ (s \o offered)[Len(s) + 1] = x
  <2>1. offered \in Seq(S) /\ Len(offered) = 1 /\ offered[1] = x
    BY <1>2, <1>3
  <2>2. QED  BY <2>1, ConcatProperties, SMTT(30)
<1>4. QED  BY <1>1, <1>2, <1>3 DEF Offer

\* What is in front is taken.
LEMMA Shortened ==
  ASSUME NEW S, NEW s \in Seq(S), s # <<>>
  PROVE  /\ Tail(s) \in Seq(S)
         /\ Len(Tail(s)) = Len(s) - 1 /\ Len(s) > 0
         /\ Head(s) \in S /\ <<Head(s)>> \in Offer(S)
         /\ Head(s) = s[1]
         /\ \A i \in 1 .. Len(s) - 1 : Tail(s)[i] = s[i + 1]
BY DEF Offer

\* A completion is a word of the FIFO, a strobe a descriptor of the table.
LEMMA Received ==
  ASSUME NEW given
  PROVE  /\ given = <<>> => [i \in DOMAIN given |-> Ctrl!WordOf(given[i])] = <<>>
         /\ \A c : given = <<c>> => [i \in DOMAIN given |-> Ctrl!WordOf(given[i])] = <<Ctrl!WordOf(c)>>
<1>1. ASSUME given = <<>>
      PROVE  [i \in DOMAIN given |-> Ctrl!WordOf(given[i])] = <<>>
  <2> DEFINE f == [i \in DOMAIN given |-> Ctrl!WordOf(given[i])]
  <2>1. DOMAIN given = 1 .. 0
    BY <1>1
  <2>2. f \in Seq({}) /\ Len(f) = 0
    BY <2>1, IsASeq, LenProperties
  <2>3. QED  BY <2>2, EmptySeq
<1>2. ASSUME NEW c, given = <<c>>
      PROVE  [i \in DOMAIN given |-> Ctrl!WordOf(given[i])] = <<Ctrl!WordOf(c)>>
  <2>1. DOMAIN given = 1 .. 1 /\ given[1] = c
    BY <1>2
  <2> DEFINE e == Ctrl!WordOf(c)
             f == [i \in DOMAIN given |-> Ctrl!WordOf(given[i])]
  <2>2. f = [i \in 1 .. 1 |-> e]
    <3>1. \A i \in DOMAIN given : given[i] = c
      BY <2>1
    <3>2. QED  BY <2>1, <3>1
  <2> HIDE DEF e, f
  <2>3. <<e>> = [i \in 1 .. 1 |-> e]
    OBVIOUS
  <2>4. QED  BY <2>2, <2>3 DEF e, f
<1>3. QED  BY <1>1, <1>2

\* A strobe reaches the table with its first flag.
LEMMA Marked ==
  ASSUME NEW we \in Offer(Descriptor), NEW flag \in BOOLEAN
  PROVE  [i \in DOMAIN we |-> [we[i] EXCEPT !.first = flag]] \in Seq(Descriptor)
<1>1. we \in Seq(Descriptor)
  BY OfferIsSeq
<1>2. DOMAIN we = 1 .. Len(we) /\ Len(we) \in Nat
  BY <1>1
<1>3. \A i \in 1 .. Len(we) : [we[i] EXCEPT !.first = flag] \in Descriptor
  <2>1. \A d \in Descriptor : [d EXCEPT !.first = flag] \in Descriptor
    BY DEF Descriptor
  <2>2. QED  BY <1>1, <2>1, ElementOfSeq
<1>4. QED  BY <1>2, <1>3, IsASeq

-----------------------------------------------------------------------------
(* The splitters: a piece is offered until it is taken.                        *)
LEMMA ReadPathStep ==
  ASSUME TypeInv, NEW we \in Offer(Descriptor), NEW loop, NEW reset, NEW ready,
         RPath!Step(we, loop, reset, ready)
  PROVE  /\ r_table' \in Seq(Descriptor) /\ r_refill' \in Seq(Descriptor)
         /\ Cut(r_split, r_piece, r_left)' /\ r_user_id' \in Nat
         /\ r_split = "RUN" /\ ~ready => r_split' = "RUN" /\ r_piece' = r_piece
<1> USE DEF TypeInv
<1>1. RPath!TableStep(we, loop, reset, RPath!SinkReady(ready)) /\ (RPath!Idle \/ RPath!Run(ready))
  BY DEF RPath!Step
<1>2. r_table # <<>> => Tail(r_table) \in Seq(Descriptor) /\ Head(r_table) \in Descriptor
  BY Shortened
<1>3. r_table' \in Seq(Descriptor)
  <2>1. r_table \o r_refill \in Seq(Descriptor)
    BY ConcatProperties
  <2>2. r_table # <<>> => Tail(r_table) \o r_refill \in Seq(Descriptor)
    BY <1>2, ConcatProperties
  <2>3. QED  BY <1>1, <1>2, <2>1, <2>2 DEF RPath!TableStep
<1>4. r_refill' \in Seq(Descriptor)
  <2>1. RPath!FirstFlag \in BOOLEAN
    BY DEF RPath!FirstFlag
  <2>2. [i \in DOMAIN we |-> [we[i] EXCEPT !.first = RPath!FirstFlag]] \in Seq(Descriptor)
    BY <2>1, Marked
  <2>3. r_table # <<>> => <<Head(r_table)>> \in Seq(Descriptor)
    BY <1>2
  <2>4. QED  BY <1>1, <2>2, <2>3 DEF RPath!TableStep
<1>5. ASSUME NEW addr \in Nat, NEW length \in Nat \ {0}, NEW first \in BOOLEAN
      PROVE  /\ RPath!Piece(addr, length, first) \in Piece
             /\ RPath!Piece(addr, length, first).last = (length <= MaxSize)
  <2>1. (length <= MaxSize) \in BOOLEAN
    OBVIOUS
  <2>2. (IF length > MaxSize THEN MaxSize ELSE length) \in 1 .. MaxSize
    BY WordsOfPiece
  <2>3. QED  BY <2>1, <2>2 DEF RPath!Piece, Piece, MaxSize
<1>6. /\ Cut(r_split, r_piece, r_left)' /\ r_user_id' \in Nat
      /\ r_split = "RUN" /\ ~ready => r_split' = "RUN" /\ r_piece' = r_piece
  <2>1. CASE RPath!Idle
    <3>1. CASE r_table = <<>>
      BY <2>1, <3>1 DEF RPath!Idle, Cut
    <3>2. CASE r_table # <<>>
      <4>1. Head(r_table).addr \in Nat /\ Head(r_table).length \in Nat \ {0}
        BY <1>2, <3>2 DEF Descriptor
      <4>2. /\ r_split' = "RUN" /\ r_user_id' = r_user_id /\ r_split = "IDLE"
            /\ r_piece' = RPath!Piece(Head(r_table).addr, Head(r_table).length, TRUE)
            /\ r_left' = Head(r_table).length
        BY <2>1, <3>2 DEF RPath!Idle
      <4>3. QED  BY <4>1, <4>2, <1>5 DEF Cut
    <3>3. QED  BY <3>1, <3>2
  <2>2. CASE RPath!Run(ready)
    <3>1. CASE ~ready
      BY <2>2, <3>1 DEF RPath!Run, Cut
    <3>2. CASE ready /\ r_piece.last
      <4>1. (r_user_id + 1) % IdBound \in Nat
        BY SizesAssumption
      <4>2. QED  BY <2>2, <3>2, <4>1 DEF RPath!Run, Cut
    <3>3. CASE ready /\ ~r_piece.last
      <4>0. r_split = "RUN" /\ r_piece \in Piece /\ r_left \in Nat /\ ~(r_left <= MaxSize)
        BY <2>2, <3>3 DEF RPath!Run, Cut
      <4>1. r_left - MaxSize \in Nat \ {0} /\ r_piece.addr + MaxSize \in Nat
        <5>1. MaxSize \in Nat \ {0}
          BY WordsOfPiece
        <5>2. r_piece.addr \in Nat
          BY <4>0 DEF Piece
        <5>3. \A a, b \in Nat : ~(a <= b) => a - b \in Nat \ {0}
          OBVIOUS
        <5>4. \A a, b \in Nat : a + b \in Nat
          OBVIOUS
        <5>5. QED  BY <4>0, <5>1, <5>2, <5>3, <5>4
      <4>2. r_piece' = RPath!Piece(r_piece.addr + MaxSize, r_left - MaxSize, FALSE)
            /\ r_left' = r_left - MaxSize /\ r_split' = "RUN" /\ r_user_id' = r_user_id
        BY <2>2, <3>3 DEF RPath!Run, MaxSize
      <4>3. QED  BY <3>3, <4>1, <4>2, <1>5 DEF Cut
    <3>4. QED  BY <3>1, <3>2, <3>3
  <2>3. QED  BY <1>1, <2>1, <2>2
<1>7. QED  BY <1>3, <1>4, <1>6

LEMMA WritePathStep ==
  ASSUME TypeInv, NEW we \in Offer(Descriptor), NEW w_ready,
         WPath!Step(we, looping, FALSE, Ctrl!WriterReady(w_piece.length, w_ready))
  PROVE  /\ w_table' \in Seq(Descriptor) /\ w_refill' \in Seq(Descriptor)
         /\ Cut(w_split, w_piece, w_left)'
         /\ w_split = "RUN" /\ ~Ctrl!WriterReady(w_piece.length, w_ready)
            => w_split' = "RUN" /\ w_piece' = w_piece
<1> DEFINE ready == Ctrl!WriterReady(w_piece.length, w_ready)
<1> USE DEF TypeInv
<1>1. WPath!TableStep(we, looping, FALSE, WPath!SinkReady(ready)) /\ (WPath!Idle \/ WPath!Run(ready))
  BY DEF WPath!Step
<1> HIDE DEF ready
<1>2. w_table # <<>> => Tail(w_table) \in Seq(Descriptor) /\ Head(w_table) \in Descriptor
  BY Shortened
<1>3. w_table' \in Seq(Descriptor)
  <2>1. w_table \o w_refill \in Seq(Descriptor)
    BY ConcatProperties
  <2>2. w_table # <<>> => Tail(w_table) \o w_refill \in Seq(Descriptor)
    BY <1>2, ConcatProperties
  <2>3. QED  BY <1>1, <1>2, <2>1, <2>2 DEF WPath!TableStep
<1>4. w_refill' \in Seq(Descriptor)
  <2>1. WPath!FirstFlag \in BOOLEAN
    BY DEF WPath!FirstFlag
  <2>2. [i \in DOMAIN we |-> [we[i] EXCEPT !.first = WPath!FirstFlag]] \in Seq(Descriptor)
    BY <2>1, Marked
  <2>3. w_table # <<>> => <<Head(w_table)>> \in Seq(Descriptor)
    BY <1>2
  <2>4. QED  BY <1>1, <2>2, <2>3 DEF WPath!TableStep
<1>5. ASSUME NEW addr \in Nat, NEW length \in Nat \ {0}, NEW first \in BOOLEAN
      PROVE  /\ WPath!Piece(addr, length, first) \in Piece
             /\ WPath!Piece(addr, length, first).last = (length <= MaxSize)
  <2>1. (length <= MaxSize) \in BOOLEAN
    OBVIOUS
  <2>2. (IF length > MaxSize THEN MaxSize ELSE length) \in 1 .. MaxSize
    BY WordsOfPiece
  <2>3. QED  BY <2>1, <2>2 DEF WPath!Piece, Piece, MaxSize
<1>6. /\ Cut(w_split, w_piece, w_left)'
      /\ w_split = "RUN" /\ ~ready => w_split' = "RUN" /\ w_piece' = w_piece
  <2>1. CASE WPath!Idle
    <3>1. CASE w_table = <<>>
      BY <2>1, <3>1 DEF WPath!Idle, Cut
    <3>2. CASE w_table # <<>>
      <4>1. Head(w_table).addr \in Nat /\ Head(w_table).length \in Nat \ {0}
        BY <1>2, <3>2 DEF Descriptor
      <4>2. /\ w_split' = "RUN" /\ w_split = "IDLE"
            /\ w_piece' = WPath!Piece(Head(w_table).addr, Head(w_table).length, TRUE)
            /\ w_left' = Head(w_table).length
        BY <2>1, <3>2 DEF WPath!Idle
      <4>3. QED  BY <4>1, <4>2, <1>5 DEF Cut
    <3>3. QED  BY <3>1, <3>2
  <2>2. CASE WPath!Run(ready)
    <3>1. CASE ~ready
      BY <2>2, <3>1 DEF WPath!Run, Cut
    <3>2. CASE ready /\ w_piece.last
      BY <2>2, <3>2 DEF WPath!Run, Cut
    <3>3. CASE ready /\ ~w_piece.last
      <4>0. w_split = "RUN" /\ w_piece \in Piece /\ w_left \in Nat /\ ~(w_left <= MaxSize)
        BY <2>2, <3>3 DEF WPath!Run, Cut
      <4>1. w_left - MaxSize \in Nat \ {0} /\ w_piece.addr + MaxSize \in Nat
        <5>1. MaxSize \in Nat \ {0}
          BY WordsOfPiece
        <5>2. w_piece.addr \in Nat
          BY <4>0 DEF Piece
        <5>3. \A a, b \in Nat : ~(a <= b) => a - b \in Nat \ {0}
          OBVIOUS
        <5>4. \A a, b \in Nat : a + b \in Nat
          OBVIOUS
        <5>5. QED  BY <4>0, <5>1, <5>2, <5>3, <5>4
      <4>2. w_piece' = WPath!Piece(w_piece.addr + MaxSize, w_left - MaxSize, FALSE)
            /\ w_left' = w_left - MaxSize /\ w_split' = "RUN"
        BY <2>2, <3>3 DEF WPath!Run, MaxSize
      <4>3. QED  BY <3>3, <4>1, <4>2, <1>5 DEF Cut
    <3>4. QED  BY <3>1, <3>2, <3>3
  <2>3. QED  BY <1>1, <2>1, <2>2
<1>7. QED  BY <1>3, <1>4, <1>6 DEF ready
-----------------------------------------------------------------------------
(* The cycles.                                                                 *)

\* What the environment may do in a cycle.
Input(r_we, w_we, enable, cmp) ==
  /\ r_we \in Offer(Descriptor) /\ w_we \in Offer(Descriptor)
  /\ enable \in BOOLEAN /\ (enable /\ ~on => Quiet)
  /\ cmp = <<>> \/ (reads # <<>> /\ cmp = <<Completion>>)

LEMMA StrobeIsDescriptor ==
  ASSUME NEW descs \in Seq([addr : Nat, length : Nat \ {0}]), NEW n \in Nat, NEW refill,
         NEW we \in Strobes(descs, n, refill)
  PROVE  we \in Offer(Descriptor) /\ Len(we) \in Nat
<1>1. CASE we = <<>>
  BY <1>1 DEF Offer
<1>2. CASE n < Len(descs) /\ we = <<Desc(descs[n + 1])>>
  <2>1. descs[n + 1] \in [addr : Nat, length : Nat \ {0}]
    <3>1. n + 1 \in 1 .. Len(descs)
      BY <1>2
    <3>2. QED  BY <3>1, ElementOfSeq
  <2>2. Desc(descs[n + 1]) \in Descriptor
    BY <2>1 DEF Desc, Descriptor
  <2>3. QED  BY <1>2, <2>2 DEF Offer
<1>3. QED  BY <1>1, <1>2 DEF Strobes

LEMMA NextIsClock ==
  ASSUME TypeInv, Next
  PROVE  \E r_we, w_we, enable, reset, r_ready, w_ready, cmp, pps :
           /\ Input(r_we, w_we, enable, cmp)
           /\ on' = enable /\ programmed' \in Nat \X Nat
           /\ Clock(r_we, w_we, reset, r_ready, w_ready, cmp, pps)
<1>1. PICK r_we \in Strobes(ReadDescs, programmed[1], r_refill),
           w_we \in Strobes(WriteDescs, programmed[2], w_refill),
           enable \in Enables, reset \in Resets,
           r_ready \in Maybe(Ctrl!Requests), w_ready \in Maybe(Ctrl!Writes),
           answers \in Maybe(reads # <<>>), pps \in Maybe(~synced) :
        /\ Software(r_we, w_we, reset, enable)
        /\ Clock(r_we, w_we, reset, r_ready, w_ready, IF answers THEN <<Completion>> ELSE <<>>, pps)
  BY Zenon DEF Next
<1>2. programmed[1] \in Nat /\ programmed[2] \in Nat
  BY DEF TypeInv
<1>3. r_we \in Offer(Descriptor) /\ w_we \in Offer(Descriptor)
      /\ Len(r_we) \in Nat /\ Len(w_we) \in Nat
  BY <1>2, StrobeIsDescriptor, DescsAssumption
<1>4. on' = enable /\ programmed' \in Nat \X Nat
  BY <1>1, <1>2, <1>3 DEF Software
<1>5. enable \in BOOLEAN /\ (enable /\ ~on => Quiet)
  BY DEF Enables
<1>6. answers => reads # <<>>
  BY DEF Maybe
<1>7. Input(r_we, w_we, enable, IF answers THEN <<Completion>> ELSE <<>>)
  BY <1>3, <1>5, <1>6 DEF Input
<1>8. QED  BY <1>1, <1>4, <1>7, Zenon

-----------------------------------------------------------------------------
(* The bus.                                                                    *)
LEMMA CompletionType ==
  ASSUME reads \in Seq(Read), reads # <<>>
  PROVE  /\ Completion \in [data : Nat, id : Nat, first : BOOLEAN, last : BOOLEAN]
         /\ Ctrl!WordOf(Completion) \in Word
<1>1. reads[1] \in Read
  BY Shortened
<1>2. reads[1].word \in Nat /\ reads[1].id \in Nat /\ reads[1].first \in BOOLEAN
      /\ (reads[1].left = 1) \in BOOLEAN
  BY <1>1 DEF Read
<1>3. Completion \in [data : Nat, id : Nat, first : BOOLEAN, last : BOOLEAN]
  BY <1>2 DEF Completion
<1>4. (Completion.first /\ Completion.id # last_id) \in BOOLEAN
  OBVIOUS
<1>5. QED  BY <1>3, <1>4 DEF Ctrl!WordOf, Word

LEMMA ServedType ==
  ASSUME reads \in Seq(Read), reads # <<>>
  PROVE  Served \in Seq(Read)
<1>1. reads[1] \in Read /\ Tail(reads) \in Seq(Read)
  BY Shortened
<1>2. CASE reads[1].left # 1
  <2> DEFINE r == [[[reads[1] EXCEPT !.word = @ + 1] EXCEPT !.left = @ - 1] EXCEPT !.first = FALSE]
  <2>1. r \in Read
    <3>1. \A x \in Read : x.left # 1 =>
            [[[x EXCEPT !.word = @ + 1] EXCEPT !.left = @ - 1] EXCEPT !.first = FALSE] \in Read
      <4>1. \A x \in Read : [x EXCEPT !.word = @ + 1].left = x.left
        BY DEF Read
      <4>0. \A x \in Read : [x EXCEPT !.word = @ + 1] \in Read
        <5>1. \A n \in Nat : n + 1 \in Nat
          OBVIOUS
        <5>2. \A x \in Read : x.word \in Nat
          BY DEF Read
        <5>3. \A x \in Read, n \in Nat : [x EXCEPT !.word = n] \in Read
          BY DEF Read
        <5>4. QED  BY <5>1, <5>2, <5>3
      <4>2. \A x \in Read : x.left # 1 => [x EXCEPT !.left = @ - 1] \in Read
        BY SMTT(30) DEF Read
      <4>3. \A x \in Read : [x EXCEPT !.first = FALSE] \in Read
        BY DEF Read
      <4>4. QED  BY <4>0, <4>1, <4>2, <4>3
    <3>2. QED  BY <1>1, <1>2, <3>1
  <2>2. Served = [reads EXCEPT ![1] = r]
    BY <1>2 DEF Served
  <2>3. QED  BY <2>1, <2>2, ExceptSeq, Shortened
<1>3. QED  BY <1>1, <1>2 DEF Served

LEMMA RequestType ==
  ASSUME TypeInv, r_split = "RUN"
  PROVE  Request \in Read /\ Request.left \in 1 .. MaxWords
<1>1. r_piece \in Piece
  BY DEF TypeInv, Cut
<1>2. r_piece.addr \in Nat /\ r_piece.length \in 1 .. MaxSize
  BY <1>1 DEF Piece
<1>3. Ctrl!Words(r_piece.length) \in 1 .. MaxWords /\ MaxWords \in Nat
  BY <1>2, WordsOfPiece, SizesAssumption
<1>4. r_piece.addr \div WordBytes \in Nat
  BY <1>2, SizesAssumption
<1>5. QED  BY <1>3, <1>4, SMTT(30) DEF Request, Read, TypeInv

-----------------------------------------------------------------------------
(* Adding up what is at the bus.                                               *)
LEMMA NothingAddsUp ==
  ASSUME NEW s, s = <<>>
  PROVE  AddUpTo(s, 0)
<1>1. Len(s) = 0
  BY EmptySeq
<1> DEFINE sum == [i \in 0 .. Len(s) |-> 0]
<1>2. sum \in [0 .. Len(s) -> 0 .. FifoDepth] /\ \A i \in 0 .. Len(s) : sum[i] = 0
  BY SizesAssumption
<1>3. 0 .. Len(s) = {0} /\ 1 .. Len(s) = {}
  BY <1>1
<1> HIDE DEF sum
<1>4. QED  BY <1>1, <1>2, <1>3 DEF AddUpTo

LEMMA SomethingAddsUp ==
  ASSUME NEW s \in Seq(Read), s # <<>>, NEW total, AddUpTo(s, total)
  PROVE  total \in 1 .. FifoDepth
<1>1. PICK sum \in [0 .. Len(s) -> 0 .. FifoDepth] :
        /\ sum[0] = 0 /\ sum[Len(s)] = total
        /\ \A i \in 1 .. Len(s) : sum[i] = sum[i - 1] + s[i].left
        /\ \A i \in 0 .. Len(s) : sum[i] <= total
  BY DEF AddUpTo
<1>2. Len(s) \in Nat /\ Len(s) > 0 /\ s[1] \in Read
  BY Shortened
<1>3. s[1].left \in Nat \ {0}
  BY <1>2 DEF Read
<1>4. sum[1] = s[1].left /\ sum[1] <= total
  BY <1>1, <1>2, <1>3
<1>5. total \in 0 .. FifoDepth
  BY <1>1, <1>2
<1>6. QED  BY <1>3, <1>4, <1>5, SizesAssumption

\* A word that is served is one less.
LEMMA ServedAddsUp ==
  ASSUME reads \in Seq(Read), reads # <<>>, NEW total, AddUpTo(reads, total)
  PROVE  AddUpTo(Served, total - 1)
<1> DEFINE n == Len(reads)
<1>1. PICK sum \in [0 .. n -> 0 .. FifoDepth] :
        /\ sum[0] = 0 /\ sum[n] = total
        /\ \A i \in 1 .. n : sum[i] = sum[i - 1] + reads[i].left
        /\ \A i \in 0 .. n : sum[i] <= total
  BY DEF AddUpTo
<1>2. n \in Nat /\ n > 0 /\ reads[1] \in Read /\ Tail(reads) \in Seq(Read)
      /\ Len(Tail(reads)) = n - 1 /\ \A i \in 1 .. n - 1 : Tail(reads)[i] = reads[i + 1]
  BY Shortened
<1>3. total \in 1 .. FifoDepth /\ FifoDepth \in Nat
  BY SomethingAddsUp, SizesAssumption
<1>4. \A i \in 1 .. n : reads[i].left \in Nat \ {0}
  <2>1. \A x \in Read : x.left \in Nat \ {0}
    BY DEF Read
  <2>2. QED  BY <2>1, ElementOfSeq
<1>5. CASE reads[1].left = 1
  <2> DEFINE less == [i \in 0 .. n - 1 |-> sum[i + 1] - 1]
  <2>1. \A i \in 1 .. n : sum[i] \in 0 .. FifoDepth /\ sum[i - 1] \in 0 .. FifoDepth
    BY <1>1, <1>2
  <2>2. sum[1] = 1
    BY <1>1, <1>2, <1>5
  <2>3. ASSUME NEW i \in 1 .. n PROVE sum[i] # 0
    <3>1. sum[i] = sum[i - 1] + reads[i].left /\ sum[i - 1] \in 0 .. FifoDepth
          /\ reads[i].left \in Nat \ {0}
      BY <1>1, <1>4, <2>1
    <3>2. QED  BY <3>1
  <2>4. \A i \in 0 .. n - 1 : less[i] \in 0 .. FifoDepth /\ less[i] <= total - 1
    BY <1>1, <1>2, <1>3, <2>1, <2>3
  <2>5. less \in [0 .. n - 1 -> 0 .. FifoDepth]
    BY <2>4
  <2>6. less[0] = 0 /\ less[n - 1] = total - 1
    BY <1>1, <1>2, <2>2
  <2>7. \A i \in 1 .. n - 1 : less[i] = less[i - 1] + Tail(reads)[i].left
    BY <1>1, <1>2, <1>4, <2>1, SMTT(30)
  <2>8. Served = Tail(reads)
    BY <1>5 DEF Served
  <2> HIDE DEF less
  <2>9. QED  BY <1>2, <2>4, <2>5, <2>6, <2>7, <2>8 DEF AddUpTo
<1>6. CASE reads[1].left # 1
  <2> DEFINE less == [i \in 0 .. n |-> IF i = 0 THEN 0 ELSE sum[i] - 1]
  <2>1. \A i \in 1 .. n : sum[i] \in 0 .. FifoDepth /\ sum[i - 1] \in 0 .. FifoDepth
    BY <1>1, <1>2
  <2>2. sum[1] = reads[1].left
    BY <1>1, <1>2, <1>4
  <2>3. ASSUME NEW i \in 1 .. n PROVE sum[i] # 0
    <3>1. sum[i] = sum[i - 1] + reads[i].left /\ sum[i - 1] \in 0 .. FifoDepth
          /\ reads[i].left \in Nat \ {0}
      BY <1>1, <1>4, <2>1
    <3>2. QED  BY <3>1
  <2>4. \A i \in 0 .. n : less[i] \in 0 .. FifoDepth /\ less[i] <= total - 1
    BY <1>1, <1>2, <1>3, <2>1, <2>3
  <2>5. less \in [0 .. n -> 0 .. FifoDepth]
    BY <2>4
  <2>6. less[0] = 0 /\ less[n] = total - 1
    BY <1>1, <1>2, <2>2
  <2>7. Len(Served) = n /\ \A i \in 1 .. n : Served[i].left = IF i = 1 THEN reads[1].left - 1 ELSE reads[i].left
    <3>1. reads \in [1 .. n -> Read]
      BY LenProperties
    <3> DEFINE r == [[[reads[1] EXCEPT !.word = @ + 1] EXCEPT !.left = @ - 1] EXCEPT !.first = FALSE]
    <3>2. r.left = reads[1].left - 1
      BY <1>2 DEF Read
    <3>3. Served = [reads EXCEPT ![1] = r]
      BY <1>6 DEF Served
    <3> HIDE DEF r
    <3>4. Len(Served) = n
      BY <3>1, <3>3, <1>2, ServedType, LenProperties
    <3>5. QED  BY <3>1, <3>2, <3>3, <3>4, <1>2
  <2>8. ASSUME NEW i \in 1 .. n PROVE less[i] = less[i - 1] + Served[i].left
    <3>1. CASE i = 1
      BY <3>1, <1>2, <1>4, <2>2, <2>7
    <3>2. CASE i # 1
      <4>1. sum[i] = sum[i - 1] + reads[i].left /\ sum[i - 1] \in 0 .. FifoDepth
            /\ reads[i].left \in Nat \ {0}
        BY <1>1, <1>4, <2>1
      <4>2. less[i] = sum[i] - 1 /\ less[i - 1] = sum[i - 1] - 1 /\ Served[i].left = reads[i].left
        BY <3>2, <1>2, <2>7
      <4> HIDE DEF less
      <4>3. QED  BY <4>1, <4>2
    <3>3. QED  BY <3>1, <3>2
  <2> HIDE DEF less
  <2>9. QED  BY <1>2, <2>4, <2>5, <2>6, <2>7, <2>8 DEF AddUpTo
<1>7. QED  BY <1>5, <1>6

\* A request adds its words.
LEMMA RequestAddsUp ==
  ASSUME NEW s \in Seq(Read), NEW r \in Read, NEW total \in Nat, AddUpTo(s, total),
         total + r.left <= FifoDepth
  PROVE  AddUpTo(s \o <<r>>, total + r.left)
<1> DEFINE n == Len(s)
           t == s \o <<r>>
<1>1. PICK sum \in [0 .. n -> 0 .. FifoDepth] :
        /\ sum[0] = 0 /\ sum[n] = total
        /\ \A i \in 1 .. n : sum[i] = sum[i - 1] + s[i].left
        /\ \A i \in 0 .. n : sum[i] <= total
  BY DEF AddUpTo
<1>2. n \in Nat /\ r.left \in Nat \ {0} /\ FifoDepth \in Nat
  BY SizesAssumption, LenProperties DEF Read
<1>3. Len(t) = n + 1 /\ (\A i \in 1 .. n : t[i] = s[i]) /\ t[n + 1] = r
  <2>1. <<r>> \in Offer(Read) /\ <<r>> # <<>> /\ Len(<<r>>) = 1 /\ <<r>>[1] = r
    BY DEF Offer
  <2>2. QED  BY <2>1, Appended
<1> DEFINE more == [i \in 0 .. n + 1 |-> IF i = n + 1 THEN total + r.left ELSE sum[i]]
<1>4. \A i \in 0 .. n : sum[i] \in 0 .. FifoDepth /\ sum[i] <= total /\ more[i] = sum[i]
  BY <1>1, <1>2, SMTT(30)
<1>5. more[n + 1] = total + r.left
  BY <1>2
<1>6. ASSUME NEW i \in 0 .. n + 1
      PROVE  more[i] \in 0 .. FifoDepth /\ more[i] <= total + r.left
  <2>1. CASE i = n + 1
    BY <2>1, <1>2, <1>5
  <2>2. CASE i \in 0 .. n
    <3> HIDE DEF more
    <3>1. more[i] \in 0 .. FifoDepth /\ more[i] <= total
      BY <2>2, <1>4
    <3>2. QED  BY <3>1, <1>2
  <2>3. QED  BY <2>1, <2>2, <1>2
<1>7. more \in [0 .. n + 1 -> 0 .. FifoDepth]
  BY <1>6
<1>8. \A i \in 1 .. n + 1 : more[i] = more[i - 1] + t[i].left
  <2> HIDE DEF more, t
  <2>1. ASSUME NEW i \in 1 .. n PROVE more[i] = more[i - 1] + t[i].left
    <3>1. more[i] = sum[i] /\ more[i - 1] = sum[i - 1] /\ t[i] = s[i]
      BY <1>2, <1>3, <1>4
    <3>2. QED  BY <1>1, <3>1
  <2>2. more[n + 1] = more[n] + t[n + 1].left
    BY <1>1, <1>2, <1>3, <1>4, <1>5
  <2>3. \A i \in 1 .. n + 1 : i \in 1 .. n \/ (i = n + 1 /\ i - 1 = n)
    BY <1>2
  <2>4. QED  BY <2>1, <2>2, <2>3
<1>9. more[0] = 0
  BY <1>1, <1>2
<1> HIDE DEF more, t
<1>10. QED  BY <1>2, <1>3, <1>5, <1>6, <1>7, <1>8, <1>9 DEF AddUpTo, t

-----------------------------------------------------------------------------
(* The read controller: the completion that it is given, the word that is      *)
(* taken from it and the words of the request that is accepted.                *)
Given(cmp) == IF Ctrl!CmpReady(on) THEN cmp ELSE <<>>
Taken(out_ready) == IF r_fifo # <<>> /\ out_ready THEN 1 ELSE 0
Queue(r_ready) ==
  IF RPath!Offers /\ Ctrl!ReaderReady(r_ready) THEN Ctrl!Words(r_piece.length) ELSE 0

\* What the bus takes and gives in a cycle, and the words of it.
LEMMA BusStep ==
  ASSUME TypeInv, Room, NEW r_ready, NEW cmp,
         cmp = <<>> \/ (reads # <<>> /\ cmp = <<Completion>>),
         BusReads(r_ready, cmp)
  PROVE  /\ reads' \in Seq(Read)
         /\ Queue(r_ready) \in 0 .. MaxWords
         /\ Queue(r_ready) = 0 \/ (r_state = "REQUEST" /\ r_ready)
         /\ ~Ctrl!Requests => reads' = IF Given(cmp) # <<>> THEN Served ELSE reads
         /\ \A total \in 0 .. FifoDepth :
              AddUpTo(reads, total) /\ total - Len(Given(cmp)) + Queue(r_ready) <= FifoDepth
              => AddUpTo(reads', total - Len(Given(cmp)) + Queue(r_ready))
<1> DEFINE given == Given(cmp)
           queue == Queue(r_ready)
           rest  == IF given # <<>> THEN Served ELSE reads
<1>0. /\ reads \in Seq(Read) /\ FifoDepth \in Nat /\ MaxWords \in Nat
      /\ (given = <<>> /\ Len(given) = 0) \/ (given = <<Completion>> /\ Len(given) = 1)
      /\ given # <<>> => reads # <<>>
  BY EmptySeq, SizesAssumption DEF TypeInv, Given
<1>1. rest \in Seq(Read)
  BY <1>0, ServedType
<1>2. \A total \in 0 .. FifoDepth : AddUpTo(reads, total) =>
        total - Len(given) \in Nat /\ AddUpTo(rest, total - Len(given))
  <2>1. CASE given = <<>>
    <3>1. \A total \in 0 .. FifoDepth : total - 0 = total /\ total \in Nat
      BY <1>0
    <3>2. QED  BY <1>0, <2>1, <3>1
  <2>2. CASE given # <<>>
    <3>1. \A total \in 0 .. FifoDepth : AddUpTo(reads, total) =>
            total \in 1 .. FifoDepth /\ AddUpTo(Served, total - 1)
      BY <1>0, <2>2, SomethingAddsUp, ServedAddsUp
    <3>2. \A total \in 1 .. FifoDepth : total - 1 \in Nat
      BY <1>0
    <3>3. rest = Served /\ Len(given) = 1
      BY <1>0, <2>2
    <3> HIDE DEF rest, given
    <3>4. QED  BY <3>1, <3>2, <3>3
  <2>3. QED  BY <2>1, <2>2
<1> HIDE DEF given
<1>3. reads' = rest \o (IF Ctrl!Requests /\ r_ready THEN <<Request>> ELSE <<>>)
  BY DEF BusReads, Given, given
<1>4. CASE Ctrl!Requests /\ r_ready
  <2>1. r_split = "RUN" /\ r_state = "REQUEST"
    BY <1>4 DEF Ctrl!Requests, Room
  <2>2. Request \in Read /\ Request.left \in 1 .. MaxWords /\ queue = Request.left
    BY <1>4, <2>1, RequestType DEF Queue, RPath!Offers, Ctrl!ReaderReady, Request
  <2>3. reads' = rest \o <<Request>> /\ <<Request>> \in Seq(Read)
    BY <1>3, <1>4, <2>2
  <2>4. reads' \in Seq(Read)
    BY <1>1, <2>3, ConcatProperties
  <2> HIDE DEF rest, queue
  <2>5. \A total \in 0 .. FifoDepth :
          AddUpTo(reads, total) /\ total - Len(given) + queue <= FifoDepth
          => AddUpTo(reads', total - Len(given) + queue)
    <3>1. \A k \in Nat : AddUpTo(rest, k) /\ k + Request.left <= FifoDepth
            => AddUpTo(rest \o <<Request>>, k + Request.left)
      BY <1>1, <2>2, RequestAddsUp
    <3>2. QED  BY <1>2, <2>2, <2>3, <3>1
  <2>6. queue \in 0 .. MaxWords
    BY <2>2, <1>0
  <2>7. QED  BY <1>4, <2>1, <2>4, <2>5, <2>6 DEF queue, given, rest
<1>5. CASE ~(Ctrl!Requests /\ r_ready)
  <2>1. queue = 0
    BY <1>5 DEF Queue, Ctrl!ReaderReady
  <2>2. reads' = rest
    BY <1>1, <1>3, <1>5, ConcatEmptySeq
  <2> HIDE DEF rest, queue
  <2>3. \A total \in 0 .. FifoDepth :
          AddUpTo(reads, total) => AddUpTo(reads', total - Len(given) + queue)
    <3>1. \A k \in Nat : k + 0 = k
      OBVIOUS
    <3>2. QED  BY <1>2, <2>1, <2>2, <3>1
  <2>4. queue \in 0 .. MaxWords
    BY <2>1, <1>0
  <2>5. QED  BY <1>1, <2>1, <2>2, <2>3, <2>4 DEF queue, given, rest
<1>6. QED  BY <1>4, <1>5

\* The FIFO of the reader loses the word that is taken and gains the one that
\* is given.
LEMMA ReaderFifoStep ==
  ASSUME TypeInv, NEW r_ready, NEW cmp, NEW out_ready,
         cmp = <<>> \/ (reads # <<>> /\ cmp = <<Completion>>),
         Ctrl!ReaderStep(on, RPath!Offers, r_piece.length, r_ready, cmp, out_ready)
  PROVE  /\ r_fifo' \in Seq(Word)
         /\ Len(Given(cmp)) \in {0, 1} /\ Taken(out_ready) \in {0, 1}
         /\ on => Len(r_fifo') = Len(r_fifo) + Len(Given(cmp)) - Taken(out_ready)
         /\ Taken(out_ready) <= Len(r_fifo)
         /\ ~on /\ r_state = "IDLE" => r_fifo' = <<>>
<1> DEFINE given == IF Ctrl!CmpReady(on) THEN cmp ELSE <<>>
           taken == r_fifo # <<>> /\ out_ready
           rest  == IF taken THEN Tail(r_fifo) ELSE r_fifo
           added == [i \in DOMAIN given |-> Ctrl!WordOf(given[i])]
<1>0. r_fifo \in Seq(Word) /\ reads \in Seq(Read) /\ Len(r_fifo) \in Nat
  BY LenProperties DEF TypeInv
<1>1. /\ rest \in Seq(Word) /\ Len(rest) = Len(r_fifo) - (IF taken THEN 1 ELSE 0)
      /\ taken => Len(r_fifo) > 0
  BY <1>0, Shortened
<1>2. r_fifo' = IF on THEN rest \o added ELSE IF r_state = "IDLE" THEN <<>> ELSE rest
  BY DEF Ctrl!ReaderStep
<1>3. added \in Offer(Word) /\ Len(added) = Len(given) /\ Len(given) \in {0, 1}
  <2>1. CASE given = <<>>
    <3>1. added = <<>>
      BY <2>1, Received
    <3>2. QED  BY <2>1, <3>1 DEF Offer
  <2>2. CASE given # <<>>
    <3>1. given = <<Completion>> /\ Ctrl!WordOf(Completion) \in Word
      BY <1>0, <2>2, CompletionType
    <3>2. added = <<Ctrl!WordOf(Completion)>>
      BY <3>1, Received
    <3> HIDE DEF added, given
    <3>3. QED  BY <3>1, <3>2 DEF Offer
  <2>3. QED  BY <2>1, <2>2
<1> HIDE DEF added, given, rest, taken
<1>4. rest \o added \in Seq(Word) /\ Len(rest \o added) = Len(rest) + Len(added)
  BY <1>1, <1>3, Appended
<1>5. on => Len(r_fifo') = Len(r_fifo) + Len(given) - (IF taken THEN 1 ELSE 0)
  <2>1. \A k \in Nat, a, b \in {0, 1} : k - b + a = k + a - b
    OBVIOUS
  <2>2. (IF taken THEN 1 ELSE 0) \in {0, 1}
    OBVIOUS
  <2>3. QED  BY <1>0, <1>1, <1>2, <1>3, <1>4, <2>1, <2>2
<1>6. r_fifo' \in Seq(Word)
  BY <1>1, <1>2, <1>4, EmptySeq
<1>7. given = Given(cmp) /\ Taken(out_ready) = (IF taken THEN 1 ELSE 0)
  BY DEF given, taken, Given, Taken
<1>8. Taken(out_ready) \in {0, 1} /\ Taken(out_ready) <= Len(r_fifo)
  BY <1>0, <1>1, <1>7
<1>9. Len(Given(cmp)) \in {0, 1}
      /\ (on => Len(r_fifo') = Len(r_fifo) + Len(Given(cmp)) - Taken(out_ready))
  BY <1>3, <1>5, <1>7
<1>10. QED  BY <1>2, <1>6, <1>8, <1>9

\* The words that are pending are counted right: pending never wraps.
LEMMA PendingStep ==
  ASSUME TypeInv, Room, on,
         NEW r_ready, NEW cmp, NEW out_ready,
         cmp = <<>> \/ (reads # <<>> /\ cmp = <<Completion>>),
         BusReads(r_ready, cmp),
         Ctrl!ReaderStep(on, RPath!Offers, r_piece.length, r_ready, cmp, out_ready)
  PROVE  /\ pending' \in 0 .. FifoDepth
         /\ Counted'
         /\ Queue(r_ready) = 0 => pending' <= pending
<1> DEFINE given == Given(cmp)
           less  == Taken(out_ready)
           queue == Queue(r_ready)
           total == pending - Len(r_fifo)
<1>1. pending' = (pending + queue + PendingBound - less) % PendingBound
  BY DEF Ctrl!ReaderStep, Taken, Queue
<1>2. /\ Len(r_fifo') = Len(r_fifo) + Len(given) - less
      /\ Len(given) \in {0, 1} /\ less \in {0, 1}
      /\ less <= Len(r_fifo)
  BY ReaderFifoStep
<1>3. /\ queue \in 0 .. MaxWords
      /\ queue = 0 \/ (r_state = "REQUEST" /\ r_ready)
      /\ \A t \in 0 .. FifoDepth :
           AddUpTo(reads, t) /\ t - Len(given) + queue <= FifoDepth
           => AddUpTo(reads', t - Len(given) + queue)
  BY BusStep
<1> HIDE DEF given, queue, less
<1>4. /\ AddUpTo(reads, total)
      /\ r_state = "REQUEST" => pending < FifoDepth - MaxWords
  BY DEF Room, Counted
<1>5. /\ Len(r_fifo) \in Nat /\ pending \in 0 .. FifoDepth
      /\ FifoDepth \in Nat /\ MaxWords \in Nat /\ PendingBound \in Nat /\ PendingBound > FifoDepth
  BY SizesAssumption, LenProperties DEF TypeInv
<1>6. total \in 0 .. FifoDepth /\ total >= Len(given)
  <2>1. CASE reads = <<>>
    <3>1. PICK sum \in [0 .. Len(reads) -> 0 .. FifoDepth] : sum[0] = 0 /\ sum[Len(reads)] = total
      BY <1>4 DEF AddUpTo
    <3>2. Len(reads) = 0
      BY <2>1, EmptySeq
    <3>3. given = <<>>
      BY <2>1 DEF given, Given
    <3>4. total = 0 /\ Len(given) = 0
      BY <3>1, <3>2, <3>3, EmptySeq
    <3>5. QED  BY <3>4, <1>5
  <2>2. CASE reads # <<>>
    <3>1. total \in 1 .. FifoDepth
      BY <1>4, <2>2, SomethingAddsUp DEF TypeInv
    <3>2. \A t \in 1 .. FifoDepth, k \in {0, 1} : t \in 0 .. FifoDepth /\ t >= k
      OBVIOUS
    <3>3. QED  BY <3>1, <3>2, <1>2
  <2>3. QED  BY <2>1, <2>2
<1>7. pending + queue - less \in 0 .. FifoDepth
  BY <1>2, <1>3, <1>4, <1>5, <1>6
<1>8. pending' = pending + queue - less
  <2>1. \A x \in 0 .. FifoDepth : (x + PendingBound) % PendingBound = x
    BY <1>5
  <2>2. pending + queue + PendingBound - less = (pending + queue - less) + PendingBound
    BY <1>2, <1>3, <1>5
  <2>3. QED  BY <1>1, <1>7, <2>1, <2>2
<1>9. Counted'
  <2>1. total - Len(given) + queue <= FifoDepth
    BY <1>2, <1>3, <1>4, <1>5, <1>6
  <2>2. AddUpTo(reads', total - Len(given) + queue)
    BY <1>3, <1>4, <1>6, <2>1
  <2>3. pending' - Len(r_fifo)' = (pending + queue - less) - (Len(r_fifo) + Len(given) - less)
    BY <1>2, <1>8
  <2>4. (pending + queue - less) - (Len(r_fifo) + Len(given) - less) = total - Len(given) + queue
    BY <1>2, <1>3, <1>5
  <2>5. (AddUpTo(reads, pending - Len(r_fifo)))' <=> AddUpTo(reads', pending' - Len(r_fifo)')
    BY DEF AddUpTo
  <2>6. QED  BY <2>2, <2>3, <2>4, <2>5 DEF Counted
<1>10. queue = 0 => pending' <= pending
  BY <1>2, <1>5, <1>8
<1>11. QED  BY <1>7, <1>8, <1>9, <1>10 DEF queue

LEMMA RoomStep ==
  ASSUME TypeInv, Room, NEW r_we, NEW w_we, NEW enable, NEW reset, NEW r_ready, NEW w_ready,
         NEW cmp, NEW pps,
         Input(r_we, w_we, enable, cmp), on' = enable,
         Clock(r_we, w_we, reset, r_ready, w_ready, cmp, pps)
  PROVE  /\ Room' /\ pending' \in 0 .. FifoDepth /\ r_state' \in {"IDLE", "REQUEST"}
         /\ r_fifo' \in Seq(Word) /\ reads' \in Seq(Read)
<1> DEFINE out_ready == SinkReady(Ctrl!InReady(on))
<1>1. /\ RPath!Step(r_we, looping, TableReset(reset), Ctrl!ReaderReady(r_ready))
      /\ Ctrl!ReaderStep(on, RPath!Offers, r_piece.length, r_ready, cmp, out_ready)
      /\ BusReads(r_ready, cmp)
  BY DEF Clock
<1> HIDE DEF out_ready
<1>2. /\ r_we \in Offer(Descriptor) /\ enable \in BOOLEAN /\ (enable /\ ~on => Quiet)
      /\ cmp = <<>> \/ (reads # <<>> /\ cmp = <<Completion>>)
  BY DEF Input
<1>3. r_fifo' \in Seq(Word) /\ (~on /\ r_state = "IDLE" => r_fifo' = <<>>)
  BY <1>1, <1>2, ReaderFifoStep
<1>4. reads' \in Seq(Read)
  BY <1>1, <1>2, BusStep
<1>5. r_state' = IF r_state = "REQUEST" THEN (IF r_ready THEN "IDLE" ELSE "REQUEST")
                 ELSE IF on /\ RPath!Offers /\ Ctrl!HasRoom THEN "REQUEST" ELSE "IDLE"
  BY <1>1 DEF Ctrl!ReaderStep
<1>6. r_split = "RUN" /\ ~Ctrl!ReaderReady(r_ready) => r_split' = "RUN"
  BY <1>1, <1>2, ReadPathStep
<1>7. r_state' = "REQUEST" => r_split' = "RUN"
  BY <1>5, <1>6 DEF Ctrl!ReaderReady, Ctrl!Requests, RPath!Offers, Room
<1>8. CASE on
  <2>1. pending' \in 0 .. FifoDepth /\ Counted'
    BY <1>1, <1>2, <1>8, PendingStep
  <2>2. Queue(r_ready) = 0 => pending' <= pending
    BY <1>1, <1>2, <1>8, PendingStep
  <2>3. r_state' = "REQUEST" => pending < FifoDepth - MaxWords /\ Queue(r_ready) = 0
    BY <1>5, <1>8 DEF Room, Ctrl!HasRoom, Queue, Ctrl!ReaderReady, Ctrl!Requests
  <2>4. r_state' = "REQUEST" => pending' < FifoDepth - MaxWords
    <3>1. \A a, b \in Nat, c \in Int : a <= b /\ b < c => a < c
      OBVIOUS
    <3>2. pending \in Nat /\ FifoDepth - MaxWords \in Int /\ pending' \in Nat
      BY <2>1, SizesAssumption DEF TypeInv
    <3>3. QED  BY <2>2, <2>3, <3>1, <3>2
  <2>5. QED  BY <1>3, <1>4, <1>5, <1>7, <2>1, <2>4 DEF Room
<1>9. CASE ~on
  <2>1. pending' = 0
    BY <1>1, <1>9 DEF Ctrl!ReaderStep
  <2>2. pending' \in 0 .. FifoDepth
    BY <2>1, SizesAssumption
  <2>3. ASSUME enable PROVE Counted' /\ r_state' = "IDLE"
    <3>1. r_state = "IDLE" /\ reads = <<>>
      BY <1>2, <1>9, <2>3 DEF Quiet
    <3>2. r_state' = "IDLE" /\ r_fifo' = <<>>
      BY <1>3, <1>5, <1>9, <3>1
    <3>3. reads' = <<>>
      <4>1. Given(cmp) = <<>>
        BY <1>2, <3>1 DEF Given
      <4>2. ~Ctrl!Requests
        BY <3>1 DEF Ctrl!Requests
      <4>3. QED  BY <1>1, <1>2, <3>1, <4>1, <4>2, BusStep
    <3>4. AddUpTo(reads', 0) /\ pending' - Len(r_fifo)' = 0
      <4>1. AddUpTo(reads', 0)
        BY <3>3, NothingAddsUp
      <4>2. Len(r_fifo') = 0
        BY <3>2, EmptySeq
      <4>3. QED  BY <2>1, <4>1, <4>2
    <3>5. (AddUpTo(reads, pending - Len(r_fifo)))' <=> AddUpTo(reads', pending' - Len(r_fifo)')
      BY DEF AddUpTo
    <3>6. QED  BY <3>2, <3>4, <3>5 DEF Counted
  <2>4. QED  BY <1>3, <1>4, <1>5, <1>7, <2>2, <2>3 DEF Room
<1>10. QED  BY <1>8, <1>9

-----------------------------------------------------------------------------
(* The plugins, and what they offer to the writer.                             *)
LEMMA PluginsType ==
  ASSUME TypeInv, NEW offered \in Offer(Word), NEW pps, NEW source_ready,
         PluginsStep(pps, offered, source_ready)
  PROVE  rbuf' \in Seq(Word) /\ wbuf' \in Seq(Word) /\ Source(offered) \in Offer(Word)
<1> DEFINE enters  == IF setup.buffered /\ SinkReady(source_ready) THEN offered ELSE <<>>
           through == IF rbuf # <<>> /\ Len(wbuf) < BufferDepth THEN <<Head(rbuf)>> ELSE <<>>
           leaves  == wbuf # <<>> /\ (synced => source_ready)
           r_rest  == IF through # <<>> THEN Tail(rbuf) ELSE rbuf
           w_rest  == IF leaves THEN Tail(wbuf) ELSE wbuf
<1>1. rbuf \in Seq(Word) /\ wbuf \in Seq(Word) /\ <<>> \in Offer(Word) /\ <<>> \in Seq(Word)
  BY EmptySeq DEF TypeInv, Offer
<1>2. enters \in Offer(Word)
  BY <1>1
<1>3. through \in Offer(Word) /\ r_rest \in Seq(Word)
  BY <1>1, Shortened
<1>4. w_rest \in Seq(Word)
  BY <1>1, Shortened
<1>5. rbuf' = (IF ~on THEN <<>> ELSE r_rest \o enters)
      /\ wbuf' = (IF ~on THEN <<>> ELSE w_rest \o through)
  BY DEF PluginsStep
<1>6. Source(offered) \in Offer(Word)
  BY <1>1, Shortened DEF Source
<1> HIDE DEF enters, through, leaves, r_rest, w_rest
<1>7. r_rest \o enters \in Seq(Word) /\ w_rest \o through \in Seq(Word)
  BY <1>2, <1>3, <1>4, Appended
<1>8. QED  BY <1>1, <1>5, <1>6, <1>7

-----------------------------------------------------------------------------
(* The write controller: while it writes a piece, its splitter stands still.   *)
LEMMA WriterStep ==
  ASSUME TypeInv, Data, NEW w_we \in Offer(Descriptor), NEW in \in Offer(Word), NEW w_ready,
         Ctrl!WriterStep(on, WPath!Offers, w_piece.length, nolast, in, w_ready),
         WPath!Step(w_we, looping, FALSE, Ctrl!WriterReady(w_piece.length, w_ready))
  PROVE  /\ w_state' \in {"IDLE", "WRITE"} /\ req_count' \in Nat /\ w_fifo' \in Seq(Word)
         /\ Data'
<1> DEFINE given == IF on /\ Ctrl!InReady(on) THEN in ELSE <<>>
           n     == Ctrl!Words(w_piece.length)
<1>1. w_fifo \in Seq(Word) /\ Len(w_fifo) \in Nat /\ req_count \in Nat
      /\ w_state \in {"IDLE", "WRITE"} /\ Cut(w_split, w_piece, w_left)
  BY LenProperties DEF TypeInv
<1>2. given \in Offer(Word)
  BY DEF Offer
<1>3. w_split = "RUN" => n \in 1 .. MaxWords
  <2>1. \A p \in Piece : p.length \in 1 .. MaxSize
    BY DEF Piece
  <2>2. QED  BY <1>1, <2>1, WordsOfPiece DEF Cut
<1>4. w_split = "RUN" /\ ~Ctrl!WriterReady(w_piece.length, w_ready)
      => w_split' = "RUN" /\ w_piece' = w_piece
  BY WritePathStep
<1>5. (w_piece' = w_piece) => Ctrl!Words(w_piece.length)' = n
  BY DEF Ctrl!Words
<1>6. w_fifo \o given \in Seq(Word) /\ Len(w_fifo \o given) >= Len(w_fifo)
  <2>1. w_fifo \o given \in Seq(Word) /\ Len(given) \in {0, 1}
        /\ Len(w_fifo \o given) = Len(w_fifo) + Len(given)
    BY <1>1, <1>2, Appended
  <2> HIDE DEF given
  <2>2. QED  BY <1>1, <2>1
<1> HIDE DEF given, n
<1>7. CASE /\ w_state = "IDLE" /\ req_count' = 0
           /\ w_fifo' = (IF on THEN w_fifo \o given ELSE <<>>)
           /\ w_state' = IF on /\ WPath!Offers /\ Ctrl!Enough(w_piece.length) THEN "WRITE" ELSE "IDLE"
  <2>1. w_state' \in {"IDLE", "WRITE"} /\ req_count' \in Nat /\ w_fifo' \in Seq(Word)
    BY <1>6, <1>7, EmptySeq
  <2>2. ASSUME w_state' = "WRITE" PROVE Data'
    <3>1. on /\ w_split = "RUN" /\ n <= Len(w_fifo)
      BY <1>7, <2>2, <1>1, <1>3 DEF WPath!Offers, Ctrl!Enough, n
    <3>2. w_split' = "RUN" /\ Ctrl!Words(w_piece.length)' = n
      BY <1>4, <1>5, <1>7, <3>1 DEF Ctrl!WriterReady, Ctrl!Writes
    <3>3. w_fifo' = w_fifo \o given /\ req_count' = 0 /\ n \in Nat \ {0}
      BY <1>3, <1>7, <3>1
    <3>4. Len(w_fifo') >= n /\ Len(w_fifo') \in Nat
      BY <1>1, <1>6, <2>1, <3>1, <3>3, LenProperties
    <3>5. req_count' < n /\ n - req_count' <= Len(w_fifo')
      BY <3>3, <3>4
    <3>6. QED  BY <3>2, <3>5 DEF Data
  <2>3. QED  BY <2>1, <2>2 DEF Data
<1>8. CASE /\ w_state = "WRITE" /\ ~w_ready
           /\ w_fifo' = w_fifo \o given /\ UNCHANGED <<w_state, req_count>>
  <2>1. w_split = "RUN" /\ req_count < n /\ n - req_count <= Len(w_fifo)
    BY <1>8 DEF Data, n
  <2>2. w_split' = "RUN" /\ Ctrl!Words(w_piece.length)' = n
    BY <1>4, <1>5, <1>8, <2>1 DEF Ctrl!WriterReady
  <2>3. n - req_count <= Len(w_fifo') /\ w_fifo' \in Seq(Word)
    BY <1>1, <1>3, <1>6, <1>8, <2>1, LenProperties
  <2>4. QED  BY <1>1, <1>8, <2>1, <2>2, <2>3 DEF Data
<1>9. CASE /\ w_state = "WRITE" /\ w_ready
           /\ req_count' = req_count + 1
           /\ w_fifo' = (IF Ctrl!Pops(w_piece.length, nolast) THEN Tail(w_fifo) ELSE w_fifo) \o given
           /\ w_state' = IF Ctrl!ReqLast(w_piece.length) THEN "IDLE" ELSE "WRITE"
  <2> DEFINE rest == IF Ctrl!Pops(w_piece.length, nolast) THEN Tail(w_fifo) ELSE w_fifo
  <2>1. w_split = "RUN" /\ req_count < n /\ n - req_count <= Len(w_fifo) /\ n \in Nat
    BY <1>3, <1>9 DEF Data, n
  <2>2. w_fifo # <<>>
    <3>1. Len(w_fifo) > 0
      BY <1>1, <2>1
    <3>2. QED  BY <1>1, <3>1, EmptySeq
  <2>3. rest \in Seq(Word) /\ Len(rest) >= Len(w_fifo) - 1
    BY <1>1, <2>2, Shortened
  <2> HIDE DEF rest
  <2>4. w_fifo' \in Seq(Word) /\ Len(w_fifo') >= Len(w_fifo) - 1
    <3>1. rest \o given \in Seq(Word) /\ Len(given) \in {0, 1}
          /\ Len(rest \o given) = Len(rest) + Len(given)
      BY <1>2, <2>3, Appended
    <3>2. w_fifo' = rest \o given
      BY <1>9 DEF rest
    <3>3. QED  BY <1>1, <2>3, <3>1, <3>2, LenProperties
  <2>5. CASE Ctrl!ReqLast(w_piece.length)
    BY <1>1, <1>9, <2>4, <2>5 DEF Data
  <2>6. CASE ~Ctrl!ReqLast(w_piece.length)
    <3>1. w_split' = "RUN" /\ Ctrl!Words(w_piece.length)' = n
      BY <1>4, <1>5, <2>1, <2>6 DEF Ctrl!WriterReady
    <3>2. req_count # n - 1
      BY <2>6 DEF Ctrl!ReqLast, n
    <3>3. req_count' < n /\ n - req_count' <= Len(w_fifo')
      BY <1>1, <1>9, <2>1, <2>4, <3>2, LenProperties
    <3>4. QED  BY <1>1, <1>9, <2>4, <2>6, <3>1, <3>3 DEF Data
  <2>7. QED  BY <2>5, <2>6
<1>10. QED  BY <1>7, <1>8, <1>9 DEF Ctrl!WriterStep, given

-----------------------------------------------------------------------------
(* The invariant.                                                              *)
LEMMA InitIInv == Init => IInv
<1> SUFFICES ASSUME Init PROVE IInv
  OBVIOUS
<1> USE DEF Init, RPath!Init, WPath!Init, Ctrl!ReaderInit, Ctrl!WriterInit
<1>1. TypeInv
  <2>1. Cut(r_split, r_piece, r_left) /\ Cut(w_split, w_piece, w_left)
    BY DEF Cut
  <2>2. on \in BOOLEAN
    OBVIOUS
  <2>3. pending \in 0 .. FifoDepth
    BY SizesAssumption
  <2>4. QED  BY <2>1, <2>2, <2>3, EmptySeq DEF TypeInv
<1>2. Room
  <2>1. pending - Len(r_fifo) = 0
    <3>1. pending = 0 /\ r_fifo = <<>>
      OBVIOUS
    <3> HIDE DEF Init, RPath!Init, WPath!Init, Ctrl!ReaderInit, Ctrl!WriterInit
    <3>2. Len(<<>>) = 0 /\ 0 - 0 = 0
      OBVIOUS
    <3>3. QED  BY <3>1, <3>2
  <2>2. AddUpTo(reads, 0)
    BY NothingAddsUp
  <2>3. Counted
    BY <2>1, <2>2 DEF Counted
  <2>4. QED  BY <2>3 DEF Room
<1>3. Data
  BY DEF Data
<1>4. QED  BY <1>1, <1>2, <1>3 DEF IInv

LEMMA ClockIInv ==
  ASSUME IInv, NEW r_we, NEW w_we, NEW enable, NEW reset, NEW r_ready, NEW w_ready,
         NEW cmp, NEW pps,
         Input(r_we, w_we, enable, cmp), on' = enable, programmed' \in Nat \X Nat,
         Clock(r_we, w_we, reset, r_ready, w_ready, cmp, pps)
  PROVE  IInv'
<1> DEFINE offered == IF r_fifo # <<>> THEN <<Head(r_fifo)>> ELSE <<>>
<1>1. TypeInv /\ Room /\ Data
  BY DEF IInv
<1>2. /\ Room' /\ pending' \in 0 .. FifoDepth /\ r_state' \in {"IDLE", "REQUEST"}
      /\ r_fifo' \in Seq(Word) /\ reads' \in Seq(Read)
  BY <1>1, RoomStep
<1>3. r_we \in Offer(Descriptor) /\ w_we \in Offer(Descriptor) /\ enable \in BOOLEAN
  BY DEF Input
<1>4. offered \in Offer(Word)
  BY <1>1, Shortened DEF TypeInv, Offer
<1> HIDE DEF offered
<1>5. PluginsStep(pps, offered, Ctrl!InReady(on))
  BY DEF Clock, offered
<1>6. rbuf' \in Seq(Word) /\ wbuf' \in Seq(Word) /\ Source(offered) \in Offer(Word)
  BY <1>1, <1>4, <1>5, PluginsType
<1>7. /\ Ctrl!WriterStep(on, WPath!Offers, w_piece.length, nolast, Source(offered), w_ready)
      /\ WPath!Step(w_we, looping, FALSE, Ctrl!WriterReady(w_piece.length, w_ready))
      /\ RPath!Step(r_we, looping, TableReset(reset), Ctrl!ReaderReady(r_ready))
  BY DEF Clock, offered
<1>8. /\ w_state' \in {"IDLE", "WRITE"} /\ req_count' \in Nat /\ w_fifo' \in Seq(Word)
      /\ Data'
  BY <1>1, <1>3, <1>6, <1>7, WriterStep
<1>9. /\ w_table' \in Seq(Descriptor) /\ w_refill' \in Seq(Descriptor)
      /\ Cut(w_split, w_piece, w_left)'
  BY <1>1, <1>3, <1>7, WritePathStep
<1>10. /\ r_table' \in Seq(Descriptor) /\ r_refill' \in Seq(Descriptor)
       /\ Cut(r_split, r_piece, r_left)' /\ r_user_id' \in Nat
  BY <1>1, <1>3, <1>7, ReadPathStep
<1>11. TypeInv'
  BY <1>2, <1>3, <1>6, <1>8, <1>9, <1>10 DEF TypeInv
<1>12. QED  BY <1>2, <1>8, <1>11 DEF IInv

LEMMA NextIInv == IInv /\ [Next]_vars => IInv'
<1> SUFFICES ASSUME IInv, [Next]_vars PROVE IInv'
  OBVIOUS
<1>1. CASE Next
  <2>1. PICK r_we, w_we, enable, reset, r_ready, w_ready, cmp, pps :
          /\ Input(r_we, w_we, enable, cmp)
          /\ on' = enable /\ programmed' \in Nat \X Nat
          /\ Clock(r_we, w_we, reset, r_ready, w_ready, cmp, pps)
    BY <1>1, NextIsClock DEF IInv
  <2>2. QED  BY <2>1, ClockIInv
<1>2. CASE UNCHANGED vars
  <2>1. UNCHANGED <<setup, programmed, on, r_table, r_refill, r_split, r_piece, r_left, r_user_id>>
        /\ UNCHANGED <<w_table, w_refill, w_split, w_piece, w_left>>
        /\ UNCHANGED <<r_state, pending, r_fifo, w_state, req_count, w_fifo>>
        /\ UNCHANGED <<rbuf, wbuf, reads>>
    BY <1>2 DEF vars, software, r_path, w_path, ctrl
  <2>2. TypeInv'
    BY <2>1 DEF IInv, TypeInv, Cut
  <2>3. Room'
    BY <2>1 DEF IInv, Room, Counted, AddUpTo
  <2>4. Data'
    BY <2>1 DEF IInv, Data, Ctrl!Words
  <2>5. QED  BY <2>2, <2>3, <2>4 DEF IInv
<1>3. QED  BY <1>1, <1>2

LEMMA Invariance == Spec => []IInv
BY InitIInv, NextIInv, PTL DEF Spec

-----------------------------------------------------------------------------
(* The FIFOs of the controllers.                                               *)

\* No completion waits for room in the reader's FIFO, for all sizes of it and
\* of the requests: the words that are still at the bus are counted in pending,
\* and pending is never more than the FIFO holds (dma/read_controller.py).
THEOREM CompletionsNeverWait == Spec => []CompletionsFit
<1>1. IInv => CompletionsFit
  <2> SUFFICES ASSUME IInv, reads # <<>>, on PROVE Len(r_fifo) < FifoDepth
    BY DEF CompletionsFit, Ctrl!CmpReady
  <2>1. AddUpTo(reads, pending - Len(r_fifo)) /\ reads \in Seq(Read)
    BY DEF IInv, TypeInv, Room, Counted
  <2>2. pending - Len(r_fifo) \in 1 .. FifoDepth
    BY <2>1, SomethingAddsUp
  <2>3. pending \in 0 .. FifoDepth /\ Len(r_fifo) \in Nat /\ FifoDepth \in Nat
    BY SizesAssumption, LenProperties DEF IInv, TypeInv
  <2>4. QED  BY <2>2, <2>3
<1>2. QED  BY <1>1, Invariance, PTL

\* The writer never writes a word that its FIFO does not have, although it looks
\* at the level only once for a piece: the words that are left of the piece are
\* there until they are written (dma/write_controller.py).
THEOREM WriterNeverStarves == Spec => []WriterHasData
<1>1. IInv => WriterHasData
  <2> SUFFICES ASSUME IInv, w_state = "WRITE" PROVE w_fifo # <<>>
    BY DEF WriterHasData, Ctrl!Writes
  <2> DEFINE n == Ctrl!Words(w_piece.length)
  <2>1. w_split = "RUN" /\ req_count < n /\ n - req_count <= Len(w_fifo)
    BY DEF IInv, Data
  <2>2. w_piece.length \in 1 .. MaxSize
    BY <2>1 DEF IInv, TypeInv, Cut, Piece
  <2>3. n \in Nat /\ req_count \in Nat
    <3>1. n \in 1 .. MaxWords
      BY <2>2, WordsOfPiece
    <3>2. req_count \in Nat
      BY DEF IInv, TypeInv
    <3>3. QED  BY <3>1, <3>2, SizesAssumption
  <2> HIDE DEF n
  <2>4. Len(w_fifo) # 0
    <3>1. Len(w_fifo) \in Nat
      BY LenProperties DEF IInv, TypeInv
    <3>2. QED  BY <2>1, <2>3, <3>1
  <2>5. QED  BY <2>4, EmptySeq
<1>2. QED  BY <1>1, Invariance, PTL

-----------------------------------------------------------------------------
(* The table of a loop.  While software fills it nothing is taken from it;     *)
(* then it is turned, and the index says by how much.                          *)
size == Len(ReadDescs)
held == r_table \o r_refill

\* The descriptor at place k of the list.
Entry(e, k) == e.addr = ReadDescs[k].addr /\ e.first = (k = 1)

Filling ==
  /\ ~on /\ r_state = "IDLE" /\ r_loop_status = RPath!NeverLooped
  /\ programmed[1] \in 0 .. size /\ Len(held) = programmed[1]
  /\ \A i \in 1 .. programmed[1] : Entry(held[i], i)

\* The first k descriptors are behind the others.
TurnedBy(k) ==
  /\ k = 0 \/ k < size
  /\ Len(held) = size
  /\ \A i \in 1 .. size : Entry(held[i], IF k + i <= size THEN k + i ELSE k + i - size)
  /\ r_loop_status.first => k = 0
  /\ ~r_loop_status.first => size > 0 /\ r_loop_status.index = IF k = 0 THEN size - 1 ELSE k - 1

Turning == on /\ AllProgrammed /\ \E k \in Nat : TurnedBy(k)

LoopInv ==
  /\ setup \in Setups
  /\ setup.loop =>
       /\ Len(r_refill) <= 1
       /\ r_loop_status \in [first : BOOLEAN, index : Nat, count : Nat]
       /\ Filling \/ Turning

LEMMA Sizes ==
  /\ size \in Nat /\ TableDepth \in Nat /\ IndexBound \in Nat
  /\ size <= TableDepth /\ size <= IndexBound
  /\ \A s \in Setups : s.loop \in BOOLEAN /\ s.restarts \in BOOLEAN /\ ~(s.loop /\ s.restarts)
<1>1. size \in Nat
  BY DescsAssumption, LenProperties DEF size
<1>2. QED  BY <1>1, SizesAssumption, SetupsAssumption DEF size

\* A strobe is of one descriptor, of which only the first flag is set.
LEMMA MarkedIs ==
  ASSUME NEW we, NEW flag
  PROVE  /\ we = <<>> => [i \in DOMAIN we |-> [we[i] EXCEPT !.first = flag]] = <<>>
         /\ \A d : we = <<d>> =>
              [i \in DOMAIN we |-> [we[i] EXCEPT !.first = flag]] = <<[d EXCEPT !.first = flag]>>
<1> DEFINE f == [i \in DOMAIN we |-> [we[i] EXCEPT !.first = flag]]
<1>1. ASSUME we = <<>> PROVE f = <<>>
  <2>1. DOMAIN we = 1 .. 0
    BY <1>1
  <2>2. f \in Seq({}) /\ Len(f) = 0
    BY <2>1, IsASeq, LenProperties
  <2>3. QED  BY <2>2, EmptySeq
<1>2. ASSUME NEW d, we = <<d>> PROVE f = <<[d EXCEPT !.first = flag]>>
  <2>1. DOMAIN we = 1 .. 1 /\ we[1] = d
    BY <1>2
  <2>2. f = [i \in 1 .. 1 |-> [d EXCEPT !.first = flag]]
    BY <2>1
  <2>3. QED  BY <2>2
<1>3. QED  BY <1>1, <1>2

\* What is at the end of the registered input goes to the end of the FIFO.
LEMMA TableKeeps ==
  ASSUME NEW D, NEW t \in Seq(D), NEW r \in Seq(D), Len(r) <= 1, NEW d \in D
  PROVE  /\ r = <<>> => t \o r = t
         /\ Len(t \o r) = Len(t) + Len(r) /\ t \o r \in Seq(D)
         /\ Len(r) = 0 => r = <<>>
         /\ (t \o r) \o <<>> = t \o r
         /\ Len((t \o r) \o <<d>>) = Len(t \o r) + 1
         /\ \A i \in 1 .. Len(t \o r) : ((t \o r) \o <<d>>)[i] = (t \o r)[i]
         /\ ((t \o r) \o <<d>>)[Len(t \o r) + 1] = d
<1>1. t \o r \in Seq(D) /\ Len(t \o r) = Len(t) + Len(r)
  BY ConcatProperties
<1>2. r = <<>> => t \o r = t
  BY ConcatEmptySeq
<1>3. (t \o r) \o <<>> = t \o r
  BY <1>1, ConcatEmptySeq
<1>4. Len(r) = 0 => r = <<>>
  BY EmptySeq
<1>5. <<d>> \in Offer(D) /\ <<d>> # <<>> /\ <<d>>[1] = d /\ Len(<<d>>) = 1
  BY DEF Offer
<1>6. QED  BY <1>1, <1>2, <1>3, <1>4, <1>5, Appended

\* What is taken goes to the end as well.
LEMMA TableTurns ==
  ASSUME NEW D, NEW t \in Seq(D), NEW r \in Seq(D), t # <<>>
  PROVE  LET s == (Tail(t) \o r) \o <<Head(t)>>
             n == Len(t \o r)
         IN /\ n > 0 /\ n \in Nat /\ Len(s) = n
            /\ \A i \in 1 .. n : s[i] = IF i < n THEN (t \o r)[i + 1] ELSE (t \o r)[1]
            /\ (t \o r)[1] = Head(t)
<1> DEFINE u == Tail(t) \o r
           n == Len(t \o r)
<1>1. /\ Tail(t) \in Seq(D) /\ Len(Tail(t)) = Len(t) - 1 /\ Len(t) > 0
      /\ Head(t) \in D /\ Head(t) = t[1] /\ <<Head(t)>> \in Offer(D)
      /\ \A i \in 1 .. Len(t) - 1 : Tail(t)[i] = t[i + 1]
  BY Shortened
<1>2. Len(t) \in Nat /\ Len(r) \in Nat
  BY LenProperties
<1>3. /\ u \in Seq(D) /\ Len(u) = Len(t) - 1 + Len(r)
      /\ \A i \in 1 .. Len(u) : u[i] = IF i <= Len(t) - 1 THEN Tail(t)[i] ELSE r[i - (Len(t) - 1)]
  BY <1>1, ConcatProperties
<1>4. /\ n = Len(t) + Len(r)
      /\ \A i \in 1 .. n : (t \o r)[i] = IF i <= Len(t) THEN t[i] ELSE r[i - Len(t)]
  BY ConcatProperties
<1>5. \A i \in 1 .. n - 1 : u[i] = (t \o r)[i + 1]
  BY <1>1, <1>2, <1>3, <1>4
<1>6. <<Head(t)>> # <<>> /\ <<Head(t)>>[1] = Head(t) /\ Len(<<Head(t)>>) = 1
  OBVIOUS
<1> HIDE DEF u
<1>7. /\ Len(u \o <<Head(t)>>) = n
      /\ \A i \in 1 .. n - 1 : (u \o <<Head(t)>>)[i] = u[i]
      /\ (u \o <<Head(t)>>)[n] = Head(t)
  <2>1. Len(u) = n - 1 /\ Len(u) + 1 = n
    BY <1>1, <1>2, <1>3, <1>4
  <2>2. /\ Len(u \o <<Head(t)>>) = Len(u) + 1
        /\ \A i \in 1 .. Len(u) : (u \o <<Head(t)>>)[i] = u[i]
        /\ (u \o <<Head(t)>>)[Len(u) + 1] = Head(t)
    BY <1>1, <1>3, <1>6, Appended, ZenonT(60)
  <2>3. QED  BY <2>1, <2>2
<1>8. (t \o r)[1] = Head(t)
  BY <1>1, <1>2, <1>4
<1> HIDE DEF n
<1>9. n > 0 /\ n \in Nat
  BY <1>1, <1>2, <1>4
<1>10. QED  BY <1>5, <1>7, <1>8, <1>9 DEF u, n

\* What a cycle does to the table of a loop.
LEMMA TableCycle ==
  ASSUME NEW we, NEW loop \in BOOLEAN, NEW ready \in BOOLEAN,
         RPath!TableStep(we, loop, FALSE, ready)
  PROVE  /\ r_table' = IF Len(r_table) < TableDepth
                       THEN (IF r_table # <<>> /\ ready THEN Tail(r_table) ELSE r_table) \o r_refill
                       ELSE IF r_table # <<>> /\ ready THEN Tail(r_table) ELSE r_table
         /\ ~loop /\ we = <<>> => r_refill' = <<>>
         /\ ~loop => \A d : we = <<d>> => r_refill' = <<[d EXCEPT !.first = (r_table = <<>>)]>>
         /\ loop => r_refill' = IF r_table # <<>> /\ ready THEN <<Head(r_table)>> ELSE <<>>
         /\ r_loop_status' = IF r_table # <<>> /\ ready THEN RPath!CountTaken(loop)
                             ELSE r_loop_status
<1> DEFINE marked == [i \in DOMAIN we |-> [we[i] EXCEPT !.first = RPath!FirstFlag]]
<1>1. /\ r_table' = IF Len(r_table) < TableDepth
                    THEN (IF r_table # <<>> /\ ready THEN Tail(r_table) ELSE r_table) \o r_refill
                    ELSE IF r_table # <<>> /\ ready THEN Tail(r_table) ELSE r_table
      /\ r_refill' = IF ~loop THEN marked
                     ELSE IF r_table # <<>> /\ ready THEN <<Head(r_table)>> ELSE <<>>
      /\ r_loop_status' = IF r_table # <<>> /\ ready THEN RPath!CountTaken(loop)
                          ELSE r_loop_status
  BY DEF RPath!TableStep
<1>2. we = <<>> => marked = <<>>
  BY MarkedIs
<1>3. \A d : we = <<d>> => marked = <<[d EXCEPT !.first = RPath!FirstFlag]>>
  BY MarkedIs
<1>4. RPath!FirstFlag = (r_table = <<>>)
  BY DEF RPath!FirstFlag
<1> HIDE DEF marked
<1>5. ~loop => \A d : we = <<d>> => r_refill' = <<[d EXCEPT !.first = (r_table = <<>>)]>>
  BY <1>1, <1>3, <1>4
<1>6. /\ ~loop /\ we = <<>> => r_refill' = <<>>
      /\ loop => r_refill' = IF r_table # <<>> /\ ready THEN <<Head(r_table)>> ELSE <<>>
  BY <1>1, <1>2
<1>7. QED  BY <1>1, <1>5, <1>6

LEMMA FillingStep ==
  ASSUME TypeInv, LoopInv, Next, setup.loop, Filling
  PROVE  LoopInv'
<1>1. PICK r_we \in Strobes(ReadDescs, programmed[1], r_refill),
           w_we \in Strobes(WriteDescs, programmed[2], w_refill),
           enable \in Enables, reset \in Resets,
           r_ready \in Maybe(Ctrl!Requests), w_ready \in Maybe(Ctrl!Writes),
           answers \in Maybe(reads # <<>>), pps \in Maybe(~synced) :
        /\ Software(r_we, w_we, reset, enable)
        /\ Clock(r_we, w_we, reset, r_ready, w_ready, IF answers THEN <<Completion>> ELSE <<>>, pps)
  BY Zenon DEF Next
<1>2. setup \in Setups /\ setup.loop = TRUE /\ setup.restarts = FALSE
  BY Sizes DEF LoopInv
<1>3. ~looping /\ reset = FALSE
  BY <1>2 DEF Filling, looping, Resets
<1>4. RPath!TableStep(r_we, FALSE, FALSE, FALSE)
  <2>1. RPath!TableStep(r_we, looping, TableReset(reset), RPath!SinkReady(Ctrl!ReaderReady(r_ready)))
    BY <1>1 DEF Clock, RPath!Step
  <2>2. looping = FALSE /\ TableReset(reset) = FALSE
    BY <1>3 DEF looping, TableReset
  <2>3. RPath!SinkReady(Ctrl!ReaderReady(r_ready)) = FALSE
    BY DEF Filling, RPath!SinkReady, Ctrl!ReaderReady, Ctrl!Requests
  <2>4. QED  BY <2>1, <2>2, <2>3
<1>5. /\ r_loop_status' = r_loop_status
      /\ r_table' = IF Len(r_table) < TableDepth THEN r_table \o r_refill ELSE r_table
      /\ r_we = <<>> => r_refill' = <<>>
      /\ \A d : r_we = <<d>> => r_refill' = <<[d EXCEPT !.first = (r_table = <<>>)]>>
  BY <1>4, TableCycle
<1>6. /\ r_table \in Seq(Descriptor) /\ r_refill \in Seq(Descriptor) /\ Len(r_refill) <= 1
      /\ programmed \in Nat \X Nat
  BY DEF TypeInv, LoopInv
<1>7. /\ Len(held) = Len(r_table) + Len(r_refill) /\ held \in Seq(Descriptor)
      /\ Len(r_table) \in Nat /\ Len(r_refill) \in {0, 1} /\ (Len(r_refill) = 0 => r_refill = <<>>)
      /\ (r_refill = <<>> => held = r_table)
  <2>1. Len(held) = Len(r_table) + Len(r_refill) /\ held \in Seq(Descriptor)
    BY <1>6, ConcatProperties DEF held
  <2>2. Len(r_table) \in Nat /\ Len(r_refill) \in Nat
    BY <1>6, LenProperties
  <2>3. Len(r_refill) = 0 => r_refill = <<>>
    BY <1>6, EmptySeq
  <2>4. r_refill = <<>> => held = r_table
    BY <1>6, ConcatEmptySeq DEF held
  <2>5. Len(r_refill) \in {0, 1}
    <3>1. \A n \in Nat : n <= 1 => n \in {0, 1}
      OBVIOUS
    <3>2. QED  BY <1>6, <2>2, <3>1
  <2>6. QED  BY <2>1, <2>2, <2>3, <2>4, <2>5
<1>8. r_table' = held
  BY <1>5, <1>7, Sizes DEF Filling, held
<1>9. r_state' = "IDLE" /\ setup' = setup /\ on' = enable /\ enable \in BOOLEAN
      /\ programmed' = <<programmed[1] + Len(r_we), programmed[2] + Len(w_we)>>
  BY <1>1 DEF Clock, Ctrl!ReaderStep, Filling, Software, Enables
<1>10. /\ r_loop_status' = RPath!NeverLooped
       /\ r_loop_status' \in [first : BOOLEAN, index : Nat, count : Nat]
  BY <1>5 DEF Filling, RPath!NeverLooped
<1>11. CASE r_we = <<>>
  <2>1. r_refill' = <<>> /\ held' = held /\ Len(r_refill') <= 1
    <3>1. r_refill' = <<>>
      BY <1>5, <1>11
    <3>2. held' = held \o <<>>
      BY <1>8, <3>1 DEF held
    <3>3. held \o <<>> = held
      BY <1>7, ConcatEmptySeq
    <3>4. QED  BY <3>1, <3>2, <3>3
  <2>2. programmed'[1] = programmed[1]
    BY <1>9, <1>11, <1>6
  <2>3. CASE ~enable
    <3>1. Filling'
      <4>1. ~on'
        BY <2>3, <1>9
      <4>2. programmed'[1] \in 0 .. size /\ Len(held') = programmed'[1]
        BY <2>1, <2>2 DEF Filling
      <4>3. \A i \in 1 .. programmed'[1] : Entry(held'[i], i)
        BY <2>1, <2>2 DEF Filling
      <4>4. QED  BY <4>1, <4>2, <4>3, <1>9, <1>10 DEF Filling, size, Entry
    <3>2. QED  BY <3>1, <2>1, <1>2, <1>9, <1>10 DEF LoopInv
  <2>4. CASE enable
    <3>1. AllProgrammed
      BY <2>4, <1>2, <1>9 DEF Enables, Filling
    <3>2. w_we = <<>> /\ programmed' = programmed
      <4>1. programmed = <<Len(ReadDescs), Len(WriteDescs)>>
        BY <3>1 DEF AllProgrammed
      <4>2. Len(WriteDescs) \in Nat
        BY DescsAssumption, LenProperties
      <4>3. w_we = <<>>
        BY <1>1, <4>1, <4>2 DEF Strobes
      <4>4. QED  BY <4>3, <1>9, <1>11, <1>6
    <3>3. Len(held) = size /\ programmed[1] = size
      BY <3>1 DEF AllProgrammed, Filling, size
    <3>4. TurnedBy(0)'
      <4>1. Len(held') = size /\ \A i \in 1 .. size : Entry(held'[i], i)
        BY <3>3, <2>1 DEF Filling
      <4>2. \A i \in 1 .. size : 0 + i <= size /\ 0 + i = i
        BY Sizes
      <4>3. r_loop_status'.first = TRUE
        BY <1>10 DEF RPath!NeverLooped
      <4>4. \A i \in 1 .. size : Entry(held'[i], IF 0 + i <= size THEN 0 + i ELSE 0 + i - size)
        BY <4>1, <4>2
      <4>5. QED  BY <4>1, <4>3, <4>4 DEF TurnedBy, Entry, size
    <3>5. Turning'
      BY <3>4, <3>2, <3>1, <2>4, <1>9 DEF Turning, AllProgrammed
    <3>6. QED  BY <3>5, <2>1, <1>2, <1>9, <1>10 DEF LoopInv
  <2>5. QED  BY <2>3, <2>4, <1>9
<1>12. CASE r_we # <<>>
  <2> DEFINE k == programmed[1] + 1
             d == [Desc(ReadDescs[k]) EXCEPT !.first = (r_table = <<>>)]
  <2>1. programmed[1] < size /\ r_refill = <<>> /\ r_we = <<Desc(ReadDescs[k])>>
    BY <1>1, <1>12 DEF Strobes, size
  <2>2. r_refill' = <<d>>
    BY <2>1, <1>5
  <2>3. r_refill' = <<d>> /\ d \in Descriptor /\ d.addr = ReadDescs[k].addr
        /\ d.first = (r_table = <<>>)
    <3>1. k \in 1 .. size
      BY <2>1, <1>6, Sizes
    <3>2. ReadDescs[k] \in [addr : Nat, length : Nat \ {0}]
      <4>1. ReadDescs \in Seq([addr : Nat, length : Nat \ {0}])
        BY DescsAssumption
      <4>2. \A i \in 1 .. Len(ReadDescs) : ReadDescs[i] \in [addr : Nat, length : Nat \ {0}]
        BY <4>1, ElementOfSeq
      <4> HIDE DEF k
      <4>3. QED  BY <3>1, <4>2 DEF size
    <3>3. (r_table = <<>>) \in BOOLEAN
      OBVIOUS
    <3>4. QED  BY <2>2, <3>2, <3>3 DEF Desc, Descriptor
  <2>4. held = r_table /\ held' = r_table \o <<d>>
    BY <2>1, <2>3, <1>7, <1>8 DEF held
  <2>5. /\ Len(held') = programmed[1] + 1 /\ Len(r_table) = programmed[1]
        /\ \A i \in 1 .. programmed[1] : held'[i] = held[i]
        /\ held'[k] = d
    <3>1. <<d>> \in Offer(Descriptor) /\ <<d>> # <<>> /\ <<d>>[1] = d /\ Len(<<d>>) = 1
      BY <2>3 DEF Offer
    <3>2. Len(r_table) = programmed[1]
      BY <2>4 DEF Filling
    <3>3. QED  BY <3>1, <3>2, <2>4, <1>6, Appended
  <2>6. d.first = (k = 1)
    <3>1. (r_table = <<>>) = (Len(r_table) = 0)
      BY <1>6, EmptySeq
    <3>2. QED  BY <3>1, <2>3, <2>5, <1>6
  <2>7. Entry(held'[k], k) /\ \A i \in 1 .. programmed[1] : Entry(held'[i], i)
    BY <2>3, <2>5, <2>6 DEF Entry, Filling
  <2>8. ~enable
    <3>1. ~AllProgrammed
      BY <2>1 DEF AllProgrammed, size
    <3>2. QED  BY <3>1, <1>2 DEF Enables, Filling
  <2>9. programmed'[1] = k /\ Len(r_refill') <= 1
    <3>1. Len(r_we) = 1 /\ Len(r_refill') = 1
      BY <2>1, <2>3
    <3>2. QED  BY <3>1, <1>9, <1>6
  <2>10. Filling'
    <3>1. k \in 0 .. size /\ Len(held') = k
      BY <2>1, <2>5, <1>6, Sizes
    <3>2. \A i \in 1 .. k : Entry(held'[i], i)
      <4>1. \A i \in 1 .. k : i = k \/ i \in 1 .. programmed[1]
        BY <1>6
      <4>2. QED  BY <4>1, <2>7
    <3>3. ~on'
      BY <2>8, <1>9
    <3>4. QED  BY <3>1, <3>2, <3>3, <2>9, <1>9, <1>10 DEF Filling, Entry, size
  <2>11. QED  BY <2>9, <2>10, <1>2, <1>9, <1>10 DEF LoopInv
<1>13. QED  BY <1>11, <1>12

\* The index of the descriptor taken, in a list that is turned by k.
LEMMA TakenIndex ==
  ASSUME NEW k \in Nat, TurnedBy(k), r_table # <<>>, Head(r_table) = held[1], size > 0,
         r_loop_status \in [first : BOOLEAN, index : Nat, count : Nat]
  PROVE  /\ RPath!CountTaken(TRUE) \in [first : BOOLEAN, index : Nat, count : Nat]
         /\ RPath!CountTaken(TRUE).first = FALSE
         /\ RPath!CountTaken(TRUE).index = k
<1>1. k < size /\ size \in Nat /\ size <= IndexBound /\ IndexBound \in Nat
  BY Sizes DEF TurnedBy
<1>2. Head(r_table).first = (k + 1 = 1)
  <2>1. Entry(held[1], IF k + 1 <= size THEN k + 1 ELSE k + 1 - size)
    BY <1>1 DEF TurnedBy
  <2>2. QED  BY <1>1, <2>1 DEF Entry
<1>3. \A n \in Nat : (n + 1) % IndexBound \in Nat
  BY <1>1
<1> DEFINE next == (r_loop_status.index + 1) % IndexBound
<1>4. CASE k = 0
  <2>1. Head(r_table).first
    <3>1. (k + 1 = 1) = TRUE
      BY <1>4
    <3>2. QED  BY <1>2, <3>1
  <2>2. RPath!CountTaken(TRUE) =
          [first |-> FALSE, index |-> 0,
           count |-> IF r_loop_status.first THEN r_loop_status.count
                     ELSE (r_loop_status.count + 1) % IndexBound]
    BY <2>1 DEF RPath!CountTaken
  <2>3. (IF r_loop_status.first THEN r_loop_status.count
         ELSE (r_loop_status.count + 1) % IndexBound) \in Nat
    <3>1. r_loop_status.count \in Nat
      OBVIOUS
    <3>2. QED  BY <3>1, <1>3
  <2>4. PICK c \in Nat : RPath!CountTaken(TRUE) = [first |-> FALSE, index |-> 0, count |-> c]
    BY <2>2, <2>3
  <2>5. \A t : t = [first |-> FALSE, index |-> 0, count |-> c]
               => /\ t.first = FALSE /\ t.index = 0
                  /\ t \in [first : BOOLEAN, index : Nat, count : Nat]
    OBVIOUS
  <2>6. QED  BY <2>4, <2>5, <1>4, Zenon
<1>5. CASE k # 0
  <2>1. ~Head(r_table).first
    <3>1. (k + 1 = 1) = FALSE
      BY <1>5
    <3>2. QED  BY <1>2, <3>1
  <2>2. r_loop_status.first = FALSE /\ r_loop_status.index = k - 1
    BY <1>5 DEF TurnedBy
  <2>3. next = k
    BY <1>1, <1>5, <2>2
  <2>4. RPath!CountTaken(TRUE) =
          [r_loop_status EXCEPT !.index = next,
             !.count = IF next = 0 THEN (r_loop_status.count + 1) % IndexBound ELSE r_loop_status.count]
    BY <2>1 DEF RPath!CountTaken
  <2> HIDE DEF next
  <2>5. QED  BY <2>2, <2>3, <2>4, <1>3, <1>5
<1>6. QED  BY <1>4, <1>5

LEMMA TurningStep ==
  ASSUME TypeInv, LoopInv, Next, setup.loop, Turning
  PROVE  LoopInv'
<1>1. PICK r_we \in Strobes(ReadDescs, programmed[1], r_refill),
           w_we \in Strobes(WriteDescs, programmed[2], w_refill),
           enable \in Enables, reset \in Resets,
           r_ready \in Maybe(Ctrl!Requests), w_ready \in Maybe(Ctrl!Writes),
           answers \in Maybe(reads # <<>>), pps \in Maybe(~synced) :
        /\ Software(r_we, w_we, reset, enable)
        /\ Clock(r_we, w_we, reset, r_ready, w_ready, IF answers THEN <<Completion>> ELSE <<>>, pps)
  BY Zenon DEF Next
<1> DEFINE ready == RPath!SinkReady(Ctrl!ReaderReady(r_ready))
           taken == r_table # <<>> /\ ready
           rest  == IF taken THEN Tail(r_table) ELSE r_table
           refilled == IF taken THEN <<Head(r_table)>> ELSE <<>>
<1>2. setup \in Setups /\ setup.loop = TRUE /\ setup.restarts = FALSE
  BY Sizes DEF LoopInv
<1>3. looping = TRUE /\ reset = FALSE /\ enable
  BY <1>2 DEF Turning, looping, Resets, Enables
<1>4. r_we = <<>> /\ w_we = <<>> /\ programmed = <<Len(ReadDescs), Len(WriteDescs)>>
  <2>1. programmed = <<Len(ReadDescs), Len(WriteDescs)>>
    BY DEF Turning, AllProgrammed
  <2>2. Len(WriteDescs) \in Nat /\ Len(ReadDescs) \in Nat
    BY DescsAssumption, LenProperties
  <2>3. QED  BY <1>1, <2>1, <2>2 DEF Strobes
<1>5. /\ setup' = setup /\ on'
      /\ programmed' = programmed
  <2>1. programmed' = <<programmed[1] + Len(r_we), programmed[2] + Len(w_we)>>
        /\ setup' = setup /\ on' = enable
    BY <1>1 DEF Software
  <2>2. programmed \in Nat \X Nat
    BY DEF TypeInv
  <2>3. QED  BY <2>1, <2>2, <1>3, <1>4
<1>6. /\ r_table' = IF Len(r_table) < TableDepth THEN rest \o r_refill ELSE rest
      /\ r_refill' = refilled
      /\ r_loop_status' = IF taken THEN RPath!CountTaken(TRUE) ELSE r_loop_status
  <2>1. RPath!TableStep(r_we, looping, TableReset(reset), ready)
    BY <1>1 DEF Clock, RPath!Step
  <2>2. TableReset(reset) = FALSE
    BY <1>3 DEF TableReset
  <2>3. ready \in BOOLEAN
    BY DEF RPath!SinkReady
  <2> HIDE DEF ready
  <2>4. QED  BY <1>3, <2>1, <2>2, <2>3, TableCycle
<1>7. /\ r_table \in Seq(Descriptor) /\ r_refill \in Seq(Descriptor) /\ Len(r_refill) <= 1
      /\ r_loop_status \in [first : BOOLEAN, index : Nat, count : Nat]
  BY DEF TypeInv, LoopInv
<1>8. PICK k \in Nat : TurnedBy(k)
  BY DEF Turning
<1> HIDE DEF ready
<1>9. r_table' = rest \o r_refill
  <2>1. Len(r_table) + Len(r_refill) = size /\ Len(r_table) \in Nat /\ Len(r_refill) \in Nat
    <3>1. Len(held) = size
      BY <1>8 DEF TurnedBy
    <3>2. QED  BY <3>1, <1>7, ConcatProperties, LenProperties DEF held
  <2>2. Len(r_table) < TableDepth \/ Len(r_refill) = 0
    BY <2>1, Sizes
  <2>3. Len(r_refill) = 0 => r_refill = <<>>
    BY <1>7, EmptySeq
  <2>4. rest \in Seq(Descriptor)
    BY <1>7, Shortened
  <2>5. r_refill = <<>> => rest \o r_refill = rest
    BY <2>4, ConcatEmptySeq
  <2>6. QED  BY <2>2, <2>3, <2>5, <1>6
<1>10. Len(r_refill') <= 1
  <2>1. Len(<<Head(r_table)>>) = 1 /\ Len(<<>>) = 0
    OBVIOUS
  <2>2. QED  BY <1>6, <2>1
<1>11. CASE ~taken
  <2>1. held' = held
    <3>1. held' = held \o <<>>
      BY <1>6, <1>9, <1>11 DEF held
    <3>2. held \in Seq(Descriptor)
      BY <1>7, ConcatProperties DEF held
    <3>3. QED  BY <3>1, <3>2, ConcatEmptySeq
  <2>2. r_loop_status' = r_loop_status
    BY <1>6, <1>11
  <2>3. TurnedBy(k)'
    BY <2>1, <2>2, <1>8 DEF TurnedBy, Entry, size
  <2>4. Turning'
    BY <2>3, <1>5, <1>8 DEF Turning, AllProgrammed
  <2>5. QED  BY <2>4, <2>2, <1>2, <1>5, <1>7, <1>10 DEF LoopInv, Turning
<1>12. CASE taken
  <2> DEFINE j == IF k + 1 = size THEN 0 ELSE k + 1
  <2>1. held' = (Tail(r_table) \o r_refill) \o <<Head(r_table)>>
    BY <1>6, <1>9, <1>12 DEF held
  <2>2. /\ size > 0 /\ size \in Nat /\ Len(held') = size
        /\ \A i \in 1 .. size : held'[i] = IF i < size THEN held[i + 1] ELSE held[1]
        /\ held[1] = Head(r_table)
    <3>1. size = Len(r_table \o r_refill)
      BY <1>8 DEF TurnedBy, held
    <3>2. LET t == (Tail(r_table) \o r_refill) \o <<Head(r_table)>>
              n == Len(r_table \o r_refill)
          IN /\ n > 0 /\ n \in Nat /\ Len(t) = n
             /\ \A i \in 1 .. n : t[i] = IF i < n THEN (r_table \o r_refill)[i + 1]
                                         ELSE (r_table \o r_refill)[1]
             /\ (r_table \o r_refill)[1] = Head(r_table)
      BY <1>7, <1>12, TableTurns
    <3>3. QED  BY <2>1, <3>1, <3>2, Zenon DEF held
  <2>3. /\ r_loop_status' \in [first : BOOLEAN, index : Nat, count : Nat]
        /\ r_loop_status'.first = FALSE /\ r_loop_status'.index = k
    BY <1>6, <1>7, <1>8, <1>12, <2>2, TakenIndex
  <2>4. k < size /\ j \in Nat /\ j < size /\ (k = IF j = 0 THEN size - 1 ELSE j - 1)
    BY <2>2, <1>8 DEF TurnedBy
  <2>5. \A i \in 1 .. size : Entry(held'[i], IF j + i <= size THEN j + i ELSE j + i - size)
    <3> SUFFICES ASSUME NEW i \in 1 .. size
                 PROVE  Entry(held'[i], IF j + i <= size THEN j + i ELSE j + i - size)
      OBVIOUS
    <3>1. \A l \in 1 .. size : Entry(held[l], IF k + l <= size THEN k + l ELSE k + l - size)
      BY <1>8 DEF TurnedBy
    <3>2. CASE i < size
      <4>1. i + 1 \in 1 .. size /\ held'[i] = held[i + 1]
        BY <2>2, <3>2
      <4>2. (IF j + i <= size THEN j + i ELSE j + i - size)
            = (IF k + (i + 1) <= size THEN k + (i + 1) ELSE k + (i + 1) - size)
        BY <2>2, <2>4, <3>2
      <4>3. QED  BY <3>1, <4>1, <4>2
    <3>3. CASE i = size
      <4>1. 1 \in 1 .. size /\ held'[i] = held[1]
        BY <2>2, <3>3
      <4>2. (IF j + i <= size THEN j + i ELSE j + i - size)
            = (IF k + 1 <= size THEN k + 1 ELSE k + 1 - size)
        BY <2>2, <2>4, <3>3
      <4>3. QED  BY <3>1, <4>1, <4>2
    <3>4. QED  BY <3>2, <3>3, <2>2
  <2>6. TurnedBy(j)'
    <3>1. ~r_loop_status'.first /\ r_loop_status'.index = IF j = 0 THEN size - 1 ELSE j - 1
      BY <2>3, <2>4
    <3> HIDE DEF j
    <3>2. QED  BY <2>2, <2>4, <2>5, <3>1 DEF TurnedBy, Entry, size
  <2> HIDE DEF j
  <2>7. Turning'
    BY <2>4, <2>6, <1>5 DEF Turning, AllProgrammed
  <2>8. QED  BY <2>7, <2>3, <1>2, <1>5, <1>10 DEF LoopInv, Turning
<1>13. QED  BY <1>11, <1>12

LEMMA LoopInvariance == Spec => []LoopInv
<1>1. Init => LoopInv
  <2> SUFFICES ASSUME Init, setup.loop PROVE Len(r_refill) <= 1 /\ Filling
                 /\ r_loop_status \in [first : BOOLEAN, index : Nat, count : Nat]
    BY DEF LoopInv, Init
  <2> USE DEF Init, RPath!Init, Ctrl!ReaderInit
  <2>1. r_table = <<>> /\ r_refill = <<>> /\ r_loop_status = RPath!NeverLooped
    OBVIOUS
  <2>2. held = <<>> /\ Len(held) = 0 /\ Len(r_refill) = 0
    BY <2>1 DEF held
  <2>3. ~on /\ r_state = "IDLE" /\ programmed[1] = 0
    OBVIOUS
  <2>4. QED  BY <2>1, <2>2, <2>3, Sizes DEF Filling, RPath!NeverLooped
<1>2. IInv /\ LoopInv /\ [Next]_vars => LoopInv'
  <2> SUFFICES ASSUME IInv, LoopInv, [Next]_vars PROVE LoopInv'
    OBVIOUS
  <2>1. CASE Next /\ setup.loop
    BY <2>1, FillingStep, TurningStep DEF IInv, LoopInv
  <2>2. CASE Next /\ ~setup.loop
    BY <2>2 DEF Next, Software, LoopInv
  <2>3. CASE UNCHANGED vars
    <3>1. UNCHANGED <<setup, programmed, on, r_table, r_refill, r_loop_status, r_state>>
      BY <2>3 DEF vars, software, r_path, ctrl
    <3>2. QED  BY <3>1 DEF LoopInv, Filling, Turning, TurnedBy, held, Entry, size, AllProgrammed,
                           RPath!NeverLooped
  <2>4. QED  BY <2>1, <2>2, <2>3
<1>3. QED  BY <1>1, <1>2, Invariance, PTL DEF Spec

\* In a loop, of whatever length, the index that software reads is the place of
\* the descriptor that was taken last: the FIFO is turned and never reordered,
\* the first flag stays with the first descriptor, and the index starts again
\* with it before it wraps (dma/descriptor_table.py).
THEOREM IndexIsOfTheLast == Spec => []LoopIndexIsLast
<1>1. LoopInv => LoopIndexIsLast
  <2> SUFFICES ASSUME LoopInv, looping, ~r_loop_status.first
               PROVE  held[Len(held)].addr = ReadDescs[r_loop_status.index + 1].addr
    BY DEF LoopIndexIsLast, held
  <2>1. PICK k \in Nat : TurnedBy(k)
    BY DEF LoopInv, looping, Filling, Turning
  <2>2. size \in Nat
    BY Sizes
  <2>3. Len(held) = size /\ r_loop_status.index = IF k = 0 THEN size - 1 ELSE k - 1
    BY <2>1 DEF TurnedBy
  <2>4. size > 0
    BY <2>1 DEF TurnedBy
  <2>5. Entry(held[size], IF k + size <= size THEN k + size ELSE k + size - size)
    BY <2>1, <2>2, <2>4 DEF TurnedBy
  <2>6. (IF k + size <= size THEN k + size ELSE k + size - size) = r_loop_status.index + 1
    BY <2>1, <2>2, <2>3, <2>4 DEF TurnedBy
  <2>7. QED  BY <2>3, <2>5, <2>6 DEF Entry
<1>2. QED  BY <1>1, LoopInvariance, PTL

-----------------------------------------------------------------------------
(* The first flags.  The user_id tells the requests of a descriptor from those *)
(* of the next, since it is another one and the requests stay in their order.  *)
Starts(word) == \E d \in Range(ReadDescs) : d.addr = word * WordBytes

\* A descriptor that software has written.
Known == {d \in Descriptor : \E e \in Range(ReadDescs) : d.addr = e.addr /\ d.length = e.length}

\* The id of the last first completion before the request i, and before a new
\* one, if that of the last one that was given is "id".
Before(s, id, i) == IF i = 1 THEN id ELSE s[i - 1].id
Latest(s, id)    == IF s = <<>> THEN id ELSE s[Len(s)].id

\* Only at the start of a descriptor a request has an id that is new.
ReadMarked(r, prior) ==
  /\ r.first => (Starts(r.word) <=> r.id # prior)
  /\ ~r.first => ~Starts(r.word) /\ r.id = prior
  /\ \A j \in 1 .. r.left - 1 : ~Starts(r.word + j)

Chain(s, id) == \A i \in 1 .. Len(s) : ReadMarked(s[i], Before(s, id, i))

\* The piece is in its descriptor.
PieceOf(piece, left, d) ==
  /\ d.addr <= piece.addr /\ piece.addr + left = d.addr + d.length
  /\ piece.first <=> piece.addr = d.addr

PieceMarked ==
  /\ r_split = "RUN" =>
       /\ r_piece.length = IF r_left > MaxSize THEN MaxSize ELSE r_left
       /\ \E w \in Nat : r_piece.addr = w * WordBytes
       /\ \E d \in Range(ReadDescs) : PieceOf(r_piece, r_left, d)
       /\ r_piece.first <=> r_user_id # Latest(reads, last_id)
  /\ r_split = "IDLE" => r_user_id # Latest(reads, last_id)

FirstInv ==
  /\ r_user_id \in 0 .. IdBound - 1
  /\ r_table \in Seq(Known) /\ r_refill \in Seq(Known)
  /\ PieceMarked
  /\ Chain(reads, last_id)
  /\ \A i \in 1 .. Len(r_fifo) : r_fifo[i].first <=> Starts(r_fifo[i].data)

LEMMA Descs ==
  /\ WordBytes \in Nat \ {0} /\ MaxWords \in Nat \ {0} /\ MaxSize = MaxWords * WordBytes
  /\ \A d \in Range(ReadDescs) :
       d.addr \in Nat /\ d.length \in Nat \ {0} /\ \E w \in Nat : d.addr = w * WordBytes
  /\ \A d, e \in Range(ReadDescs) : d.addr < e.addr => d.addr + d.length <= e.addr
<1>1. WordBytes \in Nat \ {0} /\ MaxWords \in Nat \ {0} /\ MaxSize = MaxWords * WordBytes
  BY SizesAssumption DEF MaxSize
<1>2. ASSUME NEW d \in Range(ReadDescs)
      PROVE  d.addr \in Nat /\ d.length \in Nat \ {0} /\ \E w \in Nat : d.addr = w * WordBytes
  <2>1. d \in [addr : Nat, length : Nat \ {0}]
    <3>1. ReadDescs \in Seq([addr : Nat, length : Nat \ {0}])
      BY DescsAssumption
    <3>2. PICK i \in DOMAIN ReadDescs : d = ReadDescs[i]
      BY DEF Range
    <3>3. DOMAIN ReadDescs = 1 .. Len(ReadDescs)
      BY <3>1, LenProperties
    <3>4. QED  BY <3>1, <3>2, <3>3, ElementOfSeq
  <2>2. d.addr % WordBytes = 0
    BY DescsAssumption
  <2>3. d.addr \in Nat /\ d.addr = (d.addr \div WordBytes) * WordBytes /\ d.addr \div WordBytes \in Nat
    BY <1>1, <2>1, <2>2
  <2>4. QED  BY <2>1, <2>3
<1>3. \A d, e \in Range(ReadDescs) : d.addr < e.addr => d.addr + d.length <= e.addr
  BY DescsAssumption
<1>4. QED  BY <1>1, <1>2, <1>3

\* Descriptors do not overlap: there is no start within one.
LEMMA NoStartWithin ==
  ASSUME NEW d \in Range(ReadDescs), NEW word \in Nat,
         d.addr < word * WordBytes, word * WordBytes < d.addr + d.length
  PROVE  ~Starts(word)
<1> SUFFICES ASSUME NEW e \in Range(ReadDescs), e.addr = word * WordBytes PROVE FALSE
  BY DEF Starts
<1>1. d.addr + d.length <= e.addr /\ d.addr \in Nat /\ d.length \in Nat /\ e.addr \in Nat
  BY Descs
<1>2. QED  BY <1>1

\* The words of a piece: as many as it takes, at the address of the piece.
LEMMA WordsOfMarked ==
  ASSUME NEW w \in Nat, NEW length \in 1 .. MaxSize
  PROVE  /\ (w * WordBytes) \div WordBytes = w
         /\ \A j \in 1 .. Ctrl!Words(length) - 1 :
              /\ w * WordBytes < (w + j) * WordBytes
              /\ (w + j) * WordBytes < w * WordBytes + length
<1>1. WordBytes \in Nat \ {0} /\ MaxSize \in Nat /\ length \in Nat
  BY Descs, WordsOfPiece
<1>2. (w * WordBytes) \div WordBytes = w
  BY <1>1
<1> DEFINE q == Ctrl!Words(length)
<1>3. q \in Nat /\ q * WordBytes <= length + WordBytes - 1
  BY <1>1 DEF Ctrl!Words
<1> HIDE DEF q
<1>4. ASSUME NEW j \in 1 .. q - 1
      PROVE  w * WordBytes < (w + j) * WordBytes /\ (w + j) * WordBytes < w * WordBytes + length
  <2> DEFINE a == w * WordBytes
             b == j * WordBytes
             c == (q - j - 1) * WordBytes
  <2>1. (w + j) * WordBytes = a + b /\ q * WordBytes = b + c + WordBytes
    BY <1>1, <1>3
  <2>2. a \in Nat /\ b \in Nat /\ b > 0
    BY <1>1, <1>3
  <2>3. c \in Nat
    <3>1. q - j - 1 \in Nat
      BY <1>3
    <3>2. QED  BY <3>1, <1>1
  <2> HIDE DEF a, b, c
  <2>4. b < length
    BY <1>1, <1>3, <2>1, <2>2, <2>3
  <2>5. QED  BY <1>1, <2>1, <2>2, <2>4 DEF a
<1>5. QED  BY <1>2, <1>4 DEF q

\* A request is new where its piece is the first.
LEMMA RequestMarked ==
  ASSUME TypeInv, PieceMarked, r_split = "RUN"
  PROVE  ReadMarked(Request, Latest(reads, last_id))
<1>1. r_piece \in Piece /\ r_left \in Nat \ {0}
  BY DEF TypeInv, Cut
<1>2. PICK w \in Nat : r_piece.addr = w * WordBytes
  BY DEF PieceMarked
<1>3. PICK d \in Range(ReadDescs) : PieceOf(r_piece, r_left, d)
  BY DEF PieceMarked
<1>4. /\ r_piece.addr \in Nat /\ r_piece.length \in 1 .. MaxSize /\ r_piece.length <= r_left
      /\ r_piece.first \in BOOLEAN
  <2>1. r_piece.length \in 1 .. MaxSize /\ r_piece.addr \in Nat /\ r_piece.first \in BOOLEAN
    BY <1>1 DEF Piece
  <2>2. r_piece.length = IF r_left > MaxSize THEN MaxSize ELSE r_left
    BY DEF PieceMarked
  <2>3. QED  BY <1>1, <2>1, <2>2, WordsOfPiece
<1>5. Request = [word |-> w, left |-> Ctrl!Words(r_piece.length), id |-> r_user_id, first |-> TRUE]
  BY <1>2, <1>4, WordsOfMarked DEF Request
<1>6. d.addr \in Nat /\ d.length \in Nat
  BY Descs
<1>7. Starts(w) <=> r_piece.first
  <2>1. CASE r_piece.first
    BY <2>1, <1>2, <1>3 DEF Starts, PieceOf
  <2>2. CASE ~r_piece.first
    <3>1. d.addr < w * WordBytes /\ w * WordBytes < d.addr + d.length
      BY <2>2, <1>1, <1>2, <1>3, <1>4, <1>6 DEF PieceOf
    <3>2. QED  BY <2>2, <3>1, NoStartWithin
  <2>3. QED  BY <2>1, <2>2
<1>8. ASSUME NEW j \in 1 .. Ctrl!Words(r_piece.length) - 1
      PROVE  ~Starts(w + j)
  <2>1. Ctrl!Words(r_piece.length) \in Nat
    BY <1>4, WordsOfPiece, Descs
  <2>2. w + j \in Nat
    BY <2>1
  <2>3. w * WordBytes < (w + j) * WordBytes
        /\ (w + j) * WordBytes < w * WordBytes + r_piece.length
    BY <1>4, WordsOfMarked
  <2>4. (w + j) * WordBytes \in Nat
    BY <2>2, Descs
  <2> DEFINE a == (w + j) * WordBytes
  <2> HIDE DEF a
  <2>5. d.addr < a /\ a < d.addr + d.length
    BY <1>1, <1>2, <1>3, <1>4, <1>6, <2>3, <2>4 DEF PieceOf, a
  <2>6. QED  BY <2>2, <2>5, NoStartWithin DEF a
<1>9. r_piece.first <=> r_user_id # Latest(reads, last_id)
  BY DEF PieceMarked
<1>10. QED  BY <1>5, <1>7, <1>8, <1>9 DEF ReadMarked

\* Serving the first request: what is before the others stays.
LEMMA ServedChain ==
  ASSUME reads \in Seq(Read), reads # <<>>, Chain(reads, last_id)
  PROVE  LET id == IF reads[1].first THEN reads[1].id ELSE last_id
         IN Chain(Served, id) /\ Latest(Served, id) = Latest(reads, last_id)
<1> DEFINE id == IF reads[1].first THEN reads[1].id ELSE last_id
           n  == Len(reads)
<1>1. /\ reads[1] \in Read /\ Tail(reads) \in Seq(Read) /\ n \in Nat /\ n > 0
      /\ Len(Tail(reads)) = n - 1 /\ \A i \in 1 .. n - 1 : Tail(reads)[i] = reads[i + 1]
  BY Shortened
<1>2. \A i \in 1 .. n : ReadMarked(reads[i], Before(reads, last_id, i))
  BY DEF Chain
<1>3. ReadMarked(reads[1], last_id)
  BY <1>1, <1>2 DEF Before
<1>4. id = reads[1].id
  BY <1>3 DEF ReadMarked
<1> HIDE DEF id
<1>5. CASE reads[1].left = 1
  <2>1. Served = Tail(reads)
    BY <1>5 DEF Served
  <2>2. ASSUME NEW i \in 1 .. n - 1
        PROVE  ReadMarked(Tail(reads)[i], Before(Tail(reads), id, i))
    <3>1. ReadMarked(reads[i + 1], Before(reads, last_id, i + 1)) /\ Tail(reads)[i] = reads[i + 1]
      BY <1>1, <1>2
    <3>2. Before(Tail(reads), id, i) = Before(reads, last_id, i + 1)
      <4>1. CASE i = 1
        BY <4>1, <1>4 DEF Before
      <4>2. CASE i # 1
        <5>1. i - 1 \in 1 .. n - 1 /\ (i - 1) + 1 = i /\ (i + 1) - 1 = i /\ i + 1 # 1
          BY <4>2, <1>1
        <5>2. Tail(reads)[i - 1] = reads[i]
          BY <5>1, <1>1
        <5>3. QED  BY <4>2, <5>1, <5>2 DEF Before
      <4>3. QED  BY <4>1, <4>2
    <3>3. QED  BY <3>1, <3>2
  <2>3. Latest(Tail(reads), id) = Latest(reads, last_id)
    <3>1. CASE Tail(reads) = <<>>
      <4>1. Len(Tail(reads)) = 0
        BY <3>1, EmptySeq
      <4>2. n = 1
        BY <4>1, <1>1
      <4>3. QED  BY <3>1, <4>2, <1>4 DEF Latest
    <3>2. CASE Tail(reads) # <<>>
      <4>1. Len(Tail(reads)) # 0
        BY <3>2, <1>1, EmptySeq
      <4>2. n - 1 \in 1 .. n - 1 /\ (n - 1) + 1 = n
        BY <4>1, <1>1
      <4>3. Tail(reads)[n - 1] = reads[n]
        BY <4>2, <1>1
      <4>4. QED  BY <3>2, <4>3, <1>1 DEF Latest
    <3>3. QED  BY <3>1, <3>2
  <2>4. QED  BY <2>1, <2>2, <2>3, <1>1, <1>4 DEF Chain, id
<1>6. CASE reads[1].left # 1
  <2> DEFINE r == [reads[1] EXCEPT !.word = reads[1].word + 1, !.left = reads[1].left - 1, !.first = FALSE]
             t == [reads EXCEPT ![1] = r]
  <2>1. Served = t
    <3>1. Served = [reads EXCEPT ![1].word = @ + 1, ![1].left = @ - 1, ![1].first = FALSE]
      BY <1>6 DEF Served
    <3>2. QED  BY <3>1, <1>1 DEF Read
  <2>2. /\ r.word = reads[1].word + 1 /\ r.left = reads[1].left - 1
        /\ r.first = FALSE /\ r.id = reads[1].id /\ r \in Read
    <3>1. reads[1].word \in Nat /\ reads[1].left \in Nat /\ reads[1].left > 1
      BY <1>1, <1>6 DEF Read
    <3>2. reads[1].word + 1 \in Nat /\ reads[1].left - 1 \in Nat \ {0}
      BY <3>1
    <3>3. QED  BY <3>2, <1>1 DEF Read
  <2> HIDE DEF r
  <2>3. /\ Len(t) = n /\ t[1] = r /\ \A i \in 2 .. n : t[i] = reads[i]
        /\ t # <<>>
    <3>1. t \in Seq(Read) /\ Len(t) = n
      BY <1>1, <2>2, ExceptSeq
    <3>2. DOMAIN reads = 1 .. n
      BY LenProperties
    <3>3. t # <<>>
      BY <3>1, <1>1, EmptySeq
    <3>4. QED  BY <3>1, <3>2, <3>3, <1>1
  <2> HIDE DEF t
  <2>4. ReadMarked(r, id)
    <3>1. reads[1].left - 1 \in Nat /\ reads[1].left > 1 /\ reads[1].word \in Nat
      BY <1>1, <1>6 DEF Read
    <3>2. \A j \in 1 .. reads[1].left - 1 : ~Starts(reads[1].word + j)
      BY <1>3 DEF ReadMarked
    <3>3. ~Starts(reads[1].word + 1)
      <4>1. \A m \in Int : m > 1 => 1 \in 1 .. m - 1
        OBVIOUS
      <4>2. reads[1].left \in Int
        BY <1>1 DEF Read
      <4>3. 1 \in 1 .. reads[1].left - 1
        BY <3>1, <4>1, <4>2
      <4>4. QED  BY <3>2, <4>3
    <3>4. \A j \in 1 .. (reads[1].left - 1) - 1 : ~Starts((reads[1].word + 1) + j)
      <4>1. \A j \in 1 .. (reads[1].left - 1) - 1 :
              j + 1 \in 1 .. reads[1].left - 1 /\ (reads[1].word + 1) + j = reads[1].word + (j + 1)
        BY <3>1
      <4>2. QED  BY <3>2, <4>1
    <3>5. QED  BY <3>3, <3>4, <2>2, <1>4 DEF ReadMarked
  <2>5. ASSUME NEW i \in 1 .. n
        PROVE  ReadMarked(t[i], Before(t, id, i))
    <3>1. CASE i = 1
      BY <3>1, <2>3, <2>4 DEF Before
    <3>2. CASE i # 1
      <4>1. t[i] = reads[i] /\ ReadMarked(reads[i], Before(reads, last_id, i))
        BY <3>2, <2>3, <1>1, <1>2
      <4>2. t[i - 1].id = reads[i - 1].id
        <5>1. CASE i = 2
          BY <5>1, <2>2, <2>3
        <5>2. CASE i # 2
          <6>1. i - 1 \in 2 .. n
            BY <3>2, <5>2, <1>1
          <6>2. QED  BY <6>1, <2>3
        <5>3. QED  BY <5>1, <5>2
      <4>3. QED  BY <3>2, <4>1, <4>2 DEF Before
    <3>3. QED  BY <3>1, <3>2
  <2>6. Latest(t, id) = Latest(reads, last_id)
    <3>1. t[n].id = reads[n].id
      <4>1. CASE n = 1
        BY <4>1, <2>2, <2>3
      <4>2. CASE n # 1
        <5>1. n \in 2 .. n
          BY <4>2, <1>1
        <5>2. QED  BY <5>1, <2>3
      <4>3. QED  BY <4>1, <4>2
    <3>2. QED  BY <3>1, <2>3 DEF Latest
  <2>7. QED  BY <2>1, <2>3, <2>5, <2>6 DEF Chain, id
<1>7. QED  BY <1>5, <1>6

LEMMA AppendedChain ==
  ASSUME NEW s \in Seq(Read), NEW r \in Read, NEW id,
         Chain(s, id), ReadMarked(r, Latest(s, id))
  PROVE  Chain(s \o <<r>>, id) /\ Latest(s \o <<r>>, id) = r.id
<1> DEFINE n == Len(s)
           t == s \o <<r>>
<1>1. n \in Nat
  BY LenProperties
<1>2. /\ Len(t) = n + 1 /\ (\A i \in 1 .. n : t[i] = s[i]) /\ t[n + 1] = r
      /\ t \in Seq(Read)
  <2>1. <<r>> \in Offer(Read) /\ <<r>> # <<>> /\ Len(<<r>>) = 1 /\ <<r>>[1] = r
    BY DEF Offer
  <2>2. QED  BY <2>1, Appended
<1> HIDE DEF t
<1>3. t # <<>>
  BY <1>1, <1>2, EmptySeq
<1>4. Latest(t, id) = r.id
  BY <1>2, <1>3 DEF Latest
<1>5. ASSUME NEW i \in 1 .. n + 1 PROVE ReadMarked(t[i], Before(t, id, i))
  <2>1. i # 1 => i - 1 \in 1 .. n /\ t[i - 1] = s[i - 1]
    BY <1>1, <1>2
  <2>2. CASE i \in 1 .. n
    <3>1. t[i] = s[i] /\ ReadMarked(s[i], Before(s, id, i))
      BY <2>2, <1>2 DEF Chain
    <3>2. QED  BY <3>1, <2>1 DEF Before
  <2>3. CASE i = n + 1
    <3>1. Before(t, id, i) = Latest(s, id)
      <4>1. s = <<>> <=> n = 0
        BY EmptySeq
      <4>2. QED  BY <4>1, <2>1, <2>3, <1>1 DEF Before, Latest
    <3>2. QED  BY <3>1, <2>3, <1>2
  <2>4. QED  BY <2>2, <2>3, <1>1
<1>6. QED  BY <1>2, <1>4, <1>5 DEF Chain, t

\* The requests in a cycle: if one is accepted, its id is the latest.
LEMMA ChainStep ==
  ASSUME TypeInv, Room, FirstInv, NEW r_ready, NEW cmp, NEW out_ready,
         cmp = <<>> \/ (reads # <<>> /\ cmp = <<Completion>>),
         BusReads(r_ready, cmp),
         Ctrl!ReaderStep(on, RPath!Offers, r_piece.length, r_ready, cmp, out_ready)
  PROVE  /\ Chain(reads', last_id')
         /\ Latest(reads', last_id') =
              IF Ctrl!ReaderReady(r_ready) THEN r_user_id ELSE Latest(reads, last_id)
<1> DEFINE given == Given(cmp)
           rest  == IF given # <<>> THEN Served ELSE reads
<1>1. /\ reads \in Seq(Read) /\ Chain(reads, last_id) /\ PieceMarked
      /\ given = <<>> \/ (reads # <<>> /\ given = <<Completion>>)
  BY DEF TypeInv, FirstInv, Given
<1>2. rest \in Seq(Read)
  BY <1>1, ServedType
<1>3. last_id' = IF given # <<>> /\ given[1].first THEN given[1].id ELSE last_id
  BY DEF Ctrl!ReaderStep, Given
<1>4. reads' = rest \o (IF Ctrl!Requests /\ r_ready THEN <<Request>> ELSE <<>>)
  BY DEF BusReads, Given
<1>5. Chain(rest, last_id') /\ Latest(rest, last_id') = Latest(reads, last_id)
  <2>1. CASE given = <<>>
    BY <2>1, <1>1, <1>3
  <2>2. CASE given # <<>>
    <3>1. reads # <<>> /\ given[1] = Completion /\ rest = Served
      BY <2>2, <1>1
    <3>2. Completion.first = reads[1].first /\ Completion.id = reads[1].id
      BY DEF Completion
    <3>3. last_id' = IF reads[1].first THEN reads[1].id ELSE last_id
      BY <2>2, <1>3, <3>1, <3>2
    <3>4. LET id == IF reads[1].first THEN reads[1].id ELSE last_id
          IN Chain(Served, id) /\ Latest(Served, id) = Latest(reads, last_id)
      BY <1>1, <3>1, ServedChain
    <3>5. QED  BY <3>1, <3>3, <3>4
  <2>3. QED  BY <2>1, <2>2
<1> HIDE DEF rest
<1>6. CASE Ctrl!Requests /\ r_ready
  <2>1. r_split = "RUN"
    BY <1>6 DEF Room, Ctrl!Requests
  <2>2. Request \in Read /\ Request.id = r_user_id
    BY <2>1, RequestType DEF Request
  <2>3. ReadMarked(Request, Latest(rest, last_id'))
    BY <2>1, <1>1, <1>5, RequestMarked
  <2>4. reads' = rest \o <<Request>>
    BY <1>4, <1>6
  <2>5. QED  BY <2>2, <2>3, <2>4, <1>2, <1>5, <1>6, AppendedChain DEF Ctrl!ReaderReady
<1>7. CASE ~(Ctrl!Requests /\ r_ready)
  <2>1. reads' = rest
    BY <1>2, <1>4, <1>7, ConcatEmptySeq
  <2>2. QED  BY <2>1, <1>5, <1>7 DEF Ctrl!ReaderReady
<1>8. QED  BY <1>6, <1>7

\* The pieces in a cycle.
LEMMA PieceStep ==
  ASSUME TypeInv, Room, FirstInv, NEW r_ready, NEW we, NEW loop, NEW reset,
         RPath!Step(we, loop, reset, Ctrl!ReaderReady(r_ready)),
         Latest(reads', last_id') =
           IF Ctrl!ReaderReady(r_ready) THEN r_user_id ELSE Latest(reads, last_id)
  PROVE  PieceMarked' /\ r_user_id' \in 0 .. IdBound - 1
<1> DEFINE ready == Ctrl!ReaderReady(r_ready)
<1>1. RPath!Idle \/ RPath!Run(ready)
  BY DEF RPath!Step
<1>2. r_user_id \in 0 .. IdBound - 1 /\ PieceMarked /\ IdBound \in Nat /\ IdBound > 1
  BY SizesAssumption DEF FirstInv
<1>3. MaxSize \in Nat \ {0} /\ MaxSize = MaxWords * WordBytes
      /\ MaxWords \in Nat /\ WordBytes \in Nat
  BY WordsOfPiece, Descs
<1>4. ready => r_split = "RUN"
  BY DEF Ctrl!ReaderReady, Ctrl!Requests, Room
<1> HIDE DEF ready
<1>5. Latest(reads', last_id') = IF ready THEN r_user_id ELSE Latest(reads, last_id)
  BY DEF ready
<1>6. ASSUME NEW addr \in Nat, NEW length \in Nat \ {0}, NEW first \in BOOLEAN, NEW w \in Nat,
             NEW d \in Range(ReadDescs),
             addr = w * WordBytes, d.addr <= addr, addr + length = d.addr + d.length,
             first <=> addr = d.addr,
             first <=> r_user_id # Latest(reads', last_id'),
             r_split' = "RUN", r_piece' = RPath!Piece(addr, length, first), r_left' = length,
             r_user_id' = r_user_id
      PROVE  PieceMarked' /\ r_user_id' \in 0 .. IdBound - 1
  <2>1. /\ r_piece'.addr = addr /\ r_piece'.first = first
        /\ r_piece'.length = IF length > MaxSize THEN MaxSize ELSE length
    BY <1>6 DEF RPath!Piece, MaxSize
  <2>2. PieceOf(r_piece', r_left', d)
    BY <1>6, <2>1 DEF PieceOf
  <2>3. /\ r_piece'.length = IF r_left' > MaxSize THEN MaxSize ELSE r_left'
        /\ \E v \in Nat : r_piece'.addr = v * WordBytes
    BY <1>6, <2>1
  <2>4. r_piece'.first <=> r_user_id' # Latest(reads', last_id')
    BY <1>6, <2>1
  <2>5. QED  BY <2>2, <2>3, <2>4, <1>2, <1>6 DEF PieceMarked, PieceOf
<1>7. CASE RPath!Idle
  <2>1. r_split = "IDLE" /\ r_user_id' = r_user_id
        /\ Latest(reads', last_id') = Latest(reads, last_id)
        /\ r_user_id # Latest(reads, last_id)
    BY <1>2, <1>4, <1>5, <1>7 DEF RPath!Idle, PieceMarked
  <2>2. CASE r_table = <<>>
    <3>1. r_split' = "IDLE"
      BY <1>7, <2>1, <2>2 DEF RPath!Idle
    <3>2. QED  BY <2>1, <3>1, <1>2 DEF PieceMarked
  <2>3. CASE r_table # <<>>
    <3> DEFINE h == Head(r_table)
    <3>1. h \in Known
      BY <2>3, Shortened DEF FirstInv
    <3>2. PICK d \in Range(ReadDescs) : h.addr = d.addr /\ h.length = d.length
      BY <3>1 DEF Known
    <3>3. d.addr \in Nat /\ d.length \in Nat \ {0} /\ \E w \in Nat : d.addr = w * WordBytes
      BY Descs
    <3>4. PICK w \in Nat : d.addr = w * WordBytes
      BY <3>3
    <3>5. /\ r_split' = "RUN" /\ r_left' = d.length
          /\ r_piece' = RPath!Piece(d.addr, d.length, TRUE)
      BY <1>7, <2>3, <3>2 DEF RPath!Idle
    <3>6. d.addr <= d.addr /\ d.addr + d.length = d.addr + d.length
      BY <3>3
    <3>7. QED  BY <1>6, <2>1, <3>3, <3>4, <3>5, <3>6
  <2>4. QED  BY <2>2, <2>3
<1>8. CASE RPath!Run(ready)
  <2>1. r_split = "RUN" /\ r_piece \in Piece /\ r_left \in Nat \ {0} /\ r_piece.last = (r_left <= MaxSize)
    BY <1>8 DEF RPath!Run, TypeInv, Cut
  <2>2. CASE ~ready
    <3>1. UNCHANGED <<r_split, r_piece, r_left, r_user_id>>
          /\ Latest(reads', last_id') = Latest(reads, last_id)
      BY <1>5, <1>8, <2>2 DEF RPath!Run
    <3>2. QED  BY <3>1, <1>2 DEF PieceMarked, PieceOf
  <2>3. CASE ready /\ r_piece.last
    <3>1. /\ r_split' = "IDLE" /\ r_user_id' = (r_user_id + 1) % IdBound
          /\ Latest(reads', last_id') = r_user_id
      BY <1>5, <1>8, <2>3 DEF RPath!Run
    <3>2. (r_user_id + 1) % IdBound \in 0 .. IdBound - 1 /\ (r_user_id + 1) % IdBound # r_user_id
      BY <1>2
    <3>3. QED  BY <3>1, <3>2 DEF PieceMarked
  <2>4. CASE ready /\ ~r_piece.last
    <3> DEFINE addr == r_piece.addr + MaxSize
               length == r_left - MaxSize
    <3>1. /\ r_piece' = RPath!Piece(addr, length, FALSE) /\ r_left' = length
          /\ r_split' = "RUN" /\ r_user_id' = r_user_id
          /\ Latest(reads', last_id') = r_user_id
      BY <1>5, <1>8, <2>4 DEF RPath!Run, MaxSize
    <3>2. r_piece.addr \in Nat
      BY <2>1 DEF Piece
    <3>3. addr \in Nat /\ length \in Nat \ {0}
      <4>1. ~(r_left <= MaxSize)
        BY <2>1, <2>4
      <4>2. QED  BY <4>1, <3>2, <2>1, <1>3
    <3>4. PICK d \in Range(ReadDescs) : PieceOf(r_piece, r_left, d)
      BY <2>1, <1>2 DEF PieceMarked
    <3>5. d.addr \in Nat /\ d.length \in Nat
      BY Descs
    <3>6. d.addr <= addr /\ addr + length = d.addr + d.length /\ addr # d.addr
      BY <3>2, <3>4, <3>5, <2>1, <1>3 DEF PieceOf
    <3>7. PICK w \in Nat : r_piece.addr = w * WordBytes
      BY <2>1, <1>2 DEF PieceMarked
    <3>8. w + MaxWords \in Nat /\ addr = (w + MaxWords) * WordBytes
      BY <3>7, <1>3
    <3> HIDE DEF addr, length
    <3>9. QED  BY <1>6, <3>1, <3>3, <3>6, <3>8
  <2>5. QED  BY <2>2, <2>3, <2>4
<1>9. QED  BY <1>1, <1>7, <1>8

\* The descriptors of the table in a cycle.
LEMMA KnownStep ==
  ASSUME TypeInv, FirstInv, NEW we \in Strobes(ReadDescs, programmed[1], r_refill),
         NEW loop, NEW reset, NEW ready, RPath!TableStep(we, loop, reset, ready)
  PROVE  r_table' \in Seq(Known) /\ r_refill' \in Seq(Known)
<1> DEFINE taken == r_table # <<>> /\ ready
           rest  == IF taken THEN Tail(r_table) ELSE r_table
           marked == [i \in DOMAIN we |-> [we[i] EXCEPT !.first = RPath!FirstFlag]]
<1>1. r_table \in Seq(Known) /\ r_refill \in Seq(Known) /\ <<>> \in Seq(Known)
  BY EmptySeq DEF FirstInv
<1>2. rest \in Seq(Known) /\ (taken => <<Head(r_table)>> \in Seq(Known))
  BY <1>1, Shortened
<1>3. marked \in Seq(Known)
  <2>1. CASE we = <<>>
    <3>1. marked = <<>>
      BY <2>1, MarkedIs
    <3>2. QED  BY <3>1, <1>1
  <2>2. CASE we # <<>>
    <3> DEFINE k == programmed[1] + 1
    <3>1. programmed[1] < Len(ReadDescs) /\ we = <<Desc(ReadDescs[k])>> /\ programmed[1] \in Nat
      BY <2>2 DEF Strobes, TypeInv
    <3>2. marked = <<[Desc(ReadDescs[k]) EXCEPT !.first = RPath!FirstFlag]>>
      BY <3>1, MarkedIs
    <3>3. k \in DOMAIN ReadDescs
      <4>1. DOMAIN ReadDescs = 1 .. Len(ReadDescs) /\ Len(ReadDescs) \in Nat
        BY DescsAssumption, LenProperties
      <4>2. QED  BY <3>1, <4>1
    <3> HIDE DEF k, marked
    <3>4. ReadDescs[k] \in Range(ReadDescs)
      BY <3>3 DEF Range
    <3>5. RPath!FirstFlag \in BOOLEAN
      BY DEF RPath!FirstFlag
    <3>6. [Desc(ReadDescs[k]) EXCEPT !.first = RPath!FirstFlag] \in Known
      <4>1. ReadDescs[k].addr \in Nat /\ ReadDescs[k].length \in Nat \ {0}
        BY <3>4, Descs
      <4>2. [Desc(ReadDescs[k]) EXCEPT !.first = RPath!FirstFlag]
            = [addr |-> ReadDescs[k].addr, length |-> ReadDescs[k].length, first |-> RPath!FirstFlag]
        BY DEF Desc
      <4>3. QED  BY <4>1, <4>2, <3>4, <3>5 DEF Known, Descriptor
    <3>7. QED  BY <3>2, <3>6
  <2>3. QED  BY <2>1, <2>2
<1>4. /\ r_table' = IF reset THEN <<>>
                    ELSE IF Len(r_table) < TableDepth THEN rest \o r_refill ELSE rest
      /\ r_refill' = IF ~loop THEN marked ELSE IF taken THEN <<Head(r_table)>> ELSE <<>>
  BY DEF RPath!TableStep
<1> HIDE DEF marked
<1>5. rest \o r_refill \in Seq(Known)
  BY <1>1, <1>2, ConcatProperties
<1>6. QED  BY <1>1, <1>2, <1>3, <1>4, <1>5

\* The words of the FIFO in a cycle.
LEMMA MarksStep ==
  ASSUME TypeInv, FirstInv, NEW r_ready, NEW cmp, NEW out_ready,
         cmp = <<>> \/ (reads # <<>> /\ cmp = <<Completion>>),
         Ctrl!ReaderStep(on, RPath!Offers, r_piece.length, r_ready, cmp, out_ready)
  PROVE  \A i \in 1 .. Len(r_fifo') : r_fifo'[i].first <=> Starts(r_fifo'[i].data)
<1> DEFINE Right == {v \in Word : v.first <=> Starts(v.data)}
           given == Given(cmp)
           taken == r_fifo # <<>> /\ out_ready
           rest  == IF taken THEN Tail(r_fifo) ELSE r_fifo
           added == [i \in DOMAIN given |-> Ctrl!WordOf(given[i])]
<1>1. r_fifo \in Seq(Right) /\ <<>> \in Seq(Right)
  <2>1. \A i \in 1 .. Len(r_fifo) : r_fifo[i] \in Word /\ (r_fifo[i].first <=> Starts(r_fifo[i].data))
    BY ElementOfSeq DEF TypeInv, FirstInv
  <2>2. \A i \in 1 .. Len(r_fifo) : r_fifo[i] \in Right
    BY <2>1
  <2>3. r_fifo \in Seq(Word)
    BY DEF TypeInv
  <2> HIDE DEF Right
  <2>4. Len(r_fifo) \in Nat /\ r_fifo = [i \in 1 .. Len(r_fifo) |-> r_fifo[i]]
    BY <2>3, LenProperties
  <2>5. [i \in 1 .. Len(r_fifo) |-> r_fifo[i]] \in Seq(Right)
    BY <2>2, <2>4, IsASeq
  <2>6. QED  BY <2>4, <2>5, EmptySeq
<1>2. rest \in Seq(Right)
  BY <1>1, Shortened
<1>3. added \in Seq(Right)
  <2>1. given = <<>> \/ (reads # <<>> /\ given = <<Completion>>)
    BY DEF Given
  <2>2. CASE given = <<>>
    BY <2>2, <1>1, Received
  <2>3. CASE reads # <<>> /\ given = <<Completion>>
    <3>1. added = <<Ctrl!WordOf(Completion)>>
      BY <2>3, Received
    <3>2. Ctrl!WordOf(Completion) \in Word
      BY <2>3, CompletionType DEF TypeInv
    <3>3. ReadMarked(reads[1], last_id)
      <4>1. Len(reads) \in Nat /\ Len(reads) # 0
        BY <2>3, EmptySeq, LenProperties DEF TypeInv
      <4>2. 1 \in 1 .. Len(reads)
        BY <4>1
      <4>3. QED  BY <4>2 DEF FirstInv, Chain, Before
    <3>4. /\ Ctrl!WordOf(Completion).data = reads[1].word
          /\ Ctrl!WordOf(Completion).first <=> reads[1].first /\ reads[1].id # last_id
      BY DEF Ctrl!WordOf, Completion
    <3>5. Ctrl!WordOf(Completion).first <=> Starts(Ctrl!WordOf(Completion).data)
      BY <3>3, <3>4 DEF ReadMarked
    <3> HIDE DEF added
    <3>6. Ctrl!WordOf(Completion) \in Right
      BY <3>2, <3>5
    <3>7. QED  BY <3>1, <3>6
  <2>4. QED  BY <2>1, <2>2, <2>3
<1>4. r_fifo' = IF on THEN rest \o added ELSE IF r_state = "IDLE" THEN <<>> ELSE rest
  BY DEF Ctrl!ReaderStep, Given
<1>5. r_fifo' \in Seq(Right)
  <2> HIDE DEF added, rest, Right
  <2>1. rest \o added \in Seq(Right)
    BY <1>2, <1>3, ConcatProperties
  <2>2. QED  BY <2>1, <1>1, <1>2, <1>4
<1>6. \A i \in 1 .. Len(r_fifo') : r_fifo'[i] \in Right
  <2> HIDE DEF Right
  <2>1. QED  BY <1>5, ElementOfSeq
<1>7. QED  BY <1>6

LEMMA FirstInvStep ==
  ASSUME TypeInv, Room, FirstInv, Next
  PROVE  FirstInv'
<1>1. PICK r_we \in Strobes(ReadDescs, programmed[1], r_refill),
           w_we \in Strobes(WriteDescs, programmed[2], w_refill),
           enable \in Enables, reset \in Resets,
           r_ready \in Maybe(Ctrl!Requests), w_ready \in Maybe(Ctrl!Writes),
           answers \in Maybe(reads # <<>>), pps \in Maybe(~synced) :
        /\ Software(r_we, w_we, reset, enable)
        /\ Clock(r_we, w_we, reset, r_ready, w_ready, IF answers THEN <<Completion>> ELSE <<>>, pps)
  BY Zenon DEF Next
<1> DEFINE cmp == IF answers THEN <<Completion>> ELSE <<>>
           out_ready == SinkReady(Ctrl!InReady(on))
<1>2. cmp = <<>> \/ (reads # <<>> /\ cmp = <<Completion>>)
  BY DEF Maybe
<1>3. /\ RPath!Step(r_we, looping, TableReset(reset), Ctrl!ReaderReady(r_ready))
      /\ Ctrl!ReaderStep(on, RPath!Offers, r_piece.length, r_ready, cmp, out_ready)
      /\ BusReads(r_ready, cmp)
  BY <1>1 DEF Clock
<1> HIDE DEF cmp, out_ready
<1>4. /\ Chain(reads', last_id')
      /\ Latest(reads', last_id') =
           IF Ctrl!ReaderReady(r_ready) THEN r_user_id ELSE Latest(reads, last_id)
  BY <1>2, <1>3, ChainStep
<1>5. PieceMarked' /\ r_user_id' \in 0 .. IdBound - 1
  BY <1>3, <1>4, PieceStep
<1>6. r_table' \in Seq(Known) /\ r_refill' \in Seq(Known)
  BY <1>3, KnownStep DEF RPath!Step
<1>7. \A i \in 1 .. Len(r_fifo') : r_fifo'[i].first <=> Starts(r_fifo'[i].data)
  BY <1>2, <1>3, MarksStep
<1>8. Chain(reads, last_id)'
  BY <1>4 DEF Chain, Before, ReadMarked, Starts
<1>9. (\A i \in 1 .. Len(r_fifo) : r_fifo[i].first <=> Starts(r_fifo[i].data))'
  BY <1>7 DEF Starts
<1>10. QED  BY <1>5, <1>6, <1>8, <1>9 DEF FirstInv, Known, Descriptor

LEMMA FirstInvariance == Spec => []FirstInv
<1>1. Init => FirstInv
  <2> SUFFICES ASSUME Init PROVE FirstInv
    OBVIOUS
  <2> USE DEF Init, RPath!Init, Ctrl!ReaderInit
  <2>1. r_table = <<>> /\ r_refill = <<>> /\ reads = <<>> /\ r_fifo = <<>>
    OBVIOUS
  <2>2. Len(<<>>) = 0 /\ 1 .. 0 = {} /\ <<>> \in Seq(Known)
    BY EmptySeq
  <2>3. r_user_id = 0 /\ last_id = IdBound - 1 /\ r_split = "IDLE"
    OBVIOUS
  <2>4. r_user_id \in 0 .. IdBound - 1 /\ r_user_id # Latest(reads, last_id)
    BY <2>1, <2>3, SizesAssumption DEF Latest
  <2>5. PieceMarked
    BY <2>3, <2>4 DEF PieceMarked
  <2>6. QED  BY <2>1, <2>2, <2>4, <2>5 DEF FirstInv, Chain
<1>2. IInv /\ FirstInv /\ [Next]_vars => FirstInv'
  <2> SUFFICES ASSUME IInv, FirstInv, [Next]_vars PROVE FirstInv'
    OBVIOUS
  <2>1. CASE Next
    BY <2>1, FirstInvStep DEF IInv
  <2>2. CASE UNCHANGED vars
    <3>1. UNCHANGED <<r_table, r_refill, r_split, r_piece, r_left, r_user_id, reads, last_id, r_fifo>>
      BY <2>2 DEF vars, r_path, ctrl
    <3>2. QED  BY <3>1 DEF FirstInv, PieceMarked, PieceOf, Chain, ReadMarked, Before, Latest,
                           Starts, Known, Descriptor
  <2>3. QED  BY <2>1, <2>2
<1>3. QED  BY <1>1, <1>2, Invariance, PTL DEF Spec

\* A word of the reader's FIFO is marked as a first one if and only if it is the
\* first of a descriptor, for all descriptors that do not overlap, and also if
\* software stops the controller with requests at the bus: an id is not that of
\* the last first completion just when its request is the first of its
\* descriptor (dma/read_controller.py, last_user_id).
THEOREM FirstsAreOfDescriptors == Spec => []FirstMarksDescriptor
<1>1. IInv /\ FirstInv => FirstMarksDescriptor
  <2> SUFFICES ASSUME IInv, FirstInv, NEW i \in DOMAIN r_fifo
               PROVE  r_fifo[i].first <=>
                        \E d \in Range(ReadDescs) : d.addr = r_fifo[i].data * WordBytes
    BY DEF FirstMarksDescriptor
  <2>1. DOMAIN r_fifo = 1 .. Len(r_fifo)
    BY LenProperties DEF IInv, TypeInv
  <2>2. QED  BY <2>1 DEF FirstInv, Starts
<1>2. QED  BY <1>1, Invariance, FirstInvariance, PTL

-----------------------------------------------------------------------------
(* Flows.  What is on its way is a sequence of words, requests or descriptors,  *)
(* and each of them stands for a span of the stream: it goes on from where the *)
(* one before it has ended.  If words may have been lost, it may begin later.  *)
Span == [from : Nat, to : Nat]

Reach(slack, p, k) == k = p \/ (slack /\ k > p)

\* Where the first i spans end.
Stop(t, p, i) == IF i = 0 THEN p ELSE t[i].to

\* The elements of s take the stream from p to q; R has what may stand for what.
Flow(slack, R, s, p, q) ==
  \E t \in Seq(Span) :
    /\ Len(t) = Len(s)
    /\ \A i \in 1 .. Len(s) : <<s[i], t[i]>> \in R /\ Reach(slack, Stop(t, p, i - 1), t[i].from)
    /\ Reach(slack, Stop(t, p, Len(s)), q)

LEMMA LeastExists ==
  ASSUME NEW S \in SUBSET Nat, S # {}
  PROVE  \E least \in S : \A n \in S : least <= n
<1> DEFINE Smaller == OpToRel(<, Nat)
<1>1. PICK least \in S : \A n \in S : ~(<<n, least>> \in Smaller)
  <2>1. IsWellFoundedOn(Smaller, Nat)
    BY NatLessThanWellFounded
  <2> HIDE DEF Smaller
  <2>2. QED  BY <2>1, WFMin
<1>2. \A n \in S : n < least => <<n, least>> \in Smaller
  BY DEF OpToRel
<1> HIDE DEF Smaller
<1>3. ASSUME NEW n \in S PROVE least <= n
  <2>1. n \in Nat /\ least \in Nat /\ ~(n < least)
    BY <1>1, <1>2
  <2>2. QED  BY <2>1
<1>4. QED  BY <1>3

LEMMA EmptyFlow ==
  ASSUME NEW slack, NEW R, NEW p, NEW q
  PROVE  Flow(slack, R, <<>>, p, q) <=> Reach(slack, p, q)
<1>1. <<>> \in Seq(Span) /\ Len(<<>>) = 0
  BY EmptySeq
<1>2. ASSUME Reach(slack, p, q) PROVE Flow(slack, R, <<>>, p, q)
  <2>1. Reach(slack, Stop(<<>>, p, Len(<<>>)), q)
    BY <1>1, <1>2 DEF Stop
  <2>2. \A i \in 1 .. 0 : FALSE
    OBVIOUS
  <2>3. QED  BY <1>1, <2>1, <2>2 DEF Flow
<1>3. ASSUME Flow(slack, R, <<>>, p, q) PROVE Reach(slack, p, q)
  BY <1>1, <1>3 DEF Flow, Stop
<1>4. QED  BY <1>2, <1>3

\* One element: it may have a gap before it and after it.
LEMMA OneFlows ==
  ASSUME NEW slack, NEW R, NEW x, NEW p, NEW q
  PROVE  Flow(slack, R, <<x>>, p, q) <=>
           \E span \in Span : <<x, span>> \in R /\ Reach(slack, p, span.from) /\ Reach(slack, span.to, q)
<1>1. Len(<<x>>) = 1 /\ <<x>>[1] = x /\ 1 .. 1 = {1}
  OBVIOUS
<1>2. ASSUME Flow(slack, R, <<x>>, p, q)
      PROVE  \E span \in Span : <<x, span>> \in R /\ Reach(slack, p, span.from) /\ Reach(slack, span.to, q)
  <2>1. PICK t \in Seq(Span) :
          /\ Len(t) = 1
          /\ <<x, t[1]>> \in R /\ Reach(slack, Stop(t, p, 1 - 1), t[1].from)
          /\ Reach(slack, Stop(t, p, 1), q)
    BY <1>1, <1>2 DEF Flow
  <2>2. t[1] \in Span
    <3>1. 1 \in 1 .. Len(t)
      BY <2>1
    <3>2. QED  BY <3>1, ElementOfSeq
  <2>3. Stop(t, p, 1 - 1) = p /\ Stop(t, p, 1) = t[1].to
    BY DEF Stop
  <2>4. QED  BY <2>1, <2>2, <2>3
<1>3. ASSUME NEW span \in Span, <<x, span>> \in R, Reach(slack, p, span.from), Reach(slack, span.to, q)
      PROVE  Flow(slack, R, <<x>>, p, q)
  <2>1. <<span>> \in Seq(Span) /\ Len(<<span>>) = 1 /\ <<span>>[1] = span
    OBVIOUS
  <2>2. Stop(<<span>>, p, 1 - 1) = p /\ Stop(<<span>>, p, 1) = span.to
    BY DEF Stop
  <2>3. QED  BY <1>1, <1>3, <2>1, <2>2 DEF Flow
<1>4. QED  BY <1>2, <1>3

LEMMA ReachMeets ==
  ASSUME NEW slack, NEW p \in Nat, NEW q \in Nat, NEW r \in Nat,
         Reach(slack, p, q), Reach(slack, q, r)
  PROVE  Reach(slack, p, r)
BY DEF Reach

LEMMA FlowsMeet ==
  ASSUME NEW slack, NEW R, NEW S, NEW s \in Seq(S), NEW u \in Seq(S),
         NEW p \in Nat, NEW q \in Nat, NEW r \in Nat,
         Flow(slack, R, s, p, q), Flow(slack, R, u, q, r)
  PROVE  Flow(slack, R, s \o u, p, r)
<1>1. PICK t \in Seq(Span) :
        /\ Len(t) = Len(s)
        /\ \A i \in 1 .. Len(s) : <<s[i], t[i]>> \in R /\ Reach(slack, Stop(t, p, i - 1), t[i].from)
        /\ Reach(slack, Stop(t, p, Len(s)), q)
  BY DEF Flow
<1>2. PICK v \in Seq(Span) :
        /\ Len(v) = Len(u)
        /\ \A i \in 1 .. Len(u) : <<u[i], v[i]>> \in R /\ Reach(slack, Stop(v, q, i - 1), v[i].from)
        /\ Reach(slack, Stop(v, q, Len(u)), r)
  BY DEF Flow
<1> DEFINE m == Len(s)
           n == Len(u)
           w == t \o v
<1>3. m \in Nat /\ n \in Nat
  OBVIOUS
<1>4. /\ Len(s \o u) = m + n
      /\ \A i \in 1 .. m + n : (s \o u)[i] = IF i <= m THEN s[i] ELSE u[i - m]
  BY ConcatProperties
<1>5. /\ w \in Seq(Span) /\ Len(w) = m + n
      /\ \A i \in 1 .. m + n : w[i] = IF i <= m THEN t[i] ELSE v[i - m]
  <2>1. Len(t) = m /\ Len(v) = n
    BY <1>1, <1>2
  <2> HIDE DEF m, n
  <2>2. QED  BY <2>1, ConcatProperties
<1>6. \A i \in 1 .. m : t[i] \in Span /\ t[i].to \in Nat
  <2>1. \A i \in 1 .. m : t[i] \in Span
    BY <1>1, ElementOfSeq
  <2>2. QED  BY <2>1 DEF Span
<1>7. \A i \in 1 .. n : v[i] \in Span /\ v[i].from \in Nat
  <2>1. \A i \in 1 .. n : v[i] \in Span
    BY <1>2, ElementOfSeq
  <2>2. QED  BY <2>1 DEF Span
<1>8. Stop(t, p, m) \in Nat
  BY <1>3, <1>6 DEF Stop
<1> HIDE DEF w, m, n
<1>9. \A i \in 0 .. m : Stop(w, p, i) = Stop(t, p, i)
  BY <1>3, <1>5 DEF Stop
<1>10. \A i \in 1 .. n : Stop(w, p, m + i) = Stop(v, q, i)
  BY <1>3, <1>5, SMTT(30) DEF Stop
<1>11. ASSUME NEW i \in 1 .. m + n
       PROVE  <<(s \o u)[i], w[i]>> \in R /\ Reach(slack, Stop(w, p, i - 1), w[i].from)
  <2>1. CASE i <= m
    <3>1. i \in 1 .. m /\ i - 1 \in 0 .. m
      BY <1>3, <2>1
    <3>2. w[i] = t[i] /\ (s \o u)[i] = s[i]
      BY <1>4, <1>5, <2>1
    <3>3. QED  BY <1>1, <1>9, <3>1, <3>2 DEF m
  <2>2. CASE i = m + 1
    <3>1. 1 \in 1 .. n /\ w[i] = v[1] /\ (s \o u)[i] = u[1] /\ i - 1 = m /\ m \in 0 .. m
      <4>1. i \in 1 .. m + n /\ 1 \in 1 .. n /\ ~(i <= m) /\ i - m = 1 /\ i - 1 = m /\ m \in 0 .. m
        BY <1>3, <2>2
      <4>2. QED  BY <1>4, <1>5, <4>1
    <3>2. <<u[1], v[1]>> \in R /\ Reach(slack, q, v[1].from)
      BY <1>2, <3>1 DEF n, Stop
    <3>3. Reach(slack, Stop(t, p, m), q)
      BY <1>1 DEF m
    <3>4. Reach(slack, Stop(t, p, m), v[1].from)
      BY <1>7, <1>8, <3>1, <3>2, <3>3, ReachMeets
    <3>5. QED  BY <1>9, <3>1, <3>2, <3>4
  <2>3. CASE i > m + 1
    <3>1. i - m \in 1 .. n /\ (i - m) - 1 \in 1 .. n /\ w[i] = v[i - m] /\ (s \o u)[i] = u[i - m]
          /\ i - 1 = m + ((i - m) - 1)
      <4>1. /\ ~(i <= m) /\ i - m \in 1 .. n /\ (i - m) - 1 \in 1 .. n
            /\ i - 1 = m + ((i - m) - 1)
        BY <1>3, <2>3
      <4>2. QED  BY <1>4, <1>5, <4>1
    <3>2. Stop(w, p, i - 1) = Stop(v, q, (i - m) - 1)
      BY <1>10, <3>1
    <3>3. QED  BY <1>2, <3>1, <3>2 DEF n
  <2>4. i <= m \/ i = m + 1 \/ i > m + 1
    BY <1>3
  <2>5. QED  BY <2>1, <2>2, <2>3, <2>4
<1>12. Reach(slack, Stop(w, p, m + n), r)
  <2>1. CASE n = 0
    <3>1. Stop(w, p, m + n) = Stop(t, p, m) /\ Stop(v, q, n) = q
      BY <1>3, <1>9, <2>1, SMTT(30) DEF Stop
    <3>2. QED  BY <1>1, <1>2, <1>8, <3>1, ReachMeets DEF m, n
  <2>2. CASE n # 0
    BY <1>2, <1>3, <1>10, <2>2 DEF n
  <2>3. QED  BY <2>1, <2>2
<1>13. QED  BY <1>4, <1>5, <1>11, <1>12 DEF Flow

\* Of words that may be lost each one goes forward, and so do all together.
Forward(slack, R) == slack => \A x, span : <<x, span>> \in R => span.from <= span.to

LEMMA FlowsForward ==
  ASSUME NEW slack, NEW R, Forward(slack, R), NEW S, NEW s \in Seq(S),
         NEW p \in Nat, NEW q \in Nat, slack, Flow(slack, R, s, p, q)
  PROVE  Reach(slack, p, q)
<1>1. PICK t \in Seq(Span) :
        /\ Len(t) = Len(s)
        /\ \A i \in 1 .. Len(s) : <<s[i], t[i]>> \in R /\ Reach(slack, Stop(t, p, i - 1), t[i].from)
        /\ Reach(slack, Stop(t, p, Len(s)), q)
  BY DEF Flow
<1>2. Len(s) \in Nat
  OBVIOUS
<1>3. \A i \in 1 .. Len(s) : t[i].from \in Nat /\ t[i].to \in Nat /\ t[i].from <= t[i].to
  <2>1. \A i \in 1 .. Len(s) : t[i] \in Span
    BY <1>1, ElementOfSeq
  <2>2. QED  BY <1>1, <2>1 DEF Span, Forward
<1>4. ASSUME NEW i \in 0 .. Len(s) PROVE p <= Stop(t, p, i)
  <2> DEFINE bad == {k \in 0 .. Len(s) : ~(p <= Stop(t, p, k))}
  <2> SUFFICES ASSUME bad # {} PROVE FALSE
    OBVIOUS
  <2>1. PICK k \in bad : \A j \in bad : k <= j
    <3>1. bad \in SUBSET Nat
      BY <1>2
    <3> HIDE DEF bad
    <3>2. QED  BY <3>1, LeastExists
  <2>2. k # 0 /\ k \in 1 .. Len(s) /\ k - 1 \in 0 .. Len(s) /\ k - 1 \notin bad
    BY <1>2, <2>1 DEF Stop
  <2>3. p <= Stop(t, p, k - 1) /\ Stop(t, p, k - 1) \in Nat
    BY <1>2, <1>3, <2>2 DEF Stop
  <2>4. Reach(slack, Stop(t, p, k - 1), t[k].from)
    BY <1>1, <2>2
  <2>5. p <= t[k].to
    BY <1>3, <2>2, <2>3, <2>4 DEF Reach
  <2>6. Stop(t, p, k) = t[k].to
    BY <2>2 DEF Stop
  <2>7. QED  BY <2>1, <2>5, <2>6
<1>5. p <= Stop(t, p, Len(s)) /\ Stop(t, p, Len(s)) \in Nat
  BY <1>2, <1>3, <1>4 DEF Stop
<1>6. QED  BY <1>1, <1>5 DEF Reach

\* What is in front can be told from the rest.
LEMMA FlowsPart ==
  ASSUME NEW slack, NEW R, NEW S, NEW s \in Seq(S), s # <<>>,
         NEW p \in Nat, NEW r \in Nat, Flow(slack, R, s, p, r)
  PROVE  \E span \in Span : /\ <<Head(s), span>> \in R /\ Reach(slack, p, span.from)
                            /\ Flow(slack, R, Tail(s), span.to, r)
<1>1. PICK t \in Seq(Span) :
        /\ Len(t) = Len(s)
        /\ \A i \in 1 .. Len(s) : <<s[i], t[i]>> \in R /\ Reach(slack, Stop(t, p, i - 1), t[i].from)
        /\ Reach(slack, Stop(t, p, Len(s)), r)
  BY DEF Flow
<1>2. Len(s) \in Nat /\ Len(s) > 0 /\ Len(Tail(s)) = Len(s) - 1 /\ Head(s) = s[1]
      /\ \A i \in 1 .. Len(s) - 1 : Tail(s)[i] = s[i + 1]
  BY Shortened
<1>3. t # <<>>
  BY <1>1, <1>2
<1>4. /\ Len(Tail(t)) = Len(s) - 1 /\ Tail(t) \in Seq(Span)
      /\ \A i \in 1 .. Len(s) - 1 : Tail(t)[i] = t[i + 1]
  BY <1>1, <1>3, Shortened
<1>5. t[1] \in Span /\ <<Head(s), t[1]>> \in R /\ Reach(slack, p, t[1].from)
  <2>1. 1 \in 1 .. Len(s)
    BY <1>2
  <2>2. QED  BY <1>1, <1>2, <2>1, ElementOfSeq DEF Stop
<1>6. \A i \in 0 .. Len(s) - 1 : Stop(Tail(t), t[1].to, i) = Stop(t, p, i + 1)
  BY <1>2, <1>4 DEF Stop
<1>7. ASSUME NEW i \in 1 .. Len(s) - 1
      PROVE  <<Tail(s)[i], Tail(t)[i]>> \in R
             /\ Reach(slack, Stop(Tail(t), t[1].to, i - 1), Tail(t)[i].from)
  <2>1. i + 1 \in 1 .. Len(s) /\ i - 1 \in 0 .. Len(s) - 1 /\ (i - 1) + 1 = (i + 1) - 1
    BY <1>2
  <2>2. QED  BY <1>1, <1>2, <1>4, <1>6, <2>1
<1>8. Reach(slack, Stop(Tail(t), t[1].to, Len(s) - 1), r)
  <2>1. Len(s) - 1 \in 0 .. Len(s) - 1 /\ (Len(s) - 1) + 1 = Len(s)
    BY <1>2
  <2>2. QED  BY <1>1, <1>6, <2>1
<1>9. Flow(slack, R, Tail(s), t[1].to, r)
  BY <1>2, <1>4, <1>7, <1>8 DEF Flow
<1>10. QED  BY <1>5, <1>9

LEMMA FlowLoosens ==
  ASSUME NEW R, NEW s, NEW p, NEW q, NEW slack, NEW looser, slack => looser, Flow(slack, R, s, p, q)
  PROVE  Flow(looser, R, s, p, q)
BY DEF Flow, Reach

-----------------------------------------------------------------------------
(* The stream that a list of descriptors names.                                *)

\* f is what FlattenSeq computes from the first n sequences, one after the other.
IsFlat(f, seqs, n) == f = [i \in 1 .. n |-> IF i = 1 THEN seqs[i] ELSE f[i - 1] \o seqs[i]]

LEMMA FlatExists ==
  ASSUME NEW n \in Nat, NEW seqs
  PROVE  \E f : IsFlat(f, seqs, n)
<1> DEFINE without == {m \in Nat : \A f : ~IsFlat(f, seqs, m)}
<1> SUFFICES ASSUME n \in without PROVE FALSE
  OBVIOUS
<1>1. PICK m \in without : \A k \in without : m <= k
  <2> HIDE DEF without
  <2>1. without \in SUBSET Nat
    BY DEF without
  <2>2. QED  BY <2>1, LeastExists
<1>2. m # 0
  <2> DEFINE f == [i \in 1 .. 0 |-> 0]
  <2>1. f = [i \in 1 .. 0 |-> IF i = 1 THEN seqs[i] ELSE f[i - 1] \o seqs[i]]
    OBVIOUS
  <2>2. IsFlat(f, seqs, 0)
    BY <2>1 DEF IsFlat
  <2>3. QED  BY <2>2
<1>3. m - 1 \in Nat /\ m \in Nat /\ m - 1 \notin without
  BY <1>1, <1>2
<1>4. PICK f : IsFlat(f, seqs, m - 1)
  BY <1>3
<1> DEFINE next == IF m = 1 THEN seqs[m] ELSE f[m - 1] \o seqs[m]
           g == [i \in 1 .. m |-> IF i = m THEN next ELSE f[i]]
<1>5. ASSUME NEW i \in 1 .. m PROVE g[i] = IF i = 1 THEN seqs[i] ELSE g[i - 1] \o seqs[i]
  <2>1. \A j \in 1 .. m - 1 : f[j] = IF j = 1 THEN seqs[j] ELSE f[j - 1] \o seqs[j]
    BY <1>4 DEF IsFlat
  <2>2. CASE i = m
    <3>1. g[i] = next
      BY <2>2
    <3>2. i # 1 => i - 1 \in 1 .. m /\ i - 1 # m
      BY <1>3
    <3>3. QED  BY <2>2, <3>1, <3>2
  <2>3. CASE i # m
    <3>1. i \in 1 .. m - 1
      BY <1>3, <2>3
    <3>2. g[i] = f[i]
      BY <2>3
    <3>3. i # 1 => i - 1 \in 1 .. m /\ i - 1 # m
      BY <1>3
    <3> HIDE DEF next
    <3>4. i # 1 => g[i - 1] = f[i - 1]
      BY <3>3
    <3>5. QED  BY <2>1, <3>1, <3>2, <3>4
  <2>4. QED  BY <2>2, <2>3
<1>6. IsFlat(g, seqs, m)
  <2>1. g = [i \in 1 .. m |-> g[i]]
    OBVIOUS
  <2> HIDE DEF g
  <2>2. QED  BY <1>5, <2>1 DEF IsFlat
<1>7. QED  BY <1>1, <1>6

\* The parts of a flattened sequence are where the lengths before them add up to.
Parts(seqs, flat, base) ==
  /\ base \in [0 .. Len(seqs) -> Nat]
  /\ base[0] = 0 /\ base[Len(seqs)] = Len(flat)
  /\ \A i, j \in 0 .. Len(seqs) : i <= j => base[i] <= base[j]
  /\ \A i \in 1 .. Len(seqs) :
       /\ base[i] = base[i - 1] + Len(seqs[i])
       /\ \A j \in 1 .. Len(seqs[i]) : flat[base[i - 1] + j] = seqs[i][j]

LEMMA FlatParts ==
  ASSUME NEW T, NEW seqs \in Seq(Seq(T))
  PROVE  FlattenSeq(seqs) \in Seq(T) /\ \E base : Parts(seqs, FlattenSeq(seqs), base)
<1> DEFINE n == Len(seqs)
           flat == FlattenSeq(seqs)
<1>1. n \in Nat /\ \A i \in 1 .. n : seqs[i] \in Seq(T)
  BY ElementOfSeq
<1>2. CASE n = 0
  <2>1. seqs = <<>> /\ flat = seqs
    BY <1>2, EmptySeq DEF FlattenSeq
  <2>2. flat \in Seq(T) /\ Len(flat) = 0
    BY <2>1, EmptySeq
  <2> DEFINE base == [i \in 0 .. 0 |-> 0]
  <2>3. Parts(seqs, flat, base)
    <3>1. base \in [0 .. 0 -> Nat] /\ base[0] = 0 /\ 1 .. 0 = {} /\ \A i \in 0 .. 0 : i = 0
      OBVIOUS
    <3> HIDE DEF base, flat
    <3>2. QED  BY <1>2, <2>2, <3>1 DEF Parts
  <2>4. QED  BY <2>2, <2>3
<1>3. CASE n # 0
  <2> DEFINE f == CHOOSE f : f = [i \in 1 .. n |-> IF i = 1 THEN seqs[i] ELSE f[i - 1] \o seqs[i]]
  <2>1. IsFlat(f, seqs, n)
    BY <1>1, FlatExists DEF IsFlat
  <2>2. flat = f[n]
    BY <1>3 DEF FlattenSeq
  <2>3. \A i \in 1 .. n : f[i] = IF i = 1 THEN seqs[i] ELSE f[i - 1] \o seqs[i]
    <3> HIDE DEF f
    <3>1. QED  BY <2>1 DEF IsFlat
  <2> HIDE DEF f, n
  <2>4. ASSUME NEW i \in 1 .. n PROVE f[i] \in Seq(T)
    <3> DEFINE bad == {m \in 1 .. n : f[m] \notin Seq(T)}
    <3> SUFFICES ASSUME bad # {} PROVE FALSE
      OBVIOUS
    <3>1. PICK m \in bad : \A k \in bad : m <= k
      <4>1. bad \in SUBSET Nat
        BY <1>1
      <4> HIDE DEF bad
      <4>2. QED  BY <4>1, LeastExists
    <3>2. m # 1 => m - 1 \in 1 .. n /\ m - 1 \notin bad
      BY <1>1, <3>1
    <3>3. m \in 1 .. n /\ seqs[m] \in Seq(T)
      BY <1>1, <3>1
    <3>4. m # 1 => f[m] \in Seq(T)
      <4>1. m # 1 => f[m - 1] \in Seq(T) /\ f[m] = f[m - 1] \o seqs[m]
        BY <2>3, <3>2, <3>3
      <4>2. \A a, b \in Seq(T) : a \o b \in Seq(T)
        BY ConcatProperties
      <4>3. QED  BY <3>3, <4>1, <4>2, Zenon
    <3>5. m = 1 => f[m] \in Seq(T)
      BY <2>3, <3>3
    <3>6. QED  BY <3>1, <3>4, <3>5
  <2>5. \A i \in 1 .. n : Len(f[i]) \in Nat
    BY <2>4
  <2> DEFINE base == [i \in 0 .. n |-> IF i = 0 THEN 0 ELSE Len(f[i])]
  <2>6. base \in [0 .. n -> Nat] /\ base[0] = 0 /\ base[n] = Len(f[n])
    BY <1>1, <1>3, <2>5 DEF n
  <2>7. \A i \in 1 .. n : base[i] = Len(f[i])
    OBVIOUS
  <2> HIDE DEF base
  <2>8. ASSUME NEW i \in 1 .. n
        PROVE  /\ base[i] = base[i - 1] + Len(seqs[i])
               /\ base[i - 1] \in Nat /\ Len(seqs[i]) \in Nat
               /\ i # 1 => \A j \in 1 .. base[i - 1] : f[i][j] = f[i - 1][j]
               /\ \A j \in 1 .. Len(seqs[i]) : f[i][base[i - 1] + j] = seqs[i][j]
    <3>1. seqs[i] \in Seq(T) /\ Len(seqs[i]) \in Nat
      BY <1>1
    <3>2. CASE i = 1
      <4>1. f[i] = seqs[i] /\ base[i] = Len(seqs[i]) /\ base[i - 1] = 0
        BY <2>3, <2>6, <2>7, <3>2
      <4>2. \A j \in 1 .. Len(seqs[i]) : 0 + j = j
        BY <3>1
      <4>3. QED  BY <3>1, <3>2, <4>1, <4>2
    <3>3. CASE i # 1
      <4>1. i - 1 \in 1 .. n
        BY <1>1, <3>3
      <4>2. PICK u \in Seq(T) : u = f[i - 1] /\ base[i - 1] = Len(u)
        BY <2>4, <2>7, <4>1
      <4>3. PICK v \in Seq(T) : v = seqs[i]
        BY <3>1
      <4>4. f[i] = u \o v /\ base[i] = Len(u \o v)
        BY <2>3, <2>7, <3>3, <4>2, <4>3
      <4>5. /\ Len(u \o v) = Len(u) + Len(v)
            /\ \A j \in 1 .. Len(u) + Len(v) :
                 (u \o v)[j] = IF j <= Len(u) THEN u[j] ELSE v[j - Len(u)]
        BY ConcatProperties
      <4>6. Len(u) \in Nat /\ Len(v) \in Nat
        OBVIOUS
      <4>7. ASSUME NEW j \in 1 .. Len(v) PROVE (u \o v)[Len(u) + j] = v[j]
        <5>1. /\ Len(u) + j \in 1 .. Len(u) + Len(v)
              /\ ~(Len(u) + j <= Len(u)) /\ (Len(u) + j) - Len(u) = j
          BY <4>6
        <5>2. QED  BY <4>5, <5>1
      <4>8. ASSUME NEW j \in 1 .. Len(u) PROVE (u \o v)[j] = u[j]
        <5>1. j \in 1 .. Len(u) + Len(v) /\ j <= Len(u)
          BY <4>6
        <5>2. QED  BY <4>5, <5>1
      <4>9. QED  BY <4>2, <4>3, <4>4, <4>5, <4>6, <4>7, <4>8
    <3>4. QED  BY <3>2, <3>3
  <2>9. ASSUME NEW i \in 0 .. n, NEW j \in 0 .. n, i <= j
        PROVE  base[i] <= base[j] /\ (i # 0 => \A k \in 1 .. base[i] : f[j][k] = f[i][k])
    <3> DEFINE Good(m) == base[i] <= base[m] /\ (i # 0 => \A k \in 1 .. base[i] : f[m][k] = f[i][k])
               bad == {m \in i .. n : ~Good(m)}
    <3> SUFFICES ASSUME bad # {} PROVE FALSE
      BY <2>9
    <3>1. PICK m \in bad : \A k \in bad : m <= k
      <4>1. bad \in SUBSET Nat
        BY <1>1
      <4> HIDE DEF bad
      <4>2. QED  BY <4>1, LeastExists
    <3>2. base[i] \in Nat
      BY <2>6
    <3>3. Good(i)
      BY <3>2
    <3> HIDE DEF Good
    <3>4. m # i /\ m - 1 \in i .. n /\ m \in 1 .. n /\ ~Good(m)
      BY <1>1, <3>1, <3>3
    <3>5. m - 1 \notin bad
      BY <1>1, <3>1, <3>4
    <3>6. Good(m - 1)
      BY <3>4, <3>5
    <3>7. base[m] = base[m - 1] + Len(seqs[m]) /\ base[m - 1] \in Nat /\ Len(seqs[m]) \in Nat
          /\ (m # 1 => \A k \in 1 .. base[m - 1] : f[m][k] = f[m - 1][k])
      BY <2>8, <3>4
    <3>8. base[i] <= base[m]
      BY <3>2, <3>6, <3>7 DEF Good
    <3>9. ASSUME i # 0, NEW k \in 1 .. base[i] PROVE f[m][k] = f[i][k]
      <4>1. m # 1 /\ base[i] <= base[m - 1]
        BY <3>4, <3>6, <3>9 DEF Good
      <4>2. k \in 1 .. base[m - 1]
        BY <3>2, <3>7, <4>1
      <4>3. QED  BY <3>6, <3>7, <3>9, <4>1, <4>2 DEF Good
    <3>10. QED  BY <3>4, <3>8, <3>9 DEF Good
  <2>10. ASSUME NEW i \in 1 .. n, NEW j \in 1 .. Len(seqs[i])
         PROVE  f[n][base[i - 1] + j] = seqs[i][j]
    <3>1. base[i - 1] + j \in 1 .. base[i]
      BY <2>8
    <3>2. i \in 0 .. n /\ n \in 0 .. n /\ i <= n /\ i # 0
      BY <1>1
    <3>3. f[n][base[i - 1] + j] = f[i][base[i - 1] + j]
      BY <2>9, <3>1, <3>2
    <3>4. QED  BY <2>8, <3>3
  <2>11. Parts(seqs, f[n], base)
    BY <2>6, <2>8, <2>9, <2>10 DEF Parts, n
  <2>12. f[n] \in Seq(T)
    BY <1>1, <1>3, <2>4
  <2> HIDE DEF flat
  <2>13. flat \in Seq(T) /\ Parts(seqs, flat, base)
    BY <2>2, <2>11, <2>12
  <2>14. QED  BY <2>13 DEF flat
<1>4. QED  BY <1>2, <1>3

StreamWord == [addr : Nat, end : BOOLEAN]
DescOf     == [addr : Nat, length : Nat \ {0}]

\* The list is in the stream S, and the words of its first i descriptors are the
\* first base[i] of it.
LaidOut(S, descs, base) ==
  /\ base \in [0 .. Len(descs) -> Nat]
  /\ base[0] = 0 /\ base[Len(descs)] = Len(S)
  /\ \A i, j \in 0 .. Len(descs) : i <= j => base[i] <= base[j]
  /\ \A i \in 1 .. Len(descs) :
       /\ base[i] = base[i - 1] + Ctrl!Words(descs[i].length)
       /\ \A j \in 1 .. Ctrl!Words(descs[i].length) : S[base[i - 1] + j] = WordsOf(descs[i])[j]

Base(S, descs) == CHOOSE base : LaidOut(S, descs, base)

LEMMA QuotientShift ==
  ASSUME NEW a \in Nat, NEW b \in Nat \ {0}, NEW k \in Nat
  PROVE  (a + k * b) \div b = (a \div b) + k
<1> DEFINE q == a \div b
           Q == (a + k * b) \div b
<1>1. q \in Nat /\ q * b <= a /\ a < (q + 1) * b
  OBVIOUS
<1>2. k * b \in Nat
  OBVIOUS
<1>3. Q \in Nat /\ Q * b <= a + k * b /\ a + k * b < (Q + 1) * b
  BY <1>2
<1> HIDE DEF q, Q
<1>4. (q + k) * b = q * b + k * b /\ (q + 1) * b = q * b + b /\ (Q + 1) * b = Q * b + b
      /\ (q + k + 1) * b = q * b + k * b + b
  BY <1>1, <1>3
<1>5. (q + k) * b < (Q + 1) * b /\ Q * b < (q + k + 1) * b
  <2> DEFINE x == q * b
             y == k * b
             z == Q * b
  <2>1. x \in Nat /\ y \in Nat /\ z \in Nat
    BY <1>1, <1>3
  <2>2. x <= a /\ a < x + b /\ z <= a + y /\ a + y < z + b
    BY <1>1, <1>3, <1>4
  <2> HIDE DEF x, y, z
  <2>3. x + y < z + b /\ z < x + y + b
    BY <2>1, <2>2
  <2>4. QED  BY <1>4, <2>3 DEF x, y, z
<1>6. \A m, n \in Nat : m * b < n * b => m < n
  OBVIOUS
<1>7. q + k < Q + 1 /\ Q < q + k + 1
  <2>1. q + k \in Nat /\ Q + 1 \in Nat /\ q + k + 1 \in Nat
    BY <1>1, <1>3
  <2>2. QED  BY <1>3, <1>5, <1>6, <2>1
<1>8. Q = q + k
  BY <1>1, <1>3, <1>7
<1>9. QED  BY <1>8 DEF q, Q

\* The words of a length: no more than it takes.
LEMMA WordsFit ==
  ASSUME NEW length \in Nat \ {0}
  PROVE  /\ Ctrl!Words(length) \in Nat \ {0}
         /\ \A j \in 0 .. Ctrl!Words(length) - 1 : j * WordBytes < length
<1> DEFINE q == Ctrl!Words(length)
<1>1. WordBytes \in Nat \ {0}
  BY Descs
<1>2. q \in Nat /\ q * WordBytes <= length + WordBytes - 1 /\ length + WordBytes - 1 < (q + 1) * WordBytes
  BY <1>1 DEF Ctrl!Words
<1> HIDE DEF q
<1>3. q # 0
  BY <1>1, <1>2
<1>4. ASSUME NEW j \in 0 .. q - 1 PROVE j * WordBytes < length
  <2> DEFINE b == j * WordBytes
             c == (q - j - 1) * WordBytes
  <2>1. q * WordBytes = b + c + WordBytes
    BY <1>1, <1>2
  <2>2. b \in Nat /\ c \in Nat
    <3>1. q - j - 1 \in Nat /\ j \in Nat
      BY <1>2
    <3>2. QED  BY <3>1, <1>1
  <2> HIDE DEF b, c
  <2>3. b < length
    BY <1>1, <1>2, <2>1, <2>2
  <2>4. QED  BY <2>3 DEF b
<1>5. QED  BY <1>2, <1>3, <1>4 DEF q

LEMMA WordsOfDesc ==
  ASSUME NEW d \in DescOf
  PROVE  /\ WordsOf(d) \in Seq(StreamWord) /\ Len(WordsOf(d)) = Ctrl!Words(d.length)
         /\ \A k \in 1 .. Ctrl!Words(d.length) :
              WordsOf(d)[k] = [addr |-> d.addr \div WordBytes + k - 1,
                               end  |-> k % MaxWords = 0 \/ k = Ctrl!Words(d.length)]
<1>1. d.addr \in Nat /\ d.length \in Nat \ {0} /\ WordBytes \in Nat \ {0} /\ MaxWords \in Nat \ {0}
  BY Descs DEF DescOf
<1> DEFINE n == Ctrl!Words(d.length)
           a == d.addr \div WordBytes
<1>2. n \in Nat /\ a \in Nat
  BY <1>1, WordsFit
<1> DEFINE f == [k \in 1 .. n |-> [addr |-> a + k - 1, end |-> k % MaxWords = 0 \/ k = n]]
<1>3. WordsOf(d) = f
  BY DEF WordsOf
<1> HIDE DEF n, a
<1>4. \A k \in 1 .. n : f[k] \in StreamWord
  BY <1>2 DEF StreamWord
<1>5. \A k \in 1 .. n : f[k] = [addr |-> a + k - 1, end |-> k % MaxWords = 0 \/ k = n]
  OBVIOUS
<1>6. DOMAIN f = 1 .. n
  OBVIOUS
<1> HIDE DEF f
<1>7. f \in Seq(StreamWord) /\ Len(f) = n
  <2>1. f \in [1 .. n -> StreamWord]
    <3>1. f = [k \in 1 .. n |-> f[k]]
      BY DEF f
    <3>2. QED  BY <1>4, <3>1
  <2>2. QED  BY <2>1, <1>2, SeqDef, LenProperties
<1>8. QED  BY <1>3, <1>5, <1>7 DEF n, a

LEMMA StreamIsLaidOut ==
  ASSUME NEW descs \in Seq(DescOf), NEW S,
         S = FlattenSeq([i \in DOMAIN descs |-> WordsOf(descs[i])])
  PROVE  S \in Seq(StreamWord) /\ LaidOut(S, descs, Base(S, descs))
<1> DEFINE seqs == [i \in DOMAIN descs |-> WordsOf(descs[i])]
<1>1. DOMAIN descs = 1 .. Len(descs) /\ Len(descs) \in Nat /\ \A i \in 1 .. Len(descs) : descs[i] \in DescOf
  BY ElementOfSeq
<1>2. \A i \in 1 .. Len(descs) : seqs[i] = WordsOf(descs[i]) /\ seqs[i] \in Seq(StreamWord)
  BY <1>1, WordsOfDesc
<1>3. seqs = [i \in 1 .. Len(descs) |-> seqs[i]]
  BY <1>1
<1>4. S = FlattenSeq(seqs)
  OBVIOUS
<1> HIDE DEF seqs
<1>5. seqs \in Seq(Seq(StreamWord)) /\ Len(seqs) = Len(descs)
  <2>1. seqs \in [1 .. Len(descs) -> Seq(StreamWord)]
    BY <1>2, <1>3
  <2>2. QED  BY <1>1, <2>1, SeqDef, LenProperties, SMTT(30)
<1>6. S \in Seq(StreamWord) /\ \E base : Parts(seqs, S, base)
  BY <1>4, <1>5, FlatParts
<1>7. PICK base : Parts(seqs, S, base)
  BY <1>6
<1>8. \A i \in 1 .. Len(descs) : Len(seqs[i]) = Ctrl!Words(descs[i].length)
  BY <1>1, <1>2, WordsOfDesc
<1>9. LaidOut(S, descs, base)
  <2>1. /\ base \in [0 .. Len(descs) -> Nat]
        /\ base[0] = 0 /\ base[Len(descs)] = Len(S)
        /\ \A i, j \in 0 .. Len(descs) : i <= j => base[i] <= base[j]
    BY <1>5, <1>7 DEF Parts
  <2>2. ASSUME NEW i \in 1 .. Len(descs)
        PROVE  /\ base[i] = base[i - 1] + Ctrl!Words(descs[i].length)
               /\ \A j \in 1 .. Ctrl!Words(descs[i].length) : S[base[i - 1] + j] = WordsOf(descs[i])[j]
    <3>1. /\ base[i] = base[i - 1] + Len(seqs[i])
          /\ \A j \in 1 .. Len(seqs[i]) : S[base[i - 1] + j] = seqs[i][j]
      BY <1>5, <1>7 DEF Parts
    <3>2. seqs[i] = WordsOf(descs[i]) /\ Len(seqs[i]) = Ctrl!Words(descs[i].length)
      BY <1>2, <1>8
    <3>3. QED  BY <3>1, <3>2
  <2>3. QED  BY <2>1, <2>2 DEF LaidOut
<1>10. QED  BY <1>6, <1>9 DEF Base

\* Each place of the stream belongs to a descriptor.
LEMMA PlaceOf ==
  ASSUME NEW descs \in Seq(DescOf), NEW S \in Seq(StreamWord), NEW base, LaidOut(S, descs, base),
         NEW k \in 1 .. Len(S)
  PROVE  \E i \in 1 .. Len(descs) : k - base[i - 1] \in 1 .. Ctrl!Words(descs[i].length)
<1> DEFINE upto == {i \in 0 .. Len(descs) : k <= base[i]}
<1>1. Len(descs) \in Nat /\ Len(S) \in Nat
  OBVIOUS
<1>2. Len(descs) \in upto
  BY <1>1 DEF LaidOut
<1>3. PICK i \in upto : \A j \in upto : i <= j
  <2>1. upto \in SUBSET Nat /\ upto # {}
    BY <1>2
  <2> HIDE DEF upto
  <2>2. QED  BY <2>1, LeastExists
<1>4. i # 0
  BY <1>3 DEF LaidOut
<1>5. i \in 1 .. Len(descs) /\ i - 1 \in 0 .. Len(descs) /\ i - 1 \notin upto
  BY <1>1, <1>3, <1>4
<1>6. base[i - 1] \in Nat /\ base[i] \in Nat /\ base[i - 1] < k /\ k <= base[i]
  BY <1>3, <1>5 DEF LaidOut
<1>7. base[i] = base[i - 1] + Ctrl!Words(descs[i].length)
  BY <1>5 DEF LaidOut
<1>8. Ctrl!Words(descs[i].length) \in Nat
  <2>1. descs[i] \in DescOf
    BY <1>5, ElementOfSeq
  <2>2. QED  BY <2>1, WordsFit DEF DescOf
<1>9. k - base[i - 1] \in 1 .. Ctrl!Words(descs[i].length)
  BY <1>6, <1>7, <1>8
<1>10. QED  BY <1>5, <1>9

\* The words of two read descriptors are not the same.
LEMMA NoWordTwice ==
  ASSUME NEW i \in 1 .. Len(ReadDescs), NEW j \in 1 .. Len(ReadDescs), i # j,
         NEW m \in 1 .. Ctrl!Words(ReadDescs[i].length), NEW n \in 1 .. Ctrl!Words(ReadDescs[j].length)
  PROVE  ReadDescs[i].addr \div WordBytes + m - 1 # ReadDescs[j].addr \div WordBytes + n - 1
<1>0. DOMAIN ReadDescs = 1 .. Len(ReadDescs)
  BY DescsAssumption
<1>1. ASSUME NEW d \in Range(ReadDescs), NEW e \in Range(ReadDescs), d.addr < e.addr,
             NEW k \in 1 .. Ctrl!Words(d.length), NEW l \in 1 .. Ctrl!Words(e.length)
      PROVE  d.addr \div WordBytes + k - 1 < e.addr \div WordBytes + l - 1
  <2>1. /\ d.addr \in Nat /\ d.length \in Nat \ {0} /\ e.addr \in Nat /\ e.length \in Nat \ {0}
        /\ d.addr + d.length <= e.addr /\ WordBytes \in Nat \ {0}
    BY <1>1, Descs
  <2>2. PICK v \in Nat, w \in Nat : d.addr = v * WordBytes /\ e.addr = w * WordBytes
    BY Descs
  <2>3. d.addr \div WordBytes = v /\ e.addr \div WordBytes = w
    BY <2>1, <2>2
  <2>4. Ctrl!Words(d.length) \in Nat /\ Ctrl!Words(e.length) \in Nat
    BY <2>1, WordsFit
  <2>5. k - 1 \in 0 .. Ctrl!Words(d.length) - 1 /\ l \in Nat /\ l > 0
    BY <2>4
  <2>6. (k - 1) * WordBytes < d.length
    BY <2>1, <2>5, WordsFit
  <2>7. (v + (k - 1)) * WordBytes = v * WordBytes + (k - 1) * WordBytes
    BY <2>1, <2>5
  <2>8. (v + (k - 1)) * WordBytes < w * WordBytes
    <3> DEFINE x == v * WordBytes
               y == (k - 1) * WordBytes
               z == w * WordBytes
    <3>1. x \in Nat /\ y \in Nat /\ z \in Nat
      BY <2>1, <2>4, <2>5
    <3>2. x + d.length <= z /\ y < d.length
      BY <2>1, <2>2, <2>6
    <3> HIDE DEF x, y, z
    <3>3. x + y < z
      BY <2>1, <3>1, <3>2
    <3>4. QED  BY <2>7, <3>3 DEF x, y, z
  <2>9. v + (k - 1) < w
    <3>1. v + (k - 1) \in Nat
      BY <2>5
    <3>2. \A x, y \in Nat : x * WordBytes < y * WordBytes => x < y
      BY <2>1
    <3>3. QED  BY <2>8, <3>1, <3>2
  <2>10. QED  BY <2>3, <2>5, <2>9
<1>2. ReadDescs[i] \in Range(ReadDescs) /\ ReadDescs[j] \in Range(ReadDescs)
  BY <1>0 DEF Range
<1>3. ReadDescs[i].addr # ReadDescs[j].addr
  BY <1>0, DescsAssumption
<1>4. ReadDescs[i].addr \in Nat /\ ReadDescs[j].addr \in Nat
  BY <1>2, Descs
<1>5. CASE ReadDescs[i].addr < ReadDescs[j].addr
  <2> DEFINE a == ReadDescs[i].addr \div WordBytes + m - 1
             b == ReadDescs[j].addr \div WordBytes + n - 1
  <2>1. a < b
    BY <1>1, <1>2, <1>5
  <2>2. a \in Int /\ b \in Int
    <3>1. WordBytes \in Nat \ {0} /\ m \in Int /\ n \in Int
      BY Descs
    <3>2. QED  BY <1>4, <3>1
  <2> HIDE DEF a, b
  <2>3. a # b
    BY <2>1, <2>2
  <2>4. QED  BY <2>3 DEF a, b
<1>6. CASE ReadDescs[j].addr < ReadDescs[i].addr
  <2> DEFINE a == ReadDescs[i].addr \div WordBytes + m - 1
             b == ReadDescs[j].addr \div WordBytes + n - 1
  <2>1. b < a
    BY <1>1, <1>2, <1>6
  <2>2. a \in Int /\ b \in Int
    <3>1. WordBytes \in Nat \ {0} /\ m \in Int /\ n \in Int
      BY Descs
    <3>2. QED  BY <1>4, <3>1
  <2> HIDE DEF a, b
  <2>3. a # b
    BY <2>1, <2>2
  <2>4. QED  BY <2>3 DEF a, b
<1>7. QED  BY <1>3, <1>4, <1>5, <1>6

RBase == Base(Src, ReadDescs)
WBase == Base(Dst, WriteDescs)

LEMMA Streams ==
  /\ Src \in Seq(StreamWord) /\ Dst \in Seq(StreamWord)
  /\ ReadDescs \in Seq(DescOf) /\ WriteDescs \in Seq(DescOf)
  /\ LaidOut(Src, ReadDescs, RBase) /\ LaidOut(Dst, WriteDescs, WBase)
<1>1. ReadDescs \in Seq(DescOf) /\ WriteDescs \in Seq(DescOf)
  BY DescsAssumption DEF DescOf
<1>2. Src \in Seq(StreamWord) /\ LaidOut(Src, ReadDescs, RBase)
  BY <1>1, StreamIsLaidOut DEF Src, RBase
<1>3. Dst \in Seq(StreamWord) /\ LaidOut(Dst, WriteDescs, WBase)
  BY <1>1, StreamIsLaidOut DEF Dst, WBase
<1>4. QED  BY <1>1, <1>2, <1>3

\* No word is twice in the stream, so that it is known by its address.
LEMMA PositionIs ==
  ASSUME NEW k \in 1 .. Len(Src)
  PROVE  Position(Src[k].addr) = k
<1>1. /\ DOMAIN Src = 1 .. Len(Src) /\ Len(Src) \in Nat /\ Len(ReadDescs) \in Nat
      /\ RBase \in [0 .. Len(ReadDescs) -> Nat]
  BY Streams DEF LaidOut
<1>2. ASSUME NEW l \in 1 .. Len(Src)
      PROVE  \E i \in 1 .. Len(ReadDescs), m \in Nat :
               /\ m \in 1 .. Ctrl!Words(ReadDescs[i].length) /\ l = RBase[i - 1] + m
               /\ Src[l].addr = ReadDescs[i].addr \div WordBytes + m - 1
  <2>1. PICK i \in 1 .. Len(ReadDescs) : l - RBase[i - 1] \in 1 .. Ctrl!Words(ReadDescs[i].length)
    BY Streams, PlaceOf
  <2> DEFINE m == l - RBase[i - 1]
  <2>2. RBase[i - 1] \in Nat /\ l \in Nat
    BY <1>1
  <2>3. l = RBase[i - 1] + m /\ m \in Nat
    BY <2>1, <2>2
  <2> HIDE DEF m
  <2>4. m \in 1 .. Ctrl!Words(ReadDescs[i].length)
    BY <2>1 DEF m
  <2>5. Src[RBase[i - 1] + m] = WordsOf(ReadDescs[i])[m]
    BY <2>4, Streams DEF LaidOut
  <2>6. ReadDescs[i] \in DescOf
    BY Streams, ElementOfSeq
  <2>7. WordsOf(ReadDescs[i])[m].addr = ReadDescs[i].addr \div WordBytes + m - 1
    <3>1. WordsOf(ReadDescs[i])[m] = [addr |-> ReadDescs[i].addr \div WordBytes + m - 1,
             end |-> m % MaxWords = 0 \/ m = Ctrl!Words(ReadDescs[i].length)]
      BY <2>4, <2>6, WordsOfDesc, Zenon
    <3>2. QED  BY <3>1
  <2>8. QED  BY <2>3, <2>4, <2>5, <2>7
<1>3. ASSUME NEW l \in 1 .. Len(Src), Src[l].addr = Src[k].addr PROVE l = k
  <2>1. PICK i \in 1 .. Len(ReadDescs), m \in Nat :
          /\ m \in 1 .. Ctrl!Words(ReadDescs[i].length) /\ k = RBase[i - 1] + m
          /\ Src[k].addr = ReadDescs[i].addr \div WordBytes + m - 1
    BY <1>2
  <2>2. PICK j \in 1 .. Len(ReadDescs), n \in Nat :
          /\ n \in 1 .. Ctrl!Words(ReadDescs[j].length) /\ l = RBase[j - 1] + n
          /\ Src[l].addr = ReadDescs[j].addr \div WordBytes + n - 1
    BY <1>2
  <2>3. i = j
    BY <1>3, <2>1, <2>2, NoWordTwice
  <2>4. ReadDescs[i].addr \div WordBytes \in Int
    <3>1. ReadDescs[i] \in DescOf
      BY Streams, ElementOfSeq
    <3>2. QED  BY <3>1, Descs DEF DescOf
  <2>5. m = n
    BY <1>3, <2>1, <2>2, <2>3, <2>4
  <2>6. QED  BY <2>1, <2>2, <2>3, <2>5
<1>4. Position(Src[k].addr) \in DOMAIN Src /\ Src[Position(Src[k].addr)].addr = Src[k].addr
  <2>1. k \in DOMAIN Src
    BY <1>1
  <2>2. QED  BY <2>1 DEF Position
<1>5. QED  BY <1>1, <1>3, <1>4

-----------------------------------------------------------------------------
(* What stands for which span of the stream.                                   *)

\* The stream of a loop begins again.
Wrap(loop, n, k) == IF loop /\ k = n THEN 0 ELSE k

WordAt(loop) ==
  {w \in Word \X Span : \E k \in 1 .. Len(Src) :
     /\ w[1].data = Src[k].addr /\ w[1].last = Src[k].end
     /\ w[2].from = k - 1 /\ w[2].to = Wrap(loop, Len(Src), k)}

\* The words from q on have consecutive addresses, and one frame ends with them.
FrameAt(S, word, n, q) ==
  /\ q + n <= Len(S)
  /\ \A j \in 1 .. n : S[q + j].addr = word + j - 1 /\ (S[q + j].end <=> j = n)

ReadAt(loop) ==
  {w \in Read \X Span :
     /\ FrameAt(Src, w[1].word, w[1].left, w[2].from)
     /\ w[2].to = Wrap(loop, Len(Src), w[2].from + w[1].left)}

DescAt(S, descs, loop) ==
  {w \in Descriptor \X Span : \E i \in 1 .. Len(descs) :
     /\ w[1].addr = descs[i].addr /\ w[1].length = descs[i].length
     /\ w[2].from = Base(S, descs)[i - 1] /\ w[2].to = Wrap(loop, Len(S), Base(S, descs)[i])}

\* The rest of a descriptor that a splitter has before it.
PieceAt(S, addr, left, q) ==
  /\ q + Ctrl!Words(left) <= Len(S)
  /\ \A j \in 1 .. Ctrl!Words(left) :
       S[q + j] = [addr |-> addr \div WordBytes + j - 1,
                   end  |-> j % MaxWords = 0 \/ j = Ctrl!Words(left)]

\* The two streams: what S and descs are in the lemmas below.
Listed(S, descs) ==
  S \in Seq(StreamWord) /\ descs \in Seq(DescOf) /\ LaidOut(S, descs, Base(S, descs))

LEMMA AllForward ==
  ASSUME NEW slack, NEW loop, slack => ~loop
  PROVE  /\ Forward(slack, WordAt(loop)) /\ Forward(slack, ReadAt(loop))
         /\ \A S, descs : Listed(S, descs) => Forward(slack, DescAt(S, descs, loop))
<1>1. Forward(slack, WordAt(loop))
  BY DEF Forward, WordAt, Wrap, Span
<1>2. Forward(slack, ReadAt(loop))
  <2>1. ASSUME ~loop, NEW x, NEW span, <<x, span>> \in ReadAt(loop) PROVE span.from <= span.to
    <3>1. x.left \in Nat /\ span.from \in Nat /\ span.to = span.from + x.left
      BY <2>1 DEF ReadAt, Wrap, Read, Span
    <3>2. QED  BY <3>1
  <2>2. QED  BY <2>1 DEF Forward
<1>3. ASSUME NEW S, NEW descs, Listed(S, descs) PROVE Forward(slack, DescAt(S, descs, loop))
  <2> DEFINE base == Base(S, descs)
  <2>0. LaidOut(S, descs, base) /\ Len(descs) \in Nat
    BY <1>3 DEF Listed
  <2> HIDE DEF base
  <2>1. ASSUME ~loop, NEW x, NEW span, <<x, span>> \in DescAt(S, descs, loop) PROVE span.from <= span.to
    <3>1. PICK i \in 1 .. Len(descs) : span.from = base[i - 1] /\ span.to = base[i]
      BY <2>1 DEF DescAt, Wrap, base
    <3>2. i - 1 \in 0 .. Len(descs) /\ i \in 0 .. Len(descs) /\ i - 1 <= i
      BY <2>0
    <3>3. QED  BY <2>0, <3>1, <3>2 DEF LaidOut
  <2>2. QED  BY <2>1 DEF Forward
<1>4. QED  BY <1>1, <1>2, <1>3

LEMMA RemainderIs ==
  ASSUME NEW d \in Nat \ {0}, NEW m \in Int, NEW x \in Int, m % d = 0, m <= x, x < m + d
  PROVE  x % d = x - m
OBVIOUS

LEMMA RemainderShift ==
  ASSUME NEW d \in Nat \ {0}, NEW x \in Nat
  PROVE  (d + x) % d = x % d
<1> DEFINE m == (x \div d) * d
           l == (x \div d + 1) * d
<1>1. m <= x /\ x < m + d /\ x \div d \in Int
  OBVIOUS
<1>2. \A k \in Int : (k * d) % d = 0 /\ k * d \in Int
  OBVIOUS
<1>3. m \in Int /\ m % d = 0 /\ l \in Int /\ l % d = 0
  <2>1. x \div d + 1 \in Int
    BY <1>1
  <2>2. QED  BY <1>1, <1>2, <2>1
<1>4. l = m + d
  BY <1>1
<1> HIDE DEF m, l
<1>5. x % d = x - m
  <2>1. x \in Int
    OBVIOUS
  <2>2. QED  BY <1>1, <1>3, <2>1, RemainderIs, Zenon
<1>6. (d + x) % d = (d + x) - l
  <2>1. d + x \in Int /\ l <= d + x /\ d + x < l + d
    BY <1>1, <1>3, <1>4
  <2> DEFINE y == d + x
  <2> HIDE DEF y
  <2>2. y \in Int /\ l <= y /\ y < l + d
    BY <2>1 DEF y
  <2>3. y % d = y - l
    BY <1>3, <2>2, RemainderIs, Zenon
  <2>4. QED  BY <2>3 DEF y
<1>7. QED  BY <1>3, <1>4, <1>5, <1>6

LEMMA PieceOfDesc ==
  ASSUME NEW S, NEW descs, Listed(S, descs), NEW loop,
         NEW e \in Descriptor, NEW span \in Span, <<e, span>> \in DescAt(S, descs, loop)
  PROVE  /\ PieceAt(S, e.addr, e.length, span.from)
         /\ span.to = Wrap(loop, Len(S), span.from + Ctrl!Words(e.length))
<1> DEFINE base == Base(S, descs)
<1>1. LaidOut(S, descs, base) /\ descs \in Seq(DescOf) /\ Len(descs) \in Nat
  BY DEF Listed
<1>2. PICK i \in 1 .. Len(descs) :
        /\ e.addr = descs[i].addr /\ e.length = descs[i].length
        /\ span.from = base[i - 1] /\ span.to = Wrap(loop, Len(S), base[i])
  BY DEF DescAt
<1> HIDE DEF base
<1>3. PICK d \in DescOf : d = descs[i]
  BY <1>1, <1>2, ElementOfSeq
<1> DEFINE n == Ctrl!Words(e.length)
<1>4. /\ base[i] = base[i - 1] + n
      /\ \A j \in 1 .. n : S[base[i - 1] + j] = WordsOf(d)[j]
  BY <1>1, <1>2, <1>3 DEF LaidOut
<1>5. \A j \in 1 .. n : WordsOf(d)[j] = [addr |-> e.addr \div WordBytes + j - 1,
                                         end  |-> j % MaxWords = 0 \/ j = n]
  <2>1. d.addr = e.addr /\ d.length = e.length
    BY <1>2, <1>3
  <2>2. \A j \in 1 .. Ctrl!Words(d.length) :
          WordsOf(d)[j] = [addr |-> d.addr \div WordBytes + j - 1,
                           end  |-> j % MaxWords = 0 \/ j = Ctrl!Words(d.length)]
    BY WordsOfDesc
  <2>3. QED  BY <2>1, <2>2, Zenon
<1>6. base[i] <= Len(S)
  <2>1. i \in 0 .. Len(descs) /\ Len(descs) \in 0 .. Len(descs) /\ i <= Len(descs)
    BY <1>1
  <2>2. QED  BY <1>1, <2>1 DEF LaidOut
<1> HIDE DEF n
<1>7. \A j \in 1 .. n : S[span.from + j] = [addr |-> e.addr \div WordBytes + j - 1,
                                            end  |-> j % MaxWords = 0 \/ j = n]
  BY <1>2, <1>4, <1>5
<1>8. span.from + n <= Len(S) /\ span.to = Wrap(loop, Len(S), span.from + n)
  BY <1>2, <1>4, <1>6
<1>9. QED  BY <1>7, <1>8 DEF PieceAt, n

\* A piece that is not the last one is of MaxWords words.
LEMMA PieceCut ==
  ASSUME NEW S, NEW addr \in Nat, NEW left \in Nat, left > MaxSize, NEW q \in Nat,
         PieceAt(S, addr, left, q)
  PROVE  /\ PieceAt(S, addr + MaxSize, left - MaxSize, q + MaxWords)
         /\ Ctrl!Words(left) = MaxWords + Ctrl!Words(left - MaxSize)
         /\ left - MaxSize \in Nat \ {0}
<1>1. /\ WordBytes \in Nat \ {0} /\ MaxWords \in Nat \ {0}
      /\ MaxSize = MaxWords * WordBytes /\ MaxSize \in Nat \ {0}
  BY Descs, WordsOfPiece
<1> DEFINE rest == left - MaxSize
<1>2. rest \in Nat \ {0}
  BY <1>1
<1> DEFINE m == Ctrl!Words(rest)
           n == Ctrl!Words(left)
           a == addr \div WordBytes
<1>3. m \in Nat \ {0} /\ n \in Nat \ {0}
  <2>1. left # 0
    BY <1>1
  <2>2. QED  BY <1>2, <2>1, WordsFit
<1>4. n = MaxWords + m
  <2>1. rest + WordBytes - 1 \in Nat
    BY <1>1, <1>2
  <2>2. left + WordBytes - 1 = (rest + WordBytes - 1) + MaxWords * WordBytes
    BY <1>1
  <2> DEFINE b == rest + WordBytes - 1
  <2> HIDE DEF b
  <2>3. (b + MaxWords * WordBytes) \div WordBytes = (b \div WordBytes) + MaxWords
    BY <1>1, <2>1, QuotientShift DEF b
  <2>4. n = (b \div WordBytes) + MaxWords /\ m = b \div WordBytes
    BY <2>2, <2>3 DEF Ctrl!Words, b
  <2> HIDE DEF m, n
  <2>5. QED  BY <1>1, <1>3, <2>4
<1>5. (addr + MaxSize) \div WordBytes = a + MaxWords /\ a \in Nat
  <2>1. (addr + MaxWords * WordBytes) \div WordBytes = a + MaxWords
    BY <1>1, QuotientShift
  <2>2. QED  BY <1>1, <2>1
<1> HIDE DEF m, n, a
<1>6. \A j \in 1 .. n : S[q + j] = [addr |-> a + j - 1, end |-> j % MaxWords = 0 \/ j = n]
  BY DEF PieceAt, n, a
<1>7. ASSUME NEW j \in 1 .. m
      PROVE  S[(q + MaxWords) + j] = [addr |-> (a + MaxWords) + j - 1, end |-> j % MaxWords = 0 \/ j = m]
  <2>1. MaxWords + j \in 1 .. n /\ q + (MaxWords + j) = (q + MaxWords) + j
    BY <1>1, <1>3, <1>4
  <2>2. a + (MaxWords + j) - 1 = (a + MaxWords) + j - 1
    BY <1>1, <1>3, <1>5
  <2>3. (MaxWords + j) % MaxWords = j % MaxWords
    <3>1. j \in Nat
      BY <1>3
    <3>2. QED  BY <1>1, <3>1, RemainderShift
  <2>4. MaxWords + j = n <=> j = m
    BY <1>1, <1>3, <1>4
  <2>5. S[q + (MaxWords + j)] = [addr |-> a + (MaxWords + j) - 1,
                                 end  |-> (MaxWords + j) % MaxWords = 0 \/ MaxWords + j = n]
    BY <1>6, <2>1
  <2>6. QED  BY <2>1, <2>2, <2>3, <2>4, <2>5
<1>8. (q + MaxWords) + m <= Len(S)
  <2>1. q + n <= Len(S)
    BY DEF PieceAt, n
  <2>2. q + n = (q + MaxWords) + m
    BY <1>1, <1>3, <1>4
  <2>3. QED  BY <2>1, <2>2
<1>9. PieceAt(S, addr + MaxSize, rest, q + MaxWords)
  BY <1>5, <1>7, <1>8 DEF PieceAt, m
<1>10. QED  BY <1>2, <1>4, <1>9 DEF m, n

\* What is asked for with a piece: one frame.
LEMMA PieceIsFrame ==
  ASSUME NEW S, S \in Seq(StreamWord), NEW addr \in Nat, NEW left \in Nat \ {0}, NEW q \in Nat,
         PieceAt(S, addr, left, q),
         NEW length, length = IF left > MaxSize THEN MaxSize ELSE left
  PROVE  FrameAt(S, addr \div WordBytes, Ctrl!Words(length), q)
<1>1. /\ WordBytes \in Nat \ {0} /\ MaxWords \in Nat \ {0}
      /\ MaxSize = MaxWords * WordBytes /\ MaxSize \in Nat \ {0}
  BY Descs, WordsOfPiece
<1> DEFINE n == Ctrl!Words(left)
           k == Ctrl!Words(length)
           a == addr \div WordBytes
<1>2. n \in Nat \ {0} /\ a \in Nat /\ length \in 1 .. MaxSize /\ k \in 1 .. MaxWords
  <2>1. length \in 1 .. MaxSize
    BY <1>1
  <2>2. n \in Nat \ {0}
    BY WordsFit
  <2>3. k \in 1 .. MaxWords
    BY <2>1, WordsOfPiece
  <2>4. a \in Nat
    BY <1>1
  <2>5. QED  BY <2>1, <2>2, <2>3, <2>4
<1>3. k <= n /\ (k = n \/ k = MaxWords)
  <2>1. CASE left > MaxSize
    <3>1. n = MaxWords + Ctrl!Words(left - MaxSize) /\ left - MaxSize \in Nat \ {0}
      BY <2>1, PieceCut
    <3>2. Ctrl!Words(left - MaxSize) \in Nat \ {0}
      BY <3>1, WordsFit
    <3>3. k = MaxWords
      <4>1. (WordBytes - 1 + MaxWords * WordBytes) \div WordBytes
              = ((WordBytes - 1) \div WordBytes) + MaxWords
        <5>1. WordBytes - 1 \in Nat /\ MaxWords \in Nat
          BY <1>1
        <5>2. QED  BY <1>1, <5>1, QuotientShift, ZenonT(60)
      <4>2. (WordBytes - 1) \div WordBytes = 0
        BY <1>1
      <4>3. length + WordBytes - 1 = WordBytes - 1 + MaxWords * WordBytes
        BY <1>1, <2>1
      <4> DEFINE x == WordBytes - 1 + MaxWords * WordBytes
      <4> HIDE DEF x
      <4>4. k = x \div WordBytes
        BY <4>3 DEF Ctrl!Words, x
      <4>5. x \div WordBytes = 0 + MaxWords
        BY <4>1, <4>2 DEF x
      <4>6. QED  BY <1>1, <4>4, <4>5
    <3> HIDE DEF n, k
    <3>4. QED  BY <1>1, <3>1, <3>2, <3>3
  <2>2. CASE ~(left > MaxSize)
    <3>1. k = n
      BY <2>2
    <3> HIDE DEF n, k
    <3>2. QED  BY <1>2, <3>1
  <2>3. QED  BY <2>1, <2>2
<1> HIDE DEF n, k, a
<1>4. q + n <= Len(S) /\ Len(S) \in Nat
  BY DEF PieceAt, n
<1>5. ASSUME NEW j \in 1 .. k
      PROVE  S[q + j].addr = a + j - 1 /\ (S[q + j].end <=> j = k)
  <2>1. j \in 1 .. n
    BY <1>2, <1>3
  <2>2. S[q + j] = [addr |-> a + j - 1, end |-> j % MaxWords = 0 \/ j = n]
    BY <2>1 DEF PieceAt, n, a
  <2>3. S[q + j].addr = a + j - 1 /\ (S[q + j].end <=> (j % MaxWords = 0 \/ j = n))
    <3> DEFINE B == j % MaxWords = 0 \/ j = n
               A == a + j - 1
    <3>1. S[q + j] = [addr |-> A, end |-> B]
      BY <2>2
    <3>2. B \in BOOLEAN
      OBVIOUS
    <3> HIDE DEF A, B
    <3>3. S[q + j].addr = A /\ S[q + j].end = B
      BY <3>1
    <3>4. QED  BY <3>2, <3>3 DEF A, B
  <2>4. j % MaxWords = 0 <=> j = MaxWords
    <3>1. j \in 1 .. MaxWords
      BY <1>1, <1>2
    <3>2. QED  BY <1>1, <3>1
  <2>5. (j = MaxWords \/ j = n) <=> j = k
    BY <1>1, <1>2, <1>3
  <2>6. QED  BY <2>3, <2>4, <2>5
<1>6. q + k <= Len(S)
  BY <1>2, <1>3, <1>4
<1>7. QED  BY <1>5, <1>6 DEF FrameAt, k, a

-----------------------------------------------------------------------------
(* A table and its splitter.  Both paths have them, so that this is about      *)
(* values of their registers: those of the next cycle have a 1.                *)
Rest(s) == IF s = <<>> THEN <<>> ELSE Tail(s)

TableCycles(we, flag, turns, reset, taken, table, refill, table1, refill1) ==
  LET rest == IF taken THEN Tail(table) ELSE table
  IN /\ table1 = IF reset THEN <<>>
                 ELSE IF Len(table) < TableDepth THEN rest \o refill ELSE rest
     /\ refill1 = IF ~turns THEN [i \in DOMAIN we |-> [we[i] EXCEPT !.first = flag]]
                  ELSE IF taken THEN <<Head(table)>> ELSE <<>>

PieceFrom(addr, length, piece) ==
  /\ piece.addr = addr /\ piece.last = (length <= MaxSize)
  /\ piece.length = IF length > MaxSize THEN MaxSize ELSE length

SplitIdles(table, split, piece, left, split1, piece1, left1) ==
  /\ split = "IDLE"
  /\ table = <<>> => split1 = "IDLE"
  /\ table # <<>> => /\ split1 = "RUN" /\ left1 = Head(table).length
                     /\ PieceFrom(Head(table).addr, Head(table).length, piece1)

SplitRuns(ready, split, piece, left, split1, piece1, left1) ==
  /\ split = "RUN"
  /\ ~ready => split1 = "RUN" /\ piece1 = piece /\ left1 = left
  /\ ready /\ piece.last => split1 = "IDLE"
  /\ ready /\ ~piece.last => /\ split1 = "RUN" /\ left1 = left - MaxSize
                             /\ PieceFrom(piece.addr + MaxSize, left - MaxSize, piece1)

\* Where the stream of the descriptors in the table ends: with the last one that
\* software has written, or, in a loop that turns, where it starts.
Target(S, descs, loop, turning, prog, s) ==
  IF loop /\ turning THEN s ELSE Wrap(loop, Len(S), Base(S, descs)[prog])

\* What is in a table goes on from p, ...
ComingIdle(S, descs, slack, loop, turning, table, refill, prog, p) ==
  /\ Flow(slack, DescAt(S, descs, loop), table \o refill, p,
          Target(S, descs, loop, turning, prog, p))
  /\ loop /\ ~turning => p = 0

\* ... or, if a splitter has begun with the head of it (which is from s to e),
\* what the splitter has left goes on from q.
ComingRun(S, descs, slack, loop, turning, table, refill, addr, left, prog, q, s, e) ==
  /\ PieceAt(S, addr, left, q)
  /\ e = Wrap(loop, Len(S), q + Ctrl!Words(left))
  /\ Flow(slack, DescAt(S, descs, loop), Rest(table) \o refill, e,
          Target(S, descs, loop, turning, prog, s))
  /\ ~slack => table # <<>> /\ <<Head(table), [from |-> s, to |-> e]>> \in DescAt(S, descs, loop)
  /\ loop /\ ~turning => s = 0

Coming(S, descs, slack, loop, turning, table, refill, split, piece, left, prog, p) ==
  /\ prog \in 0 .. Len(descs) /\ Len(table) + Len(refill) <= prog /\ Len(refill) <= 1
  /\ loop /\ turning => prog = Len(descs)
  /\ split = "IDLE" => ComingIdle(S, descs, slack, loop, turning, table, refill, prog, p)
  /\ split = "RUN" =>
       /\ PieceFrom(piece.addr, left, piece)
       /\ \E q, s, e \in Nat :
            /\ Reach(slack, p, q)
            /\ ComingRun(S, descs, slack, loop, turning, table, refill, piece.addr, left, prog, q, s, e)

LEMMA JoinParts ==
  ASSUME NEW T, NEW s \in Seq(T), NEW u \in Seq(T)
  PROVE  /\ s # <<>> => Head(s \o u) = Head(s) /\ Tail(s \o u) = Tail(s) \o u /\ s \o u # <<>>
         /\ s = <<>> => s \o u = u
         /\ Len(s \o u) = Len(s) + Len(u) /\ s \o u \in Seq(T)
<1>1. Len(s \o u) = Len(s) + Len(u) /\ s \o u \in Seq(T)
  BY ConcatProperties
<1>2. s = <<>> => s \o u = u
  BY ConcatEmptySeq
<1>3. ASSUME s # <<>> PROVE Head(s \o u) = Head(s) /\ Tail(s \o u) = Tail(s) \o u /\ s \o u # <<>>
  <2>1. /\ Tail(s) \in Seq(T) /\ Len(Tail(s)) = Len(s) - 1 /\ Len(s) > 0 /\ Head(s) = s[1]
        /\ \A i \in 1 .. Len(s) - 1 : Tail(s)[i] = s[i + 1]
    BY <1>3, Shortened
  <2>2. Len(s) \in Nat /\ Len(u) \in Nat
    OBVIOUS
  <2>3. s \o u # <<>>
    <3>1. Len(s \o u) # 0
      BY <1>1, <2>1, <2>2
    <3>2. QED  BY <3>1, EmptySeq
  <2> DEFINE w == s \o u
             v == Tail(s) \o u
  <2>4. \A i \in 1 .. Len(s) + Len(u) : w[i] = IF i <= Len(s) THEN s[i] ELSE u[i - Len(s)]
    BY ConcatProperties
  <2>5. /\ v \in Seq(T) /\ Len(v) = Len(s) - 1 + Len(u)
        /\ \A i \in 1 .. Len(s) - 1 + Len(u) :
             v[i] = IF i <= Len(s) - 1 THEN Tail(s)[i] ELSE u[i - (Len(s) - 1)]
    BY <2>1, ConcatProperties
  <2>6. w \in Seq(T) /\ Len(w) = Len(s) + Len(u) /\ w # <<>>
    BY <1>1, <2>3
  <2> HIDE DEF w, v
  <2>7. /\ Tail(w) \in Seq(T) /\ Len(Tail(w)) = Len(w) - 1 /\ Head(w) = w[1]
        /\ \A i \in 1 .. Len(w) - 1 : Tail(w)[i] = w[i + 1]
    BY <2>6, Shortened
  <2>8. Head(w) = Head(s)
    BY <2>1, <2>2, <2>4, <2>7
  <2>9. ASSUME NEW i \in 1 .. Len(Tail(w)) PROVE Tail(w)[i] = v[i]
    <3>1. i \in 1 .. Len(s) - 1 + Len(u) /\ i + 1 \in 1 .. Len(s) + Len(u) /\ i \in 1 .. Len(w) - 1
      BY <2>1, <2>2, <2>6, <2>7
    <3>2. Tail(w)[i] = IF i + 1 <= Len(s) THEN s[i + 1] ELSE u[(i + 1) - Len(s)]
      BY <2>4, <2>7, <3>1
    <3>3. v[i] = IF i <= Len(s) - 1 THEN s[i + 1] ELSE u[i - (Len(s) - 1)]
      <4>1. i <= Len(s) - 1 => i \in 1 .. Len(s) - 1
        BY <2>2, <3>1
      <4>2. QED  BY <2>1, <2>5, <3>1, <4>1
    <3>4. (i + 1 <= Len(s) <=> i <= Len(s) - 1) /\ (i + 1) - Len(s) = i - (Len(s) - 1)
      BY <2>2, <3>1
    <3>5. QED  BY <3>2, <3>3, <3>4
  <2>10. Tail(w) = v
    <3>1. Len(Tail(w)) = Len(v)
      BY <2>2, <2>5, <2>6, <2>7
    <3>2. QED  BY <2>5, <2>7, <2>9, <3>1, SeqEqual
  <2>11. QED  BY <2>3, <2>8, <2>10 DEF w, v
<1>4. QED  BY <1>1, <1>2, <1>3

\* The next descriptor that software writes is where the list goes on.
LEMMA QueueProgrammed ==
  ASSUME NEW S, NEW descs, Listed(S, descs), NEW slack, NEW loop, NEW prog \in 0 .. Len(descs),
         NEW we, we = <<>> \/ (prog < Len(descs) /\ we = <<Desc(descs[prog + 1])>>),
         NEW flag \in BOOLEAN, NEW queue \in Seq(Descriptor), NEW e \in Nat,
         Flow(slack, DescAt(S, descs, loop), queue, e, Wrap(loop, Len(S), Base(S, descs)[prog]))
  PROVE  LET refill1 == [i \in DOMAIN we |-> [we[i] EXCEPT !.first = flag]]
         IN  /\ refill1 \in Seq(Descriptor) /\ Len(refill1) = Len(we)
             /\ prog + Len(we) \in 0 .. Len(descs)
             /\ Flow(slack, DescAt(S, descs, loop), queue \o refill1, e,
                     Wrap(loop, Len(S), Base(S, descs)[prog + Len(we)]))
<1> DEFINE refill1 == [i \in DOMAIN we |-> [we[i] EXCEPT !.first = flag]]
           base == Base(S, descs)
           R == DescAt(S, descs, loop)
<1>1. LaidOut(S, descs, base) /\ descs \in Seq(DescOf) /\ Len(descs) \in Nat /\ Len(S) \in Nat
  BY DEF Listed
<1> HIDE DEF base
<1>2. CASE we = <<>>
  <2>1. refill1 = <<>>
    BY <1>2, MarkedIs
  <2> HIDE DEF refill1
  <2>2. refill1 \in Seq(Descriptor) /\ Len(refill1) = Len(we) /\ Len(we) = 0 /\ queue \o refill1 = queue
    BY <1>2, <2>1, EmptySeq, ConcatEmptySeq
  <2>3. prog + Len(we) = prog
    BY <2>2, <1>1
  <2>4. Flow(slack, R, queue \o refill1, e, Wrap(loop, Len(S), base[prog + Len(we)]))
    BY <2>2, <2>3 DEF base
  <2>5. QED  BY <2>2, <2>3, <2>4 DEF refill1, base
<1>3. CASE prog < Len(descs) /\ we = <<Desc(descs[prog + 1])>>
  <2>1. prog + 1 \in 1 .. Len(descs) /\ prog \in 0 .. Len(descs) /\ prog + 1 \in 0 .. Len(descs)
        /\ Len(descs) \in 0 .. Len(descs) /\ prog + 1 <= Len(descs) /\ (prog + 1) - 1 = prog
    BY <1>1, <1>3
  <2>2. PICK d \in DescOf : d = descs[prog + 1]
    BY <1>1, <2>1, ElementOfSeq
  <2> DEFINE x == [Desc(d) EXCEPT !.first = flag]
  <2>3. x \in Descriptor /\ x.addr = d.addr /\ x.length = d.length
    BY DEF Desc, Descriptor, DescOf
  <2>4. refill1 = <<x>>
    BY <1>3, <2>2, MarkedIs
  <2>5. base[prog + 1] = base[prog] + Ctrl!Words(d.length)
    BY <1>1, <2>1, <2>2 DEF LaidOut
  <2>6. Ctrl!Words(d.length) \in Nat \ {0}
    BY WordsFit DEF DescOf
  <2>7. base[prog] \in Nat /\ base[prog + 1] \in Nat /\ base[prog + 1] <= Len(S)
    BY <1>1, <2>1 DEF LaidOut
  <2>8. Wrap(loop, Len(S), base[prog]) = base[prog]
    <3>1. base[prog] # Len(S)
      BY <1>1, <2>5, <2>6, <2>7
    <3>2. QED  BY <3>1 DEF Wrap
  <2> DEFINE m == Wrap(loop, Len(S), base[prog + 1])
             span == [from |-> base[prog], to |-> m]
  <2>9. m \in Nat
    BY <2>7 DEF Wrap
  <2> HIDE DEF x, m, refill1
  <2>10. span \in Span /\ span.from = base[prog] /\ span.to = m
    BY <2>7, <2>9 DEF Span
  <2> HIDE DEF span
  <2>11. <<x, span>> \in R
    <3>1. <<x, span>> \in Descriptor \X Span /\ <<x, span>>[1] = x /\ <<x, span>>[2] = span
      BY <2>3, <2>10
    <3>2. /\ x.addr = descs[prog + 1].addr /\ x.length = descs[prog + 1].length
          /\ span.from = base[(prog + 1) - 1] /\ span.to = Wrap(loop, Len(S), base[prog + 1])
      BY <2>1, <2>2, <2>3, <2>10 DEF m
    <3>3. QED  BY <2>1, <3>1, <3>2 DEF DescAt, base
  <2>12. Flow(slack, R, <<x>>, base[prog], m)
    <3>1. Reach(slack, base[prog], span.from) /\ Reach(slack, span.to, m)
      BY <2>10 DEF Reach
    <3> HIDE DEF R
    <3>2. QED  BY <2>10, <2>11, <3>1, OneFlows
  <2>13. Flow(slack, R, queue, e, base[prog])
    BY <2>8 DEF base
  <2>14. Flow(slack, R, queue \o <<x>>, e, m)
    <3>1. <<x>> \in Seq(Descriptor)
      BY <2>3
    <3> HIDE DEF R
    <3>2. QED  BY <2>7, <2>9, <2>12, <2>13, <3>1, FlowsMeet
  <2>15. Len(we) = 1 /\ Len(<<x>>) = 1 /\ <<x>> \in Seq(Descriptor)
    BY <1>3, <2>3
  <2>16. QED  BY <2>1, <2>4, <2>14, <2>15 DEF m, refill1, base
<1>4. QED  BY <1>2, <1>3

LEMMA Lossy ==
  ASSUME NEW slack, slack, NEW R, Forward(slack, R), NEW T, NEW s \in Seq(T),
         NEW p \in Nat, NEW q \in Nat, Flow(slack, R, s, p, q)
  PROVE  Flow(slack, R, <<>>, p, q)
BY FlowsForward, EmptyFlow

\* What a cycle makes of the table, without what it makes of the input.
TableThen(reset, taken, table, refill, table1) ==
  /\ table1 \in Seq(Descriptor) /\ Rest(table1) \in Seq(Descriptor)
  /\ Rest(table) \o refill \in Seq(Descriptor) /\ table \o refill \in Seq(Descriptor)
  /\ Len(table1) <= Len(table) + Len(refill)
  /\ taken => Len(table1) <= (Len(table) + Len(refill)) - 1
  /\ reset => table1 = <<>> /\ Rest(table1) = <<>>
  /\ ~reset /\ taken => table1 = Rest(table) \o refill
  /\ ~reset /\ ~taken => table1 = table \o refill
  /\ ~reset /\ ~taken /\ table # <<>> =>
       Rest(table1) = Rest(table) \o refill /\ table1 # <<>> /\ Head(table1) = Head(table)
  /\ ~taken /\ table = <<>> => Rest(table1) = <<>>

LEMMA TableAfter ==
  ASSUME NEW table \in Seq(Descriptor), NEW refill \in Seq(Descriptor), Len(refill) <= 1,
         Len(table) + Len(refill) <= TableDepth,
         NEW we, NEW flag, NEW turns, NEW reset \in BOOLEAN, NEW taken \in BOOLEAN, taken => table # <<>>,
         NEW table1, NEW refill1, TableCycles(we, flag, turns, reset, taken, table, refill, table1, refill1)
  PROVE  TableThen(reset, taken, table, refill, table1)
<1> DEFINE rest == IF taken THEN Tail(table) ELSE table
<1>1. Len(table) \in Nat /\ Len(refill) \in Nat /\ TableDepth \in Nat
  BY SizesAssumption
<1>2. table # <<>> => Tail(table) \in Seq(Descriptor) /\ Len(Tail(table)) = Len(table) - 1
  BY Shortened
<1>3. rest \in Seq(Descriptor) /\ Len(rest) = Len(table) - (IF taken THEN 1 ELSE 0)
  BY <1>1, <1>2
<1>4. Rest(table) \in Seq(Descriptor)
  BY <1>2, EmptySeq DEF Rest
<1>5. Rest(table) \o refill \in Seq(Descriptor) /\ table \o refill \in Seq(Descriptor)
  BY <1>4, JoinParts
<1>6. table1 = IF reset THEN <<>> ELSE IF Len(table) < TableDepth THEN rest \o refill ELSE rest
  BY DEF TableCycles
<1> HIDE DEF rest
<1>7. ~reset => table1 = rest \o refill
  <2>1. CASE Len(table) < TableDepth
    BY <1>6, <2>1
  <2>2. CASE ~(Len(table) < TableDepth)
    <3>1. Len(refill) = 0
      BY <1>1, <2>2
    <3>2. refill = <<>>
      BY <3>1, EmptySeq
    <3>3. rest \o refill = rest
      BY <1>3, <3>2, ConcatEmptySeq
    <3>4. QED  BY <1>6, <2>2, <3>3
  <2>3. QED  BY <2>1, <2>2
<1>8. rest \o refill \in Seq(Descriptor) /\ Len(rest \o refill) = Len(rest) + Len(refill)
  BY <1>3, JoinParts
<1>9. reset => table1 = <<>>
  BY <1>6
<1>10. table1 \in Seq(Descriptor)
  BY <1>7, <1>8, <1>9, EmptySeq
<1>11. Rest(table1) \in Seq(Descriptor)
  BY <1>10, Shortened, EmptySeq DEF Rest
<1>12. /\ Len(table1) <= Len(table) + Len(refill)
       /\ taken => Len(table1) <= (Len(table) + Len(refill)) - 1
  <2>1. CASE reset
    <3>1. Len(table1) = 0
      BY <1>9, <2>1
    <3>2. taken => Len(table) > 0
      BY <1>1, EmptySeq
    <3>3. QED  BY <1>1, <3>1, <3>2
  <2>2. CASE ~reset
    BY <1>1, <1>3, <1>7, <1>8, <2>2
  <2>3. QED  BY <2>1, <2>2
<1>13. Rest(<<>>) = <<>>
  BY DEF Rest
<1>14. ~reset /\ taken => table1 = Rest(table) \o refill
  BY <1>7 DEF Rest, rest
<1>15. ~reset /\ ~taken => table1 = table \o refill
  BY <1>7 DEF rest
<1>16. ASSUME ~reset, ~taken, table # <<>>
       PROVE  Rest(table1) = Rest(table) \o refill /\ table1 # <<>> /\ Head(table1) = Head(table)
  <2>1. Head(table \o refill) = Head(table) /\ Tail(table \o refill) = Tail(table) \o refill
        /\ table \o refill # <<>>
    BY <1>16, JoinParts
  <2>2. QED  BY <1>15, <1>16, <2>1 DEF Rest
<1>17. ASSUME ~taken, table = <<>> PROVE Rest(table1) = <<>>
  <2>1. CASE reset
    BY <1>9, <1>13, <2>1
  <2>2. CASE ~reset
    <3>1. table1 = refill
      BY <1>15, <1>17, <2>2, JoinParts
    <3>2. CASE refill = <<>>
      BY <1>13, <3>1, <3>2
    <3>3. CASE refill # <<>>
      <4>1. Tail(refill) \in Seq(Descriptor) /\ Len(Tail(refill)) = 0
        <5>1. Tail(refill) \in Seq(Descriptor) /\ Len(Tail(refill)) = Len(refill) - 1 /\ Len(refill) > 0
          BY <3>3, Shortened
        <5>2. QED  BY <1>1, <5>1
      <4>2. Tail(refill) = <<>>
        BY <4>1, EmptySeq
      <4>3. QED  BY <3>1, <3>3, <4>2 DEF Rest
    <3>4. QED  BY <3>2, <3>3
  <2>3. QED  BY <2>1, <2>2
<1>18. reset => table1 = <<>> /\ Rest(table1) = <<>>
  BY <1>9, <1>13
<1>19. QED  BY <1>5, <1>10, <1>11, <1>12, <1>14, <1>15, <1>16, <1>17, <1>18 DEF TableThen

\* What a cycle makes of the queue, unless a loop takes a descriptor.
Refilled(we, flag, turns, refill1) ==
  refill1 = IF ~turns THEN [i \in DOMAIN we |-> [we[i] EXCEPT !.first = flag]] ELSE <<>>

\* What software writes in a cycle, and when a table turns.
Programming(S, descs, slack, loop, turning, prog, we, flag) ==
  /\ Listed(S, descs) /\ prog \in 0 .. Len(descs) /\ prog <= TableDepth
  /\ slack \in BOOLEAN /\ loop \in BOOLEAN /\ turning \in BOOLEAN /\ flag \in BOOLEAN
  /\ slack => ~loop
  /\ loop /\ turning => prog = Len(descs)
  /\ we = <<>> \/ (prog < Len(descs) /\ we = <<Desc(descs[prog + 1])>>)

\* All of it, or, if words may be lost, what is left of it.
AllOrNone(slack, queue, queue1) == queue1 = queue \/ (slack /\ queue1 = <<>>)

QueueThen(S, descs, slack, loop, turning, prog, we, queue1, refill1, e, s) ==
  Flow(slack, DescAt(S, descs, loop), queue1 \o refill1, e,
       Target(S, descs, loop, turning, prog + Len(we), s))

LEMMA QueueAfter ==
  ASSUME NEW S, NEW descs, NEW slack, NEW loop, NEW turning, NEW prog, NEW we, NEW flag,
         Programming(S, descs, slack, loop, turning, prog, we, flag),
         NEW refill1, Refilled(we, flag, loop /\ turning, refill1),
         NEW e \in Nat, NEW s \in Nat,
         NEW queue \in Seq(Descriptor), NEW queue1, AllOrNone(slack, queue, queue1),
         Flow(slack, DescAt(S, descs, loop), queue, e, Target(S, descs, loop, turning, prog, s))
  PROVE  QueueThen(S, descs, slack, loop, turning, prog, we, queue1, refill1, e, s)
<1>0. /\ Listed(S, descs) /\ prog \in 0 .. Len(descs)
      /\ slack \in BOOLEAN /\ loop \in BOOLEAN /\ turning \in BOOLEAN /\ flag \in BOOLEAN
      /\ slack => ~loop
      /\ loop /\ turning => prog = Len(descs)
      /\ we = <<>> \/ (prog < Len(descs) /\ we = <<Desc(descs[prog + 1])>>)
  BY DEF Programming
<1> USE DEF QueueThen
<1>1. Len(descs) \in Nat /\ Len(S) \in Nat /\ LaidOut(S, descs, Base(S, descs))
  BY <1>0 DEF Listed
<1>2. Target(S, descs, loop, turning, prog, s) \in Nat
  BY <1>0, <1>1 DEF Target, Wrap, LaidOut
<1>3. Flow(slack, DescAt(S, descs, loop), queue1, e, Target(S, descs, loop, turning, prog, s))
  <2>1. Forward(slack, DescAt(S, descs, loop))
    BY <1>0, AllForward
  <2>2. QED  BY <1>2, <2>1, Lossy DEF AllOrNone
<1>4. queue1 \in Seq(Descriptor)
  BY EmptySeq DEF AllOrNone
<1>5. CASE loop /\ turning
  <2>1. we = <<>> /\ refill1 = <<>>
    <3>1. prog + 1 \notin 1 .. Len(descs)
      BY <1>0, <1>1, <1>5
    <3>2. we = <<>>
      BY <1>0, <1>1, <1>5
    <3>3. QED  BY <1>5, <3>2 DEF Refilled
  <2>2. prog + Len(we) = prog /\ queue1 \o refill1 = queue1
    BY <1>0, <1>1, <1>4, <2>1, ConcatEmptySeq
  <2>3. QED  BY <1>3, <2>2
<1>6. CASE ~(loop /\ turning)
  <2>1. refill1 = [i \in DOMAIN we |-> [we[i] EXCEPT !.first = flag]]
    BY <1>6 DEF Refilled
  <2>2. /\ Target(S, descs, loop, turning, prog, s) = Wrap(loop, Len(S), Base(S, descs)[prog])
        /\ Target(S, descs, loop, turning, prog + Len(we), s)
             = Wrap(loop, Len(S), Base(S, descs)[prog + Len(we)])
    BY <1>6 DEF Target
  <2>3. Flow(slack, DescAt(S, descs, loop), queue1, e, Wrap(loop, Len(S), Base(S, descs)[prog]))
    BY <1>3, <2>2
  <2>4. Flow(slack, DescAt(S, descs, loop),
             queue1 \o [i \in DOMAIN we |-> [we[i] EXCEPT !.first = flag]], e,
             Wrap(loop, Len(S), Base(S, descs)[prog + Len(we)]))
    BY <1>0, <1>4, <2>3, QueueProgrammed, ZenonT(60)
  <2>5. QED  BY <2>1, <2>2, <2>4
<1>7. QED  BY <1>5, <1>6

\* How many descriptors there are.
CountThen(descs, prog, we, turns, table1, refill1) ==
  /\ refill1 \in Seq(Descriptor)
  /\ prog + Len(we) \in 0 .. Len(descs) /\ Len(table1) + Len(refill1) <= prog + Len(we)
  /\ Len(refill1) <= 1
  /\ turns => prog + Len(we) = Len(descs)

LEMMA CountAfter ==
  ASSUME NEW S, NEW descs, NEW slack, NEW loop, NEW turning, NEW prog, NEW we, NEW flag,
         Programming(S, descs, slack, loop, turning, prog, we, flag),
         NEW reset \in BOOLEAN, NEW taken \in BOOLEAN,
         NEW table \in Seq(Descriptor), NEW refill \in Seq(Descriptor), taken => table # <<>>,
         Len(refill) <= 1, Len(table) + Len(refill) <= prog, NEW table1, NEW refill1,
         TableCycles(we, flag, loop /\ turning, reset, taken, table, refill, table1, refill1)
  PROVE  CountThen(descs, prog, we, loop /\ turning, table1, refill1)
<1> DEFINE turns == loop /\ turning
<1>0. /\ descs \in Seq(DescOf) /\ prog \in 0 .. Len(descs) /\ prog <= TableDepth
      /\ flag \in BOOLEAN /\ turns \in BOOLEAN /\ (turns => prog = Len(descs))
      /\ we = <<>> \/ (prog < Len(descs) /\ we = <<Desc(descs[prog + 1])>>)
      /\ TableCycles(we, flag, turns, reset, taken, table, refill, table1, refill1)
  BY DEF Programming, Listed
<1> HIDE DEF turns
<1>1. Len(descs) \in Nat /\ prog \in Nat /\ Len(table) \in Nat /\ Len(refill) \in Nat
      /\ TableDepth \in Nat
  BY <1>0, SizesAssumption
<1>2. /\ Len(we) \in {0, 1} /\ prog + Len(we) \in 0 .. Len(descs)
      /\ prog = Len(descs) => we = <<>> /\ Len(we) = 0
  <2>1. CASE we = <<>>
    <3>1. Len(we) = 0
      BY <2>1, EmptySeq
    <3>2. QED  BY <1>0, <1>1, <2>1, <3>1
  <2>2. CASE prog < Len(descs) /\ we = <<Desc(descs[prog + 1])>>
    <3>1. Len(we) = 1
      BY <2>2
    <3>2. QED  BY <1>0, <1>1, <2>2, <3>1
  <2>3. QED  BY <1>0, <2>1, <2>2
<1>3. we \in Offer(Descriptor)
  <2>1. CASE we = <<>>
    BY <2>1 DEF Offer
  <2>2. CASE prog < Len(descs) /\ we = <<Desc(descs[prog + 1])>>
    <3>1. descs[prog + 1] \in DescOf
      <4>1. prog + 1 \in 1 .. Len(descs)
        BY <1>1, <2>2
      <4>2. QED  BY <1>0, <4>1, ElementOfSeq
    <3>2. Desc(descs[prog + 1]) \in Descriptor
      BY <3>1 DEF Desc, DescOf, Descriptor
    <3>3. QED  BY <2>2, <3>2 DEF Offer
  <2>3. QED  BY <1>0, <2>1, <2>2
<1>4. /\ Len(table1) \in Nat /\ Len(table1) <= Len(table) + Len(refill)
      /\ taken => Len(table1) <= (Len(table) + Len(refill)) - 1
  <2>1. Len(table) + Len(refill) <= TableDepth
    BY <1>0, <1>1
  <2>2. /\ table1 \in Seq(Descriptor)
        /\ Len(table1) <= Len(table) + Len(refill)
        /\ taken => Len(table1) <= (Len(table) + Len(refill)) - 1
    <3>1. TableThen(reset, taken, table, refill, table1)
      BY <2>1, TableAfter, Zenon
    <3>2. QED  BY <3>1 DEF TableThen
  <2>3. Len(table1) \in Nat
    BY <2>2, LenProperties
  <2>4. QED  BY <2>2, <2>3
<1>5. CASE ~turns
  <2> DEFINE marked == [i \in DOMAIN we |-> [we[i] EXCEPT !.first = flag]]
  <2>1. marked \in Seq(Descriptor)
    BY <1>0, <1>3, Marked
  <2>2. Len(marked) = Len(we)
    <3>1. we \in Seq(Descriptor)
      BY <1>3, OfferIsSeq
    <3>2. DOMAIN marked = 1 .. Len(we) /\ Len(we) \in Nat
      BY <3>1
    <3> HIDE DEF marked
    <3>3. QED  BY <2>1, <3>2, LenProperties
  <2>3. refill1 = marked
    BY <1>0, <1>5 DEF TableCycles
  <2> HIDE DEF marked
  <2>4. refill1 \in Seq(Descriptor) /\ Len(refill1) = Len(we)
    BY <2>1, <2>2, <2>3
  <2>5. Len(table1) <= prog
    BY <1>1, <1>4
  <2>6. Len(table1) + Len(refill1) <= prog + Len(we) /\ Len(refill1) <= 1
    <3> DEFINE a == Len(table1)
               b == Len(refill1)
               c == Len(we)
    <3>1. a \in Nat /\ a <= prog /\ b = c /\ c \in {0, 1}
      BY <1>2, <1>4, <2>4, <2>5
    <3> HIDE DEF a, b, c
    <3>2. a + b <= prog + c /\ b <= 1
      BY <1>1, <3>1
    <3>3. QED  BY <3>2 DEF a, b, c
  <2>7. QED  BY <1>2, <1>5, <2>4, <2>6 DEF CountThen, turns
<1>6. CASE turns
  <2>1. refill1 = IF taken THEN <<Head(table)>> ELSE <<>>
    BY <1>0, <1>6 DEF TableCycles
  <2>2. taken => Head(table) \in Descriptor
    BY Shortened
  <2>3. refill1 \in Seq(Descriptor) /\ Len(refill1) = IF taken THEN 1 ELSE 0
    BY <2>1, <2>2, EmptySeq
  <2>4. prog + Len(we) = Len(descs) /\ prog + Len(we) = prog
    BY <1>0, <1>1, <1>2, <1>6
  <2>5. Len(table1) + Len(refill1) <= prog /\ Len(refill1) <= 1
    <3>1. CASE taken
      BY <1>1, <1>4, <2>3, <3>1
    <3>2. CASE ~taken
      BY <1>1, <1>4, <2>3, <3>2
    <3>3. QED  BY <3>1, <3>2
  <2>6. Len(table1) + Len(refill1) <= prog + Len(we)
    BY <2>4, <2>5
  <2>7. QED  BY <1>2, <2>3, <2>4, <2>5, <2>6 DEF CountThen, turns
<1>7. QED  BY <1>5, <1>6 DEF turns

\* The stream does not end before the descriptors do.
LEMMA TargetIs ==
  ASSUME NEW S, NEW descs, Listed(S, descs), NEW loop, NEW turning, NEW prog \in 0 .. Len(descs),
         NEW s \in Nat, NEW t \in Nat
  PROVE  /\ Target(S, descs, loop, turning, prog, s) \in Nat
         /\ ~(loop /\ turning) \/ s = t =>
              Target(S, descs, loop, turning, prog, s) = Target(S, descs, loop, turning, prog, t)
<1>1. Base(S, descs)[prog] \in Nat
  BY DEF Listed, LaidOut
<1>2. QED  BY <1>1 DEF Target, Wrap

\* A descriptor may be taken by its splitter, with its first piece.
LEMMA BeginStep ==
  ASSUME NEW S, NEW descs, NEW slack, NEW loop, NEW turning, NEW prog, NEW we, NEW flag,
         Programming(S, descs, slack, loop, turning, prog, we, flag),
         NEW reset \in BOOLEAN, reset => slack,
         NEW table \in Seq(Descriptor), NEW refill \in Seq(Descriptor),
         Len(refill) <= 1, Len(table) + Len(refill) <= prog,
         NEW table1, NEW refill1,
         TableCycles(we, flag, loop /\ turning, reset, FALSE, table, refill, table1, refill1),
         NEW p \in Nat, ComingIdle(S, descs, slack, loop, turning, table, refill, prog, p)
  PROVE  /\ ComingIdle(S, descs, slack, loop, turning, table1, refill1, prog + Len(we), p)
         /\ table # <<>> =>
              \E q, s, e \in Nat :
                /\ Reach(slack, p, q)
                /\ ComingRun(S, descs, slack, loop, turning, table1, refill1,
                             Head(table).addr, Head(table).length, prog + Len(we), q, s, e)
<1> DEFINE R == DescAt(S, descs, loop)
<1>0. /\ Listed(S, descs) /\ prog \in 0 .. Len(descs) /\ prog <= TableDepth
      /\ slack \in BOOLEAN /\ loop \in BOOLEAN /\ turning \in BOOLEAN
      /\ slack => ~loop
  BY DEF Programming
<1>1. Len(table) + Len(refill) <= TableDepth
  <2>1. Len(table) \in Nat /\ Len(refill) \in Nat /\ Len(descs) \in Nat /\ prog \in Nat /\ TableDepth \in Nat
    BY <1>0, SizesAssumption DEF Listed
  <2>2. QED  BY <1>0, <2>1
<1>2. TableThen(reset, FALSE, table, refill, table1)
  BY <1>1, TableAfter, Zenon
<1>3. Flow(slack, R, table \o refill, p, Target(S, descs, loop, turning, prog, p))
      /\ (loop /\ ~turning => p = 0)
  BY DEF ComingIdle
<1>4. ComingIdle(S, descs, slack, loop, turning, table1, refill1, prog + Len(we), p)
  <2>1. table \o refill \in Seq(Descriptor) /\ AllOrNone(slack, table \o refill, table1)
    BY <1>2 DEF TableThen, AllOrNone
  <2>2. Refilled(we, flag, loop /\ turning, refill1)
    BY DEF TableCycles, Refilled
  <2>3. QueueThen(S, descs, slack, loop, turning, prog, we, table1, refill1, p, p)
    BY <1>3, <2>1, <2>2, QueueAfter, Zenon
  <2>4. QED  BY <1>3, <2>3 DEF ComingIdle, QueueThen
<1>5. ASSUME table # <<>>
      PROVE  \E q, s, e \in Nat :
                /\ Reach(slack, p, q)
                /\ ComingRun(S, descs, slack, loop, turning, table1, refill1,
                             Head(table).addr, Head(table).length, prog + Len(we), q, s, e)
  <2> DEFINE all == table \o refill
             goal == Target(S, descs, loop, turning, prog, p)
  <2>1. /\ all \in Seq(Descriptor) /\ all # <<>> /\ Head(all) = Head(table)
        /\ Tail(all) = Rest(table) \o refill /\ Head(table) \in Descriptor
    BY <1>5, JoinParts, Shortened DEF Rest
  <2>2. goal \in Nat
    BY <1>0, TargetIs
  <2>3. Flow(slack, R, all, p, goal)
    BY <1>3
  <2> HIDE DEF all, goal, R
  <2>4. PICK span \in Span : /\ <<Head(all), span>> \in R /\ Reach(slack, p, span.from)
                             /\ Flow(slack, R, Tail(all), span.to, goal)
    BY <2>1, <2>2, <2>3, FlowsPart
  <2>5. span.from \in Nat /\ span.to \in Nat /\ span = [from |-> span.from, to |-> span.to]
    BY DEF Span
  <2>6. PICK q \in Nat, e \in Nat : q = span.from /\ e = span.to
    BY <2>5
  <2>7. <<Head(table), span>> \in R
    BY <2>1, <2>4
  <2>8. PieceAt(S, Head(table).addr, Head(table).length, q)
        /\ e = Wrap(loop, Len(S), q + Ctrl!Words(Head(table).length))
    BY <1>0, <2>1, <2>6, <2>7, PieceOfDesc DEF R
  <2>9. loop => q = p
    BY <1>0, <2>4, <2>6 DEF Reach
  <2>10. goal = Target(S, descs, loop, turning, prog, q)
    BY <1>0, <2>9, TargetIs DEF goal
  <2>11. /\ Rest(table) \o refill \in Seq(Descriptor)
         /\ AllOrNone(slack, Rest(table) \o refill, Rest(table1))
         /\ ~slack => table1 # <<>> /\ Head(table1) = Head(table)
    BY <1>2, <1>5 DEF TableThen, AllOrNone
  <2>12. Flow(slack, DescAt(S, descs, loop), Rest(table) \o refill, e, Target(S, descs, loop, turning, prog, q))
    BY <2>1, <2>4, <2>6, <2>10 DEF R
  <2>13. Flow(slack, DescAt(S, descs, loop), Rest(table1) \o refill1, e,
              Target(S, descs, loop, turning, prog + Len(we), q))
    <3>1. Refilled(we, flag, loop /\ turning, refill1)
      BY DEF TableCycles, Refilled
    <3>2. QueueThen(S, descs, slack, loop, turning, prog, we, Rest(table1), refill1, e, q)
      BY <2>11, <2>12, <3>1, QueueAfter, Zenon
    <3>3. QED  BY <3>2 DEF QueueThen
  <2>14. ~slack => table1 # <<>> /\ <<Head(table1), [from |-> q, to |-> e]>> \in DescAt(S, descs, loop)
    BY <2>5, <2>6, <2>7, <2>11 DEF R
  <2>15. loop /\ ~turning => q = 0
    BY <1>3, <2>9
  <2>16. ComingRun(S, descs, slack, loop, turning, table1, refill1,
                   Head(table).addr, Head(table).length, prog + Len(we), q, q, e)
    BY <2>8, <2>13, <2>14, <2>15 DEF ComingRun
  <2>17. Reach(slack, p, q)
    BY <2>4, <2>6
  <2>18. QED  BY <2>16, <2>17
<1>6. QED  BY <1>4, <1>5

\* The splitter keeps its descriptor.
LEMMA KeepStep ==
  ASSUME NEW S, NEW descs, NEW slack, NEW loop, NEW turning, NEW prog, NEW we, NEW flag,
         Programming(S, descs, slack, loop, turning, prog, we, flag),
         NEW reset \in BOOLEAN, reset => slack,
         NEW table \in Seq(Descriptor), NEW refill \in Seq(Descriptor),
         Len(refill) <= 1, Len(table) + Len(refill) <= prog,
         NEW table1, NEW refill1,
         TableCycles(we, flag, loop /\ turning, reset, FALSE, table, refill, table1, refill1),
         NEW addr, NEW left, NEW q \in Nat, NEW s \in Nat, NEW e \in Nat,
         ComingRun(S, descs, slack, loop, turning, table, refill, addr, left, prog, q, s, e)
  PROVE  ComingRun(S, descs, slack, loop, turning, table1, refill1, addr, left, prog + Len(we), q, s, e)
<1>0. /\ Listed(S, descs) /\ prog \in 0 .. Len(descs) /\ prog <= TableDepth
      /\ slack \in BOOLEAN /\ loop \in BOOLEAN /\ turning \in BOOLEAN
      /\ slack => ~loop
  BY DEF Programming
<1>1. Len(table) + Len(refill) <= TableDepth
  <2>1. Len(table) \in Nat /\ Len(refill) \in Nat /\ Len(descs) \in Nat /\ prog \in Nat /\ TableDepth \in Nat
    BY <1>0, SizesAssumption DEF Listed
  <2>2. QED  BY <1>0, <2>1
<1>2. TableThen(reset, FALSE, table, refill, table1)
  BY <1>1, TableAfter, Zenon
<1>3. ~slack => table # <<>>
  BY DEF ComingRun
<1>4. /\ Rest(table) \o refill \in Seq(Descriptor)
      /\ AllOrNone(slack, Rest(table) \o refill, Rest(table1))
      /\ ~slack => table1 # <<>> /\ Head(table1) = Head(table)
  BY <1>2, <1>3 DEF TableThen, AllOrNone
<1>5. Flow(slack, DescAt(S, descs, loop), Rest(table) \o refill, e, Target(S, descs, loop, turning, prog, s))
  BY DEF ComingRun
<1>6. Flow(slack, DescAt(S, descs, loop), Rest(table1) \o refill1, e,
           Target(S, descs, loop, turning, prog + Len(we), s))
  <2>1. Refilled(we, flag, loop /\ turning, refill1)
    BY DEF TableCycles, Refilled
  <2>2. QueueThen(S, descs, slack, loop, turning, prog, we, Rest(table1), refill1, e, s)
    BY <1>4, <1>5, <2>1, QueueAfter, Zenon
  <2>3. QED  BY <2>2 DEF QueueThen
<1>7. QED  BY <1>4, <1>6 DEF ComingRun

\* The next piece of it.
LEMMA CutStep ==
  ASSUME NEW S, NEW descs, Listed(S, descs), NEW slack, NEW loop,
         NEW turning, NEW prog,
         NEW table, NEW refill, NEW addr \in Nat, NEW left \in Nat, left > MaxSize,
         NEW q \in Nat, NEW s, NEW e,
         ComingRun(S, descs, slack, loop, turning, table, refill, addr, left, prog, q, s, e)
  PROVE  /\ ComingRun(S, descs, slack, loop, turning, table, refill, addr + MaxSize, left - MaxSize, prog,
                      q + MaxWords, s, e)
         /\ Wrap(loop, Len(S), q + MaxWords) = q + MaxWords
<1>1. PieceAt(S, addr, left, q) /\ e = Wrap(loop, Len(S), q + Ctrl!Words(left))
  BY DEF ComingRun
<1>2. /\ PieceAt(S, addr + MaxSize, left - MaxSize, q + MaxWords)
      /\ Ctrl!Words(left) = MaxWords + Ctrl!Words(left - MaxSize)
      /\ left - MaxSize \in Nat \ {0}
  BY <1>1, PieceCut
<1> DEFINE m == Ctrl!Words(left - MaxSize)
<1>3. m \in Nat \ {0}
  BY <1>2, WordsFit
<1>4. MaxWords \in Nat /\ Len(S) \in Nat
  BY SizesAssumption DEF Listed
<1> HIDE DEF m
<1>5. q + Ctrl!Words(left) = (q + MaxWords) + m
  BY <1>2, <1>3, <1>4 DEF m
<1>6. q + MaxWords # Len(S)
  <2>1. (q + MaxWords) + m <= Len(S)
    BY <1>2 DEF PieceAt, m
  <2>2. QED  BY <1>3, <1>4, <2>1
<1>7. e = Wrap(loop, Len(S), (q + MaxWords) + m)
  BY <1>1, <1>5
<1>8. QED  BY <1>2, <1>6, <1>7 DEF ComingRun, Wrap, m

\* The splitter is done with it.
LEMMA EndStep ==
  ASSUME NEW S, NEW descs, NEW slack, NEW loop, NEW turning, NEW prog, NEW we, NEW flag,
         Programming(S, descs, slack, loop, turning, prog, we, flag),
         loop => turning,
         NEW reset \in BOOLEAN, reset => slack,
         NEW table \in Seq(Descriptor), NEW refill \in Seq(Descriptor),
         Len(refill) <= 1, Len(table) + Len(refill) <= prog,
         NEW table1, NEW refill1,
         TableCycles(we, flag, loop /\ turning, reset, table # <<>>, table, refill, table1, refill1),
         NEW addr, NEW left, NEW q \in Nat, NEW s \in Nat, NEW e \in Nat,
         ComingRun(S, descs, slack, loop, turning, table, refill, addr, left, prog, q, s, e)
  PROVE  ComingIdle(S, descs, slack, loop, turning, table1, refill1, prog + Len(we), e)
<1> DEFINE R == DescAt(S, descs, loop)
           taken == table # <<>>
<1>0. /\ Listed(S, descs) /\ prog \in 0 .. Len(descs) /\ prog <= TableDepth
      /\ slack \in BOOLEAN /\ loop \in BOOLEAN /\ turning \in BOOLEAN
      /\ slack => ~loop
  BY DEF Programming
<1>1. Len(table) + Len(refill) <= TableDepth
  <2>1. Len(table) \in Nat /\ Len(refill) \in Nat /\ Len(descs) \in Nat /\ prog \in Nat /\ TableDepth \in Nat
    BY <1>0, SizesAssumption DEF Listed
  <2>2. QED  BY <1>0, <2>1
<1>2. TableThen(reset, taken, table, refill, table1)
  <2>1. taken \in BOOLEAN /\ (taken => table # <<>>)
    OBVIOUS
  <2>2. TableCycles(we, flag, loop /\ turning, reset, taken, table, refill, table1, refill1)
    OBVIOUS
  <2> HIDE DEF taken
  <2>3. QED  BY <1>1, <2>1, <2>2, TableAfter, Zenon
<1>3. /\ Flow(slack, R, Rest(table) \o refill, e, Target(S, descs, loop, turning, prog, s))
      /\ ~slack => table # <<>> /\ <<Head(table), [from |-> s, to |-> e]>> \in R
  BY DEF ComingRun
<1>4. /\ Rest(table) \o refill \in Seq(Descriptor) /\ table1 \in Seq(Descriptor)
      /\ AllOrNone(slack, Rest(table) \o refill, table1)
  <2>1. CASE table = <<>>
    BY <1>2, <2>1 DEF TableThen, AllOrNone, Rest
  <2>2. CASE table # <<>>
    BY <1>2, <2>2 DEF TableThen, AllOrNone
  <2>3. QED  BY <2>1, <2>2
<1>5. CASE ~(loop /\ turning)
  <2>1. Flow(slack, R, table1 \o refill1, e, Target(S, descs, loop, turning, prog + Len(we), s))
    <3>1. Refilled(we, flag, loop /\ turning, refill1)
      BY <1>5 DEF TableCycles, Refilled
    <3>2. QueueThen(S, descs, slack, loop, turning, prog, we, table1, refill1, e, s)
      BY <1>3, <1>4, <3>1, QueueAfter, Zenon
    <3>3. QED  BY <3>2 DEF QueueThen
  <2>2. Target(S, descs, loop, turning, prog + Len(we), s) = Target(S, descs, loop, turning, prog + Len(we), e)
    BY <1>5 DEF Target
  <2>3. QED  BY <1>5, <2>1, <2>2 DEF ComingIdle
<1>6. CASE loop /\ turning
  <2>1. ~slack /\ ~reset /\ table # <<>>
    BY <1>0, <1>3, <1>6
  <2>2. table1 = Rest(table) \o refill /\ refill1 = <<Head(table)>> /\ Head(table) \in Descriptor
    BY <1>4, <1>6, <2>1, Shortened DEF TableCycles, AllOrNone
  <2>3. Target(S, descs, loop, turning, prog, s) = s
        /\ Target(S, descs, loop, turning, prog + Len(we), e) = e
    BY <1>6 DEF Target
  <2> DEFINE span == [from |-> s, to |-> e]
  <2>4. span \in Span /\ span.from = s /\ span.to = e
    BY DEF Span
  <2>5. <<Head(table), span>> \in R
    BY <1>3, <2>1
  <2> HIDE DEF span, R
  <2>6. Flow(slack, R, <<Head(table)>>, s, e)
    <3>1. Reach(slack, s, span.from) /\ Reach(slack, span.to, e)
      BY <2>4 DEF Reach
    <3>2. QED  BY <2>4, <2>5, <3>1, OneFlows
  <2>7. Flow(slack, R, table1, e, s)
    BY <1>3, <2>2, <2>3
  <2>8. <<Head(table)>> \in Seq(Descriptor)
    BY <2>2
  <2>9. Flow(slack, R, table1 \o refill1, e, e)
    BY <1>4, <2>2, <2>6, <2>7, <2>8, FlowsMeet
  <2>10. QED  BY <1>6, <2>3, <2>9 DEF ComingIdle, R
<1>7. QED  BY <1>5, <1>6

LEMMA WordsOfMax == Ctrl!Words(MaxSize) = MaxWords
<1>1. /\ WordBytes \in Nat \ {0} /\ MaxWords \in Nat \ {0} /\ MaxSize = MaxWords * WordBytes
  BY Descs, WordsOfPiece
<1>2. (WordBytes - 1 + MaxWords * WordBytes) \div WordBytes = ((WordBytes - 1) \div WordBytes) + MaxWords
  <2>1. WordBytes - 1 \in Nat /\ MaxWords \in Nat
    BY <1>1
  <2>2. QED  BY <1>1, <2>1, QuotientShift
<1>3. (WordBytes - 1) \div WordBytes = 0
  BY <1>1
<1>4. MaxSize + WordBytes - 1 = WordBytes - 1 + MaxWords * WordBytes
  BY <1>1
<1> DEFINE x == WordBytes - 1 + MaxWords * WordBytes
<1> HIDE DEF x
<1>5. Ctrl!Words(MaxSize) = x \div WordBytes
  BY <1>4 DEF Ctrl!Words, x
<1>6. x \div WordBytes = 0 + MaxWords
  BY <1>2, <1>3 DEF x
<1>7. QED  BY <1>1, <1>5, <1>6

\* What a splitter offers is one frame.
LEMMA OfferedIsFrame ==
  ASSUME NEW S, NEW descs, Listed(S, descs), NEW slack, NEW loop, NEW turning, NEW prog,
         NEW table, NEW refill, NEW piece \in Piece, NEW left \in Nat \ {0}, PieceFrom(piece.addr, left, piece),
         NEW q \in Nat, NEW s, NEW e,
         ComingRun(S, descs, slack, loop, turning, table, refill, piece.addr, left, prog, q, s, e)
  PROVE  FrameAt(S, piece.addr \div WordBytes, Ctrl!Words(piece.length), q)
<1>1. piece.addr \in Nat /\ S \in Seq(StreamWord)
  BY DEF Piece, Listed
<1>2. piece.length = (IF left > MaxSize THEN MaxSize ELSE left)
  BY DEF PieceFrom
<1>3. PieceAt(S, piece.addr, left, q)
  BY DEF ComingRun
<1>4. QED  BY <1>1, <1>2, <1>3, PieceIsFrame

\* Where the stream goes on when the piece that is offered is taken.
Advances(S, slack, loop, word, n, p, next) ==
  \E q \in Nat : /\ Reach(slack, p, q) /\ FrameAt(S, word, n, q)
                 /\ next = Wrap(loop, Len(S), q + n)

\* Whether the head of the table is taken.
Takes(taken, split, ready, piece, table) ==
  taken = (split = "RUN" /\ ready /\ piece.last /\ table # <<>>)

Splits(ready, table, split, piece, left, split1, piece1, left1) ==
  \/ SplitIdles(table, split, piece, left, split1, piece1, left1)
  \/ SplitRuns(ready, split, piece, left, split1, piece1, left1)

\* A cycle of a table and its splitter, with what software does in it: ...
Turns(S, descs, slack, loop, turning, prog, we, flag, reset, ready,
      table, refill, split, piece, left, table1, refill1, split1, piece1, left1) ==
  /\ Programming(S, descs, slack, loop, turning, prog, we, flag)
  /\ reset \in BOOLEAN /\ (reset => slack) /\ ready \in BOOLEAN /\ (ready /\ loop => turning)
  /\ table \in Seq(Descriptor) /\ refill \in Seq(Descriptor) /\ Cut(split, piece, left)
  /\ \E taken : /\ Takes(taken, split, ready, piece, table)
               /\ TableCycles(we, flag, loop /\ turning, reset, taken, table, refill, table1, refill1)
  /\ Splits(ready, table, split, piece, left, split1, piece1, left1)

\* ... the stream goes on with the descriptors that are still to come.
ComeOn(S, descs, slack, slack1, loop, turning1, prog, we, ready, split, piece,
       table1, refill1, split1, piece1, left1, p) ==
  \E next \in Nat :
    /\ IF split = "RUN" /\ ready
       THEN Advances(S, slack, loop, piece.addr \div WordBytes, Ctrl!Words(piece.length), p, next)
       ELSE next = p
    /\ Coming(S, descs, slack1, loop, turning1, table1, refill1, split1, piece1, left1,
              prog + Len(we), next)

LEMMA SplitStep ==
  ASSUME NEW S, NEW descs, NEW slack, NEW loop, NEW turning, NEW prog, NEW we, NEW flag,
         NEW reset, NEW ready, NEW table, NEW refill, NEW split, NEW piece, NEW left,
         NEW table1, NEW refill1, NEW split1, NEW piece1, NEW left1,
         Turns(S, descs, slack, loop, turning, prog, we, flag, reset, ready,
               table, refill, split, piece, left, table1, refill1, split1, piece1, left1),
         NEW p \in Nat,
         Coming(S, descs, slack, loop, turning, table, refill, split, piece, left, prog, p)
  PROVE  ComeOn(S, descs, slack, slack, loop, turning, prog, we, ready, split, piece,
                table1, refill1, split1, piece1, left1, p)
<1> SUFFICES \E next \in Nat :
               /\ IF split = "RUN" /\ ready
                  THEN Advances(S, slack, loop, piece.addr \div WordBytes, Ctrl!Words(piece.length),
                                p, next)
                  ELSE next = p
               /\ Coming(S, descs, slack, loop, turning, table1, refill1, split1, piece1, left1,
                         prog + Len(we), next)
  BY DEF ComeOn
<1>a. /\ Programming(S, descs, slack, loop, turning, prog, we, flag)
      /\ reset \in BOOLEAN /\ (reset => slack) /\ ready \in BOOLEAN /\ (ready /\ loop => turning)
      /\ table \in Seq(Descriptor) /\ refill \in Seq(Descriptor) /\ Cut(split, piece, left)
      /\ Splits(ready, table, split, piece, left, split1, piece1, left1)
  BY DEF Turns
<1>b. PICK taken :
        /\ Takes(taken, split, ready, piece, table)
        /\ TableCycles(we, flag, loop /\ turning, reset, taken, table, refill, table1, refill1)
  BY DEF Turns
<1> USE <1>a, <1>b
<1>0. /\ Listed(S, descs) /\ prog \in 0 .. Len(descs) /\ prog <= TableDepth
      /\ slack \in BOOLEAN /\ loop \in BOOLEAN /\ turning \in BOOLEAN /\ flag \in BOOLEAN
      /\ slack => ~loop
      /\ loop /\ turning => prog = Len(descs)
      /\ we = <<>> \/ (prog < Len(descs) /\ we = <<Desc(descs[prog + 1])>>)
      /\ Len(S) \in Nat
  BY DEF Programming, Listed
<1>1. /\ Len(table) + Len(refill) <= prog /\ Len(refill) <= 1
      /\ split = "IDLE" => ComingIdle(S, descs, slack, loop, turning, table, refill, prog, p)
      /\ split = "RUN" =>
           /\ PieceFrom(piece.addr, left, piece)
           /\ \E q, s, e \in Nat :
                /\ Reach(slack, p, q)
                /\ ComingRun(S, descs, slack, loop, turning, table, refill, piece.addr, left, prog, q, s, e)
  BY DEF Coming
<1>2. taken \in BOOLEAN /\ (taken => table # <<>>)
  BY DEF Takes
<1>3. CountThen(descs, prog, we, loop /\ turning, table1, refill1)
  <2>1. Len(table) + Len(refill) <= prog /\ Len(refill) <= 1
    BY <1>1
  <2>2. QED  BY <1>2, <2>1, CountAfter, SMTT(30)
<1>4. /\ prog + Len(we) \in 0 .. Len(descs) /\ Len(table1) + Len(refill1) <= prog + Len(we)
      /\ Len(refill1) <= 1 /\ (loop /\ turning => prog + Len(we) = Len(descs))
  BY <1>3 DEF CountThen
<1>5. CASE SplitIdles(table, split, piece, left, split1, piece1, left1)
  <2>1. split = "IDLE" /\ ~taken
    BY <1>5 DEF SplitIdles, Takes
  <2>2. TableCycles(we, flag, loop /\ turning, reset, FALSE, table, refill, table1, refill1)
    BY <1>2, <2>1
  <2>3. /\ ComingIdle(S, descs, slack, loop, turning, table1, refill1, prog + Len(we), p)
        /\ table # <<>> =>
             \E q, s, e \in Nat :
               /\ Reach(slack, p, q)
               /\ ComingRun(S, descs, slack, loop, turning, table1, refill1,
                            Head(table).addr, Head(table).length, prog + Len(we), q, s, e)
    <3>1. /\ ComingIdle(S, descs, slack, loop, turning, table, refill, prog, p)
          /\ Len(table) + Len(refill) <= prog /\ Len(refill) <= 1
      BY <1>1, <2>1
    <3>2. QED  BY <2>2, <3>1, BeginStep, ZenonT(60)
  <2>4. CASE table = <<>>
    <3>1. split1 = "IDLE"
      BY <1>5, <2>4 DEF SplitIdles
    <3>2. Coming(S, descs, slack, loop, turning, table1, refill1, split1, piece1, left1, prog + Len(we), p)
      BY <1>4, <2>3, <3>1 DEF Coming
    <3>3. QED  BY <2>1, <3>2
  <2>5. CASE table # <<>>
    <3>1. split1 = "RUN" /\ left1 = Head(table).length
          /\ PieceFrom(Head(table).addr, Head(table).length, piece1)
      BY <1>5, <2>5 DEF SplitIdles
    <3>2. piece1.addr = Head(table).addr
      BY <3>1 DEF PieceFrom
    <3>3. PieceFrom(piece1.addr, left1, piece1)
      BY <3>1, <3>2
    <3>4. \E q, s, e \in Nat :
            /\ Reach(slack, p, q)
            /\ ComingRun(S, descs, slack, loop, turning, table1, refill1, piece1.addr, left1,
                         prog + Len(we), q, s, e)
      BY <2>3, <2>5, <3>1, <3>2
    <3>5. Coming(S, descs, slack, loop, turning, table1, refill1, split1, piece1, left1, prog + Len(we), p)
      BY <1>4, <3>1, <3>3, <3>4 DEF Coming
    <3>6. QED  BY <2>1, <3>5
  <2>6. QED  BY <2>4, <2>5
<1>6. CASE SplitRuns(ready, split, piece, left, split1, piece1, left1)
  <2>1. split = "RUN" /\ PieceFrom(piece.addr, left, piece) /\ piece \in Piece /\ left \in Nat \ {0}
        /\ piece.addr \in Nat /\ piece.last = (left <= MaxSize)
    BY <1>1, <1>6 DEF SplitRuns, Cut, Piece
  <2>2. PICK q \in Nat, s \in Nat, e \in Nat :
          /\ Reach(slack, p, q)
          /\ ComingRun(S, descs, slack, loop, turning, table, refill, piece.addr, left, prog, q, s, e)
    BY <1>1, <2>1
  <2>3. FrameAt(S, piece.addr \div WordBytes, Ctrl!Words(piece.length), q)
    BY <1>0, <2>1, <2>2, OfferedIsFrame
  <2>4. MaxSize \in Nat \ {0} /\ MaxWords \in Nat
    BY WordsOfPiece, SizesAssumption
  <2> DEFINE short == left <= MaxSize
  <2>4a. piece.last = short /\ left \in Nat
    BY <2>1
  <2>4b. ~short => left > MaxSize
    BY <2>4, <2>4a
  <2>4c. short => ~(left > MaxSize)
    BY <2>4, <2>4a
  <2> HIDE DEF short
  <2>4d. /\ Len(table) + Len(refill) <= prog /\ Len(refill) <= 1
         /\ ComingRun(S, descs, slack, loop, turning, table, refill, piece.addr, left, prog, q, s, e)
    BY <1>1, <2>2
  <2>5. CASE ~(ready /\ piece.last)
    <3>1. TableCycles(we, flag, loop /\ turning, reset, FALSE, table, refill, table1, refill1)
      BY <2>5 DEF Takes
    <3>2. ComingRun(S, descs, slack, loop, turning, table1, refill1, piece.addr, left, prog + Len(we), q, s, e)
      BY <2>4d, <3>1, KeepStep, ZenonT(60)
    <3>3. CASE ~ready
      <4>1. split1 = "RUN" /\ piece1 = piece /\ left1 = left
        BY <1>6, <3>3 DEF SplitRuns
      <4>2. Coming(S, descs, slack, loop, turning, table1, refill1, split1, piece1, left1, prog + Len(we), p)
        BY <1>4, <2>1, <2>2, <3>2, <4>1 DEF Coming
      <4>3. QED  BY <3>3, <4>2
    <3>4. CASE ready /\ ~piece.last
      <4>1. split1 = "RUN" /\ left1 = left - MaxSize
            /\ PieceFrom(piece.addr + MaxSize, left - MaxSize, piece1)
        BY <1>6, <3>4 DEF SplitRuns
      <4>2. left > MaxSize /\ left \in Nat
        BY <2>4a, <2>4b, <3>4, Zenon
      <4>3. /\ ComingRun(S, descs, slack, loop, turning, table1, refill1, piece.addr + MaxSize, left - MaxSize,
                         prog + Len(we), q + MaxWords, s, e)
            /\ Wrap(loop, Len(S), q + MaxWords) = q + MaxWords
        BY <1>0, <2>1, <3>2, <4>2, CutStep
      <4>4. piece1.addr = piece.addr + MaxSize
        BY <4>1 DEF PieceFrom
      <4>5. Ctrl!Words(piece.length) = MaxWords
        <5>1. piece.length = MaxSize
          BY <2>1, <4>2 DEF PieceFrom
        <5>2. QED  BY <5>1, WordsOfMax
      <4> DEFINE next == q + MaxWords
      <4>6. next \in Nat /\ Reach(slack, next, next)
        BY <2>4 DEF Reach
      <4>7. Advances(S, slack, loop, piece.addr \div WordBytes, Ctrl!Words(piece.length), p, next)
        BY <2>2, <2>3, <4>3, <4>5 DEF Advances
      <4>8. ComingRun(S, descs, slack, loop, turning, table1, refill1, piece1.addr, left1,
                      prog + Len(we), next, s, e)
        BY <4>1, <4>3, <4>4
      <4>9. PieceFrom(piece1.addr, left1, piece1)
        BY <4>1, <4>4
      <4> HIDE DEF next
      <4>10. Coming(S, descs, slack, loop, turning, table1, refill1, split1, piece1, left1, prog + Len(we), next)
        BY <1>4, <4>1, <4>6, <4>8, <4>9 DEF Coming
      <4>11. QED  BY <2>1, <3>4, <4>6, <4>7, <4>10
    <3>5. QED  BY <2>5, <3>3, <3>4
  <2>6. CASE ready /\ piece.last
    <3>1. split1 = "IDLE"
      BY <1>6, <2>6 DEF SplitRuns
    <3>2. taken = (table # <<>>)
      BY <2>1, <2>6 DEF Takes
    <3>3. TableCycles(we, flag, loop /\ turning, reset, table # <<>>, table, refill, table1, refill1)
      BY <3>2
    <3>4. loop => turning
      BY <2>6
    <3>5. ComingIdle(S, descs, slack, loop, turning, table1, refill1, prog + Len(we), e)
      BY <2>4d, <3>3, <3>4, EndStep, ZenonT(60)
    <3>6. Coming(S, descs, slack, loop, turning, table1, refill1, split1, piece1, left1, prog + Len(we), e)
      BY <1>4, <3>1, <3>5 DEF Coming
    <3>7. piece.length = left
      <4>1. ~(left > MaxSize)
        BY <2>4a, <2>4c, <2>6, Zenon
      <4>2. QED  BY <2>1, <4>1 DEF PieceFrom
    <3>8. e = Wrap(loop, Len(S), q + Ctrl!Words(piece.length))
      BY <2>2, <3>7 DEF ComingRun
    <3>9. Advances(S, slack, loop, piece.addr \div WordBytes, Ctrl!Words(piece.length), p, e)
      BY <2>2, <2>3, <3>8 DEF Advances
    <3>10. QED  BY <2>1, <2>6, <3>6, <3>9
  <2>7. QED  BY <2>5, <2>6
<1>7. QED  BY <1>5, <1>6 DEF Splits

-----------------------------------------------------------------------------
(* The descriptors that are still to come.                                     *)

\* Words may get lost from now on, or the loop may start to turn.
Changes(S, descs, slack, slack1, loop, turning, turning1, prog) ==
  /\ Listed(S, descs) /\ slack \in BOOLEAN /\ slack1 \in BOOLEAN
  /\ turning \in BOOLEAN /\ turning1 \in BOOLEAN
  /\ (slack => slack1) /\ (loop /\ turning => turning1) /\ (loop /\ turning1 => prog = Len(descs))

LEMMA ComingChanges ==
  ASSUME NEW S, NEW descs, NEW loop, NEW slack, NEW slack1, NEW turning, NEW turning1, NEW prog,
         Changes(S, descs, slack, slack1, loop, turning, turning1, prog),
         NEW table, NEW refill, NEW split, NEW piece, NEW left, NEW p \in Nat,
         Coming(S, descs, slack, loop, turning, table, refill, split, piece, left, prog, p)
  PROVE  Coming(S, descs, slack1, loop, turning1, table, refill, split, piece, left, prog, p)
<1> DEFINE R == DescAt(S, descs, loop)
<1>0. /\ Listed(S, descs) /\ slack \in BOOLEAN /\ slack1 \in BOOLEAN
      /\ turning \in BOOLEAN /\ turning1 \in BOOLEAN
      /\ (slack => slack1) /\ (loop /\ turning => turning1) /\ (loop /\ turning1 => prog = Len(descs))
  BY DEF Changes
<1> USE <1>0
<1>1. ASSUME NEW s, loop /\ ~turning => s = 0
      PROVE  Target(S, descs, loop, turning, prog, s) = Target(S, descs, loop, turning1, prog, s)
  <2>1. CASE loop /\ ~turning /\ turning1
    <3>1. Base(S, descs)[prog] = Len(S)
      BY <2>1 DEF Listed, LaidOut
    <3>2. QED  BY <1>1, <2>1, <3>1 DEF Target, Wrap
  <2>2. CASE ~(loop /\ ~turning /\ turning1)
    BY <2>2 DEF Target
  <2>3. QED  BY <2>1, <2>2
<1>2. \A s, u, e : Flow(slack, R, s, u, e) => Flow(slack1, R, s, u, e)
  BY FlowLoosens
<1>3. ASSUME ComingIdle(S, descs, slack, loop, turning, table, refill, prog, p)
      PROVE  ComingIdle(S, descs, slack1, loop, turning1, table, refill, prog, p)
  <2>1. (loop /\ ~turning => p = 0) /\ (loop /\ ~turning1 => p = 0)
    BY <1>3 DEF ComingIdle
  <2>2. Flow(slack1, R, table \o refill, p, Target(S, descs, loop, turning, prog, p))
    BY <1>2, <1>3 DEF ComingIdle
  <2>3. QED  BY <1>1, <2>1, <2>2 DEF ComingIdle
<1>4. ASSUME NEW addr, NEW q \in Nat, NEW s \in Nat, NEW e \in Nat, Reach(slack, p, q),
             ComingRun(S, descs, slack, loop, turning, table, refill, addr, left, prog, q, s, e)
      PROVE  /\ Reach(slack1, p, q)
             /\ ComingRun(S, descs, slack1, loop, turning1, table, refill, addr, left, prog, q, s, e)
  <2>1. (loop /\ ~turning => s = 0) /\ (loop /\ ~turning1 => s = 0)
    BY <1>4 DEF ComingRun
  <2>2. Flow(slack1, R, Rest(table) \o refill, e, Target(S, descs, loop, turning, prog, s))
    BY <1>2, <1>4 DEF ComingRun
  <2>3. Target(S, descs, loop, turning, prog, s) = Target(S, descs, loop, turning1, prog, s)
    BY <1>1, <2>1
  <2>4. ~slack1 => table # <<>> /\ <<Head(table), [from |-> s, to |-> e]>> \in R
    BY <1>4 DEF ComingRun
  <2>5. ComingRun(S, descs, slack1, loop, turning1, table, refill, addr, left, prog, q, s, e)
    BY <1>4, <2>1, <2>2, <2>3, <2>4 DEF ComingRun
  <2>6. Reach(slack1, p, q)
    BY <1>4 DEF Reach
  <2>7. QED  BY <2>5, <2>6
<1>5. split = "RUN" =>
        /\ PieceFrom(piece.addr, left, piece)
        /\ \E q, s, e \in Nat :
             /\ Reach(slack1, p, q)
             /\ ComingRun(S, descs, slack1, loop, turning1, table, refill, piece.addr, left, prog, q, s, e)
  BY <1>4 DEF Coming
<1>6. QED  BY <1>3, <1>5 DEF Coming

\* The two tables and splitters do what is said of them above.
LEMMA ReadSplits ==
  ASSUME NEW we, NEW turns, NEW reset \in BOOLEAN, NEW ready \in BOOLEAN, TypeInv,
         RPath!Step(we, turns, reset, ready)
  PROVE  \E taken :
           /\ Takes(taken, r_split, ready, r_piece, r_table)
           /\ TableCycles(we, r_table = <<>>, turns, reset, taken, r_table, r_refill, r_table', r_refill')
           /\ Splits(ready, r_table, r_split, r_piece, r_left, r_split', r_piece', r_left')
<1> DEFINE taken == r_split = "RUN" /\ ready /\ r_piece.last /\ r_table # <<>>
<1>1. RPath!TableStep(we, turns, reset, RPath!SinkReady(ready)) /\ (RPath!Idle \/ RPath!Run(ready))
  BY DEF RPath!Step
<1>2. Takes(taken, r_split, ready, r_piece, r_table)
  BY DEF Takes
<1>3. TableCycles(we, r_table = <<>>, turns, reset, taken, r_table, r_refill, r_table', r_refill')
  <2> DEFINE flag == r_table = <<>>
  <2>1. taken <=> r_table # <<>> /\ RPath!SinkReady(ready)
    BY DEF RPath!SinkReady, RPath!Offers
  <2>2. taken = (r_table # <<>> /\ RPath!SinkReady(ready)) /\ RPath!FirstFlag = flag
    BY <2>1 DEF RPath!FirstFlag
  <2> HIDE DEF taken, flag
  <2>3. TableCycles(we, flag, turns, reset, taken, r_table, r_refill, r_table', r_refill')
    BY <1>1, <2>2 DEF RPath!TableStep, TableCycles
  <2>4. QED  BY <2>3 DEF flag
<1>4. Splits(ready, r_table, r_split, r_piece, r_left, r_split', r_piece', r_left')
  <2>1. \A addr, length, first : PieceFrom(addr, length, RPath!Piece(addr, length, first))
    BY DEF PieceFrom, RPath!Piece, MaxSize
  <2>2. CASE RPath!Idle
    BY <2>1, <2>2 DEF RPath!Idle, Splits, SplitIdles
  <2>3. CASE RPath!Run(ready)
    BY <2>1, <2>3 DEF RPath!Run, Splits, SplitRuns, MaxSize
  <2>4. QED  BY <1>1, <2>2, <2>3
<1>5. QED  BY <1>2, <1>3, <1>4

LEMMA WriteSplits ==
  ASSUME NEW we, NEW turns, NEW reset \in BOOLEAN, NEW ready \in BOOLEAN, TypeInv,
         WPath!Step(we, turns, reset, ready)
  PROVE  \E taken :
           /\ Takes(taken, w_split, ready, w_piece, w_table)
           /\ TableCycles(we, w_table = <<>>, turns, reset, taken, w_table, w_refill, w_table', w_refill')
           /\ Splits(ready, w_table, w_split, w_piece, w_left, w_split', w_piece', w_left')
<1> DEFINE taken == w_split = "RUN" /\ ready /\ w_piece.last /\ w_table # <<>>
<1>1. WPath!TableStep(we, turns, reset, WPath!SinkReady(ready)) /\ (WPath!Idle \/ WPath!Run(ready))
  BY DEF WPath!Step
<1>2. Takes(taken, w_split, ready, w_piece, w_table)
  BY DEF Takes
<1>3. TableCycles(we, w_table = <<>>, turns, reset, taken, w_table, w_refill, w_table', w_refill')
  <2> DEFINE flag == w_table = <<>>
  <2>1. taken <=> w_table # <<>> /\ WPath!SinkReady(ready)
    BY DEF WPath!SinkReady, WPath!Offers
  <2>2. taken = (w_table # <<>> /\ WPath!SinkReady(ready)) /\ WPath!FirstFlag = flag
    BY <2>1 DEF WPath!FirstFlag
  <2> HIDE DEF taken, flag
  <2>3. TableCycles(we, flag, turns, reset, taken, w_table, w_refill, w_table', w_refill')
    BY <1>1, <2>2 DEF WPath!TableStep, TableCycles
  <2>4. QED  BY <2>3 DEF flag
<1>4. Splits(ready, w_table, w_split, w_piece, w_left, w_split', w_piece', w_left')
  <2>1. \A addr, length, first : PieceFrom(addr, length, WPath!Piece(addr, length, first))
    BY DEF PieceFrom, WPath!Piece, MaxSize
  <2>2. CASE WPath!Idle
    BY <2>1, <2>2 DEF WPath!Idle, Splits, SplitIdles
  <2>3. CASE WPath!Run(ready)
    BY <2>1, <2>3 DEF WPath!Run, Splits, SplitRuns, MaxSize
  <2>4. QED  BY <1>1, <2>2, <2>3
<1>5. QED  BY <1>2, <1>3, <1>4

-----------------------------------------------------------------------------
(* The line of words: what waits to be written, in the FIFO of the writer and  *)
(* in the buffers, what waits to be sent, and what is at the bus.              *)
Line(slack, loop, w, wb, rb, r, rd, a, z) ==
  \E p1, p2, p3, p4 \in Nat :
    /\ Flow(slack, WordAt(loop), w, a, p1) /\ Flow(slack, WordAt(loop), wb, p1, p2)
    /\ Flow(slack, WordAt(loop), rb, p2, p3) /\ Flow(slack, WordAt(loop), r, p3, p4)
    /\ Flow(slack, ReadAt(loop), rd, p4, z)

\* What leaves a FIFO in a cycle, and what is left.
Out(taken, s) == IF taken THEN <<Head(s)>> ELSE <<>>
Keep(taken, s) == IF taken THEN Tail(s) ELSE s

LEMMA FlowsPop ==
  ASSUME NEW slack, NEW R, NEW T, NEW s \in Seq(T), NEW taken, taken => s # <<>>,
         NEW p \in Nat, NEW q \in Nat, Flow(slack, R, s, p, q)
  PROVE  /\ Out(taken, s) \in Seq(T) /\ Keep(taken, s) \in Seq(T)
         /\ \E m \in Nat : Flow(slack, R, Out(taken, s), p, m) /\ Flow(slack, R, Keep(taken, s), m, q)
<1>1. CASE taken
  <2>1. Out(taken, s) = <<Head(s)>> /\ Keep(taken, s) = Tail(s)
    BY <1>1 DEF Out, Keep
  <2>2. <<Head(s)>> \in Seq(T) /\ Tail(s) \in Seq(T)
    BY <1>1, Shortened
  <2>3. PICK span \in Span : /\ <<Head(s), span>> \in R /\ Reach(slack, p, span.from)
                             /\ Flow(slack, R, Tail(s), span.to, q)
    BY <1>1, FlowsPart
  <2>4. PICK m \in Nat : m = span.to
    BY DEF Span
  <2>5. Reach(slack, span.to, m)
    BY <2>4 DEF Reach
  <2>6. Flow(slack, R, <<Head(s)>>, p, m)
    BY <2>3, <2>5, OneFlows
  <2>7. QED  BY <2>1, <2>2, <2>3, <2>4, <2>6
<1>2. CASE ~taken
  <2>1. Out(taken, s) = <<>> /\ Keep(taken, s) = s
    BY <1>2 DEF Out, Keep
  <2>2. Flow(slack, R, <<>>, p, p)
    BY EmptyFlow DEF Reach
  <2>3. QED  BY <2>1, <2>2, EmptySeq
<1>3. QED  BY <1>1, <1>2

\* The bus takes a word from the FIFO of the writer ...
Written(slack, loop, w, w1, a, a1) ==
  \A k \in Nat : Flow(slack, WordAt(loop), w, a, k) => Flow(slack, WordAt(loop), w1, a1, k)

\* ... and answers a request with the word c (one or none).
Answered(slack, loop, rd, rd1, c, z, z1) ==
  \A k \in Nat : Flow(slack, ReadAt(loop), rd, k, z) =>
    \E m \in Nat : Flow(slack, WordAt(loop), c, k, m) /\ Flow(slack, ReadAt(loop), rd1, m, z1)

\* The words move on through the buffers, ...
LEMMA LineBuffered ==
  ASSUME NEW slack, NEW loop, slack => ~loop, NEW w, NEW wb \in Seq(Word), NEW rb \in Seq(Word),
         NEW r \in Seq(Word), NEW rd, NEW a \in Nat, NEW z \in Nat, Line(slack, loop, w, wb, rb, r, rd, a, z),
         NEW w1 \in Seq(Word), NEW a1 \in Nat, Written(slack, loop, w, w1, a, a1),
         NEW rd1, NEW c \in Seq(Word), NEW z1 \in Nat, Answered(slack, loop, rd, rd1, c, z, z1),
         NEW wt, wt => wb # <<>>, NEW rt, rt => rb # <<>>, NEW st, st => r # <<>>,
         NEW l, AllOrNone(slack, Out(wt, wb), l)
  PROVE  Line(slack, loop, w1 \o l, Keep(wt, wb) \o Out(rt, rb), Keep(rt, rb) \o Out(st, r),
              Keep(st, r) \o c, rd1, a1, z1)
<1> DEFINE W == WordAt(loop)
<1>1. PICK p1 \in Nat, p2 \in Nat, p3 \in Nat, p4 \in Nat :
        /\ Flow(slack, W, w, a, p1) /\ Flow(slack, W, wb, p1, p2)
        /\ Flow(slack, W, rb, p2, p3) /\ Flow(slack, W, r, p3, p4)
        /\ Flow(slack, ReadAt(loop), rd, p4, z)
  BY DEF Line
<1>2. Flow(slack, W, w1, a1, p1)
  BY <1>1 DEF Written
<1>3. PICK m4 \in Nat : Flow(slack, W, c, p4, m4) /\ Flow(slack, ReadAt(loop), rd1, m4, z1)
  BY <1>1 DEF Answered
<1>0. Forward(slack, W)
  BY AllForward
<1> HIDE DEF W
<1>4. PICK m1 \in Nat : Flow(slack, W, Out(wt, wb), p1, m1) /\ Flow(slack, W, Keep(wt, wb), m1, p2)
  BY <1>1, FlowsPop
<1>5. PICK m2 \in Nat : Flow(slack, W, Out(rt, rb), p2, m2) /\ Flow(slack, W, Keep(rt, rb), m2, p3)
  BY <1>1, FlowsPop
<1>6. PICK m3 \in Nat : Flow(slack, W, Out(st, r), p3, m3) /\ Flow(slack, W, Keep(st, r), m3, p4)
  BY <1>1, FlowsPop
<1>7. /\ Out(wt, wb) \in Seq(Word) /\ Keep(wt, wb) \in Seq(Word)
      /\ Out(rt, rb) \in Seq(Word) /\ Keep(rt, rb) \in Seq(Word)
      /\ Out(st, r) \in Seq(Word) /\ Keep(st, r) \in Seq(Word)
  BY <1>1, FlowsPop
<1>8. l \in Seq(Word) /\ Flow(slack, W, l, p1, m1)
  <2>1. CASE l = Out(wt, wb)
    BY <1>4, <1>7, <2>1
  <2>2. CASE slack /\ l = <<>>
    <3>1. Flow(slack, W, <<>>, p1, m1)
      BY <1>0, <1>4, <1>7, <2>2, Lossy
    <3>2. QED  BY <2>2, <3>1, EmptySeq
  <2>3. QED  BY <2>1, <2>2 DEF AllOrNone
<1>9. Flow(slack, W, w1 \o l, a1, m1)
  BY <1>2, <1>8, FlowsMeet
<1>10. Flow(slack, W, Keep(wt, wb) \o Out(rt, rb), m1, m2)
  BY <1>4, <1>5, <1>7, FlowsMeet
<1>11. Flow(slack, W, Keep(rt, rb) \o Out(st, r), m2, m3)
  BY <1>5, <1>6, <1>7, FlowsMeet
<1>12. Flow(slack, W, Keep(st, r) \o c, m3, m4)
  BY <1>3, <1>6, <1>7, FlowsMeet
<1>13. QED  BY <1>3, <1>9, <1>10, <1>11, <1>12 DEF Line, W

\* ... or, if there are none, right to the writer.
LEMMA LineDirect ==
  ASSUME NEW slack, NEW loop, NEW w, NEW r \in Seq(Word), NEW rd, NEW a \in Nat, NEW z \in Nat,
         Line(slack, loop, w, <<>>, <<>>, r, rd, a, z),
         NEW w1 \in Seq(Word), NEW a1 \in Nat, Written(slack, loop, w, w1, a, a1),
         NEW rd1, NEW c \in Seq(Word), NEW z1 \in Nat, Answered(slack, loop, rd, rd1, c, z, z1),
         NEW st, st => r # <<>>
  PROVE  Line(slack, loop, w1 \o Out(st, r), <<>>, <<>>, Keep(st, r) \o c, rd1, a1, z1)
<1> DEFINE W == WordAt(loop)
<1>1. PICK p1 \in Nat, p2 \in Nat, p3 \in Nat, p4 \in Nat :
        /\ Flow(slack, W, w, a, p1) /\ Flow(slack, W, <<>>, p1, p2)
        /\ Flow(slack, W, <<>>, p2, p3) /\ Flow(slack, W, r, p3, p4)
        /\ Flow(slack, ReadAt(loop), rd, p4, z)
  BY DEF Line
<1>2. Flow(slack, W, w1, a1, p1)
  BY <1>1 DEF Written
<1>3. PICK m4 \in Nat : Flow(slack, W, c, p4, m4) /\ Flow(slack, ReadAt(loop), rd1, m4, z1)
  BY <1>1 DEF Answered
<1> HIDE DEF W
<1>4. <<>> \in Seq(Word) /\ w1 \o <<>> = w1
  BY EmptySeq, ConcatEmptySeq
<1>5. Flow(slack, W, w1, a1, p2)
  <2>1. Flow(slack, W, w1 \o <<>>, a1, p2)
    BY <1>1, <1>2, <1>4, FlowsMeet
  <2>2. QED  BY <1>4, <2>1
<1>6. Flow(slack, W, w1, a1, p3)
  <2>1. Flow(slack, W, w1 \o <<>>, a1, p3)
    BY <1>1, <1>4, <1>5, FlowsMeet
  <2>2. QED  BY <1>4, <2>1
<1>7. PICK m3 \in Nat : Flow(slack, W, Out(st, r), p3, m3) /\ Flow(slack, W, Keep(st, r), m3, p4)
  BY <1>1, FlowsPop
<1>8. Out(st, r) \in Seq(Word) /\ Keep(st, r) \in Seq(Word)
  BY <1>1, FlowsPop
<1>9. Flow(slack, W, w1 \o Out(st, r), a1, m3)
  BY <1>6, <1>7, <1>8, FlowsMeet
<1>10. Flow(slack, W, Keep(st, r) \o c, m3, m4)
  BY <1>3, <1>7, <1>8, FlowsMeet
<1>11. Flow(slack, W, <<>>, m3, m3)
  BY EmptyFlow DEF Reach
<1>12. QED  BY <1>3, <1>9, <1>10, <1>11 DEF Line, W

\* A word that is not kept is lost.
LEMMA LineStopped ==
  ASSUME NEW slack, slack, NEW loop, ~loop, NEW w, NEW wb \in Seq(Word), NEW rb \in Seq(Word),
         NEW r \in Seq(Word), NEW rd, NEW a \in Nat, NEW z \in Nat, Line(slack, loop, w, wb, rb, r, rd, a, z),
         NEW w1 \in Seq(Word), NEW a1 \in Nat, Written(slack, loop, w, w1, a, a1),
         NEW rd1, NEW c \in Seq(Word), NEW z1 \in Nat, Answered(slack, loop, rd, rd1, c, z, z1),
         NEW st, st => r # <<>>,
         NEW w2, AllOrNone(slack, w1, w2), NEW r2, AllOrNone(slack, Keep(st, r), r2)
  PROVE  Line(slack, loop, w2, <<>>, <<>>, r2, rd1, a1, z1)
<1> DEFINE W == WordAt(loop)
<1>1. PICK p1 \in Nat, p2 \in Nat, p3 \in Nat, p4 \in Nat :
        /\ Flow(slack, W, w, a, p1) /\ Flow(slack, W, wb, p1, p2)
        /\ Flow(slack, W, rb, p2, p3) /\ Flow(slack, W, r, p3, p4)
        /\ Flow(slack, ReadAt(loop), rd, p4, z)
  BY DEF Line
<1>2. Flow(slack, W, w1, a1, p1)
  BY <1>1 DEF Written
<1>3. PICK m4 \in Nat : Flow(slack, W, c, p4, m4) /\ Flow(slack, ReadAt(loop), rd1, m4, z1)
  BY <1>1 DEF Answered
<1>0. Forward(slack, W)
  BY AllForward
<1> HIDE DEF W
<1>4. Flow(slack, W, w2, a1, p1)
  <2>1. Flow(slack, W, <<>>, a1, p1)
    BY <1>0, <1>2, Lossy
  <2>2. QED  BY <1>2, <2>1 DEF AllOrNone
<1>5. Flow(slack, W, <<>>, p1, p2)
  BY <1>0, <1>1, Lossy
<1>6. Flow(slack, W, <<>>, p2, p3)
  BY <1>0, <1>1, Lossy
<1>7. PICK m3 \in Nat : Flow(slack, W, Out(st, r), p3, m3) /\ Flow(slack, W, Keep(st, r), m3, p4)
  BY <1>1, FlowsPop
<1>8. Out(st, r) \in Seq(Word) /\ Keep(st, r) \in Seq(Word) /\ <<>> \in Seq(Word)
  BY <1>1, FlowsPop, EmptySeq
<1>9. Flow(slack, W, <<>>, p3, m3) /\ Flow(slack, W, <<>>, p4, m4)
  BY <1>0, <1>3, <1>7, <1>8, Lossy
<1>10. Flow(slack, W, Keep(st, r), p3, m4)
  <2>1. Flow(slack, W, <<>> \o Keep(st, r), p3, p4)
    BY <1>7, <1>8, <1>9, FlowsMeet
  <2>2. <<>> \o Keep(st, r) = Keep(st, r) /\ Keep(st, r) \o <<>> = Keep(st, r)
    BY <1>8, ConcatEmptySeq
  <2>3. Flow(slack, W, Keep(st, r), p3, p4)
    BY <2>1, <2>2
  <2>4. Flow(slack, W, Keep(st, r) \o <<>>, p3, m4)
    BY <1>8, <1>9, <2>3, FlowsMeet
  <2>5. QED  BY <2>2, <2>4
<1>11. Flow(slack, W, r2, p3, m4)
  <2>1. Flow(slack, W, <<>>, p3, m4)
    BY <1>0, <1>8, <1>10, Lossy
  <2>2. QED  BY <1>10, <2>1 DEF AllOrNone
<1>12. QED  BY <1>3, <1>4, <1>5, <1>6, <1>11 DEF Line, W

LEMMA LineLoosens ==
  ASSUME NEW slack, NEW slack1, slack => slack1, NEW loop, NEW w, NEW wb, NEW rb, NEW r, NEW rd, NEW a, NEW z,
         Line(slack, loop, w, wb, rb, r, rd, a, z)
  PROVE  Line(slack1, loop, w, wb, rb, r, rd, a, z)
<1>1. \A R, s, p, q : Flow(slack, R, s, p, q) => Flow(slack1, R, s, p, q)
  BY FlowLoosens
<1>2. QED  BY <1>1 DEF Line

-----------------------------------------------------------------------------
(* The bus.                                                                    *)

\* What is left of a request after its first word: the request, ...
LEMMA ServedIs ==
  ASSUME reads \in Seq(Read), reads # <<>>, reads[1].left # 1
  PROVE  LET r == [reads[1] EXCEPT !.word = @ + 1, !.left = @ - 1, !.first = FALSE]
         IN  r \in Read /\ r.word = reads[1].word + 1 /\ r.left = reads[1].left - 1
             /\ Served = <<r>> \o Tail(reads)
<1> DEFINE h == reads[1]
           r == [h EXCEPT !.word = @ + 1, !.left = @ - 1, !.first = FALSE]
<1>1. /\ h \in Read /\ Tail(reads) \in Seq(Read) /\ Len(Tail(reads)) = Len(reads) - 1
      /\ Len(reads) \in Nat /\ Len(reads) > 0
      /\ \A i \in 1 .. Len(reads) - 1 : Tail(reads)[i] = reads[i + 1]
  BY Shortened
<1>2. Served = [reads EXCEPT ![1] = r]
  BY DEF Served
<1>3. h.word + 1 \in Nat /\ h.left - 1 \in Nat \ {0}
  <2>1. h.word \in Nat /\ h.left \in Nat \ {0} /\ h.left # 1
    BY <1>1 DEF Read
  <2> HIDE DEF h
  <2>2. QED  BY <2>1
<1>4. PICK a \in Nat, b \in Nat \ {0} : a = h.word + 1 /\ b = h.left - 1
  BY <1>3, Zenon
<1> DEFINE r1 == [h EXCEPT !.word = a]
           r2 == [r1 EXCEPT !.left = b]
           r3 == [r2 EXCEPT !.first = FALSE]
<1>5. r = r3
  <2>1. \A x \in Read : \A e, f :
          [x EXCEPT !.word = e, !.left = f, !.first = FALSE]
          = [[[x EXCEPT !.word = e] EXCEPT !.left = f] EXCEPT !.first = FALSE]
    BY DEF Read
  <2> HIDE DEF h
  <2>2. QED  BY <1>1, <1>4, <2>1, Zenon
<1>6. r \in Read /\ r.word = h.word + 1 /\ r.left = h.left - 1
  <2>1. \A x \in Read, e \in Nat : [x EXCEPT !.word = e] \in Read /\ [x EXCEPT !.word = e].word = e
    BY DEF Read
  <2>2. \A x \in Read, e \in Nat \ {0} :
          [x EXCEPT !.left = e] \in Read /\ [x EXCEPT !.left = e].left = e
          /\ [x EXCEPT !.left = e].word = x.word
    BY DEF Read
  <2>3. \A x \in Read :
          [x EXCEPT !.first = FALSE] \in Read /\ [x EXCEPT !.first = FALSE].left = x.left
          /\ [x EXCEPT !.first = FALSE].word = x.word
    BY DEF Read
  <2> HIDE DEF h
  <2>4. r1 \in Read /\ r1.word = a
    BY <1>1, <2>1, Zenon
  <2> HIDE DEF r1
  <2>5. r2 \in Read /\ r2.left = b /\ r2.word = a
    BY <2>2, <2>4, Zenon
  <2> HIDE DEF r2
  <2>6. r3 \in Read /\ r3.left = b /\ r3.word = a
    BY <2>3, <2>5, Zenon
  <2> HIDE DEF r3, r
  <2>7. QED  BY <1>4, <1>5, <2>6
<1> HIDE DEF r, r1, r2, r3, h
<1>7. Served \in Seq(Read) /\ Len(Served) = Len(reads)
      /\ \A i \in 1 .. Len(reads) : Served[i] = IF i = 1 THEN r ELSE reads[i]
  BY <1>1, <1>2, <1>6, ExceptSeq
<1>8. /\ <<r>> \o Tail(reads) \in Seq(Read) /\ Len(<<r>> \o Tail(reads)) = 1 + (Len(reads) - 1)
      /\ \A i \in 1 .. 1 + (Len(reads) - 1) :
           (<<r>> \o Tail(reads))[i] = IF i <= 1 THEN <<r>>[i] ELSE Tail(reads)[i - 1]
  <2>1. <<r>> \in Seq(Read) /\ Len(<<r>>) = 1
    BY <1>6
  <2>2. QED  BY <1>1, <2>1, ConcatProperties
<1>9. ASSUME NEW i \in 1 .. Len(reads) PROVE Served[i] = (<<r>> \o Tail(reads))[i]
  <2>1. CASE i = 1
    BY <1>1, <1>7, <1>8, <2>1
  <2>2. CASE i # 1
    <3>1. i - 1 \in 1 .. Len(reads) - 1 /\ (i - 1) + 1 = i /\ i \in 1 .. 1 + (Len(reads) - 1) /\ ~(i <= 1)
      BY <1>1, <2>2
    <3>2. Tail(reads)[i - 1] = reads[i]
      BY <1>1, <3>1
    <3>3. QED  BY <1>7, <1>8, <2>2, <3>1, <3>2
  <2>3. QED  BY <2>1, <2>2
<1>10. Served = <<r>> \o Tail(reads)
  <2>1. Len(Served) = Len(<<r>> \o Tail(reads))
    BY <1>1, <1>7, <1>8
  <2>2. QED  BY <1>7, <1>8, <1>9, <2>1, SeqEqual
<1>11. QED  BY <1>6, <1>10 DEF r, h

\* ... and the span of it.
ReadsOn(S, word, n, q, loop) ==
  /\ q + 1 \in 1 .. Len(S) /\ S[q + 1].addr = word /\ (S[q + 1].end <=> n = 1)
  /\ n # 1 => /\ FrameAt(S, word + 1, n - 1, q + 1)
              /\ Wrap(loop, Len(S), q + 1) = q + 1
              /\ Wrap(loop, Len(S), (q + 1) + (n - 1)) = Wrap(loop, Len(S), q + n)

LEMMA FrameIsRead ==
  ASSUME NEW S \in Seq(StreamWord), NEW word \in Nat, NEW n \in Nat \ {0}, NEW q \in Nat,
         FrameAt(S, word, n, q), NEW loop
  PROVE  ReadsOn(S, word, n, q, loop)
<1>1. Len(S) \in Nat /\ q + n <= Len(S)
      /\ \A j \in 1 .. n : S[q + j].addr = word + j - 1 /\ (S[q + j].end <=> j = n)
  BY DEF FrameAt
<1>2. q + 1 \in 1 .. Len(S) /\ 1 \in 1 .. n /\ word + 1 - 1 = word
  BY <1>1
<1>3. S[q + 1].addr = word /\ (S[q + 1].end <=> 1 = n)
  BY <1>1, <1>2
<1>4. ASSUME n # 1
      PROVE  /\ FrameAt(S, word + 1, n - 1, q + 1)
             /\ Wrap(loop, Len(S), q + 1) = q + 1
             /\ Wrap(loop, Len(S), (q + 1) + (n - 1)) = Wrap(loop, Len(S), q + n)
  <2>1. (q + 1) + (n - 1) = q + n /\ q + 1 # Len(S)
    BY <1>1, <1>4
  <2>2. ASSUME NEW j \in 1 .. n - 1
        PROVE  S[(q + 1) + j].addr = (word + 1) + j - 1 /\ (S[(q + 1) + j].end <=> j = n - 1)
    <3>0. j \in Int /\ n \in Int /\ q \in Int /\ word \in Int /\ 1 <= j /\ j <= n - 1
      BY <1>4
    <3>1. j + 1 \in 1 .. n
      BY <3>0
    <3>4. q + (j + 1) = (q + 1) + j
      BY <3>0
    <3>5. word + (j + 1) - 1 = (word + 1) + j - 1
      BY <3>0
    <3>6. j + 1 = n <=> j = n - 1
      BY <3>0
    <3>2. S[q + (j + 1)].addr = word + (j + 1) - 1 /\ (S[q + (j + 1)].end <=> j + 1 = n)
      BY <1>1, <3>1, Zenon
    <3>3. QED  BY <3>4, <3>5, <3>6, <3>2, Zenon
  <2>3. (q + 1) + (n - 1) <= Len(S)
    BY <1>1, <2>1
  <2>4. FrameAt(S, word + 1, n - 1, q + 1)
    BY <2>2, <2>3 DEF FrameAt
  <2>5. QED  BY <2>1, <2>4 DEF Wrap
<1>5. QED  BY <1>2, <1>3, <1>4 DEF ReadsOn

LEMMA ServedFlows ==
  ASSUME reads \in Seq(Read), reads # <<>>, NEW slack, NEW loop, NEW k \in Nat, NEW z \in Nat,
         Flow(slack, ReadAt(loop), reads, k, z)
  PROVE  \E m \in Nat : /\ Flow(slack, WordAt(loop), <<Ctrl!WordOf(Completion)>>, k, m)
                        /\ Flow(slack, ReadAt(loop), Served, m, z)
<1> DEFINE h == reads[1]
           w == Ctrl!WordOf(Completion)
           R == ReadAt(loop)
<1>1. h \in Read /\ Head(reads) = h /\ Tail(reads) \in Seq(Read)
  BY Shortened
<1>2. PICK span \in Span : /\ <<h, span>> \in R /\ Reach(slack, k, span.from)
                           /\ Flow(slack, R, Tail(reads), span.to, z)
  <2> HIDE DEF R, h
  <2>1. \E span \in Span : /\ <<Head(reads), span>> \in R /\ Reach(slack, k, span.from)
                            /\ Flow(slack, R, Tail(reads), span.to, z)
    <3>1. Flow(slack, R, reads, k, z)
      BY DEF R
    <3>2. QED  BY <3>1, FlowsPart
  <2>2. QED  BY <1>1, <2>1, Zenon
<1>3. PICK q \in Nat, n \in Nat : q = span.from /\ n = h.left
  BY <1>1 DEF Span, Read
<1>4. h.word \in Nat /\ n \in Nat \ {0} /\ span.to \in Nat
  BY <1>1, <1>3 DEF Read, Span
<1>5. FrameAt(Src, h.word, n, q) /\ span.to = Wrap(loop, Len(Src), q + n)
  BY <1>2, <1>3 DEF ReadAt
<1>6. /\ q + 1 \in 1 .. Len(Src) /\ Src[q + 1].addr = h.word /\ (Src[q + 1].end <=> n = 1)
      /\ n # 1 => /\ FrameAt(Src, h.word + 1, n - 1, q + 1)
                  /\ Wrap(loop, Len(Src), q + 1) = q + 1
                  /\ Wrap(loop, Len(Src), (q + 1) + (n - 1)) = Wrap(loop, Len(Src), q + n)
  <2>1. Src \in Seq(StreamWord)
    BY Streams
  <2> HIDE DEF h
  <2>2. PICK word0 \in Nat : word0 = h.word
    BY <1>4
  <2>3. FrameAt(Src, word0, n, q)
    BY <1>5, <2>2
  <2>4. ReadsOn(Src, word0, n, q, loop)
    BY <1>3, <1>4, <2>1, <2>2, <2>3, FrameIsRead, Zenon
  <2>5. ReadsOn(Src, h.word, n, q, loop)
    BY <2>2, <2>4, Zenon
  <2>6. QED  BY <2>5 DEF ReadsOn
<1>7. w \in Word /\ w.data = h.word /\ w.last = (n = 1)
  <2>1. w \in Word
    BY CompletionType
  <2>2. w.data = h.word /\ w.last = (n = 1)
    BY <1>3 DEF Ctrl!WordOf, Completion
  <2>3. QED  BY <2>1, <2>2
<1> DEFINE m == Wrap(loop, Len(Src), q + 1)
<1>8. m \in Nat
  BY <1>3 DEF Wrap
<1> HIDE DEF m, w, R, h
<1>9. Flow(slack, WordAt(loop), <<w>>, k, m)
  <2> DEFINE one == [from |-> q, to |-> m]
  <2>1. one \in Span /\ one.from = q /\ one.to = m
    BY <1>8 DEF Span
  <2>2. <<w, one>> \in WordAt(loop)
    <3>1. <<w, one>> \in Word \X Span /\ <<w, one>>[1] = w /\ <<w, one>>[2] = one
      BY <1>7, <2>1
    <3>2. Src[q + 1].end \in BOOLEAN
      <4>1. Src[q + 1] \in StreamWord
        BY <1>6, Streams, ElementOfSeq
      <4>2. QED  BY <4>1 DEF StreamWord
    <3>3. w.data = Src[q + 1].addr /\ w.last = Src[q + 1].end
      BY <1>6, <1>7, <3>2
    <3>4. q = (q + 1) - 1
      OBVIOUS
    <3> HIDE DEF one
    <3>5. QED  BY <1>6, <2>1, <3>1, <3>3, <3>4 DEF WordAt, m
  <2>3. Reach(slack, k, one.from) /\ Reach(slack, one.to, m)
    BY <1>2, <1>3, <2>1 DEF Reach
  <2> HIDE DEF one
  <2>4. QED  BY <2>1, <2>2, <2>3, OneFlows
<1>10. CASE n = 1
  <2>1. span.to = m
    BY <1>5, <1>10 DEF m
  <2>2. Served = Tail(reads)
    BY <1>3, <1>10 DEF Served, h
  <2>3. QED  BY <1>2, <1>8, <1>9, <2>1, <2>2 DEF w, R
<1>11. CASE n # 1
  <2>1. PICK r \in Read : r.word = h.word + 1 /\ r.left = n - 1 /\ Served = <<r>> \o Tail(reads)
    BY <1>3, <1>11, ServedIs DEF h
  <2>2. m = q + 1
    BY <1>6, <1>11 DEF m
  <2> DEFINE more == [from |-> m, to |-> span.to]
  <2>3. more \in Span /\ more.from = m /\ more.to = span.to
    BY <1>4, <1>8 DEF Span
  <2> HIDE DEF more
  <2>4. <<r, more>> \in R
    <3>1. <<r, more>> \in Read \X Span /\ <<r, more>>[1] = r /\ <<r, more>>[2] = more
      BY <2>1, <2>3
    <3>2. FrameAt(Src, r.word, r.left, more.from)
      BY <1>6, <1>11, <2>1, <2>2, <2>3
    <3>3. more.to = Wrap(loop, Len(Src), more.from + r.left)
      BY <1>5, <1>6, <1>11, <2>1, <2>2, <2>3
    <3>4. QED  BY <3>1, <3>2, <3>3 DEF ReadAt, R
  <2>5. Flow(slack, R, <<r>>, m, span.to)
    <3>1. Reach(slack, m, more.from) /\ Reach(slack, more.to, span.to)
      BY <2>3 DEF Reach
    <3>2. QED  BY <2>3, <2>4, <3>1, OneFlows
  <2>6. Flow(slack, R, <<r>> \o Tail(reads), m, z)
    <3>1. <<r>> \in Seq(Read)
      BY <2>1
    <3>2. QED  BY <1>1, <1>2, <1>4, <1>8, <2>5, <3>1, FlowsMeet
  <2>7. QED  BY <1>8, <1>9, <2>1, <2>6 DEF w, R
<1>12. QED  BY <1>10, <1>11

\* The words that the bus answers with: one or none.
Answer(cmp) == [i \in DOMAIN Given(cmp) |-> Ctrl!WordOf(Given(cmp)[i])]

LEMMA BusAnswers ==
  ASSUME TypeInv, Room, NEW slack, NEW loop, NEW r_ready, NEW cmp,
         cmp = <<>> \/ (reads # <<>> /\ cmp = <<Completion>>), BusReads(r_ready, cmp),
         NEW z \in Nat, NEW z1 \in Nat,
         IF r_split = "RUN" /\ Ctrl!ReaderReady(r_ready)
         THEN Advances(Src, slack, loop, r_piece.addr \div WordBytes, Ctrl!Words(r_piece.length), z, z1)
         ELSE z1 = z
  PROVE  Answer(cmp) \in Seq(Word) /\ Answered(slack, loop, reads, reads', Answer(cmp), z, z1)
<1> DEFINE R == ReadAt(loop)
           W == WordAt(loop)
           given == Given(cmp)
           rest  == IF given # <<>> THEN Served ELSE reads
           asked == IF Ctrl!Requests /\ r_ready THEN <<Request>> ELSE <<>>
<1>1. reads' = rest \o asked
  BY DEF BusReads, Given
<1>2. reads \in Seq(Read)
  BY DEF TypeInv
<1>3. given = <<>> \/ (reads # <<>> /\ given = <<Completion>>)
  BY DEF Given
<1>4. given = <<>> => Answer(cmp) = <<>> /\ rest = reads
  BY Received DEF Answer
<1>5. given # <<>> => reads # <<>> /\ Answer(cmp) = <<Ctrl!WordOf(Completion)>> /\ rest = Served
  <2>1. given # <<>> => given = <<Completion>> /\ reads # <<>>
    BY <1>3
  <2>2. \A c : given = <<c>> => Answer(cmp) = <<Ctrl!WordOf(c)>>
    BY Received DEF Answer
  <2>3. QED  BY <2>1, <2>2
<1>6. rest \in Seq(Read)
  BY <1>2, <1>4, <1>5, ServedType
<1>7. Answer(cmp) \in Seq(Word)
  <2>1. CASE given = <<>>
    BY <1>4, <2>1, EmptySeq
  <2>2. CASE given # <<>>
    <3>1. Ctrl!WordOf(Completion) \in Word
      BY <1>2, <1>5, <2>2, CompletionType
    <3>2. \A x \in Word : <<x>> \in Seq(Word)
      OBVIOUS
    <3>3. <<Ctrl!WordOf(Completion)>> \in Seq(Word)
      BY <3>1, <3>2, Zenon
    <3>4. QED  BY <1>5, <2>2, <3>3, Zenon
  <2>3. QED  BY <2>1, <2>2
<1>8. asked \in Seq(Read) /\ Flow(slack, R, asked, z, z1)
  <2>1. CASE ~(Ctrl!Requests /\ r_ready)
    <3>1. asked = <<>> /\ z1 = z
      BY <2>1 DEF Ctrl!ReaderReady
    <3>2. Flow(slack, R, <<>>, z, z1)
      BY <3>1, EmptyFlow DEF Reach
    <3>3. QED  BY <3>1, <3>2, EmptySeq
  <2>2. CASE Ctrl!Requests /\ r_ready
    <3>1. r_split = "RUN" /\ Ctrl!ReaderReady(r_ready) /\ asked = <<Request>>
      BY <2>2 DEF Room, Ctrl!Requests, Ctrl!ReaderReady
    <3>2. Request \in Read /\ Request.word = r_piece.addr \div WordBytes
          /\ Request.left = Ctrl!Words(r_piece.length)
      BY <3>1, RequestType DEF Request
    <3>3. PICK q \in Nat : /\ Reach(slack, z, q) /\ FrameAt(Src, Request.word, Request.left, q)
                           /\ z1 = Wrap(loop, Len(Src), q + Request.left)
      BY <3>1, <3>2 DEF Advances
    <3> DEFINE span == [from |-> q, to |-> z1]
    <3>4. span \in Span /\ span.from = q /\ span.to = z1
      BY DEF Span
    <3> HIDE DEF span
    <3>5. <<Request, span>> \in R
      <4>1. <<Request, span>> \in Read \X Span /\ <<Request, span>>[1] = Request
            /\ <<Request, span>>[2] = span
        BY <3>2, <3>4
      <4>2. QED  BY <3>3, <3>4, <4>1 DEF ReadAt
    <3>6. Reach(slack, span.to, z1)
      BY <3>4 DEF Reach
    <3>7. Flow(slack, R, <<Request>>, z, z1)
      BY <3>3, <3>4, <3>5, <3>6, OneFlows
    <3>8. <<Request>> \in Seq(Read)
      BY <3>2
    <3>9. QED  BY <3>1, <3>7, <3>8
  <2>3. QED  BY <2>1, <2>2
<1>9. ASSUME NEW k \in Nat, Flow(slack, R, reads, k, z)
      PROVE  \E m \in Nat : Flow(slack, W, Answer(cmp), k, m) /\ Flow(slack, R, reads', m, z1)
  <2>1. PICK m \in Nat : Flow(slack, W, Answer(cmp), k, m) /\ Flow(slack, R, rest, m, z)
    <3>1. CASE given = <<>>
      <4>1. Flow(slack, W, <<>>, k, k)
        BY EmptyFlow DEF Reach
      <4>2. QED  BY <1>4, <1>9, <3>1, <4>1
    <3>2. CASE given # <<>>
      <4>1. \E m \in Nat : /\ Flow(slack, W, <<Ctrl!WordOf(Completion)>>, k, m)
                           /\ Flow(slack, R, Served, m, z)
        BY <1>2, <1>5, <1>9, <3>2, ServedFlows
      <4>2. QED  BY <1>5, <3>2, <4>1
    <3>3. QED  BY <3>1, <3>2
  <2> HIDE DEF rest, asked, R, W
  <2>2. Flow(slack, R, rest \o asked, m, z1)
    BY <1>6, <1>8, <2>1, FlowsMeet
  <2>3. QED  BY <1>1, <2>1, <2>2
<1>10. QED  BY <1>7, <1>9 DEF Answered

-----------------------------------------------------------------------------
(* The writer's side of the bus.                                               *)

\* The word in front: its place in the stream, and where the others go on.
WordIsAt(slack, loop, w, pos, a, k) ==
  /\ pos \in 1 .. Len(Src)
  /\ Head(w).data = Src[pos].addr /\ Head(w).last = Src[pos].end
  /\ Reach(slack, a, pos - 1)
  /\ Flow(slack, WordAt(loop), Tail(w), Wrap(loop, Len(Src), pos), k)
  /\ Flow(slack, WordAt(loop), w, pos - 1, k)

LEMMA HeadIsAt ==
  ASSUME NEW slack, NEW loop, NEW w \in Seq(Word), w # <<>>, NEW a \in Nat, NEW k \in Nat,
         Flow(slack, WordAt(loop), w, a, k)
  PROVE  WordIsAt(slack, loop, w, Position(Head(w).data), a, k)
<1> DEFINE W == WordAt(loop)
           h == Head(w)
<1>1. PICK span \in Span : /\ <<Head(w), span>> \in W /\ Reach(slack, a, span.from)
                           /\ Flow(slack, W, Tail(w), span.to, k)
  <2> HIDE DEF W
  <2>1. Flow(slack, W, w, a, k)
    BY DEF W
  <2>2. QED  BY <2>1, FlowsPart
<1>2. PICK pos \in 1 .. Len(Src) :
        /\ h.data = Src[pos].addr /\ h.last = Src[pos].end
        /\ span.from = pos - 1 /\ span.to = Wrap(loop, Len(Src), pos)
  BY <1>1 DEF WordAt
<1>3. Position(h.data) = pos
  BY <1>2, PositionIs
<1>4. pos - 1 \in Nat /\ Wrap(loop, Len(Src), pos) \in Nat
  BY <1>2 DEF Wrap
<1> HIDE DEF W, h
<1>5. Flow(slack, W, w, pos - 1, k)
  <2>1. Reach(slack, pos - 1, span.from) /\ Reach(slack, span.to, span.to)
    BY <1>2 DEF Reach
  <2>2. Flow(slack, W, <<Head(w)>>, pos - 1, span.to)
    BY <1>1, <2>1, OneFlows
  <2>3. <<Head(w)>> \in Seq(Word) /\ Tail(w) \in Seq(Word) /\ w = <<Head(w)>> \o Tail(w)
    <3>1. Head(w) \in Word /\ Tail(w) \in Seq(Word)
      BY Shortened
    <3>2. <<Head(w)>> \in Seq(Word) /\ Len(<<Head(w)>>) = 1 /\ <<Head(w)>>[1] = Head(w)
      BY <3>1
    <3>3. w = <<Head(w)>> \o Tail(w)
      BY HeadTailProperties
    <3>4. QED  BY <3>1, <3>2, <3>3
  <2>4. span.to \in Nat
    BY <1>2, <1>4
  <2>5. Flow(slack, W, <<Head(w)>> \o Tail(w), pos - 1, k)
    BY <1>1, <1>4, <2>2, <2>3, <2>4, FlowsMeet
  <2>6. QED  BY <2>3, <2>5
<1>6. QED  BY <1>1, <1>2, <1>3, <1>5 DEF WordIsAt, W, h

LEMMA WriterHolds ==
  ASSUME TypeInv, Data, w_state = "WRITE"
  PROVE  /\ w_split = "RUN" /\ w_piece \in Piece /\ w_left \in Nat \ {0}
         /\ Ctrl!Words(w_piece.length) \in Nat \ {0} /\ req_count \in Nat
         /\ req_count < Ctrl!Words(w_piece.length) /\ w_fifo # <<>>
<1> DEFINE n == Ctrl!Words(w_piece.length)
<1>1. w_split = "RUN" /\ req_count < n /\ n - req_count <= Len(w_fifo)
  BY DEF Data
<1>2. w_piece \in Piece /\ w_left \in Nat \ {0} /\ req_count \in Nat /\ w_fifo \in Seq(Word)
  BY <1>1 DEF TypeInv, Cut
<1>3. w_piece.length \in 1 .. MaxSize
  BY <1>2 DEF Piece
<1>4. n \in 1 .. MaxWords /\ MaxWords \in Nat
  BY <1>3, WordsOfPiece, SizesAssumption
<1> HIDE DEF n
<1>5. Len(w_fifo) # 0 /\ n \in Nat \ {0}
  BY <1>1, <1>2, <1>4
<1>6. QED  BY <1>1, <1>2, <1>5 DEF n

\* What the writer's FIFO holds after the bus has taken what it takes.
Left(w_ready) ==
  Keep(Ctrl!Writes /\ w_ready /\ Ctrl!Pops(w_piece.length, nolast), w_fifo)

LEMMA BusTakes ==
  ASSUME TypeInv, Data, from \in Nat, NEW slack, NEW w_ready, BusWrites(w_ready)
  PROVE  /\ Left(w_ready) \in Seq(Word)
         /\ (\E k \in Nat : Flow(slack, WordAt(setup.loop), w_fifo, from, k)) => from' \in Nat
         /\ Written(slack, setup.loop, w_fifo, Left(w_ready), from, from')
<1> DEFINE W == WordAt(setup.loop)
<1>1. w_fifo \in Seq(Word)
  BY DEF TypeInv
<1>2. CASE ~(Ctrl!Writes /\ w_ready)
  <2>1. Left(w_ready) = w_fifo /\ from' = from
    BY <1>2 DEF Left, Keep, BusWrites
  <2>2. QED  BY <1>1, <2>1 DEF Written
<1>3. CASE Ctrl!Writes /\ w_ready
  <2>1. w_fifo # <<>>
    BY <1>3, WriterHolds DEF Ctrl!Writes
  <2> DEFINE pos == Position(Head(w_fifo).data)
             pops == Ctrl!Pops(w_piece.length, nolast)
  <2>2. from' = IF pops THEN After(pos - 1, Len(Src)) ELSE pos - 1
    BY <1>3 DEF BusWrites
  <2>3. Left(w_ready) = IF pops THEN Tail(w_fifo) ELSE w_fifo
    BY <1>3 DEF Left, Keep
  <2>4. Tail(w_fifo) \in Seq(Word)
    BY <1>1, <2>1, Shortened
  <2> HIDE DEF pops, pos
  <2>5. ASSUME NEW k \in Nat, Flow(slack, W, w_fifo, from, k)
        PROVE  from' \in Nat /\ Flow(slack, W, Left(w_ready), from', k)
    <3>1. WordIsAt(slack, setup.loop, w_fifo, pos, from, k)
      BY <1>1, <2>1, <2>5, HeadIsAt DEF pos
    <3>2. /\ pos \in 1 .. Len(Src)
          /\ Flow(slack, W, Tail(w_fifo), Wrap(setup.loop, Len(Src), pos), k)
          /\ Flow(slack, W, w_fifo, pos - 1, k)
      BY <3>1 DEF WordIsAt
    <3>3. After(pos - 1, Len(Src)) = Wrap(setup.loop, Len(Src), pos)
      <4>1. (pos - 1) + 1 = pos
        BY <3>2
      <4>2. QED  BY <4>1 DEF After, Wrap
    <3>4. Wrap(setup.loop, Len(Src), pos) \in Nat /\ pos - 1 \in Nat
      BY <3>2 DEF Wrap
    <3> HIDE DEF W
    <3>5. CASE pops
      BY <2>2, <2>3, <3>2, <3>3, <3>4, <3>5
    <3>6. CASE ~pops
      BY <2>2, <2>3, <3>2, <3>4, <3>6
    <3>7. QED  BY <3>5, <3>6
  <2>6. Left(w_ready) \in Seq(Word)
    BY <1>1, <2>3, <2>4
  <2>7. QED  BY <2>5, <2>6 DEF Written
<1>4. QED  BY <1>2, <1>3

(* The writer writes the words of its piece from p on: so far, req_count.      *)
Anchored(p) == to = IF w_state = "WRITE" THEN p + req_count ELSE p

\* The piece is where the stream says.
WriteComing(loop, turning, p) ==
  Coming(Dst, WriteDescs, FALSE, loop, turning, w_table, w_refill, w_split, w_piece, w_left,
         programmed[2], p)

LEMMA PieceIsAt ==
  ASSUME TypeInv, NEW loop, NEW turning, NEW p, WriteComing(loop, turning, p), w_split = "RUN"
  PROVE  FrameAt(Dst, w_piece.addr \div WordBytes, Ctrl!Words(w_piece.length), p)
<1>1. w_piece \in Piece /\ w_left \in Nat \ {0}
  BY DEF TypeInv, Cut
<1>2. PICK q \in Nat, s \in Nat, e \in Nat :
        /\ Reach(FALSE, p, q)
        /\ ComingRun(Dst, WriteDescs, FALSE, loop, turning, w_table, w_refill, w_piece.addr, w_left,
                     programmed[2], q, s, e)
  BY DEF WriteComing, Coming
<1>3. PieceFrom(w_piece.addr, w_left, w_piece)
  BY DEF WriteComing, Coming
<1>4. Listed(Dst, WriteDescs)
  BY Streams DEF Listed, WBase
<1>5. FrameAt(Dst, w_piece.addr \div WordBytes, Ctrl!Words(w_piece.length), q)
  BY <1>1, <1>2, <1>3, <1>4, OfferedIsFrame, Zenon
<1>6. q = p
  BY <1>2 DEF Reach
<1>7. QED  BY <1>5, <1>6

LEMMA AnchorMoves ==
  ASSUME TypeInv, Data, NEW turning, NEW p \in Nat, to \in Nat,
         WriteComing(setup.loop, turning, p), Anchored(p),
         NEW in, NEW w_ready,
         Ctrl!WriterStep(on, WPath!Offers, w_piece.length, nolast, in, w_ready), BusWrites(w_ready),
         NEW next \in Nat,
         IF w_split = "RUN" /\ Ctrl!WriterReady(w_piece.length, w_ready)
         THEN Advances(Dst, FALSE, setup.loop, w_piece.addr \div WordBytes, Ctrl!Words(w_piece.length),
                       p, next)
         ELSE next = p
  PROVE  to' = IF w_state' = "WRITE" THEN next + req_count' ELSE next
<1>1. CASE w_state = "IDLE"
  <2>1. ~Ctrl!WriterReady(w_piece.length, w_ready) /\ ~Ctrl!Writes
    BY <1>1 DEF Ctrl!WriterReady, Ctrl!Writes
  <2>2. next = p /\ to' = to /\ to = p
    BY <1>1, <2>1 DEF BusWrites, Anchored
  <2>3. req_count' = 0
    BY <1>1 DEF Ctrl!WriterStep
  <2>4. QED  BY <2>2, <2>3
<1>2. CASE w_state = "WRITE" /\ ~w_ready
  <2>1. ~Ctrl!WriterReady(w_piece.length, w_ready)
    BY <1>2 DEF Ctrl!WriterReady
  <2>2. next = p /\ to' = to /\ to = p + req_count
    BY <1>2, <2>1 DEF BusWrites, Anchored
  <2>3. w_state' = w_state /\ req_count' = req_count
    BY <1>2 DEF Ctrl!WriterStep
  <2>4. QED  BY <1>2, <2>2, <2>3
<1>3. CASE w_state = "WRITE" /\ w_ready
  <2> DEFINE n == Ctrl!Words(w_piece.length)
             length == w_piece.length
             N == Len(Dst)
             a == w_piece.addr \div WordBytes
  <2>1. /\ w_split = "RUN" /\ n \in Nat \ {0} /\ req_count \in Nat /\ req_count < n
    BY <1>3, WriterHolds
  <2>2. FrameAt(Dst, a, n, p)
    BY <2>1, PieceIsAt
  <2>3. N \in Nat /\ p + n <= N
    BY <2>2, Streams DEF FrameAt
  <2>4. to = p + req_count /\ to' = After(to, N)
    BY <1>3 DEF Anchored, BusWrites, Ctrl!Writes
  <2>5. /\ req_count' = req_count + 1
        /\ w_state' = IF Ctrl!ReqLast(length) THEN "IDLE" ELSE "WRITE"
    BY <1>3 DEF Ctrl!WriterStep
  <2>6. Ctrl!ReqLast(length) <=> req_count = n - 1
    BY DEF Ctrl!ReqLast
  <2>7. Ctrl!WriterReady(length, w_ready) <=> Ctrl!ReqLast(length)
    BY <1>3 DEF Ctrl!WriterReady, Ctrl!Writes
  <2>8. Ctrl!ReqLast(length) => \E q \in Nat : Reach(FALSE, p, q) /\ next = Wrap(setup.loop, N, q + n)
    BY <2>1, <2>7 DEF Advances
  <2>9. ~Ctrl!ReqLast(length) => next = p
    BY <2>7
  <2> HIDE DEF n, N, length, a
  <2>10. CASE Ctrl!ReqLast(length)
    <3>1. next = Wrap(setup.loop, N, p + n)
      BY <2>8, <2>10 DEF Reach
    <3>2. (p + req_count) + 1 = p + n
      BY <2>1, <2>6, <2>10
    <3>3. After(to, N) = Wrap(setup.loop, N, p + n)
      BY <2>4, <3>2 DEF After, Wrap
    <3>4. QED  BY <2>4, <2>5, <2>10, <3>1, <3>3
  <2>11. CASE ~Ctrl!ReqLast(length)
    <3>1. (p + req_count) + 1 # N
      BY <2>1, <2>3, <2>6, <2>11
    <3>2. After(to, N) = (p + req_count) + 1
      BY <2>4, <3>1 DEF After
    <3>3. p + (req_count + 1) = (p + req_count) + 1
      BY <2>1
    <3>4. QED  BY <2>4, <2>5, <2>9, <2>11, <3>2, <3>3
  <2>12. QED  BY <2>10, <2>11
<1>4. w_state \in {"IDLE", "WRITE"}
  BY DEF TypeInv
<1>5. QED  BY <1>1, <1>2, <1>3, <1>4

\* What the bus writes is the next word of the stream.
LEMMA StreamWrites ==
  ASSUME TypeInv, Data, from \in Nat, to \in Nat, NEW turning, NEW p \in Nat,
         WriteComing(setup.loop, turning, p), Anchored(p),
         NEW k \in Nat, Flow(stopped, WordAt(setup.loop), w_fifo, from, k),
         NEW w_ready, BusWrites(w_ready)
  PROVE  (\E i \in 0 .. Len(Src) - 1 : Stream!WriteWord(i)) \/ UNCHANGED <<mem, from, to>>
<1>1. CASE ~(Ctrl!Writes /\ w_ready)
  BY <1>1 DEF BusWrites
<1>2. CASE Ctrl!Writes /\ w_ready
  <2> DEFINE n == Ctrl!Words(w_piece.length)
             N == Len(Dst)
             a == w_piece.addr \div WordBytes
             word == Head(w_fifo).data
             pos == Position(word)
             pops == Ctrl!Pops(w_piece.length, nolast)
             last == Ctrl!ReqLast(w_piece.length)
  <2>1. w_state = "WRITE"
    BY <1>2 DEF Ctrl!Writes
  <2>2. /\ w_split = "RUN" /\ n \in Nat \ {0} /\ req_count \in Nat /\ req_count < n
        /\ w_fifo # <<>>
    BY <2>1, WriterHolds
  <2>3. FrameAt(Dst, a, n, p)
    BY <2>2, PieceIsAt
  <2>4. to = p + req_count
    BY <2>1 DEF Anchored
  <2>5. WordIsAt(stopped, setup.loop, w_fifo, pos, from, k)
    BY <2>2, HeadIsAt DEF TypeInv
  <2>6. /\ mem' = [mem EXCEPT ![a + req_count] = word]
        /\ from' = IF pops THEN After(pos - 1, Len(Src)) ELSE pos - 1
        /\ to' = After(to, N)
    BY <1>2 DEF BusWrites
  <2>7. last <=> req_count = n - 1
    BY DEF Ctrl!ReqLast
  <2>8. pops <=> last \/ ~(Head(w_fifo).last /\ ~nolast)
    BY DEF Ctrl!Pops, Ctrl!Terminate
  <2>9. N \in Nat /\ Len(Src) \in Nat
    BY Streams
  <2>10. p + n <= N /\ \A j \in 1 .. n : Dst[p + j].addr = a + j - 1 /\ (Dst[p + j].end <=> j = n)
    BY <2>3 DEF FrameAt
  <2>11. /\ pos \in 1 .. Len(Src) /\ word = Src[pos].addr /\ Head(w_fifo).last = Src[pos].end
         /\ Reach(stopped, from, pos - 1)
    BY <2>5 DEF WordIsAt
  <2>0. a \in Nat
    <3>1. w_piece.addr \in Nat
      BY <2>1, WriterHolds DEF Piece
    <3>2. QED  BY <3>1, SizesAssumption
  <2> HIDE DEF n, N, a, word, pos, pops, last
  <2>12. to < N /\ to + 1 = p + (req_count + 1) /\ req_count + 1 \in 1 .. n
    BY <2>2, <2>4, <2>9, <2>10
  <2>13. Dst[to + 1].addr = a + req_count /\ (Dst[to + 1].end <=> last)
    <3>1. a + (req_count + 1) - 1 = a + req_count
      BY <2>0, <2>2
    <3>2. req_count + 1 = n <=> last
      BY <2>2, <2>7
    <3>3. /\ Dst[p + (req_count + 1)].addr = a + (req_count + 1) - 1
          /\ (Dst[p + (req_count + 1)].end <=> req_count + 1 = n)
      BY <2>10, <2>12, Zenon
    <3>4. QED  BY <2>12, <3>1, <3>2, <3>3, Zenon
  <2>14. pos - 1 \in 0 .. Len(Src) - 1 /\ pos - 1 < Len(Src) /\ (pos - 1) + 1 = pos
    BY <2>9, <2>11
  <2>15. pos - 1 = from \/ (stopped /\ pos - 1 > from)
    BY <2>11 DEF Reach
  <2>16. pops <=> ~(Src[pos].end /\ ~nolast /\ ~Dst[to + 1].end)
    BY <2>8, <2>11, <2>13
  <2>17. \A i, m : Stream!After(i, m) = After(i, m)
    BY DEF Stream!After, After
  <2> DEFINE i == pos - 1
  <2>18. i \in 0 .. Len(Src) - 1 /\ i < Len(Src) /\ i + 1 = pos
    BY <2>14
  <2>19. i = from \/ (stopped /\ i > from)
    BY <2>15
  <2>20. mem' = [mem EXCEPT ![Dst[to + 1].addr] = Src[i + 1].addr]
    BY <2>6, <2>11, <2>13, <2>18
  <2>21. to' = Stream!After(to, Len(Dst))
    BY <2>6, <2>17 DEF N
  <2>22. from' = IF Src[i + 1].end /\ ~nolast /\ ~Dst[to + 1].end THEN i
                 ELSE Stream!After(i, Len(Src))
    BY <2>6, <2>16, <2>17, <2>18
  <2> HIDE DEF i
  <2>23. Stream!WriteWord(i)
    BY <2>12, <2>18, <2>19, <2>20, <2>21, <2>22 DEF Stream!WriteWord, N
  <2>24. QED  BY <2>18, <2>23
<1>3. QED  BY <1>1, <1>2

-----------------------------------------------------------------------------
(* The refinement.                                                             *)

\* The descriptors and words that are to be read and written: they are on their
\* way, one after the other.
WordsComing(z) == Line(stopped, setup.loop, w_fifo, wbuf, rbuf, r_fifo, reads, from, z)

ReadComing(z) ==
  Coming(Src, ReadDescs, stopped, setup.loop, on, r_table, r_refill, r_split, r_piece, r_left,
         programmed[1], z)

\* A loop that has not been started.
NotStarted ==
  /\ setup.loop /\ ~synced /\ r_state = "IDLE" /\ w_state = "IDLE"
  /\ r_fifo = <<>> /\ w_fifo = <<>> /\ rbuf = <<>> /\ wbuf = <<>> /\ reads = <<>>

Switches ==
  /\ setup \in Setups /\ stopped \in BOOLEAN /\ (stopped => ~setup.loop)
  /\ ~setup.buffered \/ (~stopped /\ ~synced) => rbuf = <<>> /\ wbuf = <<>>
  /\ synced => setup.mode # "off"
  /\ ~stopped /\ ~on => NotStarted

StreamInv ==
  /\ Switches /\ from \in Nat /\ to \in Nat
  /\ \E z \in Nat : WordsComing(z) /\ ReadComing(z)
  /\ \E p \in Nat : WriteComing(setup.loop, on, p) /\ Anchored(p)

\* A step, with its inputs.
Cycle(r_we, w_we, reset, enable, r_ready, w_ready, cmp, pps) ==
  /\ r_we \in Strobes(ReadDescs, programmed[1], r_refill)
  /\ w_we \in Strobes(WriteDescs, programmed[2], w_refill)
  /\ enable \in Enables /\ reset \in Resets /\ r_ready \in BOOLEAN /\ w_ready \in BOOLEAN
  /\ cmp = <<>> \/ (reads # <<>> /\ cmp = <<Completion>>)
  /\ Software(r_we, w_we, reset, enable)
  /\ Clock(r_we, w_we, reset, r_ready, w_ready, cmp, pps)

LEMMA NextCycles ==
  ASSUME Next
  PROVE  \E r_we, w_we, reset, enable, r_ready, w_ready, cmp, pps :
           Cycle(r_we, w_we, reset, enable, r_ready, w_ready, cmp, pps)
<1>1. PICK r_we \in Strobes(ReadDescs, programmed[1], r_refill),
           w_we \in Strobes(WriteDescs, programmed[2], w_refill),
           enable \in Enables, reset \in Resets,
           r_ready \in Maybe(Ctrl!Requests), w_ready \in Maybe(Ctrl!Writes),
           answers \in Maybe(reads # <<>>), pps \in Maybe(~synced) :
        /\ Software(r_we, w_we, reset, enable)
        /\ Clock(r_we, w_we, reset, r_ready, w_ready, IF answers THEN <<Completion>> ELSE <<>>, pps)
  BY DEF Next
<1> DEFINE cmp == IF answers THEN <<Completion>> ELSE <<>>
<1>2. r_ready \in BOOLEAN /\ w_ready \in BOOLEAN /\ (answers => reads # <<>>)
  BY DEF Maybe
<1>3. cmp = <<>> \/ (reads # <<>> /\ cmp = <<Completion>>)
  BY <1>2
<1> HIDE DEF cmp
<1>4. Clock(r_we, w_we, reset, r_ready, w_ready, cmp, pps)
  BY <1>1 DEF cmp
<1>5. Cycle(r_we, w_we, reset, enable, r_ready, w_ready, cmp, pps)
  BY <1>1, <1>2, <1>3, <1>4 DEF Cycle
<1>6. QED  BY <1>5

\* What software does in a step.
LEMMA SoftwareDoes ==
  ASSUME TypeInv, Switches, NEW r_we, NEW w_we, NEW reset, NEW enable, NEW r_ready, NEW w_ready,
         NEW cmp, NEW pps, Cycle(r_we, w_we, reset, enable, r_ready, w_ready, cmp, pps)
  PROVE  /\ setup' = setup /\ setup.loop \in BOOLEAN /\ on' \in BOOLEAN /\ stopped' \in BOOLEAN
         /\ (stopped => stopped') /\ (stopped' => ~setup.loop) /\ (on /\ ~stopped' => on')
         /\ TableReset(reset) \in BOOLEAN /\ (TableReset(reset) => stopped)
         /\ (setup.loop /\ on => on') /\ (setup.loop /\ on' /\ ~on => AllProgrammed)
         /\ programmed' = <<programmed[1] + Len(r_we), programmed[2] + Len(w_we)>>
<1>1. /\ setup' = setup /\ on' = enable /\ stopped' = (stopped \/ (on /\ ~enable))
      /\ programmed' = <<programmed[1] + Len(r_we), programmed[2] + Len(w_we)>>
      /\ enable \in Enables /\ reset \in Resets
  BY DEF Cycle, Software
<1>2. /\ setup.loop \in BOOLEAN /\ setup.restarts \in BOOLEAN /\ ~(setup.loop /\ setup.restarts)
  BY SetupsAssumption DEF Switches
<1>3. enable \in BOOLEAN /\ reset \in BOOLEAN /\ on \in BOOLEAN /\ stopped \in BOOLEAN
  BY <1>1 DEF Enables, Resets, TypeInv, Switches
<1>4. on /\ ~enable => setup.restarts
  BY <1>1 DEF Enables
<1>5. reset => setup.restarts /\ ~on
  BY <1>1 DEF Resets
<1>6. setup.loop /\ enable /\ ~on => AllProgrammed
  BY <1>1 DEF Enables
<1>7. reset => stopped
  BY <1>2, <1>5 DEF Switches, NotStarted
<1>8. TableReset(reset) \in BOOLEAN /\ (TableReset(reset) => stopped)
  BY <1>3, <1>7 DEF TableReset
<1>9. QED  BY <1>1, <1>2, <1>3, <1>4, <1>6, <1>8 DEF Switches

\* What leaves the reader's FIFO, the buffers and what enters the writer's FIFO.
Sent == r_fifo # <<>> /\ SinkReady(Ctrl!InReady(on))
Through == rbuf # <<>> /\ Len(wbuf) < BufferDepth
Leaves == wbuf # <<>> /\ (synced => Ctrl!InReady(on))

Offered == IF r_fifo # <<>> THEN <<Head(r_fifo)>> ELSE <<>>
Accepted == IF Ctrl!InReady(on) THEN Source(Offered) ELSE <<>>

LEMMA AcceptedIs ==
  ASSUME TypeInv, Switches
  PROVE  /\ setup.buffered => AllOrNone(stopped, Out(Leaves, wbuf), Accepted)
         /\ ~setup.buffered => Accepted = Out(Sent, r_fifo)
<1>1. ASSUME setup.buffered, synced
      PROVE  Accepted = Out(Leaves, wbuf)
  BY <1>1 DEF Accepted, Source, Out, Leaves
<1>2. ASSUME setup.buffered, ~synced
      PROVE  Accepted = <<>> /\ (~stopped => Out(Leaves, wbuf) = <<>>)
  BY <1>2 DEF Accepted, Source, Out, Leaves, Switches
<1>3. stopped \in BOOLEAN
  BY DEF Switches
<1>4. setup.buffered => AllOrNone(stopped, Out(Leaves, wbuf), Accepted)
  BY <1>1, <1>2, <1>3 DEF AllOrNone
<1>5. ASSUME ~setup.buffered
      PROVE  Accepted = Out(Sent, r_fifo)
  BY <1>5 DEF Accepted, Source, Out, Sent, SinkReady, Offered
<1>6. QED  BY <1>4, <1>5

LEMMA LeftIsSeq ==
  ASSUME TypeInv, Data, NEW w_ready
  PROVE  Left(w_ready) \in Seq(Word)
<1>1. w_fifo \in Seq(Word)
  BY DEF TypeInv
<1>2. Ctrl!Writes => w_fifo # <<>>
  BY WriterHolds DEF Ctrl!Writes
<1>3. w_fifo # <<>> => Tail(w_fifo) \in Seq(Word)
  BY <1>1, Shortened
<1>4. QED  BY <1>1, <1>2, <1>3 DEF Left, Keep

\* What a step makes of the FIFOs and buffers.
LEMMA FifosAre ==
  ASSUME TypeInv, Data, Switches, NEW r_we, NEW w_we, NEW reset, NEW enable, NEW r_ready, NEW w_ready,
         NEW cmp, NEW pps, Cycle(r_we, w_we, reset, enable, r_ready, w_ready, cmp, pps)
  PROVE  /\ on => r_fifo' = Keep(Sent, r_fifo) \o Answer(cmp) /\ w_fifo' = Left(w_ready) \o Accepted
         /\ on /\ setup.buffered => /\ rbuf' = Keep(Through, rbuf) \o Out(Sent, r_fifo)
                                    /\ wbuf' = Keep(Leaves, wbuf) \o Out(Through, rbuf)
         /\ on /\ ~setup.buffered => rbuf' = <<>> /\ wbuf' = <<>>
         /\ ~on => /\ rbuf' = <<>> /\ wbuf' = <<>>
                   /\ r_fifo' = Keep(Sent, r_fifo) \/ r_fifo' = <<>>
                   /\ w_fifo' = Left(w_ready) \/ w_fifo' = <<>>
<1> DEFINE in_ready == Ctrl!InReady(on)
<1>1. /\ Ctrl!ReaderStep(on, RPath!Offers, r_piece.length, r_ready, cmp, SinkReady(in_ready))
      /\ PluginsStep(pps, Offered, in_ready)
      /\ Ctrl!WriterStep(on, WPath!Offers, w_piece.length, nolast, Source(Offered), w_ready)
  BY DEF Cycle, Clock, Offered
<1>2. /\ on \in BOOLEAN /\ r_fifo \in Seq(Word) /\ w_fifo \in Seq(Word) /\ rbuf \in Seq(Word)
      /\ wbuf \in Seq(Word) /\ w_state \in {"IDLE", "WRITE"}
  BY DEF TypeInv
<1>3. r_fifo' = IF on THEN Keep(Sent, r_fifo) \o Answer(cmp)
                ELSE IF r_state = "IDLE" THEN <<>> ELSE Keep(Sent, r_fifo)
  BY <1>1 DEF Ctrl!ReaderStep, Keep, Sent, Answer, Given
<1>4. w_state = "IDLE" => w_fifo' = IF on THEN Left(w_ready) \o Accepted ELSE <<>>
  BY <1>1 DEF Ctrl!WriterStep, Keep, Left, Accepted, Ctrl!Writes
<1>5. w_state = "WRITE" /\ ~w_ready => w_fifo' = Left(w_ready) \o (IF on THEN Accepted ELSE <<>>)
  BY <1>1 DEF Ctrl!WriterStep, Keep, Left, Accepted, Ctrl!Writes
<1>6. w_state = "WRITE" /\ w_ready => w_fifo' = Left(w_ready) \o (IF on THEN Accepted ELSE <<>>)
  BY <1>1 DEF Ctrl!WriterStep, Keep, Left, Accepted, Ctrl!Writes
<1>7. Left(w_ready) \o <<>> = Left(w_ready)
  BY LeftIsSeq, ConcatEmptySeq
<1>8. /\ on => w_fifo' = Left(w_ready) \o Accepted
      /\ ~on => w_fifo' = Left(w_ready) \/ w_fifo' = <<>>
  BY <1>2, <1>4, <1>5, <1>6, <1>7
<1>9. ASSUME on, setup.buffered
      PROVE  /\ rbuf' = Keep(Through, rbuf) \o Out(Sent, r_fifo)
             /\ wbuf' = Keep(Leaves, wbuf) \o Out(Through, rbuf)
  <2> DEFINE enters  == IF setup.buffered /\ SinkReady(in_ready) THEN Offered ELSE <<>>
             through == IF rbuf # <<>> /\ Len(wbuf) < BufferDepth THEN <<Head(rbuf)>> ELSE <<>>
             leaves  == wbuf # <<>> /\ (synced => in_ready)
  <2>1. /\ rbuf' = (IF through # <<>> THEN Tail(rbuf) ELSE rbuf) \o enters
        /\ wbuf' = (IF leaves THEN Tail(wbuf) ELSE wbuf) \o through
    BY <1>1, <1>9 DEF PluginsStep
  <2>2. enters = Out(Sent, r_fifo)
    BY <1>9 DEF Out, Sent, Offered
  <2>3. through = Out(Through, rbuf) /\ (IF through # <<>> THEN Tail(rbuf) ELSE rbuf) = Keep(Through, rbuf)
    BY DEF Out, Through, Keep
  <2>4. (IF leaves THEN Tail(wbuf) ELSE wbuf) = Keep(Leaves, wbuf)
    BY DEF Keep, Leaves
  <2> HIDE DEF enters, through, leaves
  <2>5. QED  BY <2>1, <2>2, <2>3, <2>4
<1>10. on /\ ~setup.buffered => rbuf' = <<>> /\ wbuf' = <<>>
  <2>1. <<>> \o <<>> = <<>>
    BY EmptySeq, ConcatEmptySeq
  <2>2. QED  BY <1>1, <2>1 DEF PluginsStep, Switches
<1>11. ~on => rbuf' = <<>> /\ wbuf' = <<>>
  BY <1>1 DEF PluginsStep
<1>12. QED  BY <1>2, <1>3, <1>8, <1>9, <1>10, <1>11

LEMMA SwitchesStep ==
  ASSUME TypeInv, Data, Switches,
         NEW r_we, NEW w_we, NEW reset, NEW enable, NEW r_ready, NEW w_ready,
         NEW cmp, NEW pps, Cycle(r_we, w_we, reset, enable, r_ready, w_ready, cmp, pps)
  PROVE  Switches'
<1> DEFINE in_ready == Ctrl!InReady(on)
<1>1. /\ Ctrl!ReaderStep(on, RPath!Offers, r_piece.length, r_ready, cmp, SinkReady(in_ready))
      /\ PluginsStep(pps, Offered, in_ready)
      /\ Ctrl!WriterStep(on, WPath!Offers, w_piece.length, nolast, Source(Offered), w_ready)
      /\ BusReads(r_ready, cmp)
  BY DEF Cycle, Clock, Offered
<1>2. /\ setup' = setup /\ on' \in BOOLEAN /\ stopped' \in BOOLEAN
      /\ (stopped => stopped') /\ (stopped' => ~setup.loop) /\ (on /\ ~stopped' => on')
  BY SoftwareDoes
<1>3. on \in BOOLEAN /\ stopped \in BOOLEAN /\ setup \in Setups
  BY DEF TypeInv, Switches
<1>4. setup.mode \in {"bypass", "off", "both", "pps"}
  BY <1>3, SetupsAssumption
<1>5. synced' = SyncNext(pps, Offered # <<>>)
  BY <1>1 DEF PluginsStep
<1>6. ~on => ~synced'
  BY <1>5 DEF SyncNext, mode
<1>7. on /\ synced' => setup.mode # "off"
  BY <1>5 DEF SyncNext, mode
<1>8. on /\ synced => synced'
  BY <1>4, <1>5 DEF SyncNext, mode, Switches
<1>9. ~on => rbuf' = <<>> /\ wbuf' = <<>>
  BY FifosAre
<1>10. ~setup.buffered => rbuf' = <<>> /\ wbuf' = <<>>
  BY <1>9, FifosAre
<1>11. ASSUME on, setup.buffered, ~synced, rbuf = <<>>, wbuf = <<>>
       PROVE  rbuf' = <<>> /\ wbuf' = <<>>
  <2>1. /\ rbuf' = Keep(Through, rbuf) \o Out(Sent, r_fifo)
        /\ wbuf' = Keep(Leaves, wbuf) \o Out(Through, rbuf)
    BY <1>11, FifosAre
  <2>2. ~Sent /\ ~Through /\ ~Leaves
    BY <1>11 DEF Sent, SinkReady, Through, Leaves
  <2>3. rbuf' = <<>> \o <<>> /\ wbuf' = <<>> \o <<>>
    BY <1>11, <2>1, <2>2 DEF Keep, Out
  <2>4. QED  BY <2>3, EmptySeq, ConcatEmptySeq
<1>12. ~setup'.buffered \/ (~stopped' /\ ~synced') => rbuf' = <<>> /\ wbuf' = <<>>
  <2>1. CASE ~on
    BY <1>9, <2>1
  <2>2. CASE on /\ ~setup.buffered
    BY <1>10, <2>2
  <2>3. CASE on /\ setup.buffered
    <3>1. ~stopped' /\ ~synced' => ~synced /\ rbuf = <<>> /\ wbuf = <<>>
      BY <1>2, <1>8, <2>3 DEF Switches
    <3>2. QED  BY <1>2, <1>11, <2>3, <3>1
  <2>4. QED  BY <1>3, <2>1, <2>2, <2>3
<1>13. ASSUME ~stopped', ~on'
       PROVE  NotStarted'
  <2>1. ~on /\ ~stopped
    BY <1>2, <1>13
  <2>2. NotStarted
    BY <2>1 DEF Switches
  <2>3. r_state' = "IDLE" /\ r_fifo' = <<>>
    BY <1>1, <2>1, <2>2 DEF Ctrl!ReaderStep, NotStarted
  <2>4. w_state' = "IDLE" /\ w_fifo' = <<>>
    BY <1>1, <2>1, <2>2 DEF Ctrl!WriterStep, NotStarted
  <2>5. reads' = <<>>
    <3>1. cmp = <<>>
      BY <2>2 DEF Cycle, NotStarted
    <3>2. reads' = <<>> \o <<>>
      BY <1>1, <2>2, <3>1 DEF BusReads, NotStarted, Ctrl!Requests
    <3>3. QED  BY <3>2, EmptySeq, ConcatEmptySeq
  <2>6. QED  BY <1>2, <1>6, <1>9, <2>1, <2>2, <2>3, <2>4, <2>5 DEF NotStarted
<1>14. QED  BY <1>2, <1>3, <1>6, <1>7, <1>12, <1>13 DEF Switches

\* The words move on.
LEMMA WordsStep ==
  ASSUME TypeInv, Data, Switches, from \in Nat,
         NEW r_we, NEW w_we, NEW reset, NEW enable, NEW r_ready, NEW w_ready,
         NEW cmp, NEW pps, Cycle(r_we, w_we, reset, enable, r_ready, w_ready, cmp, pps),
         NEW z \in Nat, NEW z1 \in Nat, WordsComing(z),
         Answer(cmp) \in Seq(Word),
         Answered(stopped, setup.loop, reads, reads', Answer(cmp), z, z1),
         ~stopped /\ ~on => z1 = z
  PROVE  /\ from' \in Nat
         /\ Line(stopped', setup.loop, w_fifo', wbuf', rbuf', r_fifo', reads', from', z1)
<1> DEFINE loop == setup.loop
           w1 == Left(w_ready)
           answer == Answer(cmp)
           Moved == Line(stopped, loop, w_fifo', wbuf', rbuf', r_fifo', reads', from', z1)
<1>1. /\ on \in BOOLEAN /\ r_fifo \in Seq(Word) /\ rbuf \in Seq(Word) /\ wbuf \in Seq(Word)
      /\ stopped \in BOOLEAN /\ (stopped => ~loop) /\ setup.buffered \in BOOLEAN
  BY SetupsAssumption DEF TypeInv, Switches
<1>2. Line(stopped, loop, w_fifo, wbuf, rbuf, r_fifo, reads, from, z)
  BY DEF WordsComing
<1>3. /\ w1 \in Seq(Word) /\ from' \in Nat
      /\ Written(stopped, loop, w_fifo, w1, from, from')
  <2>1. BusWrites(w_ready)
    BY DEF Cycle, Clock
  <2>2. \E k \in Nat : Flow(stopped, WordAt(loop), w_fifo, from, k)
    BY <1>2 DEF Line
  <2>3. QED  BY <2>1, <2>2, BusTakes
<1>4. answer \in Seq(Word) /\ Answered(stopped, loop, reads, reads', answer, z, z1)
  OBVIOUS
<1>5. (Leaves => wbuf # <<>>) /\ (Through => rbuf # <<>>) /\ (Sent => r_fifo # <<>>)
  BY DEF Leaves, Through, Sent
<1>6. /\ setup.buffered => AllOrNone(stopped, Out(Leaves, wbuf), Accepted)
      /\ ~setup.buffered => Accepted = Out(Sent, r_fifo)
  BY AcceptedIs
<1>7. /\ on => r_fifo' = Keep(Sent, r_fifo) \o answer /\ w_fifo' = w1 \o Accepted
      /\ on /\ setup.buffered => /\ rbuf' = Keep(Through, rbuf) \o Out(Sent, r_fifo)
                                 /\ wbuf' = Keep(Leaves, wbuf) \o Out(Through, rbuf)
      /\ on /\ ~setup.buffered => rbuf' = <<>> /\ wbuf' = <<>>
      /\ ~on => /\ rbuf' = <<>> /\ wbuf' = <<>>
                /\ r_fifo' = Keep(Sent, r_fifo) \/ r_fifo' = <<>>
                /\ w_fifo' = w1 \/ w_fifo' = <<>>
  BY FifosAre
<1> HIDE DEF w1, answer, loop
<1>8. ASSUME on /\ setup.buffered
      PROVE  Moved
  <2> DEFINE w2 == w1 \o Accepted
             b1 == Keep(Leaves, wbuf) \o Out(Through, rbuf)
             b2 == Keep(Through, rbuf) \o Out(Sent, r_fifo)
             r2 == Keep(Sent, r_fifo) \o answer
  <2>1. AllOrNone(stopped, Out(Leaves, wbuf), Accepted)
    BY <1>6, <1>8
  <2>2. Line(stopped, loop, w2, b1, b2, r2, reads', from', z1)
    BY <1>1, <1>2, <1>3, <1>4, <1>5, <2>1, LineBuffered
  <2>3. w_fifo' = w2 /\ wbuf' = b1 /\ rbuf' = b2 /\ r_fifo' = r2
    BY <1>7, <1>8
  <2> HIDE DEF w2, b1, b2, r2
  <2>4. QED  BY <2>2, <2>3
<1>9. ASSUME on /\ ~setup.buffered
      PROVE  Moved
  <2> DEFINE w2 == w1 \o Out(Sent, r_fifo)
             r2 == Keep(Sent, r_fifo) \o answer
  <2>1. wbuf = <<>> /\ rbuf = <<>>
    BY <1>9 DEF Switches
  <2>2. Line(stopped, loop, w_fifo, <<>>, <<>>, r_fifo, reads, from, z)
    BY <1>2, <2>1
  <2>3. Line(stopped, loop, w2, <<>>, <<>>, r2, reads', from', z1)
    BY <1>1, <1>3, <1>4, <1>5, <2>2, LineDirect
  <2>4. w_fifo' = w2 /\ wbuf' = <<>> /\ rbuf' = <<>> /\ r_fifo' = r2
    BY <1>6, <1>7, <1>9
  <2> HIDE DEF w2, r2
  <2>5. QED  BY <2>3, <2>4
<1>10. ASSUME ~on /\ stopped
       PROVE  Moved
  <2>1. /\ wbuf' = <<>> /\ rbuf' = <<>>
        /\ AllOrNone(stopped, w1, w_fifo') /\ AllOrNone(stopped, Keep(Sent, r_fifo), r_fifo')
    BY <1>7, <1>10 DEF AllOrNone
  <2>2. Line(stopped, loop, w_fifo', <<>>, <<>>, r_fifo', reads', from', z1)
    BY <1>1, <1>2, <1>3, <1>4, <1>5, <1>10, <2>1, LineStopped, ZenonT(30)
  <2>3. QED  BY <2>1, <2>2
<1>11. ASSUME ~on /\ ~stopped
       PROVE  Moved
  <2>1. NotStarted /\ z1 = z
    BY <1>11 DEF Switches
  <2>2. w_fifo' = <<>> /\ r_fifo' = <<>>
    <3>1. /\ Ctrl!ReaderStep(on, RPath!Offers, r_piece.length, r_ready, cmp, SinkReady(Ctrl!InReady(on)))
          /\ Ctrl!WriterStep(on, WPath!Offers, w_piece.length, nolast, Source(Offered), w_ready)
      BY DEF Cycle, Clock, Offered
    <3>2. QED  BY <1>11, <2>1, <3>1 DEF NotStarted, Ctrl!ReaderStep, Ctrl!WriterStep
  <2>3. wbuf' = <<>> /\ rbuf' = <<>>
    BY <1>7, <1>11
  <2>4. reads' = <<>>
    <3>1. cmp = <<>> /\ BusReads(r_ready, cmp)
      BY <2>1 DEF Cycle, Clock, NotStarted
    <3>2. reads' = <<>> \o <<>>
      BY <2>1, <3>1 DEF BusReads, NotStarted, Ctrl!Requests
    <3>3. QED  BY <3>2, EmptySeq, ConcatEmptySeq
  <2>5. from' = from
    <3>1. BusWrites(w_ready)
      BY DEF Cycle, Clock
    <3>2. QED  BY <2>1, <3>1 DEF BusWrites, NotStarted, Ctrl!Writes
  <2>6. QED  BY <1>2, <2>1, <2>2, <2>3, <2>4, <2>5 DEF NotStarted
<1>12. Moved
  BY <1>1, <1>8, <1>9, <1>10, <1>11
<1>13. stopped => stopped'
  BY SoftwareDoes
<1> HIDE DEF Moved
<1>14. Line(stopped', loop, w_fifo', wbuf', rbuf', r_fifo', reads', from', z1)
  <2>1. Line(stopped, loop, w_fifo', wbuf', rbuf', r_fifo', reads', from', z1)
    BY <1>12 DEF Moved
  <2>2. QED  BY <1>13, <2>1, LineLoosens
<1>15. QED  BY <1>3, <1>14 DEF loop

\* The tables of a loop turn as soon as they are enabled.
LEMMA LoopingIs ==
  ASSUME TypeInv, NEW z, ReadComing(z), NEW p, WriteComing(setup.loop, on, p)
  PROVE  looping = (setup.loop /\ on)
<1>1. setup.loop /\ on => programmed[1] = Len(ReadDescs) /\ programmed[2] = Len(WriteDescs)
  BY DEF ReadComing, WriteComing, Coming
<1>2. programmed = <<programmed[1], programmed[2]>>
  BY DEF TypeInv
<1>3. setup.loop /\ on => AllProgrammed
  BY <1>1, <1>2 DEF AllProgrammed
<1>4. looping <=> (setup.loop /\ on)
  BY <1>3 DEF looping
<1>5. QED  BY <1>4 DEF looping

\* What software writes is the next descriptor.
LEMMA StrobeIs ==
  ASSUME NEW S, NEW descs, Listed(S, descs), Len(descs) <= TableDepth,
         NEW slack \in BOOLEAN, NEW loop \in BOOLEAN, NEW turning \in BOOLEAN, slack => ~loop,
         NEW flag \in BOOLEAN, NEW refill, NEW prog \in 0 .. Len(descs),
         loop /\ turning => prog = Len(descs),
         NEW we \in Strobes(descs, prog, refill)
  PROVE  Programming(S, descs, slack, loop, turning, prog, we, flag)
<1>1. we = <<>> \/ (prog < Len(descs) /\ we = <<Desc(descs[prog + 1])>>)
  BY DEF Strobes
<1>2. Len(descs) \in Nat /\ TableDepth \in Nat
  BY SizesAssumption, LenProperties DEF Listed
<1>3. prog <= TableDepth
  BY <1>2
<1>4. QED  BY <1>1, <1>3 DEF Programming

\* Whether words may be lost and the loop turns may change at the end of a cycle.
Switched(descs, slack, slack1, loop, turning, turning1, prog) ==
  /\ slack1 \in BOOLEAN /\ turning1 \in BOOLEAN /\ (slack => slack1)
  /\ (loop /\ turning => turning1) /\ (loop /\ turning1 /\ ~turning => prog = Len(descs))

LEMMA TurnsComeOn ==
  ASSUME NEW S, NEW descs, NEW slack, NEW slack1, NEW loop, NEW turning, NEW turning1, NEW prog,
         NEW we, NEW flag, NEW reset, NEW ready, NEW table, NEW refill, NEW split, NEW piece, NEW left,
         NEW table1, NEW refill1, NEW split1, NEW piece1, NEW left1,
         Turns(S, descs, slack, loop, turning, prog, we, flag, reset, ready,
               table, refill, split, piece, left, table1, refill1, split1, piece1, left1),
         Switched(descs, slack, slack1, loop, turning, turning1, prog),
         NEW p \in Nat,
         Coming(S, descs, slack, loop, turning, table, refill, split, piece, left, prog, p)
  PROVE  ComeOn(S, descs, slack, slack1, loop, turning1, prog, we, ready, split, piece,
                table1, refill1, split1, piece1, left1, p)
<1>1. PICK next \in Nat :
        /\ IF split = "RUN" /\ ready
           THEN Advances(S, slack, loop, piece.addr \div WordBytes, Ctrl!Words(piece.length), p, next)
           ELSE next = p
        /\ Coming(S, descs, slack, loop, turning, table1, refill1, split1, piece1, left1,
                  prog + Len(we), next)
  <2>1. ComeOn(S, descs, slack, slack, loop, turning, prog, we, ready, split, piece,
               table1, refill1, split1, piece1, left1, p)
    BY SplitStep, ZenonT(60)
  <2>2. QED  BY <2>1 DEF ComeOn
<1> DEFINE prog1 == prog + Len(we)
<1>2. Programming(S, descs, slack, loop, turning, prog, we, flag)
  BY DEF Turns
<1>3. /\ Listed(S, descs) /\ slack \in BOOLEAN /\ slack1 \in BOOLEAN /\ turning \in BOOLEAN
      /\ turning1 \in BOOLEAN /\ (slack => slack1) /\ (loop /\ turning => turning1)
  BY <1>2 DEF Switched, Programming
<1>4. loop /\ turning1 => prog1 = Len(descs)
  <2>1. prog1 \in 0 .. Len(descs) /\ Len(descs) \in Nat /\ (loop /\ turning => prog1 = Len(descs))
    BY <1>1, <1>3, LenProperties DEF Coming, Listed
  <2>2. prog \in Nat /\ Len(we) \in Nat
    <3>1. we = <<>> \/ \E x : we = <<x>>
      BY <1>2 DEF Programming
    <3>2. QED  BY <1>2, <1>3, <3>1 DEF Programming
  <2>3. loop /\ turning1 /\ ~turning => prog = Len(descs)
    BY DEF Switched
  <2>4. QED  BY <1>3, <2>1, <2>2, <2>3
<1>5. Changes(S, descs, slack, slack1, loop, turning, turning1, prog1)
  BY <1>3, <1>4 DEF Changes
<1>6. Coming(S, descs, slack, loop, turning, table1, refill1, split1, piece1, left1, prog1, next)
  BY <1>1
<1> HIDE DEF prog1
<1>7. Coming(S, descs, slack1, loop, turning1, table1, refill1, split1, piece1, left1, prog1, next)
  BY <1>5, <1>6, ComingChanges, ZenonT(60)
<1>8. QED  BY <1>1, <1>7 DEF ComeOn, prog1

LEMMA ReadComes ==
  ASSUME TypeInv, Switches,
         NEW r_we, NEW w_we, NEW reset, NEW enable, NEW r_ready, NEW w_ready,
         NEW cmp, NEW pps, Cycle(r_we, w_we, reset, enable, r_ready, w_ready, cmp, pps),
         NEW z \in Nat, ReadComing(z), NEW p, WriteComing(setup.loop, on, p)
  PROVE  \E z1 \in Nat :
           /\ IF r_split = "RUN" /\ Ctrl!ReaderReady(r_ready)
              THEN Advances(Src, stopped, setup.loop, r_piece.addr \div WordBytes,
                            Ctrl!Words(r_piece.length), z, z1)
              ELSE z1 = z
           /\ Coming(Src, ReadDescs, stopped', setup.loop, on', r_table', r_refill',
                     r_split', r_piece', r_left', programmed'[1], z1)
<1> DEFINE loop == setup.loop
           turns == loop /\ on
           ready == Ctrl!ReaderReady(r_ready)
           clear == TableReset(reset)
           flag == r_table = <<>>
           prog == programmed[1]
<1>1. /\ stopped \in BOOLEAN /\ on \in BOOLEAN /\ stopped' \in BOOLEAN /\ on' \in BOOLEAN
      /\ loop \in BOOLEAN /\ (stopped => ~loop) /\ (stopped => stopped')
      /\ clear \in BOOLEAN /\ (clear => stopped)
      /\ (loop /\ on => on') /\ (loop /\ on' /\ ~on => AllProgrammed)
      /\ programmed' = <<programmed[1] + Len(r_we), programmed[2] + Len(w_we)>>
  BY SoftwareDoes DEF TypeInv, Switches
<1>2. ready \in BOOLEAN /\ flag \in BOOLEAN /\ (ready /\ loop => on)
  <2>1. r_ready \in BOOLEAN
    BY DEF Cycle
  <2>2. ready => r_state = "REQUEST"
    BY DEF Ctrl!ReaderReady, Ctrl!Requests
  <2>3. loop /\ ~on => r_state = "IDLE"
    BY <1>1 DEF Switches, NotStarted
  <2>4. ready \in BOOLEAN
    BY <2>1 DEF Ctrl!ReaderReady, Ctrl!Requests
  <2>5. QED  BY <1>1, <2>2, <2>3, <2>4
<1>3. /\ r_table \in Seq(Descriptor) /\ r_refill \in Seq(Descriptor) /\ Cut(r_split, r_piece, r_left)
  BY DEF TypeInv
<1>4. Listed(Src, ReadDescs)
  BY Streams DEF Listed, RBase
<1>5. prog \in 0 .. Len(ReadDescs) /\ (loop /\ on => prog = Len(ReadDescs))
  BY DEF ReadComing, Coming
<1>6. RPath!Step(r_we, turns, clear, ready)
  <2>1. RPath!Step(r_we, looping, clear, ready)
    BY DEF Cycle, Clock
  <2>2. looping = turns
    BY LoopingIs
  <2> HIDE DEF turns
  <2>3. QED  BY <2>1, <2>2, Zenon
<1>7. r_we \in Strobes(ReadDescs, prog, r_refill)
  BY DEF Cycle
<1>8. Coming(Src, ReadDescs, stopped, loop, on, r_table, r_refill, r_split, r_piece, r_left, prog, z)
  BY DEF ReadComing
<1> HIDE DEF loop, turns, ready, clear, flag, prog
<1>9. PICK taken :
        /\ Takes(taken, r_split, ready, r_piece, r_table)
        /\ TableCycles(r_we, flag, turns, clear, taken, r_table, r_refill, r_table', r_refill')
        /\ Splits(ready, r_table, r_split, r_piece, r_left, r_split', r_piece', r_left')
  <2>1. clear \in BOOLEAN /\ ready \in BOOLEAN
    BY <1>1, <1>2
  <2>2. \E taken :
          /\ Takes(taken, r_split, ready, r_piece, r_table)
          /\ TableCycles(r_we, r_table = <<>>, turns, clear, taken, r_table, r_refill, r_table', r_refill')
          /\ Splits(ready, r_table, r_split, r_piece, r_left, r_split', r_piece', r_left')
    BY <2>1, <1>6, ReadSplits
  <2>3. QED  BY <2>2 DEF flag
<1>10. Programming(Src, ReadDescs, stopped, loop, on, prog, r_we, flag)
  <2>1. Len(ReadDescs) <= TableDepth
    BY SizesAssumption
  <2>2. stopped \in BOOLEAN /\ loop \in BOOLEAN /\ on \in BOOLEAN /\ flag \in BOOLEAN /\ (stopped => ~loop)
    BY <1>1, <1>2
  <2>3. QED  BY <1>4, <1>5, <1>7, <2>1, <2>2, StrobeIs
<1>11. loop /\ on' /\ ~on => prog = Len(ReadDescs)
  BY <1>1 DEF AllProgrammed, prog
<1>12. Switched(ReadDescs, stopped, stopped', loop, on, on', prog)
  BY <1>1, <1>11 DEF Switched
<1>13. Turns(Src, ReadDescs, stopped, loop, on, prog, r_we, flag, clear, ready,
             r_table, r_refill, r_split, r_piece, r_left, r_table', r_refill', r_split', r_piece', r_left')
  BY <1>1, <1>2, <1>3, <1>9, <1>10 DEF Turns, turns
<1>14. ComeOn(Src, ReadDescs, stopped, stopped', loop, on', prog, r_we, ready, r_split, r_piece,
              r_table', r_refill', r_split', r_piece', r_left', z)
  BY <1>8, <1>13, <1>12, TurnsComeOn, Zenon
<1>15. programmed'[1] = prog + Len(r_we)
  BY <1>1 DEF prog
<1>16. QED  BY <1>14, <1>15 DEF ComeOn, loop, ready

LEMMA WriteComes ==
  ASSUME TypeInv, Switches,
         NEW r_we, NEW w_we, NEW reset, NEW enable, NEW r_ready, NEW w_ready,
         NEW cmp, NEW pps, Cycle(r_we, w_we, reset, enable, r_ready, w_ready, cmp, pps),
         NEW z, ReadComing(z), NEW p \in Nat, WriteComing(setup.loop, on, p)
  PROVE  \E p1 \in Nat :
           /\ IF w_split = "RUN" /\ Ctrl!WriterReady(w_piece.length, w_ready)
              THEN Advances(Dst, FALSE, setup.loop, w_piece.addr \div WordBytes,
                            Ctrl!Words(w_piece.length), p, p1)
              ELSE p1 = p
           /\ Coming(Dst, WriteDescs, FALSE, setup.loop, on', w_table', w_refill',
                     w_split', w_piece', w_left', programmed'[2], p1)
<1> DEFINE loop == setup.loop
           turns == loop /\ on
           ready == Ctrl!WriterReady(w_piece.length, w_ready)
           flag == w_table = <<>>
           prog == programmed[2]
<1>1. /\ stopped \in BOOLEAN /\ on \in BOOLEAN /\ stopped' \in BOOLEAN /\ on' \in BOOLEAN
      /\ loop \in BOOLEAN /\ (stopped => ~loop) /\ (stopped => stopped')
      /\ (loop /\ on => on') /\ (loop /\ on' /\ ~on => AllProgrammed)
      /\ programmed' = <<programmed[1] + Len(r_we), programmed[2] + Len(w_we)>>
  BY SoftwareDoes DEF TypeInv, Switches
<1>2. ready \in BOOLEAN /\ flag \in BOOLEAN /\ (ready /\ loop => on)
  <2>1. w_ready \in BOOLEAN
    BY DEF Cycle
  <2>2. ready => w_state = "WRITE"
    BY DEF Ctrl!WriterReady, Ctrl!Writes
  <2>3. loop /\ ~on => w_state = "IDLE"
    BY <1>1 DEF Switches, NotStarted
  <2>4. ready \in BOOLEAN
    BY <2>1 DEF Ctrl!WriterReady, Ctrl!Writes
  <2>5. QED  BY <1>1, <2>2, <2>3, <2>4
<1>3. /\ w_table \in Seq(Descriptor) /\ w_refill \in Seq(Descriptor) /\ Cut(w_split, w_piece, w_left)
  BY DEF TypeInv
<1>4. Listed(Dst, WriteDescs)
  BY Streams DEF Listed, WBase
<1>5. prog \in 0 .. Len(WriteDescs) /\ (loop /\ on => prog = Len(WriteDescs))
  BY DEF WriteComing, Coming
<1>6. WPath!Step(w_we, turns, FALSE, ready)
  <2>1. WPath!Step(w_we, looping, FALSE, ready)
    BY DEF Cycle, Clock
  <2>2. looping = turns
    BY LoopingIs
  <2> HIDE DEF turns
  <2>3. QED  BY <2>1, <2>2, Zenon
<1>7. w_we \in Strobes(WriteDescs, prog, w_refill)
  BY DEF Cycle
<1>8. Coming(Dst, WriteDescs, FALSE, loop, on, w_table, w_refill, w_split, w_piece, w_left, prog, p)
  BY DEF WriteComing
<1> HIDE DEF loop, turns, ready, flag, prog
<1>9. PICK taken :
        /\ Takes(taken, w_split, ready, w_piece, w_table)
        /\ TableCycles(w_we, flag, turns, FALSE, taken, w_table, w_refill, w_table', w_refill')
        /\ Splits(ready, w_table, w_split, w_piece, w_left, w_split', w_piece', w_left')
  <2>1. FALSE \in BOOLEAN /\ ready \in BOOLEAN
    BY <1>2
  <2>2. \E taken :
          /\ Takes(taken, w_split, ready, w_piece, w_table)
          /\ TableCycles(w_we, w_table = <<>>, turns, FALSE, taken, w_table, w_refill, w_table', w_refill')
          /\ Splits(ready, w_table, w_split, w_piece, w_left, w_split', w_piece', w_left')
    BY <2>1, <1>6, WriteSplits
  <2>3. QED  BY <2>2 DEF flag
<1>10. Programming(Dst, WriteDescs, FALSE, loop, on, prog, w_we, flag)
  <2>1. Len(WriteDescs) <= TableDepth
    BY SizesAssumption
  <2>2. FALSE \in BOOLEAN /\ loop \in BOOLEAN /\ on \in BOOLEAN /\ flag \in BOOLEAN
    BY <1>1, <1>2
  <2>3. QED  BY <1>4, <1>5, <1>7, <2>1, <2>2, StrobeIs
<1>11. loop /\ on' /\ ~on => prog = Len(WriteDescs)
  BY <1>1 DEF AllProgrammed, prog
<1>12. Switched(WriteDescs, FALSE, FALSE, loop, on, on', prog)
  BY <1>1, <1>11 DEF Switched
<1>13. Turns(Dst, WriteDescs, FALSE, loop, on, prog, w_we, flag, FALSE, ready,
             w_table, w_refill, w_split, w_piece, w_left, w_table', w_refill', w_split', w_piece', w_left')
  BY <1>1, <1>2, <1>3, <1>9, <1>10 DEF Turns, turns
<1>14. ComeOn(Dst, WriteDescs, FALSE, FALSE, loop, on', prog, w_we, ready, w_split, w_piece,
              w_table', w_refill', w_split', w_piece', w_left', p)
  BY <1>8, <1>13, <1>12, TurnsComeOn, Zenon
<1>15. programmed'[2] = prog + Len(w_we)
  BY <1>1 DEF prog
<1>16. QED  BY <1>14, <1>15 DEF ComeOn, loop, ready

\* At first all of the stream is to come.
LEMMA StreamBegins ==
  ASSUME NEW S, NEW descs, Listed(S, descs), NEW loop, NEW turning, ~(loop /\ turning), NEW piece, NEW left
  PROVE  Coming(S, descs, FALSE, loop, turning, <<>>, <<>>, "IDLE", piece, left, 0, 0)
<1>1. Base(S, descs)[0] = 0 /\ Len(descs) \in Nat
  BY LenProperties DEF Listed, LaidOut
<1>2. Target(S, descs, loop, turning, 0, 0) = 0
  BY <1>1 DEF Target, Wrap
<1>3. <<>> \o <<>> = <<>> /\ Len(<<>>) = 0
  BY EmptySeq, ConcatEmptySeq
<1>4. Flow(FALSE, DescAt(S, descs, loop), <<>>, 0, 0)
  BY EmptyFlow DEF Reach
<1>5. ComingIdle(S, descs, FALSE, loop, turning, <<>>, <<>>, 0, 0)
  BY <1>2, <1>3, <1>4 DEF ComingIdle
<1>6. 0 \in 0 .. Len(descs) /\ 0 + 0 <= 0 /\ 0 <= 1
  BY <1>1
<1>7. QED  BY <1>3, <1>5, <1>6 DEF Coming

LEMMA InitStream == Init => StreamInv /\ Stream!Init
<1> SUFFICES ASSUME Init
             PROVE  StreamInv /\ Stream!Init
  OBVIOUS
<1>1. /\ setup \in Setups /\ programmed = <<0, 0>> /\ on = ~setup.loop /\ stopped = FALSE
      /\ synced = FALSE /\ rbuf = <<>> /\ wbuf = <<>> /\ reads = <<>> /\ from = 0 /\ to = 0
      /\ mem = [a \in {Dst[i].addr : i \in DOMAIN Dst} |-> 0]
  BY DEF Init
<1>2. /\ r_table = <<>> /\ r_refill = <<>> /\ r_split = "IDLE"
      /\ w_table = <<>> /\ w_refill = <<>> /\ w_split = "IDLE"
      /\ r_state = "IDLE" /\ r_fifo = <<>> /\ w_state = "IDLE" /\ w_fifo = <<>>
  BY DEF Init, RPath!Init, WPath!Init, Ctrl!ReaderInit, Ctrl!WriterInit
<1>3. /\ setup.loop \in BOOLEAN /\ setup.stream \in BOOLEAN
  BY <1>1, SetupsAssumption
<1>4. Switches
  BY <1>1, <1>2, <1>3 DEF Switches, NotStarted
<1>5. WordsComing(0)
  <2>1. \A R : Flow(stopped, R, <<>>, 0, 0)
    BY EmptyFlow DEF Reach
  <2>2. QED  BY <1>1, <1>2, <2>1 DEF WordsComing, Line
<1>6. Listed(Src, ReadDescs) /\ Listed(Dst, WriteDescs)
  BY Streams DEF Listed, RBase, WBase
<1>7. ~(setup.loop /\ on)
  BY <1>1
<1>8. ReadComing(0)
  <2>1. Coming(Src, ReadDescs, FALSE, setup.loop, on, <<>>, <<>>, "IDLE", r_piece, r_left, 0, 0)
    BY <1>6, <1>7, StreamBegins
  <2>2. programmed[1] = 0
    BY <1>1
  <2>3. QED  BY <1>1, <1>2, <2>1, <2>2 DEF ReadComing
<1>9. WriteComing(setup.loop, on, 0)
  <2>1. Coming(Dst, WriteDescs, FALSE, setup.loop, on, <<>>, <<>>, "IDLE", w_piece, w_left, 0, 0)
    BY <1>6, <1>7, StreamBegins
  <2>2. programmed[2] = 0
    BY <1>1
  <2>3. QED  BY <1>2, <2>1, <2>2 DEF WriteComing
<1>10. Anchored(0)
  BY <1>1, <1>2 DEF Anchored
<1>11. StreamInv
  BY <1>1, <1>4, <1>5, <1>8, <1>9, <1>10 DEF StreamInv
<1>12. Stream!Init
  BY <1>1, <1>3 DEF Stream!Init, nolast
<1>13. QED  BY <1>11, <1>12

LEMMA StreamStep ==
  ASSUME IInv, IInv', StreamInv, Next
  PROVE  StreamInv' /\ Stream!Next
<1>1. PICK r_we, w_we, reset, enable, r_ready, w_ready, cmp, pps :
        Cycle(r_we, w_we, reset, enable, r_ready, w_ready, cmp, pps)
  BY NextCycles
<1>2. TypeInv /\ Room /\ Data /\ Switches /\ from \in Nat /\ to \in Nat /\ req_count' \in Nat
  BY DEF IInv, StreamInv, TypeInv
<1>3. PICK z \in Nat : WordsComing(z) /\ ReadComing(z)
  BY DEF StreamInv
<1>4. PICK p \in Nat : WriteComing(setup.loop, on, p) /\ Anchored(p)
  BY DEF StreamInv
<1>5. /\ setup' = setup /\ on' \in BOOLEAN /\ stopped' \in BOOLEAN /\ (stopped => stopped')
  BY <1>1, <1>2, SoftwareDoes
<1>6. /\ BusReads(r_ready, cmp) /\ BusWrites(w_ready)
      /\ cmp = <<>> \/ (reads # <<>> /\ cmp = <<Completion>>)
      /\ Ctrl!WriterStep(on, WPath!Offers, w_piece.length, nolast, Source(Offered), w_ready)
  BY <1>1 DEF Cycle, Clock, Offered
<1>7. Switches'
  BY <1>1, <1>2, SwitchesStep
<1>8. PICK z1 \in Nat :
        /\ IF r_split = "RUN" /\ Ctrl!ReaderReady(r_ready)
           THEN Advances(Src, stopped, setup.loop, r_piece.addr \div WordBytes,
                         Ctrl!Words(r_piece.length), z, z1)
           ELSE z1 = z
        /\ Coming(Src, ReadDescs, stopped', setup.loop, on', r_table', r_refill',
                  r_split', r_piece', r_left', programmed'[1], z1)
  BY <1>1, <1>2, <1>3, <1>4, ReadComes
<1>9. PICK p1 \in Nat :
        /\ IF w_split = "RUN" /\ Ctrl!WriterReady(w_piece.length, w_ready)
           THEN Advances(Dst, FALSE, setup.loop, w_piece.addr \div WordBytes,
                         Ctrl!Words(w_piece.length), p, p1)
           ELSE p1 = p
        /\ Coming(Dst, WriteDescs, FALSE, setup.loop, on', w_table', w_refill',
                  w_split', w_piece', w_left', programmed'[2], p1)
  BY <1>1, <1>2, <1>3, <1>4, WriteComes
<1>10. Answer(cmp) \in Seq(Word) /\ Answered(stopped, setup.loop, reads, reads', Answer(cmp), z, z1)
  BY <1>2, <1>6, <1>8, BusAnswers
<1>11. ~stopped /\ ~on => z1 = z
  BY <1>2, <1>8 DEF Switches, NotStarted, Ctrl!ReaderReady, Ctrl!Requests
<1>12. /\ from' \in Nat
       /\ Line(stopped', setup.loop, w_fifo', wbuf', rbuf', r_fifo', reads', from', z1)
  BY <1>1, <1>2, <1>3, <1>10, <1>11, WordsStep
<1>13. to' = IF w_state' = "WRITE" THEN p1 + req_count' ELSE p1
  BY <1>2, <1>4, <1>6, <1>9, AnchorMoves
<1>14. to' \in Nat
  <2>1. \A i, j \in Nat : i + j \in Nat
    OBVIOUS
  <2>2. p1 + req_count' \in Nat
    BY <1>2, <2>1
  <2>3. QED  BY <1>13, <2>2
<1>15. WordsComing(z1)' /\ ReadComing(z1)'
  BY <1>5, <1>8, <1>12 DEF WordsComing, ReadComing
<1>16. WriteComing(setup.loop, on, p1)' /\ Anchored(p1)'
  BY <1>5, <1>9, <1>13 DEF WriteComing, Anchored
<1>17. StreamInv'
  BY <1>7, <1>12, <1>14, <1>15, <1>16 DEF StreamInv
<1>18. (\E i \in 0 .. Len(Src) - 1 : Stream!WriteWord(i)) \/ UNCHANGED <<mem, from, to>>
  <2>1. PICK k \in Nat : Flow(stopped, WordAt(setup.loop), w_fifo, from, k)
    BY <1>3 DEF WordsComing, Line
  <2>2. QED  BY <1>2, <1>4, <1>6, <2>1, StreamWrites
<1>19. stopped' \in {stopped, TRUE}
  BY <1>2, <1>5 DEF Switches
<1>20. UNCHANGED <<setup.loop, nolast>>
  BY <1>5 DEF nolast
<1>21. Stream!Next
  BY <1>18, <1>19, <1>20 DEF Stream!Next
<1>22. QED  BY <1>17, <1>21

LEMMA StreamInvariance == Spec => [](IInv /\ StreamInv)
<1>1. ASSUME StreamInv, UNCHANGED vars
      PROVE  StreamInv'
  <2>1. /\ UNCHANGED <<setup, programmed, on, stopped, synced, rbuf, wbuf, reads, from, to>>
        /\ UNCHANGED <<r_table, r_refill, r_split, r_piece, r_left>>
        /\ UNCHANGED <<w_table, w_refill, w_split, w_piece, w_left>>
        /\ UNCHANGED <<r_state, r_fifo, w_state, req_count, w_fifo>>
    BY <1>1 DEF vars, software, r_path, w_path, ctrl
  <2>2. Switches' /\ from' \in Nat /\ to' \in Nat
    BY <1>1, <2>1 DEF StreamInv, Switches, NotStarted
  <2>3. PICK z \in Nat : WordsComing(z) /\ ReadComing(z)
    BY <1>1 DEF StreamInv
  <2>4. WordsComing(z)' /\ ReadComing(z)'
    BY <2>1, <2>3 DEF WordsComing, ReadComing
  <2>5. PICK p \in Nat : WriteComing(setup.loop, on, p) /\ Anchored(p)
    BY <1>1 DEF StreamInv
  <2>6. WriteComing(setup.loop, on, p)' /\ Anchored(p)'
    BY <2>1, <2>5 DEF WriteComing, Anchored
  <2>7. QED  BY <2>2, <2>4, <2>6 DEF StreamInv
<1>2. IInv /\ StreamInv /\ [Next]_vars => IInv' /\ StreamInv'
  BY <1>1, NextIInv, StreamStep
<1>3. Init => IInv /\ StreamInv
  BY InitIInv, InitStream
<1>4. QED  BY <1>2, <1>3, PTL DEF Spec

\* The words that the read descriptors name are written where the write
\* descriptors say, in order and each once (the last word of a frame that is
\* shorter than its write request is repeated), for all lists of descriptors and
\* all sizes of the tables, FIFOs, buffers and requests; only a stop may leave
\* words out.  What is on its way is always a part of the two streams
\* (dma/read_controller.py, dma/write_controller.py, dma/descriptor_table.py,
\* dma/splitter.py and the plugins between them).
THEOREM StreamIsImplemented == Spec => ImplementsStream
<1>1. Init => Stream!Init
  BY InitStream
<1>2. IInv /\ IInv' /\ StreamInv /\ [Next]_vars => [Stream!Next]_(Stream!vars)
  <2>1. UNCHANGED vars => UNCHANGED Stream!vars
    BY DEF vars, software, Stream!vars, nolast
  <2>2. QED  BY <2>1, StreamStep
<1>3. QED  BY <1>1, <1>2, StreamInvariance, PTL DEF Spec, ImplementsStream, Stream!Spec

=============================================================================
