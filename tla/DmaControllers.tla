--------------------------- MODULE DmaControllers ---------------------------
(* The read controller (dma/read_controller.py, DMAReadController): it asks    *)
(* for the words of a piece when its FIFO will have room for all that is       *)
(* pending and one more request, and collects the completions.  The write      *)
(* controller (dma/write_controller.py, DMAWriteController): it writes a piece *)
(* when its FIFO holds enough words, and repeats the last word of a frame      *)
(* until the piece is full, unless the descriptor disables that.               *)
EXTENDS Sequences, Naturals

CONSTANTS Depth,         \* words in each FIFO
          PendingBound,  \* 2^n, for the n bits of pending
          MaxWords,      \* of a request
          WordBytes,
          IdBound

VARIABLES r_state,     \* "IDLE" or "REQUEST"
          pending,     \* words requested that have not left the FIFO
          r_fifo,
          last_id,     \* the user_id of the last first completion
          w_state,     \* "IDLE" or "WRITE"
          req_count,   \* words written of the piece
          w_fifo

Words(length) == (length + WordBytes - 1) \div WordBytes

-----------------------------------------------------------------------------
(* The read controller.                                                        *)
ReaderInit == r_state = "IDLE" /\ pending = 0 /\ r_fifo = <<>> /\ last_id = IdBound - 1

Requests == r_state = "REQUEST"

ReaderReady(req_ready) == Requests /\ req_ready   \* desc_sink.ready

CmpReady(enable) == enable => Len(r_fifo) < Depth

TooMuchRoom == pending < Depth   \* mutant of HasRoom: the next request is forgotten

HasRoom == pending < Depth - MaxWords

EveryFirst(cmp) == [data |-> cmp.data, last |-> cmp.last, first |-> cmp.first]   \* mutant of WordOf

\* A completion becomes a word: it is the first of its descriptor, not only
\* of its request.
WordOf(cmp) == [data |-> cmp.data, last |-> cmp.last,
                first |-> cmp.first /\ cmp.id # last_id]

\* A cycle with the completions "cmp" (one or none) offered.
ReaderStep(enable, valid, length, req_ready, cmp, out_ready) ==
  LET given == IF CmpReady(enable) THEN cmp ELSE <<>>
      taken == r_fifo # <<>> /\ out_ready
      rest  == IF taken THEN Tail(r_fifo) ELSE r_fifo
      queue == IF valid /\ ReaderReady(req_ready) THEN Words(length) ELSE 0
  IN /\ r_state' = IF r_state = "REQUEST" THEN (IF req_ready THEN "IDLE" ELSE "REQUEST")
                   ELSE IF enable /\ valid /\ HasRoom THEN "REQUEST" ELSE "IDLE"
     /\ r_fifo' = IF enable THEN rest \o [i \in DOMAIN given |-> WordOf(given[i])]
                  ELSE IF r_state = "IDLE" THEN <<>> ELSE rest
     /\ last_id' = IF given # <<>> /\ given[1].first THEN given[1].id ELSE last_id
     /\ pending' = IF ~enable THEN 0
                   ELSE (pending + queue + PendingBound - (IF taken THEN 1 ELSE 0)) % PendingBound

-----------------------------------------------------------------------------
(* The write controller.                                                       *)
WriterInit == w_state = "IDLE" /\ req_count = 0 /\ w_fifo = <<>>

Writes == w_state = "WRITE"

InReady(enable) == enable => Len(w_fifo) < Depth

Terminate(nolast) == Head(w_fifo).last /\ ~nolast

ReqLast(length) == req_count = Words(length) - 1

WriterReady(length, req_ready) == Writes /\ req_ready /\ ReqLast(length)   \* desc_sink.ready

AnyWord(length)  == w_fifo # <<>>                 \* mutant of Enough: the level of one word
OneMore(length)  == Len(w_fifo) > Words(length)   \* mutant of Enough: an off-by-one

Enough(length) == Len(w_fifo) >= Words(length)

UntilLast(length, nolast) == ~ReqLast(length)   \* mutant of Pops: the last word is not taken

\* Whether the word in front leaves the FIFO when it is written.
Pops(length, nolast) == ReqLast(length) \/ ~Terminate(nolast)

\* A cycle with the words "in" (one or none) offered by the stream.
WriterStep(enable, valid, length, nolast, in, req_ready) ==
  LET given == IF enable /\ InReady(enable) THEN in ELSE <<>>
  IN \/ /\ w_state = "IDLE"
        /\ req_count' = 0
        /\ w_fifo' = IF enable THEN w_fifo \o given ELSE <<>>
        /\ w_state' = IF enable /\ valid /\ Enough(length) THEN "WRITE" ELSE "IDLE"
     \/ /\ w_state = "WRITE" /\ ~req_ready
        /\ w_fifo' = w_fifo \o given
        /\ UNCHANGED <<w_state, req_count>>
     \/ /\ w_state = "WRITE" /\ req_ready
        /\ req_count' = req_count + 1
        /\ w_fifo' = (IF Pops(length, nolast) THEN Tail(w_fifo) ELSE w_fifo) \o given
        /\ w_state' = IF ReqLast(length) THEN "IDLE" ELSE "WRITE"
=============================================================================
