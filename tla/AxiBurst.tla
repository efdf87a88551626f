------------------------------ MODULE AxiBurst ------------------------------
(* The burst address generator (axi/burst.py, class AXIBurst2Beat).  Its        *)
(* registers are a record; Load is a pulse of `first`, Advance one of `next`.  *)
(* A burst is [addr, len, size, burst], as on an AW or AR channel.             *)
EXTENDS Integers

CONSTANT AddrSpace   \* 2 ** addr_width, the number of byte addresses

Load(b) == [start |-> b.addr, addr |-> b.addr, len |-> b.len, size |-> b.size,
            burst |-> b.burst, count |-> 0]

SizeBytes(r)  == 2 ^ r.size
IncrAddr(r)   == (r.addr + SizeBytes(r)) % AddrSpace
WrapSpan(r)   == (r.len + 1) * SizeBytes(r)      \* wrap_mask + 1
WrapMasked(r) == r.start - (r.start % WrapSpan(r)) \* start_addr & ~wrap_mask

WrapToStart(r) ==    \* mutant of NextBeatAddr: wraps to the start, not the boundary
  CASE r.burst = "FIXED" -> r.addr
    [] r.burst = "INCR"  -> IncrAddr(r)
    [] r.burst = "WRAP"  -> r.start + ((IncrAddr(r) - r.start) % WrapSpan(r))

\* A wrapping burst has a power of two of beats, so masking is a remainder.
NextBeatAddr(r) ==
  CASE r.burst = "FIXED" -> r.addr
    [] r.burst = "INCR"  -> IncrAddr(r)
    [] r.burst = "WRAP"  -> WrapMasked(r) + (IncrAddr(r) % WrapSpan(r))

Advance(r) == [r EXCEPT !.addr = NextBeatAddr(r), !.count = (@ + 1) % 256]
=============================================================================
