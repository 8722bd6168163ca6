----------------------------- MODULE RingBuffer -----------------------------
(***************************************************************************)
(* sdl/RingBuffer.h: a ring of sz cells of which one is always left empty, *)
(* as functions of the record r = [sz, rpos, wpos, buf].                   *)
(***************************************************************************)
EXTENDS Integers, Sequences

size(r)  == r.sz - 1
(* Mutant of the next: the cell that is left empty is forgotten.           *)
availWithLast(r) == (IF r.wpos < r.rpos THEN 0 ELSE r.sz) + r.rpos - r.wpos

avail(r) == (IF r.wpos < r.rpos THEN 0 ELSE r.sz) + r.rpos - r.wpos - 1
used(r)  == (IF r.wpos < r.rpos THEN r.sz ELSE 0) + r.wpos - r.rpos

(* Where num steps from position p end, and the cells on the way: up to    *)
(* the end of the ring, then from its start.                               *)
Advance(r, p, num) ==
  LET q == IF p + num > r.sz THEN num - (r.sz - p) ELSE p + num
  IN IF q = r.sz THEN 0 ELSE q

Cell(r, p, i)   == IF p + i >= r.sz THEN p + i - r.sz ELSE p + i
Offset(r, p, c) == IF c < p THEN c + r.sz - p ELSE c - p

(* What `read' copies out, and the ring it leaves.                         *)
Peek(r, num) == [i \in 1 .. num |-> r.buf[Cell(r, r.rpos, i - 1)]]
read(r, num) == [r EXCEPT !.rpos = Advance(r, @, num)]

Filled(r, in) ==
  [c \in DOMAIN r.buf |-> IF Offset(r, r.wpos, c) < Len(in)
                          THEN in[Offset(r, r.wpos, c) + 1] ELSE r.buf[c]]

write(r, in) == [r EXCEPT !.wpos = Advance(r, @, Len(in)), !.buf = Filled(r, in)]

(* What is in the ring, oldest first.                                      *)
Contents(r) == Peek(r, used(r))
=============================================================================
