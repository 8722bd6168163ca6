--------------------------- MODULE SoundSDLProofs ---------------------------
(***************************************************************************)
(* The driver never sleeps in vain, for rings, blocks and requests of any  *)
(* size.                                                                   *)
(***************************************************************************)
EXTENDS SoundSDL, SequenceTheorems, TLAPS

-----------------------------------------------------------------------------
(* The ring buffer.                                                        *)

IsRing(r, T) ==
  /\ r \in [sz : Nat \ {0}, rpos : Nat, wpos : Nat, buf : [0 .. r.sz - 1 -> T]]
  /\ r.rpos < r.sz
  /\ r.wpos < r.sz

(* Room and content make up the ring but for the empty cell.               *)
LEMMA RoomAndContent ==
  ASSUME NEW r, NEW T, IsRing(r, T)
  PROVE  /\ avail(r) \in 0 .. r.sz - 1
         /\ used(r) \in 0 .. r.sz - 1
         /\ avail(r) + used(r) = r.sz - 1
BY DEF IsRing, avail, used

(* The arithmetic of a position that goes round the ring of s cells.       *)
FreeCells(s, r, w) == (IF w < r THEN 0 ELSE s) + r - w - 1
Round(s, p, n) == IF p + n > s THEN n - (s - p) ELSE p + n
Start(s, q)    == IF q = s THEN 0 ELSE q

(* Moving the write position by n cells takes n from the free ones, moving *)
(* the read position gives n back, across the end of the ring or not.      *)
LEMMA RoomMoves ==
  ASSUME NEW s \in Nat \ {0}, NEW r \in 0 .. s - 1, NEW w \in 0 .. s - 1, NEW n \in Nat
  PROVE  /\ n <= FreeCells(s, r, w) =>
              /\ Start(s, Round(s, w, n)) \in 0 .. s - 1
              /\ FreeCells(s, r, Start(s, Round(s, w, n))) = FreeCells(s, r, w) - n
         /\ n <= s - 1 - FreeCells(s, r, w) =>
              /\ Start(s, Round(s, r, n)) \in 0 .. s - 1
              /\ FreeCells(s, Start(s, Round(s, r, n)), w) = FreeCells(s, r, w) + n
<1>1. CASE w < r
  BY <1>1 DEF FreeCells, Round, Start
<1>2. CASE w >= r
  BY <1>2 DEF FreeCells, Round, Start
<1> QED BY <1>1, <1>2

(* As long as there is room for it, what is written takes up that much.    *)
LEMMA WriteTakesRoom ==
  ASSUME NEW r, NEW T, IsRing(r, T), NEW in \in Seq(T), Len(in) <= avail(r)
  PROVE  /\ IsRing(write(r, in), T)
         /\ write(r, in).sz = r.sz
         /\ avail(write(r, in)) = avail(r) - Len(in)
<1> DEFINE n == Len(in)
           b == Filled(r, in)
           p == Advance(r, r.wpos, n)
           w == [r EXCEPT !.wpos = p, !.buf = b]
<1>1. write(r, in) = w
  BY DEF write
<1>2. /\ n \in Nat /\ \A i \in 1 .. n : in[i] \in T
      /\ r.sz \in Nat \ {0} /\ r.rpos \in 0 .. r.sz - 1 /\ r.wpos \in 0 .. r.sz - 1
      /\ DOMAIN r.buf = 0 .. r.sz - 1 /\ \A c \in 0 .. r.sz - 1 : r.buf[c] \in T
  BY DEF IsRing
<1>3. b \in [0 .. r.sz - 1 -> T]
  <2>1. ASSUME NEW c \in 0 .. r.sz - 1 PROVE Offset(r, r.wpos, c) \in Nat
    BY <1>2 DEF Offset
  <2> QED BY <1>2, <2>1 DEF Filled
<1>4. n <= avail(r)
  OBVIOUS
<1> HIDE DEF b, n
<1>5. p \in 0 .. r.sz - 1 /\ FreeCells(r.sz, r.rpos, p) = avail(r) - n
  <2>1. p = Start(r.sz, Round(r.sz, r.wpos, n))
    BY DEF Advance, Start, Round
  <2>2. avail(r) = FreeCells(r.sz, r.rpos, r.wpos)
    BY DEF avail, FreeCells
  <2> QED BY <1>2, <1>4, <2>1, <2>2, RoomMoves
<1> HIDE DEF p
<1>6. w = [sz |-> r.sz, rpos |-> r.rpos, wpos |-> p, buf |-> b]
  <2> DEFINE w1 == [r EXCEPT !.wpos = p]
  <2>1. w1 = [sz |-> r.sz, rpos |-> r.rpos, wpos |-> p, buf |-> r.buf]
    BY DEF IsRing
  <2>2. w = [w1 EXCEPT !.buf = b]
    OBVIOUS
  <2> HIDE DEF w, w1
  <2> QED BY <2>1, <2>2
<1> HIDE DEF w
<1>7. w.sz = r.sz /\ w.rpos = r.rpos /\ w.wpos = p
  BY <1>6
<1>8. avail(w) = avail(r) - n
  BY <1>5, <1>7 DEF avail, FreeCells
<1>9. IsRing(w, T)
  <2>1. w \in [sz : Nat \ {0}, rpos : Nat, wpos : Nat, buf : [0 .. w.sz - 1 -> T]]
    <3>1. p \in Nat /\ r.rpos \in Nat /\ b \in [0 .. w.sz - 1 -> T]
      BY <1>2, <1>3, <1>5, <1>7
    <3> QED BY <1>2, <1>6, <3>1
  <2> QED BY <1>2, <1>5, <1>7, <2>1 DEF IsRing
<1> QED BY <1>1, <1>7, <1>8, <1>9 DEF n

(* What is read makes that much room.                                      *)
LEMMA ReadMakesRoom ==
  ASSUME NEW r, NEW T, IsRing(r, T), NEW num \in 0 .. used(r)
  PROVE  /\ IsRing(read(r, num), T)
         /\ read(r, num).sz = r.sz
         /\ avail(read(r, num)) = avail(r) + num
         /\ Peek(r, num) \in Seq(T)
<1>1. used(r) \in 0 .. r.sz - 1 /\ avail(r) \in 0 .. r.sz - 1 /\ avail(r) + used(r) = r.sz - 1
  BY RoomAndContent
<1> DEFINE p == Advance(r, r.rpos, num)
<1>2. read(r, num) = [sz |-> r.sz, rpos |-> p, wpos |-> r.wpos, buf |-> r.buf]
  BY DEF IsRing, read
<1>3. p \in 0 .. r.sz - 1 /\ FreeCells(r.sz, p, r.wpos) = avail(r) + num
  <2>1. p = Start(r.sz, Round(r.sz, r.rpos, num))
    BY DEF Advance, Start, Round
  <2>2. avail(r) = FreeCells(r.sz, r.rpos, r.wpos)
    BY DEF avail, FreeCells
  <2>3. num \in Nat /\ num <= r.sz - 1 - avail(r)
    BY <1>1 DEF IsRing
  <2> QED BY <2>1, <2>2, <2>3, RoomMoves DEF IsRing
<1>4. \A i \in 1 .. num : r.buf[Cell(r, r.rpos, i - 1)] \in T
  BY <1>1 DEF IsRing, Cell
<1>5. Peek(r, num) \in Seq(T)
  BY <1>1, <1>4 DEF Peek
<1> HIDE DEF p
<1> QED BY <1>2, <1>3, <1>5 DEF IsRing, avail, FreeCells

(* A ring of s cells that is read at p and written at w holds u: the cell  *)
(* c that is i after p is not within the n that are written next if i < u, *)
(* else it is the (i - u)-th of these.                                     *)
LEMMA RoundTheRing ==
  ASSUME NEW s \in Nat \ {0}, NEW p \in 0 .. s - 1, NEW w \in 0 .. s - 1,
         NEW u, u = (IF w < p THEN s ELSE 0) + w - p,
         NEW n \in Nat, n <= s - 1 - u, NEW i \in Nat, i < u + n,
         NEW c, c = IF p + i >= s THEN p + i - s ELSE p + i,
         NEW o, o = IF c < w THEN c + s - w ELSE c - w
  PROVE  c \in 0 .. s - 1 /\ o \in Nat /\ (i < u => o >= n) /\ (i >= u => o = i - u)
<1>1. CASE w < p /\ p + i >= s
  <2>1. u = s + w - p /\ c = p + i - s
    BY <1>1
  <2> QED BY <1>1, <2>1
<1>2. CASE w < p /\ p + i < s
  <2>1. u = s + w - p /\ c = p + i
    BY <1>2
  <2> QED BY <1>2, <2>1
<1>3. CASE w >= p /\ p + i >= s
  <2>1. u = w - p /\ c = p + i - s
    BY <1>3
  <2> QED BY <1>3, <2>1
<1>4. CASE w >= p /\ p + i < s
  <2>1. u = w - p /\ c = p + i
    BY <1>4
  <2> QED BY <1>4, <2>1
<1> QED BY <1>1, <1>2, <1>3, <1>4

(* So no sample in the ring is overwritten, and the others come after it.  *)
LEMMA CellsWritten ==
  ASSUME NEW r, NEW T, IsRing(r, T), NEW n \in 0 .. avail(r), NEW i \in 0 .. used(r) + n - 1
  PROVE  /\ Cell(r, r.rpos, i) \in 0 .. r.sz - 1
         /\ Offset(r, r.wpos, Cell(r, r.rpos, i)) \in Nat
         /\ i < used(r)  => Offset(r, r.wpos, Cell(r, r.rpos, i)) >= n
         /\ i >= used(r) => Offset(r, r.wpos, Cell(r, r.rpos, i)) = i - used(r)
<1> DEFINE c == Cell(r, r.rpos, i)
           o == Offset(r, r.wpos, c)
<1>1. /\ r.sz \in Nat \ {0} /\ r.rpos \in 0 .. r.sz - 1 /\ r.wpos \in 0 .. r.sz - 1
  BY DEF IsRing
<1>2. avail(r) \in 0 .. r.sz - 1 /\ used(r) \in 0 .. r.sz - 1 /\ avail(r) + used(r) = r.sz - 1
  BY RoomAndContent
<1>3. n \in Nat /\ n <= r.sz - 1 - used(r) /\ i \in Nat /\ i < used(r) + n
  BY <1>1, <1>2
<1>4. /\ used(r) = (IF r.wpos < r.rpos THEN r.sz ELSE 0) + r.wpos - r.rpos
      /\ c = IF r.rpos + i >= r.sz THEN r.rpos + i - r.sz ELSE r.rpos + i
      /\ o = IF c < r.wpos THEN c + r.sz - r.wpos ELSE c - r.wpos
  BY DEF used, Cell, Offset
<1> HIDE DEF c, o
<1>5. /\ c \in 0 .. r.sz - 1 /\ o \in Nat /\ (i < used(r) => o >= n)
      /\ (i >= used(r) => o = i - used(r))
  BY <1>1, <1>3, <1>4, RoundTheRing
<1> QED BY <1>5 DEF c, o

(* After a read the cells are the same, num further on.                    *)
LEMMA CellsRead ==
  ASSUME NEW r, NEW T, IsRing(r, T), NEW num \in 0 .. used(r),
         NEW i \in 0 .. used(r) - num - 1
  PROVE  Cell(r, Advance(r, r.rpos, num), i) = Cell(r, r.rpos, num + i)
<1>1. used(r) \in 0 .. r.sz - 1
  BY RoomAndContent
<1> QED BY <1>1 DEF IsRing, Cell, Advance

(* What is in the ring is a sequence.                                      *)
LEMMA ContentsType ==
  ASSUME NEW r, NEW T, IsRing(r, T)
  PROVE  /\ Contents(r) \in Seq(T) /\ Len(Contents(r)) = used(r)
         /\ \A i \in 1 .. used(r) : Contents(r)[i] = r.buf[Cell(r, r.rpos, i - 1)]
<1>1. used(r) \in 0 .. r.sz - 1 /\ r.sz \in Nat
  BY RoomAndContent DEF IsRing
<1>2. \A i \in 1 .. used(r) : r.buf[Cell(r, r.rpos, i - 1)] \in T
  BY <1>1 DEF IsRing, Cell
<1> QED BY <1>1, <1>2 DEF Contents, Peek

(* What is written comes after what is there.                              *)
LEMMA WriteAppends ==
  ASSUME NEW r, NEW T, IsRing(r, T), NEW in \in Seq(T), Len(in) <= avail(r)
  PROVE  /\ Contents(write(r, in)) = Contents(r) \o in
         /\ used(write(r, in)) = used(r) + Len(in)
<1> DEFINE w == write(r, in)
           n == Len(in)
<1>1. /\ IsRing(w, T) /\ w.sz = r.sz /\ avail(w) = avail(r) - n
  BY WriteTakesRoom
<1>2. /\ avail(r) \in 0 .. r.sz - 1 /\ used(r) \in 0 .. r.sz - 1
      /\ avail(r) + used(r) = r.sz - 1 /\ avail(w) + used(w) = r.sz - 1
      /\ used(w) \in 0 .. r.sz - 1 /\ r.sz \in Nat /\ n \in Nat
  <2>1. /\ avail(r) \in 0 .. r.sz - 1 /\ used(r) \in 0 .. r.sz - 1
        /\ avail(r) + used(r) = r.sz - 1
    BY RoomAndContent
  <2> HIDE DEF w
  <2>2. used(w) \in 0 .. w.sz - 1 /\ avail(w) + used(w) = w.sz - 1
    BY <1>1, RoomAndContent
  <2> QED BY <1>1, <2>1, <2>2 DEF IsRing
<1>3. used(w) = used(r) + n
  BY <1>1, <1>2
<1>4. w.buf = Filled(r, in) /\ w.rpos = r.rpos
  BY DEF write, IsRing
<1> HIDE DEF w, n
<1>5. /\ Contents(r) \in Seq(T) /\ Len(Contents(r)) = used(r)
      /\ \A i \in 1 .. used(r) : Contents(r)[i] = r.buf[Cell(r, r.rpos, i - 1)]
      /\ Contents(w) \in Seq(T) /\ Len(Contents(w)) = used(r) + n
      /\ \A i \in 1 .. used(r) + n : Contents(w)[i] = w.buf[Cell(w, w.rpos, i - 1)]
  BY <1>1, <1>3, ContentsType
<1>6. /\ Contents(r) \o in \in Seq(T) /\ Len(Contents(r) \o in) = used(r) + n
      /\ \A i \in 1 .. used(r) + n :
           (Contents(r) \o in)[i] = IF i <= used(r) THEN Contents(r)[i] ELSE in[i - used(r)]
  BY <1>2, <1>5, ConcatProperties DEF n
<1>7. ASSUME NEW i \in 1 .. used(r) + n
      PROVE  Contents(w)[i] = (Contents(r) \o in)[i]
  <2> DEFINE c == Cell(r, r.rpos, i - 1)
  <2>1. /\ i - 1 \in 0 .. used(r) + n - 1 /\ n \in 0 .. avail(r)
    BY <1>2 DEF n
  <2>2. /\ c \in 0 .. r.sz - 1
        /\ i - 1 < used(r)  => Offset(r, r.wpos, c) >= n
        /\ i - 1 >= used(r) => Offset(r, r.wpos, c) = i - 1 - used(r)
    BY <2>1, CellsWritten
  <2>3. Contents(w)[i] = w.buf[c]
    BY <1>1, <1>4, <1>5 DEF Cell
  <2>4. w.buf[c] = IF Offset(r, r.wpos, c) < n THEN in[Offset(r, r.wpos, c) + 1] ELSE r.buf[c]
    BY <1>4, <2>2 DEF Filled, IsRing, n
  <2>5. Offset(r, r.wpos, c) \in Nat
    BY <2>1, CellsWritten
  <2> HIDE DEF c
  <2>6. CASE i <= used(r)
    <3>1. w.buf[c] = r.buf[c]
      BY <1>2, <2>2, <2>4, <2>5, <2>6
    <3>2. i \in 1 .. used(r)
      BY <1>2, <2>6
    <3> QED BY <1>5, <1>6, <2>3, <2>6, <3>1, <3>2 DEF c
  <2>7. CASE i > used(r)
    <3>1. Offset(r, r.wpos, c) = i - 1 - used(r) /\ i - 1 - used(r) < n
      BY <1>2, <2>2, <2>7
    <3>2. Offset(r, r.wpos, c) + 1 = i - used(r)
      BY <1>2, <3>1
    <3> QED BY <1>2, <1>6, <2>3, <2>4, <2>7, <3>1, <3>2
  <2>8. used(r) \in Nat /\ i \in Nat
    BY <1>2
  <2>9. i <= used(r) \/ i > used(r)
    BY <2>8
  <2> QED BY <2>6, <2>7, <2>9
<1>8. Contents(w) = Contents(r) \o in
  BY <1>2, <1>5, <1>6, <1>7, SeqEqual
<1> QED BY <1>3, <1>8 DEF w, n

(* What is read is taken from the front.                                   *)
LEMMA ReadTakes ==
  ASSUME NEW r, NEW T, IsRing(r, T), NEW num \in 0 .. used(r)
  PROVE  /\ Peek(r, num) = SubSeq(Contents(r), 1, num)
         /\ Contents(read(r, num)) = SubSeq(Contents(r), num + 1, Len(Contents(r)))
         /\ used(read(r, num)) = used(r) - num
<1> DEFINE d == read(r, num)
           u == used(r)
           front == SubSeq(Contents(r), 1, num)
           rest  == SubSeq(Contents(r), num + 1, u)
<1>1. IsRing(d, T) /\ d.sz = r.sz /\ avail(d) = avail(r) + num
  BY ReadMakesRoom
<1>2. /\ avail(r) \in 0 .. r.sz - 1 /\ u \in 0 .. r.sz - 1
      /\ avail(r) + u = r.sz - 1 /\ avail(d) + used(d) = r.sz - 1
      /\ used(d) \in 0 .. r.sz - 1 /\ r.sz \in Nat /\ num \in Nat
  <2>1. /\ avail(r) \in 0 .. r.sz - 1 /\ used(r) \in 0 .. r.sz - 1
        /\ avail(r) + used(r) = r.sz - 1
    BY RoomAndContent
  <2> HIDE DEF d
  <2>2. used(d) \in 0 .. d.sz - 1 /\ avail(d) + used(d) = d.sz - 1
    BY <1>1, RoomAndContent
  <2> QED BY <1>1, <2>1, <2>2 DEF IsRing
<1>3. used(d) = u - num
  BY <1>1, <1>2
<1>4. d.buf = r.buf /\ d.rpos = Advance(r, r.rpos, num)
  BY DEF read, IsRing
<1> HIDE DEF d
<1>5. /\ Contents(r) \in Seq(T) /\ Len(Contents(r)) = u
      /\ \A i \in 1 .. u : Contents(r)[i] = r.buf[Cell(r, r.rpos, i - 1)]
      /\ Contents(d) \in Seq(T) /\ Len(Contents(d)) = u - num
      /\ \A i \in 1 .. u - num : Contents(d)[i] = r.buf[Cell(d, d.rpos, i - 1)]
  BY <1>1, <1>3, <1>4, ContentsType
<1> HIDE DEF u
<1>6. /\ rest \in Seq(T) /\ Len(rest) = u - num
      /\ \A i \in 1 .. u - num : rest[i] = Contents(r)[num + i]
  BY <1>2, <1>5 
<1>7. ASSUME NEW i \in 1 .. u - num PROVE Contents(d)[i] = rest[i]
  <2>1. Cell(d, d.rpos, i - 1) = Cell(r, r.rpos, num + (i - 1))
    <3>1. i - 1 \in 0 .. used(r) - num - 1
      BY <1>2 DEF u
    <3>2. Cell(r, Advance(r, r.rpos, num), i - 1) = Cell(r, r.rpos, num + (i - 1))
      BY <3>1, CellsRead
    <3> QED BY <1>1, <1>4, <3>2 DEF Cell
  <2>2. num + i \in 1 .. u /\ num + i - 1 = num + (i - 1)
    BY <1>2
  <2>3. Contents(r)[num + i] = r.buf[Cell(r, r.rpos, num + i - 1)]
    BY <1>5, <2>2
  <2> QED BY <1>5, <1>6, <2>1, <2>2, <2>3
<1>8. Contents(d) = rest
  <2> HIDE DEF rest
  <2> QED BY <1>2, <1>5, <1>6, <1>7, SeqEqual
<1>9. Peek(r, num) = front
  <2>1. front = [i \in 1 .. num |-> Contents(r)[i]]
    BY <1>2, <1>5
  <2>2. \A i \in 1 .. num : Contents(r)[i] = r.buf[Cell(r, r.rpos, i - 1)]
    BY <1>2, <1>5
  <2> QED BY <2>1, <2>2 DEF Peek
<1> QED BY <1>3, <1>5, <1>8, <1>9 DEF d, u

-----------------------------------------------------------------------------
(* The driver.                                                             *)

(* The inductive invariant: besides the properties themselves, the device  *)
(* plays during the whole of a write, and what is left of a block is a     *)
(* number of whole pairs.                                                  *)
DriverInv ==
  /\ IsRing(rbuf, Samples)
  /\ TypeOK
  /\ NoLostSignal
  /\ SleepsOnlyWhilePlaying
  /\ writer # "idle" => playing
  /\ Len(wave) % 2 = 0

(* The fields of a ring whose size is one of Sizes.                        *)
LEMMA RingType ==
  ASSUME NEW r, IsRing(r, Samples), r.sz - 1 \in Sizes
  PROVE  /\ r.rpos \in 0 .. r.sz - 1 /\ r.wpos \in 0 .. r.sz - 1
         /\ r.buf \in [0 .. r.sz - 1 -> Samples]
BY DEF IsRing

(* The samples of a frame are samples, and so is the number of the next.   *)
LEMMA BlockType ==
  ASSUME next \in Samples, NEW n \in Nat
  PROVE  Block(n) \in Seq(Samples) /\ (next + 2 * n) % Numbers \in Samples
<1>1. Numbers \in Nat \ {0}
  <2>1. PICK s \in Sizes : TRUE
    BY SizesAssumption, Zenon
  <2>2. s \in Nat /\ s > 1
    BY SizesAssumption
  <2> QED BY <2>2, NumbersAssumption
<1>2. \A k \in Nat : k % Numbers \in Samples
  BY <1>1 DEF Samples
<1>3. \A i \in 1 .. 2 * n : next + i - 1 \in Nat
  BY <1>1 DEF Samples
<1>4. next + 2 * n \in Nat
  BY <1>1 DEF Samples
<1> QED BY <1>2, <1>3, <1>4 DEF Block

(* SoundSDL::init leaves the invariant true.                               *)
LEMMA InitDriverInv == Init => DriverInv
<1> SUFFICES ASSUME Init PROVE DriverInv
  OBVIOUS
<1>1. PICK s \in Sizes :
        rbuf = [sz |-> s + 1, rpos |-> 0, wpos |-> 0, buf |-> [c \in 0 .. s |-> 0]]
  BY DEF Init
<1>2. s \in Nat /\ s > 1 /\ 0 \in Samples
  BY SizesAssumption, NumbersAssumption DEF Samples
<1>3. IsRing(rbuf, Samples) /\ rbuf.sz - 1 \in Sizes
  BY <1>1, <1>2 DEF IsRing
<1>4. TypeOK
  <2>1. next \in Samples /\ request \in Requests \cup {0}
    BY <1>2 DEF Init
  <2>2. wave \in Seq(Samples) /\ stream \in Seq(Samples)
    BY DEF Init
  <2>3. /\ rbuf.rpos \in Cells /\ rbuf.wpos \in Cells /\ rbuf.buf \in [Cells -> Samples]
    BY <1>3, RingType DEF Cells
  <2>4. /\ writer \in {"idle"} /\ player \in {"idle"}
        /\ playing \in BOOLEAN /\ emulating \in BOOLEAN /\ speedup \in BOOLEAN
    BY DEF Init
  <2> QED BY <1>3, <2>1, <2>2, <2>3, <2>4 DEF TypeOK
<1> QED BY <1>3, <1>4 DEF DriverInv, NoLostSignal, SleepsOnlyWhilePlaying, Init

(* What every step may use: the ring is a ring, free and filled cells are  *)
(* numbers, the rest of the block consists of pairs.                       *)
LEMMA StateFacts ==
  ASSUME DriverInv
  PROVE  /\ avail(rbuf) \in Nat /\ used(rbuf) \in Nat /\ IsRing(rbuf, Samples)
         /\ wave \in Seq(Samples) /\ Len(wave) \in Nat /\ Len(wave) % 2 = 0
         /\ request \in Nat
<1>1. IsRing(rbuf, Samples)
  BY DEF DriverInv
<1>2. rbuf.sz \in Nat \ {0}
  BY <1>1 DEF IsRing
<1>3. avail(rbuf) \in 0 .. rbuf.sz - 1 /\ used(rbuf) \in 0 .. rbuf.sz - 1
  BY <1>1, RoomAndContent
<1>4. wave \in Seq(Samples) /\ Len(wave) % 2 = 0
  BY DEF DriverInv, TypeOK
<1>5. request \in Nat
  <2>1. request \in Requests \cup {0}
    BY DEF DriverInv, TypeOK
  <2> QED BY <2>1, RequestsAssumption
<1>6. Len(wave) \in Nat
  BY <1>4
<1> QED BY <1>1, <1>2, <1>3, <1>4, <1>5, <1>6

(* The writer puts the first k samples of the block in the ring.           *)
LEMMA Filling ==
  ASSUME DriverInv, NEW k \in 0 .. Len(wave), k <= avail(rbuf),
         rbuf' = write(rbuf, SubSeq(wave, 1, k))
  PROVE  /\ IsRing(rbuf', Samples)
         /\ rbuf'.sz = rbuf.sz
         /\ avail(rbuf') = avail(rbuf) - k
         /\ SubSeq(wave, k + 1, Len(wave)) \in Seq(Samples)
<1>1. wave \in Seq(Samples) /\ IsRing(rbuf, Samples)
  BY DEF DriverInv, TypeOK
<1>2. SubSeq(wave, 1, k) \in Seq(Samples) /\ Len(SubSeq(wave, 1, k)) = k
  BY <1>1
<1>3. SubSeq(wave, k + 1, Len(wave)) \in Seq(Samples)
  BY <1>1
<1>4. \A in \in Seq(Samples) : Len(in) <= avail(rbuf) =>
         /\ IsRing(write(rbuf, in), Samples)
         /\ write(rbuf, in).sz = rbuf.sz
         /\ avail(write(rbuf, in)) = avail(rbuf) - Len(in)
  BY <1>1, WriteTakesRoom
<1> QED BY <1>2, <1>3, <1>4

(* What is left of the room when whole pairs were put in is no pair.       *)
LEMMA Halves ==
  ASSUME NEW a \in Nat, NEW b \in Nat, b % 2 = 0
  PROVE  /\ 2 * (a \div 2) \in 0 .. a
         /\ (a - 2 * (a \div 2)) \div 2 = 0
         /\ (b - 2 * (a \div 2)) % 2 = 0
         /\ a \div 2 < b \div 2 => 2 * (a \div 2) < b
         /\ ~(a \div 2 < b \div 2) => b <= a
OBVIOUS

(* What the loop of SoundSDL::write may put into the ring: whole pairs that*)
(* fit, after which no pair fits any more; after the loop the rest fits.   *)
LEMMA RoomFacts ==
  ASSUME avail(rbuf) \in Nat, Len(wave) \in Nat, Len(wave) % 2 = 0
  PROVE  /\ NoRoom => /\ Room \in 0 .. Len(wave) /\ Room <= avail(rbuf)
                      /\ Pairs(avail(rbuf) - Room) = 0
                      /\ (Len(wave) - Room) % 2 = 0
         /\ ~NoRoom => Len(wave) <= avail(rbuf)
<1> DEFINE a == avail(rbuf)
           b == Len(wave)
<1> HIDE DEF a, b
<1> SUFFICES
      /\ a \div 2 < b \div 2 =>
           /\ 2 * (a \div 2) \in 0 .. b /\ 2 * (a \div 2) <= a
           /\ (a - 2 * (a \div 2)) \div 2 = 0 /\ (b - 2 * (a \div 2)) % 2 = 0
      /\ ~(a \div 2 < b \div 2) => b <= a
  BY DEF NoRoom, Room, Pairs, a, b
<1>1. a \in Nat /\ b \in Nat /\ b % 2 = 0
  BY DEF a, b
<1>2. 2 * (a \div 2) \in 0 .. a
  BY <1>1, Halves
<1> QED BY <1>1, <1>2, Halves

(* The call of SoundSDL::write sets the device going and brings whole      *)
(* pairs.                                                                  *)
LEMMA WriteInv ==
  ASSUME DriverInv, NEW n \in Blocks, Write(n)
  PROVE  DriverInv'
<1>1. n \in Nat
  BY BlocksAssumption
<1>2. wave' \in Seq(Samples) /\ next' \in Samples
  BY <1>1, BlockType DEF Write, DriverInv, TypeOK
<1>3. Len(wave') = 2 * n
  BY <1>1 DEF Write, Block
<1>4. Len(wave') % 2 = 0
  BY <1>1, <1>3
<1> QED BY <1>2, <1>4 DEF DriverInv, TypeOK, NoLostSignal, SleepsOnlyWhilePlaying, Write, ringVars, Cells

(* A turn of the loop fills the ring so far that waiting is right.         *)
LEMMA FillAndWaitInv ==
  ASSUME DriverInv, FillAndWait
  PROVE  DriverInv'
<1>1. /\ avail(rbuf) \in Nat /\ Len(wave) \in Nat /\ IsRing(rbuf, Samples)
      /\ wave \in Seq(Samples) /\ Len(wave) % 2 = 0
  BY StateFacts
<1> DEFINE k == Room
<1>2. NoRoom
  BY DEF FillAndWait
<1>3. /\ k \in 0 .. Len(wave) /\ k <= avail(rbuf) /\ Pairs(avail(rbuf) - k) = 0
      /\ (Len(wave) - k) % 2 = 0
  BY <1>1, <1>2, RoomFacts
<1>4. /\ rbuf' = write(rbuf, SubSeq(wave, 1, k)) /\ wave' = SubSeq(wave, k + 1, Len(wave))
  BY DEF FillAndWait
<1> HIDE DEF k
<1>5. /\ IsRing(rbuf', Samples) /\ rbuf'.sz = rbuf.sz /\ avail(rbuf') = avail(rbuf) - k
      /\ wave' \in Seq(Samples)
  BY <1>3, <1>4, Filling
<1>6. Len(wave') % 2 = 0
  <2>1. Len(wave') = Len(wave) - k
    BY <1>1, <1>3, <1>4
  <2> QED BY <1>3, <2>1
<1>7. /\ rbuf'.sz - 1 \in Sizes /\ rbuf'.rpos \in Cells' /\ rbuf'.wpos \in Cells'
      /\ rbuf'.buf \in [Cells' -> Samples]
  BY <1>5, RingType DEF DriverInv, TypeOK, Cells
<1>8. NoLostSignal'
  BY <1>3, <1>5 DEF NoLostSignal
<1> QED BY <1>5, <1>6, <1>7, <1>8
    DEF DriverInv, TypeOK, SleepsOnlyWhilePlaying, FillAndWait, flags

(* So do the last turn and the copy after the loop.                        *)
LEMMA FillInv ==
  ASSUME DriverInv, FillAndDrop \/ FillAndReturn
  PROVE  DriverInv'
<1>1. /\ avail(rbuf) \in Nat /\ Len(wave) \in Nat /\ IsRing(rbuf, Samples)
      /\ wave \in Seq(Samples) /\ Len(wave) % 2 = 0
  BY StateFacts
<1>2. PICK k \in 0 .. Len(wave) : k <= avail(rbuf) /\ rbuf' = write(rbuf, SubSeq(wave, 1, k))
  <2>1. CASE FillAndDrop
    <3>1. Room \in 0 .. Len(wave) /\ Room <= avail(rbuf)
      BY <1>1, <2>1, RoomFacts DEF FillAndDrop
    <3> QED BY <2>1, <3>1 DEF FillAndDrop
  <2>2. CASE FillAndReturn
    <3>1. SubSeq(wave, 1, Len(wave)) = wave
      BY <1>1
    <3>2. Len(wave) \in 0 .. Len(wave) /\ Len(wave) <= avail(rbuf)
      BY <1>1, <2>2, RoomFacts DEF FillAndReturn
    <3> QED BY <2>2, <3>1, <3>2 DEF FillAndReturn
  <2> QED BY <2>1, <2>2
<1>3. IsRing(rbuf', Samples) /\ rbuf'.sz = rbuf.sz
  BY <1>2, Filling
<1>4. /\ rbuf'.sz - 1 \in Sizes /\ rbuf'.rpos \in Cells' /\ rbuf'.wpos \in Cells'
      /\ rbuf'.buf \in [Cells' -> Samples]
  BY <1>3, RingType DEF DriverInv, TypeOK, Cells
<1>5. wave' = <<>> /\ writer' = "idle" /\ UNCHANGED <<next, player, request, stream, flags>>
  BY DEF FillAndDrop, FillAndReturn
<1>6. wave' \in Seq(Samples) /\ Len(wave') % 2 = 0
  BY <1>5
<1> QED BY <1>3, <1>4, <1>5, <1>6
    DEF DriverInv, TypeOK, NoLostSignal, SleepsOnlyWhilePlaying, flags

(* SoundSDL::read frees cells and signals, so that no waiting writer is    *)
(* left behind.                                                            *)
LEMMA ReadInv ==
  ASSUME DriverInv, Read
  PROVE  DriverInv'
<1>1. /\ used(rbuf) \in Nat /\ IsRing(rbuf, Samples) /\ request \in Nat
  BY StateFacts
<1>2. PICK num \in 0 .. used(rbuf) : stream' = Peek(rbuf, num) /\ rbuf' = read(rbuf, num)
  BY <1>1 DEF Read
<1>3. IsRing(rbuf', Samples) /\ rbuf'.sz = rbuf.sz /\ stream' \in Seq(Samples)
  BY <1>1, <1>2, ReadMakesRoom
<1>4. /\ rbuf'.sz - 1 \in Sizes /\ rbuf'.rpos \in Cells' /\ rbuf'.wpos \in Cells'
      /\ rbuf'.buf \in [Cells' -> Samples]
  BY <1>3, RingType DEF DriverInv, TypeOK, Cells
<1>5. writer' # "waiting" /\ writer' \in {"idle", "locking", "filling", "waiting", "signaled"}
  BY DEF Read, DriverInv, TypeOK
<1>6. writer' # "idle" => writer # "idle"
  BY DEF Read
<1> QED BY <1>3, <1>4, <1>5, <1>6
    DEF DriverInv, TypeOK, NoLostSignal, SleepsOnlyWhilePlaying, Read, flags

(* Every step of either thread keeps the invariant.                        *)
LEMMA NextDriverInv == DriverInv /\ [Next]_vars => DriverInv'
<1> SUFFICES ASSUME DriverInv, [Next]_vars PROVE DriverInv'
  OBVIOUS
<1> USE DEF DriverInv, TypeOK, NoLostSignal, SleepsOnlyWhilePlaying, Cells, ringVars, flags
<1>1. ASSUME NEW n \in Blocks, Write(n) PROVE DriverInv'
  BY <1>1, WriteInv
<1>2. CASE Lock
  BY <1>2 DEF Lock
<1>3. CASE FillAndWait
  BY <1>3, FillAndWaitInv
<1>4. CASE FillAndDrop \/ FillAndReturn
  BY <1>4, FillInv
<1>5. CASE SpuriousWakeup
  BY <1>5 DEF SpuriousWakeup
<1>6. ASSUME NEW k \in Requests, Callback(k) PROVE DriverInv'
  BY <1>6 DEF Callback
<1>7. CASE Read
  BY <1>7, ReadInv
<1>8. CASE SetSpeedup \/ SetEmulating \/ Pause
  BY <1>8 DEF SetSpeedup, SetEmulating, Pause
<1>9. CASE UNCHANGED vars
  BY <1>9 DEF vars
<1> QED BY <1>1, <1>2, <1>3, <1>4, <1>5, <1>6, <1>7, <1>8, <1>9 DEF Next

-----------------------------------------------------------------------------
(* SoundSDL.cpp keeps every variable in its type: for every size of the    *)
(* ring the positions stay inside it (RingBuffer has no check).            *)
THEOREM DriverTypes == Spec => []TypeOK
<1> QED BY InitDriverInv, NextDriverInv, PTL DEF Spec, DriverInv

(* SoundSDL::write never waits on a ring with room for a sample, whatever  *)
(* the sizes and wherever the callback runs.                               *)
THEOREM SignalsAreNotLost == Spec => []NoLostSignal
<1> QED BY InitDriverInv, NextDriverInv, PTL DEF Spec, DriverInv

(* SoundSDL::write only waits while the callback runs and will signal.     *)
THEOREM SleepsOnlyIfPlaying == Spec => []SleepsOnlyWhilePlaying
<1> QED BY InitDriverInv, NextDriverInv, PTL DEF Spec, DriverInv

-----------------------------------------------------------------------------
(* Pairs.                                                                  *)

(* Left and right take turns, left first.                                  *)
Paired(q) == \A i \in 1 .. Len(q) : q[i] % 2 = (i + 1) % 2

PairsInv ==
  /\ DriverInv
  /\ Paired(Contents(rbuf)) /\ used(rbuf) % 2 = 0
  /\ Paired(wave)
  /\ next % 2 = 0
  /\ request % 2 = 0
  /\ writer = "idle" => wave = <<>>

(* Taking the remainder of an even number keeps the parity.                *)
LEMMA EvenModulus ==
  ASSUME NEW n \in Nat \ {0}, n % 2 = 0, NEW x \in Nat
  PROVE  (x % n) % 2 = x % 2
<1>1. PICK h \in Nat : n = 2 * h
  <2>1. n = 2 * (n \div 2) /\ n \div 2 \in Nat
    OBVIOUS
  <2> QED BY <2>1
<1>2. PICK q \in Nat : x = n * q + (x % n)
  <2>1. x = n * (x \div n) + (x % n) /\ x \div n \in Nat
    OBVIOUS
  <2> QED BY <2>1
<1>3. x % n \in Nat
  OBVIOUS
<1> DEFINE y == x % n
           w == h * q
<1>4. n * q = 2 * w
  BY <1>1
<1>5. w \in Nat
  BY <1>1
<1>6. x = 2 * w + y
  BY <1>2, <1>4
<1> HIDE DEF w, y
<1>7. y \in Nat
  BY <1>3 DEF y
<1>8. x % 2 = y % 2
  BY <1>5, <1>6, <1>7
<1> QED BY <1>8 DEF y

(* A frame's samples are pairs, and the number of the next one is even.    *)
LEMMA BlockPaired ==
  ASSUME next \in Samples, next % 2 = 0, NEW n \in Nat
  PROVE  Paired(Block(n)) /\ ((next + 2 * n) % Numbers) % 2 = 0
<1>1. Numbers \in Nat \ {0} /\ Numbers % 2 = 0
  BY NumbersAssumption DEF Samples
<1>2. ASSUME NEW i \in 1 .. 2 * n
      PROVE  ((next + i - 1) % Numbers) % 2 = (i + 1) % 2
  <2>1. next + i - 1 \in Nat /\ next \in Nat
    BY <1>1 DEF Samples
  <2>2. ((next + i - 1) % Numbers) % 2 = (next + i - 1) % 2
    BY <1>1, <2>1, EvenModulus
  <2>3. (next + i - 1) % 2 = (i + 1) % 2
    BY <2>1
  <2> QED BY <2>2, <2>3
<1>3. ((next + 2 * n) % Numbers) % 2 = 0
  <2>1. next + 2 * n \in Nat /\ (next + 2 * n) % 2 = 0
    BY <1>1 DEF Samples
  <2> QED BY <1>1, <2>1, EvenModulus
<1>4. Len(Block(n)) = 2 * n
  BY DEF Block
<1> QED BY <1>2, <1>3, <1>4 DEF Paired, Block

(* An even shift keeps the parity.                                         *)
LEMMA EvenShift ==
  ASSUME NEW k \in Nat, k % 2 = 0, NEW i \in Nat, k <= i
  PROVE  (i - k + 1) % 2 = (i + 1) % 2
<1>1. PICK h \in Nat : k = 2 * h
  <2>1. k = 2 * (k \div 2) /\ k \div 2 \in Nat
    OBVIOUS
  <2> QED BY <2>1
<1> QED BY <1>1

(* And two even numbers make one.                                          *)
LEMMA EvenSum ==
  ASSUME NEW k \in Nat, k % 2 = 0, NEW i \in Nat, i % 2 = 0
  PROVE  (i + k) % 2 = 0
<1>1. PICK h \in Nat : k = 2 * h
  <2>1. k = 2 * (k \div 2) /\ k \div 2 \in Nat
    OBVIOUS
  <2> QED BY <2>1
<1> QED BY <1>1

(* Pairs after pairs are pairs.                                            *)
LEMMA PairsConcat ==
  ASSUME NEW a \in Seq(Samples), NEW b \in Seq(Samples), Paired(a), Paired(b), Len(a) % 2 = 0
  PROVE  Paired(a \o b)
<1>1. /\ Len(a) \in Nat /\ Len(b) \in Nat /\ Len(a \o b) = Len(a) + Len(b)
      /\ \A i \in 1 .. Len(a) + Len(b) :
           (a \o b)[i] = IF i <= Len(a) THEN a[i] ELSE b[i - Len(a)]
  BY ConcatProperties, LenProperties
<1>2. ASSUME NEW i \in 1 .. Len(a) + Len(b)
      PROVE  (a \o b)[i] % 2 = (i + 1) % 2
  <2>1. CASE i <= Len(a)
    BY <1>1, <2>1 DEF Paired
  <2>2. CASE i > Len(a)
    <3>1. i - Len(a) \in 1 .. Len(b)
      BY <1>1, <2>2
    <3>2. b[i - Len(a)] % 2 = (i - Len(a) + 1) % 2
      BY <3>1 DEF Paired
    <3>3. (i - Len(a) + 1) % 2 = (i + 1) % 2
      <4>1. Len(a) <= i /\ i \in Nat
        BY <1>1, <2>2
      <4> QED BY <1>1, <4>1, EvenShift
    <3>4. (a \o b)[i] = b[i - Len(a)]
      BY <1>1, <2>2
    <3> QED BY <3>2, <3>3, <3>4
  <2> QED BY <1>1, <2>1, <2>2
<1> QED BY <1>1, <1>2 DEF Paired

(* Cut between two pairs, both parts are pairs.                            *)
LEMMA PairsCut ==
  ASSUME NEW a \in Seq(Samples), Paired(a), NEW k \in 0 .. Len(a)
  PROVE  /\ Paired(SubSeq(a, 1, k))
         /\ k % 2 = 0 => Paired(SubSeq(a, k + 1, Len(a)))
<1>1. Len(a) \in Nat /\ k \in Nat
  BY LenProperties
<1>2. /\ Len(SubSeq(a, 1, k)) = k /\ \A i \in 1 .. k : SubSeq(a, 1, k)[i] = a[i]
  BY <1>1
<1>3. /\ Len(SubSeq(a, k + 1, Len(a))) = Len(a) - k
      /\ \A i \in 1 .. Len(a) - k : SubSeq(a, k + 1, Len(a))[i] = a[k + i]
  BY <1>1
<1>4. ASSUME NEW i \in 1 .. Len(a) - k, k % 2 = 0
      PROVE  a[k + i] % 2 = (i + 1) % 2
  <2>1. k + i \in 1 .. Len(a)
    BY <1>1
  <2>2. a[k + i] % 2 = (k + i + 1) % 2
    BY <2>1 DEF Paired
  <2>3. (k + i + 1) % 2 = (i + 1) % 2
    BY <1>1, <1>4
  <2> QED BY <2>2, <2>3
<1>5. ASSUME k % 2 = 0 PROVE Paired(SubSeq(a, k + 1, Len(a)))
  BY <1>3, <1>4, <1>5 DEF Paired
<1>6. Paired(SubSeq(a, 1, k))
  <2>1. \A i \in 1 .. k : i \in 1 .. Len(a)
    BY <1>1
  <2> QED BY <1>2, <2>1 DEF Paired
<1> QED BY <1>5, <1>6

(* The ring fills from the front of the block: whole pairs, or all of it.  *)
LEMMA FillsPairs ==
  ASSUME PairsInv, NEW k \in 0 .. Len(wave), k <= avail(rbuf),
         rbuf' = write(rbuf, SubSeq(wave, 1, k))
  PROVE  /\ Contents(rbuf') = Contents(rbuf) \o SubSeq(wave, 1, k)
         /\ Len(Contents(rbuf)) = used(rbuf)
         /\ used(rbuf') = used(rbuf) + k /\ rbuf'.sz = rbuf.sz
         /\ Paired(Contents(rbuf'))
         /\ k % 2 = 0 => used(rbuf') % 2 = 0 /\ Paired(SubSeq(wave, k + 1, Len(wave)))
<1>1. /\ IsRing(rbuf, Samples) /\ wave \in Seq(Samples) /\ used(rbuf) \in Nat
  BY StateFacts DEF PairsInv
<1> DEFINE in == SubSeq(wave, 1, k)
<1>2. /\ in \in Seq(Samples) /\ Len(in) = k /\ k \in Nat
  BY <1>1
<1>3. Paired(in) /\ (k % 2 = 0 => Paired(SubSeq(wave, k + 1, Len(wave))))
  BY <1>1, PairsCut DEF PairsInv
<1> HIDE DEF in
<1>4. /\ Contents(rbuf') = Contents(rbuf) \o in /\ used(rbuf') = used(rbuf) + k
      /\ rbuf'.sz = rbuf.sz
  BY <1>1, <1>2, WriteAppends, WriteTakesRoom DEF in
<1>5. Contents(rbuf) \in Seq(Samples) /\ Len(Contents(rbuf)) = used(rbuf)
  BY <1>1, ContentsType
<1>6. Paired(Contents(rbuf'))
  BY <1>2, <1>3, <1>4, <1>5, PairsConcat DEF PairsInv
<1>7. k % 2 = 0 => used(rbuf') % 2 = 0
  <2>1. used(rbuf) % 2 = 0
    BY DEF PairsInv
  <2> QED BY <1>1, <1>2, <1>4, <2>1, EvenSum
<1> QED BY <1>3, <1>4, <1>5, <1>6, <1>7 DEF in

(* How much a turn of the loop puts in: an even number of samples.         *)
LEMMA EvenFill ==
  ASSUME PairsInv, FillAndWait \/ FillAndDrop \/ FillAndReturn
  PROVE  \E k \in 0 .. Len(wave) :
           /\ k <= avail(rbuf) /\ k % 2 = 0 /\ rbuf' = write(rbuf, SubSeq(wave, 1, k))
           /\ \/ FillAndWait /\ wave' = SubSeq(wave, k + 1, Len(wave)) /\ writer' = "waiting"
              \/ wave' = <<>>
           /\ UNCHANGED <<next, request, stream>>
<1>1. /\ avail(rbuf) \in Nat /\ Len(wave) \in Nat /\ wave \in Seq(Samples) /\ Len(wave) % 2 = 0
  BY StateFacts DEF PairsInv
<1>2. UNCHANGED <<next, request, stream>>
  BY DEF FillAndWait, FillAndDrop, FillAndReturn
<1>3. CASE FillAndWait \/ FillAndDrop
  <2>1. NoRoom /\ Room \in 0 .. Len(wave) /\ Room <= avail(rbuf)
    BY <1>1, <1>3, RoomFacts DEF FillAndWait, FillAndDrop
  <2>2. Room % 2 = 0
    BY <1>1 DEF Room, Pairs
  <2> QED BY <1>2, <1>3, <2>1, <2>2 DEF FillAndWait, FillAndDrop
<1>4. CASE FillAndReturn
  <2>1. SubSeq(wave, 1, Len(wave)) = wave
    BY <1>1
  <2>2. Len(wave) \in 0 .. Len(wave) /\ Len(wave) <= avail(rbuf)
    BY <1>1, <1>4, RoomFacts DEF FillAndReturn
  <2> QED BY <1>1, <1>2, <1>4, <2>1, <2>2 DEF FillAndReturn
<1> QED BY <1>3, <1>4

(* The callback takes an even number of samples, too.                      *)
LEMMA EvenTake ==
  ASSUME PairsInv, Read
  PROVE  \E num \in 0 .. used(rbuf) :
           /\ num % 2 = 0 /\ stream' = Peek(rbuf, num) /\ rbuf' = read(rbuf, num)
<1>1. used(rbuf) \in Nat /\ request \in Nat /\ used(rbuf) % 2 = 0 /\ request % 2 = 0
  BY StateFacts DEF PairsInv
<1> QED BY <1>1 DEF Read

(* A step of either thread leaves pairs.                                   *)
LEMMA NextPairsInv == PairsInv /\ DriverInv' /\ [Next]_vars => PairsInv'
<1> SUFFICES ASSUME PairsInv, DriverInv', [Next]_vars PROVE PairsInv'
  OBVIOUS
<1>1. CASE FillAndWait \/ FillAndDrop \/ FillAndReturn
  <2>1. PICK k \in 0 .. Len(wave) :
          /\ k <= avail(rbuf) /\ k % 2 = 0 /\ rbuf' = write(rbuf, SubSeq(wave, 1, k))
          /\ \/ FillAndWait /\ wave' = SubSeq(wave, k + 1, Len(wave)) /\ writer' = "waiting"
             \/ wave' = <<>>
          /\ UNCHANGED <<next, request, stream>>
    BY <1>1, EvenFill
  <2>2. /\ Paired(Contents(rbuf')) /\ used(rbuf') % 2 = 0
        /\ Paired(SubSeq(wave, k + 1, Len(wave)))
    BY <2>1, FillsPairs
  <2>3. Paired(<<>>)
    BY DEF Paired
  <2>4. Paired(wave') /\ (writer' = "idle" => wave' = <<>>)
    BY <2>1, <2>2, <2>3
  <2> QED BY <2>1, <2>2, <2>4 DEF PairsInv
<1>2. CASE Read
  <2>1. PICK num \in 0 .. used(rbuf) :
          /\ num % 2 = 0 /\ stream' = Peek(rbuf, num) /\ rbuf' = read(rbuf, num)
    BY <1>2, EvenTake
  <2>2. /\ IsRing(rbuf, Samples) /\ used(rbuf) \in Nat /\ used(rbuf) % 2 = 0
    BY StateFacts DEF PairsInv
  <2>3. /\ Contents(rbuf') = SubSeq(Contents(rbuf), num + 1, Len(Contents(rbuf)))
        /\ used(rbuf') = used(rbuf) - num
    BY <2>1, <2>2, ReadTakes
  <2>4. Contents(rbuf) \in Seq(Samples) /\ Len(Contents(rbuf)) = used(rbuf)
    BY <2>2, ContentsType
  <2>5. Paired(Contents(rbuf'))
    BY <2>1, <2>3, <2>4, PairsCut DEF PairsInv
  <2>6. used(rbuf') % 2 = 0
    BY <2>1, <2>2, <2>3
  <2>7. request' = 0 /\ next' = next /\ wave' = wave /\ (writer' = "idle" => writer = "idle")
    BY <1>2 DEF Read
  <2> QED BY <2>5, <2>6, <2>7 DEF PairsInv
<1>3. ASSUME NEW n \in Blocks, Write(n) PROVE PairsInv'
  <2>1. n \in Nat /\ next \in Samples /\ next % 2 = 0
    BY BlocksAssumption DEF PairsInv, DriverInv, TypeOK
  <2>2. Paired(wave') /\ next' % 2 = 0
    BY <1>3, <2>1, BlockPaired DEF Write
  <2> QED BY <1>3, <2>2 DEF PairsInv, Write, ringVars
<1>4. ASSUME NEW k \in Requests, Callback(k) PROVE PairsInv'
  <2>1. request' % 2 = 0
    BY <1>4, RequestsAssumption DEF Callback
  <2> QED BY <1>4, <2>1 DEF PairsInv, Callback, ringVars
<1>5. CASE Lock \/ SpuriousWakeup \/ SetSpeedup \/ SetEmulating \/ Pause \/ UNCHANGED vars
  BY <1>5 DEF PairsInv, Lock, SpuriousWakeup, SetSpeedup, SetEmulating, Pause, vars, ringVars
<1> QED BY <1>1, <1>2, <1>3, <1>4, <1>5 DEF Next

(* The stereo pairs are never torn apart, for every size of ring, block    *)
(* and request.                                                            *)
LEMMA PairsInvariance == Spec => []PairsInv
<1>1. Init => PairsInv
  <2> SUFFICES ASSUME Init PROVE PairsInv
    OBVIOUS
  <2>1. DriverInv
    BY InitDriverInv
  <2>2. used(rbuf) = 0
    <3>1. PICK s \in Sizes :
            rbuf = [sz |-> s + 1, rpos |-> 0, wpos |-> 0, buf |-> [c \in 0 .. s |-> 0]]
      BY DEF Init
    <3> QED BY <3>1 DEF used
  <2>3. Len(Contents(rbuf)) = 0
    BY <2>1, <2>2, ContentsType DEF DriverInv
  <2> QED BY <2>1, <2>2, <2>3 DEF Init, PairsInv, Paired
<1>2. DriverInv /\ [Next]_vars => DriverInv'
  BY NextDriverInv
<1>3. PairsInv => DriverInv
  BY DEF PairsInv
<1> QED BY <1>1, <1>2, <1>3, NextPairsInv, PTL DEF Spec

(* SoundSDL.cpp keeps left and right apart, in the ring and in what is     *)
(* left of a block.                                                        *)
THEOREM ChannelsKeepTheirSide == Spec => []ChannelsStayPaired
<1>1. PairsInv => ChannelsStayPaired
  <2> SUFFICES ASSUME PairsInv PROVE ChannelsStayPaired
    OBVIOUS
  <2>1. /\ IsRing(rbuf, Samples) /\ used(rbuf) \in Nat /\ Len(wave) \in Nat /\ Len(wave) % 2 = 0
        /\ wave \in Seq(Samples)
    BY StateFacts DEF PairsInv
  <2>2. used(rbuf) > 0 => rbuf.buf[rbuf.rpos] % 2 = 0
    <3> SUFFICES ASSUME used(rbuf) > 0 PROVE rbuf.buf[rbuf.rpos] % 2 = 0
      OBVIOUS
    <3>1. 1 \in 1 .. used(rbuf) /\ Len(Contents(rbuf)) = used(rbuf)
          /\ Contents(rbuf)[1] = rbuf.buf[Cell(rbuf, rbuf.rpos, 1 - 1)]
      BY <2>1, ContentsType
    <3>2. Cell(rbuf, rbuf.rpos, 1 - 1) = rbuf.rpos
      BY <2>1 DEF IsRing, Cell
    <3>3. Contents(rbuf)[1] % 2 = (1 + 1) % 2
      BY <3>1 DEF PairsInv, Paired
    <3> QED BY <3>1, <3>2, <3>3
  <2>3. wave # <<>> => wave[1] % 2 = 0
    <3> SUFFICES ASSUME wave # <<>> PROVE wave[1] % 2 = 0
      OBVIOUS
    <3>1. 1 \in 1 .. Len(wave)
      BY <2>1, EmptySeq
    <3>2. wave[1] % 2 = (1 + 1) % 2
      BY <3>1 DEF PairsInv, Paired
    <3> QED BY <3>2
  <2> QED BY <2>1, <2>2, <2>3 DEF ChannelsStayPaired, PairsInv
<1> QED BY <1>1, PairsInvariance, PTL

-----------------------------------------------------------------------------
(* The driver is a bounded queue.                                          *)

(* Filling is Put or PutAndDrop, reading is Take.                          *)
LEMMA NextIsQueue == PairsInv /\ [Next]_vars => [Queue!Next]_(Queue!vars)
<1> SUFFICES ASSUME PairsInv, [Next]_vars PROVE [Queue!Next]_(Queue!vars)
  OBVIOUS
<1>1. CASE FillAndWait \/ FillAndDrop \/ FillAndReturn
  <2>1. PICK k \in 0 .. Len(wave) :
          /\ k <= avail(rbuf) /\ k % 2 = 0 /\ rbuf' = write(rbuf, SubSeq(wave, 1, k))
          /\ \/ FillAndWait /\ wave' = SubSeq(wave, k + 1, Len(wave)) /\ writer' = "waiting"
             \/ wave' = <<>>
          /\ UNCHANGED <<next, request, stream>>
    BY <1>1, EvenFill
  <2>2. /\ Contents(rbuf') = Contents(rbuf) \o SubSeq(wave, 1, k)
        /\ Len(Contents(rbuf)) = used(rbuf) /\ rbuf'.sz = rbuf.sz
    BY <2>1, FillsPairs
  <2>3. /\ avail(rbuf) + used(rbuf) = rbuf.sz - 1 /\ rbuf.sz \in Nat
        /\ used(rbuf) \in Nat /\ avail(rbuf) \in Nat /\ k \in Nat
    <3>1. IsRing(rbuf, Samples) /\ used(rbuf) \in Nat /\ avail(rbuf) \in Nat /\ Len(wave) \in Nat
      BY StateFacts DEF PairsInv
    <3>2. avail(rbuf) + used(rbuf) = rbuf.sz - 1 /\ rbuf.sz \in Nat
      BY <3>1, RoomAndContent DEF IsRing
    <3> QED BY <3>1, <3>2
  <2>4. Len(Contents(rbuf)) + k <= size(rbuf)
    BY <2>1, <2>2, <2>3 DEF size
  <2>5. UNCHANGED <<size(rbuf), stream>> /\ Contents(rbuf)' = Contents(rbuf) \o SubSeq(wave, 1, k)
    BY <2>1, <2>2 DEF size, Contents, Peek, used, Cell
  <2>6. k <= Len(wave)
    OBVIOUS
  <2>7. Queue!Put(k) \/ Queue!PutAndDrop(k)
    BY <2>1, <2>4, <2>5, <2>6 DEF Queue!Put, Queue!PutAndDrop
  <2> QED BY <2>7 DEF Queue!Next
<1>2. CASE Read
  <2>1. PICK num \in 0 .. used(rbuf) :
          /\ num % 2 = 0 /\ stream' = Peek(rbuf, num) /\ rbuf' = read(rbuf, num)
    BY <1>2, EvenTake
  <2>2. IsRing(rbuf, Samples)
    BY DEF PairsInv, DriverInv
  <2>3. /\ Contents(rbuf') = SubSeq(Contents(rbuf), num + 1, Len(Contents(rbuf)))
        /\ Peek(rbuf, num) = SubSeq(Contents(rbuf), 1, num)
        /\ Len(Contents(rbuf)) = used(rbuf) /\ rbuf'.sz = rbuf.sz
    BY <2>1, <2>2, ReadTakes, ContentsType, ReadMakesRoom
  <2>4. UNCHANGED <<size(rbuf), wave>>
        /\ Contents(rbuf)' = SubSeq(Contents(rbuf), num + 1, Len(Contents(rbuf)))
    BY <1>2, <2>3 DEF size, Contents, Peek, used, Cell, Read
  <2>5. num \in 0 .. Len(Contents(rbuf)) /\ num <= Len(Contents(rbuf))
    BY <2>3
  <2>6. Queue!Take(num)
    BY <2>1, <2>3, <2>4, <2>5 DEF Queue!Take
  <2> QED BY <2>5, <2>6 DEF Queue!Next
<1>3. ASSUME NEW n \in Blocks, Write(n) PROVE Queue!Give
  <2>1. wave = <<>> /\ wave' \in Seq(Samples)
    BY <1>3, BlockType, BlocksAssumption DEF Write, PairsInv, DriverInv, TypeOK
  <2> QED BY <1>3, <2>1 DEF Write, ringVars, Queue!Give, size, Contents, Peek, used, Cell
<1>4. CASE \/ Lock \/ SpuriousWakeup \/ SetSpeedup \/ SetEmulating \/ Pause
           \/ UNCHANGED vars \/ \E k \in Requests : Callback(k)
  <2>1. UNCHANGED <<rbuf, wave, stream>>
    BY <1>4 DEF Lock, SpuriousWakeup, SetSpeedup, SetEmulating, Pause, Callback, vars, ringVars
  <2> QED BY <2>1 DEF Queue!vars, size, Contents, Peek, used, Cell
<1> QED BY <1>1, <1>2, <1>3, <1>4 DEF Next, Queue!Next

(* What SoundSDL::write is given is played in order, none of it lost inside*)
(* the stream, twice or out of turn.                                       *)
THEOREM DriverIsQueue == Spec => PlaysInOrder
<1>1. Init => Queue!Init
  <2> SUFFICES ASSUME Init PROVE Queue!Init
    OBVIOUS
  <2>1. PICK s \in Sizes :
          rbuf = [sz |-> s + 1, rpos |-> 0, wpos |-> 0, buf |-> [c \in 0 .. s |-> 0]]
    BY DEF Init
  <2>2. s \in Nat
    BY SizesAssumption
  <2>3. used(rbuf) = 0 /\ size(rbuf) = s
    BY <2>1, <2>2 DEF used, size
  <2>4. Contents(rbuf) \in Seq(Samples) /\ Len(Contents(rbuf)) = 0
    BY <2>3, InitDriverInv, ContentsType DEF DriverInv
  <2>5. Contents(rbuf) = <<>>
    BY <2>4, EmptySeq
  <2> QED BY <2>2, <2>3, <2>5 DEF Init, Queue!Init
<1> QED BY <1>1, PairsInvariance, NextIsQueue, PTL DEF Spec, PlaysInOrder, Queue!Spec
=============================================================================
