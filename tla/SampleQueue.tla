---------------------------- MODULE SampleQueue ----------------------------
(***************************************************************************)
(* What the sound driver promises: the emulator hands over blocks of       *)
(* samples, they wait in a bounded queue and are played in order; samples  *)
(* are only dropped from the end of a block, never inside the stream.      *)
(***************************************************************************)
EXTENDS Naturals, Sequences

CONSTANT Sample

VARIABLES capacity, \* never changes
          todo,     \* what is left of the block being handed over
          queue,    \* waiting to be played
          played    \* the last block that was played

vars == <<capacity, todo, queue, played>>

Init == capacity \in Nat /\ todo = <<>> /\ queue = <<>> /\ played = <<>>

Give ==
  /\ todo = <<>>
  /\ todo' \in Seq(Sample)
  /\ UNCHANGED <<capacity, queue, played>>

Put(n) ==
  /\ n <= Len(todo)
  /\ Len(queue) + n <= capacity
  /\ queue' = queue \o SubSeq(todo, 1, n)
  /\ todo' = SubSeq(todo, n + 1, Len(todo))
  /\ UNCHANGED <<capacity, played>>

(* Put as much as there is room for and give up the rest.                  *)
PutAndDrop(n) ==
  /\ n <= Len(todo)
  /\ Len(queue) + n <= capacity
  /\ queue' = queue \o SubSeq(todo, 1, n)
  /\ todo' = <<>>
  /\ UNCHANGED <<capacity, played>>

Take(n) ==
  /\ n <= Len(queue)
  /\ played' = SubSeq(queue, 1, n)
  /\ queue' = SubSeq(queue, n + 1, Len(queue))
  /\ UNCHANGED <<capacity, todo>>

Next ==
  \/ Give
  \/ \E n \in 0 .. Len(todo) : Put(n) \/ PutAndDrop(n)
  \/ \E n \in 0 .. Len(queue) : Take(n)

Spec == Init /\ [][Next]_vars
=============================================================================
