------------------------------ MODULE SoundSDL ------------------------------
(***************************************************************************)
(* sdl/SoundSDL.cpp: the emulator's thread writes the samples of a frame   *)
(* into a ring buffer, SDL's audio thread reads them; a mutex, a condition *)
(* variable and a few unprotected flags are between them.  This is what    *)
(* keeps the emulator at its speed: `write' blocks while the ring is full. *)
(*                                                                         *)
(* A sample (u16) is its number in the stream, modulo Numbers: even ones   *)
(* are for the left channel, odd ones for the right.                       *)
(***************************************************************************)
EXTENDS RingBuffer

CONSTANTS
  Sizes,     \* the arguments of RingBuffer::reset the throttle settings give
  Blocks,    \* the `samples' (stereo pairs) a call of write may bring
  Requests,  \* the `length / 2' (u16s) SDL's thread may ask for
  Numbers    \* bound: samples are numbered modulo this

ASSUME SizesAssumption    == Sizes \subseteq Nat \ {0, 1} /\ Sizes # {}
ASSUME BlocksAssumption   == Blocks \subseteq Nat
ASSUME RequestsAssumption == \A k \in Requests : k \in Nat /\ k % 2 = 0
ASSUME NumbersAssumption  == Numbers \in Nat /\ Numbers % 2 = 0 /\ \A s \in Sizes : s < Numbers

VARIABLES
  rbuf,       \* SoundSDL::_rbuf
  writer,     \* where the emulator's thread is in SoundSDL::write
  wave,       \* what is left of finalWave
  next,       \* the number of the next sample the emulator makes
  player,     \* where SDL's audio thread is in SoundSDL::read
  request,    \* its `length / 2'
  stream,     \* what it has copied out last
  playing,    \* SDL_GetAudioStatus() is SDL_AUDIO_PLAYING
  emulating,  \* the global flag
  speedup     \* the global flag

vars == <<rbuf, writer, wave, next, player, request, stream, playing, emulating, speedup>>
ringVars == <<rbuf, stream>>
flags == <<playing, emulating, speedup>>

Samples == 0 .. Numbers - 1
Cells   == 0 .. rbuf.sz - 1
Block(n) == [i \in 1 .. 2 * n |-> (next + i - 1) % Numbers]

Init ==
  /\ \E s \in Sizes : rbuf = [sz |-> s + 1, rpos |-> 0, wpos |-> 0, buf |-> [c \in 0 .. s |-> 0]]
  /\ writer = "idle" /\ wave = <<>> /\ next = 0
  /\ player = "idle" /\ request = 0 /\ stream = <<>>
  /\ playing = FALSE /\ emulating = TRUE /\ speedup = FALSE

-----------------------------------------------------------------------------
(* SoundSDL::write, on the emulator's thread.  It holds the mutex while    *)
(* writer is "filling".                                                    *)

(* Mutant: nobody sets the device going.                                   *)
WriteSilently(n) ==
  /\ writer = "idle"
  /\ wave' = Block(n)
  /\ next' = (next + 2 * n) % Numbers
  /\ writer' = "locking"
  /\ UNCHANGED <<ringVars, player, request, flags>>

(* The call; the audio device is set going before the mutex is taken.      *)
Write(n) ==
  /\ writer = "idle"
  /\ playing' = TRUE
  /\ wave' = Block(n)
  /\ next' = (next + 2 * n) % Numbers
  /\ writer' = "locking"
  /\ UNCHANGED <<ringVars, player, request, emulating, speedup>>

Lock ==
  /\ writer \in {"locking", "signaled"}
  /\ writer' = "filling"
  /\ UNCHANGED <<ringVars, wave, next, player, request, flags>>

Pairs(x) == x \div 2
NoRoom   == Pairs(avail(rbuf)) < Pairs(Len(wave))
RoomUnpaired == avail(rbuf)   \* mutant: not rounded to whole pairs
Room     == 2 * Pairs(avail(rbuf))

(* Mutant: the writer waits also when the callback is off.                 *)
FillAndAlwaysWait ==
  /\ writer = "filling"
  /\ NoRoom
  /\ ~speedup
  /\ rbuf' = write(rbuf, SubSeq(wave, 1, Room))
  /\ wave' = SubSeq(wave, Room + 1, Len(wave))
  /\ writer' = "waiting"
  /\ UNCHANGED <<next, player, request, stream, flags>>

(* One turn of the loop: fill the ring, then wait or drop the rest.        *)
FillAndWait ==
  /\ writer = "filling"
  /\ NoRoom
  /\ emulating /\ ~speedup
  /\ rbuf' = write(rbuf, SubSeq(wave, 1, Room))
  /\ wave' = SubSeq(wave, Room + 1, Len(wave))
  /\ writer' = "waiting"
  /\ UNCHANGED <<next, player, request, stream, flags>>

FillAndDrop ==
  /\ writer = "filling"
  /\ NoRoom
  /\ ~emulating \/ speedup
  /\ rbuf' = write(rbuf, SubSeq(wave, 1, Room))
  /\ wave' = <<>>
  /\ writer' = "idle"
  /\ UNCHANGED <<next, player, request, stream, flags>>

(* After the loop: the rest fits.                                          *)
FillAndReturn ==
  /\ writer = "filling"
  /\ ~NoRoom
  /\ rbuf' = write(rbuf, wave)
  /\ wave' = <<>>
  /\ writer' = "idle"
  /\ UNCHANGED <<next, player, request, stream, flags>>

(* SDL_CondWait may return without a signal.                               *)
SpuriousWakeup ==
  /\ writer = "waiting"
  /\ writer' = "signaled"
  /\ UNCHANGED <<ringVars, wave, next, player, request, flags>>

-----------------------------------------------------------------------------
(* SoundSDL::read, on SDL's audio thread.                                  *)

(* The check of the flags, before the mutex is taken.                      *)
Callback(k) ==
  /\ playing
  /\ player = "idle"
  /\ emulating
  /\ k > 0
  /\ request' = k
  /\ player' = "locking"
  /\ UNCHANGED <<ringVars, writer, wave, next, flags>>

(* Mutant: without SDL_CondSignal.                                         *)
ReadUnsignaled ==
  /\ player = "locking"
  /\ writer # "filling"
  /\ LET num == IF request < used(rbuf) THEN request ELSE used(rbuf)
     IN /\ stream' = Peek(rbuf, num)
        /\ rbuf' = read(rbuf, num)
  /\ player' = "idle"
  /\ request' = 0
  /\ UNCHANGED <<writer, wave, next, flags>>

Read ==
  /\ player = "locking"
  /\ writer # "filling"
  /\ LET num == IF request < used(rbuf) THEN request ELSE used(rbuf)
     IN /\ stream' = Peek(rbuf, num)
        /\ rbuf' = read(rbuf, num)
  /\ writer' = IF writer = "waiting" THEN "signaled" ELSE writer
  /\ player' = "idle"
  /\ request' = 0
  /\ UNCHANGED <<wave, next, flags>>

-----------------------------------------------------------------------------
(* The rest of the emulator's thread, between two calls of write.          *)

SetSpeedup ==
  /\ writer = "idle"
  /\ speedup' = ~speedup
  /\ UNCHANGED <<ringVars, writer, wave, next, player, request, playing, emulating>>

(* emulating is cleared when the user quits, and set when a game starts.   *)
SetEmulating ==
  /\ writer = "idle"
  /\ emulating' = ~emulating
  /\ UNCHANGED <<ringVars, writer, wave, next, player, request, playing, speedup>>

(* SoundSDL::pause and resume.  SDL_PauseAudio waits for the callback.     *)
Pause ==
  /\ writer = "idle"
  /\ player = "idle"
  /\ playing' = ~playing
  /\ UNCHANGED <<ringVars, writer, wave, next, player, request, emulating, speedup>>

Next ==
  \/ \E n \in Blocks : Write(n)
  \/ Lock
  \/ FillAndWait
  \/ FillAndDrop
  \/ FillAndReturn
  \/ SpuriousWakeup
  \/ \E k \in Requests : Callback(k)
  \/ Read
  \/ SetSpeedup
  \/ SetEmulating
  \/ Pause

(* Both threads run on, and a thread that waits for a mutex which is free  *)
(* again and again gets it.                                                *)
Fairness ==
  /\ WF_vars(Lock)
  /\ WF_vars(FillAndWait)
  /\ WF_vars(FillAndDrop)
  /\ WF_vars(FillAndReturn)
  /\ WF_vars(\E k \in Requests : Callback(k))
  /\ SF_vars(Read)

Spec == Init /\ [][Next]_vars
FairSpec == Spec /\ Fairness

-----------------------------------------------------------------------------
(* Properties.                                                             *)

(* Every variable has its type; the positions are inside the ring.         *)
TypeOK ==
  /\ rbuf.sz - 1 \in Sizes
  /\ rbuf.rpos \in Cells /\ rbuf.wpos \in Cells
  /\ rbuf.buf \in [Cells -> Samples]
  /\ writer \in {"idle", "locking", "filling", "waiting", "signaled"}
  /\ wave \in Seq(Samples)
  /\ next \in Samples
  /\ player \in {"idle", "locking"}
  /\ request \in Requests \cup {0}
  /\ stream \in Seq(Samples)
  /\ playing \in BOOLEAN /\ emulating \in BOOLEAN /\ speedup \in BOOLEAN

(* No half of a stereo pair is ever left in the ring, also when its size   *)
(* is odd and whatever was dropped: left stays left.                       *)
ChannelsStayPaired ==
  /\ used(rbuf) % 2 = 0
  /\ used(rbuf) > 0 => rbuf.buf[rbuf.rpos] % 2 = 0
  /\ Len(wave) % 2 = 0
  /\ wave # <<>> => wave[1] % 2 = 0

(* The emulator never sleeps on a ring with room for a sample: no signal   *)
(* of the audio thread is lost.                                            *)
NoLostSignal == writer = "waiting" => Pairs(avail(rbuf)) = 0

(* While the writer sleeps, what can wake it up is on: the device plays    *)
(* and the callback does not return early.                                 *)
SleepsOnlyWhilePlaying == writer = "waiting" => playing /\ emulating /\ ~speedup

(* A call of write comes back.                                             *)
WriteReturns == writer # "idle" ~> writer = "idle"

(* The ring is a bounded queue, the driver plays what it is given.         *)
Queue == INSTANCE SampleQueue WITH
           Sample   <- Samples,
           capacity <- size(rbuf),
           todo     <- wave,
           queue    <- Contents(rbuf),
           played   <- stream
PlaysInOrder == Queue!Spec
=============================================================================
