------------------------- MODULE RerecordingProofs -------------------------
(***************************************************************************)
(* What the runs check of Rerecording on small instances, proved for every *)
(* number of frames, buttons, movies and save states.  First the           *)
(* invariants: the type invariant, that the cursors stay together, that    *)
(* the file holds the recording, and that the machine has been fed what    *)
(* the movie says.  Then what a step may never do, and ResetsInStep.       *)
(***************************************************************************)
EXTENDS Rerecording, MovieCodeProofs

(* In the middle of a frame the machine has read one more input than the   *)
(* movie counts: the one the movie plays, or the one it will record.       *)
FedInFrame(m, h) ==
  /\ h.origin = m.uid
  /\ Len(h.fed) = m.currentFrame + 1
  /\ \A i \in 1 .. m.currentFrame : i <= m.length => h.fed[i].pad = m.buf[i - 1].pad
  /\ m.state = "PLAY"   => h.fed[m.currentFrame + 1].pad = m.buf[m.currentFrame].pad
  /\ m.state = "RECORD" => h.fed[m.currentFrame + 1].pad = m.pad

(* A save state was made between two frames.                               *)
FrozenInStep(s) ==
  /\ s.machine.origin = s.freeze.uid
  /\ Len(s.machine.fed) = s.freeze.currentFrame
  /\ \A i \in 1 .. s.freeze.currentFrame :
       i <= s.freeze.length => s.machine.fed[i].pad = s.freeze.input[i - 1].pad

(* The inductive invariant.                                                *)
IInv ==
  /\ TypeOK
  /\ Sound(movie)
  /\ newFrame /\ Active(movie)  => FedInStep(movie, machine)
  /\ ~newFrame /\ Active(movie) => FedInFrame(movie, machine)
  /\ \A n \in Slots :
       slots[n] # NoState => (slots[n].freeze # NoState => FrozenInStep(slots[n]))

-----------------------------------------------------------------------------
(* A machine that has just been started has its type.                      *)
LEMMA StartedType ==
  ASSUME NEW uid \in Uids \cup {0}
  PROVE  Started(uid) \in Machines
<1>1. 0 \in 0 .. UserResets
  BY UserResetsAssumption
<1>2. <<>> \in Seq(Tokens)
  OBVIOUS
<1> QED BY <1>1, <1>2 DEF Started, Machines

(* The invariant holds when the program has been started.                  *)
LEMMA InitIInv == Init => IInv
<1> SUFFICES ASSUME Init PROVE IInv
  OBVIOUS
<1>1. PICK d \in Disks : movie = NoMovie(d)
  BY DEF Init
<1>2. movie \in Movies /\ ~Active(movie)
  <2> DEFINE zero == 0
             minus == -1
             none == "NONE"
  <2>1. /\ zero \in 0 .. MaxFrames /\ zero \in 0 .. RerecordModulus - 1 /\ zero \in 0 .. 2
        /\ minus \in -1 .. MaxFrames /\ none \in MovieStates /\ d.uid \in Uids /\ {} \in Pads
    BY MaxFramesAssumption, RerecordModulusAssumption DEF Disks, MovieStates, Pads
  <2>2. movie = [state |-> none, readOnly |-> zero, pauseFrame |-> minus,
                 currentFrame |-> zero, length |-> zero, uid |-> d.uid, rerecords |-> zero,
                 recorded |-> FALSE, buf |-> ZeroBuffer, ptr |-> zero, filePos |-> zero,
                 resetSignaled |-> FALSE, resetSignaledLast |-> FALSE, pad |-> {},
                 paused |-> FALSE, skipRerecords |-> FALSE, disk |-> d]
    BY <1>1 DEF NoMovie
  <2>3. none = "NONE"
    OBVIOUS
  <2> HIDE DEF zero, minus, none
  <2> QED BY <2>1, <2>2, <2>3, ZeroBufferType DEF Movies, Active
<1>3. machine \in Machines
  BY StartedType DEF Init, Foreign
<1>4. gbJoymask \in Pads /\ slots \in [Slots -> SaveStates \cup {NoState}]
  BY DEF Init, Pads
<1> QED BY <1>2, <1>3, <1>4 DEF Init, IInv, TypeOK, Sound

-----------------------------------------------------------------------------
(* The frame loop.                                                         *)

(* The start of a frame feeds the machine what the movie holds for it.     *)
LEMMA FrameStartIInv == IInv /\ FrameStart => IInv'
<1> SUFFICES ASSUME IInv, FrameStart PROVE IInv'
  OBVIOUS
<1> DEFINE read == VBAMovieRead(movie)
           pad  == IF movie.state = "PLAY" THEN read.pad ELSE movie.pad
           token == [pad |-> pad, reset |-> machine.resetPending \/ read.resetSignaled]
<1>1. /\ movie \in Movies /\ Sound(movie) /\ machine \in Machines /\ newFrame
      /\ movie.currentFrame \in Nat /\ movie.length \in Nat /\ movie.pad \in Pads
      /\ movie.currentFrame < MaxFrames
  BY MaxFramesAssumption DEF IInv, TypeOK, Sound, FrameStart, Movies
<1>2. movie.state = "PLAY" => movie.ptr = movie.currentFrame /\ movie.ptr < MaxFrames
  BY <1>1 DEF Sound, CursorsAgree, Active, Lesser, Movies
<1>3. /\ read \in Movies
      /\ read = [movie EXCEPT !.pad = read.pad, !.resetSignaled = read.resetSignaled]
      /\ read.pad = IF movie.state = "PLAY" THEN movie.buf[movie.ptr].pad ELSE movie.pad
  BY <1>1, <1>2, ReadFacts
<1>4. pad = read.pad
  BY <1>3
<1> HIDE DEF read
<1>5. /\ movie' \in Movies
      /\ SameContent(movie, movie') /\ movie'.state = movie.state
      /\ movie'.ptr = movie.ptr /\ movie'.filePos = movie.filePos /\ movie'.pad = pad
  <2>1. movie' = VBAMovieResetIfRequested(read)
    BY DEF FrameStart, read
  <2>2. movie' = [read EXCEPT !.resetSignaled = FALSE, !.resetSignaledLast = read.resetSignaled]
    BY <2>1 DEF VBAMovieResetIfRequested
  <2>3. movie' \in Movies
    BY <1>3, <2>1, ResetIfRequestedFacts
  <2>4. /\ movie'.state = read.state /\ movie'.ptr = read.ptr /\ movie'.filePos = read.filePos
        /\ movie'.pad = read.pad /\ movie'.currentFrame = read.currentFrame
        /\ movie'.length = read.length /\ movie'.buf = read.buf /\ movie'.uid = read.uid
        /\ movie'.disk = read.disk /\ movie'.readOnly = read.readOnly
    BY <1>3, <2>2 DEF Movies
  <2>5. /\ read.state = movie.state /\ read.ptr = movie.ptr /\ read.filePos = movie.filePos
        /\ read.currentFrame = movie.currentFrame
        /\ read.length = movie.length /\ read.buf = movie.buf /\ read.uid = movie.uid
        /\ read.disk = movie.disk /\ read.readOnly = movie.readOnly
    BY <1>1, <1>3 DEF Movies
  <2> QED BY <1>4, <2>3, <2>4, <2>5 DEF SameContent, CanWrite
<1>6. Sound(movie') /\ (Active(movie') <=> Active(movie))
  BY <1>1, <1>5, EditSound
<1>7. pad \in Pads /\ token \in Tokens
  BY <1>3, <1>4, <1>1 DEF Tokens, Machines, Movies
<1>8. machine' = IF Active(movie)
                 THEN [machine EXCEPT !.fed = Append(@, token), !.resetPending = FALSE]
                 ELSE Foreign
  BY DEF FrameStart, read
<1>9. gbJoymask' = pad
  BY DEF FrameStart, read
<1> HIDE DEF pad
<1>10. token.pad = pad
  OBVIOUS
<1> HIDE DEF token
<1>11. Append(machine.fed, token) \in Seq(Tokens)
  BY <1>1, <1>7 DEF Machines
<1>12. machine' \in Machines
  <2>1. CASE Active(movie)
    BY <1>1, <1>8, <1>11, <2>1 DEF Machines
  <2>2. CASE ~Active(movie)
    <3>1. Foreign \in Machines
      BY StartedType DEF Foreign
    <3> QED BY <1>8, <2>2, <3>1
  <2> QED BY <2>1, <2>2
<1>13. TypeOK'
  BY <1>5, <1>7, <1>9, <1>12 DEF IInv, TypeOK, FrameStart
<1>14. ASSUME Active(movie) PROVE FedInFrame(movie', machine')
  <2>1. FedInStep(movie, machine)
    BY <1>1, <1>14 DEF IInv
  <2>2. machine'.origin = machine.origin /\ machine'.fed = Append(machine.fed, token)
    BY <1>1, <1>8, <1>14 DEF Machines
  <2>3. /\ Len(machine'.fed) = movie.currentFrame + 1
        /\ machine'.fed[movie.currentFrame + 1].pad = pad
        /\ \A i \in 1 .. movie.currentFrame : machine'.fed[i] = machine.fed[i]
    BY <1>1, <1>7, <1>10, <2>1, <2>2 DEF FedInStep, Machines
  <2>4. movie.state = "PLAY" => pad = movie.buf[movie.currentFrame].pad
    BY <1>2, <1>3, <1>4
  <2> QED BY <1>5, <2>1, <2>2, <2>3, <2>4 DEF FedInFrame, FedInStep, SameContent
<1> QED BY <1>6, <1>13, <1>14 DEF IInv, FrameStart

(* VBAMovieUpdateState at the end of the frame moves the movie to where the*)
(* machine is.                                                             *)
LEMMA FrameEndIInv == IInv /\ FrameEnd => IInv'
<1> SUFFICES ASSUME IInv, FrameEnd PROVE IInv'
  OBVIOUS
<1>1. /\ movie \in Movies /\ Sound(movie) /\ machine \in Machines /\ ~newFrame
      /\ movie.currentFrame \in Nat /\ movie.length \in Nat /\ movie.currentFrame < MaxFrames
      /\ movie' = VBAMovieUpdateState(movie)
      /\ movie.currentFrame \in Idx
  BY MaxFramesAssumption DEF IInv, TypeOK, Sound, FrameEnd, Movies, Idx
<1>2. movie.state \in {"NONE", "PLAY", "RECORD", "END"}
  BY <1>1 DEF Movies, MovieStates
<1>3. CASE movie.state = "RECORD"
  <2>1. /\ Sound(movie') /\ movie'.state = "RECORD"
        /\ movie'.currentFrame = movie.currentFrame + 1
        /\ movie'.length = movie.currentFrame + 1
        /\ movie'.uid = movie.uid
        /\ movie'.buf[movie.currentFrame].pad = movie.pad
        /\ \A i \in Idx : i # movie.currentFrame => movie'.buf[i] = movie.buf[i]
    BY <1>1, <1>3, RecordFrameFacts
  <2>2. FedInFrame(movie, machine)
    BY <1>1, <1>3 DEF IInv, Active
  <2>3. movie.currentFrame <= movie.length
    BY <1>1, <1>3 DEF Sound, CursorsAgree, Active
  <2>4. ASSUME NEW i \in 1 .. movie'.currentFrame
        PROVE  machine.fed[i].pad = movie'.buf[i - 1].pad
    <3>1. CASE i = movie.currentFrame + 1
      BY <1>1, <1>3, <2>1, <2>2, <3>1 DEF FedInFrame
    <3>2. CASE i # movie.currentFrame + 1
      <4>1. /\ i \in 1 .. movie.currentFrame /\ i <= movie.length
            /\ i - 1 \in Idx /\ i - 1 # movie.currentFrame
        BY <1>1, <2>1, <2>3, <3>2, MaxFramesAssumption DEF Idx
      <4> QED BY <2>1, <2>2, <4>1 DEF FedInFrame
    <3> QED BY <3>1, <3>2
  <2>5. FedInStep(movie', machine)
    BY <2>1, <2>2, <2>4 DEF FedInStep, FedInFrame
  <2> QED BY <2>1, <2>5 DEF IInv, FrameEnd, TypeOK, Sound
<1>4. CASE movie.state \in {"PLAY", "END"}
  <2>1. /\ Sound(movie') /\ Active(movie')
        /\ movie'.currentFrame = movie.currentFrame + 1
        /\ movie'.length = movie.length /\ movie'.buf = movie.buf /\ movie'.uid = movie.uid
    BY <1>1, <1>4, PlayFrameFacts
  <2>2. FedInFrame(movie, machine)
    BY <1>1, <1>4 DEF IInv, Active
  <2>3. movie.state = "END" => movie.currentFrame >= movie.length
    BY <1>1 DEF Sound, CursorsAgree, Active
  <2>4. FedInStep(movie', machine)
    <3>1. ASSUME NEW i \in 1 .. movie'.currentFrame, i <= movie'.length
          PROVE  machine.fed[i].pad = movie'.buf[i - 1].pad
      <4>1. CASE i = movie.currentFrame + 1
        <5>1. movie.state = "PLAY" /\ i - 1 = movie.currentFrame
          BY <1>1, <1>4, <2>1, <2>3, <3>1, <4>1
        <5> QED BY <2>1, <2>2, <4>1, <5>1 DEF FedInFrame
      <4>2. CASE i # movie.currentFrame + 1
        <5>1. i \in 1 .. movie.currentFrame /\ i <= movie.length
          BY <1>1, <2>1, <3>1, <4>2
        <5> QED BY <2>1, <2>2, <5>1 DEF FedInFrame
      <4> QED BY <4>1, <4>2
    <3> QED BY <2>1, <2>2, <3>1 DEF FedInStep, FedInFrame
  <2> QED BY <2>1, <2>4 DEF IInv, FrameEnd, TypeOK, Sound
<1>5. CASE movie.state = "NONE"
  <2>1. movie' = [movie EXCEPT !.currentFrame = movie.currentFrame + 1]
    BY <1>1, <1>5 DEF VBAMovieUpdateState
  <2>2. movie' \in Movies /\ ~Active(movie')
    BY <1>1, <1>5, <2>1, MaxFramesAssumption DEF Movies, Active
  <2> QED BY <2>2 DEF IInv, FrameEnd, TypeOK, Sound
<1> QED BY <1>2, <1>3, <1>4, <1>5

-----------------------------------------------------------------------------
(* Save states.                                                            *)

(* A save state that an open movie can take: sound in itself, and one that *)
(* VBAMovieUnfreeze does not refuse.                                       *)
Loadable(s) ==
  /\ s \in SaveStates
  /\ s.freeze # NoState => s.freeze \in Freezes /\ FrozenInStep(s)
  /\ Active(movie) => s.freeze # NoState /\ UnfreezeCode(movie, s.freeze) = "SUCCESS"

(* What gbWriteSaveState writes between two frames can be loaded again     *)
(* without losing step.                                                    *)
LEMMA CurrentStateFacts ==
  ASSUME IInv, newFrame
  PROVE  Loadable(CurrentState)
<1>1. /\ movie \in Movies /\ machine \in Machines /\ gbJoymask \in Pads
      /\ Active(movie) => FedInStep(movie, machine)
  BY DEF IInv, TypeOK
<1> DEFINE z == VBAMovieFreeze(movie)
<1>2. z \in Freezes /\ z # NoState
  BY <1>1, FreezeFacts, NoStateAssumption
<1>3. /\ z.uid = movie.uid /\ z.currentFrame = movie.currentFrame /\ z.length = movie.length
      /\ z.input = FirstFrames(movie.buf, movie.length)
  BY DEF VBAMovieFreeze
<1>4. /\ movie.currentFrame \in 0 .. MaxFrames /\ movie.length \in 0 .. MaxFrames
      /\ movie.buf \in [Idx -> Frames]
  BY <1>1 DEF Movies
<1>5. \A i \in Idx : i < movie.length => z.input[i] = movie.buf[i]
  BY <1>3, <1>4, FirstFramesType
<1> HIDE DEF z
<1>6. /\ CurrentState.machine = machine /\ CurrentState.gbJoymask = gbJoymask
      /\ CurrentState.freeze = IF Active(movie) THEN z ELSE NoState
  BY DEF CurrentState, z
<1>7. CurrentState \in SaveStates
  BY <1>1, <1>2 DEF CurrentState, SaveStates, z
<1>8. ASSUME Active(movie) PROVE FrozenInStep(CurrentState)
  <2>1. ASSUME NEW i \in 1 .. z.currentFrame, i <= z.length
        PROVE  machine.fed[i].pad = z.input[i - 1].pad
    <3>1. i - 1 \in Idx /\ i - 1 < movie.length /\ i \in 1 .. movie.currentFrame
      BY <1>3, <1>4, <2>1, MaxFramesAssumption DEF Idx
    <3> QED BY <1>1, <1>3, <1>5, <1>8, <2>1, <3>1 DEF FedInStep
  <2> QED BY <1>1, <1>3, <1>6, <1>8, <2>1 DEF FrozenInStep, FedInStep
<1>9. ASSUME Active(movie) PROVE UnfreezeCode(movie, CurrentState.freeze) = "SUCCESS"
  <2>1. CurrentState.freeze = z
    BY <1>6, <1>9
  <2>2. HistoryLength(movie, z) <= movie.length /\ HistoryLength(movie, z) <= movie.currentFrame
        /\ HistoryLength(movie, z) \in Int
    BY <1>3, <1>4 DEF HistoryLength, Lesser
  <2>3. \A i \in 0 .. HistoryLength(movie, z) - 1 : movie.buf[i] = z.input[i]
    BY <1>4, <1>5, <2>2, MaxFramesAssumption DEF Idx
  <2>4. z.length >= HistoryLength(movie, z)
    BY <1>3, <1>4, <2>2
  <2>5. SameHistory(movie, z) /\ SameMovie(movie, z)
    BY <1>3, <2>3, <2>4 DEF SameHistory, SameMovie
  <2> QED BY <1>9, <2>1, <2>5 DEF UnfreezeCode
<1> QED BY <1>2, <1>6, <1>7, <1>8, <1>9 DEF Loadable

(* So the save-state files keep that quality.                              *)
LEMMA SaveStateIInv ==
  ASSUME IInv, newFrame, NEW n \in Slots, SaveState(n)
  PROVE  IInv'
<1>1. Loadable(CurrentState)
  BY CurrentStateFacts
<1>2. slots' \in [Slots -> SaveStates \cup {NoState}]
  BY <1>1 DEF IInv, TypeOK, SaveState, Loadable
<1>3. ASSUME NEW k \in Slots, slots'[k] # NoState, slots'[k].freeze # NoState
      PROVE  FrozenInStep(slots'[k])
  <2>1. CASE k = n
    BY <1>1, <1>3, <2>1 DEF SaveState, IInv, TypeOK, Loadable
  <2>2. CASE k # n
    BY <1>3, <2>2 DEF SaveState, IInv, TypeOK
  <2> QED BY <2>1, <2>2
<1>4. UNCHANGED <<movie, machine, newFrame, gbJoymask>>
  BY DEF SaveState
<1> QED BY <1>2, <1>3, <1>4 DEF IInv, TypeOK

(* What gbReadSaveState loads, the save state or its backup, can be loaded.*)
LEMMA StateToLoadFacts ==
  ASSUME IInv, newFrame, NEW n \in Slots, slots[n] # NoState
  PROVE  Loadable(StateToLoad(n))
<1>1. CASE LoadFails(slots[n])
  BY <1>1, CurrentStateFacts DEF StateToLoad
<1>2. CASE ~LoadFails(slots[n])
  <2>1. slots[n] \in SaveStates
    BY DEF IInv, TypeOK
  <2>2. slots[n].freeze # NoState => slots[n].freeze \in Freezes
    BY <2>1 DEF SaveStates
  <2>3. Loadable(slots[n])
    BY <1>2, <2>1, <2>2 DEF LoadFails, Loadable, IInv
  <2> QED BY <1>2, <2>3 DEF StateToLoad
<1> QED BY <1>1, <1>2

(* gbReadSaveState keeps the invariant, whether the save state is accepted *)
(* or its backup is loaded.                                                *)
LEMMA LoadFileIInv ==
  ASSUME IInv, newFrame, NEW n \in Slots, LoadFile(n)
  PROVE  IInv'
<1>1. PICK s : LoadInto(s) /\ Loadable(s)
  BY StateToLoadFacts DEF LoadFile
<1>2. /\ movie \in Movies /\ Sound(movie) /\ s \in SaveStates
      /\ s.machine \in Machines /\ s.gbJoymask \in Pads
  BY <1>1 DEF Loadable, SaveStates, IInv, TypeOK
<1>3. /\ machine' = s.machine /\ gbJoymask' = s.gbJoymask
      /\ UNCHANGED <<newFrame, slots>>
  BY <1>1 DEF LoadInto
<1>4. PICK stray \in BOOLEAN :
        movie' = [IF Active(movie) THEN VBAMovieUnfreeze(movie, s.freeze, stray) ELSE movie
                  EXCEPT !.pad = s.gbJoymask]
  BY <1>1 DEF LoadInto
<1> DEFINE u == IF Active(movie) THEN VBAMovieUnfreeze(movie, s.freeze, stray) ELSE movie
<1>5. /\ Sound(u) /\ u \in Movies /\ (Active(u) <=> Active(movie))
      /\ Active(movie) =>
           /\ u.currentFrame = s.freeze.currentFrame /\ u.uid = s.freeze.uid
           /\ \A i \in Idx : i < u.currentFrame /\ i < u.length =>
                i < s.freeze.length /\ u.buf[i] = s.freeze.input[i]
  BY <1>1, <1>2, UnfreezeFacts DEF Loadable, Sound
<1>6. movie' = [u EXCEPT !.pad = s.gbJoymask]
  BY <1>4
<1> HIDE DEF u
<1>7. /\ movie' \in Movies /\ SameContent(u, movie')
      /\ movie'.state = u.state /\ movie'.ptr = u.ptr /\ movie'.filePos = u.filePos
  BY <1>2, <1>5, <1>6 DEF Movies, SameContent, CanWrite
<1>8. Sound(movie') /\ (Active(movie') <=> Active(movie))
  BY <1>5, <1>7, EditSound
<1>9. ASSUME Active(movie) PROVE FedInStep(movie', machine')
  <2>1. FrozenInStep(s)
    BY <1>1, <1>9 DEF Loadable
  <2>2. /\ movie'.currentFrame = s.freeze.currentFrame /\ movie'.uid = s.freeze.uid
        /\ \A i \in Idx : i < movie'.currentFrame /\ i < movie'.length =>
             i < s.freeze.length /\ movie'.buf[i] = s.freeze.input[i]
        /\ movie'.currentFrame \in 0 .. MaxFrames /\ movie'.length \in 0 .. MaxFrames
    BY <1>5, <1>7, <1>9 DEF SameContent, Movies
  <2>3. ASSUME NEW i \in 1 .. movie'.currentFrame, i <= movie'.length
        PROVE  machine'.fed[i].pad = movie'.buf[i - 1].pad
    <3>1. i - 1 \in Idx /\ i - 1 < movie'.currentFrame /\ i - 1 < movie'.length
      BY <2>2, <2>3, MaxFramesAssumption DEF Idx
    <3>2. i <= s.freeze.length /\ s.freeze.currentFrame = movie'.currentFrame
      <4>1. s.freeze.length \in Int
        BY <1>1, <1>9 DEF Loadable, Freezes
      <4> QED BY <2>2, <2>3, <3>1, <4>1
    <3> QED BY <1>3, <2>1, <2>2, <2>3, <3>1, <3>2 DEF FrozenInStep
  <2> QED BY <1>3, <2>1, <2>2, <2>3 DEF FedInStep, FrozenInStep
<1> QED BY <1>2, <1>3, <1>7, <1>8, <1>9 DEF IInv, TypeOK

-----------------------------------------------------------------------------
(* The other calls.                                                        *)

(* A call between two frames that moves neither the inputs nor the cursor  *)
(* of the movie, nor the machine.                                          *)
LEMMA QuietIInv ==
  ASSUME IInv, newFrame, Sound(movie'), Active(movie') <=> Active(movie),
         Active(movie) => SameInputsAndPlace(movie, movie'),
         machine' \in Machines, machine'.origin = machine.origin, machine'.fed = machine.fed,
         UNCHANGED <<newFrame, gbJoymask, slots>>
  PROVE  IInv'
<1>1. TypeOK'
  BY DEF IInv, TypeOK, Sound
<1>2. Active(movie) => FedInStep(movie', machine')
  BY DEF IInv, FedInStep, SameInputsAndPlace
<1> QED BY <1>1, <1>2 DEF IInv

(* The user's buttons do not matter before the next frame reads them.      *)
LEMMA SetButtonsIInv ==
  ASSUME IInv, newFrame, NEW p \in Pads, SetButtons(p)
  PROVE  IInv'
<1>1. movie \in Movies /\ Sound(movie) /\ machine \in Machines
  BY DEF IInv, TypeOK
<1>2. /\ movie' \in Movies /\ SameContent(movie, movie') /\ movie'.state = movie.state
      /\ movie'.ptr = movie.ptr /\ movie'.filePos = movie.filePos
  BY <1>1 DEF SetButtons, Movies, SameContent, CanWrite
<1>3. Sound(movie') /\ (Active(movie') <=> Active(movie))
  BY <1>1, <1>2, EditSound
<1> QED BY <1>1, <1>2, <1>3, QuietIInv DEF SetButtons, SameContent, SameInputsAndPlace

(* Ending a pause changes nothing that the invariant speaks of.            *)
LEMMA ResumeIInv ==
  ASSUME IInv, newFrame, Resume
  PROVE  IInv'
<1>1. movie \in Movies /\ Sound(movie) /\ machine \in Machines
  BY DEF IInv, TypeOK
<1>2. /\ movie' \in Movies /\ SameContent(movie, movie') /\ movie'.state = movie.state
      /\ movie'.ptr = movie.ptr /\ movie'.filePos = movie.filePos
  BY <1>1 DEF Resume, Movies, SameContent, CanWrite
<1>3. Sound(movie') /\ (Active(movie') <=> Active(movie))
  BY <1>1, <1>2, EditSound
<1> QED BY <1>1, <1>2, <1>3, QuietIInv DEF Resume, SameContent, SameInputsAndPlace

(* Nor is the script's wish about the count.                               *)
LEMMA SetSkipRerecordsIInv ==
  ASSUME IInv, newFrame, SetSkipRerecords
  PROVE  IInv'
<1>1. movie \in Movies /\ Sound(movie) /\ machine \in Machines
  BY DEF IInv, TypeOK
<1>2. /\ movie' \in Movies /\ SameContent(movie, movie') /\ movie'.state = movie.state
      /\ movie'.ptr = movie.ptr /\ movie'.filePos = movie.filePos
  BY <1>1, LuaSkipsAssumption DEF SetSkipRerecords, Movies, SameContent, CanWrite
<1>3. Sound(movie') /\ (Active(movie') <=> Active(movie))
  BY <1>1, <1>2, EditSound
<1> QED BY <1>1, <1>2, <1>3, QuietIInv DEF SetSkipRerecords, SameContent, SameInputsAndPlace

(* gbReset signals a reset to the movie or to the machine; the inputs stay.*)
LEMMA UserResetIInv ==
  ASSUME IInv, newFrame, UserReset
  PROVE  IInv'
<1>1. movie \in Movies /\ Sound(movie) /\ machine \in Machines
  BY DEF IInv, TypeOK
<1>2. /\ UNCHANGED <<newFrame, gbJoymask, slots>>
      /\ machine.userResets + 1 \in 0 .. UserResets
  BY <1>1, UserResetsAssumption DEF UserReset, Machines
<1>3. CASE movie.state = "RECORD"
  <2>0. machine' = [machine EXCEPT !.userResets = machine.userResets + 1]
    BY <1>3 DEF UserReset
  <2>1. /\ movie' = VBAMovieSignalReset(movie)
        /\ machine' \in Machines /\ machine'.origin = machine.origin /\ machine'.fed = machine.fed
    BY <1>1, <1>2, <1>3, <2>0 DEF UserReset, Machines
  <2>2. movie' = [movie EXCEPT !.resetSignaled = TRUE]
    BY <1>3, <2>1 DEF VBAMovieSignalReset, Active
  <2>3. /\ movie' \in Movies /\ SameContent(movie, movie') /\ movie'.state = movie.state
        /\ movie'.ptr = movie.ptr /\ movie'.filePos = movie.filePos
    BY <1>1, <2>2 DEF Movies, SameContent, CanWrite
  <2>4. Sound(movie') /\ (Active(movie') <=> Active(movie))
    BY <1>1, <2>3, EditSound
  <2> QED BY <1>1, <1>2, <2>1, <2>3, <2>4, QuietIInv DEF SameContent, SameInputsAndPlace
<1>4. CASE movie.state # "RECORD"
  <2>1. /\ movie' = movie
        /\ machine' = [machine EXCEPT !.userResets = machine.userResets + 1,
                                      !.resetPending = TRUE]
    BY <1>4 DEF UserReset
  <2>2. machine' \in Machines /\ machine'.origin = machine.origin /\ machine'.fed = machine.fed
    BY <1>1, <1>2, <2>1 DEF Machines
  <2> QED BY <1>1, <1>2, <2>1, <2>2, QuietIInv DEF SameInputsAndPlace
<1> QED BY <1>3, <1>4

(* Opening, creating and restarting.                                       *)
LEMMA StartMovieIInv ==
  ASSUME IInv, newFrame, NEW m, Sound(m), Active(m) => m.currentFrame = 0, StartMovie(m)
  PROVE  IInv'
<1>1. m \in Movies /\ machine \in Machines
  BY DEF IInv, TypeOK, Sound
<1>2. machine' \in Machines
  <2>1. m.uid \in Uids
    BY <1>1 DEF Movies
  <2>2. Started(m.uid) \in Machines
    BY <2>1, StartedType
  <2> QED BY <1>1, <2>2 DEF StartMovie
<1>3. Active(m) => FedInStep(m, machine')
  BY DEF StartMovie, Started, FedInStep
<1> QED BY <1>1, <1>2, <1>3 DEF IInv, TypeOK, StartMovie

(* Opening, creating and restarting a movie put movie and machine at the   *)
(* first frame.                                                            *)
LEMMA StartingIInv ==
  ASSUME IInv, newFrame, OpenMovie \/ CreateMovie \/ RestartMovie
  PROVE  IInv'
<1>1. movie \in Movies
  BY DEF IInv, TypeOK
<1>2. CASE OpenMovie
  BY <1>1, <1>2, OpenFacts, StartMovieIInv DEF OpenMovie
<1>3. CASE CreateMovie
  BY <1>1, <1>3, CreateFacts, StartMovieIInv DEF CreateMovie
<1>4. CASE RestartMovie
  BY <1>1, <1>4, RestartFacts, StartMovieIInv DEF RestartMovie
<1> QED BY <1>2, <1>3, <1>4

(* The calls of movie.h that leave the machine alone keep the invariant.   *)
LEMMA MovieCallIInv ==
  ASSUME IInv, newFrame,
         \/ StopMovie
         \/ MovieCall(VBAMovieToggleReadOnly(movie))
         \/ MovieCall(VBAMovieSwitchToPlaying(movie))
         \/ MovieCall(VBAMovieSwitchToRecording(movie))
         \/ MovieCall(VBAMovieFixHeader(movie))
         \/ PauseAt
  PROVE  IInv'
<1>1. movie \in Movies /\ Sound(movie) /\ machine \in Machines
  BY DEF IInv, TypeOK
<1>2. CASE StopMovie
  <2>1. /\ movie' \in Movies /\ ~Active(movie')
        /\ UNCHANGED <<machine, newFrame, gbJoymask, slots>>
    BY <1>1, <1>2, StopFacts DEF StopMovie, MovieCall
  <2> QED BY <2>1 DEF IInv, TypeOK, Sound
<1>3. ASSUME NEW m, MovieCall(m), Sound(m), Active(m), SameInputsAndPlace(movie, m)
      PROVE  IInv'
  BY <1>1, <1>3, QuietIInv DEF MovieCall
<1>4. CASE MovieCall(VBAMovieToggleReadOnly(movie))
  BY <1>1, <1>3, <1>4, ToggleSound DEF MovieCall
<1>5. CASE MovieCall(VBAMovieSwitchToPlaying(movie))
  BY <1>1, <1>3, <1>5, SwitchToPlayingSound DEF MovieCall
<1>6. CASE MovieCall(VBAMovieSwitchToRecording(movie))
  BY <1>1, <1>3, <1>6, SwitchToRecordingSound DEF MovieCall
<1>7. CASE MovieCall(VBAMovieFixHeader(movie))
  BY <1>1, <1>3, <1>7, FixHeaderSound DEF MovieCall
<1>8. CASE PauseAt
  BY <1>1, <1>3, <1>8, SetPauseAtSound DEF MovieCall, PauseAt
<1> QED BY <1>2, <1>4, <1>5, <1>6, <1>7, <1>8

(* Dying, in the middle of a write or not, leaves a movie that is closed.  *)
LEMMA CrashFacts ==
  ASSUME IInv,
         Crash \/ CrashWhileWriting \/ \E n \in Slots : CrashWhileLoading(n)
  PROVE  /\ \E m : Restarted(m)
         /\ movie' \in Movies /\ ~Active(movie')
<1>1. PICK m \in Movies : Restarted(m)
  <2>1. CASE Crash
    BY <2>1 DEF Crash, IInv, TypeOK
  <2>2. CASE CrashWhileWriting
    <3>1. /\ movie \in Movies /\ movie.currentFrame < MaxFrames
          /\ movie.ptr = movie.currentFrame /\ movie.filePos = movie.currentFrame
      BY <2>2 DEF CrashWhileWriting, IInv, TypeOK, Sound, CursorsAgree, Active, Lesser, Movies
    <3> DEFINE w == VBAMovieWrite(movie)
    <3>2. w \in Movies /\ w = [movie EXCEPT !.buf = w.buf]
      BY <3>1, WriteFacts
    <3> HIDE DEF w
    <3>3. w.ptr < MaxFrames /\ w.filePos < MaxFrames
      BY <3>1, <3>2 DEF Movies
    <3>4. WriteFrame(w) \in Movies
      BY <3>2, <3>3, WriteFrameFacts
    <3> QED BY <2>2, <3>4 DEF CrashWhileWriting, w
  <2>3. CASE \E n \in Slots : CrashWhileLoading(n)
    <3>1. PICK n \in Slots : CrashWhileLoading(n)
      BY <2>3
    <3>2. /\ newFrame /\ Active(movie) /\ slots[n] # NoState /\ movie \in Movies
      BY <3>1 DEF CrashWhileLoading, IInv, TypeOK
    <3> DEFINE s == StateToLoad(n).freeze
               h == flush_movie_header(CountRerecord(Branch(movie, s)))
    <3>3. PICK written \in 0 .. s.length : Restarted(WriteInputs(h, written))
      BY <3>1 DEF CrashWhileLoading
    <3>4. s \in Freezes
      BY <3>2, StateToLoadFacts DEF Loadable
    <3>5. h \in Movies /\ written \in 0 .. MaxFrames
      BY <3>2, <3>3, <3>4, BranchHeaderType, MaxFramesAssumption DEF Freezes
    <3> QED BY <3>3, <3>5, WriteInputsType
  <2> QED BY <2>1, <2>2, <2>3
<1>2. movie' \in Movies /\ ~Active(movie')
  BY <1>1, CrashedFacts DEF Restarted
<1> QED BY <1>1, <1>2

(* So it keeps the invariant.                                              *)
LEMMA CrashIInv ==
  ASSUME IInv,
         Crash \/ CrashWhileWriting \/ \E n \in Slots : CrashWhileLoading(n)
  PROVE  IInv'
<1>1. PICK m : Restarted(m)
  BY CrashFacts
<1>2. movie' \in Movies /\ ~Active(movie')
  BY CrashFacts
<1>3. machine' \in Machines
  BY <1>1, StartedType DEF Restarted, Foreign
<1> QED BY <1>1, <1>2, <1>3 DEF IInv, TypeOK, Sound, Restarted, Pads

-----------------------------------------------------------------------------
(* Every step keeps the invariant.                                         *)
LEMMA NextIInv == IInv /\ [NextCalls]_vars => IInv'
<1> SUFFICES ASSUME IInv, [NextCalls]_vars PROVE IInv'
  OBVIOUS
<1>1. CASE UNCHANGED vars
  BY <1>1 DEF IInv, TypeOK, vars
<1>2. CASE FrameStart
  BY <1>2, FrameStartIInv
<1>3. CASE FrameEnd
  BY <1>3, FrameEndIInv
<1>4. CASE newFrame /\ FrontEnd
  BY <1>4, SetButtonsIInv, ResumeIInv, SetSkipRerecordsIInv, UserResetIInv, SaveStateIInv,
     LoadFileIInv, StartingIInv, MovieCallIInv DEF FrontEnd
<1>5. CASE Crash \/ CrashWhileWriting \/ \E n \in Slots : CrashWhileLoading(n)
  BY <1>5, CrashIInv
<1>6. CASE newFrame /\ UserInterface
  BY <1>6, StartingIInv, MovieCallIInv DEF UserInterface
<1>7. CASE newFrame /\ PauseAt
  BY <1>7, MovieCallIInv
<1> QED BY <1>1, <1>2, <1>3, <1>4, <1>5, <1>6, <1>7
   DEF NextCalls, NextUser, NextCrash, Next, Run

-----------------------------------------------------------------------------
(* The theorems, for every call but VBAMovieTuncateAtCurrentFrame.         *)

(* The invariant holds at all times, under all calls of SpecCalls.         *)
THEOREM Invariance == SpecCalls => []IInv
BY InitIInv, NextIInv, PTL DEF SpecCalls

(* The variables keep their types: no position, length or frame leaves its *)
(* bounds whatever is opened, loaded, recorded or interrupted.             *)
THEOREM TypeCorrect == SpecCalls => []TypeOK
<1>1. IInv => TypeOK
  BY DEF IInv
<1> QED BY <1>1, Invariance, PTL

(* currentFrame, inputBufferPtr and the position of the movie file never   *)
(* drift apart in an open movie.                                           *)
THEOREM CursorsStayInStep == SpecCalls => []CursorInStep
<1>1. IInv => CursorInStep
  BY DEF IInv, Sound, CursorInStep
<1> QED BY <1>1, Invariance, PTL

(* Between two frames the machine has been fed exactly the buttons that    *)
(* the movie holds up to its cursor, after any recording, playing, saving, *)
(* loading (also one that failed) and switching between them.              *)
THEOREM InputsStayInStep == SpecCalls => []InputsInStep
<1>1. IInv => InputsInStep
  BY DEF IInv, InputsInStep
<1> QED BY <1>1, Invariance, PTL

(* Between two calls the movie file holds every input of the buffer.       *)
THEOREM DiskAlwaysHolds == SpecCalls => []DiskHoldsRecording
<1>1. IInv => DiskHoldsRecording
  BY DEF IInv, Sound, DiskHoldsRecording
<1> QED BY <1>1, Invariance, PTL

(* What the runs check are restrictions of SpecCalls.                      *)
THEOREM RunsAreCalls == (Spec \/ SpecCrash \/ SpecUser) => SpecCalls
<1>1. [Next]_vars \/ [NextCrash]_vars \/ [NextUser]_vars => [NextCalls]_vars
  BY DEF NextCalls, NextCrash
<1> QED BY <1>1, PTL DEF Spec, SpecCrash, SpecUser, SpecCalls

-----------------------------------------------------------------------------
(* What a step of Rerecording may never do: the action properties of the   *)
(* runs, and ResetsInStep.  Those about the inputs of a movie hold for what *)
(* the SDL front end does (Spec, SpecCrash); they need an invariant of     *)
(* their own, since through the user interface a recording can be made     *)
(* read-only or go on before the end of the movie.                         *)

-----------------------------------------------------------------------------
(* Closing and opening: what is in the file.                               *)

(* Closing an editable movie leaves exactly its inputs in the file.        *)
LEMMA CloseFile ==
  ASSUME NEW m, Sound(m), Active(m), CanWrite(m), NEW d, d = Close(m).disk
  PROVE  /\ d.exists
         /\ d.uid = m.uid
         /\ d.size = m.length
         /\ d.length = m.length
         /\ d.frames = FirstFrames(m.buf, m.length)
<1> DEFINE a == [m EXCEPT !.length = m.length]
           h == flush_movie_header(a)
           t == [h EXCEPT !.disk.size = m.length,
                          !.disk.frames = FirstFrames(@, m.length)]
<1>1. /\ m \in Movies /\ FileAgrees(m) /\ m.length \in 0 .. MaxFrames
      /\ m.disk \in Disks
  BY DEF Sound, Movies
<1>2. a = m
  BY <1>1 DEF Movies
<1>3. h = [m EXCEPT !.disk.uid = m.uid, !.disk.length = m.length,
                    !.disk.rerecords = m.rerecords]
  BY <1>2 DEF flush_movie_header
<1>4. /\ h.disk.exists /\ h.disk.uid = m.uid /\ h.disk.length = m.length
      /\ h.disk.frames = m.disk.frames /\ h \in Movies
  <2>1. h \in Movies /\ h.disk.frames = m.disk.frames /\ h.disk.exists /\ h.disk.uid = m.uid
    BY <1>1, <1>2, FlushHeaderFacts DEF FileAgrees
  <2> HIDE DEF h
  <2> QED BY <1>1, <1>3, <2>1 DEF Movies, Disks
<1>5. truncate_movie(m, m.length) = t
  BY <1>2 DEF truncate_movie, CanWrite
<1> HIDE DEF h
<1>6. /\ t.disk.exists /\ t.disk.uid = m.uid /\ t.disk.length = m.length
      /\ t.disk.size = m.length /\ t.disk.frames = FirstFrames(m.disk.frames, m.length)
      /\ t \in Movies
  <2>1. FirstFrames(h.disk.frames, m.length) \in [Idx -> Frames]
    BY <1>1, <1>4, FirstFramesType DEF Disks
  <2> QED BY <1>1, <1>4, <2>1 DEF Movies, Disks
<1> HIDE DEF t
<1>7. Close(m) = [Forget(t) EXCEPT !.pauseFrame = -1]
  BY <1>5 DEF Close
<1>8. Forget(t) \in Movies /\ Forget(t).disk = t.disk
  BY <1>6, ForgetFacts
<1>9. d = t.disk
  BY <1>7, <1>8 DEF Movies
<1> QED BY <1>1, <1>6, <1>9 DEF FileAgrees

(* Closing does not touch a file that was opened "rb".                     *)
LEMMA CloseKeepsFile ==
  ASSUME NEW m \in Movies, ~Active(m) \/ ~CanWrite(m)
  PROVE  Close(m).disk = m.disk
<1> DEFINE a == [m EXCEPT !.length = m.length]
<1>1. a = m
  BY DEF Movies
<1>2. ~CanWrite(m) => truncate_movie(m, m.length) = m
  BY <1>1 DEF truncate_movie, flush_movie_header, CanWrite
<1> DEFINE t == IF Active(m) THEN Forget(m) ELSE m
<1>3. Close(m) = [t EXCEPT !.pauseFrame = -1]
  BY <1>2 DEF Close
<1>4. t \in Movies /\ t.disk = m.disk
  BY ForgetFacts
<1> HIDE DEF t
<1> QED BY <1>3, <1>4 DEF Movies

(* change_state to playing or to the end: what it does to the mode.        *)
LEMMA ChangeStateMode ==
  ASSUME NEW m \in Movies, NEW s \in {"PLAY", "END"},
         m.ptr = Lesser(m.currentFrame, m.length),
         s = "END" => m.currentFrame >= m.length,
         NEW c, c = change_state(m, s)
  PROVE  /\ c.recorded = m.recorded
         /\ ~m.recorded \/ m.readOnly = 0 => c.readOnly = m.readOnly
         /\ c.state = "RECORD" => m.recorded /\ c.currentFrame = c.length
         /\ c.rerecords \in {m.rerecords, (m.rerecords + 1) % RerecordModulus}
         /\ c.resetSignaled = m.resetSignaled
<1> DEFINE t == Settle(m, s)
           e == IF t.readOnly # 0 THEN VBAMovieToggleReadOnly(t) ELSE t
           k == CountRerecord(e)
           r == Settle(k, "RECORD")
<1>1. /\ t \in Movies /\ t.recorded = m.recorded /\ t.readOnly = m.readOnly
      /\ t.rerecords = m.rerecords /\ t.state \in {"PLAY", "END"}
      /\ t.currentFrame = m.currentFrame /\ t.length = m.length
      /\ t.resetSignaled = m.resetSignaled /\ Active(t)
  <2>1. t \in Movies /\ Active(t)
    BY SettleFacts
  <2> QED BY <2>1 DEF Settle, Movies
<1> HIDE DEF t
<1>2. CASE ~(t.state = "END" /\ t.currentFrame = t.length /\ t.recorded)
  <2>1. c = t
    BY <1>2 DEF change_state, t
  <2> QED BY <1>1, <2>1
<1>3. CASE t.state = "END" /\ t.currentFrame = t.length /\ t.recorded
  <2>1. t.currentFrame <= t.length
    BY <1>1, <1>3 DEF Movies
  <2>2. c = [r EXCEPT !.paused = TRUE]
    BY <1>1, <1>3, <2>1 DEF change_state, t, VBAMovieSwitchToRecording, VBAMovieAllowsRerecording
  <2>3. /\ e \in Movies /\ e.recorded = t.recorded /\ e.rerecords = t.rerecords
        /\ e.currentFrame = t.currentFrame /\ e.length = t.length
        /\ t.readOnly = 0 => e.readOnly = 0
        /\ e.resetSignaled = t.resetSignaled
    BY <1>1 DEF VBAMovieToggleReadOnly, Movies
  <2> HIDE DEF e
  <2>4. /\ k \in Movies /\ k.recorded = t.recorded
        /\ k.rerecords \in {t.rerecords, (t.rerecords + 1) % RerecordModulus}
        /\ k.currentFrame = t.currentFrame /\ k.length = t.length
        /\ t.readOnly = 0 => k.readOnly = 0
        /\ k.resetSignaled = t.resetSignaled
    <3>1. k \in Movies
      BY <2>3, CountRerecordFacts
    <3> QED BY <2>3, <3>1 DEF CountRerecord, Movies
  <2> HIDE DEF k
  <2>5. /\ r \in Movies /\ r.recorded = t.recorded
        /\ r.rerecords \in {t.rerecords, (t.rerecords + 1) % RerecordModulus}
        /\ r.currentFrame = t.currentFrame /\ r.length = t.length
        /\ t.readOnly = 0 => r.readOnly = 0
        /\ r.resetSignaled = t.resetSignaled
    <3>1. r \in Movies
      BY <2>4, SettleType
    <3> QED BY <2>4, <3>1 DEF Settle, Movies
  <2> HIDE DEF r
  <2>6. /\ c.recorded = r.recorded /\ c.readOnly = r.readOnly /\ c.rerecords = r.rerecords
        /\ c.currentFrame = r.currentFrame /\ c.length = r.length
        /\ c.resetSignaled = r.resetSignaled
    BY <2>2, <2>5 DEF Movies
  <2>7. c.recorded = m.recorded /\ c.resetSignaled = m.resetSignaled
    BY <1>1, <2>5, <2>6
  <2>8. m.readOnly = 0 => c.readOnly = 0
    BY <1>1, <2>5, <2>6
  <2>9. m.recorded
    BY <1>1, <1>3
  <2>10. /\ c.currentFrame = c.length
         /\ c.rerecords \in {m.rerecords, (m.rerecords + 1) % RerecordModulus}
    BY <1>1, <1>3, <2>5, <2>6
  <2> QED BY <2>7, <2>8, <2>9, <2>10
<1> QED BY <1>2, <1>3

(* A movie that is opened is what its file says it is.                     *)
LEMMA OpenContent ==
  ASSUME NEW m \in Movies, NEW readOnly \in BOOLEAN,
         NEW d, d = Close(m).disk, d.exists,
         NEW u, u = VBAMovieOpen(m, readOnly)
  PROVE  /\ Active(u)
         /\ u.length = d.size
         /\ u.buf = FirstFrames(d.frames, d.size)
         /\ u.uid = d.uid
         /\ u.disk = d
         /\ u.currentFrame = 0
         /\ u.state # "RECORD"
         /\ ~u.recorded
         /\ ~u.resetSignaled
<1> DEFINE z == Close(m)
           i == InitMovie(z)
           f == FirstFrames(d.frames, d.size)
           w == IF ~d.writable THEN 2 ELSE IF readOnly THEN 1 ELSE 0
           a == [i EXCEPT !.uid = d.uid, !.length = d.size, !.rerecords = d.rerecords]
           o == [a EXCEPT !.readOnly = w, !.recorded = FALSE, !.buf = f]
<1>1. z \in Movies /\ z.disk = d
  BY CloseFacts
<1>2. i \in Movies /\ i.currentFrame = 0 /\ i.ptr = 0 /\ i.disk = d
  BY <1>1, InitMovieFacts
<1>3. ~i.resetSignaled
  BY <1>1 DEF InitMovie, Movies
<1>4. u = change_state(o, "PLAY")
  <2> HIDE DEF i
  <2>1. [i EXCEPT !.uid = d.uid, !.length = d.size, !.rerecords = d.rerecords,
                  !.readOnly = w, !.recorded = FALSE, !.buf = f] = o
    BY <1>2 DEF Movies
  <2> QED BY <1>1, <2>1 DEF VBAMovieOpen, i
<1> HIDE DEF i, z
<1>5. d \in Disks
  BY <1>1 DEF Movies
<1>6. f \in [Idx -> Frames]
  BY <1>5, FirstFramesType DEF Disks
<1> HIDE DEF f
<1>7. /\ a \in Movies /\ a.currentFrame = 0 /\ a.ptr = 0 /\ a.disk = d /\ a.uid = d.uid
      /\ a.length = d.size /\ ~a.resetSignaled
  BY <1>2, <1>3, <1>5 DEF Movies, Disks
<1> HIDE DEF a
<1>8. w \in 0 .. 2
  OBVIOUS
<1> HIDE DEF w
<1>9. /\ o \in Movies /\ o.currentFrame = 0 /\ o.ptr = 0 /\ o.disk = d /\ o.uid = d.uid
      /\ o.length = d.size /\ o.buf = f /\ ~o.recorded /\ ~o.resetSignaled
  BY <1>6, <1>7, <1>8 DEF Movies
<1> HIDE DEF o
<1>10. o.ptr = Lesser(o.currentFrame, o.length)
  BY <1>5, <1>9 DEF Lesser, Disks
<1>11. SameContent(o, u) /\ Active(u)
  BY <1>4, <1>9, <1>10, ChangeStateFacts
<1>12. ~u.recorded /\ ~u.resetSignaled /\ u.state # "RECORD"
  BY <1>4, <1>9, <1>10, ChangeStateMode
<1> QED BY <1>9, <1>11, <1>12 DEF SameContent, f

(* A movie whose file cannot be written is in the file.                    *)
ReadOnlyFile(m) ==
  m.readOnly = 2 => /\ m.disk.exists
                    /\ m.disk.size = m.length
                    /\ FirstFrames(m.disk.frames, m.length) = FirstFrames(m.buf, m.length)

(* What is closed and opened again is the same movie.                      *)
LEMMA CloseAndOpen ==
  ASSUME NEW m, Sound(m), Active(m), ReadOnlyFile(m), NEW readOnly \in BOOLEAN,
         NEW u, u = VBAMovieOpen(m, readOnly)
  PROVE  /\ Active(u)
         /\ u.length = m.length
         /\ FirstFrames(u.buf, m.length) = FirstFrames(m.buf, m.length)
<1>1. m \in Movies /\ m.length \in Int
  BY MaxFramesAssumption DEF Sound, Movies
<1>2. PICK d : d = Close(m).disk
  OBVIOUS
<1>3. /\ d.exists /\ d.size = m.length
      /\ FirstFrames(d.frames, m.length) = FirstFrames(m.buf, m.length)
  <2>1. CASE CanWrite(m)
    <3>1. d.exists /\ d.size = m.length /\ d.frames = FirstFrames(m.buf, m.length)
      BY <1>2, <2>1, CloseFile
    <3>2. \A i \in Idx : i < m.length => d.frames[i] = m.buf[i]
      BY <1>1, <3>1, FirstFramesType DEF Movies
    <3> QED BY <1>1, <3>1, <3>2, FirstFramesEqual
  <2>2. CASE ~CanWrite(m)
    BY <1>1, <1>2, <2>2, CloseKeepsFile DEF ReadOnlyFile, CanWrite
  <2> QED BY <2>1, <2>2
<1>4. Active(u) /\ u.length = d.size /\ u.buf = FirstFrames(d.frames, d.size)
  BY <1>1, <1>2, <1>3, OpenContent
<1>5. FirstFrames(u.buf, m.length) = FirstFrames(d.frames, m.length)
  <2>1. \A i \in Idx : i < m.length => u.buf[i] = d.frames[i]
    BY <1>3, <1>4 DEF FirstFrames
  <2> QED BY <1>1, <2>1, FirstFramesEqual
<1> QED BY <1>3, <1>4, <1>5

(* A movie that is created is empty and recording.                         *)
LEMMA CreateMode ==
  ASSUME NEW m \in Movies, NEW uid \in Uids, NEW u, u = VBAMovieCreate(m, uid)
  PROVE  \/ /\ Active(u) /\ u.state = "RECORD" /\ u.readOnly = 0
            /\ u.currentFrame = 0 /\ u.length = 0 /\ ~u.resetSignaled
         \/ u = VBAMovieStop(m)
<1> DEFINE z == Close(m)
           d == [z.disk EXCEPT !.exists = TRUE, !.uid = uid, !.length = 0,
                               !.rerecords = 0, !.size = 0, !.frames = ZeroBuffer]
           i == InitMovie(z)
           n == [i EXCEPT !.uid = uid, !.length = 0, !.rerecords = 0, !.readOnly = 0,
                          !.recorded = TRUE, !.disk = d]
<1>1. u = change_state(n, "RECORD") \/ u = VBAMovieStop(m)
  BY DEF VBAMovieCreate
<1>2. z \in Movies
  BY CloseFacts
<1>3. i \in Movies /\ i.currentFrame = 0
  BY <1>2, InitMovieFacts
<1>4. ~i.resetSignaled
  BY <1>2 DEF InitMovie, Movies
<1> HIDE DEF i, z, d
<1>5. /\ n.currentFrame = 0 /\ n.length = 0 /\ n.readOnly = 0 /\ ~n.resetSignaled
      /\ n = [i EXCEPT !.uid = uid, !.length = 0, !.rerecords = 0, !.readOnly = 0,
                       !.recorded = TRUE, !.disk = d]
  BY <1>3, <1>4 DEF Movies
<1> DEFINE t == Settle(n, "RECORD")
<1>6. /\ t.state = "RECORD" /\ t.readOnly = 0 /\ t.currentFrame = 0 /\ t.length = 0
      /\ ~t.resetSignaled
  BY <1>3, <1>4 DEF Settle, Movies
<1>7. change_state(n, "RECORD") = t
  <2> HIDE DEF n
  <2>1. t.state # "END"
    BY <1>6
  <2> QED BY <2>1 DEF change_state
<1> QED BY <1>1, <1>6, <1>7 DEF Active

-----------------------------------------------------------------------------
(* Loading: what becomes of inputs, mode and count.                        *)

(* Taking a branch leaves an editable movie whose count has moved on, if   *)
(* no script has asked for it to stay.                                     *)
LEMMA BranchMode ==
  ASSUME NEW m \in Movies, m.readOnly = 0, NEW s \in Freezes, NEW t, t = TakeFreeze(m, s)
  PROVE  /\ t.readOnly = 0
         /\ ~m.skipRerecords => t.rerecords = (m.rerecords + 1) % RerecordModulus
<1> DEFINE b == Branch(m, s)
           c == CountRerecord(b)
           h == flush_movie_header(c)
<1>1. t = flush_movie_frames(h)
  BY DEF TakeFreeze
<1>2. h \in Movies
  BY BranchHeaderType
<1>3. t = [h EXCEPT !.disk = t.disk]
  BY <1>1, <1>2, FlushFramesFacts
<1>4. /\ b.readOnly = 0 /\ b.rerecords = m.rerecords /\ b.skipRerecords = m.skipRerecords
      /\ b \in [DOMAIN m -> {b[x] : x \in DOMAIN m}]
  BY DEF Branch, Movies
<1> HIDE DEF b
<1>5. c.readOnly = 0 /\ (~m.skipRerecords => c.rerecords = (m.rerecords + 1) % RerecordModulus)
  BY <1>4 DEF CountRerecord
<1> HIDE DEF c
<1>6. h.readOnly = 0 /\ h.rerecords = c.rerecords
  BY <1>5 DEF flush_movie_header
<1> HIDE DEF h
<1> QED BY <1>2, <1>3, <1>5, <1>6 DEF Movies

(* A save state is loaded as a position, or as a branch.                   *)
LEMMA UnfreezeMode ==
  ASSUME NEW m, Sound(m), Active(m), NEW s \in Freezes, UnfreezeCode(m, s) = "SUCCESS",
         NEW stray \in BOOLEAN, NEW u, u = VBAMovieUnfreeze(m, s, stray)
  PROVE  /\ ~u.resetSignaled
         /\ m.readOnly # 0 =>
              /\ u.length = m.length /\ u.buf = m.buf /\ u.disk = m.disk
              /\ ~m.recorded => u.readOnly = m.readOnly /\ ~u.recorded /\ u.state # "RECORD"
         /\ m.readOnly = 0 =>
              /\ u.length = s.length
              /\ \A i \in Idx : i < s.length => u.buf[i] = s.input[i]
              /\ u.readOnly = 0
              /\ u.state = "RECORD" => u.currentFrame = u.length
              /\ ~m.skipRerecords =>
                   LET r == (m.rerecords + 1) % RerecordModulus
                   IN u.rerecords \in {r, (r + 1) % RerecordModulus}
<1> DEFINE t == TakeFreeze(m, s)
           c == change_state(t, "PLAY")
           w == IF c.ptr > 0 THEN c.buf[c.ptr - 1].newReset ELSE stray
<1>1. m \in Movies /\ s.uid = m.uid
  BY DEF Sound, UnfreezeCode, SameMovie
<1>2. u = [c EXCEPT !.resetSignaled = FALSE, !.resetSignaledLast = s.currentFrame > 0 /\ w]
  BY DEF VBAMovieUnfreeze
<1> HIDE DEF w
<1>3. t \in Movies /\ t.ptr = Lesser(t.currentFrame, t.length)
  BY <1>1, TakeFreezeEditable, TakeFreezeReadOnly
<1>4. m.readOnly # 0 => /\ t.length = m.length /\ t.buf = m.buf /\ t.disk = m.disk
                        /\ t.readOnly = m.readOnly /\ t.recorded = m.recorded
  BY <1>1 DEF TakeFreeze, MoveCursor, Movies
<1>5. m.readOnly = 0 => /\ t.length = s.length /\ t.readOnly = 0
                        /\ \A i \in Idx : i < s.length => t.buf[i] = s.input[i]
                        /\ ~m.skipRerecords =>
                             t.rerecords = (m.rerecords + 1) % RerecordModulus
  BY <1>1, BranchMode, TakeFreezeEditable
<1> HIDE DEF t
<1>6. /\ c \in Movies /\ SameContent(t, c)
  BY <1>3, ChangeStateFacts
<1>7. /\ c.recorded = t.recorded
      /\ ~t.recorded \/ t.readOnly = 0 => c.readOnly = t.readOnly
      /\ c.state = "RECORD" => t.recorded /\ c.currentFrame = c.length
      /\ c.rerecords \in {t.rerecords, (t.rerecords + 1) % RerecordModulus}
  BY <1>3, ChangeStateMode
<1> HIDE DEF c
<1>8. /\ u.length = c.length /\ u.buf = c.buf /\ u.disk = c.disk /\ u.readOnly = c.readOnly
      /\ u.recorded = c.recorded /\ u.state = c.state /\ u.currentFrame = c.currentFrame
      /\ u.rerecords = c.rerecords /\ ~u.resetSignaled
  BY <1>2, <1>6 DEF Movies
<1>9. ASSUME m.readOnly # 0 
      PROVE  /\ u.length = m.length /\ u.buf = m.buf /\ u.disk = m.disk
             /\ ~m.recorded => u.readOnly = m.readOnly /\ ~u.recorded /\ u.state # "RECORD"
  BY <1>4, <1>6, <1>7, <1>8, <1>9 DEF SameContent
<1>10. ASSUME m.readOnly = 0
       PROVE  /\ u.length = s.length
              /\ \A i \in Idx : i < s.length => u.buf[i] = s.input[i]
              /\ u.readOnly = 0
              /\ u.state = "RECORD" => u.currentFrame = u.length
              /\ ~m.skipRerecords =>
                   LET r == (m.rerecords + 1) % RerecordModulus
                   IN u.rerecords \in {r, (r + 1) % RerecordModulus}
  BY <1>5, <1>6, <1>7, <1>8, <1>10 DEF SameContent
<1> QED BY <1>8, <1>9, <1>10

-----------------------------------------------------------------------------
(* What the front end of this repository keeps of an open movie.           *)

(* Recording goes on at the end of the inputs and into a file that can be  *)
(* written; a movie that is read-only was not recorded in this session.    *)
Mode(m) ==
  Active(m) => /\ m.state = "RECORD" => m.readOnly = 0 /\ m.currentFrame = m.length
               /\ m.readOnly # 0 => ~m.recorded
               /\ ReadOnlyFile(m)

(* An edit of other fields.                                                *)
LEMMA EditMode ==
  ASSUME NEW m, Mode(m), NEW n, SameContent(m, n), n.state = m.state,
         n.readOnly = m.readOnly, n.recorded = m.recorded
  PROVE  Mode(n)
BY DEF Mode, SameContent, Active, ReadOnlyFile

(* One frame.                                                              *)
LEMMA UpdateMode ==
  ASSUME NEW m, Sound(m), Mode(m), m.currentFrame < MaxFrames,
         NEW u, u = VBAMovieUpdateState(m)
  PROVE  Mode(u)
<1>1. m \in Movies /\ m.state \in {"NONE", "PLAY", "RECORD", "END"}
  BY DEF Sound, Movies, MovieStates
<1>2. CASE m.state = "NONE"
  BY <1>1, <1>2 DEF VBAMovieUpdateState, Mode, Active, Movies
<1>3. CASE m.state = "RECORD"
  <2>1. /\ u.state = "RECORD" /\ u.currentFrame = u.length /\ u \in Movies
    BY <1>1, <1>3, RecordFrameFacts DEF Sound
  <2>2. m.readOnly = 0
    BY <1>3 DEF Mode, Active
  <2> DEFINE n == [m EXCEPT !.currentFrame = @ + 1]
             v == WriteFrame(VBAMovieWrite(n))
             x == [v EXCEPT !.length = n.currentFrame, !.ptr = @ + 1, !.recorded = TRUE]
  <2>3. u = flush_movie_header(x)
    BY <1>3 DEF VBAMovieUpdateState, RecordFrame
  <2>4. v.readOnly = 0
    BY <1>1, <2>2 DEF WriteFrame, VBAMovieWrite, Movies
  <2> HIDE DEF v
  <2>5. u.readOnly = 0
    BY <2>3, <2>4 DEF flush_movie_header
  <2> QED BY <2>1, <2>5 DEF Mode, ReadOnlyFile
<1>4. CASE m.state \in {"PLAY", "END"}
  <2> DEFINE n == [m EXCEPT !.currentFrame = @ + 1]
             p == [n EXCEPT !.ptr = @ + 1]
  <2>1. /\ m.currentFrame \in Nat /\ m.length \in Nat /\ m.ptr = Lesser(m.currentFrame, m.length)
        /\ m.state = "PLAY" => m.currentFrame < m.length
        /\ m.state = "END"  => m.currentFrame >= m.length
    BY <1>1, <1>4, MaxFramesAssumption DEF Sound, CursorsAgree, Active, Movies
  <2>2. /\ n \in Movies /\ n.currentFrame = m.currentFrame + 1 /\ n.length = m.length
        /\ n.buf = m.buf /\ n.disk = m.disk /\ n.readOnly = m.readOnly
        /\ n.recorded = m.recorded /\ n.ptr = m.ptr /\ n.state = m.state
    BY <1>1, <2>1, MaxFramesAssumption DEF Movies
  <2>3. m.state = "PLAY" =>
          /\ p \in Movies /\ p.currentFrame = m.currentFrame + 1 /\ p.length = m.length
          /\ p.buf = m.buf /\ p.disk = m.disk /\ p.readOnly = m.readOnly
          /\ p.recorded = m.recorded /\ p.state = "PLAY"
          /\ p.ptr = Lesser(p.currentFrame, p.length)
    <3> HIDE DEF n
    <3> QED BY <2>1, <2>2, MaxFramesAssumption DEF Movies, Lesser
  <2>4. ASSUME NEW q \in Movies, q.length = m.length, q.buf = m.buf, q.disk = m.disk,
               q.readOnly = m.readOnly, q.recorded = m.recorded,
               q.ptr = Lesser(q.currentFrame, q.length), q.currentFrame >= q.length,
               u = change_state(q, "END")
        PROVE  Mode(u)
    <3>1. SameContent(q, u)
      BY <2>4, ChangeStateFacts
    <3>2. /\ u.recorded = q.recorded
          /\ ~q.recorded \/ q.readOnly = 0 => u.readOnly = q.readOnly
          /\ u.state = "RECORD" => q.recorded /\ u.currentFrame = u.length
      BY <2>4, ChangeStateMode
    <3>3. Active(m) /\ (q.readOnly # 0 => ~q.recorded) /\ ReadOnlyFile(q)
      BY <1>4, <2>4 DEF Mode, Active, ReadOnlyFile
    <3>4. u.readOnly = q.readOnly
      BY <3>2, <3>3
    <3>5. (u.state = "RECORD" => u.readOnly = 0) /\ (u.readOnly # 0 => ~u.recorded)
      BY <3>2, <3>3, <3>4
    <3> QED BY <3>1, <3>2, <3>3, <3>4, <3>5 DEF Mode, ReadOnlyFile, SameContent
  <2> HIDE DEF n, p
  <2>5. CASE m.state = "END"
    <3>1. u = change_state(n, "END")
      BY <2>5 DEF VBAMovieUpdateState, n
    <3> QED BY <2>1, <2>2, <2>4, <2>5, <3>1 DEF Lesser
  <2>6. CASE m.state = "PLAY" /\ p.currentFrame >= p.length
    <3>1. u = change_state(p, "END")
      BY <2>6 DEF VBAMovieUpdateState, n, p
    <3> QED BY <2>3, <2>4, <2>6, <3>1
  <2>7. CASE m.state = "PLAY" /\ ~(p.currentFrame >= p.length)
    <3>1. u = p
      BY <2>7 DEF VBAMovieUpdateState, n, p
    <3> QED BY <2>3, <2>7, <3>1 DEF Mode, Active, ReadOnlyFile
  <2> QED BY <1>4, <2>5, <2>6, <2>7
<1> QED BY <1>1, <1>2, <1>3, <1>4

-----------------------------------------------------------------------------
(* The actions, as far as the steps below look at them.                    *)

(* The start of a frame edits the buttons and the reset flags.             *)
LEMMA FrameStartFacts ==
  ASSUME IInv, FrameStart
  PROVE  /\ SameContent(movie, movie') /\ movie'.state = movie.state
         /\ movie'.readOnly = movie.readOnly /\ movie'.recorded = movie.recorded
         /\ movie'.rerecords = movie.rerecords
         /\ ~movie'.resetSignaled
         /\ movie'.resetSignaledLast = VBAMovieRead(movie).resetSignaled
<1> DEFINE read == VBAMovieRead(movie)
<1>1. movie \in Movies /\ Sound(movie) /\ newFrame /\ movie.currentFrame < MaxFrames
  BY DEF IInv, TypeOK, FrameStart
<1>2. movie.state = "PLAY" => movie.ptr < MaxFrames
  BY <1>1, MaxFramesAssumption DEF Sound, CursorsAgree, Active, Lesser, Movies
<1>3. /\ read \in Movies
      /\ read = [movie EXCEPT !.pad = read.pad, !.resetSignaled = read.resetSignaled]
  BY <1>1, <1>2, ReadFacts
<1>4. movie' = [read EXCEPT !.resetSignaled = FALSE, !.resetSignaledLast = read.resetSignaled]
  BY DEF FrameStart, VBAMovieResetIfRequested
<1> HIDE DEF read
<1>5. /\ movie'.state = read.state /\ movie'.currentFrame = read.currentFrame
      /\ movie'.length = read.length /\ movie'.buf = read.buf /\ movie'.uid = read.uid
      /\ movie'.disk = read.disk /\ movie'.readOnly = read.readOnly
      /\ movie'.recorded = read.recorded /\ movie'.rerecords = read.rerecords
      /\ ~movie'.resetSignaled /\ movie'.resetSignaledLast = read.resetSignaled
  BY <1>3, <1>4 DEF Movies
<1>6. /\ read.state = movie.state /\ read.currentFrame = movie.currentFrame
      /\ read.length = movie.length /\ read.buf = movie.buf /\ read.uid = movie.uid
      /\ read.disk = movie.disk /\ read.readOnly = movie.readOnly
      /\ read.recorded = movie.recorded /\ read.rerecords = movie.rerecords
  BY <1>1, <1>3 DEF Movies
<1> QED BY <1>5, <1>6 DEF SameContent, CanWrite, read

(* So do the buttons of the user, the end of a pause and a Lua script.     *)
InputEdit == Resume \/ SetSkipRerecords \/ \E pad \in Pads : SetButtons(pad)

LEMMA InputEditFacts ==
  ASSUME IInv, InputEdit
  PROVE  /\ SameContent(movie, movie') /\ movie'.state = movie.state
         /\ movie'.readOnly = movie.readOnly /\ movie'.recorded = movie.recorded
         /\ movie'.rerecords = movie.rerecords
         /\ movie'.resetSignaled = movie.resetSignaled
         /\ UNCHANGED <<machine, newFrame, slots>>
<1>1. movie \in Movies
  BY DEF IInv, TypeOK
<1> QED BY <1>1 DEF InputEdit, Resume, SetSkipRerecords, SetButtons, SameContent, CanWrite, Movies

(* The reset of the user sets a flag.                                      *)
LEMMA UserResetFacts ==
  ASSUME IInv, UserReset
  PROVE  /\ SameContent(movie, movie') /\ movie'.state = movie.state
         /\ movie'.readOnly = movie.readOnly /\ movie'.recorded = movie.recorded
         /\ movie'.rerecords = movie.rerecords
         /\ machine'.userResets # 0
         /\ UNCHANGED <<newFrame, slots>>
<1>1. movie \in Movies /\ machine \in Machines
  BY DEF IInv, TypeOK
<1>2. movie' = movie \/ movie' = [movie EXCEPT !.resetSignaled = TRUE]
  BY DEF UserReset, VBAMovieSignalReset
<1>3. /\ machine.userResets \in Nat
      /\ \E pending \in BOOLEAN :
           machine' = [machine EXCEPT !.userResets = machine.userResets + 1,
                                      !.resetPending = pending]
  <2>1. machine.resetPending \in BOOLEAN /\ machine.userResets \in Nat
    BY <1>1, UserResetsAssumption DEF Machines
  <2>2. CASE movie.state = "RECORD"
    <3>1. machine' = [machine EXCEPT !.userResets = machine.userResets + 1]
      BY <2>2 DEF UserReset
    <3>2. machine' = [machine EXCEPT !.userResets = machine.userResets + 1,
                                     !.resetPending = machine.resetPending]
      BY <1>1, <3>1 DEF Machines
    <3> QED BY <2>1, <3>2
  <2>3. CASE movie.state # "RECORD"
    BY <2>1, <2>3 DEF UserReset
  <2> QED BY <2>2, <2>3
<1>4. machine'.userResets # 0
  BY <1>1, <1>3 DEF Machines
<1> QED BY <1>1, <1>2, <1>4 DEF UserReset, SameContent, CanWrite, Movies

(* What gbReadSaveState does to an open movie.                             *)
LEMMA LoadFacts ==
  ASSUME IInv, newFrame, NEW n \in Slots, LoadFile(n), Active(movie),
         NEW s, s = StateToLoad(n)
  PROVE  /\ s.freeze \in Freezes /\ UnfreezeCode(movie, s.freeze) = "SUCCESS"
         /\ machine' = s.machine /\ FrozenInStep(s)
         /\ \E stray \in BOOLEAN : \E u : 
              /\ u = VBAMovieUnfreeze(movie, s.freeze, stray)
              /\ SameContent(u, movie') /\ movie'.state = u.state
              /\ movie'.readOnly = u.readOnly /\ movie'.recorded = u.recorded
              /\ movie'.rerecords = u.rerecords /\ movie'.ptr = u.ptr
              /\ movie'.resetSignaled = u.resetSignaled
              /\ Sound(u)
<1>1. Loadable(s) /\ LoadInto(s)
  BY StateToLoadFacts DEF LoadFile
<1>2. /\ s.freeze \in Freezes /\ UnfreezeCode(movie, s.freeze) = "SUCCESS"
      /\ machine' = s.machine /\ Sound(movie) /\ movie \in Movies /\ FrozenInStep(s)
  BY <1>1 DEF Loadable, LoadInto, IInv, Sound
<1>3. PICK stray \in BOOLEAN :
        movie' = [VBAMovieUnfreeze(movie, s.freeze, stray) EXCEPT !.pad = s.gbJoymask]
  BY <1>1 DEF LoadInto
<1>4. PICK u : u = VBAMovieUnfreeze(movie, s.freeze, stray)
  OBVIOUS
<1>5. Sound(u) /\ u \in Movies
  BY <1>2, <1>4, UnfreezeFacts DEF Sound
<1>6. movie' = [u EXCEPT !.pad = s.gbJoymask]
  BY <1>3, <1>4
<1>7. /\ SameContent(u, movie') /\ movie'.state = u.state
      /\ movie'.readOnly = u.readOnly /\ movie'.recorded = u.recorded
      /\ movie'.rerecords = u.rerecords /\ movie'.ptr = u.ptr
      /\ movie'.resetSignaled = u.resetSignaled
  BY <1>5, <1>6 DEF Movies, SameContent, CanWrite
<1> QED BY <1>2, <1>4, <1>5, <1>7

(* With no movie open, a load leaves none open.                            *)
LEMMA LoadUnopened ==
  ASSUME IInv, NEW n, LoadFile(n), ~Active(movie)
  PROVE  ~Active(movie') /\ movie'.resetSignaled = movie.resetSignaled
<1>1. movie \in Movies
  BY DEF IInv, TypeOK
<1> QED BY <1>1 DEF LoadFile, LoadInto, Active, Movies

(* The front end keeps the mode.                                           *)
LEMMA FrontMode ==
  ASSUME IInv, Mode(movie), newFrame, FrontEnd
  PROVE  Mode(movie')
<1>1. Sound(movie) /\ movie \in Movies
  BY DEF IInv, TypeOK
<1>2. CASE InputEdit \/ UserReset
  BY <1>2, InputEditFacts, UserResetFacts, EditMode
<1>3. ASSUME NEW n \in Slots, SaveState(n) PROVE Mode(movie')
  BY <1>3 DEF SaveState
<1>4. ASSUME NEW n \in Slots, LoadFile(n) PROVE Mode(movie')
  <2>1. CASE ~Active(movie)
    BY <1>4, <2>1, LoadUnopened DEF Mode
  <2>2. CASE Active(movie)
    <3>1. PICK s : s = StateToLoad(n)
      OBVIOUS
    <3>2. s.freeze \in Freezes /\ UnfreezeCode(movie, s.freeze) = "SUCCESS"
      BY <1>4, <2>2, <3>1, LoadFacts
    <3>3. PICK stray, u :
              /\ stray \in BOOLEAN /\ u = VBAMovieUnfreeze(movie, s.freeze, stray)
              /\ SameContent(u, movie') /\ movie'.state = u.state
              /\ movie'.readOnly = u.readOnly /\ movie'.recorded = u.recorded
      BY <1>4, <2>2, <3>1, LoadFacts
    <3>4. CASE movie.readOnly # 0
      BY <1>1, <2>2, <3>2, <3>3, <3>4, UnfreezeMode DEF Mode, ReadOnlyFile, SameContent
    <3>5. CASE movie.readOnly = 0
      BY <1>1, <2>2, <3>2, <3>3, <3>5, UnfreezeMode DEF Mode, ReadOnlyFile, SameContent
    <3> QED BY <3>4, <3>5
  <2> QED BY <2>1, <2>2
<1>5. CASE OpenMovie
  <2>1. PICK readOnly \in BOOLEAN : movie' = VBAMovieOpen(movie, readOnly)
    BY <1>5 DEF OpenMovie, StartMovie
  <2>2. PICK d : d = Close(movie).disk
    OBVIOUS
  <2>3. CASE d.exists
    <3>1. /\ movie'.length = d.size /\ movie'.buf = FirstFrames(d.frames, d.size)
          /\ movie'.disk = d /\ movie'.state # "RECORD" /\ ~movie'.recorded
      BY <1>1, <2>1, <2>2, <2>3, OpenContent
    <3>2. d.size \in Int
      BY <1>1, <2>2, CloseFacts, MaxFramesAssumption DEF Movies, Disks
    <3>3. FirstFrames(d.frames, d.size) = FirstFrames(movie'.buf, d.size)
      <4>1. \A i \in Idx : i < d.size => d.frames[i] = movie'.buf[i]
        BY <3>1 DEF FirstFrames
      <4> QED BY <3>2, <4>1, FirstFramesEqual
    <3> QED BY <2>3, <3>1, <3>3 DEF Mode, ReadOnlyFile
  <2>4. CASE ~d.exists
    <3>1. movie' = Close(movie)
      BY <2>1, <2>2, <2>4 DEF VBAMovieOpen
    <3> QED BY <1>1, <3>1, CloseFacts DEF Mode
  <2> QED BY <2>3, <2>4
<1>6. CASE CreateMovie
  <2>1. PICK uid \in Uids : movie' = VBAMovieCreate(movie, uid)
    BY <1>6 DEF CreateMovie, StartMovie
  <2>2. CASE /\ movie'.state = "RECORD" /\ movie'.readOnly = 0
             /\ movie'.currentFrame = 0 /\ movie'.length = 0
    BY <2>2 DEF Mode, ReadOnlyFile
  <2>3. CASE movie' = VBAMovieStop(movie)
    BY <1>1, <2>3, StopFacts DEF Mode
  <2> QED BY <1>1, <2>1, <2>2, <2>3, CreateMode
<1>7. CASE StopMovie
  BY <1>1, <1>7, StopFacts DEF StopMovie, MovieCall, Mode
<1> QED BY <1>2, <1>3, <1>4, <1>5, <1>6, <1>7 DEF FrontEnd, InputEdit

FrontInv == IInv /\ Mode(movie)

(* The invariant of the front end, for every size.                         *)
LEMMA FrontInvariance == SpecCrash => []FrontInv
<1>1. Init => FrontInv
  <2>1. Init => Mode(movie)
    BY DEF Init, NoMovie, Mode, Active
  <2> QED BY <2>1, InitIInv DEF FrontInv
<1>2. FrontInv /\ [NextCrash]_vars => FrontInv'
  <2> SUFFICES ASSUME FrontInv, [NextCrash]_vars PROVE FrontInv'
    OBVIOUS
  <2>1. IInv /\ Mode(movie) /\ Sound(movie)
    BY DEF FrontInv, IInv
  <2>2. IInv'
    BY <2>1, NextIInv DEF NextCalls
  <2>3. CASE UNCHANGED vars
    BY <2>1, <2>2, <2>3 DEF FrontInv, vars, Mode, Active, ReadOnlyFile
  <2>4. CASE FrameStart
    BY <2>1, <2>2, <2>4, FrameStartFacts, EditMode DEF FrontInv
  <2>5. CASE FrameEnd
    BY <2>1, <2>2, <2>5, UpdateMode DEF FrontInv, FrameEnd
  <2>6. CASE newFrame /\ FrontEnd
    BY <2>1, <2>2, <2>6, FrontMode DEF FrontInv
  <2>7. CASE Crash \/ CrashWhileWriting \/ \E n \in Slots : CrashWhileLoading(n)
    BY <2>1, <2>2, <2>7, CrashFacts DEF FrontInv, Mode
  <2> QED BY <2>3, <2>4, <2>5, <2>6, <2>7 DEF NextCrash, Next, Run
<1> QED BY <1>1, <1>2, PTL DEF SpecCrash

-----------------------------------------------------------------------------
(* The file.                                                               *)

(* Closing a movie cuts its file to the recorded inputs, under all calls.  *)
THEOREM ClosingIsExact == SpecCalls => ClosedFileIsExact
<1> DEFINE Exact == StopMovie /\ CanWrite(movie) =>
                      /\ movie'.disk.size = movie.length
                      /\ movie'.disk.length = movie.length
                      /\ movie'.disk.frames = FirstFrames(movie.buf, movie.length)
<1>1. IInv => Exact
  <2> SUFFICES ASSUME IInv, StopMovie, CanWrite(movie)
               PROVE  /\ movie'.disk.size = movie.length
                      /\ movie'.disk.length = movie.length
                      /\ movie'.disk.frames = FirstFrames(movie.buf, movie.length)
    OBVIOUS
  <2>1. Active(movie) /\ Sound(movie) /\ movie' = Close(movie)
    BY DEF IInv, StopMovie, MovieCall, VBAMovieStop
  <2> QED BY <2>1, CloseFile
<1>2. SpecCalls => [][Exact]_vars
  <2> HIDE DEF Exact
  <2> QED BY <1>1, Invariance, PTL
<1> QED BY <1>2 DEF ClosedFileIsExact

(* However a recording ends, its file starts with all of its frames.       *)
THEOREM RecordingIsKept == Spec => CrashKeepsRecording
<1> DEFINE Kept == /\ movie.state = "RECORD" /\ CanWrite(movie) /\ ~Active(movie')
                   => /\ movie'.disk.size >= movie.currentFrame
                      /\ FirstFrames(movie'.disk.frames, movie.currentFrame)
                           = FirstFrames(movie.buf, movie.currentFrame)
<1>1. IInv /\ [Next]_vars => Kept
  <2> SUFFICES ASSUME IInv, [Next]_vars, movie.state = "RECORD", CanWrite(movie), ~Active(movie')
               PROVE  /\ movie'.disk.size >= movie.currentFrame
                      /\ FirstFrames(movie'.disk.frames, movie.currentFrame)
                           = FirstFrames(movie.buf, movie.currentFrame)
    OBVIOUS
  <2>1. /\ movie \in Movies /\ Sound(movie) /\ Active(movie) /\ FileAgrees(movie)
        /\ movie.currentFrame \in Nat /\ movie.length \in Nat
        /\ movie.currentFrame <= movie.length /\ movie.ptr = movie.currentFrame
        /\ movie.filePos = movie.currentFrame
    BY MaxFramesAssumption DEF IInv, TypeOK, Sound, CursorsAgree, Active, Lesser, Movies
  <2>2. \A i \in Idx : i < movie.length => movie.disk.frames[i] = movie.buf[i]
    BY <2>1, FirstFramesShare DEF FileAgrees
  <2>3. SUFFICES /\ movie'.disk.size >= movie.currentFrame
                 /\ \A i \in Idx : i < movie.currentFrame =>
                      movie'.disk.frames[i] = movie.buf[i]
    BY <2>1, FirstFramesEqual
  <2>4. CASE UNCHANGED vars
    BY <2>1, <2>4 DEF vars, Active
  <2>5. CASE FrameStart
    BY <2>1, <2>5, FrameStartFacts DEF Active
  <2>6. CASE FrameEnd
    BY <2>1, <2>6, RecordFrameFacts DEF FrameEnd, Active
  <2>7. CASE newFrame /\ FrontEnd
    <3>1. CASE InputEdit \/ UserReset
      BY <2>1, <3>1, InputEditFacts, UserResetFacts DEF Active
    <3>2. CASE \E n \in Slots : SaveState(n)
      BY <2>1, <3>2 DEF SaveState
    <3>3. CASE \E n \in Slots : LoadFile(n)
      <4>1. PICK n, s : n \in Slots /\ LoadFile(n) /\ s = StateToLoad(n)
        BY <3>3
      <4>2. PICK u : movie'.state = u.state /\ Active(u)
        BY <2>1, <2>7, <4>1, LoadFacts, UnfreezeFacts
      <4> QED BY <4>2 DEF Active
    <3>4. ASSUME movie' = Close(movie)
          PROVE  /\ movie'.disk.size >= movie.currentFrame
                 /\ \A i \in Idx : i < movie.currentFrame =>
                      movie'.disk.frames[i] = movie.buf[i]
      <4>1. /\ movie'.disk.size = movie.length
            /\ movie'.disk.frames = FirstFrames(movie.buf, movie.length)
        BY <2>1, <3>4, CloseFile
      <4> QED BY <2>1, <4>1 DEF FirstFrames, Idx
    <3>5. CASE OpenMovie
      <4>1. PICK readOnly \in BOOLEAN : movie' = VBAMovieOpen(movie, readOnly)
        BY <3>5 DEF OpenMovie, StartMovie
      <4>2. ReadOnlyFile(movie)
        BY DEF ReadOnlyFile, CanWrite
      <4> QED BY <2>1, <4>1, <4>2, CloseAndOpen
    <3>6. CASE CreateMovie
      <4>1. PICK uid \in Uids : movie' = VBAMovieCreate(movie, uid)
        BY <3>6 DEF CreateMovie, StartMovie
      <4>2. movie' = VBAMovieStop(movie)
        BY <2>1, <4>1, CreateMode
      <4> QED BY <2>1, <3>4, <4>2 DEF VBAMovieStop
    <3>7. CASE StopMovie
      BY <2>1, <3>4, <3>7 DEF StopMovie, MovieCall, VBAMovieStop
    <3> QED BY <2>7, <3>1, <3>2, <3>3, <3>5, <3>6, <3>7 DEF FrontEnd, InputEdit
  <2>8. CASE Crash
    <3>1. movie'.disk = movie.disk
      BY <2>1, <2>8, CrashedFacts DEF Crash, Restarted
    <3>2. movie.disk.size \in Nat
      BY <2>1, MaxFramesAssumption DEF Movies, Disks
    <3> QED BY <2>1, <2>2, <3>1, <3>2 DEF FileAgrees, Idx
  <2>9. CASE CrashWhileWriting
    <3> DEFINE v == VBAMovieWrite(movie)
               w == WriteFrame(v)
    <3>1. movie.currentFrame < MaxFrames /\ Restarted(w)
      BY <2>9 DEF CrashWhileWriting
    <3>2. v \in Movies /\ v = [movie EXCEPT !.buf = v.buf]
      BY <2>1, <3>1, WriteFacts
    <3> HIDE DEF v
    <3>3. /\ v.ptr = movie.currentFrame /\ v.filePos = movie.currentFrame
          /\ v.disk = movie.disk /\ CanWrite(v)
      BY <2>1, <3>2 DEF Movies, CanWrite
    <3>4. /\ w \in Movies /\ w.disk.size >= movie.currentFrame + 1
          /\ w.disk.frames = [movie.disk.frames EXCEPT ![movie.currentFrame]
                                = v.buf[movie.currentFrame]]
      BY <3>1, <3>2, <3>3, WriteFrameFacts
    <3> HIDE DEF w
    <3>5. movie'.disk = w.disk /\ w.disk.size \in Nat
      BY <3>1, <3>4, CrashedFacts, MaxFramesAssumption DEF Restarted, Movies, Disks
    <3>6. movie.disk.frames \in [Idx -> Frames]
      BY <2>1 DEF Movies, Disks
    <3>7. ASSUME NEW i \in Idx, i < movie.currentFrame
          PROVE  movie'.disk.frames[i] = movie.buf[i]
      <4>1. i # movie.currentFrame /\ i < movie.length
        BY <2>1, <3>7 DEF Idx
      <4>2. movie'.disk.frames[i] = movie.disk.frames[i]
        BY <3>4, <3>5, <3>6, <4>1
      <4> QED BY <2>2, <4>1, <4>2
    <3> QED BY <2>1, <3>4, <3>5, <3>7
  <2> QED BY <2>4, <2>5, <2>6, <2>7, <2>8, <2>9 DEF Next, Run
<1>2. Spec => [][Kept]_vars
  <2> HIDE DEF Kept
  <2>1. Spec => SpecCalls
    BY RunsAreCalls
  <2> QED BY <1>1, <2>1, Invariance, PTL DEF Spec
<1> QED BY <1>2 DEF CrashKeepsRecording

(* The header of a new branch is written before its inputs.                *)
LEMMA BranchHeaderFacts ==
  ASSUME NEW m \in Movies, NEW s \in Freezes,
         NEW h, h = flush_movie_header(CountRerecord(Branch(m, s)))
  PROVE  /\ h \in Movies
         /\ h.readOnly = m.readOnly
         /\ h.disk.frames = m.disk.frames /\ h.disk.size = m.disk.size
         /\ \A i \in Idx : i < s.length => h.buf[i] = s.input[i]
<1> DEFINE g == [i \in Idx |-> IF i < s.length THEN s.input[i] ELSE m.buf[i]]
           b == Branch(m, s)
           c == CountRerecord(b)
<1>1. b = [m EXCEPT !.currentFrame = s.currentFrame, !.length = s.length,
                    !.recorded = TRUE, !.ptr = Lesser(s.currentFrame, s.length), !.buf = g]
  BY DEF Branch, Movies
<1>2. g \in [Idx -> Frames] /\ \A i \in Idx : i < s.length => g[i] = s.input[i]
  BY DEF Movies, Freezes
<1> HIDE DEF g
<1>3. /\ s.currentFrame \in 0 .. MaxFrames /\ s.length \in 0 .. MaxFrames
      /\ Lesser(s.currentFrame, s.length) \in 0 .. MaxFrames
  BY DEF Freezes, Lesser
<1> HIDE DEF b
<1>4. b \in Movies /\ b.disk = m.disk /\ b.buf = g /\ b.readOnly = m.readOnly
  BY <1>1, <1>2, <1>3 DEF Movies
<1>5. c \in Movies /\ c = [b EXCEPT !.rerecords = c.rerecords]
  BY <1>4, CountRerecordFacts
<1> HIDE DEF c
<1>6. c.disk = m.disk /\ c.buf = g /\ c.readOnly = m.readOnly
  BY <1>4, <1>5 DEF Movies
<1>7. /\ h \in Movies /\ h = [c EXCEPT !.disk = h.disk]
      /\ h.disk.frames = m.disk.frames /\ h.disk.size = m.disk.size
  BY <1>5, <1>6, FlushHeaderFacts DEF b, c
<1>8. h.buf = g /\ h.readOnly = m.readOnly
  BY <1>5, <1>6, <1>7 DEF Movies
<1> QED BY <1>2, <1>7, <1>8

(* A load that is cut off keeps in the file what the old and the new inputs*)
(* have in common, under all calls.                                        *)
THEOREM SharedIsKept == SpecCalls => CrashKeepsShared
<1> DEFINE Kept == \A n \in Slots : CrashWhileLoading(n) =>
                     \A i \in Shared(StateToLoad(n).freeze) :
                       i < movie'.disk.size /\ movie'.disk.frames[i] = movie.buf[i]
<1>1. IInv => Kept
  <2> SUFFICES ASSUME IInv, NEW n \in Slots, CrashWhileLoading(n),
                      NEW i \in Shared(StateToLoad(n).freeze)
               PROVE  i < movie'.disk.size /\ movie'.disk.frames[i] = movie.buf[i]
    OBVIOUS
  <2> DEFINE s == StateToLoad(n).freeze
             h == flush_movie_header(CountRerecord(Branch(movie, s)))
  <2>1. /\ newFrame /\ Active(movie) /\ movie.readOnly = 0 /\ slots[n] # NoState
        /\ movie \in Movies /\ Sound(movie)
    BY DEF CrashWhileLoading, IInv, TypeOK
  <2>2. PICK written \in 0 .. s.length : Restarted(WriteInputs(h, written))
    BY DEF CrashWhileLoading
  <2>3. s \in Freezes
    BY <2>1, StateToLoadFacts DEF Loadable
  <2>4. s.length \in 0 .. MaxFrames /\ written \in 0 .. MaxFrames
    BY <2>2, <2>3, MaxFramesAssumption DEF Freezes
  <2>5. i \in Idx /\ i < movie.length /\ i < s.length /\ movie.buf[i] = s.input[i]
    BY DEF Shared, Idx
  <2> HIDE DEF s
  <2>6. /\ h \in Movies /\ h.readOnly = 0
        /\ h.disk.frames = movie.disk.frames /\ h.disk.size = movie.disk.size
        /\ \A j \in Idx : j < s.length => h.buf[j] = s.input[j]
    BY <2>1, <2>3, BranchHeaderFacts
  <2> HIDE DEF h
  <2> DEFINE w == WriteInputs(h, written)
  <2>7. w \in Movies
    BY <2>4, <2>6, WriteInputsType
  <2>8. /\ w.disk.size = Greater(h.disk.size, written)
        /\ w.disk.frames[i] = IF i < written THEN h.buf[i] ELSE h.disk.frames[i]
    <3>1. w = [h EXCEPT !.disk.size   = Greater(@, written),
                        !.disk.frames = [j \in Idx |-> IF j < written THEN h.buf[j] ELSE @[j]]]
      BY <2>6 DEF WriteInputs, CanWrite
    <3> HIDE DEF w
    <3> QED BY <2>5, <2>6, <3>1 DEF Movies, Disks
  <2>9. movie'.disk = w.disk
    BY <2>2, <2>7, CrashedFacts DEF Restarted
  <2>10. /\ movie.disk.size >= movie.length /\ movie.disk.frames[i] = movie.buf[i]
         /\ movie.disk.size \in Nat /\ movie.length \in Nat
    <3>1. FileAgrees(movie)
      BY <2>1 DEF Sound, CanWrite
    <3>2. movie.disk.size \in Nat /\ movie.length \in Nat
      BY <2>1, MaxFramesAssumption DEF Movies, Disks
    <3> QED BY <2>5, <3>1, <3>2, FirstFramesShare DEF FileAgrees
  <2>11. movie'.disk.frames[i] = movie.buf[i]
    BY <2>5, <2>6, <2>8, <2>9, <2>10
  <2>12. i < movie'.disk.size
    BY <2>4, <2>5, <2>6, <2>8, <2>9, <2>10 DEF Greater, Idx
  <2> QED BY <2>11, <2>12
<1>2. SpecCalls => [][Kept]_vars
  <2> HIDE DEF Kept
  <2> QED BY <1>1, Invariance, PTL
<1> QED BY <1>2 DEF CrashKeepsShared

-----------------------------------------------------------------------------
(* The inputs.                                                             *)

(* A load that is refused brings back machine, inputs and position, under  *)
(* all calls.                                                              *)
THEOREM RefusedLoadKeepsPosition == SpecCalls => FailedLoadKeepsPosition
<1> DEFINE Kept == \A n \in Slots : FailedLoad(n) =>
                     /\ machine' = machine
                     /\ movie'.currentFrame = movie.currentFrame
                     /\ movie'.ptr = movie.ptr
                     /\ SameInputs
<1>1. IInv /\ [NextCalls]_vars => Kept
  <2> SUFFICES ASSUME IInv, [NextCalls]_vars, NEW n \in Slots, FailedLoad(n)
               PROVE  /\ machine' = machine
                      /\ movie'.currentFrame = movie.currentFrame
                      /\ movie'.ptr = movie.ptr
                      /\ SameInputs
    OBVIOUS
  <2>1. /\ movie \in Movies /\ Sound(movie) /\ Active(movie) /\ LoadFile(n)
        /\ slots[n] # NoState /\ newFrame' = newFrame /\ newFrame \in BOOLEAN
    BY DEF FailedLoad, LoadFails, LoadFile, LoadInto, IInv, TypeOK
  <2>2. CASE ~newFrame
    <3>1. UNCHANGED vars
      BY <2>1, <2>2 DEF NextCalls, NextCrash, NextUser, Next, Run, FrameStart, FrameEnd,
         Crash, CrashWhileWriting, CrashWhileLoading, Restarted
    <3> QED BY <3>1 DEF vars, SameInputs
  <2>3. CASE newFrame
    <3>1. StateToLoad(n) = CurrentState
      BY DEF FailedLoad, StateToLoad
    <3>2. PICK z : z = VBAMovieFreeze(movie)
      OBVIOUS
    <3>3. CurrentState.freeze = z /\ CurrentState.machine = machine
      BY <2>1, <3>2 DEF CurrentState
    <3>4. z \in Freezes /\ UnfreezeCode(movie, z) = "SUCCESS" /\ machine' = machine
      BY <2>1, <2>3, <3>1, <3>3, LoadFacts
    <3>5. PICK stray, u :
              /\ stray \in BOOLEAN /\ u = VBAMovieUnfreeze(movie, z, stray)
              /\ SameContent(u, movie') /\ movie'.ptr = u.ptr
              /\ Sound(u)
      BY <2>1, <2>3, <3>1, <3>3, LoadFacts
    <3>6. /\ movie.buf \in [Idx -> Frames] /\ movie.length \in Int
          /\ z.currentFrame = movie.currentFrame /\ z.length = movie.length
          /\ z.input = FirstFrames(movie.buf, movie.length)
      BY <2>1, <3>2, MaxFramesAssumption DEF VBAMovieFreeze, Movies
    <3>7. Active(u) /\ u.currentFrame = movie.currentFrame
      BY <2>1, <3>4, <3>5, <3>6, UnfreezeFacts
    <3>8. /\ u.length = movie.length
          /\ \A i \in Idx : i < movie.length => u.buf[i] = movie.buf[i]
      <4>1. CASE movie.readOnly # 0
        BY <2>1, <3>4, <3>5, <4>1, UnfreezeMode
      <4>2. CASE movie.readOnly = 0
        <5>1. /\ u.length = z.length
              /\ \A i \in Idx : i < z.length => u.buf[i] = z.input[i]
          BY <2>1, <3>4, <3>5, <4>2, UnfreezeMode
        <5> QED BY <3>6, <5>1, FirstFramesType
      <4> QED BY <4>1, <4>2
    <3>9. u.ptr = movie.ptr
      BY <2>1, <3>5, <3>7, <3>8 DEF Sound, CursorsAgree
    <3>10. FirstFrames(u.buf, movie.length) = FirstFrames(movie.buf, movie.length)
      BY <3>6, <3>8, FirstFramesEqual
    <3> QED BY <3>4, <3>5, <3>7, <3>8, <3>9, <3>10 DEF SameContent, SameInputs
  <2> QED BY <2>1, <2>2, <2>3
<1>2. SpecCalls => [][Kept]_vars
  <2> HIDE DEF Kept
  <2> QED BY <1>1, Invariance, PTL DEF SpecCalls
<1> QED BY <1>2 DEF FailedLoadKeepsPosition

(* Playing from the start finds the movie as it was, under all calls.      *)
THEOREM RestartFindsInputs == SpecCalls => RestartKeepsInputs
<1> DEFINE Kept == newFrame /\ RestartMovie /\ CanWrite(movie) =>
                     /\ movie'.length = movie.length
                     /\ SameInputs
                     /\ movie'.currentFrame = 0
                     /\ movie'.uid = movie.uid
<1>1. IInv => Kept
  <2> SUFFICES ASSUME IInv, RestartMovie, CanWrite(movie)
               PROVE  /\ movie'.length = movie.length
                      /\ SameInputs
                      /\ movie'.currentFrame = 0
                      /\ movie'.uid = movie.uid
    OBVIOUS
  <2>1. /\ movie \in Movies /\ Sound(movie) /\ Active(movie)
        /\ movie' = VBAMovieRestart(movie)
        /\ movie.length \in Int /\ movie.buf \in [Idx -> Frames]
    BY MaxFramesAssumption DEF IInv, TypeOK, RestartMovie, StartMovie, Movies
  <2>2. PICK z, d : z = Close(movie) /\ d = z.disk
    OBVIOUS
  <2>3. PICK ro \in BOOLEAN : ro = (movie.readOnly # 0)
    OBVIOUS
  <2>4. PICK u : u = VBAMovieOpen(z, ro)
    OBVIOUS
  <2>5. movie' = [u EXCEPT !.recorded = movie.recorded]
    BY <2>1, <2>2, <2>3, <2>4 DEF VBAMovieRestart, VBAMovieStop
  <2>6. z \in Movies /\ ~Active(z)
    BY <2>1, <2>2, CloseFacts
  <2>7. /\ d.exists /\ d.uid = movie.uid /\ d.size = movie.length
        /\ d.frames = FirstFrames(movie.buf, movie.length)
    BY <2>1, <2>2, CloseFile
  <2>8. Close(z).disk = d
    BY <2>2, <2>6, CloseKeepsFile
  <2>9. /\ u.length = d.size /\ u.buf = FirstFrames(d.frames, d.size)
        /\ u.uid = d.uid /\ u.currentFrame = 0 /\ Sound(u)
    BY <2>4, <2>6, <2>7, <2>8, OpenContent, OpenFacts
  <2>10. /\ movie'.length = u.length /\ movie'.buf = u.buf /\ movie'.uid = u.uid
         /\ movie'.currentFrame = u.currentFrame
    BY <2>5, <2>9 DEF Sound, Movies
  <2>11. \A i \in Idx : i < movie.length => movie'.buf[i] = movie.buf[i]
    BY <2>7, <2>9, <2>10 DEF FirstFrames
  <2> QED BY <2>1, <2>7, <2>9, <2>10, <2>11, FirstFramesEqual DEF SameInputs
<1>2. SpecCalls => [][Kept]_vars
  <2> HIDE DEF Kept
  <2> QED BY <1>1, Invariance, PTL
<1> QED BY <1>2 DEF RestartKeepsInputs

(* A movie opened read-only keeps its inputs until it is closed.           *)
THEOREM ReadOnlyIsReadOnly == SpecCrash => ReadOnlyKeepsInputs
<1> DEFINE Kept == Active(movie) /\ movie.readOnly # 0 /\ Active(movie') =>
                     SameInputs \/ CreateMovie
<1>1. FrontInv /\ [NextCrash]_vars => Kept
  <2> SUFFICES ASSUME FrontInv, [NextCrash]_vars, Active(movie), movie.readOnly # 0,
                      Active(movie'), ~CreateMovie
               PROVE  SameInputs
    OBVIOUS
  <2>1. /\ IInv /\ Mode(movie) /\ Sound(movie) /\ movie \in Movies
        /\ movie.state \in {"PLAY", "END"}
    BY DEF FrontInv, IInv, TypeOK, Mode, Movies, MovieStates, Active
  <2>2. CASE UNCHANGED vars
    BY <2>2 DEF vars, SameInputs
  <2>3. CASE FrameStart
    BY <2>1, <2>3, FrameStartFacts DEF SameContent, SameInputs
  <2>4. CASE FrameEnd
    BY <2>1, <2>4, PlayFrameFacts DEF FrameEnd, SameInputs
  <2>5. CASE newFrame /\ FrontEnd
    <3>1. CASE InputEdit \/ UserReset
      BY <2>1, <3>1, InputEditFacts, UserResetFacts DEF SameContent, SameInputs
    <3>2. CASE \E n \in Slots : SaveState(n)
      BY <3>2 DEF SaveState, SameInputs
    <3>3. CASE \E n \in Slots : LoadFile(n)
      <4>1. PICK n, s : n \in Slots /\ LoadFile(n) /\ s = StateToLoad(n)
        BY <3>3
      <4>2. s.freeze \in Freezes /\ UnfreezeCode(movie, s.freeze) = "SUCCESS"
        BY <2>1, <2>5, <4>1, LoadFacts
      <4>3. PICK stray, u :
              stray \in BOOLEAN /\ u = VBAMovieUnfreeze(movie, s.freeze, stray) /\ SameContent(u, movie')
        BY <2>1, <2>5, <4>1, LoadFacts
      <4> QED BY <2>1, <4>2, <4>3, UnfreezeMode DEF SameContent, SameInputs
    <3>4. CASE OpenMovie
      <4>1. PICK readOnly \in BOOLEAN : movie' = VBAMovieOpen(movie, readOnly)
        BY <3>4 DEF OpenMovie, StartMovie
      <4> QED BY <2>1, <4>1, CloseAndOpen DEF Mode, SameInputs
    <3>5. ~StopMovie
      BY <2>1, StopFacts DEF StopMovie, MovieCall
    <3> QED BY <2>5, <3>1, <3>2, <3>3, <3>4, <3>5 DEF FrontEnd, InputEdit
  <2>6. ~(Crash \/ CrashWhileWriting \/ \E n \in Slots : CrashWhileLoading(n))
    BY <2>1, CrashFacts
  <2> QED BY <2>2, <2>3, <2>4, <2>5, <2>6 DEF NextCrash, Next, Run
<1>2. SpecCrash => [][Kept]_vars
  <2> HIDE DEF Kept
  <2> QED BY <1>1, FrontInvariance, PTL DEF SpecCrash
<1> QED BY <1>2 DEF ReadOnlyKeepsInputs

(* Counting once or twice shows in a counter of more than two values.      *)
LEMMA CountShows ==
  ASSUME NEW r \in 0 .. RerecordModulus - 1, RerecordModulus > 2,
         NEW once, once = (r + 1) % RerecordModulus,
         NEW twice, twice = (once + 1) % RerecordModulus
  PROVE  once # r /\ twice # r
<1>1. ASSUME NEW x \in 0 .. RerecordModulus - 1
      PROVE  (x + 1) % RerecordModulus = IF x + 1 = RerecordModulus THEN 0 ELSE x + 1
  BY <1>1, RerecordModulusAssumption
<1>2. once = IF r + 1 = RerecordModulus THEN 0 ELSE r + 1
  BY <1>1
<1>3. once \in 0 .. RerecordModulus - 1
  BY <1>2, RerecordModulusAssumption
<1>4. twice = IF once + 1 = RerecordModulus THEN 0 ELSE once + 1
  BY <1>1, <1>3
<1> QED BY <1>2, <1>4, RerecordModulusAssumption

(* Inputs of an open movie go only when a re-record is counted, unless a   *)
(* Lua script has asked for none to be, if the counter can tell none, one  *)
(* and two of them apart (that of the header has 32 bits).                 *)
THEOREM NoSilentLoss == RerecordModulus > 2 => (SpecCrash => LossIsCounted)
<1> SUFFICES ASSUME RerecordModulus > 2 PROVE SpecCrash => LossIsCounted
  OBVIOUS
<1> DEFINE Counted == /\ Active(movie) /\ Active(movie')
                      /\ \E i \in 0 .. movie.length - 1 :
                           i >= movie'.length \/ movie'.buf[i] # movie.buf[i]
                      => movie'.rerecords # movie.rerecords \/ movie.skipRerecords \/ CreateMovie
<1>1. FrontInv /\ [NextCrash]_vars => Counted
  <2> SUFFICES ASSUME FrontInv, [NextCrash]_vars PROVE Counted
    OBVIOUS
  <2>0. movie.length \in Int /\ movie'.length \in Int
    <3>1. TypeOK /\ TypeOK'
      BY NextIInv DEF FrontInv, NextCalls, IInv
    <3> QED BY <3>1, MaxFramesAssumption DEF TypeOK, Movies
  <2> SUFFICES ASSUME Active(movie), Active(movie'),
                      movie'.rerecords = movie.rerecords, ~movie.skipRerecords, ~CreateMovie,
                      NEW i \in 0 .. movie.length - 1
               PROVE  i < movie'.length /\ movie'.buf[i] = movie.buf[i]
    BY <2>0
  <2>1. /\ IInv /\ Mode(movie) /\ Sound(movie) /\ movie \in Movies
        /\ movie.state \in {"PLAY", "END", "RECORD"}
        /\ movie.length \in 0 .. MaxFrames /\ i \in Idx /\ i < movie.length
        /\ movie.rerecords \in 0 .. RerecordModulus - 1
    BY MaxFramesAssumption DEF FrontInv, IInv, TypeOK, Movies, MovieStates, Active, Idx
  <2>2. CASE UNCHANGED vars
    BY <2>1, <2>2 DEF vars
  <2>3. CASE FrameStart
    BY <2>1, <2>3, FrameStartFacts DEF SameContent
  <2>4. CASE FrameEnd
    <3>1. CASE movie.state = "RECORD"
      <4>1. movie.currentFrame = movie.length
        BY <2>1, <3>1 DEF Mode
      <4> QED BY <2>1, <2>4, <3>1, <4>1, RecordFrameFacts DEF FrameEnd
    <3>2. CASE movie.state # "RECORD"
      BY <2>1, <2>4, <3>2, PlayFrameFacts DEF FrameEnd
    <3> QED BY <3>1, <3>2
  <2>5. CASE newFrame /\ FrontEnd
    <3>1. CASE InputEdit \/ UserReset
      BY <2>1, <3>1, InputEditFacts, UserResetFacts DEF SameContent
    <3>2. CASE \E n \in Slots : SaveState(n)
      BY <2>1, <3>2 DEF SaveState
    <3>3. CASE \E n \in Slots : LoadFile(n)
      <4>1. PICK n, s : n \in Slots /\ LoadFile(n) /\ s = StateToLoad(n)
        BY <3>3
      <4>2. s.freeze \in Freezes /\ UnfreezeCode(movie, s.freeze) = "SUCCESS"
        BY <2>1, <2>5, <4>1, LoadFacts
      <4>3. PICK stray, u :
              /\ stray \in BOOLEAN /\ u = VBAMovieUnfreeze(movie, s.freeze, stray) /\ SameContent(u, movie')
              /\ movie'.rerecords = u.rerecords
        BY <2>1, <2>5, <4>1, LoadFacts
      <4>4. movie.readOnly # 0
        <5> SUFFICES ASSUME movie.readOnly = 0 PROVE FALSE
          OBVIOUS
        <5>1. PICK once : once = (movie.rerecords + 1) % RerecordModulus
          OBVIOUS
        <5>2. u.rerecords \in {once, (once + 1) % RerecordModulus}
          BY <2>1, <4>2, <4>3, <5>1, UnfreezeMode
        <5> QED BY <2>1, <4>3, <5>1, <5>2, CountShows
      <4> QED BY <2>1, <4>2, <4>3, <4>4, UnfreezeMode DEF SameContent
    <3>4. CASE OpenMovie
      <4>1. PICK readOnly \in BOOLEAN : movie' = VBAMovieOpen(movie, readOnly)
        BY <3>4 DEF OpenMovie, StartMovie
      <4>2. /\ movie'.length = movie.length
            /\ FirstFrames(movie'.buf, movie.length) = FirstFrames(movie.buf, movie.length)
        BY <2>1, <4>1, CloseAndOpen DEF Mode
      <4> QED BY <2>1, <4>2, FirstFramesShare
    <3>5. ~StopMovie
      BY <2>1, StopFacts DEF StopMovie, MovieCall
    <3> QED BY <2>5, <3>1, <3>2, <3>3, <3>4, <3>5 DEF FrontEnd, InputEdit
  <2>6. ~(Crash \/ CrashWhileWriting \/ \E n \in Slots : CrashWhileLoading(n))
    BY <2>1, CrashFacts
  <2> QED BY <2>2, <2>3, <2>4, <2>5, <2>6 DEF NextCrash, Next, Run
<1>2. SpecCrash => [][Counted]_vars
  <2> HIDE DEF Counted
  <2> QED BY <1>1, FrontInvariance, PTL DEF SpecCrash
<1> QED BY <1>2 DEF LossIsCounted

-----------------------------------------------------------------------------
(* Resets.                                                                 *)

(* The reset flags go into the frame that is recorded.                     *)
LEMMA RecordFrameResets ==
  ASSUME NEW m \in Movies, Sound(m), m.state = "RECORD", m.currentFrame < MaxFrames,
         NEW u, u = VBAMovieUpdateState(m)
  PROVE  /\ u.buf[m.currentFrame].newReset = m.resetSignaled
         /\ u.buf[m.currentFrame].oldReset = m.resetSignaledLast
         /\ u.resetSignaled = m.resetSignaled
<1>1. m.ptr = m.currentFrame /\ m.currentFrame \in Idx /\ m.currentFrame + 1 \in 0 .. MaxFrames
  BY MaxFramesAssumption DEF Sound, CursorsAgree, Active, Lesser, Movies, Idx
<1> DEFINE f == [pad |-> m.pad, newReset |-> m.resetSignaled, oldReset |-> m.resetSignaledLast]
           n == [m EXCEPT !.currentFrame = m.currentFrame + 1]
           v == [n EXCEPT !.buf[n.ptr] = f]
           w == WriteFrame(v)
           x == [w EXCEPT !.length = n.currentFrame, !.ptr = @ + 1, !.recorded = TRUE]
<1>2. /\ n \in Movies /\ n.ptr = m.currentFrame /\ n.pad = m.pad
      /\ n.resetSignaled = m.resetSignaled /\ n.resetSignaledLast = m.resetSignaledLast
  BY <1>1 DEF Movies
<1>3. u = flush_movie_header(x)
  <2>1. VBAMovieWrite(n) = v
    BY <1>2 DEF VBAMovieWrite
  <2> QED BY <2>1 DEF VBAMovieUpdateState, RecordFrame
<1> HIDE DEF n
<1>4. f \in Frames
  BY DEF Frames, Movies
<1>5. f.newReset = m.resetSignaled /\ f.oldReset = m.resetSignaledLast
  OBVIOUS
<1> HIDE DEF f
<1>6. v.buf[m.currentFrame] = f /\ v.resetSignaled = m.resetSignaled
  BY <1>1, <1>2 DEF Movies
<1> HIDE DEF v
<1>7. w.buf = v.buf /\ w.resetSignaled = v.resetSignaled
  BY DEF WriteFrame
<1> HIDE DEF w
<1>8. x.buf = w.buf /\ x.resetSignaled = w.resetSignaled
  OBVIOUS
<1> HIDE DEF x
<1>9. u.buf = x.buf /\ u.resetSignaled = x.resetSignaled
  BY <1>3 DEF flush_movie_header
<1> QED BY <1>5, <1>6, <1>7, <1>8, <1>9

(* A frame that began with a reset is still marked as such at its end.     *)
LastResetInStep ==
  ~newFrame /\ Active(movie) /\ movie.resetSignaledLast =>
    machine.fed[Len(machine.fed)].reset

(* What was read at the start of a frame is the machine's last token.      *)
LEMMA FedByFrame ==
  ASSUME IInv, FrameStart, Active(movie)
  PROVE  /\ Len(machine'.fed) = movie.currentFrame + 1
         /\ \A i \in 1 .. movie.currentFrame : machine'.fed[i] = machine.fed[i]
         /\ machine'.fed[movie.currentFrame + 1].reset
              = (machine.resetPending \/ VBAMovieRead(movie).resetSignaled)
         /\ machine'.resetPending = FALSE
<1> DEFINE read == VBAMovieRead(movie)
           pad  == IF movie.state = "PLAY" THEN read.pad ELSE movie.pad
           token == [pad |-> pad, reset |-> machine.resetPending \/ read.resetSignaled]
<1>1. /\ machine \in Machines /\ movie.currentFrame \in Nat /\ newFrame
      /\ Len(machine.fed) = movie.currentFrame
  BY MaxFramesAssumption DEF IInv, TypeOK, FrameStart, Movies, FedInStep
<1>2. machine' = [machine EXCEPT !.fed = Append(@, token), !.resetPending = FALSE]
  BY DEF FrameStart
<1>3. token.reset = (machine.resetPending \/ read.resetSignaled)
  OBVIOUS
<1> HIDE DEF token
<1>4. machine'.fed = Append(machine.fed, token) /\ machine'.resetPending = FALSE
  BY <1>1, <1>2 DEF Machines
<1>5. machine.fed \in Seq(Tokens)
  BY <1>1 DEF Machines
<1>6. /\ Len(Append(machine.fed, token)) = movie.currentFrame + 1
      /\ Append(machine.fed, token)[movie.currentFrame + 1] = token
      /\ \A i \in 1 .. movie.currentFrame : Append(machine.fed, token)[i] = machine.fed[i]
  BY <1>1, <1>5
<1> QED BY <1>3, <1>4, <1>6

(* Every step keeps it, under all calls.                                   *)
LEMMA LastResetInvariance == SpecCalls => []LastResetInStep
<1>1. Init => LastResetInStep
  BY DEF Init, LastResetInStep
<1>2. IInv /\ LastResetInStep /\ [NextCalls]_vars => LastResetInStep'
  <2> SUFFICES ASSUME IInv, LastResetInStep, [NextCalls]_vars, ~newFrame', Active(movie')
               PROVE  movie'.resetSignaledLast => machine'.fed[Len(machine'.fed)].reset
    BY DEF LastResetInStep
  <2>1. CASE UNCHANGED vars
    BY <2>1 DEF vars, LastResetInStep, Active
  <2>2. CASE FrameStart
    <3>1. Active(movie)
      BY <2>2, FrameStartFacts DEF Active
    <3> QED BY <2>2, <3>1, FedByFrame, FrameStartFacts
  <2>3. newFrame => newFrame' \/ FrameStart
    BY DEF NextCalls, NextCrash, NextUser, Next, Run, FrameEnd, Crash,
       CrashWhileWriting, CrashWhileLoading, Restarted, FrontEnd, UserInterface, UserReset,
       PauseAt, SetButtons, SetSkipRerecords, Resume, SaveState, LoadFile, LoadInto, OpenMovie, CreateMovie,
       StopMovie, RestartMovie, MovieCall, StartMovie, vars
  <2>4. ~newFrame => UNCHANGED vars \/ newFrame'
    BY DEF NextCalls, NextCrash, NextUser, Next, Run, FrameStart, FrameEnd, Crash,
       CrashWhileWriting, CrashWhileLoading, Restarted
  <2> QED BY <2>1, <2>2, <2>3, <2>4
<1> QED BY <1>1, <1>2, Invariance, PTL DEF SpecCalls

(* BUTTON_MASK_OLD_RESET is recorded only for a frame that began with a    *)
(* reset, under all calls.                                                 *)
THEOREM OldResetIsReset == SpecCalls => OldResetMarksReset
<1> DEFINE Marks == FrameEnd /\ movie.state = "RECORD" =>
                      (movie'.buf[movie.ptr].oldReset => machine.fed[Len(machine.fed)].reset)
<1>1. IInv /\ LastResetInStep => Marks
  <2> SUFFICES ASSUME IInv, LastResetInStep, FrameEnd, movie.state = "RECORD",
                      movie'.buf[movie.ptr].oldReset
               PROVE  machine.fed[Len(machine.fed)].reset
    OBVIOUS
  <2>1. /\ movie \in Movies /\ Sound(movie) /\ Active(movie) /\ ~newFrame
        /\ movie.currentFrame < MaxFrames /\ movie' = VBAMovieUpdateState(movie)
        /\ movie.ptr = movie.currentFrame
    BY DEF IInv, TypeOK, FrameEnd, Sound, CursorsAgree, Active, Lesser, Movies
  <2> QED BY <2>1, RecordFrameResets DEF LastResetInStep
<1>2. SpecCalls => [][Marks]_vars
  <2> HIDE DEF Marks
  <2> QED BY <1>1, Invariance, LastResetInvariance, PTL
<1> QED BY <1>2 DEF OldResetMarksReset

(* The resets of the machine and those of the movie, between two frames and*)
(* within one.                                                             *)
ResetsFed(m, h) ==
  \A i \in 1 .. m.currentFrame : i <= m.length => h.fed[i].reset = m.buf[i - 1].newReset
ResetsInFrame(m, h) ==
  /\ ResetsFed(m, h)
  /\ m.state = "PLAY"   => h.fed[m.currentFrame + 1].reset = m.buf[m.currentFrame].newReset
  /\ m.state = "RECORD" => h.fed[m.currentFrame + 1].reset = FALSE
FrozenResets(s) ==
  s.machine.userResets = 0 =>
    /\ s.machine.resetPending = FALSE
    /\ s.freeze # NoState =>
         \A i \in 1 .. s.freeze.currentFrame : i <= s.freeze.length =>
           s.machine.fed[i].reset = s.freeze.input[i - 1].newReset

(* No reset is left over for a machine that the user has not reset; one    *)
(* that he has reset may yet be brought back to before by a load.          *)
ResetInv ==
  /\ machine.userResets = 0 =>
       /\ machine.resetPending = FALSE
       /\ Active(movie)              => movie.resetSignaled = FALSE
       /\ newFrame /\ Active(movie)  => ResetsFed(movie, machine)
       /\ ~newFrame /\ Active(movie) => ResetsInFrame(movie, machine)
  /\ \A n \in Slots : slots[n] # NoState => FrozenResets(slots[n])

(* The start of a frame resets the machine as the movie says.              *)
LEMMA FrameStartResets == IInv /\ ResetInv /\ FrameStart => ResetInv'
<1> SUFFICES ASSUME IInv, ResetInv, FrameStart, machine'.userResets = 0 PROVE ResetInv'
  BY DEF ResetInv, FrameStart
<1>1. /\ movie \in Movies /\ Sound(movie) /\ newFrame /\ ~newFrame' /\ slots' = slots
      /\ movie.currentFrame \in Nat
  BY MaxFramesAssumption DEF IInv, TypeOK, FrameStart, Movies
<1>2. SameContent(movie, movie') /\ movie'.state = movie.state /\ movie'.resetSignaled = FALSE
  <2>1. ~movie'.resetSignaled /\ movie' \in Movies
    BY FrameStartFacts, FrameStartIInv DEF IInv, TypeOK
  <2> QED BY <2>1, FrameStartFacts DEF Movies
<1>3. CASE ~Active(movie)
  <2>1. ~Active(movie') /\ machine' = Foreign
    BY <1>2, <1>3 DEF Active, FrameStart
  <2> QED BY <1>1, <1>2, <2>1 DEF ResetInv, Foreign, Started
<1>4. CASE Active(movie)
  <2>0. machine.userResets = 0
    BY <1>4 DEF IInv, TypeOK, Machines, FrameStart
  <2>1. /\ machine'.resetPending = FALSE
        /\ \A i \in 1 .. movie.currentFrame : machine'.fed[i] = machine.fed[i]
        /\ machine'.fed[movie.currentFrame + 1].reset
              = (machine.resetPending \/ VBAMovieRead(movie).resetSignaled)
    BY <1>4, FedByFrame
  <2>2. movie.state = "PLAY" => movie.ptr = movie.currentFrame /\ movie.ptr \in Idx
    BY <1>1, MaxFramesAssumption DEF Sound, CursorsAgree, Active, Lesser, Movies, Idx
  <2>3. VBAMovieRead(movie).resetSignaled
          = (movie.state = "PLAY" /\ movie.buf[movie.ptr].newReset)
    <3>1. movie.state = "PLAY" => movie.buf[movie.ptr].newReset \in BOOLEAN
      BY <1>1, <2>2 DEF Movies, Frames
    <3> QED BY <1>1, <1>4, <2>0, <3>1 DEF VBAMovieRead, ResetInv, Movies
  <2>4. ResetsFed(movie', machine')
    BY <1>1, <1>2, <1>4, <2>0, <2>1 DEF ResetInv, ResetsFed, SameContent
  <2>5. movie.state = "PLAY" =>
          machine'.fed[movie.currentFrame + 1].reset = movie.buf[movie.currentFrame].newReset
    <3>1. movie.state = "PLAY" => movie.buf[movie.ptr].newReset \in BOOLEAN
      BY <1>1, <2>2 DEF Movies, Frames
    <3> QED BY <2>0, <2>1, <2>2, <2>3, <3>1 DEF ResetInv
  <2>6. movie.state = "RECORD" => machine'.fed[movie.currentFrame + 1].reset = FALSE
    BY <2>0, <2>1, <2>3 DEF ResetInv
  <2>7. ResetsInFrame(movie', machine')
    BY <1>2, <2>4, <2>5, <2>6 DEF ResetsInFrame, SameContent
  <2> QED BY <1>1, <1>2, <2>1, <2>7 DEF ResetInv
<1> QED BY <1>3, <1>4

(* Nothing but the reset flags of the next frame is signalled at its end.  *)
LEMMA UpdateSignals ==
  ASSUME NEW m, Sound(m), m.currentFrame < MaxFrames, NEW u, u = VBAMovieUpdateState(m)
  PROVE  u.resetSignaled = m.resetSignaled
<1>1. m \in Movies /\ m.state \in {"NONE", "PLAY", "RECORD", "END"}
  BY DEF Sound, Movies, MovieStates
<1> DEFINE n == [m EXCEPT !.currentFrame = @ + 1]
           p == [n EXCEPT !.ptr = @ + 1]
<1>2. CASE m.state = "NONE"
  BY <1>1, <1>2 DEF VBAMovieUpdateState, Movies
<1>3. CASE m.state = "RECORD"
  BY <1>1, <1>3, RecordFrameResets
<1>4. CASE m.state \in {"PLAY", "END"}
  <2>1. /\ m.currentFrame \in Nat /\ m.length \in Nat /\ m.ptr = Lesser(m.currentFrame, m.length)
        /\ m.state = "PLAY" => m.currentFrame < m.length
        /\ m.state = "END"  => m.currentFrame >= m.length
    BY <1>1, <1>4, MaxFramesAssumption DEF Sound, CursorsAgree, Active, Movies
  <2>2. /\ n \in Movies /\ n.currentFrame = m.currentFrame + 1 /\ n.length = m.length
        /\ n.ptr = m.ptr /\ n.resetSignaled = m.resetSignaled
    BY <1>1, <2>1, MaxFramesAssumption DEF Movies
  <2>3. m.state = "PLAY" => /\ p \in Movies /\ p.resetSignaled = m.resetSignaled
                            /\ p.ptr = Lesser(p.currentFrame, p.length)
    <3> HIDE DEF n
    <3> QED BY <2>1, <2>2, MaxFramesAssumption DEF Movies, Lesser
  <2> HIDE DEF n, p
  <2>4. CASE m.state = "END"
    <3>1. u = change_state(n, "END")
      BY <2>4 DEF VBAMovieUpdateState, n
    <3>2. n.ptr = Lesser(n.currentFrame, n.length) /\ n.currentFrame >= n.length
      BY <2>1, <2>2, <2>4 DEF Lesser
    <3> QED BY <2>2, <3>1, <3>2, ChangeStateMode
  <2>5. CASE m.state = "PLAY" /\ p.currentFrame >= p.length
    <3>1. u = change_state(p, "END")
      BY <2>5 DEF VBAMovieUpdateState, n, p
    <3> QED BY <2>3, <2>5, <3>1, ChangeStateMode
  <2>6. CASE m.state = "PLAY" /\ ~(p.currentFrame >= p.length)
    <3>1. u = p
      BY <2>6 DEF VBAMovieUpdateState, n, p
    <3> QED BY <2>3, <2>6, <3>1
  <2> QED BY <1>4, <2>4, <2>5, <2>6
<1> QED BY <1>1, <1>2, <1>3, <1>4

(* The end of the frame records or counts the reset it began with.         *)
LEMMA FrameEndResets == IInv /\ ResetInv /\ FrameEnd => ResetInv'
<1> SUFFICES ASSUME IInv, ResetInv, FrameEnd, machine.userResets = 0 PROVE ResetInv'
  BY DEF ResetInv, FrameEnd
<1>1. /\ movie \in Movies /\ Sound(movie) /\ ~newFrame /\ newFrame'
      /\ movie.currentFrame < MaxFrames /\ movie.currentFrame \in Nat /\ movie.length \in Nat
      /\ movie' = VBAMovieUpdateState(movie) /\ slots' = slots /\ machine' = machine
      /\ movie.state \in {"NONE", "PLAY", "RECORD", "END"}
  BY MaxFramesAssumption DEF IInv, TypeOK, FrameEnd, Movies, MovieStates
<1>2. Active(movie) => movie'.resetSignaled = FALSE
  BY <1>1, UpdateSignals DEF ResetInv
<1>3. Active(movie) => ResetsInFrame(movie, machine)
  BY <1>1 DEF ResetInv
<1>4. CASE movie.state = "NONE"
  <2>1. ~Active(movie')
    BY <1>1, <1>4 DEF VBAMovieUpdateState, Active, Movies
  <2> QED BY <1>1, <1>2, <2>1 DEF ResetInv
<1>5. CASE movie.state = "RECORD"
  <2>1. /\ movie'.currentFrame = movie.currentFrame + 1
        /\ movie'.length = movie.currentFrame + 1
        /\ movie'.buf[movie.currentFrame].newReset = FALSE
        /\ \A i \in Idx : i # movie.currentFrame => movie'.buf[i] = movie.buf[i]
    BY <1>1, <1>5, RecordFrameFacts, RecordFrameResets DEF ResetInv, Active
  <2>2. movie.currentFrame <= movie.length
    BY <1>1, <1>5 DEF Sound, CursorsAgree, Active
  <2>3. ASSUME NEW i \in 1 .. movie'.currentFrame
        PROVE  machine.fed[i].reset = movie'.buf[i - 1].newReset
    <3>1. CASE i = movie.currentFrame + 1
      <4>1. i - 1 = movie.currentFrame
        BY <1>1, <3>1
      <4>2. machine.fed[i].reset = FALSE
        BY <1>3, <1>5, <3>1 DEF ResetsInFrame, Active
      <4> QED BY <2>1, <4>1, <4>2
    <3>2. CASE i # movie.currentFrame + 1
      <4>1. /\ i \in 1 .. movie.currentFrame /\ i <= movie.length
            /\ i - 1 \in Idx /\ i - 1 # movie.currentFrame
        BY <1>1, <2>1, <2>2, <3>2, MaxFramesAssumption DEF Idx
      <4> QED BY <1>3, <1>5, <2>1, <4>1 DEF ResetsInFrame, ResetsFed, Active
    <3> QED BY <3>1, <3>2
  <2>4. ResetsFed(movie', machine')
    BY <1>1, <2>3 DEF ResetsFed
  <2> QED BY <1>1, <1>2, <1>5, <2>4 DEF ResetInv, Active
<1>6. CASE movie.state \in {"PLAY", "END"}
  <2>1. /\ movie'.currentFrame = movie.currentFrame + 1
        /\ movie'.length = movie.length /\ movie'.buf = movie.buf
    BY <1>1, <1>6, PlayFrameFacts
  <2>2. movie.state = "END" => movie.currentFrame >= movie.length
    BY <1>1 DEF Sound, CursorsAgree, Active
  <2>3. ASSUME NEW i \in 1 .. movie'.currentFrame, i <= movie'.length
        PROVE  machine.fed[i].reset = movie'.buf[i - 1].newReset
    <3>1. CASE i = movie.currentFrame + 1
      <4>1. movie.state = "PLAY" /\ i - 1 = movie.currentFrame
        BY <1>1, <1>6, <2>1, <2>2, <2>3, <3>1
      <4> QED BY <1>3, <2>1, <3>1, <4>1 DEF ResetsInFrame, Active
    <3>2. CASE i # movie.currentFrame + 1
      <4>1. i \in 1 .. movie.currentFrame /\ i <= movie.length
        BY <1>1, <2>1, <2>3, <3>2
      <4> QED BY <1>3, <1>6, <2>1, <4>1 DEF ResetsInFrame, ResetsFed, Active
    <3> QED BY <3>1, <3>2
  <2>4. ResetsFed(movie', machine')
    BY <1>1, <2>3 DEF ResetsFed
  <2> QED BY <1>1, <1>2, <1>6, <2>4 DEF ResetInv, Active
<1> QED BY <1>1, <1>4, <1>5, <1>6

(* What is saved between two frames is in step.                            *)
LEMMA CurrentResets ==
  ASSUME IInv, ResetInv, newFrame
  PROVE  FrozenResets(CurrentState)
<1>1. PICK z : z = VBAMovieFreeze(movie)
  OBVIOUS
<1>2. /\ CurrentState.machine = machine
      /\ CurrentState.freeze = IF Active(movie) THEN z ELSE NoState
  BY <1>1 DEF CurrentState
<1>3. /\ z.currentFrame = movie.currentFrame /\ z.length = movie.length
      /\ z.input = FirstFrames(movie.buf, movie.length)
  BY <1>1 DEF VBAMovieFreeze
<1>4. /\ movie.currentFrame \in 0 .. MaxFrames /\ movie.length \in 0 .. MaxFrames
      /\ movie.buf \in [Idx -> Frames]
  BY DEF IInv, TypeOK, Movies
<1>5. \A i \in Idx : i < movie.length => z.input[i] = movie.buf[i]
  BY <1>3, <1>4, FirstFramesType
<1>6. ASSUME Active(movie), machine.userResets = 0,
             NEW i \in 1 .. z.currentFrame, i <= z.length
      PROVE  machine.fed[i].reset = z.input[i - 1].newReset
  <2>1. i - 1 \in Idx /\ i - 1 < movie.length /\ i \in 1 .. movie.currentFrame
    BY <1>3, <1>4, <1>6, MaxFramesAssumption DEF Idx
  <2> QED BY <1>3, <1>5, <1>6, <2>1 DEF ResetInv, ResetsFed
<1> QED BY <1>2, <1>6 DEF FrozenResets, ResetInv

(* A load takes machine and movie from the same save state.                *)
LEMMA LoadResets ==
  ASSUME IInv, ResetInv, newFrame, NEW n \in Slots, LoadFile(n)
  PROVE  ResetInv'
<1> SUFFICES ASSUME machine'.userResets = 0 PROVE ResetInv'
  BY DEF ResetInv, LoadFile, LoadInto
<1>1. PICK s : s = StateToLoad(n)
  OBVIOUS
<1>2. FrozenResets(s)
  BY <1>1, CurrentResets DEF StateToLoad, LoadFile, ResetInv
<1>3. /\ machine' = s.machine /\ newFrame' /\ slots' = slots
  BY <1>1 DEF LoadFile, LoadInto
<1>4. CASE ~Active(movie)
  BY <1>2, <1>3, <1>4, LoadUnopened DEF ResetInv, FrozenResets
<1>5. CASE Active(movie)
  <2>1. s.freeze \in Freezes /\ UnfreezeCode(movie, s.freeze) = "SUCCESS" /\ s.freeze # NoState
    BY <1>1, <1>5, LoadFacts, NoStateAssumption
  <2>2. PICK stray, u :
            /\ stray \in BOOLEAN /\ u = VBAMovieUnfreeze(movie, s.freeze, stray)
            /\ SameContent(u, movie')
            /\ movie'.resetSignaled = u.resetSignaled
    BY <1>1, <1>5, LoadFacts
  <2>3. Sound(movie) /\ movie' \in Movies
    BY LoadFileIInv DEF IInv, TypeOK
  <2>4. /\ u.currentFrame = s.freeze.currentFrame
        /\ \A i \in Idx : i < u.currentFrame /\ i < u.length =>
             i < s.freeze.length /\ u.buf[i] = s.freeze.input[i]
    BY <1>5, <2>1, <2>2, <2>3, UnfreezeFacts DEF Sound
  <2>5. movie'.resetSignaled = FALSE
    <3>1. ~movie'.resetSignaled
      BY <1>5, <2>1, <2>2, <2>3, UnfreezeMode
    <3> QED BY <2>3, <3>1 DEF Movies
  <2>6. /\ movie'.currentFrame = s.freeze.currentFrame
        /\ \A i \in Idx : i < movie'.currentFrame /\ i < movie'.length =>
             i < s.freeze.length /\ movie'.buf[i] = s.freeze.input[i]
        /\ movie'.currentFrame \in 0 .. MaxFrames /\ movie'.length \in 0 .. MaxFrames
    BY <2>2, <2>3, <2>4 DEF SameContent, Movies
  <2>7. ASSUME NEW i \in 1 .. movie'.currentFrame, i <= movie'.length
        PROVE  machine'.fed[i].reset = movie'.buf[i - 1].newReset
    <3>1. i - 1 \in Idx /\ i - 1 < movie'.currentFrame /\ i - 1 < movie'.length
      BY <2>6, <2>7, MaxFramesAssumption DEF Idx
    <3>2. i <= s.freeze.length /\ s.freeze.currentFrame = movie'.currentFrame
      <4>1. s.freeze.length \in Int
        BY <2>1 DEF Freezes
      <4> QED BY <2>6, <2>7, <3>1, <4>1
    <3> QED BY <1>2, <1>3, <2>1, <2>6, <2>7, <3>1, <3>2 DEF FrozenResets
  <2>8. ResetsFed(movie', machine')
    BY <2>7 DEF ResetsFed
  <2> QED BY <1>2, <1>3, <2>5, <2>8 DEF ResetInv, FrozenResets
<1> QED BY <1>4, <1>5

(* A movie that starts has no frames and no reset before it.               *)
LEMMA StartResets ==
  ASSUME IInv, ResetInv, newFrame, OpenMovie \/ CreateMovie \/ RestartMovie \/ StopMovie
  PROVE  ResetInv'
<1>1. movie \in Movies
  BY DEF IInv, TypeOK
<1>2. CASE StopMovie
  <2>1. ~Active(movie') /\ UNCHANGED <<machine, newFrame, slots>>
    BY <1>1, <1>2, StopFacts DEF StopMovie, MovieCall
  <2> QED BY <2>1 DEF ResetInv
<1>3. ASSUME NEW m, StartMovie(m), Active(m) => m.currentFrame = 0 /\ m.resetSignaled = FALSE
      PROVE  ResetInv'
  BY <1>3 DEF StartMovie, Started, ResetInv, ResetsFed
<1>4. ASSUME NEW m \in Movies, NEW ro \in BOOLEAN, NEW u, u = VBAMovieOpen(m, ro), Active(u)
      PROVE  u.currentFrame = 0 /\ u.resetSignaled = FALSE
  <2>1. PICK d : d = Close(m).disk
    OBVIOUS
  <2>2. d.exists
    <3>1. ~Active(Close(m))
      BY CloseFacts
    <3> QED BY <1>4, <2>1, <3>1 DEF VBAMovieOpen
  <2>3. Sound(u) /\ u.currentFrame = 0
    BY <1>4, OpenFacts
  <2> QED BY <1>4, <2>1, <2>2, <2>3, OpenContent DEF Sound, Movies
<1>5. CASE OpenMovie
  BY <1>1, <1>3, <1>4, <1>5 DEF OpenMovie
<1>6. CASE CreateMovie
  <2>1. PICK uid \in Uids : StartMovie(VBAMovieCreate(movie, uid))
    BY <1>6 DEF CreateMovie
  <2>2. PICK u : u = VBAMovieCreate(movie, uid)
    OBVIOUS
  <2>3. Sound(u) /\ (Active(u) => u.currentFrame = 0)
    BY <1>1, <2>2, CreateFacts
  <2>4. Active(u) => u.resetSignaled = FALSE
    BY <1>1, <2>2, <2>3, CreateMode, StopFacts DEF Sound, Movies
  <2> QED BY <1>3, <2>1, <2>2, <2>3, <2>4
<1>7. CASE RestartMovie
  <2>1. Active(movie) /\ StartMovie(VBAMovieRestart(movie))
    BY <1>7 DEF RestartMovie
  <2>2. PICK z, ro : z = VBAMovieStop(movie) /\ ro = (movie.readOnly # 0)
    OBVIOUS
  <2>3. PICK u : u = VBAMovieOpen(z, ro)
    OBVIOUS
  <2>4. z \in Movies /\ ro \in BOOLEAN
    BY <1>1, <2>2, StopFacts
  <2>5. VBAMovieRestart(movie) = [u EXCEPT !.recorded = movie.recorded]
    BY <2>1, <2>2, <2>3 DEF VBAMovieRestart
  <2>6. u \in Movies
    BY <2>3, <2>4, OpenFacts DEF Sound
  <2>7. Active(u) => u.currentFrame = 0 /\ u.resetSignaled = FALSE
    BY <1>4, <2>3, <2>4
  <2> QED BY <1>3, <2>1, <2>5, <2>6, <2>7 DEF Active, Movies
<1> QED BY <1>2, <1>5, <1>6, <1>7

(* The other calls of movie.h do not touch what is signalled.              *)
LEMMA MovieCallResets ==
  ASSUME IInv, ResetInv, newFrame,
         \/ MovieCall(VBAMovieToggleReadOnly(movie))
         \/ MovieCall(VBAMovieSwitchToPlaying(movie))
         \/ MovieCall(VBAMovieSwitchToRecording(movie))
         \/ MovieCall(VBAMovieFixHeader(movie))
         \/ PauseAt
  PROVE  ResetInv'
<1>1. movie \in Movies /\ Sound(movie) /\ movie.ptr = Lesser(movie.currentFrame, movie.length)
  BY DEF IInv, TypeOK, Sound, CursorsAgree, MovieCall, PauseAt
<1>2. Active(movie) /\ UNCHANGED <<machine, newFrame, slots>>
  BY DEF MovieCall, PauseAt
<1>3. SUFFICES SameInputsAndPlace(movie, movie') /\ movie'.resetSignaled = movie.resetSignaled
  BY <1>2 DEF ResetInv, ResetsFed, SameInputsAndPlace
<1>4. PICK e : e = VBAMovieToggleReadOnly(movie)
  OBVIOUS
<1>5. e \in Movies /\ e = [movie EXCEPT !.readOnly = e.readOnly]
  BY <1>1, <1>4 DEF VBAMovieToggleReadOnly, Movies
<1>6. e.resetSignaled = movie.resetSignaled
  BY <1>1, <1>5 DEF Movies
<1>7. CASE MovieCall(VBAMovieToggleReadOnly(movie))
  BY <1>1, <1>2, <1>4, <1>6, <1>7, ToggleSound DEF MovieCall
<1>8. CASE MovieCall(VBAMovieSwitchToPlaying(movie))
  <2>1. PICK t : /\ t \in {e, movie} /\ movie' = change_state(t, "PLAY")
    BY <1>2, <1>4, <1>8 DEF MovieCall, VBAMovieSwitchToPlaying
  <2>2. /\ t \in Movies /\ t.ptr = Lesser(t.currentFrame, t.length)
        /\ t.resetSignaled = movie.resetSignaled
    BY <1>1, <1>5, <1>6, <2>1 DEF Movies
  <2>3. movie'.resetSignaled = movie.resetSignaled
    BY <2>1, <2>2, ChangeStateMode
  <2> QED BY <1>1, <1>2, <1>8, <2>3, SwitchToPlayingSound DEF MovieCall
<1>9. CASE MovieCall(VBAMovieSwitchToRecording(movie))
  <2>1. CASE ~VBAMovieAllowsRerecording(movie)
    BY <1>9, <2>1 DEF MovieCall, VBAMovieSwitchToRecording, SameInputsAndPlace
  <2>2. CASE VBAMovieAllowsRerecording(movie)
    <3>1. PICK t, c : /\ t \in {e, movie} /\ c = CountRerecord(t)
                      /\ movie' = Settle(c, "RECORD")
      BY <1>4, <1>9, <2>2 DEF MovieCall, VBAMovieSwitchToRecording
    <3>2. t \in Movies /\ t.resetSignaled = movie.resetSignaled
      BY <1>1, <1>5, <1>6, <3>1
    <3>3. c \in Movies /\ c = [t EXCEPT !.rerecords = c.rerecords]
      BY <3>1, <3>2, CountRerecordFacts
    <3>4. c.resetSignaled = movie.resetSignaled
      BY <3>2, <3>3 DEF Movies
    <3>5. movie'.resetSignaled = movie.resetSignaled
      BY <3>1, <3>3, <3>4 DEF Settle, Movies
    <3> QED BY <1>1, <1>2, <1>9, <3>5, SwitchToRecordingSound DEF MovieCall
  <2> QED BY <2>1, <2>2
<1>10. CASE MovieCall(VBAMovieFixHeader(movie))
  <2>1. movie'.resetSignaled = movie.resetSignaled
    BY <1>1, <1>10 DEF MovieCall, VBAMovieFixHeader, flush_movie_header, Movies
  <2> QED BY <1>1, <1>2, <1>10, <2>1, FixHeaderSound DEF MovieCall
<1>11. CASE PauseAt
  <2>1. movie'.resetSignaled = movie.resetSignaled
    BY <1>1, <1>11 DEF MovieCall, PauseAt, VBAMovieSetPauseAt, Movies
  <2> QED BY <1>1, <1>2, <1>11, <2>1, SetPauseAtSound DEF MovieCall, PauseAt
<1> QED BY <1>7, <1>8, <1>9, <1>10, <1>11

(* The machine is reset before exactly the frames for which the movie says *)
(* so, as long as nobody but the movie resets it, under all calls: also    *)
(* after the load of a state from before the user's resets.                *)
THEOREM ResetsStayInStep == SpecCalls => []ResetsInStep
<1>1. Init => ResetInv
  BY DEF Init, NoMovie, Foreign, Started, Active, ResetInv
<1>2. IInv /\ ResetInv /\ [NextCalls]_vars => ResetInv'
  <2> SUFFICES ASSUME IInv, ResetInv, [NextCalls]_vars PROVE ResetInv'
    OBVIOUS
  <2>1. CASE UNCHANGED vars
    BY <2>1 DEF vars, ResetInv, ResetsFed, ResetsInFrame, Active
  <2>2. CASE FrameStart
    BY <2>2, FrameStartResets
  <2>3. CASE FrameEnd
    BY <2>3, FrameEndResets
  <2>4. CASE newFrame /\ FrontEnd
    <3>1. CASE InputEdit
      <4>1. newFrame'
        BY <2>4, <3>1 DEF InputEdit, Resume, SetSkipRerecords, SetButtons
      <4> QED BY <2>4, <3>1, <4>1, InputEditFacts DEF ResetInv, ResetsFed, SameContent, Active
    <3>2. CASE UserReset
      BY <3>2, UserResetFacts DEF ResetInv
    <3>3. CASE \E n \in Slots : SaveState(n)
      <4>1. PICK n \in Slots : SaveState(n)
        BY <3>3
      <4>2. FrozenResets(CurrentState)
        BY <2>4, CurrentResets
      <4>3. \A k \in Slots : slots'[k] # NoState => FrozenResets(slots'[k])
        BY <4>1, <4>2 DEF SaveState, IInv, TypeOK, ResetInv
      <4> QED BY <2>4, <4>1, <4>3 DEF SaveState, ResetInv
    <3> QED BY <2>4, <3>1, <3>2, <3>3, LoadResets, StartResets DEF FrontEnd, InputEdit
  <2>5. CASE newFrame /\ (UserInterface \/ PauseAt)
    BY <2>5, StartResets, MovieCallResets DEF UserInterface
  <2>6. CASE Crash \/ CrashWhileWriting \/ \E n \in Slots : CrashWhileLoading(n)
    <3>1. PICK m : Restarted(m)
      BY <2>6, CrashFacts
    <3>2. ~Active(movie')
      BY <2>6, CrashFacts
    <3> QED BY <3>1, <3>2 DEF Restarted, Foreign, Started, ResetInv
  <2> QED BY <2>1, <2>2, <2>3, <2>4, <2>5, <2>6 DEF NextCalls, NextUser, NextCrash, Next, Run
<1>3. ResetInv => ResetsInStep
  BY DEF ResetInv, ResetsInStep, ResetsFed
<1> QED BY <1>1, <1>2, <1>3, Invariance, PTL DEF SpecCalls
=============================================================================
