----------------------- MODULE RerecordingRefinement -----------------------
(***************************************************************************)
(* Re-recording implements ReplayLog, for every size and under every call  *)
(* of the movie: each step opens or closes the log, plays, records or runs *)
(* on, saves, rewinds to a state that agrees with the log, or branches off *)
(* with another, or changes neither log nor history.                       *)
(***************************************************************************)
EXTENDS RerecordingProofs, SequenceTheorems

-----------------------------------------------------------------------------
(* Log and history as functions.                                           *)

History(fed, n) == [i \in 1 .. n |-> fed[i].pad]

(* What was fed first.                                                     *)
LEMMA FedFirst ==
  ASSUME NEW fed \in Seq(Tokens), NEW n \in 0 .. Len(fed)
  PROVE  /\ History(fed, n) \in Seq(Pads) /\ Len(History(fed, n)) = n
         /\ SubSeq(PadsFed(fed), 1, n) = History(fed, n)
<1>1. /\ Len(fed) \in Nat /\ n \in Nat
      /\ \A i \in 1 .. Len(fed) : fed[i].pad \in Pads
  <2>1. Len(fed) \in Nat /\ \A i \in 1 .. Len(fed) : fed[i] \in Tokens
    BY ElementOfSeq, LenProperties
  <2> QED BY <2>1 DEF Tokens
<1>2. History(fed, n) \in [1 .. n -> Pads]
  BY <1>1 DEF History
<1>3. History(fed, n) \in Seq(Pads) /\ Len(History(fed, n)) = n
  BY <1>1, <1>2, SeqDef, LenProperties
<1>4. PadsFed(fed) \in [1 .. Len(fed) -> Pads]
  BY <1>1 DEF PadsFed
<1>5. PadsFed(fed) \in Seq(Pads) /\ Len(PadsFed(fed)) = Len(fed)
  BY <1>1, <1>4, SeqDef, LenProperties
<1>6. SubSeq(PadsFed(fed), 1, n) = History(fed, n)
  <2>1. SubSeq(PadsFed(fed), 1, n) = [i \in 1 .. n |-> PadsFed(fed)[i]]
    BY <1>1, <1>5
  <2> QED BY <1>1, <2>1 DEF PadsFed, History
<1> QED BY <1>3, <1>6

(* One frame more.                                                         *)
LEMMA FedNext ==
  ASSUME NEW fed \in Seq(Tokens), NEW n \in Nat, n < Len(fed)
  PROVE  History(fed, n + 1) = Append(History(fed, n), fed[n + 1].pad)
<1>1. n \in 0 .. Len(fed) /\ n + 1 \in 0 .. Len(fed) /\ Len(fed) \in Nat
  BY LenProperties
<1>2. History(fed, n) \in Seq(Pads) /\ Len(History(fed, n)) = n
  BY <1>1, FedFirst
<1>3. Append(History(fed, n), fed[n + 1].pad) =
        [i \in 1 .. n + 1 |-> IF i <= n THEN History(fed, n)[i] ELSE fed[n + 1].pad]
  BY <1>1, <1>2
<1> QED BY <1>1, <1>3 DEF History

(* The log, as a sequence.                                                 *)
LEMMA LogIsSeq ==
  ASSUME NEW f \in [Idx -> Frames], NEW n \in 0 .. MaxFrames
  PROVE  PadsOf(f, n) \in Seq(Pads) /\ Len(PadsOf(f, n)) = n
<1>1. \A i \in 1 .. n : i - 1 \in Idx /\ f[i - 1] \in Frames
  BY MaxFramesAssumption DEF Idx
<1>2. PadsOf(f, n) \in [1 .. n -> Pads]
  BY <1>1 DEF PadsOf, Frames
<1> QED BY <1>2, SeqDef, LenProperties, MaxFramesAssumption

(* The log is made of the frames before its end.                           *)
LEMMA LogsEqual ==
  ASSUME NEW f, NEW g, NEW n \in 0 .. MaxFrames, \A i \in Idx : i < n => f[i] = g[i]
  PROVE  PadsOf(f, n) = PadsOf(g, n)
<1>1. \A i \in 1 .. n : f[i - 1] = g[i - 1]
  BY MaxFramesAssumption DEF Idx
<1> QED BY <1>1 DEF PadsOf

-----------------------------------------------------------------------------
(* The mapped variables.                                                   *)

(* Of an open movie.                                                       *)
LEMMA MappedOpen ==
  ASSUME IInv, Active(movie)
  PROVE  /\ FedToMachine = History(machine.fed, movie.currentFrame)
         /\ FedToMachine \in Seq(Pads) /\ Len(FedToMachine) = movie.currentFrame
         /\ LogOfMovie = PadsOf(movie.buf, movie.length)
         /\ LogOfMovie \in Seq(Pads) /\ Len(LogOfMovie) = movie.length
<1>1. /\ machine.fed \in Seq(Tokens) /\ movie.buf \in [Idx -> Frames]
      /\ movie.length \in 0 .. MaxFrames /\ movie.currentFrame \in Nat
      /\ newFrame \in BOOLEAN
  BY MaxFramesAssumption DEF IInv, TypeOK, Movies, Machines
<1>2. /\ FedBeforeFrame = movie.currentFrame
      /\ movie.currentFrame \in 0 .. Len(machine.fed)
  BY <1>1 DEF IInv, FedBeforeFrame, FedInStep, FedInFrame
<1> QED BY <1>1, <1>2, FedFirst, LogIsSeq DEF FedToMachine, LogOfMovie

(* Of one that is open after the step.                                     *)
LEMMA MappedOpenNext ==
  ASSUME IInv', Active(movie')
  PROVE  /\ FedToMachine' = History(machine'.fed, movie'.currentFrame)
         /\ FedToMachine' \in Seq(Pads) /\ Len(FedToMachine') = movie'.currentFrame
         /\ LogOfMovie' = PadsOf(movie'.buf, movie'.length)
         /\ LogOfMovie' \in Seq(Pads) /\ Len(LogOfMovie') = movie'.length
<1>1. /\ machine'.fed \in Seq(Tokens) /\ movie'.buf \in [Idx -> Frames]
      /\ movie'.length \in 0 .. MaxFrames /\ movie'.currentFrame \in Nat
      /\ newFrame' \in BOOLEAN
  BY MaxFramesAssumption DEF IInv, TypeOK, Movies, Machines
<1>2. /\ FedBeforeFrame' = movie'.currentFrame
      /\ movie'.currentFrame \in 0 .. Len(machine'.fed)
  BY <1>1 DEF IInv, FedBeforeFrame, FedInStep, FedInFrame
<1> QED BY <1>1, <1>2, FedFirst, LogIsSeq DEF FedToMachine, LogOfMovie

(* An edit that keeps inputs, position, history and save states is not seen.*)
LEMMA SameMapped ==
  ASSUME IInv, IInv', Active(movie') <=> Active(movie),
         Active(movie) => /\ movie'.currentFrame = movie.currentFrame
                          /\ LogOfMovie' = LogOfMovie
                          /\ \A i \in 1 .. movie.currentFrame : machine'.fed[i] = machine.fed[i],
         slots' = slots
  PROVE  UNCHANGED Log!vars
<1>1. FedToMachine' = FedToMachine
  <2>1. CASE Active(movie)
    <3>1. /\ FedToMachine' = History(machine'.fed, movie'.currentFrame)
          /\ FedToMachine = History(machine.fed, movie.currentFrame)
      BY <2>1, MappedOpen, MappedOpenNext
    <3> QED BY <2>1, <3>1 DEF History
  <2>2. CASE ~Active(movie)
    BY <2>2 DEF FedToMachine
  <2> QED BY <2>1, <2>2
<1>2. LogOfMovie' = LogOfMovie
  BY DEF LogOfMovie
<1>3. SavedLogs' = SavedLogs
  BY DEF SavedLogs
<1>4. Active(movie)' = Active(movie)
  BY DEF Active
<1> QED BY <1>1, <1>2, <1>3, <1>4 DEF Log!vars

-----------------------------------------------------------------------------
(* The steps.                                                              *)

(* A movie that is closed, by whatever means.                              *)
LEMMA ClosesLog ==
  ASSUME ~Active(movie'), slots' = slots
  PROVE  Log!Close
<1>1. Active(movie)' = FALSE
  BY DEF Active
<1>2. LogOfMovie' = <<>> /\ FedToMachine' = <<>>
  BY DEF LogOfMovie, FedToMachine
<1>3. SavedLogs' = SavedLogs
  BY DEF SavedLogs
<1> QED BY <1>1, <1>2, <1>3 DEF Log!Close

(* A movie that begins.                                                    *)
LEMMA OpensLog ==
  ASSUME IInv', Active(movie'), movie'.currentFrame = 0, slots' = slots
  PROVE  Log!Open
<1>1. Active(movie)' = TRUE
  BY DEF Active
<1>2. LogOfMovie' \in Seq(Pads) /\ FedToMachine' = <<>>
  BY MappedOpenNext, EmptySeq
<1>3. SavedLogs' = SavedLogs
  BY DEF SavedLogs
<1> QED BY <1>1, <1>2, <1>3 DEF Log!Open

(* The start of a frame: its buttons are not history yet.                  *)
LEMMA FrameStartRefines ==
  ASSUME IInv, IInv', FrameStart
  PROVE  UNCHANGED Log!vars
<1>1. /\ SameContent(movie, movie') /\ movie'.state = movie.state
      /\ slots' = slots
  BY FrameStartFacts DEF FrameStart
<1>2. Active(movie') <=> Active(movie)
  BY <1>1 DEF Active
<1>3. Active(movie) => \A i \in 1 .. movie.currentFrame : machine'.fed[i] = machine.fed[i]
  BY FedByFrame
<1>4. LogOfMovie' = LogOfMovie
  BY <1>1, <1>2 DEF LogOfMovie, SameContent
<1> QED BY <1>1, <1>2, <1>3, <1>4, SameMapped DEF SameContent

(* Its end: the frame has been played, recorded, or run after the end.     *)
LEMMA FrameEndRefines ==
  ASSUME IInv, IInv', FrameEnd
  PROVE  [Log!Next]_(Log!vars)
<1> DEFINE n == movie.currentFrame
           p == machine.fed[n + 1].pad
<1>1. /\ movie \in Movies /\ Sound(movie) /\ ~newFrame /\ n < MaxFrames /\ n \in Nat
      /\ movie' = VBAMovieUpdateState(movie) /\ machine' = machine /\ slots' = slots
      /\ movie.length \in Nat /\ movie.length <= MaxFrames /\ n \in Idx
      /\ machine.fed \in Seq(Tokens)
  BY MaxFramesAssumption DEF IInv, TypeOK, Sound, FrameEnd, Movies, Machines, Idx
<1>2. CASE ~Active(movie)
  <2>1. ~Active(movie')
    BY <1>1, <1>2 DEF VBAMovieUpdateState, Active, Movies
  <2> QED BY <1>1, <2>1, ClosesLog DEF Log!Next
<1>3. CASE Active(movie)
  <2>1. /\ FedInFrame(movie, machine) /\ Len(machine.fed) = n + 1
        /\ CursorsAgree(movie)
    BY <1>1, <1>3 DEF IInv, FedInFrame, Sound
  <2>2. p \in Pads
    <3>1. machine.fed[n + 1] \in Tokens
      BY <1>1, <2>1, ElementOfSeq
    <3> QED BY <3>1 DEF Tokens
  <2>3. /\ FedToMachine = History(machine.fed, n) /\ Len(FedToMachine) = n
        /\ LogOfMovie = PadsOf(movie.buf, movie.length) /\ Len(LogOfMovie) = movie.length
    BY <1>3, MappedOpen
  <2>4. /\ Active(movie') /\ movie'.currentFrame = n + 1
        /\ FedToMachine' = Append(FedToMachine, p)
    <3>1. Active(movie') /\ movie'.currentFrame = n + 1
      BY <1>1, <1>3, RecordFrameFacts, PlayFrameFacts DEF Active, Movies, MovieStates
    <3>2. FedToMachine' = History(machine.fed, n + 1)
      BY <1>1, <3>1, MappedOpenNext
    <3> QED BY <1>1, <2>1, <2>3, <3>1, <3>2, FedNext
  <2>5. SavedLogs' = SavedLogs /\ Active(movie)' = Active(movie)
    BY <1>1, <1>3, <2>4 DEF SavedLogs, Active
  <2>6. CASE movie.state \in {"PLAY", "END"}
    <3>1. movie'.length = movie.length /\ movie'.buf = movie.buf
      BY <1>1, <2>6, PlayFrameFacts
    <3>2. LogOfMovie' = LogOfMovie
      BY <1>3, <2>4, <3>1 DEF LogOfMovie
    <3>3. CASE movie.state = "PLAY"
      <4>1. n < movie.length /\ p = movie.buf[n].pad
        BY <1>1, <2>1, <3>3 DEF FedInFrame, CursorsAgree
      <4>2. LogOfMovie[n + 1] = movie.buf[n].pad
        BY <1>1, <2>3, <4>1 DEF PadsOf
      <4>3. Log!Play
        BY <1>3, <2>3, <2>4, <2>5, <3>2, <4>1, <4>2 DEF Log!Play
      <4> QED BY <4>3 DEF Log!Next
    <3>4. CASE movie.state = "END"
      <4>1. n >= movie.length
        BY <2>1, <3>4 DEF CursorsAgree
      <4>2. Log!RunOn(p)
        BY <1>3, <2>3, <2>4, <2>5, <3>2, <4>1 DEF Log!RunOn
      <4> QED BY <2>2, <4>2 DEF Log!Next
    <3> QED BY <2>6, <3>3, <3>4
  <2>7. CASE movie.state = "RECORD"
    <3>1. /\ movie'.length = n + 1
          /\ movie'.buf[n].pad = movie.pad
          /\ \A i \in Idx : i # n => movie'.buf[i] = movie.buf[i]
      BY <1>1, <2>7, RecordFrameFacts
    <3>2. n <= movie.length /\ p = movie.pad
      BY <2>1, <2>7 DEF CursorsAgree, FedInFrame
    <3>3. LogOfMovie' = PadsOf(movie'.buf, n + 1)
      BY <2>4, <3>1, MappedOpenNext
    <3>4. ASSUME NEW i \in 1 .. n + 1
          PROVE  movie'.buf[i - 1].pad = machine.fed[i].pad
      <4>1. CASE i = n + 1
        BY <1>1, <3>1, <3>2, <4>1
      <4>2. CASE i # n + 1
        <5>1. i \in 1 .. n /\ i <= movie.length /\ i - 1 \in Idx /\ i - 1 # n
          BY <1>1, <3>2, <4>2, MaxFramesAssumption DEF Idx
        <5> QED BY <2>1, <3>1, <5>1 DEF FedInFrame
      <4> QED BY <4>1, <4>2
    <3>5. FedToMachine' = History(machine.fed, n + 1)
      BY <1>1, <2>4, MappedOpenNext
    <3>6. LogOfMovie' = FedToMachine'
      BY <3>3, <3>4, <3>5 DEF PadsOf, History
    <3>7. Log!Record(p)
      BY <1>3, <2>3, <2>4, <2>5, <3>2, <3>6 DEF Log!Record
    <3> QED BY <2>2, <3>7 DEF Log!Next
  <2> QED BY <1>1, <1>3, <2>6, <2>7 DEF Active, Movies, MovieStates
<1> QED BY <1>2, <1>3

(* A save state remembers log and history.                                 *)
LEMMA SaveStateRefines ==
  ASSUME IInv, newFrame, NEW n \in Slots, SaveState(n)
  PROVE  Log!Save(n)
<1>1. /\ slots' = [slots EXCEPT ![n] = CurrentState] /\ slots \in [Slots -> SaveStates \cup {NoState}]
      /\ UNCHANGED <<movie, machine, newFrame>> /\ movie \in Movies /\ machine \in Machines
  BY DEF SaveState, IInv, TypeOK
<1>2. UNCHANGED <<Active(movie), LogOfMovie, FedToMachine>>
  BY <1>1 DEF Active, LogOfMovie, FedToMachine, FedBeforeFrame
<1>3. SavedLogs' = [SavedLogs EXCEPT ![n] = SavedLog(CurrentState)]
  BY <1>1 DEF SavedLogs
<1>4. CurrentState # NoState
  BY CurrentStateFacts, NoStateAssumption DEF Loadable
<1>5. CASE Active(movie)
  <2>1. /\ CurrentState.freeze = VBAMovieFreeze(movie) /\ CurrentState.freeze # NoState
        /\ CurrentState.machine = machine
    BY <1>1, <1>5, FreezeFacts, NoStateAssumption DEF CurrentState
  <2>2. /\ VBAMovieFreeze(movie).length = movie.length
        /\ VBAMovieFreeze(movie).input = FirstFrames(movie.buf, movie.length)
    BY DEF VBAMovieFreeze
  <2>3. PadsOf(FirstFrames(movie.buf, movie.length), movie.length) = LogOfMovie
    <3>1. movie.length \in 0 .. MaxFrames /\ movie.length \in Int /\ movie.buf \in [Idx -> Frames]
      BY <1>1, MaxFramesAssumption DEF Movies
    <3>2. \A i \in Idx : i < movie.length =>
             FirstFrames(movie.buf, movie.length)[i] = movie.buf[i]
      BY <3>1, FirstFramesType
    <3>3. PadsOf(FirstFrames(movie.buf, movie.length), movie.length)
            = PadsOf(movie.buf, movie.length)
      BY <3>1, <3>2, LogsEqual
    <3> QED BY <1>5, <3>3, MappedOpen
  <2>4. PadsFed(machine.fed) = FedToMachine
    <3>1. FedToMachine = History(machine.fed, Len(machine.fed))
      BY <1>5, MappedOpen DEF IInv, FedInStep
    <3> QED BY <3>1 DEF History, PadsFed
  <2>5. SavedLog(CurrentState) = [log |-> LogOfMovie, hist |-> FedToMachine]
    BY <1>4, <2>1, <2>2, <2>3, <2>4 DEF SavedLog
  <2> QED BY <1>2, <1>3, <1>5, <2>5 DEF Log!Save
<1>6. CASE ~Active(movie)
  <2>1. SavedLog(CurrentState) = NoState
    BY <1>6 DEF SavedLog, CurrentState
  <2> QED BY <1>2, <1>3, <1>6, <2>1 DEF Log!Save
<1> QED BY <1>5, <1>6

(* What is loaded back after a refusal was there before.                   *)
LEMMA LoadBackStutters ==
  ASSUME IInv, IInv', Active(movie), slots' = slots, machine' = machine,
         NEW f \in Freezes, f = VBAMovieFreeze(movie), UnfreezeCode(movie, f) = "SUCCESS",
         NEW stray \in BOOLEAN, NEW u, u = VBAMovieUnfreeze(movie, f, stray),
         SameContent(u, movie'), movie'.state = u.state
  PROVE  UNCHANGED Log!vars
<1>1. movie \in Movies /\ Sound(movie) /\ movie.length \in 0 .. MaxFrames /\ movie.length \in Int
      /\ movie.buf \in [Idx -> Frames]
  BY MaxFramesAssumption DEF IInv, TypeOK, Movies
<1>2. /\ f.length = movie.length /\ f.currentFrame = movie.currentFrame
      /\ \A i \in Idx : i < movie.length => f.input[i] = movie.buf[i]
  BY <1>1, FirstFramesType DEF VBAMovieFreeze
<1>3. Active(u) /\ u.currentFrame = f.currentFrame
  BY <1>1, UnfreezeFacts
<1>4. u.length = movie.length /\ \A i \in Idx : i < movie.length => u.buf[i] = movie.buf[i]
  BY <1>1, <1>2, UnfreezeMode DEF Movies
<1>5. /\ Active(movie') /\ movie'.currentFrame = movie.currentFrame
      /\ movie'.length = movie.length /\ movie'.buf = u.buf
  BY <1>2, <1>3, <1>4 DEF SameContent, Active
<1>6. LogOfMovie' = LogOfMovie
  <2>1. PadsOf(u.buf, movie.length) = PadsOf(movie.buf, movie.length)
    BY <1>1, <1>4, LogsEqual
  <2> QED BY <1>5, <2>1, MappedOpen, MappedOpenNext
<1> QED BY <1>5, <1>6, SameMapped

(* A save state that is accepted is a position in the log, or a branch.    *)
LEMMA LoadedRefines ==
  ASSUME IInv, IInv', Active(movie), slots' = slots, NEW n \in Slots,
         NEW s, s = slots[n], s # NoState, machine' = s.machine, FrozenInStep(s),
         s.freeze \in Freezes, UnfreezeCode(movie, s.freeze) = "SUCCESS",
         NEW stray \in BOOLEAN, NEW u, u = VBAMovieUnfreeze(movie, s.freeze, stray),
         SameContent(u, movie'), movie'.state = u.state
  PROVE  [Log!Next]_(Log!vars)
<1> DEFINE f == s.freeze
           h == PadsFed(s.machine.fed)
           l == PadsOf(f.input, f.length)
<1>1. /\ movie \in Movies /\ Sound(movie) /\ movie.length \in 0 .. MaxFrames
      /\ f.length \in 0 .. MaxFrames /\ f.currentFrame \in Nat /\ movie.readOnly \in 0 .. 2
      /\ f.currentFrame <= MaxFrames
  BY MaxFramesAssumption DEF IInv, TypeOK, Movies, Freezes
<1>2. SavedLogs[n] = [log |-> l, hist |-> h] /\ SavedLogs[n] # NoState
  <2>1. s.freeze # NoState
    BY NoStateAssumption
  <2>2. SavedLogs[n] = [log |-> l, hist |-> h]
    BY <2>1 DEF SavedLogs, SavedLog
  <2>3. f.input \in [Idx -> Frames] /\ s.machine.fed \in Seq(Tokens)
    BY DEF IInv, TypeOK, Freezes, SaveStates, Machines
  <2>4. l \in Seq(Pads) /\ h \in Seq(Pads)
    <3>1. h = History(s.machine.fed, Len(s.machine.fed))
      BY DEF PadsFed, History
    <3> QED BY <1>1, <2>3, <3>1, LogIsSeq, FedFirst, LenProperties
  <2> QED BY <2>2, <2>4, NoLogAssumption
<1>3. /\ Active(u) /\ u.currentFrame = f.currentFrame
      /\ \A i \in Idx : i < u.currentFrame /\ i < u.length =>
           i < f.length /\ u.buf[i] = f.input[i]
  BY <1>1, UnfreezeFacts
<1>4. /\ Active(movie') /\ movie'.currentFrame = f.currentFrame
      /\ movie'.length = u.length /\ movie'.buf = u.buf
  BY <1>3 DEF SameContent, Active
<1>5. FedToMachine' = h /\ Len(s.machine.fed) = f.currentFrame
  <2>1. Len(s.machine.fed) = f.currentFrame
    BY DEF FrozenInStep
  <2>2. FedToMachine' = History(s.machine.fed, f.currentFrame)
    BY <1>4, MappedOpenNext
  <2> QED BY <2>1, <2>2 DEF History, PadsFed
<1>6. UNCHANGED <<Active(movie), SavedLogs>>
  BY <1>4 DEF Active, SavedLogs
<1>7. CASE movie.readOnly # 0
  <2>1. u.length = movie.length /\ u.buf = movie.buf
    BY <1>1, <1>7, UnfreezeMode
  <2>2. LogOfMovie' = LogOfMovie /\ Len(LogOfMovie) = movie.length
        /\ LogOfMovie = PadsOf(movie.buf, movie.length)
    BY <1>4, <2>1, MappedOpen, MappedOpenNext
  <2>3. Len(h) = f.currentFrame
    BY <1>4, <1>5, MappedOpenNext
  <2>4. ASSUME NEW i \in 1 .. Len(h), i <= Len(LogOfMovie)
        PROVE  h[i] = LogOfMovie[i]
    <3>1. i - 1 \in Idx /\ i \in 1 .. f.currentFrame /\ i \in 1 .. movie.length
      BY <1>1, <2>2, <2>3, <2>4, MaxFramesAssumption DEF Idx
    <3>2. i <= f.length /\ movie.buf[i - 1] = f.input[i - 1]
      BY <1>1, <1>3, <2>1, <3>1
    <3>3. s.machine.fed[i].pad = f.input[i - 1].pad
      BY <3>1, <3>2 DEF FrozenInStep
    <3> QED BY <1>5, <2>2, <3>1, <3>2, <3>3 DEF PadsFed, PadsOf
  <2>5. Log!Agree(SavedLogs[n].hist, LogOfMovie)
    BY <1>2, <2>4 DEF Log!Agree
  <2>6. Log!Rewind(n)
    BY <1>2, <1>5, <1>6, <2>2, <2>5 DEF Log!Rewind
  <2> QED BY <2>6 DEF Log!Next
<1>8. CASE movie.readOnly = 0
  <2>1. u.length = f.length /\ \A i \in Idx : i < f.length => u.buf[i] = f.input[i]
    BY <1>1, <1>8, UnfreezeMode
  <2>2. LogOfMovie' = l
    <3>1. LogOfMovie' = PadsOf(u.buf, f.length)
      BY <1>4, <2>1, MappedOpenNext
    <3> QED BY <1>1, <2>1, <3>1, LogsEqual
  <2>3. Log!Branch(n)
    BY <1>2, <1>5, <1>6, <2>2 DEF Log!Branch
  <2> QED BY <2>3 DEF Log!Next
<1> QED BY <1>7, <1>8

(* A load moves in the log, takes that of the save state, or is refused.   *)
LEMMA LoadFileRefines ==
  ASSUME IInv, IInv', newFrame, NEW n \in Slots, LoadFile(n)
  PROVE  [Log!Next]_(Log!vars)
<1>1. slots' = slots /\ slots[n] # NoState /\ movie \in Movies /\ Sound(movie)
  BY DEF LoadFile, LoadInto, IInv, TypeOK
<1>2. CASE ~Active(movie)
  BY <1>1, <1>2, LoadUnopened, ClosesLog DEF Log!Next
<1>3. CASE Active(movie)
  <2> DEFINE s == StateToLoad(n)
             f == s.freeze
  <2>1. /\ f \in Freezes /\ UnfreezeCode(movie, f) = "SUCCESS"
        /\ machine' = s.machine /\ FrozenInStep(s)
    BY <1>3, LoadFacts
  <2>2. PICK stray \in BOOLEAN :
          \E u : u = VBAMovieUnfreeze(movie, f, stray) /\ SameContent(u, movie')
                /\ movie'.state = u.state
    BY <1>3, LoadFacts
  <2>3. PICK u : u = VBAMovieUnfreeze(movie, f, stray) /\ SameContent(u, movie')
                 /\ movie'.state = u.state
    BY <2>2
  <2>4. CASE LoadFails(slots[n])
    <3>1. s = CurrentState
      BY <2>4 DEF StateToLoad
    <3>2. f = VBAMovieFreeze(movie) /\ s.machine = machine
      BY <1>3, <3>1 DEF CurrentState
    <3> QED BY <1>1, <1>3, <2>1, <2>3, <3>2, LoadBackStutters
  <2>5. CASE ~LoadFails(slots[n])
    <3>1. s = slots[n]
      BY <2>5 DEF StateToLoad
    <3> QED BY <1>1, <1>3, <2>1, <2>3, <3>1, LoadedRefines
  <2> QED BY <2>4, <2>5
<1> QED BY <1>2, <1>3

(* Calls that start a movie, or fail and close the one that is open.       *)
LEMMA StartingRefines ==
  ASSUME IInv, IInv', newFrame, OpenMovie \/ CreateMovie \/ RestartMovie
  PROVE  [Log!Next]_(Log!vars)
<1>1. slots' = slots /\ movie \in Movies
  BY DEF OpenMovie, CreateMovie, RestartMovie, StartMovie, IInv, TypeOK
<1>2. Active(movie') => movie'.currentFrame = 0
  <2>1. CASE OpenMovie
    BY <1>1, <2>1, OpenFacts DEF OpenMovie, StartMovie
  <2>2. CASE CreateMovie
    BY <1>1, <2>2, CreateFacts DEF CreateMovie, StartMovie
  <2>3. CASE RestartMovie
    BY <1>1, <2>3, RestartFacts DEF RestartMovie, StartMovie
  <2> QED BY <2>1, <2>2, <2>3
<1> QED BY <1>1, <1>2, OpensLog, ClosesLog DEF Log!Next

(* Calls on an open movie that move nothing.                               *)
LEMMA QuietRefines ==
  ASSUME IInv, IInv', newFrame,
         \/ MovieCall(VBAMovieToggleReadOnly(movie))
         \/ MovieCall(VBAMovieSwitchToPlaying(movie))
         \/ MovieCall(VBAMovieSwitchToRecording(movie))
         \/ MovieCall(VBAMovieFixHeader(movie))
         \/ PauseAt
         \/ UserReset
         \/ InputEdit
  PROVE  UNCHANGED Log!vars
<1>1. Sound(movie) /\ movie \in Movies /\ machine \in Machines
  BY DEF IInv, TypeOK
<1>2. /\ slots' = slots /\ machine'.fed = machine.fed
  BY <1>1 DEF MovieCall, PauseAt, UserReset, InputEdit, Resume, SetSkipRerecords, SetButtons,
     Machines
<1>3. /\ Active(movie') <=> Active(movie)
      /\ Active(movie) => SameInputsAndPlace(movie, movie')
  <2>1. CASE \/ MovieCall(VBAMovieToggleReadOnly(movie))
             \/ MovieCall(VBAMovieSwitchToPlaying(movie))
             \/ MovieCall(VBAMovieSwitchToRecording(movie))
             \/ MovieCall(VBAMovieFixHeader(movie))
    BY <1>1, <2>1, ToggleSound, SwitchToPlayingSound, SwitchToRecordingSound, FixHeaderSound
       DEF MovieCall
  <2>2. CASE PauseAt
    BY <1>1, <2>2, SetPauseAtSound DEF MovieCall, PauseAt
  <2>3. CASE UserReset
    <3>1. movie' = movie \/ movie' = [movie EXCEPT !.resetSignaled = movie'.resetSignaled]
      BY <1>1, <2>3, SignalResetFacts DEF UserReset
    <3> QED BY <1>1, <3>1 DEF SameInputsAndPlace, Active, Movies
  <2>4. CASE InputEdit
    BY <2>4, InputEditFacts DEF SameContent, SameInputsAndPlace, Active
  <2> QED BY <2>1, <2>2, <2>3, <2>4
<1>4. LogOfMovie' = LogOfMovie
  BY <1>3 DEF LogOfMovie, SameInputsAndPlace
<1> QED BY <1>2, <1>3, <1>4, SameMapped DEF SameInputsAndPlace

-----------------------------------------------------------------------------
(* Every step of re-recording is a step of ReplayLog or is not seen by it. *)
LEMMA NextRefines == IInv /\ IInv' /\ [NextCalls]_vars => [Log!Next]_(Log!vars)
<1> SUFFICES ASSUME IInv, IInv', [NextCalls]_vars PROVE [Log!Next]_(Log!vars)
  OBVIOUS
<1>1. CASE UNCHANGED vars
  BY <1>1 DEF vars, Log!vars, Active, LogOfMovie, FedToMachine, FedBeforeFrame, SavedLogs
<1>2. CASE FrameStart
  BY <1>2, FrameStartRefines
<1>3. CASE FrameEnd
  BY <1>3, FrameEndRefines
<1>4. CASE newFrame /\ FrontEnd
  <2>1. CASE \E n \in Slots : SaveState(n)
    BY <1>4, <2>1, SaveStateRefines DEF Log!Next
  <2>2. CASE \E n \in Slots : LoadFile(n)
    BY <1>4, <2>2, LoadFileRefines
  <2>3. CASE OpenMovie \/ CreateMovie
    BY <1>4, <2>3, StartingRefines
  <2>4. CASE StopMovie
    BY <2>4, StopFacts, ClosesLog DEF StopMovie, MovieCall, IInv, TypeOK, Log!Next
  <2>5. CASE InputEdit \/ UserReset
    BY <1>4, <2>5, QuietRefines
  <2> QED BY <1>4, <2>1, <2>2, <2>3, <2>4, <2>5 DEF FrontEnd, InputEdit
<1>5. CASE Crash \/ CrashWhileWriting \/ \E n \in Slots : CrashWhileLoading(n)
  <2>1. ~Active(movie') /\ slots' = slots
    BY <1>5, CrashFacts DEF Restarted
  <2> QED BY <2>1, ClosesLog DEF Log!Next
<1>6. CASE newFrame /\ UserInterface
  BY <1>6, StartingRefines, QuietRefines DEF UserInterface
<1>7. CASE newFrame /\ PauseAt
  BY <1>7, QuietRefines
<1> QED BY <1>1, <1>2, <1>3, <1>4, <1>5, <1>6, <1>7
   DEF NextCalls, NextUser, NextCrash, Next, Run

(* A movie with its machine and its save states does what ReplayLog        *)
(* promises, whatever is called, refused or cut off by a crash.            *)
THEOREM RerecordingIsReplayLog == SpecCalls => ImplementsReplayLog
<1>1. Init => Log!Init
  BY DEF Init, NoMovie, Active, LogOfMovie, FedToMachine, SavedLogs, SavedLog, Log!Init
<1>2. SpecCalls => [][NextCalls]_vars /\ Init
  BY DEF SpecCalls
<1> QED BY <1>1, <1>2, NextRefines, Invariance, PTL DEF ImplementsReplayLog, Log!Spec
=============================================================================
