---------------------------- MODULE Rerecording ----------------------------
(***************************************************************************)
(* The movie (MovieCode) driven by the rest of the program: the frame loop *)
(* of gb/GB.cpp (gba/GBA.cpp has the same one), save states and the front  *)
(* end of sdl/SDL.cpp.                                                     *)
(*                                                                         *)
(* The emulated machine is deterministic, so its state is represented by   *)
(* what it was fed since the movie's start: one token per frame, with the  *)
(* buttons it read and whether it was reset just before.  `machine.origin' *)
(* is the movie it was started for, 0 once it has run without a movie.     *)
(* `machine.userResets' counts how often the user has reset it since.      *)
(***************************************************************************)
EXTENDS MovieCode, Sequences

CONSTANTS
  Slots,         \* the save-state files
  NoState,       \* an empty slot, or a save state without a movie part
  ImportSizes,   \* lengths of the movie file that may exist at the start
  LuaSkips,      \* what a Lua script gives to movie.rerecordcounting
  UserResets     \* bound: how often the user resets the machine of a movie

ASSUME LuaSkipsAssumption == LuaSkips \subseteq BOOLEAN
ASSUME UserResetsAssumption == UserResets \in Nat
ASSUME ImportSizesAssumption == ImportSizes \subseteq 0 .. MaxFrames

VARIABLES
  movie,          \* see MovieCode
  machine,        \* the emulated machine
  newFrame,       \* GB.cpp's flag: the next gbEmulate call begins a frame
  gbJoymask,      \* the buttons the current frame has read
  slots           \* the save states written so far

vars == <<movie, machine, newFrame, gbJoymask, slots>>

Tokens   == [pad : Pads, reset : BOOLEAN]
Machines == [origin : Uids \cup {0}, fed : Seq(Tokens), resetPending : BOOLEAN,
             userResets : 0 .. UserResets]
SaveStates == [machine : Machines, gbJoymask : Pads, freeze : Freezes \cup {NoState}]

ASSUME NoStateAssumption == NoState \notin Freezes /\ NoState \notin SaveStates

Started(uid) ==
  [origin |-> uid, fed |-> <<>>, resetPending |-> FALSE, userResets |-> 0]
Foreign == Started(0)

-----------------------------------------------------------------------------
(* The frame loop.                                                         *)

(* The `if (newFrame)' block of gbEmulate.  systemGetJoypad gives it the    *)
(* movie's buttons during playback, else the user's, with auto-fire off.   *)
FrameStart ==
  /\ newFrame
  /\ ~movie.paused
  /\ movie.currentFrame < MaxFrames
  /\ Len(machine.fed) < MaxFrames
  /\ LET read == VBAMovieRead(movie)
         pad  == IF movie.state = "PLAY" THEN read.pad ELSE movie.pad
     IN /\ movie' = VBAMovieResetIfRequested(read)
        /\ gbJoymask' = pad
        /\ machine' = IF Active(movie)
                      THEN [machine EXCEPT
                              !.fed = Append(@, [pad |-> pad, reset |-> machine.resetPending
                                                                  \/ read.resetSignaled]),
                              !.resetPending = FALSE]
                      ELSE Foreign
  /\ newFrame' = FALSE
  /\ UNCHANGED slots

(* V-blank: VBAOnEnteringFrameBoundary, then newFrame is set.              *)
FrameEnd ==
  /\ ~newFrame
  /\ movie.currentFrame < MaxFrames
  /\ movie' = VBAMovieUpdateState(movie)
  /\ newFrame' = TRUE
  /\ UNCHANGED <<machine, gbJoymask, slots>>

-----------------------------------------------------------------------------
(* Save states.                                                            *)

CurrentState ==
  [machine |-> machine, gbJoymask |-> gbJoymask,
   freeze |-> IF Active(movie) THEN VBAMovieFreeze(movie) ELSE NoState]

SaveState(n) ==
  /\ slots' = [slots EXCEPT ![n] = CurrentState]
  /\ UNCHANGED <<movie, machine, newFrame, gbJoymask>>

(* A save state without a movie part, or one that VBAMovieUnfreeze refuses.*)
LoadFails(s) ==
  /\ Active(movie)
  /\ s.freeze = NoState \/ UnfreezeCode(movie, s.freeze) # "SUCCESS"

LoadInto(s) ==
  /\ \E stray \in BOOLEAN :
       movie' = [IF Active(movie) THEN VBAMovieUnfreeze(movie, s.freeze, stray) ELSE movie
                 EXCEPT !.pad = s.gbJoymask]
  /\ machine' = s.machine
  /\ gbJoymask' = s.gbJoymask
  /\ UNCHANGED <<newFrame, slots>>

(* Mutant: there is no backup.                                             *)
LoadFileUnsafely(n) ==
  /\ slots[n] # NoState
  /\ IF LoadFails(slots[n])
     THEN machine' = slots[n].machine /\ UNCHANGED <<movie, gbJoymask, newFrame, slots>>
     ELSE LoadInto(slots[n])

(* gbReadSaveState.  The machine is overwritten before the movie part is   *)
(* looked at; a load that fails is undone by loading the backup that       *)
(* gbReadSaveStateFromStream has written first.                            *)
StateToLoad(n) == IF LoadFails(slots[n]) THEN CurrentState ELSE slots[n]
LoadFile(n)    == slots[n] # NoState /\ LoadInto(StateToLoad(n))

(* gbReadMemSaveState (rewind, and loadState of the Java binding) writes   *)
(* no backup: what a load that fails leaves behind.                        *)
LoadMemFails(n) ==
  /\ slots[n] # NoState
  /\ LoadFails(slots[n])
  /\ machine' = slots[n].machine
  /\ gbJoymask' = slots[n].gbJoymask
  /\ UNCHANGED <<movie, newFrame, slots>>

-----------------------------------------------------------------------------
(* The front end.                                                          *)

SetButtons(pad) ==
  /\ pad # movie.pad
  /\ movie' = [movie EXCEPT !.pad = pad]
  /\ UNCHANGED <<machine, newFrame, gbJoymask, slots>>

(* The user lets a paused emulator go on.  (That the user may pause it is   *)
(* nothing new: FrameStart need not happen.)                               *)
Resume ==
  /\ movie.paused
  /\ movie' = [movie EXCEPT !.paused = FALSE]
  /\ UNCHANGED <<machine, newFrame, gbJoymask, slots>>

(* movie.rerecordcounting of a Lua script that runs beside the movie, or   *)
(* the start or the end of the script.                                     *)
SetSkipRerecords ==
  /\ \E skip \in LuaSkips \ {movie.skipRerecords} :
       movie' = [movie EXCEPT !.skipRerecords = skip]
  /\ UNCHANGED <<machine, newFrame, gbJoymask, slots>>

(* emuReset(true), at Ctrl-R: while recording the reset is only signalled. *)
(* A reset without a movie is nothing new: what then runs is unknown.      *)
UserReset ==
  /\ Active(movie)
  /\ machine.userResets < UserResets
  /\ IF movie.state = "RECORD"
     THEN /\ movie' = VBAMovieSignalReset(movie)
          /\ machine' = [machine EXCEPT !.userResets = @ + 1]
     ELSE /\ machine' = [machine EXCEPT !.userResets = @ + 1, !.resetPending = TRUE]
          /\ UNCHANGED movie
  /\ UNCHANGED <<newFrame, gbJoymask, slots>>

(* A call that opens a movie resets the machine, or only closes the movie. *)
StartMovie(m) ==
  /\ movie' = m
  /\ machine' = IF Active(m) THEN Started(m.uid) ELSE machine
  /\ UNCHANGED <<newFrame, gbJoymask, slots>>

OpenMovie    == \E readOnly \in BOOLEAN : StartMovie(VBAMovieOpen(movie, readOnly))
CreateMovie  == \E uid \in Uids : StartMovie(VBAMovieCreate(movie, uid))
RestartMovie == Active(movie) /\ StartMovie(VBAMovieRestart(movie))

(* A call of movie.h on an open movie that does not touch the machine.     *)
MovieCall(m) ==
  /\ Active(movie)
  /\ movie' = m
  /\ UNCHANGED <<machine, newFrame, gbJoymask, slots>>

StopMovie == MovieCall(VBAMovieStop(movie))

Restarted(m) ==
  /\ movie' = Crashed(m)
  /\ machine' = Foreign
  /\ newFrame' = TRUE
  /\ gbJoymask' = {}
  /\ UNCHANGED slots

(* The process dies between two calls, ...                                 *)
Crash == Active(movie) /\ Restarted(movie)

(* ... or in VBAMovieUpdateState, when flush_movie_header's fseek has      *)
(* written the new frame to the file and not yet the header.               *)
CrashWhileWriting ==
  /\ movie.state = "RECORD"
  /\ ~newFrame
  /\ movie.currentFrame < MaxFrames
  /\ Restarted(WriteFrame(VBAMovieWrite(movie)))

(* ... or in the VBAMovieUnfreeze of an editable movie, when the header    *)
(* is written and the inputs of the state only in part.                    *)
CrashWhileLoading(n) ==
  /\ newFrame
  /\ Active(movie) /\ movie.readOnly = 0
  /\ slots[n] # NoState
  /\ LET s == StateToLoad(n).freeze
         m == flush_movie_header(CountRerecord(Branch(movie, s)))
     IN \E written \in 0 .. s.length : Restarted(WriteInputs(m, written))

-----------------------------------------------------------------------------
InitialDisk(d) ==
  /\ d.size = d.length /\ d.rerecords = 0
  /\ d.frames = FirstFrames(d.frames, d.size)
  /\ \A i \in Idx : ~d.frames[i].oldReset
  /\ IF d.exists THEN d.size \in ImportSizes ELSE d.size = 0 /\ d.writable
  /\ d.uid = CHOOSE u \in Uids : TRUE

NoMovie(d) ==
  [state |-> "NONE", readOnly |-> 0, pauseFrame |-> -1, currentFrame |-> 0, length |-> 0,
   uid |-> d.uid, rerecords |-> 0, recorded |-> FALSE, buf |-> ZeroBuffer, ptr |-> 0,
   filePos |-> 0, resetSignaled |-> FALSE, resetSignaledLast |-> FALSE, pad |-> {},
   paused |-> FALSE, skipRerecords |-> FALSE, disk |-> d]

Init ==
  /\ \E d \in Disks : InitialDisk(d) /\ movie = NoMovie(d)
  /\ machine = Foreign
  /\ newFrame = TRUE
  /\ gbJoymask = {}
  /\ slots = [n \in Slots |-> NoState]

(* What the SDL front end and the language bindings call.                  *)
FrontEnd ==
  \/ \E pad \in Pads : SetButtons(pad)
  \/ Resume
  \/ UserReset
  \/ SetSkipRerecords
  \/ \E n \in Slots : SaveState(n) \/ LoadFile(n)
  \/ OpenMovie
  \/ CreateMovie
  \/ StopMovie

(* The calls that movie.h offers to a user interface besides.              *)
UserInterface ==
  \/ MovieCall(VBAMovieToggleReadOnly(movie))
  \/ MovieCall(VBAMovieSwitchToPlaying(movie))
  \/ MovieCall(VBAMovieSwitchToRecording(movie))
  \/ MovieCall(VBAMovieFixHeader(movie))
  \/ RestartMovie

PauseAt  == \E at \in -1 .. MaxFrames : MovieCall(VBAMovieSetPauseAt(movie, at))

(* step() runs whole frames: the front end acts between two frames.        *)
Run == FrameStart \/ FrameEnd \/ (newFrame /\ FrontEnd)

Next         == Run \/ Crash \/ CrashWhileWriting
NextCrash    == Next \/ \E n \in Slots : CrashWhileLoading(n)
NextUser     == Run \/ (newFrame /\ UserInterface) \/ \E n \in Slots : CrashWhileLoading(n)
NextCalls    == NextCrash \/ NextUser \/ (newFrame /\ PauseAt)
NextRewind   == Next \/ (newFrame /\ \E n \in Slots : LoadMemFails(n))

Spec         == Init /\ [][Next]_vars
SpecCrash    == Init /\ [][NextCrash]_vars
SpecUser     == Init /\ [][NextUser]_vars
SpecCalls    == Init /\ [][NextCalls]_vars
SpecRewind   == Init /\ [][NextRewind]_vars
-----------------------------------------------------------------------------
(* Properties.                                                             *)

(* Every variable has its type.                                            *)
TypeOK ==
  /\ movie \in Movies
  /\ machine \in Machines
  /\ newFrame \in BOOLEAN
  /\ gbJoymask \in Pads
  /\ slots \in [Slots -> SaveStates \cup {NoState}]

(* The three cursors of an open movie stay together through playback, the  *)
(* end, re-recording and loading.                                          *)
CursorInStep == Active(movie) => CursorsAgree(movie)

FedInStep(m, h) ==
  /\ h.origin = m.uid
  /\ Len(h.fed) = m.currentFrame
  /\ \A i \in 1 .. m.currentFrame : i <= m.length => h.fed[i].pad = m.buf[i - 1].pad

(* Between two frames the machine has been fed, frame by frame, the        *)
(* buttons that the movie holds for the frames before the cursor: playing  *)
(* the movie again will feed it the same.                                  *)
InputsInStep == newFrame /\ Active(movie) => FedInStep(movie, machine)

(* Nor do the resets differ, if none of them was the user's: the machine   *)
(* was reset before the frames for which the movie says so, with whatever  *)
(* history it was loaded, and no signalled reset is left for another.      *)
ResetsInStep ==
  newFrame /\ Active(movie) /\ machine.userResets = 0 =>
    \A i \in 1 .. movie.currentFrame :
      i <= movie.length => machine.fed[i].reset = movie.buf[i - 1].newReset

(* The file holds the inputs of the buffer at every moment between two     *)
(* calls, so that neither a crash nor a second instance reading it finds   *)
(* less than what was recorded.                                            *)
DiskHoldsRecording == Active(movie) /\ CanWrite(movie) => FileAgrees(movie)

(* Closing cuts off the inputs that re-recording has abandoned.            *)
ClosedFileIsExact ==
  [][StopMovie /\ CanWrite(movie) =>
       /\ movie'.disk.size = movie.length
       /\ movie'.disk.length = movie.length
       /\ movie'.disk.frames = FirstFrames(movie.buf, movie.length)]_vars

(* However recording ends, in the middle of a write or not, the file       *)
(* starts with every frame that was recorded.                              *)
CrashKeepsRecording ==
  [][/\ movie.state = "RECORD" /\ CanWrite(movie) /\ ~Active(movie')
     => /\ movie'.disk.size >= movie.currentFrame
        /\ FirstFrames(movie'.disk.frames, movie.currentFrame)
             = FirstFrames(movie.buf, movie.currentFrame)]_vars

(* The frames that the movie and the inputs of a save state begin with.    *)
Shared(s) ==
  {i \in Idx : /\ i < movie.length /\ i < s.length
               /\ \A j \in 0 .. i : movie.buf[j] = s.input[j]}

(* A load that is cut off in the middle of its two writes (movie.cpp:1547) *)
(* may mix two branches in the file, but it keeps what both begin with.    *)
CrashKeepsShared ==
  [][\A n \in Slots : CrashWhileLoading(n) =>
       \A i \in Shared(StateToLoad(n).freeze) :
         i < movie'.disk.size /\ movie'.disk.frames[i] = movie.buf[i]]_vars

SameInputs == /\ movie'.length = movie.length
              /\ FirstFrames(movie'.buf, movie.length) = FirstFrames(movie.buf, movie.length)

(* A movie opened read-only keeps its inputs until it is closed, whatever  *)
(* is loaded or however far it is played.                                  *)
ReadOnlyKeepsInputs ==
  [][Active(movie) /\ movie.readOnly # 0 /\ Active(movie') =>
       SameInputs \/ CreateMovie]_vars

(* Recorded inputs of an open movie are only given up by a step that       *)
(* counts a re-record, unless a Lua script asked for none to be counted,   *)
(* or by one that opens another movie: the count may have gone round.      *)
LossIsCounted ==
  [][/\ Active(movie) /\ Active(movie')
     /\ \E i \in 0 .. movie.length - 1 :
          i >= movie'.length \/ movie'.buf[i] # movie.buf[i]
     => movie'.rerecords # movie.rerecords \/ movie.skipRerecords \/ CreateMovie]_vars

FailedLoad(n) == slots[n] # NoState /\ LoadFails(slots[n]) /\ LoadFile(n)

(* A save state that cannot be loaded leaves the machine and the movie's   *)
(* inputs and position as they were: the backup brings all of it back.     *)
FailedLoadKeepsPosition ==
  [][\A n \in Slots : FailedLoad(n) =>
       /\ machine' = machine
       /\ movie'.currentFrame = movie.currentFrame
       /\ movie'.ptr = movie.ptr
       /\ SameInputs]_vars

(* Playing from the start again finds the movie as it was recorded.        *)
RestartKeepsInputs ==
  [][newFrame /\ RestartMovie /\ CanWrite(movie) =>
       /\ movie'.length = movie.length
       /\ SameInputs
       /\ movie'.currentFrame = 0
       /\ movie'.uid = movie.uid]_vars

(* BUTTON_MASK_OLD_RESET is only recorded for a frame that began with a    *)
(* reset of the machine, whatever was loaded since the user asked for it.  *)
OldResetMarksReset ==
  [][FrameEnd /\ movie.state = "RECORD" =>
       (movie'.buf[movie.ptr].oldReset => machine.fed[Len(machine.fed)].reset)]_vars

(* The user's reset is recorded for the frame that begins with it, as      *)
(* movie.cpp:1246 says: "soft-reset button for 1 frame if the game is      *)
(* reset while recording".                                                 *)
UserResetIsRecorded ==
  [][FrameEnd /\ movie.state = "RECORD" =>
       (machine.fed[Len(machine.fed)].reset => movie'.buf[movie.ptr].newReset)]_vars

PadsFed(fed)     == [i \in 1 .. Len(fed) |-> fed[i].pad]
PadsOf(f, n)     == [i \in 1 .. n |-> f[i - 1].pad]
FedBeforeFrame   == IF newFrame THEN Len(machine.fed) ELSE Len(machine.fed) - 1

(* The log of ReplayLog is the recorded part of the input buffer, ...      *)
LogOfMovie == IF Active(movie) THEN PadsOf(movie.buf, movie.length) ELSE <<>>

(* ... its history what the machine was fed by the frames that are over,   *)
(* and a save state remembers both.                                        *)
FedToMachine == IF Active(movie) THEN SubSeq(PadsFed(machine.fed), 1, FedBeforeFrame) ELSE <<>>
SavedLog(s) ==
  IF s = NoState \/ s.freeze = NoState THEN NoState
  ELSE [log  |-> PadsOf(s.freeze.input, s.freeze.length),
        hist |-> PadsFed(s.machine.fed)]

(* What a save state without a movie is mapped to is not a log.            *)
ASSUME NoLogAssumption == NoState \notin [log : Seq(Pads), hist : Seq(Pads)]

SavedLogs == [n \in Slots |-> SavedLog(slots[n])]

Log == INSTANCE ReplayLog WITH
         Input <- Pads, Nothing <- NoState,
         open  <- Active(movie), log <- LogOfMovie, hist <- FedToMachine, saved <- SavedLogs

(* Re-recording implements ReplayLog.                                      *)
ImplementsReplayLog == Log!Spec
=============================================================================
