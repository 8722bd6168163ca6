----------------------------- MODULE MovieCode -----------------------------
(***************************************************************************)
(* The functions of src/src/common/movie.cpp, each as an operator from the *)
(* state of the movie to the next one.                                     *)
(*                                                                         *)
(* The state m is a record: the fields of the global `Movie' (SMovie in    *)
(* movie.h), the two reset flags of the file, the two front-end globals    *)
(* that movie.cpp writes (the buttons of controller 0, systemSetPause), the*)
(* one it reads (skipRerecords: VBALuaRerecordCountSkip, which a running   *)
(* Lua script sets), and the movie file.  One controller is recorded, so a *)
(* frame of the input buffer and of the file is one record, bytesPerFrame  *)
(* is the unit of `ptr' and `filePos'.  A movie starts from a hard reset.  *)
(***************************************************************************)
EXTENDS Integers

CONSTANTS
  Keys,             \* the buttons of the controller
  MaxFrames,        \* bound: no movie and no position goes beyond this frame
  Uids,             \* the values time(NULL) may give to header.uid
  RerecordModulus   \* 2^32 in the code: header.rerecord_count is a uint32

ASSUME MaxFramesAssumption == MaxFrames \in Nat \ {0}
ASSUME UidsAssumption == Uids \subseteq Nat \ {0} /\ Uids # {}
ASSUME RerecordModulusAssumption == RerecordModulus \in Nat \ {0}

Idx  == 0 .. MaxFrames - 1
Pads == SUBSET Keys

(* One recorded frame: the buttons, BUTTON_MASK_NEW_RESET, ..._OLD_RESET.  *)
Frames == [pad : Pads, newReset : BOOLEAN, oldReset : BOOLEAN]

ZeroFrame   == [pad |-> {}, newReset |-> FALSE, oldReset |-> FALSE]
ZeroBuffer  == [i \in Idx |-> ZeroFrame]
FirstFrames(f, n) == [i \in Idx |-> IF i < n THEN f[i] ELSE ZeroFrame]

MovieStates == {"NONE", "PLAY", "RECORD", "END"}

(* The file: its header, and `size' frames of controller data.             *)
Disks == [exists : BOOLEAN, writable : BOOLEAN, uid : Uids, length : 0 .. MaxFrames,
          rerecords : 0 .. RerecordModulus - 1, size : 0 .. MaxFrames,
          frames : [Idx -> Frames]]

Movies == [state : MovieStates, readOnly : 0 .. 2, pauseFrame : -1 .. MaxFrames,
           currentFrame : 0 .. MaxFrames, length : 0 .. MaxFrames, uid : Uids,
           rerecords : 0 .. RerecordModulus - 1, recorded : BOOLEAN,
           buf : [Idx -> Frames], ptr : 0 .. MaxFrames, filePos : 0 .. MaxFrames,
           resetSignaled : BOOLEAN, resetSignaledLast : BOOLEAN,
           pad : Pads, paused : BOOLEAN, skipRerecords : BOOLEAN, disk : Disks]

(* What VBAMovieFreeze puts in a save state.                               *)
Freezes == [uid : Uids, currentFrame : 0 .. MaxFrames, length : 0 .. MaxFrames,
            input : [Idx -> Frames]]

Lesser(a, b)  == IF a < b THEN a ELSE b
Greater(a, b) == IF a > b THEN a ELSE b

Active(m)   == m.state # "NONE"           \* VBAMovieActive
CanWrite(m) == m.readOnly # 2             \* Movie.file was opened "rb+" or "wb"

-----------------------------------------------------------------------------
(* The file.  Writes through a FILE opened "rb" have no effect.            *)

flush_movie_header(m) ==
  IF CanWrite(m)
  THEN [m EXCEPT !.disk.uid = m.uid, !.disk.length = m.length, !.disk.rerecords = m.rerecords]
  ELSE m

(* Mutant: the file is emptied before it is written.                       *)
WriteInputsAnew(m, n) ==
  [m EXCEPT !.disk.size = n, !.disk.frames = FirstFrames(m.buf, n)]

(* The inputs are written from the first on: here, n of them so far.       *)
WriteInputs(m, n) ==
  IF CanWrite(m)
  THEN [m EXCEPT !.disk.size   = Greater(@, n),
                 !.disk.frames = [i \in Idx |-> IF i < n THEN m.buf[i] ELSE @[i]]]
  ELSE m

flush_movie_frames(m) == WriteInputs(m, m.length)

truncate_movie(m, length) ==
  LET h == flush_movie_header([m EXCEPT !.length = length])
  IN IF CanWrite(m)
     THEN [h EXCEPT !.disk.size = length, !.disk.frames = FirstFrames(@, length)]
     ELSE h

(* fwrite of the frame under ptr at the position of the file.              *)
WriteFrame(m) ==
  LET p == m.filePos
      moved == [m EXCEPT !.filePos = p + 1]
  IN IF CanWrite(m)
     THEN [moved EXCEPT !.disk.size = Greater(@, p + 1), !.disk.frames[p] = m.buf[m.ptr]]
     ELSE moved

-----------------------------------------------------------------------------
(* change_state.  The transition to NONE closes the movie (Close), the     *)
(* others are Settle, which also gives the state that is really entered.   *)
(* At the end of a movie recorded in this session change_state calls       *)
(* VBAMovieSwitchToRecording, which calls change_state(RECORD): that inner *)
(* call never meets the end of the movie again, so it is a Settle.         *)

(* What nothing reads of a movie that is not open, given fixed values.     *)
Forget(m) ==
  [m EXCEPT !.state = "NONE", !.currentFrame = 0, !.buf = ZeroBuffer, !.readOnly = 0,
            !.length = 0, !.uid = m.disk.uid, !.rerecords = 0, !.recorded = FALSE,
            !.ptr = 0, !.filePos = 0]

(* Mutant: the file is closed without being truncated first.               *)
CloseUntruncated(m) == [IF Active(m) THEN Forget(m) ELSE m EXCEPT !.pauseFrame = -1]

Close(m) ==
  [IF Active(m) THEN Forget(truncate_movie(m, m.length)) ELSE m EXCEPT !.pauseFrame = -1]

Settle(m, newState) ==
  LET past   == \/ newState = "PLAY"   /\ m.currentFrame >= m.length
                \/ newState = "RECORD" /\ m.currentFrame > m.length
      target == IF past THEN "END" ELSE newState
      atPause == m.pauseFrame >= 0 /\ m.currentFrame = m.pauseFrame
  IN [m EXCEPT
        !.state   = target,
        !.ptr     = IF past THEN m.length ELSE @,
        !.filePos = IF newState = "RECORD" THEN m.currentFrame ELSE @,
        !.pad     = IF target = "END" /\ m.state # "END" THEN {} ELSE @,
        !.pauseFrame = IF atPause THEN -1 ELSE @,
        !.paused  = @ \/ atPause]

VBAMovieToggleReadOnly(m) ==
  IF Active(m) /\ m.readOnly # 2 THEN [m EXCEPT !.readOnly = 1 - @] ELSE m

VBAMovieAllowsRerecording(m) == Active(m) /\ m.currentFrame <= m.length

(* Mutant: the count grows beyond the 32 bits that the header has for it.  *)
CountWide(m) == IF m.skipRerecords THEN m ELSE [m EXCEPT !.rerecords = @ + 1]

(* A Lua script may ask that re-records are not counted.                   *)
CountRerecord(m) ==
  IF m.skipRerecords THEN m ELSE [m EXCEPT !.rerecords = (@ + 1) % RerecordModulus]

(* Mutant: the state is assigned, change_state is not called.              *)
RecordAtOnce(m) ==
  IF VBAMovieAllowsRerecording(m)
  THEN [CountRerecord(m) EXCEPT !.state = "RECORD", !.readOnly = 0]
  ELSE m

VBAMovieSwitchToRecording(m) ==
  IF VBAMovieAllowsRerecording(m)
  THEN LET editable == IF m.readOnly # 0 THEN VBAMovieToggleReadOnly(m) ELSE m
       IN Settle(CountRerecord(editable), "RECORD")
  ELSE m

change_state(m, newState) ==
  LET s == Settle(m, newState)
  IN IF s.state = "END" /\ s.currentFrame = s.length /\ s.recorded
     THEN [VBAMovieSwitchToRecording(s) EXCEPT !.paused = TRUE]
     ELSE s

VBAMovieSwitchToPlaying(m) ==
  IF Active(m)
  THEN change_state(IF m.readOnly = 0 THEN VBAMovieToggleReadOnly(m) ELSE m, "PLAY")
  ELSE m

-----------------------------------------------------------------------------
(* Called by the emulator on every frame.                                  *)

(* Mutant: the recorded reset is not looked at.                            *)
ReadButtonsOnly(m) == IF m.state = "PLAY" THEN [m EXCEPT !.pad = m.buf[m.ptr].pad] ELSE m

VBAMovieRead(m) ==
  IF m.state = "PLAY"
  THEN [m EXCEPT !.pad = m.buf[m.ptr].pad,
                 !.resetSignaled = @ \/ m.buf[m.ptr].newReset]
  ELSE m

VBAMovieSignalReset(m) == IF Active(m) THEN [m EXCEPT !.resetSignaled = TRUE] ELSE m

(* Mutant: a reset stays the last one for good.                            *)
ResetRemembered(m) ==
  [m EXCEPT !.resetSignaled = FALSE, !.resetSignaledLast = @ \/ m.resetSignaled]

(* The emulator is reset by the caller when resetSignaled is set.          *)
VBAMovieResetIfRequested(m) ==
  [m EXCEPT !.resetSignaled = FALSE, !.resetSignaledLast = m.resetSignaled]

VBAMovieWrite(m) ==
  [m EXCEPT !.buf[m.ptr] = [pad |-> m.pad, newReset |-> m.resetSignaled,
                            oldReset |-> m.resetSignaledLast]]

(* Mutants of the next: the frame stays in the buffer until the movie is   *)
(* closed; ... is written before it is put in the buffer.                  *)
RecordInBuffer(n) ==
  flush_movie_header([VBAMovieWrite(n) EXCEPT
    !.length = n.currentFrame, !.ptr = @ + 1, !.filePos = @ + 1, !.recorded = TRUE])
RecordTooEarly(n) ==
  LET w == VBAMovieWrite(WriteFrame(n))
  IN flush_movie_header([w EXCEPT !.length = n.currentFrame, !.ptr = @ + 1, !.recorded = TRUE])

(* The frame is recorded: buffer, file, header.                            *)
RecordFrame(n) ==
  LET w == WriteFrame(VBAMovieWrite(n))
  IN flush_movie_header([w EXCEPT !.length = n.currentFrame, !.ptr = @ + 1, !.recorded = TRUE])

VBAMovieUpdateState(m) ==
  LET n == [m EXCEPT !.currentFrame = @ + 1]
  IN CASE m.state = "PLAY" ->
            LET p == [n EXCEPT !.ptr = @ + 1]
            IN IF p.currentFrame >= p.length THEN change_state(p, "END") ELSE p
       [] m.state = "RECORD" -> RecordFrame(n)
       [] m.state = "END"    -> change_state(n, "END")
       [] m.state = "NONE"   -> n

-----------------------------------------------------------------------------
(* The movie part of a save state.                                         *)

VBAMovieFreeze(m) ==
  [uid |-> m.uid, currentFrame |-> m.currentFrame, length |-> m.length,
   input |-> FirstFrames(m.buf, m.length)]

(* The recorded inputs that precede the position of the save state.        *)
HistoryLength(m, s) == Lesser(s.currentFrame, m.length)

(* Mutant: the inputs are not compared.                                    *)
AgreesInLength(m, s) == s.length >= HistoryLength(m, s)

SameHistory(m, s) ==
  /\ s.length >= HistoryLength(m, s)
  /\ \A i \in 0 .. HistoryLength(m, s) - 1 : m.buf[i] = s.input[i]
SameMovie(m, s) == s.uid = m.uid

UnfreezeCode(m, s) ==
  CASE ~Active(m)                                          -> "NOT_FROM_A_MOVIE"
    [] Active(m) /\ ~SameMovie(m, s)                       -> "NOT_FROM_THIS_MOVIE"
    [] /\ Active(m) /\ SameMovie(m, s)
       /\ m.readOnly # 0 /\ ~SameHistory(m, s)             -> "SNAPSHOT_INCONSISTENT"
    [] OTHER                                               -> "SUCCESS"

(* The cursor moves; the inputs stay those of the movie (read-only), or    *)
(* become those of the save state (editable).                              *)
MoveCursor(m, s) ==
  [m EXCEPT !.currentFrame = s.currentFrame, !.ptr = Lesser(s.currentFrame, m.length)]

(* Mutant of the next: what is left of a longer movie is still in it.      *)
BranchWithTail(m, s) ==
  [m EXCEPT !.currentFrame = s.currentFrame, !.length = Greater(@, s.length),
            !.recorded = TRUE, !.ptr = Lesser(s.currentFrame, s.length),
            !.buf = [i \in Idx |-> IF i < s.length THEN s.input[i] ELSE @[i]]]

Branch(m, s) ==
  [m EXCEPT !.currentFrame = s.currentFrame, !.length = s.length, !.recorded = TRUE,
            !.ptr = Lesser(s.currentFrame, s.length),
            !.buf = [i \in Idx |-> IF i < s.length THEN s.input[i] ELSE @[i]]]

(* Mutants of the next: a read-only movie takes new inputs too; ... the    *)
(* re-record is not counted.                                               *)
TakeAlways(m, s) ==
  flush_movie_frames(flush_movie_header(CountRerecord(Branch(m, s))))
TakeUncounted(m, s) ==
  IF m.readOnly # 0 THEN MoveCursor(m, s)
  ELSE flush_movie_frames(flush_movie_header(Branch(m, s)))

TakeFreeze(m, s) ==
  IF m.readOnly # 0 THEN MoveCursor(m, s)
  ELSE flush_movie_frames(flush_movie_header(CountRerecord(Branch(m, s))))

(* VBAMovieUnfreeze when its code is SUCCESS.  With no frame before ptr    *)
(* the code reads the byte before the buffer: `stray' is what it finds.    *)
VBAMovieUnfreeze(m, s, stray) ==
  LET c == change_state(TakeFreeze(m, s), "PLAY")
      lastWasReset == IF c.ptr > 0 THEN c.buf[c.ptr - 1].newReset ELSE stray
  IN [c EXCEPT !.resetSignaled = FALSE,
               !.resetSignaledLast = s.currentFrame > 0 /\ lastWasReset]

-----------------------------------------------------------------------------
(* Opening and closing.                                                    *)

(* VBAMovieInit followed by the fields that Open and Create both set.      *)
InitMovie(m) ==
  [m EXCEPT !.pauseFrame = -1, !.currentFrame = 0, !.ptr = 0, !.filePos = 0,
            !.buf = ZeroBuffer, !.resetSignaled = FALSE, !.resetSignaledLast = FALSE]

VBAMovieStop(m) == IF Active(m) THEN Close(m) ELSE m

(* The length is recomputed from the size of the file.                     *)
VBAMovieOpen(m, readOnly) ==
  LET d == Close(m).disk
      o == [InitMovie(Close(m)) EXCEPT
              !.uid = d.uid, !.length = d.size, !.rerecords = d.rerecords,
              !.readOnly = IF ~d.writable THEN 2 ELSE IF readOnly THEN 1 ELSE 0,
              !.recorded = FALSE, !.buf = FirstFrames(d.frames, d.size)]
  IN IF d.exists THEN change_state(o, "PLAY") ELSE Close(m)

VBAMovieCreate(m, uid) ==
  LET d == [Close(m).disk EXCEPT !.exists = TRUE, !.uid = uid, !.length = 0,
                                 !.rerecords = 0, !.size = 0, !.frames = ZeroBuffer]
      n == [InitMovie(Close(m)) EXCEPT
              !.uid = uid, !.length = 0, !.rerecords = 0, !.readOnly = 0,
              !.recorded = TRUE, !.disk = d]
  IN IF m.disk.writable \/ ~m.disk.exists THEN change_state(n, "RECORD") ELSE VBAMovieStop(m)

VBAMovieRestart(m) ==
  IF Active(m)
  THEN [VBAMovieOpen(VBAMovieStop(m), m.readOnly # 0) EXCEPT !.recorded = m.recorded]
  ELSE m

-----------------------------------------------------------------------------
(* The remaining calls of the user-interface section of movie.h.           *)

VBAMovieSetPauseAt(m, at) == [m EXCEPT !.pauseFrame = at]

VBAMovieFixHeader(m) == IF Active(m) THEN flush_movie_header(m) ELSE m

(* The process dies: all that is left of the movie is its file.            *)
Crashed(m) ==
  [Forget(InitMovie(m)) EXCEPT !.pad = {}, !.paused = FALSE, !.skipRerecords = FALSE]

-----------------------------------------------------------------------------
(* What every function above relies on when it is given an open movie, and *)
(* leaves behind.                                                          *)

(* The three cursors are together: the buffer pointer is at the current    *)
(* frame (at the end of the inputs once the frames have run past it), and  *)
(* while recording so is the position of the file.                         *)
CursorsAgree(m) ==
  /\ m.ptr = Lesser(m.currentFrame, m.length)
  /\ m.state = "PLAY"   => m.currentFrame < m.length
  /\ m.state = "RECORD" => m.currentFrame <= m.length /\ m.filePos = m.currentFrame
  /\ m.state = "END"    => m.currentFrame >= m.length

(* The file holds the inputs of the buffer.                                *)
FileAgrees(m) ==
  /\ m.disk.exists
  /\ m.disk.uid = m.uid
  /\ m.disk.size >= m.length
  /\ FirstFrames(m.disk.frames, m.length) = FirstFrames(m.buf, m.length)
=============================================================================
