-------------------------- MODULE MovieCodeProofs --------------------------
(***************************************************************************)
(* What the functions of movie.cpp do to a well-formed movie: the lemmas   *)
(* RerecordingProofs rests on, one or two for each operator of MovieCode.  *)
(***************************************************************************)
EXTENDS MovieCode, TLAPS

(* A movie as every function finds it and leaves it.                       *)
Sound(m) ==
  /\ m \in Movies
  /\ Active(m) => CursorsAgree(m)
  /\ Active(m) /\ CanWrite(m) => FileAgrees(m)

(* Two moments of a movie with the same inputs and the same position.      *)
SameContent(m, n) ==
  /\ n.currentFrame = m.currentFrame
  /\ n.length = m.length
  /\ n.buf = m.buf
  /\ n.uid = m.uid
  /\ n.disk = m.disk
  /\ CanWrite(n) = CanWrite(m)

-----------------------------------------------------------------------------
(* The file.                                                               *)

(* What ftruncate leaves of the controller data is again a buffer, with the*)
(* same first frames.                                                      *)
LEMMA FirstFramesType ==
  ASSUME NEW f \in [Idx -> Frames], NEW n \in Int
  PROVE  /\ FirstFrames(f, n) \in [Idx -> Frames]
         /\ \A i \in Idx : i < n => FirstFrames(f, n)[i] = f[i]
BY DEF FirstFrames, ZeroFrame, Frames, Pads

(* The cleared input buffer of reserve_buffer_space is a buffer.           *)
LEMMA ZeroBufferType == ZeroBuffer \in [Idx -> Frames]
BY DEF ZeroBuffer, ZeroFrame, Frames, Pads

(* Two buffers start with the same frames if they do so one by one.        *)
LEMMA FirstFramesEqual ==
  ASSUME NEW f, NEW g, NEW n \in Int, \A i \in Idx : i < n => f[i] = g[i]
  PROVE  FirstFrames(f, n) = FirstFrames(g, n)
BY DEF FirstFrames

(* Buffers with the same first frames agree frame by frame (the converse of*)
(* FirstFramesEqual).                                                      *)
LEMMA FirstFramesShare ==
  ASSUME NEW f, NEW g, NEW n \in Int, FirstFrames(f, n) = FirstFrames(g, n),
         NEW i \in Idx, i < n
  PROVE  f[i] = g[i]
<1>1. FirstFrames(f, n)[i] = f[i] /\ FirstFrames(g, n)[i] = g[i]
  BY DEF FirstFrames
<1> QED BY <1>1

(* flush_movie_header writes the header, and nothing of the controller     *)
(* data.                                                                   *)
LEMMA FlushHeaderFacts ==
  ASSUME NEW m \in Movies
  PROVE  /\ flush_movie_header(m) \in Movies
         /\ flush_movie_header(m) = [m EXCEPT !.disk = flush_movie_header(m).disk]
         /\ flush_movie_header(m).disk.frames = m.disk.frames
         /\ flush_movie_header(m).disk.size = m.disk.size
         /\ flush_movie_header(m).disk.exists = m.disk.exists
         /\ CanWrite(m) => flush_movie_header(m).disk.uid = m.uid
BY DEF flush_movie_header, Movies, Disks, CanWrite

(* flush_movie_frames brings the whole recording of the buffer into the    *)
(* file, and changes nothing else.                                         *)
LEMMA FlushFramesFacts ==
  ASSUME NEW m \in Movies
  PROVE  /\ flush_movie_frames(m) \in Movies
         /\ flush_movie_frames(m) = [m EXCEPT !.disk = flush_movie_frames(m).disk]
         /\ flush_movie_frames(m).disk.exists = m.disk.exists
         /\ flush_movie_frames(m).disk.uid = m.disk.uid
         /\ CanWrite(m) =>
              /\ flush_movie_frames(m).disk.size >= m.length
              /\ \A i \in Idx : i < m.length =>
                   flush_movie_frames(m).disk.frames[i] = m.buf[i]
<1> DEFINE g == [i \in Idx |-> IF i < m.length THEN m.buf[i] ELSE m.disk.frames[i]]
           d == [m.disk EXCEPT !.size = Greater(@, m.length), !.frames = g]
<1>1. g \in [Idx -> Frames]
  BY DEF Movies, Disks
<1>2. d \in Disks
  <2> HIDE DEF g
  <2> QED BY <1>1 DEF Movies, Disks, Greater
<1>3. flush_movie_frames(m) = IF CanWrite(m) THEN [m EXCEPT !.disk = d] ELSE m
  BY DEF flush_movie_frames, WriteInputs, Movies, Disks
<1>4. /\ d.exists = m.disk.exists /\ d.uid = m.disk.uid /\ d.size >= m.length
      /\ \A i \in Idx : i < m.length => d.frames[i] = m.buf[i]
  BY DEF Movies, Disks, Greater
<1> HIDE DEF d
<1> QED BY <1>2, <1>3, <1>4 DEF Movies, CanWrite

(* Written in part, the inputs leave a well-formed movie too.              *)
LEMMA WriteInputsType ==
  ASSUME NEW m \in Movies, NEW n \in 0 .. MaxFrames
  PROVE  WriteInputs(m, n) \in Movies
<1> DEFINE g == [i \in Idx |-> IF i < n THEN m.buf[i] ELSE m.disk.frames[i]]
           d == [m.disk EXCEPT !.size = Greater(@, n), !.frames = g]
<1>1. g \in [Idx -> Frames]
  BY DEF Movies, Disks
<1>2. WriteInputs(m, n) = IF CanWrite(m) THEN [m EXCEPT !.disk = d] ELSE m
  BY DEF WriteInputs, Movies, Disks
<1>3. d \in Disks
  <2> HIDE DEF g
  <2> QED BY <1>1 DEF Movies, Disks, Greater
<1> HIDE DEF d
<1> QED BY <1>2, <1>3 DEF Movies

(* truncate_movie leaves a well-formed movie.                              *)
LEMMA TruncateFacts ==
  ASSUME NEW m \in Movies, NEW n \in 0 .. MaxFrames
  PROVE  truncate_movie(m, n) \in Movies
<1> DEFINE h == flush_movie_header([m EXCEPT !.length = n])
<1>1. [m EXCEPT !.length = n] \in Movies
  BY DEF Movies
<1>2. h \in Movies
  BY <1>1, FlushHeaderFacts
<1>3. h.disk \in Disks /\ h.disk.frames \in [Idx -> Frames]
  BY <1>2 DEF Movies, Disks
<1>4. FirstFrames(h.disk.frames, n) \in [Idx -> Frames]
  BY <1>3, FirstFramesType
<1>5. [h EXCEPT !.disk.size = n, !.disk.frames = FirstFrames(@, n)] \in Movies
  <2> HIDE DEF h
  <2> QED BY <1>2, <1>3, <1>4 DEF Movies, Disks
<1> QED BY <1>2, <1>5 DEF truncate_movie

(* The fwrite of one frame puts the frame under the pointer at the file's  *)
(* position and never shortens the file.                                   *)
LEMMA WriteFrameFacts ==
  ASSUME NEW m \in Movies, m.filePos < MaxFrames, m.ptr < MaxFrames
  PROVE  /\ WriteFrame(m) \in Movies
         /\ WriteFrame(m) = [m EXCEPT !.filePos = m.filePos + 1, !.disk = WriteFrame(m).disk]
         /\ WriteFrame(m).disk.exists = m.disk.exists
         /\ WriteFrame(m).disk.uid = m.disk.uid
         /\ CanWrite(m) =>
              /\ WriteFrame(m).disk.size >= m.disk.size
              /\ WriteFrame(m).disk.size >= m.filePos + 1
              /\ WriteFrame(m).disk.frames = [m.disk.frames EXCEPT ![m.filePos] = m.buf[m.ptr]]
<1>1. m.ptr \in Idx /\ m.filePos \in Idx /\ m.buf[m.ptr] \in Frames
  BY MaxFramesAssumption DEF Movies, Idx
<1> DEFINE g == [m.disk.frames EXCEPT ![m.filePos] = m.buf[m.ptr]]
           d == [m.disk EXCEPT !.size = Greater(@, m.filePos + 1), !.frames = g]
<1>2. g \in [Idx -> Frames]
  BY <1>1 DEF Movies, Disks
<1>3. d \in Disks
  <2>1. Greater(m.disk.size, m.filePos + 1) \in 0 .. MaxFrames
    BY MaxFramesAssumption DEF Movies, Disks, Greater
  <2> HIDE DEF g
  <2> QED BY <1>2, <2>1 DEF Movies, Disks
<1>4. WriteFrame(m) = IF CanWrite(m) THEN [m EXCEPT !.filePos = m.filePos + 1, !.disk = d]
                                     ELSE [m EXCEPT !.filePos = m.filePos + 1]
  BY DEF WriteFrame, Movies, Disks
<1>5. /\ d.exists = m.disk.exists /\ d.uid = m.disk.uid /\ d.size >= m.disk.size
      /\ d.size >= m.filePos + 1 /\ d.frames = g
  BY DEF Movies, Disks, Greater
<1>6. m.filePos + 1 \in 0 .. MaxFrames
  BY MaxFramesAssumption DEF Movies
<1> HIDE DEF d, g
<1>7. /\ WriteFrame(m) \in Movies
      /\ WriteFrame(m) = [m EXCEPT !.filePos = m.filePos + 1, !.disk = WriteFrame(m).disk]
  BY <1>3, <1>4, <1>6 DEF Movies, CanWrite
<1> QED BY <1>4, <1>5, <1>7 DEF Movies, CanWrite, g

-----------------------------------------------------------------------------
(* Changing state.                                                         *)

(* change_state enters a well-formed state.                                *)
LEMMA SettleType ==
  ASSUME NEW m \in Movies, NEW s \in {"PLAY", "RECORD", "END"}
  PROVE  Settle(m, s) \in Movies
<1> DEFINE st == Settle(m, s).state
           pt == Settle(m, s).ptr
           fp == Settle(m, s).filePos
           pd == Settle(m, s).pad
           pf == Settle(m, s).pauseFrame
           pa == Settle(m, s).paused
           q  == [m EXCEPT !.state = st, !.ptr = pt, !.filePos = fp]
           r  == [q EXCEPT !.pad = pd, !.pauseFrame = pf, !.paused = pa]
<1>1. Settle(m, s) = r
  BY DEF Settle, Movies
<1>2. st \in MovieStates /\ pt \in 0 .. MaxFrames /\ fp \in 0 .. MaxFrames
  BY DEF Settle, Movies, MovieStates
<1>3. pd \in Pads
  BY DEF Settle, Movies, Pads
<1>4. pf \in -1 .. MaxFrames /\ pa \in BOOLEAN
  BY MaxFramesAssumption DEF Settle, Movies
<1> HIDE DEF st, pt, fp, pd, pf, pa
<1>5. q \in Movies
  BY <1>2 DEF Movies
<1> HIDE DEF q
<1>6. r \in Movies
  BY <1>3, <1>4, <1>5 DEF Movies
<1> QED BY <1>1, <1>6

(* change_state, without the resumption of recording, brings the cursors   *)
(* together whatever state is asked for, and leaves the inputs alone.      *)
LEMMA SettleFacts ==
  ASSUME NEW m \in Movies, NEW s \in {"PLAY", "RECORD", "END"},
         m.ptr = Lesser(m.currentFrame, m.length),
         s = "END" => m.currentFrame >= m.length
  PROVE  /\ Settle(m, s) \in Movies
         /\ SameContent(m, Settle(m, s))
         /\ Settle(m, s).recorded = m.recorded
         /\ Active(Settle(m, s))
         /\ CursorsAgree(Settle(m, s))
<1>1. Settle(m, s) \in Movies
  BY SettleType
<1>2. SameContent(m, Settle(m, s)) /\ Settle(m, s).recorded = m.recorded
  BY DEF Settle, Movies, SameContent, CanWrite
<1> DEFINE past == \/ s = "PLAY"   /\ m.currentFrame >= m.length
                   \/ s = "RECORD" /\ m.currentFrame > m.length
<1>3. /\ Settle(m, s).state = (IF past THEN "END" ELSE s)
      /\ Settle(m, s).ptr = (IF past THEN m.length ELSE m.ptr)
      /\ Settle(m, s).filePos = (IF s = "RECORD" THEN m.currentFrame ELSE m.filePos)
      /\ Settle(m, s).currentFrame = m.currentFrame
      /\ Settle(m, s).length = m.length
  BY DEF Settle, Movies
<1>4. m.currentFrame \in Int /\ m.length \in Int
  BY DEF Movies
<1>5. Active(Settle(m, s)) /\ CursorsAgree(Settle(m, s))
  BY <1>3, <1>4 DEF CursorsAgree, Active, Lesser
<1> QED BY <1>1, <1>2, <1>5

(* VBAMovieToggleReadOnly changes the flag and nothing else.               *)
LEMMA ToggleFacts ==
  ASSUME NEW m \in Movies
  PROVE  /\ VBAMovieToggleReadOnly(m) \in Movies
         /\ SameContent(m, VBAMovieToggleReadOnly(m))
         /\ VBAMovieToggleReadOnly(m).recorded = m.recorded
         /\ VBAMovieToggleReadOnly(m).ptr = m.ptr
         /\ VBAMovieToggleReadOnly(m).filePos = m.filePos
         /\ VBAMovieToggleReadOnly(m).state = m.state
         /\ VBAMovieToggleReadOnly(m).pad = m.pad
BY DEF VBAMovieToggleReadOnly, Movies, SameContent, CanWrite

(* The re-record count stays in its 32 bits.                               *)
LEMMA CountRerecordFacts ==
  ASSUME NEW m \in Movies
  PROVE  /\ CountRerecord(m) \in Movies
         /\ CountRerecord(m) = [m EXCEPT !.rerecords = CountRerecord(m).rerecords]
<1>1. (m.rerecords + 1) % RerecordModulus \in 0 .. RerecordModulus - 1
  BY RerecordModulusAssumption DEF Movies
<1> QED BY <1>1 DEF CountRerecord, Movies

(* VBAMovieSwitchToRecording keeps the inputs and the position and brings  *)
(* the file's position along.                                              *)
LEMMA SwitchToRecordingFacts ==
  ASSUME NEW m \in Movies, Active(m), CursorsAgree(m)
  PROVE  /\ VBAMovieSwitchToRecording(m) \in Movies
         /\ SameContent(m, VBAMovieSwitchToRecording(m))
         /\ Active(VBAMovieSwitchToRecording(m))
         /\ CursorsAgree(VBAMovieSwitchToRecording(m))
<1> DEFINE e == IF m.readOnly # 0 THEN VBAMovieToggleReadOnly(m) ELSE m
           c == CountRerecord(e)
<1>1. e \in Movies /\ SameContent(m, e) /\ e.ptr = m.ptr
  BY ToggleFacts DEF SameContent
<1> HIDE DEF e
<1>2. c \in Movies /\ SameContent(m, c) /\ c.ptr = m.ptr
  BY <1>1, CountRerecordFacts DEF SameContent, Movies, CanWrite
<1> HIDE DEF c
<1>3. c.ptr = Lesser(c.currentFrame, c.length)
  BY <1>2 DEF SameContent, CursorsAgree
<1>4. /\ Settle(c, "RECORD") \in Movies /\ SameContent(c, Settle(c, "RECORD"))
      /\ Active(Settle(c, "RECORD")) /\ CursorsAgree(Settle(c, "RECORD"))
  BY <1>2, <1>3, SettleFacts
<1>5. CASE VBAMovieAllowsRerecording(m)
  <2>1. VBAMovieSwitchToRecording(m) = Settle(c, "RECORD")
    BY <1>5 DEF VBAMovieSwitchToRecording, c, e
  <2> QED BY <1>2, <1>4, <2>1 DEF SameContent
<1>6. CASE ~VBAMovieAllowsRerecording(m)
  BY <1>6 DEF VBAMovieSwitchToRecording, SameContent
<1> QED BY <1>5, <1>6

(* change_state keeps the inputs and the position and leaves the cursors   *)
(* together, also when it resumes recording at the end of the movie.       *)
LEMMA ChangeStateFacts ==
  ASSUME NEW m \in Movies, NEW s \in {"PLAY", "RECORD", "END"},
         m.ptr = Lesser(m.currentFrame, m.length),
         s = "END" => m.currentFrame >= m.length
  PROVE  /\ change_state(m, s) \in Movies
         /\ SameContent(m, change_state(m, s))
         /\ Active(change_state(m, s))
         /\ CursorsAgree(change_state(m, s))
<1> DEFINE t == Settle(m, s)
           r == VBAMovieSwitchToRecording(t)
<1>1. t \in Movies /\ SameContent(m, t) /\ Active(t) /\ CursorsAgree(t)
  BY SettleFacts
<1>2. change_state(m, s) = t \/ change_state(m, s) = [r EXCEPT !.paused = TRUE]
  BY DEF change_state
<1> HIDE DEF t
<1>3. r \in Movies /\ SameContent(m, r) /\ Active(r) /\ CursorsAgree(r)
  BY <1>1, SwitchToRecordingFacts DEF SameContent
<1> HIDE DEF r
<1>4. LET p == [r EXCEPT !.paused = TRUE]
      IN p \in Movies /\ SameContent(m, p) /\ Active(p) /\ CursorsAgree(p)
  BY <1>3 DEF Movies, SameContent, Active, CursorsAgree, CanWrite
<1> QED BY <1>1, <1>2, <1>4

(* A change of state keeps a movie sound.                                  *)
LEMMA ChangeStateSound ==
  ASSUME NEW m \in Movies, NEW s \in {"PLAY", "RECORD", "END"},
         m.ptr = Lesser(m.currentFrame, m.length),
         s = "END" => m.currentFrame >= m.length,
         CanWrite(m) => FileAgrees(m)
  PROVE  Sound(change_state(m, s))
BY ChangeStateFacts DEF Sound, SameContent, FileAgrees

-----------------------------------------------------------------------------
(* The calls of one frame.                                                 *)

(* VBAMovieRead changes the buttons and the reset signal, and takes the    *)
(* buttons from the frame under the pointer.                               *)
LEMMA ReadFacts ==
  ASSUME NEW m \in Movies, m.state = "PLAY" => m.ptr < MaxFrames
  PROVE  /\ VBAMovieRead(m) \in Movies
         /\ VBAMovieRead(m) = [m EXCEPT !.pad = VBAMovieRead(m).pad,
                                        !.resetSignaled = VBAMovieRead(m).resetSignaled]
         /\ VBAMovieRead(m).pad = IF m.state = "PLAY" THEN m.buf[m.ptr].pad ELSE m.pad
<1>1. m.state = "PLAY" => m.buf[m.ptr] \in Frames
  BY MaxFramesAssumption DEF Movies, Idx
<1> QED BY <1>1 DEF VBAMovieRead, Movies, Frames

(* VBAMovieResetIfRequested changes the two reset flags only.              *)
LEMMA ResetIfRequestedFacts ==
  ASSUME NEW m \in Movies
  PROVE  /\ VBAMovieResetIfRequested(m) \in Movies
         /\ VBAMovieResetIfRequested(m) =
              [m EXCEPT !.resetSignaled = VBAMovieResetIfRequested(m).resetSignaled,
                        !.resetSignaledLast = VBAMovieResetIfRequested(m).resetSignaledLast]
BY DEF VBAMovieResetIfRequested, Movies

(* VBAMovieSignalReset changes the reset signal only.                      *)
LEMMA SignalResetFacts ==
  ASSUME NEW m \in Movies
  PROVE  /\ VBAMovieSignalReset(m) \in Movies
         /\ VBAMovieSignalReset(m) =
              [m EXCEPT !.resetSignaled = VBAMovieSignalReset(m).resetSignaled]
BY DEF VBAMovieSignalReset, Movies

(* VBAMovieWrite changes the frame under the pointer only.                 *)
LEMMA WriteFacts ==
  ASSUME NEW m \in Movies, m.ptr < MaxFrames
  PROVE  /\ VBAMovieWrite(m) \in Movies
         /\ VBAMovieWrite(m) = [m EXCEPT !.buf = VBAMovieWrite(m).buf]
         /\ VBAMovieWrite(m).buf[m.ptr].pad = m.pad
         /\ \A i \in Idx : i # m.ptr => VBAMovieWrite(m).buf[i] = m.buf[i]
<1> DEFINE f == [pad |-> m.pad, newReset |-> m.resetSignaled, oldReset |-> m.resetSignaledLast]
<1>1. m.ptr \in Idx /\ m.buf \in [Idx -> Frames]
  BY MaxFramesAssumption DEF Movies, Idx
<1>2. f \in Frames /\ f.pad = m.pad
  BY DEF Movies, Frames
<1>3. VBAMovieWrite(m) = [m EXCEPT !.buf[m.ptr] = f]
  BY DEF VBAMovieWrite
<1> HIDE DEF f
<1> QED BY <1>1, <1>2, <1>3 DEF Movies

(* What a recorded frame is in the buffer and in the file.                 *)
LEMMA RecordFrameFacts ==
  ASSUME NEW m \in Movies, Sound(m), m.state = "RECORD", m.currentFrame < MaxFrames,
         NEW u, u = VBAMovieUpdateState(m)
  PROVE  /\ Sound(u)
         /\ u.state = "RECORD"
         /\ u.currentFrame = m.currentFrame + 1
         /\ u.length = m.currentFrame + 1
         /\ u.uid = m.uid
         /\ CanWrite(u) = CanWrite(m)
         /\ u.buf[m.currentFrame].pad = m.pad
         /\ \A i \in Idx : i # m.currentFrame => u.buf[i] = m.buf[i]
<1>1. /\ m.currentFrame <= m.length /\ m.ptr = m.currentFrame /\ m.filePos = m.currentFrame
      /\ m.currentFrame \in 0 .. MaxFrames /\ m.length \in Nat
  BY DEF Sound, CursorsAgree, Active, Lesser, Movies
<1>2. m.currentFrame \in Idx /\ m.currentFrame + 1 \in 0 .. MaxFrames
  BY <1>1, MaxFramesAssumption DEF Idx
<1> DEFINE n == [m EXCEPT !.currentFrame = @ + 1]
           v == VBAMovieWrite(n)
           w == WriteFrame(v)
           x == [w EXCEPT !.length = n.currentFrame, !.ptr = @ + 1, !.recorded = TRUE]
<1>3. u = flush_movie_header(x)
  BY DEF VBAMovieUpdateState, RecordFrame
<1>4. n \in Movies /\ n.ptr = m.ptr /\ n.pad = m.pad /\ n.filePos = m.filePos /\ n.buf = m.buf
  BY <1>2 DEF Movies
<1>5. /\ v \in Movies /\ v = [n EXCEPT !.buf = v.buf]
      /\ v.buf[m.currentFrame].pad = m.pad
      /\ \A i \in Idx : i # m.currentFrame => v.buf[i] = m.buf[i]
  <2> HIDE DEF n
  <2>1. n.ptr < MaxFrames
    BY <1>1, <1>4
  <2> QED BY <1>1, <1>4, <2>1, WriteFacts
<1>6. /\ v.ptr = m.currentFrame /\ v.filePos = m.currentFrame /\ v.disk = m.disk
      /\ v.readOnly = m.readOnly /\ v.uid = m.uid /\ v.state = "RECORD"
      /\ v.currentFrame = m.currentFrame + 1
  <2> HIDE DEF v
  <2> QED BY <1>1, <1>5 DEF Movies
<1> HIDE DEF v
<1>7. /\ w \in Movies /\ w = [v EXCEPT !.filePos = v.filePos + 1, !.disk = w.disk]
      /\ w.disk.exists = m.disk.exists /\ w.disk.uid = m.disk.uid
      /\ CanWrite(m) => /\ w.disk.size >= m.currentFrame + 1
                        /\ w.disk.frames = [m.disk.frames EXCEPT ![m.currentFrame]
                                               = v.buf[m.currentFrame]]
  <2>1. v.filePos < MaxFrames /\ v.ptr < MaxFrames
    BY <1>1, <1>6
  <2>2. CanWrite(v) = CanWrite(m)
    BY <1>6 DEF CanWrite
  <2> QED BY <1>5, <1>6, <2>1, <2>2, WriteFrameFacts
<1> HIDE DEF w
<1>8. /\ w.buf = v.buf /\ w.filePos = m.currentFrame + 1 /\ w.ptr = m.currentFrame
      /\ w.readOnly = m.readOnly /\ w.uid = m.uid /\ w.state = "RECORD"
      /\ w.currentFrame = m.currentFrame + 1
  BY <1>5, <1>6, <1>7 DEF Movies
<1>9. n.currentFrame = m.currentFrame + 1
  BY DEF Movies
<1> HIDE DEF n
<1>10. /\ x \in Movies /\ x.buf = v.buf /\ x.ptr = m.currentFrame + 1 /\ x.uid = m.uid
       /\ x.filePos = m.currentFrame + 1 /\ x.currentFrame = m.currentFrame + 1
       /\ x.length = m.currentFrame + 1 /\ x.readOnly = m.readOnly /\ x.state = "RECORD"
       /\ x.disk = w.disk
  BY <1>2, <1>7, <1>8, <1>9 DEF Movies
<1> HIDE DEF x
<1>11. /\ u \in Movies /\ u = [x EXCEPT !.disk = u.disk]
       /\ u.disk.frames = w.disk.frames /\ u.disk.size = w.disk.size
       /\ u.disk.exists = m.disk.exists
       /\ CanWrite(m) => u.disk.uid = m.uid
  <2>1. CanWrite(x) = CanWrite(m)
    BY <1>10 DEF CanWrite
  <2> QED BY <1>3, <1>7, <1>10, <2>1, FlushHeaderFacts
<1>12. /\ u.buf = v.buf /\ u.ptr = m.currentFrame + 1 /\ u.uid = m.uid
       /\ u.filePos = m.currentFrame + 1 /\ u.currentFrame = m.currentFrame + 1
       /\ u.length = m.currentFrame + 1 /\ u.readOnly = m.readOnly /\ u.state = "RECORD"
  BY <1>10, <1>11 DEF Movies
<1>13. CursorsAgree(u) /\ CanWrite(u) = CanWrite(m)
  BY <1>1, <1>12 DEF CursorsAgree, Lesser, CanWrite
<1>14. ASSUME CanWrite(m) PROVE FileAgrees(u)
  <2>1. FileAgrees(m)
    BY <1>14 DEF Sound, Active
  <2>2. \A i \in Idx : i < m.currentFrame + 1 => u.disk.frames[i] = u.buf[i]
    <3> SUFFICES ASSUME NEW i \in Idx, i < m.currentFrame + 1
                 PROVE  u.disk.frames[i] = u.buf[i]
      OBVIOUS
    <3>1. CASE i = m.currentFrame
      BY <1>2, <1>7, <1>11, <1>12, <1>14, <3>1 DEF Movies, Disks
    <3>2. CASE i # m.currentFrame
      <4>1. i < m.length
        BY <1>1, <3>2 DEF Idx
      <4>2. m.disk.frames[i] = m.buf[i]
        BY <2>1, <4>1, FirstFramesShare, <1>1 DEF FileAgrees
      <4>3. u.disk.frames[i] = m.disk.frames[i]
        BY <1>7, <1>11, <1>14, <3>2 DEF Movies, Disks
      <4> QED BY <1>5, <1>12, <3>2, <4>2, <4>3
    <3> QED BY <3>1, <3>2
  <2>3. FirstFrames(u.disk.frames, u.length) = FirstFrames(u.buf, u.length)
    BY <1>1, <1>12, <2>2, FirstFramesEqual
  <2> QED BY <1>7, <1>11, <1>12, <1>14, <2>1, <2>3 DEF FileAgrees
<1>15. Sound(u)
  BY <1>11, <1>13, <1>14 DEF Sound
<1> QED BY <1>5, <1>12, <1>13, <1>15

(* A frame that is not recorded moves the position by one, leaves the      *)
(* inputs alone and a sound movie sound.                                   *)
LEMMA PlayFrameFacts ==
  ASSUME NEW m \in Movies, Sound(m), m.state \in {"PLAY", "END"}, m.currentFrame < MaxFrames,
         NEW u, u = VBAMovieUpdateState(m)
  PROVE  /\ Sound(u)
         /\ Active(u)
         /\ u.currentFrame = m.currentFrame + 1
         /\ u.length = m.length
         /\ u.buf = m.buf
         /\ u.uid = m.uid
         /\ CanWrite(u) = CanWrite(m)
<1>1. /\ m.ptr = Lesser(m.currentFrame, m.length)
      /\ m.state = "PLAY" => m.currentFrame < m.length
      /\ m.state = "END"  => m.currentFrame >= m.length
      /\ m.currentFrame \in 0 .. MaxFrames /\ m.length \in 0 .. MaxFrames
      /\ CanWrite(m) => FileAgrees(m)
  BY DEF Sound, CursorsAgree, Active, Movies
<1> DEFINE n == [m EXCEPT !.currentFrame = @ + 1]
           p == [n EXCEPT !.ptr = @ + 1]
<1>2. /\ n \in Movies /\ n.currentFrame = m.currentFrame + 1 /\ n.length = m.length
      /\ n.buf = m.buf /\ n.uid = m.uid /\ n.disk = m.disk /\ n.readOnly = m.readOnly
      /\ n.ptr = m.ptr /\ n.state = m.state
  BY <1>1, MaxFramesAssumption DEF Movies
<1>3. CASE m.state = "PLAY"
  <2>1. p = [n EXCEPT !.ptr = n.ptr + 1]
    OBVIOUS
  <2> HIDE DEF n
  <2>2. /\ p \in Movies /\ p.currentFrame = m.currentFrame + 1 /\ p.length = m.length
        /\ p.buf = m.buf /\ p.uid = m.uid /\ p.disk = m.disk /\ p.readOnly = m.readOnly
        /\ p.ptr = Lesser(p.currentFrame, p.length) /\ p.state = "PLAY"
    BY <1>1, <1>2, <1>3, <2>1, MaxFramesAssumption DEF Movies, Lesser
  <2> HIDE DEF p
  <2>3. CanWrite(p) = CanWrite(m) /\ (CanWrite(p) => FileAgrees(p))
    BY <1>1, <2>2 DEF CanWrite, FileAgrees
  <2>4. CASE p.currentFrame >= p.length
    <3>1. u = change_state(p, "END")
      BY <1>3, <2>4 DEF VBAMovieUpdateState, p, n
    <3> QED BY <2>2, <2>3, <2>4, <3>1, ChangeStateFacts, ChangeStateSound DEF SameContent
  <2>5. CASE ~(p.currentFrame >= p.length)
    <3>1. u = p
      BY <1>3, <2>5 DEF VBAMovieUpdateState, p, n
    <3>2. CursorsAgree(u) /\ Active(u)
      BY <1>1, <2>2, <2>5, <3>1 DEF CursorsAgree, Active
    <3> QED BY <2>2, <2>3, <3>1, <3>2 DEF Sound
  <2> QED BY <2>4, <2>5
<1>4. CASE m.state = "END"
  <2>1. u = change_state(n, "END")
    BY <1>4 DEF VBAMovieUpdateState
  <2> HIDE DEF n
  <2>2. n.ptr = Lesser(n.currentFrame, n.length) /\ n.currentFrame >= n.length
    BY <1>1, <1>2, <1>4 DEF Lesser
  <2>3. CanWrite(n) = CanWrite(m) /\ (CanWrite(n) => FileAgrees(n))
    BY <1>1, <1>2 DEF CanWrite, FileAgrees
  <2> QED BY <1>2, <2>1, <2>2, <2>3, ChangeStateFacts, ChangeStateSound DEF SameContent
<1> QED BY <1>3, <1>4

-----------------------------------------------------------------------------
(* Save states.                                                            *)

(* The movie part of a save state is well-formed.                          *)
LEMMA FreezeFacts ==
  ASSUME NEW m \in Movies
  PROVE  VBAMovieFreeze(m) \in Freezes
<1>1. m.buf \in [Idx -> Frames] /\ m.length \in Int
  BY MaxFramesAssumption DEF Movies
<1>2. FirstFrames(m.buf, m.length) \in [Idx -> Frames]
  BY <1>1, FirstFramesType
<1> QED BY <1>2 DEF VBAMovieFreeze, Freezes, Movies

(* So does the header of the new branch, before its inputs are written.    *)
LEMMA BranchHeaderType ==
  ASSUME NEW m \in Movies, NEW s \in Freezes
  PROVE  flush_movie_header(CountRerecord(Branch(m, s))) \in Movies
<1> DEFINE g == [i \in Idx |-> IF i < s.length THEN s.input[i] ELSE m.buf[i]]
<1>1. g \in [Idx -> Frames]
  BY DEF Movies, Freezes
<1>2. /\ s.currentFrame \in 0 .. MaxFrames /\ s.length \in 0 .. MaxFrames
      /\ Lesser(s.currentFrame, s.length) \in 0 .. MaxFrames
  BY DEF Freezes, Lesser
<1>3. Branch(m, s) = [m EXCEPT !.currentFrame = s.currentFrame, !.length = s.length,
                               !.recorded = TRUE, !.ptr = Lesser(s.currentFrame, s.length),
                               !.buf = g]
  BY DEF Branch, Movies
<1> HIDE DEF g
<1>4. Branch(m, s) \in Movies
  BY <1>1, <1>2, <1>3 DEF Movies
<1> QED BY <1>4, CountRerecordFacts, FlushHeaderFacts

(* Taking the inputs of the save state into an editable movie.             *)
LEMMA TakeFreezeEditable ==
  ASSUME NEW m \in Movies, Sound(m), Active(m), m.readOnly = 0,
         NEW s \in Freezes, s.uid = m.uid,
         NEW t, t = TakeFreeze(m, s)
  PROVE  /\ t \in Movies
         /\ t.ptr = Lesser(t.currentFrame, t.length)
         /\ CanWrite(t) => FileAgrees(t)
         /\ t.currentFrame = s.currentFrame
         /\ t.length = s.length
         /\ t.uid = m.uid
         /\ \A i \in Idx : i < s.length => t.buf[i] = s.input[i]
<1> DEFINE g == [i \in Idx |-> IF i < s.length THEN s.input[i] ELSE m.buf[i]]
           a == [m EXCEPT !.currentFrame = s.currentFrame, !.length = s.length,
                          !.recorded = TRUE, !.ptr = Lesser(s.currentFrame, s.length),
                          !.buf = g]
           c == CountRerecord(a)
           h == flush_movie_header(c)
<1>1. t = flush_movie_frames(h)
  BY DEF TakeFreeze, Branch, Movies
<1>2. g \in [Idx -> Frames] /\ \A i \in Idx : i < s.length => g[i] = s.input[i]
  BY DEF Movies, Freezes
<1>3. /\ s.currentFrame \in 0 .. MaxFrames /\ s.length \in 0 .. MaxFrames
      /\ Lesser(s.currentFrame, s.length) \in 0 .. MaxFrames
  BY DEF Freezes, Lesser
<1> HIDE DEF g
<1>4. /\ a \in Movies /\ a.currentFrame = s.currentFrame /\ a.length = s.length
      /\ a.ptr = Lesser(s.currentFrame, s.length) /\ a.buf = g /\ a.uid = m.uid
      /\ a.readOnly = 0 /\ a.disk = m.disk
  BY <1>2, <1>3 DEF Movies
<1> HIDE DEF a
<1>5. c \in Movies /\ c = [a EXCEPT !.rerecords = c.rerecords]
  BY <1>4, CountRerecordFacts
<1> HIDE DEF c
<1>6. /\ c.currentFrame = s.currentFrame /\ c.length = s.length
      /\ c.ptr = Lesser(s.currentFrame, s.length) /\ c.buf = g /\ c.uid = m.uid
      /\ c.readOnly = 0 /\ c.disk = m.disk
  BY <1>4, <1>5 DEF Movies
<1>7. /\ h \in Movies /\ h = [c EXCEPT !.disk = h.disk]
      /\ h.disk.exists = m.disk.exists /\ h.disk.uid = m.uid
  BY <1>5, <1>6, FlushHeaderFacts DEF CanWrite
<1> HIDE DEF h
<1>8. /\ h.currentFrame = s.currentFrame /\ h.length = s.length
      /\ h.ptr = Lesser(s.currentFrame, s.length) /\ h.buf = g /\ h.uid = m.uid
      /\ h.readOnly = 0
  BY <1>5, <1>6, <1>7 DEF Movies
<1>9. /\ t \in Movies /\ t = [h EXCEPT !.disk = t.disk]
      /\ t.disk.exists = m.disk.exists /\ t.disk.uid = m.uid /\ t.disk.size >= s.length
      /\ \A i \in Idx : i < s.length => t.disk.frames[i] = g[i]
  BY <1>1, <1>7, <1>8, FlushFramesFacts DEF CanWrite
<1>10. /\ t.currentFrame = s.currentFrame /\ t.length = s.length
       /\ t.ptr = Lesser(s.currentFrame, s.length) /\ t.buf = g /\ t.uid = m.uid
       /\ t.readOnly = 0
  BY <1>7, <1>8, <1>9 DEF Movies
<1>11. m.disk.exists
  BY DEF Sound, FileAgrees, CanWrite
<1>12. FirstFrames(t.disk.frames, t.length) = FirstFrames(t.buf, t.length)
  BY <1>3, <1>9, <1>10, FirstFramesEqual
<1>13. FileAgrees(t)
  BY <1>9, <1>10, <1>11, <1>12 DEF FileAgrees
<1> QED BY <1>2, <1>9, <1>10, <1>13

(* Moving the cursor of a read-only movie.                                 *)
LEMMA TakeFreezeReadOnly ==
  ASSUME NEW m \in Movies, Sound(m), Active(m), m.readOnly # 0,
         NEW s \in Freezes, UnfreezeCode(m, s) = "SUCCESS",
         NEW t, t = TakeFreeze(m, s)
  PROVE  /\ t \in Movies
         /\ t.ptr = Lesser(t.currentFrame, t.length)
         /\ CanWrite(t) => FileAgrees(t)
         /\ t.currentFrame = s.currentFrame
         /\ t.length = m.length
         /\ t.uid = m.uid
         /\ t.buf = m.buf
         /\ \A i \in Idx : i < s.currentFrame /\ i < m.length =>
              i < s.length /\ m.buf[i] = s.input[i]
<1>1. t = [m EXCEPT !.currentFrame = s.currentFrame, !.ptr = Lesser(s.currentFrame, m.length)]
  BY DEF TakeFreeze, MoveCursor
<1>2. /\ s.currentFrame \in 0 .. MaxFrames /\ m.length \in 0 .. MaxFrames
      /\ Lesser(s.currentFrame, m.length) \in 0 .. MaxFrames
  BY DEF Freezes, Movies, Lesser
<1>3. /\ t \in Movies /\ t.ptr = Lesser(t.currentFrame, t.length)
      /\ t.currentFrame = s.currentFrame /\ t.length = m.length /\ t.uid = m.uid
      /\ t.buf = m.buf /\ t.disk = m.disk /\ t.readOnly = m.readOnly
  BY <1>1, <1>2 DEF Movies
<1>4. CanWrite(t) => FileAgrees(t)
  BY <1>3 DEF Sound, FileAgrees, CanWrite
<1>5. \A i \in 0 .. HistoryLength(m, s) - 1 : m.buf[i] = s.input[i]
  BY DEF UnfreezeCode, SameHistory
<1>6. ASSUME NEW i \in Idx, i < s.currentFrame, i < m.length
      PROVE  i < s.length /\ m.buf[i] = s.input[i]
  <2>1. i \in 0 .. HistoryLength(m, s) - 1
    BY <1>2, <1>6 DEF HistoryLength, Lesser, Idx
  <2>2. s.length >= HistoryLength(m, s)
    BY DEF UnfreezeCode, SameHistory
  <2>3. s.length \in Int /\ HistoryLength(m, s) \in Int
    BY <1>2 DEF Freezes, HistoryLength, Lesser
  <2> QED BY <1>5, <2>1, <2>2, <2>3
<1> QED BY <1>3, <1>4, <1>6

(* A save state that VBAMovieUnfreeze accepts leaves a sound movie at the  *)
(* position of the save state, with the save state's inputs before it.     *)
LEMMA UnfreezeFacts ==
  ASSUME NEW m \in Movies, Sound(m), Active(m), NEW s \in Freezes,
         UnfreezeCode(m, s) = "SUCCESS", NEW stray \in BOOLEAN,
         NEW u, u = VBAMovieUnfreeze(m, s, stray)
  PROVE  /\ Sound(u)
         /\ Active(u)
         /\ u.currentFrame = s.currentFrame
         /\ u.uid = s.uid
         /\ \A i \in Idx : i < u.currentFrame /\ i < u.length =>
              i < s.length /\ u.buf[i] = s.input[i]
         /\ m.readOnly # 0 => u.length = m.length /\ u.buf = m.buf
<1> DEFINE t == TakeFreeze(m, s)
           c == change_state(t, "PLAY")
<1>1. s.uid = m.uid
  BY DEF UnfreezeCode, SameMovie
<1>2. /\ t \in Movies /\ t.ptr = Lesser(t.currentFrame, t.length)
      /\ CanWrite(t) => FileAgrees(t)
      /\ t.currentFrame = s.currentFrame /\ t.uid = m.uid
      /\ \A i \in Idx : i < t.currentFrame /\ i < t.length =>
           i < s.length /\ t.buf[i] = s.input[i]
      /\ m.readOnly # 0 => t.length = m.length /\ t.buf = m.buf
  BY <1>1, TakeFreezeEditable, TakeFreezeReadOnly
<1> HIDE DEF t
<1>3. /\ c \in Movies /\ SameContent(t, c) /\ Active(c) /\ CursorsAgree(c) /\ Sound(c)
  BY <1>2, ChangeStateFacts, ChangeStateSound
<1> HIDE DEF c
<1>4. PICK signaled \in BOOLEAN, last \in BOOLEAN :
        u = [c EXCEPT !.resetSignaled = signaled, !.resetSignaledLast = last]
  <2> DEFINE w == IF c.ptr > 0 THEN c.buf[c.ptr - 1].newReset ELSE stray
  <2>1. u = [c EXCEPT !.resetSignaled = FALSE,
                      !.resetSignaledLast = s.currentFrame > 0 /\ w]
    BY DEF VBAMovieUnfreeze, c, t
  <2>2. (s.currentFrame > 0 /\ w) \in BOOLEAN
    OBVIOUS
  <2> QED BY <2>1, <2>2
<1>5. /\ u \in Movies /\ u.currentFrame = c.currentFrame /\ u.length = c.length
      /\ u.buf = c.buf /\ u.uid = c.uid /\ u.disk = c.disk /\ u.readOnly = c.readOnly
      /\ u.state = c.state /\ u.ptr = c.ptr /\ u.filePos = c.filePos
  BY <1>3, <1>4 DEF Movies
<1>6. Active(u) /\ CursorsAgree(u) /\ (CanWrite(u) => FileAgrees(u))
  BY <1>3, <1>5 DEF Active, CursorsAgree, CanWrite, FileAgrees, Sound
<1>7. Sound(u)
  BY <1>5, <1>6 DEF Sound
<1> QED BY <1>1, <1>2, <1>3, <1>5, <1>6, <1>7 DEF SameContent

-----------------------------------------------------------------------------
(* Opening and closing.                                                    *)

(* Closing forgets the open movie and not its file.                        *)
LEMMA ForgetFacts ==
  ASSUME NEW m \in Movies
  PROVE  /\ Forget(m) \in Movies
         /\ ~Active(Forget(m))
         /\ Forget(m).disk = m.disk
<1> DEFINE zero == 0
           none == "NONE"
           a == [m EXCEPT !.state = none, !.currentFrame = zero, !.buf = ZeroBuffer,
                          !.readOnly = zero, !.length = zero]
           b == [a EXCEPT !.uid = m.disk.uid, !.rerecords = zero, !.recorded = FALSE,
                          !.ptr = zero, !.filePos = zero]
<1>1. /\ zero \in 0 .. MaxFrames /\ zero \in 0 .. RerecordModulus - 1 /\ zero \in 0 .. 2
      /\ none \in MovieStates /\ m.disk.uid \in Uids
  BY MaxFramesAssumption, RerecordModulusAssumption DEF Movies, Disks, MovieStates
<1>2. Forget(m) = b
  BY DEF Forget
<1>3. none = "NONE"
  OBVIOUS
<1> HIDE DEF zero, none
<1>4. a \in Movies /\ a.disk = m.disk /\ a.state = none
  BY <1>1, ZeroBufferType DEF Movies
<1> HIDE DEF a
<1>5. b \in Movies /\ b.disk = m.disk /\ b.state = none
  BY <1>1, <1>4 DEF Movies
<1> QED BY <1>2, <1>3, <1>5 DEF Active

(* After change_state(MOVIE_STATE_NONE) no movie is open.                  *)
LEMMA CloseFacts ==
  ASSUME NEW m \in Movies
  PROVE  /\ Close(m) \in Movies
         /\ ~Active(Close(m))
<1> DEFINE t == IF Active(m) THEN Forget(truncate_movie(m, m.length)) ELSE m
<1>1. m.length \in 0 .. MaxFrames
  BY DEF Movies
<1>2. t \in Movies /\ ~Active(t)
  BY <1>1, TruncateFacts, ForgetFacts
<1>3. Close(m) = [t EXCEPT !.pauseFrame = -1]
  BY DEF Close
<1> HIDE DEF t
<1> QED BY <1>2, <1>3, MaxFramesAssumption DEF Movies, Active

(* VBAMovieInit puts every cursor at the start.                            *)
LEMMA InitMovieFacts ==
  ASSUME NEW m \in Movies
  PROVE  /\ InitMovie(m) \in Movies
         /\ InitMovie(m).currentFrame = 0 /\ InitMovie(m).ptr = 0 /\ InitMovie(m).filePos = 0
         /\ InitMovie(m).disk = m.disk
<1> DEFINE zero == 0
           minus == -1
           a == [m EXCEPT !.pauseFrame = minus, !.currentFrame = zero, !.ptr = zero,
                          !.filePos = zero]
           b == [a EXCEPT !.buf = ZeroBuffer, !.resetSignaled = FALSE, !.resetSignaledLast = FALSE]
<1>1. InitMovie(m) = b
  BY DEF InitMovie
<1>2. zero = 0 /\ zero \in 0 .. MaxFrames /\ minus \in -1 .. MaxFrames
  BY MaxFramesAssumption
<1> HIDE DEF zero, minus
<1>3. a \in Movies /\ a.currentFrame = zero /\ a.ptr = zero /\ a.filePos = zero /\ a.disk = m.disk
  BY <1>2 DEF Movies
<1> HIDE DEF a
<1>4. b \in Movies /\ b.currentFrame = zero /\ b.ptr = zero /\ b.filePos = zero /\ b.disk = m.disk
  BY <1>3, ZeroBufferType DEF Movies
<1> QED BY <1>1, <1>2, <1>4

(* After VBAMovieStop no movie is open.                                    *)
LEMMA StopFacts ==
  ASSUME NEW m \in Movies
  PROVE  /\ VBAMovieStop(m) \in Movies
         /\ ~Active(VBAMovieStop(m))
BY CloseFacts DEF VBAMovieStop

(* The death of the process leaves no movie open and the file as it was.   *)
LEMMA CrashedFacts ==
  ASSUME NEW m \in Movies
  PROVE  /\ Crashed(m) \in Movies
         /\ ~Active(Crashed(m))
         /\ Crashed(m).disk = m.disk
<1> DEFINE f == Forget(InitMovie(m))
<1>1. f \in Movies /\ ~Active(f) /\ f.disk = m.disk
  BY InitMovieFacts, ForgetFacts
<1>2. Crashed(m) = [f EXCEPT !.pad = {}, !.paused = FALSE, !.skipRerecords = FALSE]
  BY DEF Crashed
<1> HIDE DEF f
<1> QED BY <1>1, <1>2 DEF Movies, Pads, Active

(* A movie that is opened starts at its first frame.                       *)
LEMMA OpenFacts ==
  ASSUME NEW m \in Movies, NEW readOnly \in BOOLEAN,
         NEW u, u = VBAMovieOpen(m, readOnly)
  PROVE  /\ Sound(u)
         /\ Active(u) => u.currentFrame = 0
<1> DEFINE z == Close(m)
           d == z.disk
           i == InitMovie(z)
           f == FirstFrames(d.frames, d.size)
           w == IF ~d.writable THEN 2 ELSE IF readOnly THEN 1 ELSE 0
           a == [i EXCEPT !.uid = d.uid, !.length = d.size, !.rerecords = d.rerecords]
           o == [a EXCEPT !.readOnly = w, !.recorded = FALSE, !.buf = f]
<1>1. z \in Movies /\ ~Active(z)
  BY CloseFacts
<1>2. u = IF d.exists THEN change_state(o, "PLAY") ELSE z
  <2>1. i \in Movies
    BY <1>1, InitMovieFacts
  <2> HIDE DEF i
  <2>2. [i EXCEPT !.uid = d.uid, !.length = d.size, !.rerecords = d.rerecords,
                  !.readOnly = w, !.recorded = FALSE, !.buf = f] = o
    BY <2>1 DEF Movies
  <2> QED BY <2>2 DEF VBAMovieOpen, i
<1> HIDE DEF z
<1>3. /\ i \in Movies /\ i.currentFrame = 0 /\ i.ptr = 0 /\ i.filePos = 0 /\ i.disk = d
  BY <1>1, InitMovieFacts
<1> HIDE DEF i
<1>4. d \in Disks
  BY <1>1 DEF Movies
<1> HIDE DEF d
<1>5. d.size \in 0 .. MaxFrames /\ d.frames \in [Idx -> Frames]
  BY <1>4 DEF Disks
<1>6. /\ f \in [Idx -> Frames]
      /\ \A j \in Idx : j < d.size => f[j] = d.frames[j]
  BY <1>5, FirstFramesType
<1> HIDE DEF f
<1>7. /\ a \in Movies /\ a.currentFrame = 0 /\ a.ptr = 0 /\ a.disk = d
      /\ a.uid = d.uid /\ a.length = d.size
  BY <1>3, <1>4 DEF Movies, Disks
<1> HIDE DEF a
<1>8. w \in 0 .. 2
  OBVIOUS
<1> HIDE DEF w
<1>9. /\ o \in Movies /\ o.currentFrame = 0 /\ o.ptr = 0 /\ o.disk = d
      /\ o.uid = d.uid /\ o.length = d.size /\ o.buf = f
  BY <1>6, <1>7, <1>8 DEF Movies
<1> HIDE DEF o
<1>10. CASE d.exists
  <2>1. u = change_state(o, "PLAY")
    BY <1>2, <1>10
  <2>2. FirstFrames(d.frames, d.size) = FirstFrames(f, d.size)
    BY <1>5, <1>6, FirstFramesEqual
  <2>3. FileAgrees(o)
    BY <1>5, <1>9, <1>10, <2>2 DEF FileAgrees
  <2>4. o.ptr = Lesser(o.currentFrame, o.length)
    BY <1>5, <1>9 DEF Lesser
  <2> QED BY <1>9, <2>1, <2>3, <2>4, ChangeStateFacts, ChangeStateSound DEF SameContent
<1>11. CASE ~d.exists
  BY <1>1, <1>2, <1>11 DEF Sound
<1> QED BY <1>10, <1>11

(* VBAMovieCreate leaves a sound movie at its first frame, or none.        *)
LEMMA CreateFacts ==
  ASSUME NEW m \in Movies, NEW uid \in Uids,
         NEW u, u = VBAMovieCreate(m, uid)
  PROVE  /\ Sound(u)
         /\ Active(u) => u.currentFrame = 0
<1> DEFINE z == Close(m)
           d == [z.disk EXCEPT !.exists = TRUE, !.uid = uid, !.length = 0,
                               !.rerecords = 0, !.size = 0, !.frames = ZeroBuffer]
           i == InitMovie(z)
           a == [i EXCEPT !.uid = uid, !.length = 0, !.rerecords = 0]
           zero == 0
           n == [a EXCEPT !.readOnly = zero, !.recorded = TRUE, !.disk = d]
<1>1. z \in Movies /\ ~Active(z)
  BY CloseFacts
<1>2. u = IF m.disk.writable \/ ~m.disk.exists THEN change_state(n, "RECORD")
                                              ELSE VBAMovieStop(m)
  <2>1. i \in Movies
    BY <1>1, InitMovieFacts
  <2> HIDE DEF i
  <2>2. [i EXCEPT !.uid = uid, !.length = 0, !.rerecords = 0,
                  !.readOnly = 0, !.recorded = TRUE, !.disk = d] = n
    BY <2>1 DEF Movies
  <2> QED BY <2>2 DEF VBAMovieCreate, i
<1>3. 0 \in 0 .. MaxFrames /\ 0 \in 0 .. RerecordModulus - 1
  BY MaxFramesAssumption, RerecordModulusAssumption
<1>4. d \in Disks /\ d.exists /\ d.uid = uid /\ d.size = 0 /\ d.frames = ZeroBuffer
  <2>1. z.disk \in Disks
    BY <1>1 DEF Movies
  <2> QED BY <1>3, <2>1, ZeroBufferType DEF Disks
<1> HIDE DEF d, z
<1>5. /\ i \in Movies /\ i.currentFrame = 0 /\ i.ptr = 0 /\ i.filePos = 0
  BY <1>1, InitMovieFacts
<1> HIDE DEF i
<1>6. /\ a \in Movies /\ a.currentFrame = 0 /\ a.ptr = 0 /\ a.uid = uid /\ a.length = 0
  BY <1>3, <1>5 DEF Movies
<1> HIDE DEF a
<1>7. /\ n \in Movies /\ n.currentFrame = 0 /\ n.ptr = 0 /\ n.uid = uid /\ n.length = 0
      /\ n.disk = d
  <2>1. zero \in 0 .. 2
    OBVIOUS
  <2> HIDE DEF zero
  <2> QED BY <1>4, <1>6, <2>1 DEF Movies
<1> HIDE DEF n
<1>8. FileAgrees(n)
  <2>1. FirstFrames(d.frames, 0) = FirstFrames(n.buf, 0)
    BY FirstFramesEqual DEF Idx
  <2> QED BY <1>4, <1>7, <2>1 DEF FileAgrees
<1>9. n.ptr = Lesser(n.currentFrame, n.length)
  BY <1>7 DEF Lesser
<1>10. CASE m.disk.writable \/ ~m.disk.exists
  BY <1>2, <1>7, <1>8, <1>9, <1>10, ChangeStateFacts, ChangeStateSound DEF SameContent
<1>11. CASE ~(m.disk.writable \/ ~m.disk.exists)
  BY <1>2, <1>11, StopFacts DEF Sound
<1> QED BY <1>10, <1>11

(* VBAMovieRestart leaves a sound movie at its first frame, or none.       *)
LEMMA RestartFacts ==
  ASSUME NEW m \in Movies, Active(m), NEW u, u = VBAMovieRestart(m)
  PROVE  /\ Sound(u)
         /\ Active(u) => u.currentFrame = 0
<1> DEFINE o == VBAMovieOpen(VBAMovieStop(m), m.readOnly # 0)
<1>1. Sound(o) /\ (Active(o) => o.currentFrame = 0)
  BY StopFacts, OpenFacts
<1>2. u = [o EXCEPT !.recorded = m.recorded]
  BY DEF VBAMovieRestart
<1> HIDE DEF o
<1>3. /\ u \in Movies /\ u.currentFrame = o.currentFrame /\ u.length = o.length
      /\ u.buf = o.buf /\ u.uid = o.uid /\ u.disk = o.disk /\ u.readOnly = o.readOnly
      /\ u.state = o.state /\ u.ptr = o.ptr /\ u.filePos = o.filePos
  BY <1>1, <1>2 DEF Movies, Sound
<1> QED BY <1>1, <1>3 DEF Sound, Active, CursorsAgree, CanWrite, FileAgrees

-----------------------------------------------------------------------------
(* The calls that leave inputs and position alone.                         *)

SameInputsAndPlace(m, n) ==
  /\ n.currentFrame = m.currentFrame
  /\ n.length = m.length
  /\ n.buf = m.buf
  /\ n.uid = m.uid

(* An edit of the fields that no cursor and no file depends on.            *)
LEMMA EditSound ==
  ASSUME NEW m, Sound(m), NEW n \in Movies, SameContent(m, n),
         n.state = m.state, n.ptr = m.ptr, n.filePos = m.filePos
  PROVE  Sound(n) /\ (Active(n) <=> Active(m))
BY DEF Sound, Active, CursorsAgree, SameContent, FileAgrees

(* VBAMovieToggleReadOnly keeps an open movie sound, with its inputs and   *)
(* position.                                                               *)
LEMMA ToggleSound ==
  ASSUME NEW m, Sound(m), Active(m), NEW n, n = VBAMovieToggleReadOnly(m)
  PROVE  Sound(n) /\ Active(n) /\ SameInputsAndPlace(m, n)
<1>1. m \in Movies
  BY DEF Sound
<1> QED BY <1>1, ToggleFacts, EditSound DEF SameContent, SameInputsAndPlace

(* So does VBAMovieSwitchToPlaying.                                        *)
LEMMA SwitchToPlayingSound ==
  ASSUME NEW m, Sound(m), Active(m), NEW n, n = VBAMovieSwitchToPlaying(m)
  PROVE  Sound(n) /\ Active(n) /\ SameInputsAndPlace(m, n)
<1> DEFINE e == IF m.readOnly = 0 THEN VBAMovieToggleReadOnly(m) ELSE m
<1>1. m \in Movies /\ m.ptr = Lesser(m.currentFrame, m.length)
  BY DEF Sound, CursorsAgree
<1>2. e \in Movies /\ SameContent(m, e) /\ e.ptr = m.ptr /\ Sound(e) /\ Active(e)
  BY <1>1, ToggleFacts, ToggleSound DEF SameContent
<1>3. n = change_state(e, "PLAY")
  BY DEF VBAMovieSwitchToPlaying
<1> HIDE DEF e
<1>4. e.ptr = Lesser(e.currentFrame, e.length) /\ (CanWrite(e) => FileAgrees(e))
  BY <1>1, <1>2 DEF SameContent, Sound
<1> QED BY <1>2, <1>3, <1>4, ChangeStateFacts, ChangeStateSound DEF SameContent, SameInputsAndPlace

(* So does VBAMovieSwitchToRecording.                                      *)
LEMMA SwitchToRecordingSound ==
  ASSUME NEW m, Sound(m), Active(m), NEW n, n = VBAMovieSwitchToRecording(m)
  PROVE  Sound(n) /\ Active(n) /\ SameInputsAndPlace(m, n)
<1>1. m \in Movies /\ CursorsAgree(m)
  BY DEF Sound
<1> QED BY <1>1, SwitchToRecordingFacts DEF Sound, SameContent, SameInputsAndPlace, FileAgrees

(* So does VBAMovieFixHeader.                                              *)
LEMMA FixHeaderSound ==
  ASSUME NEW m, Sound(m), Active(m), NEW n, n = VBAMovieFixHeader(m)
  PROVE  Sound(n) /\ Active(n) /\ SameInputsAndPlace(m, n)
<1>1. m \in Movies
  BY DEF Sound
<1>2. /\ n \in Movies /\ n = [m EXCEPT !.disk = n.disk]
      /\ n.disk.frames = m.disk.frames /\ n.disk.size = m.disk.size
      /\ n.disk.exists = m.disk.exists /\ (CanWrite(m) => n.disk.uid = m.uid)
  BY <1>1, FlushHeaderFacts DEF VBAMovieFixHeader
<1>3. /\ SameInputsAndPlace(m, n) /\ n.state = m.state /\ n.ptr = m.ptr
      /\ n.filePos = m.filePos /\ n.readOnly = m.readOnly
  BY <1>1, <1>2 DEF Movies, SameInputsAndPlace
<1> QED BY <1>2, <1>3 DEF Sound, Active, CursorsAgree, CanWrite, FileAgrees, SameInputsAndPlace

(* So does VBAMovieSetPauseAt.                                             *)
LEMMA SetPauseAtSound ==
  ASSUME NEW m, Sound(m), Active(m), NEW at \in -1 .. MaxFrames,
         NEW n, n = VBAMovieSetPauseAt(m, at)
  PROVE  Sound(n) /\ Active(n) /\ SameInputsAndPlace(m, n)
<1>1. m \in Movies
  BY DEF Sound
<1>2. /\ n \in Movies /\ SameContent(m, n)
      /\ n.state = m.state /\ n.ptr = m.ptr /\ n.filePos = m.filePos
  BY <1>1 DEF VBAMovieSetPauseAt, Movies, SameContent, CanWrite
<1> QED BY <1>2, EditSound DEF SameContent, SameInputsAndPlace
=============================================================================
