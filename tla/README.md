# Specifications of vba-linux

vba-linux is VisualBoyAdvance with movie recording ("re-recording"), Lua scripting, an SDL front end and a
Java binding. Its own core logic is not the emulated hardware but the promise on top of it: a movie is a list
of button presses that, fed again to the deterministic machine, gives the same run again, however often the
player went back to a save state while recording it. This directory models that promise and the code that keeps
it; the only piece of the program in which threads meet (the sound driver); and the parts of the two emulated
machines that are more than a sequence of instructions: the clockworks that hand time to the devices and
interrupts to the CPU, the cartridges' bank registers, and the chips that keep what a game saves. TLC checks the
models on small instances and TLAPS proves the central invariants for every size.

All source lines below are relative to `src/src/`.

## 1. Inventory

| Component | State it keeps | Operations | Talks to |
|---|---|---|---|
| Movie, `common/movie.cpp` | global `Movie`: state, current frame, input buffer and pointer, `FILE`, header, read-only and recorded-in-this-session flags; two reset flags; the VBM file | open, create, stop, restart, read/write/update per frame, freeze/unfreeze, read-only toggle, switch to playing/recording, signal a reset, fix header | called by the frame loop once at each end of a frame, by save states, by the front end; writes `currentButtons` and the pause flag |
| Frame loop and save states, `gb/GB.cpp` (`gba/GBA.cpp` alike) | the machine, `newFrame`, `gbJoymask` | `gbEmulate`, `gbReset`, save/load state to file and to memory | calls the movie, the front end (`systemGetJoypad`, `VBAOnEnteringFrameBoundary`), the sound driver |
| SDL front end, `sdl/SDL.cpp` | buttons, auto-fire, pause, rewind ring, frame throttle | key events, tick/step, `systemGetJoypad` | drives all the others |
| Sound driver, `sdl/SoundSDL.cpp`, `sdl/RingBuffer.h` | ring, mutex, condition variable | `write` (emulator thread), `read` (SDL's audio thread), pause, resume, reset | frame loop; SDL |
| Lua, `common/lua-engine.cpp` | scripts, their save states | callbacks before/after a frame, `savestate.save/load` | save states, movie |
| JNI binding, `clojure/clojure.cpp` | none | tick, step, state to and from memory, memory access | front end, save states |
| Cartridge mappers, `gb/gbMemory.cpp` | bank registers, RAM enable, MBC3 clock | register writes, map update after a load | memory, save states |
| Game Boy timing and interrupts, `gb/GB.cpp` | LCD mode, LY, timer, serial port, IF and `gbInterrupt`, IE, HALT, H-blank DMA, speed | `gbEmulate`, register writes, `gbReset` | CPU, frame loop |
| GBA timing and interrupts, `gba/GBA.cpp` | slice counters, LCD, four timers, DMA channels, IE/IF/IME, halt and stop | `CPULoop2`, register writes, `CPUReset` | CPU, frame loop, movie |
| GBA save memories and RTC, `gba/EEprom.cpp`, `Flash.cpp`, `Sram.cpp`, `RTC.cpp`, around them `GBA.cpp` and `SDL.cpp` | protocol states, memories, guessed save type, countdown, battery file | bit or byte writes and reads, reset, save, load, quit | memory, DMA, save states, front end |
| CPUs, graphics, sound synthesis, printer, SGB, cheats, debugger | registers, tables | - | memory |
| `lua/`, `SFMT/`, `filters/`, `common/unzip.cpp`, `memgzio.c` | - | - | third-party or pure input and output |

**How a frame runs.** The front end lets `gbEmulate` run between two of its own steps. At `newFrame`
(GB.cpp:3182) the movie supplies or the user gives the buttons (`VBAMovieRead`, `systemReadJoypads`), a
requested reset is performed and the machine takes its buttons; at V-blank (GB.cpp:3418) `VBAMovieUpdateState`
counts the frame and, when recording, writes it: buffer, file, header. A save state holds the machine and the
movie's position *and inputs*. Loading overwrites the machine first and asks the movie afterwards; a refusal is
answered by loading a backup (for files) or not at all (for memory states).

**What is hard.** Three cursors (`currentFrame`, `inputBufferPtr`, the position of the `FILE`) are moved by
different functions; the movie changes state in the middle of a load or a frame, and re-enters `change_state`;
the file keeps an abandoned tail until it is closed; the process can die between any two writes; a load may
fail halfway; a reset is signalled in one frame, performed in the next and recorded at its end; callbacks run
on the wrong side of the frame boundary. In the sound driver: a bounded buffer with a mutex and a signal,
unprotected flags around them, and a ring whose size may be odd while samples come in pairs. In the clockworks: time
is handed out in pieces that end where the first of several devices is due, so that every device sees its event late
by something, and a request may come between any two of the places that look at it. In the save chips: a command is
many accesses, and a reset or a load may come between any two. The
hazards are listed with their lines in `PROJECT.json`, with the properties that watch them or the reason there are
none; section 4 has the smaller ones.

**What makes each component correct.** Movie: the cursors agree; the machine has been fed the movie; the file holds the
recording at all times; read-only means read-only; a loss of inputs is counted as a re-record (unless a script asked for
it not to be). Save states: a refused load changes nothing. Sound: order, pairing, no lost signal, no writer asleep for
ever. Mappers: a loaded state maps the memory as the register writes that led to it did. Clockworks: every line is drawn
and takes its time, no interrupt is lost, frames go on, and a halted program wakes up. Save memories: what was written
is read back, also after a quit or a crash, and an aborted command leaves the memory alone.

## 2. The modules

| Module | Role |
|---|---|
| `MovieCode` | every modelled function of movie.cpp as an operator from a movie record to the next |
| `Rerecording` | EXTENDS it: frame loop, save states, front end, crashes; the properties |
| `ReplayLog` | the abstract specification of re-recording: a log, what was fed, branch or rewind |
| `MovieCodeProofs`, `RerecordingProofs` | lemmas about the operators; the inductive invariants, the theorems on states and on steps |
| `RerecordingRefinement` | `Rerecording` implements `ReplayLog` |
| `RingBuffer` | sdl/RingBuffer.h as functions of a record |
| `SoundSDL` | EXTENDS it: the two threads; the properties |
| `SampleQueue` | the abstract specification of the driver: a bounded queue |
| `SoundSDLProofs` | lemmas on the ring, the theorems on the driver, and that it implements `SampleQueue` |
| `Mappers` | the Game Boy cartridges' bank registers and memory windows (gb/gbMemory.cpp), reset, save, load; the properties |
| `MappersProofs` | lemmas on selecting banks; the inductive invariant and the theorems |
| `GameBoy` | the clockwork of the Game Boy (gb/GB.cpp): one action for each part of a call of `gbEmulate`; the properties |
| `GameBoyProofs` | its inductive invariant, one lemma per action, and the theorems |
| `GbaIo` | the clockwork of the GBA (gba/GBA.cpp, `CPULoop2`); the properties |
| `GbaIoProofs` | its inductive invariant in parts, the arithmetic of cascaded timers, and the theorems |
| `Flash`, `EEprom`, `Rtc` | the save chips and the clock, each with an action for every branch of its write and read |
| `SaveCounter` | the countdown to the battery file that the chips share |
| `GbaSaves` | EXTENDS the chips: games that use them, resets, save states, the battery file, quits and crashes; the properties |
| `MCGbaSaves` | its dates, blocks and commands for TLC |
| `GbaSavesProofs` | where each chip is after so many accesses of an order, one lemma per action, and the theorems |

There is one `.cfg` per run. It gives the constants their values directly, but for the functions and sequences of
`gba_saves`, which no `.cfg` can write and `MCGbaSaves` defines.

### MovieCode

The record `m` is the global `Movie` with its file (`m.disk`), the reset flags and the two front-end globals
that movie.cpp writes. An operator bears the name of the function it stands for and applies everything the
function changes, nested calls included. What needs a word:

- *Data.* One controller, so a frame is one record `[pad, newReset, oldReset]` and the byte offsets
  `bytesPerFrame * n` are the numbers `n`. A movie starts from a hard reset (not from a save state or SRAM).
  Of the header, `uid`, length and re-record count are kept.
- *change_state* (movie.cpp:331-504) is split into `Close` (to NONE) and `Settle`; `change_state` itself adds
  the resumption of recording at the end, whose inner call to `change_state` is a `Settle` because
  `VBAMovieSwitchToRecording` has just moved it away from the end's condition.
- *The file.* Writes to a `FILE` opened `"rb"` do nothing (`CanWrite`). `fflush` is taken to make data durable
  against the death of the process (not of the computer): stdio's buffer is empty whenever a function returns,
  because `flush_movie_header` seeks and flushes. Within a call the order of two writes matters:
  `CrashWhileWriting` stops `VBAMovieUpdateState` between them, `CrashWhileLoading` stops `VBAMovieUnfreeze`
  after the header with any number of the inputs written.
- *Re-records.* All three places that count (movie.cpp:1536, 1615 and the one in `VBAMovieSwitchToRecording`) ask
  `VBALuaRerecordCountSkip` first. What a script answers is `m.skipRerecords`, a field that only `SetSkipRerecords` changes.
- *Undefined reads.* `VBAMovieUnfreeze` reads the byte before the buffer when no frame precedes the cursor
  (movie.cpp:1563): `stray` is either value.

### Rerecording

The machine is deterministic; its state is represented by what it was fed since the movie began: one token per
frame. Two machines with equal tokens are the same machine, which is precisely what a replay relies on.
`FrameStart` and `FrameEnd` are the two calls of the frame loop, everything in between touches neither movie nor
buttons. The rest:

| Action | Code |
|---|---|
| `SaveState`, `LoadFile`, `LoadMemFails` | `gbWriteSaveState`, `gbReadSaveState` with its backup, `gbReadMemSaveState` when it fails |
| `SetButtons`, `Resume` | the user |
| `UserReset` | Ctrl-R: `emuReset(true)`, which while recording only signals the reset |
| `SetSkipRerecords` | `movie.rerecordcounting` of a Lua script, its start and its end |
| `OpenMovie`, `CreateMovie`, `StopMovie`, `RestartMovie`, `MovieCall` | the functions of movie.h and the reset they do |
| `Crash`, `CrashWhileWriting`, `CrashWhileLoading` | the process dies and is started again |

The front end's steps come between two frames (`newFrame`), as `step` and `sdlPollEvents` make them. There are
several next-state relations over the same actions, because several callers can be told apart:

- `Spec`: what the SDL front end of this repository does with a movie, and crashes.  Ctrl-R is part of it; how often it is
  pressed is bounded by `UserResets`.
- `SpecCrash`: `Spec` with a crash in the middle of loading a save state.
- `SpecUser`: the front end and the calls movie.h offers to a user interface besides, with crashes only in the middle of
  loading a save state.
- `SpecCalls`: all of these and the frame to pause at; the three others imply it (`RunsAreCalls`), and the theorems
  are about it.
- `SpecRewind`: with memory states that fail to load, which disagrees with what the code says of itself (section 4).

### SoundSDL

The emulator's thread is `writer`, SDL's audio thread `player`; each holds its place in the code. The mutex is
held while `writer = "filling"` and during the single step `Read`, which is everything `read` does under it.
The check of `emulating` (SoundSDL.cpp:42) comes before the mutex is taken and is `Callback`, so the flag may
be stale when `Read` happens. `SDL_CondWait` may wake up spuriously. A sample is its number in the stream
modulo `Numbers`; even ones are left, odd ones right.

### Mappers

One record `c` holds the registers of the mapper in use and the two windows they move: `rom` (entries 4 to 7 of
`gbMemoryMap`) and `ram` (entries 0xa and 0xb). A number is the set of its one bits, which makes `&` with a size mask an
intersection and `|` a union and leaves no arithmetic between the model and the prover. `Write` is a write below 0x8000
(`gbWriteMemoryWrapped` calls `mapper`), one `mapper...ROM` operator for each function of the code, early returns
included. `Reset` is gbReset's part for the cartridge, `Save` and `Load` that of the save states: the map is not saved
but rebuilt by `memoryUpdateMap...`. The addresses are one for each combination of bits that some mapper looks at.
Cartridges have a RAM, as their headers may say otherwise; for the mappers that check, a missing RAM only means that
the window stays.

### GameBoy

A call of `gbEmulate` is cut at its loops, and `pc` names the part that runs next: `"cpu"` an instruction or a wait of
the halted CPU (`Frame`, `Halted`, the actions of `Program`), `"tick"` the subtraction of `clockTicks` from the counters
of the devices (`Tick`), `"ly"` and `"lcd"` their turns until nothing is due (`VBlankLine`, the four ends of an LCD mode,
`ShiftBit`, `Count`), and the last turn `Interrupt`, which takes a request or none. Instructions are told apart by what
they do to the clockwork: `HALT`, `STOP`, the switches of interrupts (with which all other instructions are one action)
and a write to each register. `IFF`'s bits are the names `IME`, `EI` and `HALT`; requests are sets of bit numbers, and
`register_IF` and `gbInterrupt` are kept apart as in the code. `drawn` is a history variable: how many lines were drawn
since the V-blank, or -1 if that is not to be asked: after a switch of the LCD or a reset, and after a call that ran over
the end of the V-blank (`RunsOverVBlank`). A DMA's time is that of either value of `gbDMASpeedVersion` (which the movie's
version chooses; the model chooses at each DMA). HDMA5 starts at 0, and at 0xff (-1) on the Color model, as `gbReset` leaves
it. A halted CPU waits for the first device or less, because the sound (not modelled) may be first.

### GbaIo

The CPU runs a *slice* of `cpuLoopTicks` and then all devices get the slice's ticks at once (`updateLoop`). `pc` goes
through `"cpu"` (an instruction, a wait), `"lcd"`, `"timers"` and `"end"`, where ticks of a DMA are left over and the
loop goes back (`GoBack`), or an interrupt is noted (`InterruptComes`), taken (`CPUInterrupt`) or not there; it is
`"call"` between two calls, which end with a frame. Slices are as long as the code makes them from the devices'
counters, or shorter, since the sound may be first; a timer that is started within a slice may have been due already and
make the next one negative, as in the code. What a game uses is chosen at the start (`game`): the screen's registers, a
cascade of timers, a timer with an interrupt, DMA, Stop with the V-blank's interrupt, or Stop with a timer. A transfer
takes one of `DmaTicks` each time it is started (its length is the game's). Timer 0 keeps a cascade bit that is written to
it, which takes it out of the slices (GBA.cpp:537) and changes nothing else: it goes on counting ticks. With a prescaler
shorter than a slice its `timer0Ticks` then fall without bound, so a run must name the prescalers for which the bit is
written (`CascadePrescalers`); the proofs are for all. `timer[t]` and `dma[c]` are records of the globals with the
number in their names; a timer's value wraps as its 16 bits do. `inLine` and `counted` are history variables.

### Flash, EEprom, Rtc, GbaSaves

Each chip is a module with the state of its file and an action for each branch of its handler; what a chip does with an
access depends on the accesses before it. `GbaSaves` gives a cartridge one chip and a *game*: an order (`program` a
byte, erase, read a block, ask the clock ...) is a sequence of accesses (`Length` and `AccessOf`) that `Go` gives to the
chip one after the other through the dispatch of GBA.cpp (`cpuSaveGameFunc`, with `flashSaveDecide` guessing the chip).
Between any two accesses that are not of one DMA the user may reset, save or load a state, quit, crash, or let a frame
pass, whose countdown may write the battery file. `expected` and `saved` are what the orders should have left in the
chip and in the file. A battery file is its kind, its size and its contents; the bytes of the date are the bits of a
number.

## 3. The runs that pass

| Run | What it adds | Bounds | States |
|---|---|---|---|
| `core` | all of the front end: Lua's re-record switch, two movies, crashes in and between the calls that record, the file and the inputs, the refinement of `ReplayLog` | one button, 2 frames, two uids, one slot, re-record count modulo 3 | 798,000 |
| `calls` | one reset by the user, read-only toggle, switching, restart (`SpecUser`), a movie file with a recorded reset, crashes in the middle of a load | no button, 2 frames, one uid, files of 1 frame | 470,000 |
| `sound` | both threads, rings of 5 and 6 cells | blocks of 1 and 2 pairs, requests of 2 and 4 | 327,000 |
| `mappers` | all seven mappers, in one run | four bytes, a ROM of 512 banks, a RAM of 4, one slot | 79,000 |
| `gb_screen` | both models, both speeds, LCD and serial port switched, DMA of both kinds and both speed versions | 2 lines and 2 of V-blank, lines of 8 ticks, DMA of 1 and 2 blocks: 5, 10, 14 or 19 ticks | 7,400,000 |
| `gb_interrupts` | LCD, timer and button interrupts, HALT, and every register they depend on; liveness | 1 line and 2 of V-blank, IE for the V-blank or for LCD and timer | 779,000 |
| `gba_saves` | six chips, resets, states, quits, crashes; liveness | two cells, one byte, blocks of 2 bits, 2 and 4 blocks, two moments of time, two orders, three steps of the user | 340,000 |
| `gba_screen` | screen, one DMA channel, interrupts, Halt and Stop, with a timer too, both resets; liveness | lines of 4+1 ticks, one of each kind, transfers of 4 and 10 ticks (nearly a line, a frame) | 636,000 |
| `gba_timers` | two timers in cascade or with an interrupt; liveness | lines of 5+1 ticks, one of the screen and two of V-blank, timers that count to 3, prescalers 1 and 2, timer 0's cascade bit with prescaler 1 | 987,000 |

*Bounds.* `MaxFrames` bounds the length of a movie and every position. Two frames give a movie with a past and an
abandoned tail, whose end is met from both sides; the theorems of section 5 hold for movies of any length. One button
gives two different inputs; with none, frames differ by their resets. One slot is enough for a state to be older than,
newer than, or from another branch or another movie than the one that is open, because it outlives any number of
recordings and of movies. `RerecordModulus` stands for 2^32: 3 is small enough to wrap and large enough that a single
count is visible; where no property looks at the count it is 1. In `sound`, `Sizes = {4, 5}` give an even and an odd
ring, so that pairs straddle the end in one of them; blocks and requests are smaller than, equal to and together larger
than the ring. In `mappers` the bytes are 0 (made 1 by most), 1 (the model, the ninth bit of MBC5), 10 (the RAM gate)
and 0x84 (larger than every narrower register, with bits beyond the RAM); the ROM is the largest size there is, so that
the ninth bit counts. In the clockworks the lines, modes and timers keep their order and the inequalities the code
relies on (an instruction is shorter than a line, the lines of the V-blank together are as long as mode 1, a line of the
V-blank is as long as one of the screen; a general DMA may be shorter or longer than one line and than two); shorter
ones only mean that events meet more often. `gb_screen` and `gb_interrupts` share the registers between them,
`gb_screen` without interrupts and `gb_interrupts` with one model and speed, as both together would be too many states.
In `gba_saves` the unlock addresses and commands of the flash chip have their real values, so that a byte of data (170)
may look like a command; the address and data bits of the EEPROM are few but their lengths stay apart, which is how the
code tells the chips from each other. Two orders and three steps of the user are enough for save, order, load, quit and
for a reset or a crash in the middle of each.

*Deadlock* is checked in `sound`, `mappers` and the clockworks. `gba_saves` says `CHECK_DEADLOCK FALSE` because orders
and steps of the user are counted. The movie runs say `CHECK_DEADLOCK FALSE`: a movie that has reached `MaxFrames`
in a paused emulator may have nothing left to do, which is the bound and not the program.

*What the properties say.* Type invariants are checked in `core` and `gba_saves`; those of the sound driver, the mappers
and the clockworks are proved below. The movie: `InputsInStep` and `ResetsInStep` (what the machine was fed is what the
movie holds), `CursorInStep` (the three cursors), `DiskHoldsRecording`, `CrashKeepsRecording`, `CrashKeepsShared` and
`ClosedFileIsExact` (the file, at every moment, after a crash in or between calls, after a crash in the middle of a
load, after closing), `ReadOnlyKeepsInputs` and `LossIsCounted` (when inputs may go: only with the count, unless a
running script asked that nothing be counted), `FailedLoadKeepsPosition` (the backup), `RestartKeepsInputs`,
`OldResetMarksReset`. The driver: `ChannelsStayPaired`, `NoLostSignal`, `SleepsOnlyWhilePlaying`, `WriteReturns`
(liveness) and `PlaysInOrder` (refinement of `SampleQueue`). The mappers: `LoadRestoresMap` (the map computed after a
load is that of the save) and `BankIsSelected` (a write shows the bank it names, although the code returns early when
the register has the value: no reset or load may move a window behind the register's back). Both leave out what the code
does not do: MBC7, whose registers are neither reset nor saved (GB.cpp:1798, 2481), and ROMs of MBC1 and HuC1 that need
the high address.

The Game Boy's clockwork: `LinesInOrder` (two counters move LY and hand over at line 0: every line is drawn once, in all
frames but those whose V-blank one call runs over, as a long DMA can), `HdmaCountsAgree` (the two counts of a DMA),
`IfShowsRequests` (the two copies of the requests), `RequestsAreKept` (a request goes only by being taken, one at a
time), and, live, `FramesGoOn` and `HaltEnds`. `FramesGoOn` asks that the LCD stays on and nobody resets the machine
from some time on: without the LCD there are no V-blanks. The GBA's: `LinesKeepTime` (every line takes its ticks
wherever slices are cut), `CascadeIsOneCounter` (two timers are one counter of twice the width), and, live,
`FramesGoOn`, `InterruptsAreTaken`, `HaltEndsAtVBlank`, `HaltEndsAtTimer`. Its `FramesGoOn` asks that the game leaves
DISPCNT alone from some time on, since each write to it that ends a forced blank begins the line anew. It and
`InterruptsAreTaken` also ask for `LoopEnds`, as `updateLoop` is not left while ticks of a DMA remain (GBA.cpp:4434):
that from some time on no transfer takes as long as the line, or the V-blank, in which it is started again (`LongDMA`),
and that no CPU is stopped with a timer that is due already (`Overdue`). The run contains both kinds of games, and
without either hypothesis TLC finds each of the two properties violated. `HaltEndsAtTimer`
excepts timer 0 with its own cascade bit and a prescaler (section 4). The save chips: `MemoryIsExpected` (the chip
holds what the orders say and nothing else), `ReadsAreRight` (many accesses later, and for the clock one moment of
time), `QuitKeepsWhatIsSaved` (what reaches the battery file, so that type and size were remembered), and, live,
`OrdersEnd`.

*Refinements.* `ImplementsReplayLog` maps the first `length` frames of the buffer to the log and the tokens of the
completed frames to the history: every step of the program is opening, closing, playing, recording, running on,
saving, rewinding to a state that agrees with the log, or branching. `PlaysInOrder` maps the ring's content to a
queue: nothing is lost, doubled or reordered inside the stream; `speedup` and quitting drop ends of blocks only.

*Fairness.* In `sound`: weak fairness of the writer's steps, of the device's callback while it plays and
emulation is on, and strong fairness of `Read`: the writer may take and release the mutex again and again while the
audio thread waits for it, and the operating system's mutex lets it in eventually. The operating system schedules
both threads; SDL calls the callback whenever the device needs data. In the clockworks: weak fairness of the emulator's
own steps taken together (`gbEmulate`, `CPULoop2`), as the front end calls it again and again while the program runs;
what the game does with its turns is free, so none of the games' choices is assumed. In `gba_saves`: weak fairness of
`Go`, as the game is run by the same loop. Nothing the user does is assumed to happen.

Each property of each run has a mutant of the code (named above the definition it replaces) that breaks it.

## 4. Where the code and what it says of itself disagree

Each is a run that TLC ends with a counterexample.

| Run | The text | What happens |
|---|---|---|
| `rewind` | GB.cpp:2831, "Can't load a non-movie snapshot while a movie is active" | the memory variant refuses after the machine has been overwritten and has no backup |
| `user_reset` | movie.cpp:1246, a "soft-reset \"button\" for 1 frame if the game is reset while recording" | `gbEmulate` clears the signal of a user's reset at the start of the frame (GB.cpp:3228), so that `VBAMovieWrite` at its end records only the old button, which `VBAMovieRead` does not honour: the recording replays without the reset |
| `eeprom_reset` | GBA.cpp:66, the save type is "used to remember the save type on reset" | the size of the large EEPROM is not: a reset sets it to the small one, and a battery file written before the game's next access is cut to 512 bytes |

Seen while reading and not run. *In the movie:* after a crash, the length that `VBAMovieOpen` recalculates from the size
(movie.cpp:764) includes an abandoned tail, or a frame the header does not count yet; a crash before the first frame
leaves 0 as the file's offset of the inputs, which only the first flush writes (movie.cpp:1019); a load that is refused
loads its backup through the same code, which counts a re-record and makes recording resume (movie.cpp:1539, 447); a
reset at the last frame of playback is performed at the start of a frame that is recorded, and not recorded in it
(movie.cpp:1246); auto-fire is mixed in after the movie's copy of the buttons was taken (SDL.cpp:2911, 2969); a script
that saves a state in the V-blank, before the movie has counted the frame, saves a machine one frame ahead
(SDL.cpp:3677); a movie's uid is the time in seconds, so two of the same second accept each other's states
(movie.cpp:1503). Nothing in the repository makes the following calls: `VBAMovieSetMetadata` in a recording leaves the
file position behind the header (movie.cpp:1671); truncating beyond the end lengthens the movie (movie.cpp:1783); a
pause frame is looked at only when the state changes (movie.cpp:415); `VBAMovieSwitchToRecording` records into a file
that cannot be written (movie.cpp:1610); the read-only toggle does not stop a recording (movie.cpp:1368). *In the sound
driver:* the destructor destroys the mutex before it closes the device (SoundSDL.cpp:139). *In the mappers:* MBC7's
registers are neither reset nor saved and its map is rebuilt from MBC5's bank (gbMemory.cpp:802); MBC1's high address is
used by the writes if the model is 0 (gbMemory.cpp:35) and after a load if it is 1 (gbMemory.cpp:99); HuC1's is not used
after a load (gbMemory.cpp:894); MBC3's clock carries at 60 and 24 only when they are exceeded (gbMemory.cpp:227, 236),
and during a movie it is set from a variable that has no value (gbMemory.cpp:346). *In the Game Boy:* switching the LCD
resets LY without comparing it to LYC (GB.cpp:818); a general DMA of many blocks runs over the V-blank's end, where LY
is counted "at the same rate" (GB.cpp:3344) but forced to the counter's last line (GB.cpp:3356), and line 0 of that
frame is missed or LY counts on from it. *In the GBA:* the loop for the ticks of a DMA need not end (the FIXME at
GBA.cpp:4433 asks): a repeating H-blank DMA as long as a line, or a V-blank DMA as long as a frame, starts itself again
in its own ticks, and Stop with a timer that is due freezes the timer (GBA.cpp:4168) while the slices stay 0 or negative
(`FramesGoOn` without `LoopEnds` shows both); timer 0's own cascade bit takes it out of the slices and not out of what a
halted CPU waits for (GBA.cpp:3893), which with a prescaler shorter than a slice becomes 0 or less and is waited for
without end; a reset leaves `stopState` and `intState` as they were (GBA.cpp:3525), so that a game reset in stop mode
runs without timers; the ticks of a DMA that starts at once are overwritten at the end of the slice (GBA.cpp:3926); the
battery file is truncated before it is written (GBA.cpp:1103); a forced SRAM or flash does not set the type that writes
the file (GBA.cpp:3638), nor the one a save state keeps, so that after loading a state in the middle of a flash command
the next access finds out anew what chip there is, and takes it for SRAM (GBA.cpp:887); the flash chip's identifiers are
not in a save state (Flash.cpp:45); a first write to 0x0E005555 makes SRAM look like flash (Flash.cpp:142).

## 5. The proofs

`RerecordingProofs` proves, for every set of buttons, bound, set of uids, number of slots and modulus (the named
ASSUMEs of `MovieCode` and `Rerecording`; all that is assumed of the constants), that `SpecCalls`, which allows every
call of section 2 but failing memory loads, satisfies `TypeOK`, `CursorInStep`, `InputsInStep` and
`DiskHoldsRecording`; `RunsAreCalls` carries this over to the specifications the runs use.

None of these is inductive. `InputsInStep` speaks of the moments between two frames, so the invariant `IInv` says for
the moments inside a frame that the machine is one input ahead and which one it is (`FedInFrame`: the one being played,
or the one that will be recorded, which is why the buttons must not change before `VBAMovieWrite`). A load brings in
what a save state holds, so each save state must be in step with itself (`FrozenInStep`), for a movie that is long
closed as well. And a recorded frame lands at the same place in buffer and file only because the cursors agree, so
`Sound` (types, `CursorsAgree`, `FileAgrees`) is part of it. `MovieCodeProofs` has one or two lemmas per function: what
it keeps of a sound movie; `RerecordingProofs` has one per action and puts them together in `NextIInv`.

The read-only acceptance of a state (`SameHistory`) is where the proof needs the code's comparison: the fed inputs of
the state equal its own inputs, these equal the movie's as far as both go.

The rest of the module are the action properties. Four of them need no more than `IInv` and hold under `SpecCalls`:
`ClosedFileIsExact`, `CrashKeepsShared`, `FailedLoadKeepsPosition` and `RestartKeepsInputs`; `OldResetMarksReset` needs
that inside a frame a reset the movie will write down is one the machine was given (`LastResetInStep`). The other three
are about inputs that must not be lost, and are true only because of what the front end of this repository does, so they
are theorems of `Spec` or `SpecCrash`: through the user interface (`SpecCalls`) a recording can be made read-only or go
on before the end of the inputs. Their invariant `Mode` says that one records at the end of the inputs and into a
writable file, and that a movie that is read-only has not been recorded in this session and equals its file;
`ReadOnlyKeepsInputs` needs the last where the movie is opened over itself: it is closed and its inputs are read from
the file again. `CrashKeepsRecording` and `LossIsCounted` use the first. `NoSilentLoss` assumes a re-record counter of
more than two values, since one load may count two, and speaks of the steps at which no script has switched the count off.
`ResetsInStep` has an invariant of its own (`ResetInv`): between frames the history's resets are the movie's, inside a frame
one further, and so in every save state. It says nothing of a machine that the user has reset since the movie began
(`userResets`), whose resets are not in the movie (`user_reset`), and holds under `SpecCalls`.

`RerecordingRefinement` proves `SpecCalls => ImplementsReplayLog`: the log is the inputs up to `length`, the history the
inputs the machine was fed up to the current frame, and the saved pairs those of the slots. `IInv` says when the two
agree; each action then is one of the log's (a frame plays, records or runs on, a load rewinds or branches off) or
changes neither log nor history (`SameMapped`). The one further assumption, `NoLogAssumption`, is that the mark of an
empty slot is not itself a pair of log and history.

`SoundSDLProofs` proves for rings, blocks and requests of every size (requests even, which SDL's buffer is) `TypeOK`,
`NoLostSignal`, `SleepsOnlyWhilePlaying`, `ChannelsStayPaired` and `PlaysInOrder`. The strengthening `DriverInv` adds
that the rest of a block consists of whole pairs and that the device plays during the whole of a call of `write`; the
lemma `RoomMoves` is the arithmetic of positions that go round the ring. For the two others the ring is looked at as the
sequence of its contents: `WriteAppends` and `ReadTakes` say that a write appends to it and a read takes from its front,
once round the end or not. `PairsInv` adds to `DriverInv` that contents and rest of the block begin with a left sample
and that the fill of the ring is even, which the callback keeps only because requests are. With these lemmas
`NextIsQueue` has one step of the queue for each action.

`MappersProofs` proves for cartridges of every size and all bytes `TypeOK`, `LoadRestoresMap` and `BankIsSelected`. The
invariant `MapInv` says that registers and windows agree (`RomAgrees`, `RamAgrees`), in the machine and in every save
state; without the second, a load could bring in a disagreement. There is one lemma for each way to select a bank, and
`WrittenAgrees` has a case for each mapper.

`GameBoyProofs` proves for all lengths of lines, modes and instructions, all numbers of lines and bits and all values
written (`TicksAssumption`, `ValuesAssumption`) `TypeOK`, `HaltCanEnd`, `WaitIsPositive`, `HdmaCountsAgree`,
`IfShowsRequests`, `RequestsAreKept` and `LinesInOrder`. `WaitIsPositive` is the one that needs work: between two calls
every counter a halted CPU may wait for is positive, but inside a call counters are due, and which ones may still be
depends on `pc` and on the turns that have been. `Ahead` says for each counter at which `pc` it is positive, and that
the LCD's counter, while the CPU is halted, is never further behind than one line, so that the counter of the V-blank's
lines, which is served at most once in a call, starts ahead.

`LinesInOrder` is proved without a hypothesis on the timings. In the V-blank one counter runs to its end and another to
the next line (GB.cpp:3355), and LY must be back at 0 when the first ends. `LinesInv` keeps their distance: it is the number
of lines still to come, and once LY is 0 it is a whole line in the other direction, so that LY does not move again before
the mode ends. A call may be too long for that: in the code mode 1 has 1140 ticks, a line 114, a block of a general DMA 8,
and a DMA has up to 128 blocks (GB.cpp:1052). `RunsOverVBlank` says which calls of what length, begun where in the V-blank,
disturb the distance; the frame after one is not counted, and `TickKeepsLines` proves that no other call, of any length,
does harm. The run contains both kinds.

`GbaIoProofs` proves for all timings, moduli, prescalers, numbers of timers and channels, and everything a game may write,
`TypeOK`, `VBlankIsShown`, `LinesKeepTime` and `CascadeIsOneCounter`. The invariant's parts are one for each device
(`SliceOK`, `SwitchesOK`, `IrqOK`, `ScreenOK`, `TimersOK`, `DmaOK`), so that a step proves only those it changes. The
cascade needs more than arithmetic of two digits (`TwoDigits`): the first timer counts at most once in a turn because its
prescaler is not 1, whether its own cascade bit is set or not, and in that turn the second sees exactly its overflow.

`GbaSavesProofs` proves, for all cells, bytes, numbers of bits in an address, block, date and control register, numbers of
orders and steps of the user, `TypeOK`, `MemoryIsExpected`, `ReadsAreRight` and `QuitKeepsWhatIsSaved`. All four follow from
`Inv`, which is the chips' protocols seen from the game: when `done` accesses of `order` have been made, the chip is where
these bring it (`FlashStateAt` and `FlashReadStateAt`; `Idles`, `TakesAddress`, `TakesData`, `GivesDummies`, `GivesData` of
the EEPROM; `RtcRests`, `TakesCommand`, `TakesControl`, `TurnsRound`, `Answers` of the clock), it has received the bits
that were sent so far, and what the game has read is what the memory, or one moment of the clock, held. A reset ends the
game's order and puts the chip at rest; a load brings both back together, which is why the same is said of what a save
state holds (`InStep` twice); and a quit or a crash reads the battery file, of which `FileFits` says that it holds what
was expected when it was last written. There is a lemma for each branch of each handler (`FlashGo`, `SramGo`, `EEpromGo`
and `RtcGo` put them together), one for each step of the user, and `InStepStays` for those that leave the chip alone.
The hypothesis `NotForced`, that the user has not forced the type to SRAM or flash, is needed: with a forced type
`saveType` stays 0, and what section 4 says of a state loaded in the middle of a flash command makes the invariant false.
The EEPROM may be forced.

Only model-checked: liveness (`WriteReturns`, `FramesGoOn`, `HaltEnds`, `InterruptsAreTaken`, `HaltEndsAtVBlank`,
`HaltEndsAtTimer`, `OrdersEnd`) and ENABLED, which this prover does not reason about. What a recursive definition
computes for every input cannot be proved with the installed provers either; the modules have none.

## 6. Not modelled

By far the most lines of the repository are none of what these models are about, and restating them in TLA+ would show
nothing:

- *CPU interpreters* (gba/arm-new.h, thumb.h, gb/gbCodes.h): tables of sequential instructions; the models tell
  instructions apart by what they do to the clockwork.
- *Drawing, filters, sound synthesis* (gba/Mode*.cpp, Gfx, gbGfx, filters/, Sound): numeric functions of memory.
- *Third-party code* (lua/, SFMT/, unzip, getopt) and Lua's bindings: the latter call the functions of the other
  components; the moment at which scripts run is a hazard noted above.
- *Debugger, ELF reader, configuration, windows, cheats*: parsers, tables and input and output.

In the components that are modelled:

- *Movie*: conversion of old formats, `VBAMovieGetInfo`, metadata, movies that start from a save state or SRAM, more than
  one controller (the frames only get wider), truncating at the current frame (no caller).
- *SDL front end*: auto-fire, the frame throttle, the positions in the ring of rewind states.
- *Sound driver*: the destructor and `setThrottle`, which run before or after everything else.
- *Mappers*: the gate of the RAM on reads and writes, the latch and clock of MBC3 (in a movie it reads a variable without a
  value), the serial memory of MBC7, the registers of HuC3.
- *Game Boy*: DIV and the sound, which nothing here reads; the link cable; the packet timer of the SGB; save states of the
  clockwork.
- *GBA*: what a DMA copies and DMA to registers, sound FIFOs, save states of the clockwork, `useOldFrameTiming`; the sensor
  behind the EEPROM's addresses, in-game snapshots.

What would come next: the clock of MBC3 with its movie time, save states of the two clockworks, and proofs about the save
chips with a forced type.
