-------------------------------- MODULE Rtc --------------------------------
(* The clock of a Game Boy Advance cartridge, gba/RTC.cpp: a serial chip on    *)
(* three registers of the cartridge, of which one holds the pins SCK (1),     *)
(* SIO (2) and CS (4).  A bit goes over at the rise of SCK.  The command, the  *)
(* date and the time are kept as their bits, in the order they go over.        *)
EXTENDS Integers, Sequences

CONSTANTS MaxTime,             \* bound: how long the clock of the host runs
          DateBits, TimeBits,  \* 56 and 24
          ControlBits,         \* 8
          DateAt, TimeAt       \* the bits of the date and the time at each moment

ASSUME RtcAssumption ==
  /\ MaxTime \in Nat /\ {DateBits, TimeBits, ControlBits} \subseteq Nat \ {0}
  /\ DateAt \in [0 .. MaxTime -> [1 .. DateBits -> {0, 1}]]
  /\ TimeAt \in [0 .. MaxTime -> [1 .. TimeBits -> {0, 1}]]

VARIABLES byte0, byte1, byte2,
          rtcState, rtcBits, rtcCommand,
          rtcData,  \* the data to send, or as much as dataLen asks for
          now       \* what time() returns, or the time of the movie
rtcVars == <<byte0, byte1, byte2, rtcState, rtcBits, rtcCommand, rtcData>>

Pins == 0 .. 7
SCK(pins) == pins % 2
SIO(pins) == (pins \div 2) % 2

\* The commands, the highest bit first.
Stop       == <<0, 1, 1, 0, 0, 0, 0, 0>>  \* 0x60
SetControl == <<0, 1, 1, 0, 0, 0, 1, 0>>  \* 0x62
GetControl == <<0, 1, 1, 0, 0, 0, 1, 1>>  \* 0x63
GetDate    == <<0, 1, 1, 0, 0, 1, 0, 1>>  \* 0x65
GetTime    == <<0, 1, 1, 0, 0, 1, 1, 1>>  \* 0x67

RtcTypeOK ==
  /\ {byte0, byte1, byte2} \subseteq Pins
  /\ rtcState \in {"IDLE", "COMMAND", "DATA", "READDATA"}
  /\ rtcBits \in 0 .. 8 + DateBits + TimeBits + ControlBits
  /\ rtcCommand \in Seq({0, 1}) /\ rtcData \in Seq({0, 1}) /\ now \in 0 .. MaxTime

\* 0x40, whatever was set; the lowest bit first.
Control == [i \in 1 .. ControlBits |-> IF i = 7 THEN 1 ELSE 0]

rtcWriteEnable(value) ==
  /\ byte2' = value
  /\ UNCHANGED <<byte0, byte1, rtcState, rtcBits, rtcCommand, rtcData>>
rtcWriteDirection(value) ==
  /\ byte1' = value
  /\ UNCHANGED <<byte0, byte2, rtcState, rtcBits, rtcCommand, rtcData>>

\* CS rises while SCK is high: a command begins.
Begins(value) == rtcState = "IDLE" /\ byte0 = 1 /\ value = 5
rtcBegin(value) ==
  /\ Begins(value)
  /\ rtcState' = "COMMAND" /\ rtcBits' = 0 /\ rtcCommand' = <<>>
  /\ UNCHANGED <<byte0, byte1, byte2, rtcData>>

Rises(value) == ~Begins(value) /\ SCK(byte0) = 0 /\ SCK(value) = 1

rtcTakeCommand(value) ==
  /\ Rises(value) /\ rtcState = "COMMAND" /\ rtcBits < 7
  /\ byte0' = value /\ rtcBits' = rtcBits + 1
  /\ rtcCommand' = Append(rtcCommand, SIO(value))
  /\ UNCHANGED <<byte1, byte2, rtcState, rtcData>>

\* The last bit of a command.  The date and the time are those of this moment.
rtcHasCommand(value) ==
  /\ Rises(value) /\ rtcState = "COMMAND" /\ rtcBits = 7
  /\ byte0' = value /\ rtcBits' = 0
  /\ rtcCommand' = Append(rtcCommand, SIO(value))
  /\ rtcState' = CASE rtcCommand' = SetControl -> "READDATA"
                   [] rtcCommand' \in {GetControl, GetDate, GetTime} -> "DATA"
                   [] OTHER -> "IDLE"  \* Stop, unknown
  /\ rtcData' = CASE rtcCommand' \in {SetControl, GetControl} -> Control
                  [] rtcCommand' = GetDate -> DateAt[now]
                  [] rtcCommand' = GetTime -> TimeAt[now]
                  [] OTHER -> rtcData
  /\ UNCHANGED <<byte1, byte2>>

\* Mutant: the time is looked at when a bit of it is sent.
BitOfNow(value) ==
  /\ Rises(value) /\ rtcState \in {"DATA", "READDATA"}
  /\ SIO(byte1) = IF rtcState = "DATA" THEN 0 ELSE 1
  /\ byte0' = IF rtcState = "DATA"
                THEN value - 2 * SIO(value) + 2 * DateAt[now][rtcBits + 1]
                ELSE value
  /\ IF rtcBits + 1 = Len(rtcData)
       THEN rtcBits' = 0 /\ rtcState' = "IDLE"
       ELSE rtcBits' = rtcBits + 1 /\ UNCHANGED rtcState
  /\ UNCHANGED <<byte1, byte2, rtcCommand, rtcData>>

\* A bit of data, to the game or from it, if the direction of SIO is right.
rtcMoveData(value) ==
  /\ Rises(value) /\ rtcState \in {"DATA", "READDATA"}
  /\ SIO(byte1) = IF rtcState = "DATA" THEN 0 ELSE 1
  /\ byte0' = IF rtcState = "DATA"
                THEN value - 2 * SIO(value) + 2 * rtcData[rtcBits + 1] ELSE value
  /\ rtcData' = IF rtcState = "DATA" THEN rtcData
                  ELSE [rtcData EXCEPT ![rtcBits + 1] = SIO(value)]
  /\ IF rtcBits + 1 = Len(rtcData)
       THEN rtcBits' = 0 /\ rtcState' = "IDLE"
       ELSE rtcBits' = rtcBits + 1 /\ UNCHANGED rtcState
  /\ UNCHANGED <<byte1, byte2, rtcCommand>>

rtcSetPins(value) ==
  /\ ~Begins(value)
  /\ \/ ~Rises(value)
     \/ rtcState = "IDLE"
     \/ rtcState \in {"DATA", "READDATA"} /\
          SIO(byte1) # IF rtcState = "DATA" THEN 0 ELSE 1
  /\ byte0' = value
  /\ UNCHANGED <<byte1, byte2, rtcState, rtcBits, rtcCommand, rtcData>>

\* A write to the pins, if the chip is enabled.
rtcWritePins(value) ==
  \/ byte2 % 2 = 0 /\ UNCHANGED rtcVars
  \/ /\ byte2 % 2 = 1
     /\ \/ rtcBegin(value) \/ rtcTakeCommand(value) \/ rtcHasCommand(value)
        \/ rtcMoveData(value) \/ rtcSetPins(value)

rtcReset ==
  /\ byte0' = 0 /\ byte1' = 0 /\ byte2' = 0
  /\ rtcState' = "IDLE" /\ rtcBits' = 0 /\ rtcCommand' = <<>> /\ rtcData' = <<>>

\* The part of a save state that is the chip's.
rtcSaveGame == rtcVars
rtcReadGame(s) ==
  /\ byte0' = s[1] /\ byte1' = s[2] /\ byte2' = s[3] /\ rtcState' = s[4]
  /\ rtcBits' = s[5] /\ rtcCommand' = s[6] /\ rtcData' = s[7]
=============================================================================
