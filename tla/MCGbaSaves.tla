----------------------------- MODULE MCGbaSaves -----------------------------
(* Values of the constants of GbaSaves for TLC: a clock that counts, and the   *)
(* blocks and commands that are tried.                                        *)
EXTENDS GbaSaves

LowBits(n, width) == [i \in 1 .. width |-> (n \div 2 ^ (i - 1)) % 2]
MCDateAt == [t \in 0 .. MaxTime |-> LowBits(t + 1, DateBits)]
MCTimeAt == [t \in 0 .. MaxTime |-> LowBits(t + 1, TimeBits)]
MCBlockData == {<<0, 0>>, <<1, 0>>}
MCRtcCommands == {SetControl, GetDate}
=============================================================================
