----------------------------- MODULE ReplayLog -----------------------------
(***************************************************************************)
(* What re-recording promises, without files, cursors or states: a movie   *)
(* is a log of inputs, `hist' is what the machine has been fed since the   *)
(* movie began, and as far as both go they are the same.  Playing feeds    *)
(* the machine the next input of the log; recording replaces everything    *)
(* after what has been fed by the new input; a save state remembers both,  *)
(* and is loaded either as a position in the log (it must agree with it)   *)
(* or as a new branch.                                                     *)
(***************************************************************************)
EXTENDS Naturals, Sequences

CONSTANTS Input, Slots, Nothing

VARIABLES open, log, hist, saved

vars == <<open, log, hist, saved>>

Agree(h, l) == \A i \in 1 .. Len(h) : i <= Len(l) => h[i] = l[i]

Init ==
  /\ open = FALSE
  /\ log = <<>>
  /\ hist = <<>>
  /\ saved = [n \in Slots |-> Nothing]

Open ==
  /\ open' = TRUE
  /\ log' \in Seq(Input)
  /\ hist' = <<>>
  /\ UNCHANGED saved

Close ==
  /\ open' = FALSE
  /\ log' = <<>>
  /\ hist' = <<>>
  /\ UNCHANGED saved

Play ==
  /\ open
  /\ Len(hist) < Len(log)
  /\ hist' = Append(hist, log[Len(hist) + 1])
  /\ UNCHANGED <<open, log, saved>>

Record(p) ==
  /\ open
  /\ Len(hist) <= Len(log)
  /\ hist' = Append(hist, p)
  /\ log' = hist'
  /\ UNCHANGED <<open, saved>>

(* The machine runs on after the end of the movie.                         *)
RunOn(p) ==
  /\ open
  /\ Len(hist) >= Len(log)
  /\ hist' = Append(hist, p)
  /\ UNCHANGED <<open, log, saved>>

Save(n) ==
  /\ saved' = [saved EXCEPT ![n] = IF open THEN [log |-> log, hist |-> hist] ELSE Nothing]
  /\ UNCHANGED <<open, log, hist>>

Rewind(n) ==
  /\ open
  /\ saved[n] # Nothing
  /\ Agree(saved[n].hist, log)
  /\ hist' = saved[n].hist
  /\ UNCHANGED <<open, log, saved>>

Branch(n) ==
  /\ open
  /\ saved[n] # Nothing
  /\ hist' = saved[n].hist
  /\ log' = saved[n].log
  /\ UNCHANGED <<open, saved>>

Next ==
  \/ Open
  \/ Close
  \/ Play
  \/ \E p \in Input : Record(p) \/ RunOn(p)
  \/ \E n \in Slots : Save(n) \/ Rewind(n) \/ Branch(n)

Spec == Init /\ [][Next]_vars

(* The machine has been fed what the log says.                             *)
InStep == Agree(hist, log)
=============================================================================
