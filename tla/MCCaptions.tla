----------------------------- MODULE MCCaptions -----------------------------
(***************************************************************************)
(* Captions with the gates its runs build: one that opens at a start and   *)
(* closes at the first quiet window, one whose candidates may turn out     *)
(* false alarms, and one that never closes.                                *)
(***************************************************************************)
EXTENDS Captions

Knob(preRoll, minSpeech, hangover) ==
  [preRoll |-> preRoll, minSpeech |-> minSpeech, hangover |-> hangover]
MCGates == {Knob(1, 0, 0), Knob(2, 4, 1)}
MCOneGate == {Knob(1, 0, 9)}

=============================================================================
