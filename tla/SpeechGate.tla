----------------------------- MODULE SpeechGate -----------------------------
(***************************************************************************)
(* The per-tap speech gate (speech_gate.py) and the streaming voice        *)
(* detector it asks (vad/silero.py, VadIterator): frames of 20 ms go in,   *)
(* and those of detected speech come out, led by what was just before it.  *)
(* A frame is a value; the buffered samples are counted in units of 128    *)
(* bytes, in which a frame is 5 and a window of the detector 8.            *)
(***************************************************************************)
EXTENDS Integers, Sequences, SequencesExt

(* The operator's knobs: gate_pre_roll_ms and gate_min_speech_ms in        *)
(* frames, gate_hangover_ms in windows of the detector.                    *)
Knobs == [preRoll : Nat, minSpeech : Nat, hangover : Nat]

FrameUnits == 5
WindowUnits == 8

(* What the model says of one window, against the threshold and the        *)
(* threshold less its hysteresis.                                          *)
Loudness == {"speech", "between", "quiet"}

FreshVad == [triggered |-> FALSE, quiet |-> 0]   \* quiet: windows since temp_end, itself included

(* VadIterator.__call__: the detector after one window, and the edge.      *)
VadStep(vad, hangover, loud) ==
  LET quiet == IF loud = "speech" THEN 0
               ELSE IF vad.quiet > 0 \/ (loud = "quiet" /\ vad.triggered) THEN vad.quiet + 1
               ELSE 0
  IN  IF loud = "speech" /\ ~vad.triggered
      THEN [vad |-> [triggered |-> TRUE, quiet |-> 0], event |-> "start"]
      ELSE IF loud = "quiet" /\ vad.triggered /\ quiet - 1 >= hangover
      THEN [vad |-> FreshVad, event |-> "end"]
      ELSE [vad |-> [vad EXCEPT !.quiet = quiet], event |-> "none"]

-----------------------------------------------------------------------------
(* A gate holds the ring of quiet frames, the frames of a candidate that   *)
(* has not lasted MinSpeech yet, and the detector.                         *)
FreshGate(knobs) ==
  [knobs |-> knobs, open |-> FALSE, ring |-> <<>>, samples |-> 0, pending |-> <<>>, vad |-> FreshVad]

(* deque(maxlen): appending drops the oldest.                              *)
Parked(gate, frames) ==
  LET all == gate.ring \o frames
      drop == Len(all) - gate.knobs.preRoll
  IN  [gate EXCEPT !.ring = SubSeq(all, 1 + (IF drop > 0 THEN drop ELSE 0), Len(all))]

RunsDetector(gate) == gate.samples + FrameUnits >= WindowUnits

(* The samples of one frame, and the detector's verdict if a window is     *)
(* full: at most one per frame.                                            *)
Sampled(gate, loud) ==
  IF RunsDetector(gate)
  THEN LET step == VadStep(gate.vad, gate.knobs.hangover, loud)
       IN  [gate |-> [gate EXCEPT !.samples = @ + FrameUnits - WindowUnits, !.vad = step.vad],
            event |-> step.event]
  ELSE [gate |-> [gate EXCEPT !.samples = @ + FrameUnits], event |-> "none"]

Held(gate) == [gate |-> gate, out |-> <<>>]

(* Mutant: the ring is not cleared when the gate opens.                    *)
ReleaseKeepsRing(gate, frames) ==
  [gate |-> [gate EXCEPT !.open = TRUE, !.pending = <<>>], out |-> gate.ring \o frames]

(* The gate opens: the ring goes first, then what was held.                *)
Release(gate, frames) ==
  [gate |-> [gate EXCEPT !.open = TRUE, !.ring = <<>>, !.pending = <<>>],
   out |-> gate.ring \o frames]

OnStart(gate, frame) ==
  IF gate.knobs.minSpeech = 0 THEN Release(gate, <<frame>>)
  ELSE Held([gate EXCEPT !.pending = <<frame>>])

(* A candidate that ends was a false alarm; an open gate closes and drops  *)
(* this frame.                                                             *)
OnEnd(gate, frame) ==
  IF gate.pending # <<>>
  THEN Held([Parked(gate, Append(gate.pending, frame)) EXCEPT !.pending = <<>>])
  ELSE IF gate.open THEN Held([gate EXCEPT !.open = FALSE])
  ELSE Held(Parked(gate, <<frame>>))

OnNothing(gate, frame) ==
  IF gate.open THEN [gate |-> gate, out |-> <<frame>>]
  ELSE IF gate.pending # <<>>
  THEN IF Len(gate.pending) + 1 >= gate.knobs.minSpeech
       THEN Release(gate, Append(gate.pending, frame))
       ELSE Held([gate EXCEPT !.pending = Append(@, frame)])
  ELSE Held(Parked(gate, <<frame>>))

(* SpeechGate.feed: the gate after a frame, and what goes to the relay.    *)
Feed(gate, frame, loud) ==
  LET heard == Sampled(gate, loud)
  IN  CASE heard.event = "start" /\ ~gate.open /\ gate.pending = <<>> -> OnStart(heard.gate, frame)
        [] heard.event = "end" -> OnEnd(heard.gate, frame)
        [] OTHER -> OnNothing(heard.gate, frame)

=============================================================================
