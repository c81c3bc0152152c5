----------------------------- MODULE LineRelay -----------------------------
(***************************************************************************)
(* What WlKRelay makes of the engine's answers (live_relay.py): every      *)
(* answer repeats all the lines of the connection, the last of which may   *)
(* still grow, and the words in flight; the relay says every word once,    *)
(* when its line is settled.                                               *)
(* A line is [key, text] with its (speaker, start) and its words; an       *)
(* answer is [lines, buffer, final], of which either of the first two may  *)
(* be missing: <<>>, or <<value>>.                                         *)
(***************************************************************************)
EXTENDS Integers, Sequences, SequencesExt

CONSTANTS
  Keys,             \* the (speaker, start) of the lines
  StableSnapshots   \* _TAIL_STABLE_SNAPSHOTS

ASSUME RelayAssumption == StableSnapshots \in Nat \ {0}

NoKey == "none"

FreshRelay ==
  [lines |-> <<>>, buffer |-> <<>>, emitted |-> [k \in Keys |-> <<>>], upto |-> 0,
   stableKey |-> NoKey, stableText |-> <<>>, stableCount |-> 0, settled |-> <<>>]

(* _consider_emit_line: the first time, or rewritten, all of a line; the   *)
(* new words of one that grew; nothing of a silence.                       *)
ConsiderEmitLine(relay, line) ==
  LET said == relay.emitted[line.key]
  IN  IF line.text = <<>> \/ line.text = said THEN relay
      ELSE [relay EXCEPT
              !.settled = @ \o (IF said # <<>> /\ IsPrefix(said, line.text)
                                THEN SubSeq(line.text, Len(said) + 1, Len(line.text))
                                ELSE line.text),
              !.emitted[line.key] = line.text]

EmitLines(relay, lines) == FoldLeft(LAMBDA r, line : ConsiderEmitLine(r, line), relay, lines)

(* _maybe_flush_stable_tail: the tail is said once that many snapshots in  *)
(* a row agree on it, with nothing in flight.                              *)
MaybeFlushStableTail(relay, lines) ==
  IF lines = <<>>
  THEN [relay EXCEPT !.stableKey = NoKey, !.stableText = <<>>, !.stableCount = 0]
  ELSE LET tail == Last(lines)
           same == tail.key = relay.stableKey /\ tail.text = relay.stableText
           count == IF tail.text = <<>> \/ relay.buffer # <<>> THEN 0
                    ELSE IF same THEN relay.stableCount + 1
                    ELSE 1
           tracked == [relay EXCEPT !.stableKey = tail.key, !.stableText = tail.text,
                                    !.stableCount = IF count > StableSnapshots THEN StableSnapshots ELSE count]
       IN  IF count >= StableSnapshots THEN ConsiderEmitLine(tracked, tail) ELSE tracked

(* One answer, as _consume reads it.                                       *)
Hear(relay, answer) ==
  LET buffered == IF answer.buffer = <<>> THEN relay
                  ELSE [relay EXCEPT !.buffer = answer.buffer[1]]
  IN  IF answer.lines = <<>> THEN buffered
      ELSE LET lines == answer.lines[1]
               upto == IF lines = <<>> THEN 0 ELSE Len(lines) - 1
               settled == EmitLines([buffered EXCEPT !.lines = lines],
                                    SubSeq(lines, relay.upto + 1, upto))
           IN  MaybeFlushStableTail(
                 [settled EXCEPT !.upto = IF upto > @ THEN upto ELSE @], lines)

(* _flush_tail, when the relay is closed: the lines of the last answer,    *)
(* then the words that were still in flight.                               *)
FlushTail(relay) ==
  LET settled == EmitLines(relay, relay.lines)
  IN  [settled EXCEPT !.settled = @ \o relay.buffer, !.buffer = <<>>]

=============================================================================
