------------------------------- MODULE VoiceJoin -------------------------------
(***************************************************************************)
(* Who said what: the join of transcript segments with the Voices of a     *)
(* diarized tap (voice_join.py), and the merge that counts the result      *)
(* (session_merge.merge_session).  Pure operators.                         *)
(*                                                                         *)
(* Times are integers on one clock.  A segment is [start, end, words,      *)
(* unsure], a word [start, end], a span [label, start, end]; labels are    *)
(* numbers, in the order of the names they stand for, and None is the      *)
(* label of speech no Voice owns.                                          *)
(***************************************************************************)
EXTENDS Integers, SequencesExt, FiniteSetsExt

None == 0

Least(a, b) == IF a < b THEN a ELSE b
Most(a, b) == IF a > b THEN a ELSE b

Overlap(start, end, span) == Most(0, Least(end, span.end) - Most(start, span.start))

TotalOf(label, start, end, spans) ==
  FoldSet(LAMBDA s, sum : sum + Overlap(start, end, s), 0, {s \in spans : s.label = label})

(* How far the centre of a span is from an instant, doubled.               *)
FromCentre(span, t) == LET d == span.start + span.end - 2 * t IN IF d < 0 THEN -d ELSE d

(* _dominant: the label that overlaps most, summed over its spans; for an  *)
(* empty window the span around it whose centre is nearest.                *)
Dominant(start, end, spans) ==
  LET heard == {s.label : s \in {r \in spans : Overlap(start, end, r) > 0}}
      around == {s \in spans : s.start <= start /\ start <= s.end}
      Better(l, m) == LET a == TotalOf(l, start, end, spans) b == TotalOf(m, start, end, spans)
                      IN  a > b \/ (a = b /\ l >= m)
      Nearer(r, s) == LET a == FromCentre(r, start) b == FromCentre(s, start)
                      IN  a < b \/ (a = b /\ r.label <= s.label)
  IN  IF heard # {} THEN CHOOSE l \in heard : \A m \in heard : Better(l, m)
      ELSE IF end <= start /\ around # {}
      THEN (CHOOSE r \in around : \A s \in around : Nearer(r, s)).label
      ELSE None

(* _window, over what the segment and its words cover together.            *)
Window(seg, spans) ==
  LET lo == Min({seg.start} \cup {w.start : w \in Range(seg.words)})
      hi == Max({seg.end} \cup {w.end : w \in Range(seg.words)})
  IN  {s \in spans : s.end >= lo /\ s.start <= hi}

(* _word_runs: consecutive words of one Voice.                             *)
WordRuns(seg, spans) ==
  FoldLeft(LAMBDA runs, w :
             LET label == Dominant(w.start, w.end, spans)
             IN  IF runs # <<>> /\ Last(runs).label = label
                 THEN Front(runs) \o <<[label |-> label, words |-> Append(Last(runs).words, w)]>>
                 ELSE Append(runs, [label |-> label, words |-> <<w>>]),
           <<>>, seg.words)

(* Mutant: a boundary is taken as the words give it.                       *)
EdgesUnclamped(runs, start, end) ==
  Append(FoldLeft(LAMBDA edges, i :
                    Append(edges, (Last(runs[i].words).end + runs[i + 1].words[1].start) \div 2),
                  <<start>>, [i \in 1..Len(runs) - 1 |-> i]), end)

(* Between two runs the edge is the middle of the pause, never before the  *)
(* last edge nor after the end of the segment.                             *)
Edges(runs, start, end) ==
  Append(FoldLeft(LAMBDA edges, i :
                    LET middle == (Last(runs[i].words).end + runs[i + 1].words[1].start) \div 2
                    IN  Append(edges, Least(Most(middle, Last(edges)), end)),
                  <<start>>, [i \in 1..Len(runs) - 1 |-> i]), end)

(* _tile                                                                   *)
Tile(runs, start, end) ==
  LET edges == Edges(runs, start, end)
  IN  [i \in 1..Len(runs) |->
         [start |-> edges[i], end |-> edges[i + 1], label |-> runs[i].label, words |-> runs[i].words]]

(* A segment as a whole: its own bounds and text.                          *)
Whole(seg, label) ==
  <<[start |-> seg.start, end |-> seg.end, label |-> label, words |-> seg.words]>>

AttributeRuns(seg, spans, runs) ==
  IF Len(runs) > 1 THEN Tile(runs, seg.start, seg.end)
  ELSE IF runs # <<>> /\ runs[1].label # None THEN Whole(seg, runs[1].label)
  ELSE Whole(seg, Dominant(seg.start, seg.end, spans))

AttributeAmong(seg, spans) ==
  AttributeRuns(seg, spans, IF spans = {} THEN <<>> ELSE WordRuns(seg, spans))

(* attribute_segment                                                       *)
AttributeSegment(seg, spans) == AttributeAmong(seg, IF spans = {} THEN {} ELSE Window(seg, spans))

(* A segment decoded with little confidence counts once.                   *)
Unsure(segs, spans) == Cardinality({i \in 1..Len(segs) : segs[i].unsure})

(* merge_session, of the segments of one tap: pieces in order of time, the *)
(* time each label spoke, and the quality badge.                           *)
Merged(pieces, unsure) ==
  [segments |-> SortSeq(pieces, LAMBDA p, q : p.start < q.start),
   speaking |-> [l \in {p.label : p \in Range(pieces)} |->
      FoldLeft(LAMBDA sum, p : sum + IF p.label = l THEN Most(0, p.end - p.start) ELSE 0, 0, pieces)],
   unsure   |-> unsure]

MergeSession(segs, spans) ==
  Merged(FlattenSeq([i \in 1..Len(segs) |-> AttributeSegment(segs[i], spans)]), Unsure(segs, spans))
=============================================================================
