--------------------------- MODULE MoonshineWindow ---------------------------
(***************************************************************************)
(* The rolling window of the in-process caption engine                     *)
(* (transcribers/_moonshine_window.py): audio accumulates, the whole       *)
(* window is decoded again and again, the words two decodes agree on are   *)
(* committed to the one line of the connection, and a window past its      *)
(* length rolls over, keeping the audio of its end.                        *)
(* Time is counted in frames; the buffer is the sequence of its frames.    *)
(***************************************************************************)
EXTENDS Integers, Sequences, SequencesExt

CONSTANTS
  Chunk,         \* chunk_s
  Overlap,       \* overlap_s
  RefreshEvery   \* refresh_s

ASSUME WindowAssumption ==
  Chunk \in Nat \ {0} /\ Overlap \in Nat /\ RefreshEvery \in Nat \ {0}

(* line: whether the line exists; words: its committed text; count: how    *)
(* many words of this window's decode are committed; last, stitch: the     *)
(* previous decode of this window and the final one of the window before,  *)
(* <<>> for None; volatile: buffer_text.                                   *)
FreshWindow ==
  [buffer |-> <<>>, elapsed |-> 0, refreshedAt |-> 0, start |-> 0, line |-> FALSE,
   words |-> <<>>, count |-> 0, last |-> <<>>, stitch |-> <<>>, volatile |-> <<>>]

MinOf(a, b) == IF a <= b THEN a ELSE b

CommonPrefixLen(a, b) ==
  LET agree == {k \in 0 .. MinOf(Len(a), Len(b)) : SubSeq(a, 1, k) = SubSeq(b, 1, k)}
  IN  CHOOSE k \in agree : \A j \in agree : j <= k

Tail2(s, k) == SubSeq(s, Len(s) - k + 1, Len(s))   \* s[-k:]
From(s, k) == SubSeq(s, k + 1, Len(s))             \* s[k:]

(* Drop the longest prefix of a decode that ends the frozen window.        *)
StripOverlapPrefix(words, stitch) ==
  LET matching == {k \in 0 .. MinOf(Len(words), Len(stitch)) :
                     SubSeq(words, 1, k) = Tail2(stitch, k)}
  IN  From(words, CHOOSE k \in matching : \A j \in matching : j <= k)

FeedPcm(window, frame) ==
  [window EXCEPT !.buffer = Append(@, frame), !.elapsed = @ + 1]

RefreshDue(window) ==
  window.elapsed > window.refreshedAt /\ window.elapsed - window.refreshedAt >= RefreshEvery

(* Mutant: the line shows the latest decode instead of growing.            *)
RewriteWords(window, words) == [window EXCEPT !.words = words, !.count = Len(words)]

(* Committed words are appended to and never touched.                      *)
CommitWords(window, words) ==
  LET new == From(words, window.count)
  IN  [window EXCEPT !.words = @ \o new, !.count = @ + Len(new)]

(* The window is full: all of it is committed, and the new window begins   *)
(* with the audio of its end.                                              *)
RollOver(window, raw, words) ==
  LET keep == MinOf(Overlap, window.elapsed - window.start)
  IN  [CommitWords(window, words) EXCEPT
         !.stitch = raw, !.buffer = Tail2(@, keep), !.start = window.elapsed - keep,
         !.count = 0, !.last = <<>>, !.volatile = <<>>]

(* LocalAgreement-2.                                                       *)
Agree(window, words) ==
  LET agreed == CommonPrefixLen(window.last, words)
      now == IF window.last # <<>> /\ agreed > window.count
             THEN CommitWords(window, SubSeq(words, 1, agreed))
             ELSE window
  IN  [now EXCEPT !.volatile = From(words, now.count), !.last = words]

(* _refresh, of the words the engine hears in the buffer.                  *)
Refresh(window, raw) ==
  LET words == StripOverlapPrefix(raw, window.stitch)
      now == [window EXCEPT !.refreshedAt = window.elapsed, !.line = TRUE]
  IN  IF window.elapsed - window.start > Chunk THEN RollOver(now, raw, words)
      ELSE Agree(now, words)

CommitVolatile(window) ==
  [(IF window.count < Len(window.last) THEN CommitWords(window, window.last) ELSE window)
     EXCEPT !.volatile = <<>>]

(* close: one last decode if audio came after the last one, then all of it *)
(* is committed.                                                           *)
CloseWindow(window, raw) ==
  IF window.elapsed = 0 /\ ~window.line THEN window
  ELSE CommitVolatile(IF window.elapsed > window.refreshedAt THEN Refresh(window, raw) ELSE window)

=============================================================================
