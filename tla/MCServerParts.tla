---------------------------- MODULE MCServerParts ----------------------------
(* ServerParts for TLC. *)
EXTENDS ServerParts, MCSetup

(* Two taps of one meeting share a display name, so a slug; one of them    *)
(* comes back in another meeting.                                          *)
MCTaps ==
  {[session |-> "s1", identity |-> "i", name |-> "Alex", slug |-> "Alex", mode |-> "multi", recorded |-> TRUE],
   [session |-> "s1", identity |-> "j", name |-> "Alex", slug |-> "Alex", mode |-> "single", recorded |-> TRUE],
   [session |-> "s2", identity |-> "i", name |-> "Alex", slug |-> "Alex", mode |-> "multi", recorded |-> TRUE]}

(* Two recordings of one participant: none there yet, or one that was      *)
(* transcribed.                                                            *)
MCRecordings == "a" :> "p" @@ "b" :> "p"
MCFolders ==
  {<<>>, "a" :> [size |-> 1, open |-> FALSE, made |-> "m" :> 1, primary |-> "m"]}

(* A segment of [2, 4] with up to two words, in and outside its bounds, a  *)
(* segment after it without words, and up to two spans of two Voices, or   *)
(* three with one word at most.                                            *)
Between(starts, ends) ==
  {w \in [start : starts, end : ends] : w.start <= w.end}
Words == Between({0, 2, 6}, {2, 4, 8})
Spans ==
  {[label |-> l, start |-> w.start, end |-> w.end] : l \in {1, 2}, w \in {v \in Words : v.start < v.end}}

JoinsOf(wordings, counts) ==
  {[segs |-> <<[start |-> 2, end |-> 4, words |-> words, unsure |-> TRUE],
               [start |-> 4, end |-> 6, words |-> <<>>, unsure |-> FALSE]>>,
    spans |-> spans] : words \in wordings,
     spans \in UNION {kSubset(k, Spans) : k \in counts}}

FewWords == {<<>>} \cup {<<w>> : w \in Words}
MCJoins ==
  JoinsOf(FewWords \cup {<<v, w>> : v, w \in Words}, 0..2) \cup JoinsOf(FewWords, {3})

(* A generalist and a specialist, each with one or two backends.           *)
Bindings == [kinds : {{"mlx"}, {"cuda", "cpu"}}, installed : BOOLEAN]
Entries ==
  [available : BOOLEAN, languages : {{"no", "auto"}}, contexts : {{"batch"}},
   backends : {<<b>> : b \in Bindings} \cup {<<b, c>> : b, c \in {d \in Bindings : d.installed}}]

MCCovers ==
  [registry : [{"generalist", "specialist"} -> Entries],
   machine : {{"cpu"}, {"cuda", "cpu"}, {"mlx", "cpu"}},
   languages : {<<"no">>, <<"da">>, <<"no", "da">>},
   generalist : {"generalist"},
   specialists : {"no" :> "specialist", "no" :> "generalist", "no" :> "gone",
                  ("no" :> "specialist") @@ ("da" :> "specialist")}]
=============================================================================
