------------------------- MODULE MCTranscriptCache -------------------------
(***************************************************************************)
(* A run over two models: the generalist, whose adapter folds the hotwords *)
(* into the prompt it records (mlx_whisper), and the Norwegian specialist. *)
(* What earlier runs left is where the behaviours start.                   *)
(***************************************************************************)
EXTENDS TranscriptCache

MCRegistry ==
  [m \in {"turbo", "nb"} |->
     [available |-> TRUE, contexts |-> {"batch"},
      languages |-> IF m = "nb" THEN {"no"} ELSE {"auto"},
      backends |-> <<[kinds |-> {"cpu"}, installed |-> TRUE]>>]]
MCSpecialists == [l \in {"no"} |-> "nb"]

Plain == <<"minutes", "none">>
Hot == <<"minutes", "tapscribe">>

(* Rule 1 drops what is said first; 9 matches nothing here.                *)
Request(force, meeting, ask, rules) ==
  [force |-> force, pin |-> NoLanguage, meeting |-> meeting, ask |-> ask, rules |-> rules]
MCRequests ==
  {Request(TRUE, <<"da", "no">>, Plain, {1}), Request(FALSE, <<"no">>, Hot, {}),
   Request(FALSE, <<"no">>, Plain, {1}), Request(FALSE, <<"no">>, Plain, {9})}

Old(m, sig) == Transcript(m, 1, 1, Plain, "no", sig, <<>>, <<1>>)
Empty == [m \in Models |-> NoEntry]

(* Nothing; a file that does not parse; a sidecar without the signature of *)
(* its rules; the two entries of an earlier run under rule 1, of which an  *)
(* operator picked the first.                                              *)
MCOldDisks ==
  {Laid(FALSE, NoEntry, Empty, "none"), Laid(FALSE, Corrupt, Empty, "none"),
   Laid(FALSE, Old("turbo", <<>>), Empty, "none"),
   Laid(TRUE, NoEntry, [m \in Models |-> Old(m, <<{1}>>)], "turbo")}

=============================================================================
