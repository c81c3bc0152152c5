---------------------------- MODULE SessionListing ----------------------------
(***************************************************************************)
(* The list of a session's WAVs on the dashboard: sessions.py describes    *)
(* the folder, the poll carries a digest of it (files_sig), and a tab      *)
(* fetches the list when the digest is one it has none for, and keeps it   *)
(* under that digest (lazy-resource.js).  The digest, the fetch and the    *)
(* changes of the folder are not ordered by anything.                      *)
(*                                                                         *)
(* One session, one tab.  The digest is taken for the tuple it is made of. *)
(* What a row shows of a transcript besides its stamp, and whether its WAV *)
(* is open, is not of the digest and left out.                             *)
(***************************************************************************)
EXTENDS Integers, Sequences, FiniteSets

CONSTANTS
  Recordings,   \* WAV -> its participant (speaker and ident of its name)
  Engines,      \* what transcribes
  Folders,      \* what the tab finds: folders
  MaxSize,      \* bound: of a WAV
  MaxChanges,   \* bound: changes of the folder
  MaxFires      \* bound: fetches fired

ASSUME ListingAssumption ==
  /\ {MaxSize, MaxChanges, MaxFires} \subseteq Nat
  /\ IsFiniteSet(Engines) /\ "" \notin Engines

(* A WAV of a folder and its transcripts.                                  *)
IsWav(wav) ==
  /\ wav = [size |-> wav.size, open |-> wav.open, made |-> wav.made, primary |-> wav.primary]
  /\ wav.size \in Nat /\ wav.open \in BOOLEAN
  /\ wav.made = [e \in DOMAIN wav.made |-> wav.made[e]] /\ DOMAIN wav.made \subseteq Engines
  /\ IF DOMAIN wav.made = {} THEN wav.primary = "" ELSE wav.primary \in DOMAIN wav.made

(* A stamp is the number of the change that set it, at most 1 and not 0    *)
(* for what was there before; no two transcripts of a WAV share one.       *)
Stamps(wav, latest) ==
  /\ \A e \in DOMAIN wav.made : wav.made[e] \in Int \ {0} /\ wav.made[e] <= latest
  /\ \A d, e \in DOMAIN wav.made : wav.made[d] = wav.made[e] => d = e

ASSUME FoldersAssumption ==
  \A f \in Folders :
    /\ f = [w \in DOMAIN f |-> f[w]] /\ DOMAIN f \subseteq DOMAIN Recordings
    /\ \A w \in DOMAIN f : IsWav(f[w]) /\ Stamps(f[w], 1)

VARIABLES
  folder,    \* WAV -> [size, open, made, primary]; made: engine -> stamp
  clips,     \* stripped/: clip -> the WAV it was cut from
  past,      \* what there was to show, one entry per change (history)
  blurred,   \* a poll walked the folder after a tap had opened or closed
             \* under it (history)
  polling,   \* <<>>, or the open WAVs a poll took along into its thread
  seen,      \* files_sig of the latest answer
  listings,  \* the tab's settled entries: digest -> rows
  fetches,   \* in flight: [sig, nth, rows], rows optional
  fires      \* the order of the latest fetch

wvars == <<folder, clips, past, blurred, polling, seen, listings, fetches, fires>>

Untouched == UNCHANGED <<blurred, polling, seen, listings, fetches, fires>>

-----------------------------------------------------------------------------
(* build_session_files: the rows.  A clip is shown by the WAV it was cut   *)
(* from; when that is gone, by each WAV of the same participant.           *)
Regions(f, c, w) ==
  {x \in DOMAIN c : \/ c[x] = w
                    \/ c[x] \notin DOMAIN f /\ Recordings[c[x]] = Recordings[w]}

Stamped(wav) == IF wav.primary = "" THEN 0 ELSE wav.made[wav.primary]

Rows(f, c) ==
  [w \in DOMAIN f |->
     [size |-> f[w].size, stamp |-> Stamped(f[w]),
      variants |-> {<<e, e = f[w].primary>> : e \in DOMAIN f[w].made},
      regions |-> Regions(f, c, w)]]

Size(row, masked) == IF masked THEN -1 ELSE row.size

(* Mutant: of the transcripts only the primary's stamp is digested.        *)
DigestOfPrimaries(rows, c, open) ==
  IF rows = <<>> /\ c = <<>> THEN <<>>
  ELSE <<[w \in DOMAIN rows |-> <<Size(rows[w], w \in open), rows[w].stamp, rows[w].regions>>], Cardinality(DOMAIN c)>>

(* _files_signature: the size of an open WAV does not count, so that the   *)
(* digest rests while it grows.                                            *)
Digest(rows, c, open) ==
  IF rows = <<>> /\ c = <<>> THEN <<>>
  ELSE <<[w \in DOMAIN rows |-> <<Size(rows[w], w \in open), rows[w].stamp, Cardinality(rows[w].variants),
                                  rows[w].regions>>],
         Cardinality(DOMAIN c)>>

(* open_wav_names                                                          *)
OpenWavs == {w \in DOMAIN folder : folder[w].open}

(* What there is to show, as far as a digest is meant to tell.             *)
Visible(rows, growing) ==
  [w \in DOMAIN rows |-> <<Size(rows[w], w \in growing), rows[w].stamp, rows[w].variants, rows[w].regions>>]

WInit ==
  /\ folder \in Folders /\ clips = <<>> /\ blurred = FALSE
  /\ past = <<Visible(Rows(folder, clips), OpenWavs)>>
  /\ polling = <<>> /\ seen = <<>>
  /\ listings = <<>> /\ fetches = {} /\ fires = 0

-----------------------------------------------------------------------------
(* The folder changes: taps, transcriptions, the primary, strips, deletes. *)
Version == Len(past) + 1

Changes(f, c) ==
  /\ Version <= MaxChanges + 1
  /\ folder' = f /\ clips' = c
  /\ past' = Append(past, Visible(Rows(f, c), {w \in DOMAIN f : f[w].open}))
  /\ Untouched

Having(f, x, value) == [y \in DOMAIN f \cup {x} |-> IF y = x THEN value ELSE f[y]]

With(w, wav) == Having(folder, w, wav)

TapOpens(w) ==
  /\ w \notin DOMAIN folder
  /\ Changes(With(w, [size |-> 0, open |-> TRUE, made |-> <<>>, primary |-> ""]), clips)

TapWrites(w) ==
  /\ w \in OpenWavs /\ folder[w].size < MaxSize
  /\ Changes(With(w, [folder[w] EXCEPT !.size = @ + 1]), clips)

(* A WAV without a frame goes with its tap.                                *)
TapCloses(w) ==
  /\ w \in OpenWavs
  /\ Changes(IF folder[w].size = 0 THEN [v \in DOMAIN folder \ {w} |-> folder[v]]
             ELSE With(w, [folder[w] EXCEPT !.open = FALSE]), clips)

TapReopens(w) ==
  /\ w \in DOMAIN folder \ OpenWavs
  /\ Changes(With(w, [folder[w] EXCEPT !.open = TRUE]), clips)

IsTranscribed(w, e) ==
  /\ w \in DOMAIN folder /\ folder[w].size > 0
  /\ Changes(With(w, [folder[w] EXCEPT !.made = Having(@, e, Version), !.primary = e]), clips)

IsRepointed(w, e) ==
  /\ w \in DOMAIN folder /\ e \in DOMAIN folder[w].made \ {folder[w].primary}
  /\ Changes(With(w, [folder[w] EXCEPT !.primary = e]), clips)

IsStripped ==
  LET cut == {w \in DOMAIN folder : folder[w].size > 0}
  IN  /\ cut # {}
      /\ Changes(folder, [x \in cut \X {Version} |-> x[1]])

IsCleared == clips # <<>> /\ Changes(folder, <<>>)

IsDeleted(w) ==
  /\ w \in DOMAIN folder \ OpenWavs
  /\ Changes([v \in DOMAIN folder \ {w} |-> folder[v]], clips)

-----------------------------------------------------------------------------
(* api_state: the open WAVs are taken on the loop, the folder is walked on *)
(* a thread (gather_sessions).                                             *)
PollStarts ==
  /\ polling = <<>> /\ polling' = <<OpenWavs>>
  /\ UNCHANGED <<folder, clips, past, blurred, seen, listings, fetches, fires>>

PollAnswers ==
  /\ polling # <<>> /\ polling' = <<>>
  /\ seen' = Digest(Rows(folder, clips), clips, polling[1])
  /\ blurred' = (blurred \/ polling[1] # OpenWavs)
  /\ UNCHANGED <<folder, clips, past, listings, fetches, fires>>

(* resolveFor, a tick of the view: a settled entry is shown, the empty     *)
(* digest is an answer itself, and what is neither there nor on its way is *)
(* fetched (what is shown meanwhile is left out).                          *)
Fetches ==
  /\ seen # <<>> /\ seen \notin DOMAIN listings \cup {r.sig : r \in fetches}
  /\ fires < MaxFires /\ fires' = fires + 1
  /\ fetches' = fetches \cup {[sig |-> seen, nth |-> fires', rows |-> <<>>]}
  /\ UNCHANGED <<folder, clips, past, blurred, polling, seen, listings>>

(* read_session_files, on a thread of its own.                             *)
FilesWalk(r) ==
  /\ r.rows = <<>>
  /\ fetches' = (fetches \ {r}) \cup {[r EXCEPT !.rows = <<Rows(folder, clips)>>]}
  /\ UNCHANGED <<folder, clips, past, blurred, polling, seen, listings, fires>>

Lands(r) ==
  /\ r.rows # <<>>
  /\ listings' = Having(listings, r.sig, r.rows[1])
  /\ fetches' = fetches \ {r}
  /\ UNCHANGED <<folder, clips, past, blurred, polling, seen, fires>>

(* A failed fetch leaves no entry; a later tick fires it again.            *)
FetchFails(r) ==
  /\ fetches' = fetches \ {r}
  /\ UNCHANGED <<folder, clips, past, blurred, polling, seen, listings, fires>>

WNext ==
  \/ \E w \in DOMAIN Recordings :
       \/ TapOpens(w) \/ TapWrites(w) \/ TapCloses(w) \/ TapReopens(w) \/ IsDeleted(w)
       \/ \E e \in Engines : IsTranscribed(w, e) \/ IsRepointed(w, e)
  \/ IsStripped \/ IsCleared
  \/ PollStarts \/ PollAnswers
  \/ Fetches
  \/ \E r \in fetches : FilesWalk(r) \/ Lands(r) \/ FetchFails(r)

-----------------------------------------------------------------------------
(* The folder went back to something it had shown before.                  *)
CameBack ==
  \E i, j, k \in 1..Len(past) : i < j /\ j < k /\ past[i] = past[k] /\ past[j] # past[k]

(* A list the tab keeps under the digest of the folder as it is shows the  *)
(* folder as it is, however fetches and changes overtook each other ("a    *)
(* cached files[] can't survive a real change", _files_signature).  Left   *)
(* out: a folder that came back to what it was, and may meet what was      *)
(* fetched in between; and a poll whose open WAVs were not those it walked *)
(* over (README, Known disagreements).                                     *)
ListingIsOfDisk ==
  LET now == Rows(folder, clips)
  IN  seen \in DOMAIN listings /\ seen = Digest(now, clips, OpenWavs) /\ ~CameBack /\ ~blurred
        => Visible(listings[seen], OpenWavs) = Visible(now, OpenWavs)
=============================================================================
