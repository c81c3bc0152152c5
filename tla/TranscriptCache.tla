-------------------------- MODULE TranscriptCache --------------------------
(***************************************************************************)
(* The cached transcripts of one WAV (wav_cache.py): a transcribe run over *)
(* the models of the meeting's cover (batch_transcribe.py), an operator    *)
(* who repoints the primary from another thread, the hallucination rules   *)
(* both read, and the listings that overlap with all of it and memoise     *)
(* what they saw (sessions.py).                                            *)
(*                                                                         *)
(* A fingerprint (size, mtime_ns) is the number of times the WAV grew: a   *)
(* tap may resume it.  What a transcriber hears of version v is the        *)
(* segments 1..v; a rule is named after the segment it matches.  A writer  *)
(* takes one step per file operation; reads of one file are atomic, since  *)
(* every write replaces its file.  The process does not stop in between.   *)
(***************************************************************************)
EXTENDS LanguageCover, Integers

CONSTANTS
  Registry,      \* the catalog
  Specialists,   \* SPECIALIST_MODELS
  Generalist,    \* batch-model.txt
  Requests,      \* [force, pin, meeting, ask, rules]: what a run may find asked, ask
                 \* being <<prompt, hotwords>> and rules hallucinations.txt
  Constrained,   \* models whose adapter detects within a set of languages
  Folding,       \* models whose adapter records prompt and hotwords as one prompt
  Polls,         \* overlapping listings
  OldDisks,      \* sidecars that earlier runs, and earlier versions, left
  MaxVersion, MaxRuns, MaxPins   \* bounds

Models == DOMAIN Registry
None == "none"
NoEntry == [model |-> "none"]
Corrupt == [model |-> "corrupt"]

(* A sidecar that parses: fp is its fingerprint, heard the version the     *)
(* transcriber read, sig its rules_sig,                                    *)
Transcript(m, fp, heard, said, lang, sig, kept, dropped) ==
  [model |-> m, fp |-> fp, heard |-> heard, said |-> said, language |-> lang,
   sig |-> sig, kept |-> kept, dropped |-> dropped, text |-> kept]

(* The directory layout, or the legacy one.                                *)
Laid(dir, legacy, side, pointer) ==
  [dir |-> dir, legacy |-> legacy, side |-> side, pointer |-> pointer, newest |-> pointer]

(* What is heard of version v; those of a list that are in a set, in the   *)
(* order of the list.                                                      *)
Timeline(v) == [i \in 1..v |-> i]
Those(segments, S) ==
  FoldLeft(LAMBDA list, s : IF s \in S THEN Append(list, s) ELSE list, <<>>, segments)

(* hallucinations.apply: the segments no rule matches, and the others.     *)
Kept(segments, rs) == Those(segments, ToSet(segments) \ rs)
Dropped(segments, rs) == Those(segments, rs)

(* The two halves are what was heard, split by the rules rs; what is kept  *)
(* is in time order, and the text.                                         *)
SplitBy(e, rs) ==
  /\ ToSet(e.kept) = (1..e.heard) \ rs /\ ToSet(e.dropped) = (1..e.heard) \cap rs
  /\ \A i, j \in DOMAIN e.kept : i < j => e.kept[i] < e.kept[j]
  /\ e.text = e.kept

(* What earlier runs and versions leave: transcripts heard to the end of   *)
(* the WAV they are of, whose two halves are together the raw output (the  *)
(* premise of _refilter_cached), split by the rules they name if any; each *)
(* under its model, and in a directory at least one; what its pointer says *)
(* is left open.                                                           *)
IsTranscript(e) ==
  /\ e = [x \in DOMAIN Transcript(0, 0, 0, 0, 0, 0, 0, 0) |-> e[x]]
  /\ e.model \in Models /\ {e.fp, e.heard} \subseteq Nat /\ e.fp <= e.heard
  /\ {e.kept, e.dropped} \subseteq Seq(Nat) /\ IsInjective(e.dropped)
  /\ SplitBy(e, ToSet(e.dropped))
  /\ e.sig # <<>> => SplitBy(e, e.sig[1])

ASSUME DisksAssumption ==
  \A d \in OldDisks :
    /\ d = [x \in DOMAIN Laid(0, 0, 0, 0) |-> d[x]] /\ d.dir \in BOOLEAN
    /\ d.legacy \in {NoEntry, Corrupt} \/ (IsTranscript(d.legacy) /\ d.legacy.heard <= 1)
    /\ d.side = [m \in Models |-> d.side[m]]
    /\ \A m \in Models : d.side[m] # NoEntry =>
         IsTranscript(d.side[m]) /\ d.side[m].model = m /\ d.side[m].heard <= 1
    /\ IF d.dir THEN d.newest \in Models /\ d.side[d.newest] # NoEntry
       ELSE d.pointer = None /\ \A m \in Models : d.side[m] = NoEntry

(* The names that stand for nothing are no model's and no listing's.       *)
ASSUME NamesAssumption ==
  {"none", "corrupt"} \cap Models = {} /\ "memo" \notin Polls /\ Generalist \in Models

(* A meeting's languages are a list of codes.                              *)
ASSUME RequestsAssumption == \A q \in Requests : q.meeting \in Seq(STRING)

VARIABLES
  wav,    \* version of the WAV
  disk,   \* the WAV's sidecars
  memo,   \* what the WAV's row of _WAV_DESC_CACHE shows
  poll,   \* each listing inside _describe_wav
  key,    \* the key each listing took, and that of the memoised row
  job,    \* the transcribe run
  at,     \* where each writer is in its file operations
  model,  \* the entry each writer writes or points at
  moved,  \* the key under which each writer migrates the legacy sidecar
  count   \* how many runs and repointings there were

vars == <<wav, disk, memo, poll, key, job, at, model, moved, count>>

Writers == {"job", "operator"}
Resting == [at |-> "idle", marker |-> NoEntry]
NoJob ==
  [force |-> FALSE, ask |-> None, plan |-> None, rules |-> {}, todo |-> <<>>, got |-> <<>>,
   since |-> 0, fp |-> 0, language |-> NoLanguage, out |-> NoEntry, primary |-> FALSE]

Init ==
  /\ wav = 1
  /\ disk \in OldDisks
  /\ memo = <<>>
  /\ poll = [p \in Polls |-> Resting]
  /\ key = [r \in Polls \cup {"memo"} |-> "old"]
  /\ job = NoJob
  /\ at = [t \in Writers |-> "idle"]
  /\ model = [t \in Writers |-> Generalist]
  /\ moved = [t \in Writers |-> None]
  /\ count = [runs |-> 0, pins |-> 0]

-----------------------------------------------------------------------------
(* Reading the sidecars.                                                   *)

Entries(d) ==
  IF d.dir THEN {m \in Models : d.side[m] # NoEntry}
  ELSE IF d.legacy \in {NoEntry, Corrupt} THEN {} ELSE {d.legacy.model}

(* _primary_path_of: the pointer while it names an entry, else the newest. *)
Primary(d) ==
  IF Entries(d) = {} THEN None
  ELSE IF ~d.dir THEN d.legacy.model
  ELSE IF d.pointer \in Entries(d) THEN d.pointer
  ELSE d.newest

EntryOf(d, m) == IF d.dir THEN d.side[m] ELSE d.legacy

Marker(d) ==
  IF Primary(d) = None THEN NoEntry
  ELSE LET e == EntryOf(d, Primary(d))
       IN  [model |-> e.model, segments |-> Len(e.kept), heard |-> e.heard]

Listing(d) == {<<m, m = Primary(d)>> : m \in Entries(d)}

(* cache_signature with the WAV's own: of the layout and of its mtimes.    *)
(* Those only move forward, so all a reader can tell of a key it took is   *)
(* whether a file has been written since: then the key is "old".  A key of *)
(* the legacy layout comes back when its directory goes again.             *)
Signature(d) == IF d.dir THEN "dir" ELSE IF d.legacy # NoEntry THEN "legacy" ELSE "none"

Current(r) == key[r] = Signature(disk)

Touches == key' = [r \in DOMAIN key |-> IF key[r] = "dir" THEN "old" ELSE key[r]]

(* What a row with an outdated key shows is never served, and left out.    *)
Row(k, marker, listing) == IF k = "old" THEN <<>> ELSE <<marker, listing>>

-----------------------------------------------------------------------------
(* The hallucination filter.                                               *)

(* In time order; no segment is there twice.                               *)
Sorted(segments) ==
  CHOOSE t \in [DOMAIN segments -> ToSet(segments)] :
    ToSet(t) = ToSet(segments) /\ \A i, j \in DOMAIN t : i < j => t[i] < t[j]

(* Mutant: the rules are tried on what the last pass kept.                 *)
RefilterKept(e, rs) ==
  IF e.sig = <<rs>> THEN [entry |-> e, write |-> FALSE, primary |-> FALSE]
  ELSE [entry |-> [e EXCEPT !.sig = <<rs>>, !.kept = Kept(e.kept, rs), !.dropped = Dropped(e.kept, rs),
                            !.text = Kept(e.kept, rs)],
        write |-> TRUE, primary |-> TRUE]

(* _refilter_cached: the entry to serve, whether it is written back, and   *)
(* whether that write moves the pointer.                                   *)
Refilter(e, rs) ==
  LET raw == e.kept \o e.dropped
      kept == Kept(raw, rs)
      dropped == Dropped(raw, rs)
  IN  IF e.sig = <<rs>> THEN [entry |-> e, write |-> FALSE, primary |-> FALSE]
      ELSE IF kept = e.kept /\ dropped = e.dropped
      THEN [entry |-> [e EXCEPT !.sig = <<rs>>], write |-> TRUE, primary |-> FALSE]
      ELSE [entry |-> [e EXCEPT !.sig = <<rs>>, !.kept = Sorted(kept), !.dropped = Sorted(dropped),
                                !.text = Sorted(kept)],
            write |-> TRUE, primary |-> TRUE]

-----------------------------------------------------------------------------
(* The files change.                                                       *)

(* atomic_write_text makes the directory, and moves its mtime.             *)
Sidecar(d, m, e) == [d EXCEPT !.dir = TRUE, !.side[m] = e, !.newest = m]
PointAt(d, m) == [d EXCEPT !.dir = TRUE, !.pointer = m]

Moves(t, from, to) == at[t] = from /\ at' = [at EXCEPT ![t] = to]

(* _migrate_legacy_if_needed, up to its mkdir; a corrupt file may resist   *)
(* its removal.                                                            *)
CheckLayout(t) ==
  /\ \/ /\ disk.dir \/ disk.legacy = NoEntry
        /\ Moves(t, "migrate", "write")
        /\ UNCHANGED <<disk, moved>>
     \/ /\ ~disk.dir /\ disk.legacy = Corrupt
        /\ Moves(t, "migrate", "write")
        /\ disk' \in {disk, [disk EXCEPT !.legacy = NoEntry]}
        /\ UNCHANGED moved
     \/ /\ ~disk.dir /\ disk.legacy \notin {NoEntry, Corrupt}
        /\ Moves(t, "migrate", "mkdir")
        /\ moved' = [moved EXCEPT ![t] = disk.legacy.model]
        /\ UNCHANGED disk
  /\ UNCHANGED <<wav, memo, poll, key, job, model, count>>

MakeDir(t) ==
  /\ Moves(t, "mkdir", "move")
  /\ disk' = IF disk.dir THEN disk
             ELSE [disk EXCEPT !.dir = TRUE]
  /\ Touches
  /\ UNCHANGED <<wav, memo, poll, job, model, moved, count>>

(* The move, or the copy, succeeds.                                        *)
MoveLegacy(t) ==
  /\ Moves(t, "move", "repoint")
  /\ disk.legacy # NoEntry
  /\ disk' = [Sidecar(disk, moved[t], disk.legacy) EXCEPT !.legacy = NoEntry]
  /\ Touches
  /\ UNCHANGED <<wav, memo, poll, job, model, moved, count>>

(* Neither does: the directory goes again unless something is in it.  The  *)
(* copy may have been written when the legacy file resists its removal.    *)
MoveFails(t) ==
  /\ Moves(t, "move", "write")
  /\ \/ /\ disk' = IF disk.dir /\ Entries(disk) = {} /\ disk.pointer = None
                   THEN [disk EXCEPT !.dir = FALSE]
                   ELSE disk
        /\ UNCHANGED key
     \/ /\ disk.legacy # NoEntry
        /\ disk' = Sidecar(disk, moved[t], disk.legacy)
        /\ Touches
  /\ UNCHANGED <<wav, memo, poll, job, model, moved, count>>

PointMigrated(t) ==
  /\ Moves(t, "repoint", "write")
  /\ disk' = PointAt(disk, moved[t])
  /\ Touches
  /\ UNCHANGED <<wav, memo, poll, job, model, moved, count>>


-----------------------------------------------------------------------------
(* The transcribe run: one cached_transcribe per model of the cover.       *)

NextModel(t) == at' = [at EXCEPT ![t] = "next"]

(* The request is resolved and the rules are read, once for the run.       *)
StartRun ==
  /\ at["job"] = "idle" /\ count.runs < MaxRuns
  /\ \E q \in Requests :
       LET plan == LanguagePlan(q.pin, q.meeting)
       IN  job' = [NoJob EXCEPT !.force = q.force, !.ask = q.ask, !.plan = plan, !.rules = q.rules,
                                !.todo = CoverModels(plan.cover, Generalist, Specialists, Registry),
                                !.since = wav]
  /\ count' = [count EXCEPT !.runs = @ + 1]
  /\ NextModel("job")
  /\ UNCHANGED <<wav, disk, memo, poll, key, model, moved>>

(* What the adapter of m records of the prompt and the hotwords.           *)
Recorded(m, ask) ==
  IF m \in Folding /\ ask[2] # None THEN Append(ask, "folded") ELSE ask

(* detect_constrained_language: a candidate set is snapped to one language *)
(* before the cache is tried, by the adapters that can.                    *)
Snapped(m, plan) ==
  IF plan.pin # NoLanguage THEN {plan.pin}
  ELSE IF m \notin Constrained THEN {NoLanguage}
  ELSE IF FixedLanguage(Registry[m]) # NoLanguage
  THEN {IF Contains(plan.detect, FixedLanguage(Registry[m])) THEN FixedLanguage(Registry[m]) ELSE NoLanguage}
  ELSE ToSet(plan.detect)

(* _read_entry_for.                                                        *)
Existing(m) == IF m \in Entries(disk) THEN EntryOf(disk, m) ELSE NoEntry

(* Mutant: the prompt is not part of the match key.                        *)
MatchesAnyPrompt(e, lang) == e # NoEntry /\ e.fp = wav /\ e.language = lang
Matches(e, lang) ==
  e # NoEntry /\ e.fp = wav /\ e.language = lang /\ e.said = job.ask

(* The fingerprint is taken and the cache tried.                           *)
TryCache ==
  /\ at["job"] = "next" /\ job.todo # <<>>
  /\ LET m == Head(job.todo)
         e == Existing(m)
     IN  \E lang \in Snapped(m, job.plan) :
           /\ model' = [model EXCEPT !["job"] = m]
           /\ IF job.force \/ ~Matches(e, lang)
              THEN /\ job' = [job EXCEPT !.fp = wav, !.language = lang]
                   /\ at' = [at EXCEPT !["job"] = "hear"]
              ELSE LET r == Refilter(e, job.rules)
                   IN  IF r.write
                       THEN /\ job' = [job EXCEPT !.out = r.entry, !.primary = r.primary]
                            /\ at' = [at EXCEPT !["job"] = "migrate"]
                       ELSE /\ job' = [job EXCEPT !.got = Append(@, e), !.todo = Tail(@)]
                            /\ UNCHANGED at
  /\ UNCHANGED <<wav, disk, memo, poll, key, moved, count>>

(* The model reads the WAV at some moment of the call, and the filter runs *)
(* over what it heard.                                                     *)
Hear ==
  /\ Moves("job", "hear", "migrate")
  /\ \E v \in job.fp..wav :
       LET raw == Timeline(v)
       IN  job' = [job EXCEPT !.out = Transcript(model["job"], job.fp, v, Recorded(model["job"], job.ask),
                                                 job.language, <<job.rules>>,
                                                 Kept(raw, job.rules), Dropped(raw, job.rules)),
                              !.primary = TRUE]
  /\ UNCHANGED <<wav, disk, memo, poll, key, model, moved, count>>

(* _write_entry after its migration.                                       *)
WriteEntry ==
  /\ at["job"] = "write" /\ job.out # NoEntry
  /\ disk' = Sidecar(disk, model["job"], job.out)
  /\ IF job.primary
     THEN at' = [at EXCEPT !["job"] = "point"] /\ UNCHANGED job
     ELSE /\ NextModel("job")
          /\ job' = [job EXCEPT !.got = Append(@, job.out), !.todo = Tail(@), !.out = NoEntry]
  /\ Touches
  /\ UNCHANGED <<wav, memo, poll, model, moved, count>>

PointAtEntry ==
  /\ Moves("job", "point", "next") /\ job.out # NoEntry
  /\ disk' = PointAt(disk, model["job"])
  /\ job' = [job EXCEPT !.got = Append(@, job.out), !.todo = Tail(@), !.out = NoEntry]
  /\ Touches
  /\ UNCHANGED <<wav, memo, poll, model, moved, count>>

(* cached_transcribe, with the migration its write begins with.            *)
CachedTranscribe ==
  \/ TryCache \/ Hear
  \/ CheckLayout("job") \/ MakeDir("job") \/ MoveLegacy("job") \/ MoveFails("job") \/ PointMigrated("job")
  \/ WriteEntry \/ PointAtEntry

(* _select_primaries: the run points at its own winner.                    *)
SelectPrimary ==
  /\ Moves("job", "next", "migrate") /\ job.todo = <<>>
  /\ model' = [model EXCEPT !["job"] = job.got[Winner(job.got, Specialists)].model]
  /\ UNCHANGED <<wav, disk, memo, poll, key, job, moved, count>>

-----------------------------------------------------------------------------
(* set_primary_transcript, of the run and of PUT .../primary, which holds  *)
(* no job slot.                                                            *)

Repoints(t) == t = "operator" \/ job.out = NoEntry

Ends(t) == at' = [at EXCEPT ![t] = "idle"]
           /\ IF t = "job" THEN job' = NoJob ELSE UNCHANGED job

StartPin ==
  /\ count.pins < MaxPins
  /\ Moves("operator", "idle", "migrate")
  /\ \E m \in Models : model' = [model EXCEPT !["operator"] = m]
  /\ count' = [count EXCEPT !.pins = @ + 1]
  /\ UNCHANGED <<wav, disk, memo, poll, key, job, moved>>

FindTarget(t) ==
  /\ at[t] = "write" /\ Repoints(t)
  /\ IF disk.dir /\ disk.side[model[t]] # NoEntry
     THEN at' = [at EXCEPT ![t] = "point"] /\ UNCHANGED job
     ELSE Ends(t)
  /\ UNCHANGED <<wav, disk, memo, poll, key, model, moved, count>>

PointAtTarget(t) ==
  /\ at[t] = "point" /\ Repoints(t)
  /\ disk' = PointAt(disk, model[t])
  /\ Ends(t)
  /\ Touches
  /\ UNCHANGED <<wav, memo, poll, model, moved, count>>

-----------------------------------------------------------------------------
(* _describe_wav: the key, the marker, the listing, the slot.              *)

Look(p) ==
  /\ poll[p].at = "idle" /\ ~Current("memo")
  /\ key' = [key EXCEPT ![p] = Signature(disk)]
  /\ poll' = [poll EXCEPT ![p].at = "marker"]
  /\ UNCHANGED <<wav, disk, memo, job, at, model, moved, count>>

ReadMarker(p) ==
  /\ poll[p].at = "marker"
  /\ poll' = [poll EXCEPT ![p] = [at |-> "listing", marker |-> IF key[p] = "old" THEN NoEntry ELSE Marker(disk)]]
  /\ UNCHANGED <<wav, disk, memo, key, job, at, model, moved, count>>

Files(p, k) ==
  /\ poll[p].at = "listing"
  /\ memo' = Row(k, poll[p].marker, Listing(disk))
  /\ key' = [key EXCEPT !["memo"] = k, ![p] = "old"]
  /\ poll' = [poll EXCEPT ![p] = Resting]
  /\ UNCHANGED <<wav, disk, job, at, model, moved, count>>

(* Mutant: the row is filed under the signature of the moment.             *)
FileUnderLatest(p) == Files(p, Signature(disk))
ReadListing(p) == Files(p, key[p])

-----------------------------------------------------------------------------
(* A resumed tap appends.                                                 *)
Grow ==
  /\ wav < MaxVersion /\ wav' = wav + 1
  /\ key' = [r \in DOMAIN key |-> "old"]
  /\ UNCHANGED <<disk, memo, poll, job, at, model, moved, count>>

(* transcribe_one, and each WAV of transcribe_range: one cached_transcribe *)
(* per model, then the winner is pointed at.  What _precheck_wav refuses   *)
(* leaves the sidecars alone.                                              *)
TranscribeOne ==
  \/ StartRun \/ CachedTranscribe \/ SelectPrimary
  \/ FindTarget("job") \/ PointAtTarget("job")

(* api_set_primary                                                         *)
SetPrimary ==
  LET t == "operator"
  IN  \/ StartPin
      \/ CheckLayout(t) \/ MakeDir(t) \/ MoveLegacy(t) \/ MoveFails(t) \/ PointMigrated(t)
      \/ FindTarget(t) \/ PointAtTarget(t)

Next ==
  \/ TranscribeOne
  \/ SetPrimary
  \/ \E p \in Polls : Look(p) \/ ReadMarker(p) \/ ReadListing(p)
  \/ Grow

Spec == Init /\ [][Next]_vars

-----------------------------------------------------------------------------
(* The transcripts on disk, in either layout.                              *)
OnDisk == ({disk.side[m] : m \in Models} \cup {disk.legacy}) \ {NoEntry, Corrupt}

(* An entry whose fingerprint is the WAV's own was heard of the WAV as it  *)
(* is, whatever a resumed tap appended while the model ran: a hit never    *)
(* serves a transcript that misses the end of the recording.               *)
HitsHearTheWholeWav ==
  \A e \in OnDisk : e.fp = wav => e.heard = wav

(* Kept and suppressed halves are together what was heard, split by the    *)
(* rules the entry names, in time order, and the text is the kept half:    *)
(* any number of edits of the rules later.                                 *)
SplitIsWhole == \A e \in OnDisk : e.sig # <<>> => SplitBy(e, e.sig[1])

(* A transcript on disk is whole, whatever grew, ran or was re-filtered    *)
(* since: heard to the end, and nothing of it lost to the rules.           *)
EntriesAreWhole == HitsHearTheWholeWav /\ SplitIsWhole

(* Every transcript a run merges answers its request: its prompt, its      *)
(* language, the rules it read, and no older a recording than it found.    *)
RunAnswersItsRequest ==
  \A i \in DOMAIN job.got :
    LET e == job.got[i]
    IN  /\ e.said \in {job.ask, Recorded(e.model, job.ask)}
        /\ e.language \in Snapped(e.model, job.plan)
        /\ e.sig = <<job.rules>>
        /\ e.heard >= job.since

(* A failed migration hides no transcript: once no writer is between its   *)
(* file operations, a WAV with a transcript on disk shows one.             *)
NothingHidden ==
  (\A t \in Writers : at[t] \notin {"move", "repoint"}) /\ OnDisk # {} => Primary(disk) # None

(* In the directory layout a memoised row whose key is the current one     *)
(* shows what is on disk, however polls and writes overlapped.             *)
MemoTellsTheTruth ==
  Current("memo") /\ disk.dir => memo = <<Marker(disk), Listing(disk)>>

(* What the dashboard lists of a WAV is what is on disk: nothing is hidden *)
(* by a migration, and no memoised row outlives what it shows.             *)
ListingsTellTheTruth == NothingHidden /\ MemoTellsTheTruth
=============================================================================
