---------------------------- MODULE SessionJobs ----------------------------
(* The heavy jobs of one recorded session: the end-of-meeting pipeline     *)
(* (batch_pipeline.py) and the manual strip, transcribe, diarize and       *)
(* summarize jobs, which share its stages, under the session's one job     *)
(* slot (recorder.py, JobTracker); the files they leave, and the record    *)
(* the bridge polls (PipelineResults).  JobTracker's lock is never held    *)
(* across a suspension, so a claim with what follows it, and a verdict     *)
(* with its release, are single steps.  What deletes recorded audio is     *)
(* SessionRoutes.                                                          *)
EXTENDS Integers, FiniteSets

CONSTANTS
  Jobs,        \* requests that may start a job
  Originals,   \* the session's recorded WAVs
  Regions,     \* stretches of speech in them: a strip cuts a clip of each
  None,
  MaxRestarts  \* bound: restarts of the Recorder

ASSUME JobsAssumption ==
  /\ None \notin Jobs
  /\ Originals \cap Regions = {}
  /\ MaxRestarts \in Nat

VARIABLES
  slot,        \* JobTracker._by_session: the job that holds the session
  record,      \* PipelineResults: state of the last pipeline
  kind, phase, \* each job's kind and where it is
  pick,        \* the files a transcribe job selected
  seen,        \* the merged transcript a summarize job read
  stripped,    \* stripped/: the regions that have a clip on disk
  cut,         \* the strip those clips are of: each one names them anew
  cached,      \* WAVs and clips with a transcript sidecar beside them
  voices,      \* how often the session was diarized
  transcript,  \* session-transcript.json; words: the WAVs it was merged from
  summary,     \* session-summary.json
  clock,       \* datetime.now(): grows with every merge
  restarts

jobVars  == <<slot, record, kind, phase, pick, seen>>
fileVars == <<stripped, cut, cached, voices, transcript, summary, clock>>
vars     == <<jobVars, fileVars, restarts>>

Sources == {"original", "stripped"}
WavsOf(src) == IF src = "original" THEN Originals ELSE stripped

(* select_session_wavs: file names, so a selection of clips is one of the  *)
(* strip that named them.                                                  *)
Selected(src) == [source |-> src, wavs |-> WavsOf(src), cut |-> cut]
OnDisk(p) ==
  IF p.source = "stripped" /\ p.cut # cut THEN {} ELSE WavsOf(p.source)

Selection ==
  [source : Sources, wavs : SUBSET (Originals \cup Regions), cut : Nat]
Transcript ==
  [at : Nat, source : Sources, words : SUBSET (Originals \cup Regions),
   voices : Nat]

(* What a summary of transcript t is made from.                            *)
Text(t) == <<t.words, t.voices>>
Summary == [at : Nat, text : (SUBSET (Originals \cup Regions)) \X Nat]

(* None stands for a file that is not there, a value no file has.          *)
ASSUME NoneAssumption ==
  None \notin Selection /\ None \notin Transcript /\ None \notin Summary

(* Where a job is when it holds the slot, by the name of its next step.    *)
Working == {"clear", "cut", "diarize", "diarized", "remerge", "select",
            "transcribe", "read", "summarize", "end"}
Phases  == Working \cup {"idle", "chosen", "gone"}
Kinds   == {"pipeline", "strip", "wipe", "transcribe", "diarize",
            "summarize"}

TypeOK ==
  /\ slot \in Jobs \cup {None}
  /\ record \in {"none", "running", "done", "failed"}
  /\ kind \in [Jobs -> Kinds \cup {None}]
  /\ phase \in [Jobs -> Phases]
  /\ pick \in [Jobs -> Selection \cup {None}]
  /\ seen \in [Jobs -> Transcript \cup {None}]
  /\ stripped \subseteq Regions
  /\ cut \in Nat
  /\ cached \subseteq Originals \cup stripped
  /\ voices \in Nat
  /\ transcript \in Transcript \cup {None}
  /\ summary \in Summary \cup {None}
  /\ clock \in Nat
  /\ restarts \in 0..MaxRestarts

Init ==
  /\ slot = None
  /\ record = "none"
  /\ kind = [j \in Jobs |-> None]
  /\ phase = [j \in Jobs |-> "idle"]
  /\ pick = [j \in Jobs |-> None]
  /\ seen = [j \in Jobs |-> None]
  /\ stripped = {}
  /\ cut = 0
  /\ cached = {}
  /\ voices = 0
  /\ transcript = None
  /\ summary = None
  /\ clock = 0
  /\ restarts = 0

-----------------------------------------------------------------------------
Goto(j, from, to) ==
  /\ phase[j] = from
  /\ phase' = [phase EXCEPT ![j] = to]

(* The request path of a job that looks at nothing first: claim the slot.  *)
Claim(j, k, first) ==
  /\ slot = None
  /\ slot' = j
  /\ kind' = [kind EXCEPT ![j] = k]
  /\ Goto(j, "idle", first)
  /\ UNCHANGED <<pick, seen, fileVars, restarts>>

(* start_pipeline: claim, open the record, leave the rest to a task.       *)
Trigger(j) == Claim(j, "pipeline", "clear") /\ record' = "running"

(* Mutant: a strip of its own empties stripped/ without asking.            *)
StartStripUnclaimed(j) ==
  /\ kind' = [kind EXCEPT ![j] = "strip"]
  /\ Goto(j, "idle", "gone")
  /\ stripped' = {}
  /\ cut' = cut + 1
  /\ cached' = cached \ stripped
  /\ UNCHANGED <<slot, record, pick, seen, voices, transcript, summary, clock,
                 restarts>>

StartStrip(j) == Claim(j, "strip", "clear") /\ UNCHANGED record

(* DELETE of stripped/ holds the slot as a job of kind delete.             *)
StartWipe(j) == Claim(j, "wipe", "clear") /\ UNCHANGED record

(* The other manual jobs read before they claim: transcribe its WAVs,      *)
(* summarize the merged transcript, diarize the audio it will plan on.     *)
Choose(j, k) ==
  /\ kind' = [kind EXCEPT ![j] = k]
  /\ Goto(j, "idle", "chosen")
  /\ UNCHANGED <<slot, record, fileVars, restarts>>

ChooseWavs(j) ==
  /\ Choose(j, "transcribe")
  /\ \E src \in Sources :
       /\ WavsOf(src) # {}
       /\ pick' = [pick EXCEPT ![j] = Selected(src)]
  /\ UNCHANGED seen

ChooseTranscript(j) ==
  /\ Choose(j, "summarize")
  /\ transcript # None
  /\ seen' = [seen EXCEPT ![j] = transcript]
  /\ UNCHANGED pick

ChooseAudio(j) == Choose(j, "diarize") /\ UNCHANGED <<pick, seen>>

(* jobs.run: take the slot, or answer SessionBusy and touch nothing.       *)
ClaimChosen(j) ==
  /\ slot = None
  /\ slot' = j
  /\ Goto(j, "chosen", kind[j])
  /\ UNCHANGED <<record, kind, pick, seen, fileVars, restarts>>

Leave(j) ==
  /\ pick' = [pick EXCEPT ![j] = None]
  /\ seen' = [seen EXCEPT ![j] = None]

Busy(j) ==
  /\ slot # None
  /\ Goto(j, "chosen", "gone")
  /\ Leave(j)
  /\ UNCHANGED <<slot, record, kind, fileVars, restarts>>

-----------------------------------------------------------------------------
(* The stages: each is one sibling's *_locked core.                        *)

(* A step of job j that changes the files named by the caller only.        *)
Stage(j, from, to) ==
  /\ Goto(j, from, to)
  /\ UNCHANGED <<slot, record, kind, restarts>>

(* _run_claimed drives the stages in their order; a job of its own has one. *)
Follows(j, stage, own) ==
  IF kind[j] # "pipeline" THEN own
  ELSE IF stage = "cut" THEN "diarize"
  ELSE IF stage = "transcribe" THEN "read"
  ELSE "select"

(* rmtree of stripped/, with the sidecars beside the clips.                *)
Clear(j) ==
  /\ Stage(j, "clear", IF kind[j] = "wipe" THEN "end" ELSE "cut")
  /\ stripped' = {}
  /\ cut' = cut + 1
  /\ cached' = cached \ stripped
  /\ UNCHANGED <<pick, seen, voices, transcript, summary, clock>>

(* strip_one_wav writes a region clip; a WAV that fails is skipped.        *)
Cut(j, c) ==
  /\ c \notin stripped
  /\ Stage(j, "cut", "cut")
  /\ stripped' = stripped \cup {c}
  /\ UNCHANGED <<pick, seen, cut, cached, voices, transcript, summary, clock>>

CutEnds(j) ==
  /\ Stage(j, "cut", Follows(j, "cut", "end"))
  /\ UNCHANGED <<pick, seen, fileVars>>

(* The voices of the multi-person taps; the pipeline's stage absorbs every *)
(* failure, so it may end without them.                                    *)
RecordVoices(j) ==
  /\ Stage(j, "diarize", "diarized")
  /\ voices' = voices + 1
  /\ UNCHANGED <<pick, seen, stripped, cut, cached, transcript, summary,
                 clock>>

DiarizeEnds(j) ==
  /\ phase[j] \in {"diarize", "diarized"}
  /\ Stage(j, phase[j], Follows(j, "diarize", "remerge"))
  /\ UNCHANGED <<pick, seen, fileVars>>

(* Mutant: a re-merge keeps the stamp of what it replaces.                 *)
PublishInPlace(src, words) ==
  /\ clock' = clock + 1
  /\ transcript' = [at |-> IF transcript = None THEN clock + 1
                           ELSE transcript.at,
                    source |-> src, words |-> words, voices |-> voices]

(* write_merged_transcript: the stamp is the time of the merge.            *)
Publish(src, words) ==
  /\ clock' = clock + 1
  /\ transcript' = [at |-> clock + 1, source |-> src, words |-> words,
                    voices |-> voices]

(* remerge_with_stored_selection: the words of the stored selection again, *)
(* unless none is left of a transcript that had some.                      *)
WordsLeft == WavsOf(transcript.source) \cap cached

(* Mutant: the re-merge writes whatever it found.                          *)
AlwaysWorthwhile == transcript # None

Worthwhile ==
  /\ transcript # None
  /\ transcript.words # {} => WordsLeft # {}

RemergeStored ==
  \/ Worthwhile /\ Publish(transcript.source, WordsLeft)
  \/ ~Worthwhile /\ UNCHANGED <<transcript, clock>>

Remerge(j) ==
  /\ Stage(j, "remerge", "end")
  /\ RemergeStored
  /\ UNCHANGED <<pick, seen, stripped, cut, cached, voices, summary>>

(* The pipeline's transcribe stage takes what its strip left.              *)
Select(j) ==
  /\ stripped # {}
  /\ Stage(j, "select", "transcribe")
  /\ pick' = [pick EXCEPT ![j] = Selected("stripped")]
  /\ UNCHANGED <<seen, fileVars>>

(* cached_transcribe, one selected WAV.                                    *)
TranscribeOne(j, w) ==
  /\ phase[j] = "transcribe"
  /\ w \in pick[j].wavs \ cached
  /\ w \in OnDisk(pick[j])
  /\ cached' = cached \cup {w}
  /\ UNCHANGED <<jobVars, stripped, cut, voices, transcript, summary, clock,
                 restarts>>

(* Every selected WAV has its sidecar: merge_session and write.            *)
Merge(j) ==
  /\ Stage(j, "transcribe", Follows(j, "transcribe", "end"))
  /\ pick[j].wavs \subseteq OnDisk(pick[j]) \cap cached
  /\ Publish(pick[j].source, pick[j].wavs)
  /\ UNCHANGED <<pick, seen, stripped, cut, cached, voices, summary>>

(* The summarize stage reads what the stage before it wrote.               *)
ReadTranscript(j) ==
  /\ transcript # None
  /\ Stage(j, "read", "summarize")
  /\ seen' = [seen EXCEPT ![j] = transcript]
  /\ UNCHANGED <<pick, fileVars>>

(* summarize_session_locked: the summary carries its transcript's stamp.   *)
Summarize(j) ==
  /\ Stage(j, "summarize", "end")
  /\ summary' = [at |-> seen[j].at, text |-> Text(seen[j])]
  /\ UNCHANGED <<pick, seen, stripped, cut, cached, voices, transcript, clock>>

-----------------------------------------------------------------------------
(* The job lets go of the slot, and a pipeline records how it went.        *)
Release(j, verdict) ==
  /\ slot' = None
  /\ record' = IF kind[j] = "pipeline" THEN verdict ELSE record
  /\ phase' = [phase EXCEPT ![j] = "gone"]
  /\ Leave(j)
  /\ UNCHANGED <<kind, fileVars, restarts>>

End(j) == phase[j] = "end" /\ Release(j, "done")

(* A stage that cannot go on: no clips after the strip, a selected WAV     *)
(* that a job before this one removed, nothing merged to summarize.        *)
Stuck(j) ==
  \/ phase[j] = "select" /\ stripped = {}
  \/ phase[j] = "transcribe" /\ ~(pick[j].wavs \subseteq
                                  OnDisk(pick[j]))
  \/ phase[j] = "read" /\ transcript = None

GiveUp(j) == Stuck(j) /\ Release(j, "failed")

(* Mutant: nobody handles the cancellation, and the finally releases.      *)
FailSilently(j) == phase[j] \in Working \ {"end"} /\ Release(j, record)

(* An exception in a stage, or the cancellation of its task.               *)
Fail(j) == phase[j] \in Working \ {"end"} /\ Release(j, "failed")

(* The Recorder restarts: jobs and records were in memory only.            *)
Restart ==
  /\ restarts < MaxRestarts
  /\ restarts' = restarts + 1
  /\ slot' = None
  /\ record' = "none"
  /\ phase' = [j \in Jobs |-> IF phase[j] = "idle" THEN "idle" ELSE "gone"]
  /\ pick' = [j \in Jobs |-> None]
  /\ seen' = [j \in Jobs |-> None]
  /\ UNCHANGED <<kind, fileVars>>

-----------------------------------------------------------------------------
Request(j) ==
  \/ Trigger(j) \/ StartStrip(j) \/ StartWipe(j)
  \/ ChooseWavs(j) \/ ChooseTranscript(j) \/ ChooseAudio(j)

JobStep(j) ==
  \/ ClaimChosen(j) \/ Busy(j)
  \/ Clear(j) \/ (\E c \in Regions : Cut(j, c)) \/ CutEnds(j)
  \/ RecordVoices(j) \/ DiarizeEnds(j) \/ Remerge(j)
  \/ Select(j) \/ Merge(j)
  \/ \E w \in Originals \cup Regions : TranscribeOne(j, w)
  \/ ReadTranscript(j) \/ Summarize(j)
  \/ End(j) \/ GiveUp(j)

(* Every request has come and gone: the bound of the model, no halt of the *)
(* program.                                                                *)
AllGone == \A j \in Jobs : phase[j] = "gone"

Next ==
  \/ \E j \in Jobs : Request(j) \/ JobStep(j) \/ Fail(j)
  \/ Restart
  \/ AllGone /\ UNCHANGED vars

(* A job that started goes on: its threads and the event loop run.  Nobody *)
(* has to ask for one.                                                     *)
Fairness == \A j \in Jobs : WF_vars(JobStep(j))

Spec == Init /\ [][Next]_vars /\ Fairness

-----------------------------------------------------------------------------
(* What a bridge that polls the pipeline is told: the record decides, and  *)
(* where there is none, because the Recorder restarted or nobody ever      *)
(* asked, the summary on disk.                                             *)
Polled ==
  IF record \in {"running", "failed"} THEN record
  ELSE IF record = "done" \/ summary # None THEN "done" ELSE "idle"

(* One job works on the session at a time, and it is the one in the slot;  *)
(* the record says "running" exactly while a pipeline holds it, whichever  *)
(* way the pipeline ends and whoever was refused meanwhile                 *)
(* (JobTracker.run, _run_claimed).                                         *)
SlotTellsTheTruth ==
  /\ \A j \in Jobs : phase[j] \in Working <=> slot = j
  /\ record = "running" <=> slot # None /\ kind[slot] = "pipeline"

(* When a pipeline is recorded done, the summary on disk is of the merged  *)
(* transcript on disk, and that transcript covers every clip its strip cut *)
(* (the four stages under one claim, batch_pipeline.py).                   *)
FinishesDone(j) ==
  /\ phase[j] = "end" /\ kind[j] = "pipeline"
  /\ record' = "done" /\ phase'[j] = "gone"

DoneMeansSummarized ==
  [][\A j \in Jobs : FinishesDone(j) =>
       /\ stripped # {} /\ transcript # None /\ summary # None
       /\ transcript.source = "stripped"
       /\ transcript.words = stripped
       /\ summary.at = transcript.at
       /\ summary.text = Text(transcript)]_vars

(* The summary view compares two stamps: a summary that carries the stamp  *)
(* of the transcript on disk was made from that very text, so one that was *)
(* not is flagged (transcribed_at, batch_summarize.py and session_merge).  *)
StaleSummaryIsFlagged ==
  summary # None /\ transcript # None /\ summary.at = transcript.at
  => summary.text = Text(transcript)

(* A bridge is told to wait exactly while there is a pipeline to wait for, *)
(* whatever failed and restarted, and an answer that ends its wait in      *)
(* success has a summary in it (api_tap_pipeline_poll).                    *)
PollTellsTheTruth ==
  /\ Polled = "running" <=> slot # None /\ kind[slot] = "pipeline"
  /\ Polled = "done" => summary # None

(* What is polled and what is shown is so: the slot and its record, the    *)
(* answer to a poll, and the age of a summary.                             *)
RecordsTellTheTruth ==
  SlotTellsTheTruth /\ PollTellsTheTruth /\ StaleSummaryIsFlagged

(* A diarize run changes who said it: it never empties the transcript it   *)
(* re-merges, not even when a strip or a failed pipeline since then has    *)
(* taken every clip with its sidecar (remerge_with_stored_selection).      *)
Remerges(j) ==
  phase[j] = "remerge" /\ phase'[j] = "end" /\ transcript # None

ReattributionKeepsWords ==
  [][\A j \in Jobs :
       Remerges(j) /\ transcript.words # {} => transcript'.words # {}]_vars

(* A triggered pipeline does not run for ever: a bridge that polls comes   *)
(* to an end.                                                              *)
PipelineEnds == Polled = "running" ~> Polled # "running"
=============================================================================
