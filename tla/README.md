# TapScribe in TLA+

TapScribe records meetings. A bridge on each speaker's machine opens a
websocket per utterance, the Recorder (a Python program, `tapscribe/`) writes a
WAV per utterance into a session folder, relays the audio to a live caption
engine, and afterwards strips, transcribes, diarizes and summarizes the
session. This directory holds models of the parts of it where order matters,
the TLC runs that check them on small instances, and proofs that hold for every
size.

All paths below are relative to the repository root.

- [1. Inventory](#1-inventory)
- [2. Modules](#2-modules)
- [3. Runs, bounds and what they show](#3-runs-bounds-and-what-they-show)
- [4. Fairness](#4-fairness)
- [5. Proofs](#5-proofs)
- [6. Known disagreements](#6-known-disagreements)
- [7. Abstractions](#7-abstractions)
- [8. Not modelled](#8-not-modelled)
- [9. Plan](#9-plan)

To check a run: `tlc -config MCTapPath.cfg TapPath` (the module of each run
is in section 3). To check a proof module: `tlapm TapProofs.tla`.

## 1. Inventory

### How the parts meet

The Recorder is one asyncio event loop with worker threads beside it. Request
handlers and the tap connections are coroutines on the loop: between two awaits
they exclude each other. Destructive walks over session folders, voice
detection, model loads and batch stages run on threads (`asyncio.to_thread`)
and exclude nobody; what protects them are three in-memory structures:

- the in-flight marks and the destruction guard of `tap_registry.py`, between
  taps and deletes;
- the one job slot per session (`JobTracker` in `recorder.py`), between jobs,
  and between jobs and deletes;
- the leases of the model cache (`transcribers/__init__.py`), between jobs.

A tap connection fans its frames out to a WAV (`tap_fan_out.py`) and to its own
relay (`tap_relay.py`), which is a websocket client of the caption engine the
Recorder supervises as a child process (`live.py`). None of this in-memory
state is persisted; the session folder is.

The tray bridge (`bridges/tray-bridge`, C#) is the main client. Per capture
device a `TapSession` gates the audio by level and opens a `TapStream` per
stretch of speech; the stream's pump reconnects with the same utterance id when
the socket breaks, and the Recorder's `UtteranceIndex` then appends to the same
WAV. `BridgeRuntime` owns the devices: at the end of a meeting it drains the
streams, triggers the pipeline and polls for the summary. The dashboard is the
other client: it polls `/api/state`, applies live settings, edits people and
configuration, and installs model families.

### Components

| Component | State | Operations | What makes it hard | What makes it correct |
|---|---|---|---|---|
| Tap registry, `tap_registry.py` | marks and tap count or claim, per session | mark, release, register, unregister, claim, release | loop and threads | counts balance; taps and walks exclude each other |
| Utterance index, `recorder.py` | utterance id to record | `try_resume`, `register_new`, `release`, expiry | reconnect before the old socket is seen closed | one writer per WAV, exact byte counts |
| Tap fan-out, `tap_fan_out.py` | WAV handle, mark, guard, row, bytes of a connection | open (in stages), write, close | a failure or cancellation at every stage | whatever was taken is given back once |
| Destructive routes, `routes/{sessions,wav,guards}.py`, `session_maintenance.py` | current session, job slots, folders | delete session, audio, WAV; bulk reclaim; prune; rotate; absorb; detached sessions | walks on threads beside taps and jobs | a fresh recording keeps its file; the guard is a lock |
| Live relay, `tap_relay.py` | relay, bound configuration, gate, reconnect task | open, feed, close, reconnect | two tasks interleave at awaits while the engine restarts | one socket, none leaked, captions come back |
| Live captions, `speech_gate.py`, `vad/silero.py`, `_moonshine_window.py`, `moonshine_live.py`, `live_relay.py` | frames held back; decode window and committed words; settled lines | feed a frame, decode, roll over, settle, close | false alarms of the gate, repeated and revised answers, a drain that runs out | all speech passes once; each word is said once; nothing is retracted |
| Live channel, `live.py`, `live_control.py`, `routes/live.py` | child process, reported state, pump threads | apply, start, stop | requests on threads, pumps outside the lock | one engine, a truthful state, every request ends |
| Engine swap, `live_control.py`, `moonshine_live.py` | `recorder.live`, its loop thread and server | swap of the family, start, bind, abandon, stop | a bind that lands after the start gave up; overlapping requests | no server is lost, down is down |
| Live settings, `live_control.py`, `live.py`, `speech_gate.py` | the settings a channel carries, its info, the panel's form | apply from the panel or the Settings view, restart, swap | the form sends back what it shows, coerced and rounded | what was applied is in force, is shown and stays |
| Model cache, `transcribers/__init__.py` | objects, in-flight counts, idle TTL | load, release, sweep, evict | loads outside the lock, count and object move apart | no model goes while in use, one copy |
| Transcript cache, `wav_cache.py`, `sessions.py` | sidecars in two layouts, the primary, the memo of the rows | look up, migrate, transcribe, re-split, repoint, list | a WAV that grows, rules that change, a migration that fails half-way, listings beside writers | entries are whole, answer their request, and are listed as they are |
| Session jobs, `batch_*.py`, `session_merge.py`, `recorder.py` | slot, pipeline record, clips, sidecars, transcript, summary | pipeline, strip, clear, transcribe, diarize, summarize | look before claim, failures in every stage, restart | slot and record agree; done means summarized; stale summaries show |
| People, `people.py`, `roster.py`, `voices.py`, `name_resolution.py` | registry, rosters, diarization runs, mappings | tap, poll, rename, merge, detach, map a Voice, diarize, absorb | two files per change; runs and slugs that supersede one another | nobody is lost; a name is of whom it says |
| Who said what, `voice_join.py` | none | cut a segment along Voices, merge | words outside their segment, overlapping spans | speech is counted once |
| Cover of languages, `catalog.py`, `language_select.py` | none | resolve a backend, the models of a meeting, the winner of a region | three lookups that must agree | what shows as installed can run |
| Setup, `install_picker.py`, `routes/setup.py` | selection, skipped families, stamp | launch, prompt, save, skip, pip, stamp, request from /setup | a stamp that outlives what it describes | done means installed; choices are kept |
| Dashboard login, `login_links.py`, `auth.py` | links, sessions | mint, open, validate, sweep | previewers, retries, idling, ageing, restart | one sign-in per link; ended stays ended |
| Operator configuration, `config_store.py`, `config.py` | small files, a cached reader | save, hand edit, read, use by a job | a coarse file clock; writers and readers with rules of their own | what a route accepts is what a job runs with |
| Session listing, `sessions.py`, `lazy-resource.js` | rows, their digest, lists the tab keeps | poll, fetch, change of the folder | three things that nothing orders | a list under today's digest is of today's folder |
| Bridge stream, `TapStream.cs` | ring, pump, connection | enqueue, end, connect, send, pop, backoff | producers beside the pump, broken sockets | in order, never twice, ends |
| Bridge session, `TapSession.cs`, `LevelGate.cs` | gate, mute, current stream | audio callback, mute callback, drain, dispose | three threads, volatile flags | nothing open while muted or disposed |
| Bridge runtime, `BridgeRuntime.cs`, `MeetingController.cs` | meeting, attached tap, tasks, menu, saved meeting | start, connect, disconnect, end, quit, resume | asynchronous flows that overtake one another and the quit | devices in one hand; one trigger per meeting; the menu is true |
| Bundle supervisor, `RecorderSupervisor.cs`, `HostController.cs`, `RuntimeCopy.cs` | the children it holds, the state and the menu; the runtimes on disk | boot, start, stop, quit, exit of a child; copy and tidy up a runtime | spawns that cross a quit, late exits and posts, copies cut short | no process out of reach; a true menu; a whole runtime is what boots |
| Everything else | | | | section 8 |

The hazards, each at the line where it bites and with the properties aimed at
it, are in `PROJECT.json`.

## 2. Modules

```
TapRegistry    UtteranceIndex          SessionLock  (abstract)
      \            /                       ^
       TapFanOut                           | ImplementsLock
           |                               |
       SessionRoutes  <-- TapProofs  ------+        MCSessionRoutes

TapFanOut   TapRelay   LiveChannel   (TapRelay, LiveChannel <-- LiveProofs)
         \     |      /
             TapPath

SessionJobs   (<-- JobsProofs)

LanguageCover --- TranscriptCache (<-- TranscriptCacheProofs) --- MCTranscriptCache
      \
       \    ModelCache   EngineSwap (<-- JobsProofs)   LiveSettings
        \   NameResolution -- People   Setup -- MCSetup      LoginLinks
         \  OperatorConfig   SessionListing   VoiceJoin
          \      \      |      /      /
           +--------  ServerParts  --------  MCServerParts

SpeechGate   MoonshineWindow   LineRelay
         \         |          /
             Captions (<-- CaptionsProofs) --- MCCaptions

TapStream   TapSession   TrayRuntime   (<-- TrayProofs)
         \         |          /
             TrayBridge

RuntimeCopy --- RecorderHost <-- RecorderHostProofs
```

**TapRegistry** (`tap_registry.py`). `marks` is `_tap_open_sessions`, `active`
is `_tap_active_count` with `Destroying` for the claim sentinel. Each operator
is one critical section. It has no specification of its own: its operators are
the effects TapFanOut and SessionRoutes use, in the code's own form (a count
that is clamped, a second claim that is granted).

**UtteranceIndex** (`recorder.py`, class `UtteranceIndex`). `byId` maps an
utterance to its record. An operator gives the index after one method call,
pruning included. The 60 s resume window enters as a flag of a closed record,
`aged`.

**TapFanOut** (`tap_fan_out.py`, the websocket route of `routes/tap.py`). The
constant `Conns` are connections, each used once. `phase` walks the stages of
`_open` and `_close`; `loop` says which connection is inside a stretch without
an await. The worker threads of SessionRoutes may act inside such a stretch, so
there is an action per call that they can see: the mark and the guard (`Join`),
the file (`Create`, `Reopen`), the roster and the row (`Announce`), and the two
halves of the close (`Detach`, `Finalize`). Every stage has its failure, which
goes to `unwind`.

**SessionLock** is what the destruction guard promises: a lock on a session
folder that taps share and a walk holds alone. It knows no counts.

**SessionRoutes** composes TapFanOut with the routes that delete, empty, prune,
merge and rotate sessions. `Workers` are requests with a thread each: a
preflight on the loop (`StartDelete`, `StartReclaim`, `StartBatch`), then
thread steps that list and unlink file by file. `home[f]` is the folder a WAV
is in, so "the WAV is still there" is a statement about a file and not about a
flag.

**TapRelay** (`tap_relay.py`). The handler task and the reconnect task of one
connection, with an action per stretch between awaits; `_attach` runs in
either. The n-th start of the engine stands for its configuration. The engine
starts, stops and drops sockets at will.

**LiveChannel** (`live.py`, `live_control.py`, `routes/live.py`). Requests
(`apply_live`, the stop route) on threads, children, a pump thread per child.
`start` and both ends of `stop` hold the lock; the pump's look at `_proc` and
its write to `info` are two steps, as in the code.

**TapPath** puts the fan-out, the relay and the channel together. The WAV of a
tap never waits for its captions, and TapRelay lets the engine start and stop at
any moment under any configuration, which is all it sees of the channel; so the
three share no state, and a behaviour is of one part, chosen at its start, while
the others rest. SessionRoutes is where the fan-out meets what it does share
state with.

**SessionJobs** (`batch_pipeline.py`, `batch_strip.py`, `batch_transcribe.py`,
`batch_diarize.py`, `batch_summarize.py`, `session_merge.py`, `JobTracker` and
`PipelineResults` of `recorder.py`, the trigger and poll of `routes/tap.py`).
One session, its slot, and the files the jobs leave. The manual jobs look
first (`ChooseWavs`, `ChooseTranscript`) and claim second (`ClaimChosen`), the
pipeline, the strip and the clear claim at once. Any stage may fail or be
cancelled; the Recorder may restart.

**TranscriptCache** (`wav_cache.py`, parts of `batch_transcribe.py` and
`sessions.py`). One WAV with its two layouts of sidecars. `disk` is what the
files say; a run over the models of the cover takes a step per file operation,
and an operator who repoints the primary, listings, and a tap that resumes the
WAV act in between. The memo of a listing row is kept under what the code keys
it by. **LanguageCover** has the catalog's lookups it uses, as functions.

**Captions** (`tap_relay.py`'s relay end to end). The audio of one utterance
from the microphone to the caption: **SpeechGate** with the windows of the
streaming detector (`speech_gate.py`, `vad/silero.py`), the socket,
**MoonshineWindow** and the handler around it (`_moonshine_window.py`,
`moonshine_live.py`) or a whisperlivekit that may answer whatever the relay has
to expect, and **LineRelay**, the bookkeeping of settled lines
(`live_relay.py`). A frame is the audio of one word.

**ServerParts** puts together the parts of the server that share no variable.
A behaviour is of one part, chosen at its start, while the others rest. Since a
step of one part reads and writes nothing of another, every property of a part
holds in all interleavings of the parts if it holds there; and no run spends
its states on products that mean nothing.

- **ModelCache** (`transcribers/__init__.py`). A use is a `load_transcriber`
  and its `release_transcriber`. Blocks under `_lock` are actions, the load is
  outside, so duplicates happen. `Swept`, `EvictIdleNow` and the TTL-0 branch
  of `Release` are the three ways out.
- **EngineSwap** (`live_control.py`, `moonshine_live.py`). Every swap makes a
  fresh channel; a Moonshine channel has a loop thread that binds, serves and
  stops on its own time. `NoServerIsLost` is about an engine that nobody can
  stop any more. LiveChannel has the WhisperLiveKit side in detail.
- **LiveSettings** (`live_control.py`, `live.py`, `moonshine_live.py`). What an
  apply writes, what the engine was started with, what the info says and what
  the panel's form sends back, coercions and rounding included.
- **People** (`people.py`, `roster.py`, `voices.py`, `batch_diarize.py`,
  `routes/people.py`) over **NameResolution** (`name_resolution.py`), which has
  the readers as functions. A handler that writes two files has an action that
  stops after the first.
- **Setup** (`install_picker.py`, `setup_install.py`, `setup_state.py`,
  `routes/setup.py`). Pickers, from the terminal or /setup, between launches of
  the server, upgrades, uninstalls and another machine.
- **LoginLinks** (`login_links.py`, `auth.py`, `routes/login.py`). Links,
  session cookies and a tab under a clock, in a browser that sends Fetch
  Metadata to the recorder's address or in one that does not.
- **OperatorConfig** (`config.py`, `config_store.py`,
  `routes/operator_config.py`, `routes/summarize.py`). A bounded knob for all
  of its kind, and the summarizer default behind the cached reader.
- **SessionListing** (`sessions.py`, `routes/state.py`,
  `web/js/next/lib/lazy-resource.js`). The poll's digest, a tab's fetches and
  the changes of the folder, in any order.
- **VoiceJoin** (`voice_join.py`, `session_merge.py`) and LanguageCover are
  pure and are checked on all inputs of a small size.

**TrayBridge** composes the three layers of the tray bridge's Core in the same
way. The layers meet at a promise: TrayRuntime takes from TapSession that a set
of devices comes to its end (or, in its liveness, does not), TapSession takes
from TapStream that a drain does, TapStream takes from nobody but the fairness
of section 4.

- **TapStream** (`TapStream.cs`). The pump is a cycle of peek, send, pop, with
  the lock's blocks as actions and the awaits between them. `net` and `heard`
  are the frames on the wire and those the Recorder read; the ring is counted
  in frames.
- **TapSession** (`TapSession.cs`, `LevelGate.cs`). The capture thread, the
  volume thread and the owner of the session. A volatile read or write is an
  action, so the reset flag, the mute flag and the stream can be seen apart.
- **TrayRuntime** (`BridgeRuntime.cs`, `CaptureOrchestrator.cs`,
  `MeetingController.cs`, `MeetingStateStore.cs`). A click begins a task; the
  task's steps run on the pool and reach the menu through posts, which the UI
  thread takes in order. `sets` are the devices, `saved` is the state file,
  which alone outlives a crash.

**RecorderHost** (`RecorderSupervisor.cs`, `HostController.cs`) is the tray of a
Bundle over the Recorder it boots. Boots run on the pool, exits call back on a
thread of their own, clicks and posts are the UI thread's; `procs` are the
processes spawned, so that one nobody holds is a statement about a process. What
is under one of the two locks is a step, and so is what is between two of them.
Its boots begin with **RuntimeCopy** (`RuntimeCopy.cs`), which has the runtimes
on disk as sets of parts, and every way in which a copy or a deletion stops
half-way; `Launch` is the tray started again, after a crash or a quit, perhaps
of another release.

The MC modules give instances; the other configurations run the modules as they
are. An operator under a comment that begins with "Mutant" is a plausible bug
in the definition below it, and `PROJECT.json` says which property it breaks.

## 3. Runs, bounds and what they show

`PROJECT.json` lists the properties of each run and, for every property of a
passing run, a small change to the code's model that breaks it.

| Run | Module, configuration | Instance |
|---|---|---|
| `tap_path` | TapPath, MCTapPath.cfg | 2 connections, 1 utterance id, 2 identities, 2 sessions, record on or off, 2 frames per WAV; 3 relay objects, 3 engine starts, 1 dropped socket, bursts of 2 frames; 3 requests (at most 2 applies), 2 children |
| `session_routes` | MCSessionRoutes, MCSessionRoutes.cfg | 2 connections, 1 recorded WAV, 2 sessions, 2 requests of delete (session, audio, WAV), reclaim, batch |
| `resume_race` (violation) | MCSessionRoutes, MCResumeRace.cfg | 2 connections, 1 delete |
| `captions` | MCCaptions, MCCaptions.cfg | 6 frames, 2 gates, both engines; windows of 3 frames that keep 2; 2 lines of 2 words |
| `captions_unsteady` (violation) | MCCaptions, MCCaptionsUnsteady.cfg | 7 frames, 1 gate, windows of 3 that keep 1, a decoder that mishears |
| `transcript_cache` | MCTranscriptCache, MCTranscriptCache.cfg | 1 run of 2 models, 4 requests, 4 states of the disk, 1 listing, 1 repointing, 1 growth of the WAV |
| `session_jobs` | SessionJobs, MCSessionJobs.cfg | 3 requests, 1 recording, 2 stretches of speech, 1 restart |
| `server_parts` | MCServerParts, MCServerParts.cfg | below |
| `tray` | TrayBridge, MCTrayBridge.cfg | 5 frames, a ring of 3, 2 breaks; 3 utterances, 3 changes of mute; 4 clicks, 2 launches, 2 failed polls end the polling |
| `tray_quit` (violation) | TrayRuntime, MCTrayQuit.cfg | 3 clicks, 2 launches |
| `bundle` | RecorderHost, MCRecorderHost.cfg | 3 clicks where the payload is the runtime; 3 launches of 2 releases and 1 install or damage where it is copied |
| `backends_lost` (violation) | RecorderHost, MCBackendsLost.cfg | 1 launch, 2 clicks, 2 installs or damages |

Why these are enough, and what each shows:

**tap_path.** Per part:

- *recording*: the interesting events are pairwise: a zombie and its
  replacement, a resume and a duplicate, two taps of one session. Two
  connections meet in every order of their stages, with every failure. Two
  identities give the resume that is refused, two sessions the resume of a file
  in another folder, two frames the difference between "some bytes" and "the
  right number". `WavsStayWhole` and `OpenRecordIsOwners` are about what an
  utterance id promises across a reconnect; `Bookkeeping` is about the leaks
  that would make a session undeletable, or a record unresumable, until a
  restart.
- *relay*: three relay objects let a reconnect hold one, close one and build
  one. Three starts give the sequence bound to the old, restarted during the
  attach, restarted again. `RelayIsSound` is the safety: one socket, with the
  gate that fits it, none after a close.
- *channel*: three requests over two children: a stop that waits while an apply
  restarts, and another stop or apply on top. Two children are spawned at most,
  so a third apply would find none to start. `OneEngine` is the absence of
  orphans, `StopTellsTheTruth` that no stop reports down over somebody else's
  child.

`PathSettles` is the liveness of the three: a close that began ends; an engine
that comes back for good gets every talking tap back under the configuration it
runs with; a dead child does not stay `starting` or `running`, and no request
hangs in the kill. The theorems of section 5 lift the safety to any number.

**session_routes.** One recorded WAV (needed for a resumable or reclaimable
session) and the WAVs the two taps mint; frames add nothing to what a walk can
do, so `MaxFrames` is 0. Prune, rotate, absorb and detached sessions are always
on. `GuardedTapKeepsItsWav` says a tap that recorded a fresh utterance keeps
its folder and file through all of it. It excepts sessions that a bulk reclaim
was asked for and taps that resumed: both exceptions are disagreements of
section 6. `ImplementsLock` is the refinement to SessionLock. It is not
obvious, since `try_claim_destruct` grants a second claim and the first release
then clears it: the job slot is what keeps two walks of one session apart, and
the mutant without it breaks the refinement. `BatchKeepsItsWavs` relates the
job slot to every route that moves or unlinks.

**captions.** Six frames are two windows of the engine and a roll-over, or two
stretches of speech under a gate that closes. One gate opens at once, the other
has candidates that turn out false alarms, with a pre-roll longer than what was
heard so far. `CaptionsAreWhole` follows a word from the microphone to the
caption: the gate passes the frames of all speech once and in order, the relay
says no word twice, and when the last answer was read every word was said.
`NothingRetracted` is the engine's own promise about words it committed.
**captions_unsteady** lets the decoder mishear and shows that a word can be
dropped (section 6).

**transcript_cache.** The four disks are those from which a run goes different
ways: nothing, a file that does not parse, a legacy sidecar that has to be
migrated, and a directory with a pinned primary. The requests differ in rules,
prompt, languages and force. A growth of the WAV between any two steps, and a
listing cut into the three steps in which the code makes it. `EntriesAreWhole`
holds of every sidecar at every moment, `RunAnswersItsRequest` of what a run
merges, `ListingsTellTheTruth` of what the dashboard is given.

**session_jobs.** Three jobs of any of six kinds in any order: enough for
"transcribe, strip, diarize", which is the shortest history in which a re-merge
meets other files than it knows. Two stretches of speech give a transcript of
half of them. `RecordsTellTheTruth` ties the slot, the job at work, the record
a bridge polls, its answer and the stamps the summary view goes by together
through refusals, failures and the restart. `DoneMeansSummarized` is what the
word done promises: the four stages of one pipeline saw the same clips, and the
summary on disk is of the transcript on disk. `ReattributionKeepsWords` is the
guard of the re-merge.

**server_parts.** Per part:

- *models*: 4 uses, 2 keys. Two uses race to load one key, a third arrives
  during it, the fourth is on the other key or after an eviction. The proofs
  cover any number. `CacheIsSound`.
- *engines*: 3 calls, 4 channels, 2 threads: two overlapping requests and a
  third that finds what they left; a swap makes a channel, and `CanMake` is the
  bound that one is left for it. `SwapIsSound`: every server is reachable or
  about to die, what is reported down is down, and the engine of the family
  left behind is stopped.
- *live settings*: 2 edits per apply, 3 models of the two families, 2 languages, a
  threshold that its rounding changes. `AppliedIsInForce`: what is reported is
  what runs, applying what is shown changes nothing, and what was not edited
  stays through restarts and swaps. It is stated for engines that start.
- *people*: two meetings; two taps of one meeting share a display name and so a
  slug, one of them comes back in the other; 2 diarization runs, 2 Persons.
  `WhoIsWho` says that the registry can be read back, that a mapped Voice is
  counted for and named after the Person it was mapped to, and that a merge cut
  short, a detach and a rename strand nobody.
- *setup*: 2 pickers at once, 2 launches, 2 versions, two machines and three
  checkouts: a stamped install without a selection, a selection of the first
  format, one with a backend that never was. The stamped one is there because a
  stamp that outlives its package needs three launches otherwise.
  `DoneMeansInstalled` is what skipping pip must not break; `ChoicesKept` what
  everything but a prompt must leave alone.
- *login*: 2 links, life of a link 2, its grace 1, of a session 2 idle and 4 in
  all, within 7 ticks: long enough for a session to age out after its link's
  grace; with and without Fetch Metadata. `SignInHolds`: a sign-in lasts as long
  as the tab is in use and never comes back after it has ended; and the open tab
  draws the browser's password dialog in one case only, where there is no Fetch
  Metadata and a navigation has cleared the dead cookie. That case is reached
  (disagreement 22).
- *config*: saves, hand edits and reads within and across ticks of a coarse
  clock. `SettingsHold`.
- *listing*: 2 recordings of one participant, 3 changes of the folder, 2
  fetches, overtaken by polls and changes. `ListingIsOfDisk`.
- *join, cover*: all segments of [2, 4] with up to two words in and outside it,
  with up to two spans of two Voices, or three
  with one word at most; registries of two models with up to two
  backends on three machines. `AlgorithmsAreExact`: speech is counted once, the
  narrowed search for Voices answers as the full one, and what shows as
  installed resolves to a backend that is.

**tray.** Five frames through a ring of three overflow it twice; two breaks
give a frame lost in flight and one confirmed into a dead socket.
`FramesArriveOnce` has the order through overflow as well, and the one gap per
break as long as nothing overflowed (section 6, the pop race). Three utterances
and three mutes allow mute, unmute, mute within one utterance and across two;
`NoLateStream` and `StreamFollowsGate`, of which the latter is stated while
nobody mutes. Four clicks give Connect, Start (a takeover), End and one more in
another order or launch, with a quit, a crash and a failure between any two
steps. `DevicesAreReleased`: whatever overtakes what, the devices are in one
hand while open, and closed before the shell is let go. `MenuTellsMode`: when
all has settled, the menu offers what the runtime can do. `MeetingRunsOnce`: a
pipeline is triggered once per meeting, after its drain, and the session stays
in the state file until its outcome was shown, unless a quit cut it off.
`EverythingEnds` is the liveness of the three layers.

**tray_quit** is about that exception (section 6).

**bundle.** Where the payload is the runtime (Windows), three clicks give a
stop, the start after it and a quit on top, each crossing a boot or an exit of
the Recorder: `NoOrphan`, `HostMenuIsTrue`, and `HostComesBack`, which says that
the menu never stays at "Preparing" unless preflight runs, and a quit is
answered or carried out. Where it is copied (macOS), the clicks add nothing to
the copies, and three launches of two releases are there instead: an upgrade or
a copy cut short, the next launch, and the older release once more, with one
install or damage on the way. `RunsWhole` says that what boots is a whole
runtime all the same. **backends_lost** has no launches and two clicks, since the
loss is between a boot and its retry (section 6).

CHECK_DEADLOCK is off where the program may stop because the model's supply is
finite: uses, requests, utterances, clicks, links. SessionJobs has an explicit
last step instead (`AllGone`), so that there TLC would report a real deadlock;
elsewhere the liveness properties say what may not stop.

## 4. Fairness

- TapFanOut: a stretch of the event loop runs to its await, and
  `relay.close()` returns because its waits carry timeouts. Nobody has to
  connect, speak or hang up.
- TapRelay: the bridge keeps sending frames, threads and awaits return, the
  clock passes the backoff. For `CaptionsResume` two things must happen again
  and again if they can: the gate lets one frame through (somebody speaks), and
  an engine that keeps running accepts a connection. Whether the engine runs is
  up to nobody.
- LiveChannel: threads that were started run on. No child has to come up, and
  the end of the wait in `stop` is the code's own SIGKILL.
- SessionJobs: the next step of a job is taken; no request has to be made, and
  a stage may fail at any step.
- TapStream: the pump's own steps and the timers, and a handshake or a send
  that ends. The last is an assumption about the network: nothing in the code
  bounds them (section 6).
- TapSession: threads run on, and a drain that was begun is over some day
  (TapStream's `DrainEnds`, under the same assumption).
- TrayRuntime: the pool runs tasks, the UI thread its posts, and the caps of
  the quit pass. Devices need not close: a quit ends all the same, and the menu
  comes back unless one never does.
- RecorderHost: the pool and the UI thread run what they were given, and the
  operator answers the dialog of a quit. No child has to die, nobody has to
  click or to launch; a copy comes to its end or fails.
- In the compositions the fairness is that of the layer that runs. SessionRoutes,
  TranscriptCache, Captions and ServerParts have safety properties only.

## 5. Proofs

Every theorem below holds for all values of the constants that satisfy the
named assumptions of the modules (`ConnsAssumption`, `RoutesAssumption`,
`UsesAssumption`, `SwapAssumption`, `SessionAssumption` and so on). They say that
the sentinels are not members of the sets, that the bounds are naturals and that
a set that is counted is finite. Some say more, as the code does:
`RoutesAssumption` that a request is of one of the five routes;
`LinksAssumption` that the grace of a login link is shorter than the idle
lifetime of a session, and that shorter than its whole lifetime;
`ConfigAssumption` that the empty text is not a knob's value, but what clears it;
`LiveAssumption` that a threshold the panel's form sends is a whole number of
hundredths: it is shown with two decimals (`GATE_THRESHOLD_DECIMALS`) and its
field steps by 0.05; `SetupAssumption` and `CheckoutsAssumption` which families
there are and what an earlier version can have left in a checkout;
`FoldersAssumption` that a WAV the tab finds has transcripts of the engines, one
of them the primary, none stamped at the same moment as another; and, of the
transcript cache, `DisksAssumption`: what earlier runs left was heard to the end
of the WAV and lies under its own model, and a directory has an entry; and
`RequestsAssumption`: the languages of a meeting are a list of codes. One theorem
takes a hypothesis of its own: `CaptionedWhole` has a steady engine
(`Unsteady = FALSE`), for without it the property is false (disagreement 2 of
section 6, and the run captions_unsteady).

Where a run checks a conjunction of invariants, the module ends with the theorem
that states the conjunction as the run does: `WholeWavs` (`WavsStayWhole`),
`BooksBalance` (`Bookkeeping`), `CacheSound` (`CacheIsSound`), `RelaySound`
(`RelayIsSound`), `NoneLate` (`NoLateStream`), `RecordsAreTrue`
(`RecordsTellTheTruth`), `SwapSound` (`SwapIsSound`), `SignInsHold`
(`SignInHolds`), `SettingsAlwaysHold` (`SettingsHold`), `AppliedStays`
(`AppliedIsInForce`), `FramesAlwaysArriveOnce` (`FramesArriveOnce`),
`DevicesAlwaysReleased` (`DevicesAreReleased`), `MenuAlwaysTells`
(`MenuTellsMode`), `MeetingAlwaysRunsOnce` (`MeetingRunsOnce`), `NobodyOrphaned`
(`NoOrphan`), `HostMenuTells` (`HostMenuIsTrue`), `BootsRunWhole` and
`LaunchesRunWhole` (`RunsWhole`), `SuccessIsInstalled` (`DoneMeansInstalled`),
`ChoicesSurvive` (`ChoicesKept`), `ListIsOfDisk` (`ListingIsOfDisk`), `RunsAnswer`
(`RunAnswersItsRequest`), `ListingsAreTrue` (`ListingsTellTheTruth`),
`TranscriptsAreWhole` (`EntriesAreWhole`), `CaptionedWhole` (`CaptionsAreWhole`),
`PeopleAreWho` (`WhoIsWho`). The parts keep theorems of their own.

**TapProofs.** *TapFanOut.* `TypeOK`, `OneWriter`, `NoStrandedRecord`,
`ByteCountExact` are invariants and `OpenRecordIsOwners` an action property of
`TapSpec`. None of the three is inductive. The strengthening `IInv` adds what
the handler's position says of the rest: a connection has a handle only between
its open and its close (`HandleInv`); a record points at a file somebody minted
(`RecordInv`); an open handle belongs to the owner of the record, or to a
connection that found the id taken and records beside the index under a name of
its own (`WriterInv`, `OwnerInv`); a connection about to reopen owns the record
it found (`ReopenInv`); a name nobody wrote to has no frames (`CountInv`); a
record whose connection is closed is closed (`ReleasedInv`). The index calls
are four lemmas (`PruneKeepsOpen`, `TryResumeResult`, `RegisterNewResult`,
`ReleaseResult`), each step of a connection is one.

`MarksBalanced` and `GuardBalanced` have an invariant of their own (`BInv`): apart
from the cardinalities, it says that whoever has a mark or a guard is at a
stage that leads to `Detach`. The composition's walks are not in `TapSpec`, so
there the guard is exactly the count (`GuardExact`).

*SessionRoutes.* What is proved of the taps alone holds beside the
destructive routes (`TapsStayWhole`), the guard's integer and the job slots
implement SessionLock (`RoutesImplementLock`, from which `LockIsExclusive`), and
the files are kept (`GuardedTapsKeepTheirWavs`, `BatchesKeepTheirWavs`). The
integer alone is not inductive: `TapRegistry` grants a second claim of a
claimed session. What rules it out is the job slot, so the invariant `RInv` ties
three things together: who holds a session's slot (`SlotInv`), which request is
inside its claim, and what the integer reads (`GuardInv`). To those come
`FreshInv`, that a guarded tap is a fresh one whose WAV is its own, and
`NamedInv`, that the WAV a request names belongs to a tap that is gone. A bulk
reclaim holds no slot and claims nothing, so for it the argument is another one:
the session it walks has a transcript or a guard of zero at every step that
unlinks. Each step of the composition is a step of SessionLock or none of it
(`StepKeepsLock`).

**ServerProofs.** The model cache, the login, the operator's configuration, the
live settings, setup, the listing and people, one section each.

*ModelCache.* `LeaseIsUsable`, `OneCopy`, `SlotsExact`,
`NoStrayWeights` of `Spec`. The argument is that an eviction takes idle keys
only (`IdleIsNobodys`), and that the count of a key moves with the set of its
uses (`CountMoves`). `CachedInv` says that a cached object is loaded and
cached under its own key, which is what makes the release by object identity
find the right one.

*LoginLinks.* `SignInHolds`. That a link signs in once is a count:
the cookies issued and the links not spent yet are never more than the links
minted (`LinksLast`). That the tab stays signed in needs the state of three
places, the link, the session and the browser's jar: a link spent within its
grace has its session (`GraceInv`), and the tab's session is there for as long
as it should be, with the times the tab believes (`TabInv`). When the tab may
draw the password dialog needs that an open tab has a cookie, dead or alive,
unless a navigation cleared it (`PromptInv`).

*OperatorConfig.* `SettingsHold`. An entry of the cache is under a signature the
file had; if it is the one it has now, the entry is what the file holds
(`EntryInv`). The same is said of a read between its stat and its store
(`ReadingInv`), which is where the two orders of a save and a read meet: a job's
read runs only where no two writes fall in one tick. A file replaced behind the
code's back ends both, as the property says.

*LiveSettings.* `AppliedIsInForce`. While no start has failed, the panel shows
the configuration as displayed (`Seeded`), the configuration carries what was
picked, and the engine was started with it (`LiveInv`). That an echo of the form
restarts nothing rests on the display being a fixed point: rounding to
hundredths does not move a hundredth.

*Setup.* `DoneMeansInstalled` and the action property `ChoicesKept`, for any
number of launches, pickers, versions and checkouts. The invariant is about the
stamp (`StampHolds`): one of this version names what is installed, as long as the
package was there ever since. A picker goes on over that: pip takes nothing away,
so what another picker has installed stays (`RanIsInstalled`). An earlier form of
the property, without `misled`, held on two launches and could not be proved: the
third launch can trust a stamp that outlived its package (disagreement 18 in Section 6).
`ChoicesKept` rests on two lemmas about the functions: what a selection is read
as is read back as such once saved (`LoadIsStable`), on any machine, and a merge
of /setup leaves the reading of a family it does not manage (`MergeKeepsOthers`);
and on `AloneIsAlone`: a picker that shares the checkout with no other has in its
hands what is on disk.

*SessionListing.* `ListingIsOfDisk`, for any recordings, engines, fetches and
changes. `past` is the history of what the folder showed; what is kept in a tab
is the list of one moment under the digest of another, no later one
(`WalkedAfter`). A digest counts transcripts and does not name them; it is enough
because of what stamps say: a transcript keeps its stamp while it stands, so
whoever showed it had the same primary and no transcript that is gone since
(`StampsStay`), and between two moments with one stamp transcripts were added
only (`PastGrows`). Equal counts then are equal sets (`BriefTellsAll`), the two
moments show the same folder, and what is between them does, unless it came
back.

*People.* `WhoIsWho`, an invariant and two action properties at once, for any
taps, names, merges, diarizations and absorbed sessions. `PeopleInv` says what the
file cannot be read back without: no identity has two people, an id is one that
was given, and nobody is there with neither identity nor name. Each handler is one
lemma, which shows the invariant and what the step may not do: who leaves the
registry is in no mapping, because a merge repoints before it saves and only
moves mappings to someone who stays (`RepointKeeps`), and a chosen name goes only
into a survivor with all the identities (`MergeKeeps`). That whoever a transcript
names is counted follows from the two readers alone: both cross
`_mapping_applies`.

**JobsProofs.** *EngineSwap.* `SwapIsSound`. `ThreadOK` says who answers for a thread
from its birth on: nobody may lose it between the bind, the flag and the queued
stop. It needs what a start that holds a channel's lock has begun (`HoldingOK`,
`LockOK`), which kind of thread a channel and a stop refer to (`EngineOK`,
`CallOK`), and, as long as nothing overlaps a swap, which channel
`recorder.live` is at each of its places and from when on the old engine is down
(`SwapOK`).

*SessionJobs.* `TypeOK` and `SlotTellsTheTruth` with `Prepared`: a job
has the selection or transcript its next step reads. `StaleSummaryIsFlagged`
with `Stamps`: no stamp is later than the clock, and a text that carries the
transcript's stamp is the transcript's. `DoneMeansSummarized` with `Progress`,
one conjunct per stage of a pipeline: what it left is still there when the next
stage begins, because the slot keeps every other job out.
`ReattributionKeepsWords` needs only the types: the step that ends a re-merge is
the job's own, and it writes when there are words left.

**LiveProofs.** *TapRelay.* `RelayTypeOK`, `GateFitsRelay`, `NothingLeaks`, `OneSocket`.
The handler and the reconnect task meet in `_attach`, so most of the invariant
is about who is in it: the handler's own attach is over before a reconnect is
ever scheduled (`AttachInv`), a reconnect works on a tap that is bound to
nothing (`ReconnectInv`), an unbound tap has no relay or a dead one
(`BoundInv`), a gate under construction is for the configuration the tap is
bound to (`GateInv`). `Accounted` names every socket: the relay's or the stale
relay's, and the stale one is not open.

*LiveChannel.* `ChannelTypeOK`, `OneEngine`, `StopTellsTheTruth`. The
strengthening is `VictimInv`: the child a stop is waiting for was spawned, and
is dead once the wait is over. Children are not reborn, so a stop that still
finds its victim in `_proc` when it writes writes over a dead child.

**TrayProofs.** *TapSession.* `TypeOK`, `MutedIsClosed`, `DisposedOpensNothing`,
`StreamFollowsGate`. The events of one callback are a sequence, and the
invariant says what it may be: openings and closings alternate, the last of
them is what became of the gate (`EventsInv`), at most one opens an utterance
(`Room`). `OwnerInv` ties disposal to the owner's last steps, and `Unflipped`
says that a mute that never changed is still what the seed wrote.
`MutedIsClosed` rests on an order: the volume thread writes the mute before it
takes the lock to close what is open, and the capture thread looks at the mute
under the same lock in which it opens.

*TapStream.* `FramesArriveOnce`, for any number of frames and breaks and any size
of the ring. `OrderInv`: what was sent comes before what is buffered, with the
frame in hand between, whatever was popped meanwhile. `RunInv`: a ring that has
not overflowed is a run of frames up to the latest. `GapInv` then counts: every
gap in what was sent is of a break, and so is the one before the frames not sent
yet; a link that is broken has one to spare, to which the frames confirmed into
the dead socket go. The lemmas on `Gaps` say what an append, a cut and a
concatenation of a run do to the number of gaps, so no induction is needed.

*TrayRuntime.* `DevicesAreReleased`, `MenuTellsMode`, `MeetingRunsOnce`, for any
number of clicks, launches, polls and sets of devices. `RuntimeInv` rests on one
observation the code never states: there is one task at a time (`OneFlow`). A
click is possible only in a menu that is not busy, and such a menu is shown only
when the one task there was has said what it came to, that is, when nothing but
the last step of an End is left (`PostsInv`, `Silent`). So a task that works has
nobody to overtake it but the quit, and `HandInv` can say for each place a task
is in what is open, in whose hands, and that nothing else is. `HeldInv` is the
converse: what is live belongs to the meeting, the room or a task about to
publish it; what drains, to a task; what closes, to an abandoned task, to the
stage the quit is in, or to a wait of it that ran into its cap. `QuitInv` keeps
what the quit has behind it: each stage it has left, or skipped because there
was nothing to wait for, is empty, unless a cap was hit or something was clicked
since, which are the two exceptions `ShutdownIsLast` names. `TriggerInv` and
`SessionInv` tie the pipelines to the state file: what was triggered is settled,
dropped, or the saved session that exactly one End polls; a launch that follows
it does not trigger, and an End that is still to trigger has a session never
triggered, with its set drained.

**RecorderHostProofs.** `NoOrphan`, `HostMenuIsTrue` and `RunsWhole`, for any
releases, clicks, launches and installs. The code has no lock that keeps two
boots apart; what does is that Start Recorder is offered in three states only,
none of which a working boot leaves and none of which a Recorder runs in. So
`WorkInv` says: one boot works at a time; while it does the state is
`preflight`, nothing but a quit tells it to stop, and there is no Recorder but
its own. `LifeInv` says who has what lives: that boot, the host, or a kill that
has begun. `StateInv` is what the state speaks of, the verdict of an exit that
is not given yet among it (`PendingInv`). These three hold until a Stop Recorder
crosses an exit: the click was on a Recorder, the stop finds none, and the late
verdict offers a start while the first stop still kills. What holds crossed or
not is `NamesInv` (each boot's child is its own), `ExitInv` (nobody listens to a
child whose boot has not said running), `QuitInv`, and `PostsInv`: the last post
is the state.

`RunsWhole` needs two more: `IntactInv`, that a runtime with an interpreter and a
wheel is whole unless a tidy-up has begun on it, and `StagesInv`, that a boot
copies only over what is not intact and goes on only with what is. Both
are about what is on disk, which a launch inherits, and both need that nobody
deletes under a boot, that is, one boot at a time. What two boots of a crossed
stop leave on disk outlives the tray that crossed, whose `crossed` a launch
forgets; so `BootsRunWhole` assumes that no stop crosses, in any launch, where
the runtime is a copy. `LaunchesRunWhole` has it for the clicks the run allows
there (`MaxCopyClicks = 0`), where nothing is ever stopped (`Unclicked`), and for
any number of launches.

**TranscriptCacheProofs.** `TranscriptsAreWhole`, `RunsAnswer` and
`ListingsAreTrue`, for any catalog, requests, rules, disks, growths, repointings
and listings, from one invariant. Two writers migrate one legacy sidecar without
a lock, so `WritersOK` says of each what its next file operation rests on: what
it is about to move is the sidecar it looked at, or nothing, since the other
writer can move it but not change it; what it is about to point at is there,
since no writer takes an entry away (`Stays`). `HiddenOnlyByMove` is the exception
`NothingHidden` allows, made exact: a transcript that neither layout shows, with
the directory made and empty, is one a writer is about to move or to give up.
`JobOK` carries an answer from the cache lookup or the hearing to the merge: a
re-filtering changes the split and the rules only (`RefilterIs`), and the
fingerprint a model was started under bounds from below what it heard.
`MemoOK` is the argument for the order key, marker, listing: whatever is written
after the key was taken outdates the key, so a key that still holds vouches for
what was read under it. That the winner is one of the candidates needs the
least element of a set of indices (`MinIsIn`), from the well-foundedness of <.

That an entry is whole is also about what a run computes, so the proof takes the
selection of sequences apart: what a rule lets through and what it drops are
together the segments it was given, in order of time and none of them twice
(`SplitIsWhole`), any number of edits later. `Sorted` is given by what a sort in time
order returns; no segment is there twice, so there is one such order. The models a request needs are a fold over the
languages of the meeting; that they are models of the catalog, at least one, is
proved by induction on the number of languages folded.


**CaptionsProofs.** The live captions of one utterance, for any number of frames,
any gate and knobs, any lines and words, and both engines unless said.
`GateLetsAllThrough`, `CommittedStays`, `EachWordOnce` and `CleanEndSaysAll` hold
however the engine hears: all speech leaves the gate once and in order; a committed
word is not taken back; the relay says each word of the lines it was shown once, in
order, however the link or the close cuts the answers off; and once it has read the
last answer and is closed it has said the lines of the session, all of them and
nothing else. `CaptionedWhole` adds the last step, from the session to the
microphone, and is `CaptionsAreWhole` as the run checks it.

The invariant has four parts. `GateInv`: what the gate holds back, the pre-roll and the frames of a candidate
after it, is a stretch of the tap that ends with the last frame, and an open gate
holds back nothing. A false alarm gives the frames of the candidate back to the
ring; the lemma on each of the three verdicts (`StartKeeps`, `EndKeeps`,
`NothingKeeps`) shows that what is held stays one stretch. `WindowInv`: a window's
buffer is as long as its audio, and one that has no line has decoded nothing, which
is what makes `_commit_words` append and never replace. `RelayInv` speaks of all the
answers under way at once: the lines the relay has are the beginning of those in
the first answer, they of the next one's, and the last one's of the session's
(`Chain`), where the beginning of a list of lines is one in which the last line may
be shorter. A link that breaks cuts the queue at its end and leaves a chain. What
the relay has said is the text of its lines but for the end of it, and `Hear`
moves it forward because a longer list of lines says more (`TextsNext`). An answer
marked final is the last one and shows all of the session, itself or by the one
before it (`LastEnds`): the first is the in-process engine's, the second
whisperlivekit's.
`WholeInv` is the argument why a steady engine drops nothing. The audio under way is
what follows the frames the window was fed, then the marker (`Ahead`); the words
committed spell all frames decoded but the ones two decodes have not agreed on,
which the buffer still has (`WindowAt`). A roll-over keeps that, since with a steady
engine `_strip_overlap_prefix` takes off what the new window repeats of the last
one, or nothing where the last one's newest word was misheard (`StripAt`): a word
may be said twice, none is dropped. The rest is arithmetic of where the window
starts, and the close, which commits all.

What a fold over the lines returns is proved for every list of lines, by induction
on the number folded (`TextsIs`, `EmitLinesIs`); `NatInd` has the induction from the
well-foundedness of <, since it needs no operator as a parameter.

What stays with TLC:

- liveness (`PathSettles`, `EverythingEnds`, `PipelineEnds`, `HostComesBack`): TLAPS has no rules for fairness and ENABLED here;
- `AlgorithmsAreExact`, the one invariant without a theorem: that speech is counted
  once, that the narrowed search answers as the full one, and that what shows as
  installed resolves are statements about sums over sets, floors of middles and
  candidates sorted twice, which TLC checks on all inputs up to a size;
- that a captioned utterance is whole when the engine is not steady is not true, so
  it is neither proved nor checked, and the run captions_unsteady shows why.

No module uses a RECURSIVE operator.

## 6. Known disagreements

Four places where a run shows the code doing other than what the code's own
comments, docs or tests say:

1. `resume_race`, `OpenWavStaysOnDisk`. A tap that resumes an utterance takes
   neither the in-flight mark nor the guard (`tap_fan_out.py:301`). A delete
   whose preflight ran just before unlinks the WAV it is writing.
   `routes/guards.py:13-15` calls that race closed.
2. `captions_unsteady`, `NoWordDropped`. Stitching a new window to the last one
   strips the words it repeats by position (`_moonshine_window.py:299`); a
   decode that mishears the overlap makes it strip a word that was never said.
   `_moonshine_window.py:135-137` says that it errs on the side of repeating.
3. `tray_quit`, `QuitIsResumed`. A quit cancels the flow of the meeting that is
   being processed (`BridgeRuntime.cs:1105`), and the flow's finally clears the
   state file (`BridgeRuntime.cs:936`), so the next launch has nothing to
   resume. `BridgeRuntimeResumeTests.cs:4` is about a tray "that was quit
   mid-pipeline".
4. `backends_lost`, `LossIsTold`. Whether speech models were lost is judged by
   what is on disk when a boot begins. A repair deletes the runtime they were in
   (`RuntimeCopy.cs:115`); when its copy then fails, the retry by Start Recorder
   finds nothing there, takes it for a first launch and says nothing. A crash
   between the rename and the notice does the same. `RuntimeCopy.cs:33-35` says
   that the operator is offered the install picker exactly when a copy was made
   over an interpreter that had been installed into.

Others met while modelling; TLC showed those marked (TLC) when the exception
that a property makes for them was dropped. The properties are stated around
them, and the module in brackets has the behaviour where there is one.

*Taps, sessions and jobs*

5. Bulk reclaim tests a session's age and its job slot, then deletes
   (`session_maintenance.py:640-650`), with no guard and no slot. A tap that opens
   in between loses its WAV, and a batch job that starts in between loses its
   input; `routes/sessions.py:146-148` says live or busy audio is never touched
   (TLC) [SessionRoutes: `Reclaimed` excepts it].
6. A pipeline strips anew, then fails half-way through its transcribe stage. A
   diarize run re-merges the stored selection over the half that has sidecars
   and overwrites the transcript (`session_merge.py:582`);
   `session_merge.py:568-571` says that it never removes speech (TLC)
   [SessionJobs: `ReattributionKeepsWords` is what does hold].
7. After a restart in the middle of a pipeline there is no record, and the
   poll answers done with the summary of an earlier run if there is one
   (`routes/tap.py:255`) [SessionJobs: `Restart`].

*Transcript cache*

8. A migration that fails rolls back the directory it made (`wav_cache.py:689`),
   so a memo keyed by the directory's state can meet the same key with another
   content; `sessions.py:467` says a stale row cannot be served.
9. mlx_whisper records the prompt with the hotwords folded in, and the lookup
   compares it with the prompt alone, so hotwords make every lookup a miss
   there (`wav_cache.py:376`).
10. An operator's pin and the end of a run repoint the primary from two threads
   without a lock (`wav_cache.py:478-481`), and a pin takes no job slot while a
   legacy migration may be under way: the later write wins.

*Live transcription*

11. The pump of a replaced child checks `_proc` and writes `info` in two steps
    outside the lock (`live.py:1237`, `live.py:1243`), so it can stamp the fresh
    child's state. `tests/test_live_supervision.py:277` tests the check without
    the interleaving (TLC) [LiveChannel: `DiesUndisturbed` excepts it].
12. Two overlapping requests for the other family plan against the same channel
    (`routes/live.py:78`), and one of them starts its engine in a channel that
    `recorder.live` no longer is [EngineSwap].
13. A Moonshine channel that was restarted while it came up can serve with its
    info left at "starting" (`live_control.py:204-206`) (TLC) [EngineSwap].
14. A swap back from Moonshine with the panel's form writes the echo of what
    the panel shows, the language "en" and the gate "tapscribe", over what the
    operator had chosen; `moonshine_live.py:399-403` and the docstring of
    `begin_transition` say the choices are carried (TLC for the language)
    [LiveSettings: `EchoIsFree` excepts it].
15. After a failed start the gate fields of info are those of before, and a
    retry from the re-rendered form takes the change back; `_mirror_gate_info`
    says it never reads a stale value. A panel whose gate is "backend" is
    answered 400 on a swap to Moonshine until the gate is changed. A request to
    change the confidence of a running Moonshine is dropped without a word.

*People, setup, login, configuration, listing*

16. A mapping of a Voice counts its Person although the slug it names has
    become ambiguous; a sidecar that is lost after a re-diarize makes a
    superseded mapping apply again; a mapping's stamp is compared with the run
    of the sidecar, not of the transcript; to clear or to re-map leaves a typed
    Person behind who is attached to nothing; a crash between the write of a
    session's map and of the registry leaves an id nobody has
    [NameResolution, People].
17. /setup offers the mlx backend for Voxtral while the picker declares cpu
    only: the install resolves no extras and reports "done".
18. The check that the package is installed "keeps us from trusting a stamp that
    outlived its package" (`install_picker.py:1359-1362`). It does not once the
    package is back: uninstalled with its stamp left, then installed for other
    extras by a picker that is killed before it writes its own stamp, or cannot
    write it; the next launch with the old extras finds the package and the old
    stamp, and skips pip with the extras missing (TLC) [Setup: `misled`].
19. A client of /setup that goes away frees the slot, and the picker it started
    runs on; `routes/setup.py` says that concurrent installs are refused. A
    terminal picker and /setup overwrite one another's selection [Setup].
20. A file that is replaced within a tick of a coarse clock by one with the
    same size and a reused inode would be served from the cache;
    `config_store.py` says one's own write is never served stale. An override
    of source "local" over a global model of free text is accepted and refused
    at load (`routes/summarize.py:70`), as are an empty command and an empty
    base_url [OperatorConfig].
21. A list that was fetched after the folder changed is kept under the digest
    that was polled before, for as long as the tab lives: when the folder comes
    back to what it was, the wrong list is shown (TLC). A poll whose open WAVs
    (`routes/state.py:50`) are older than its walk makes a digest that another
    moment shares (TLC). That a WAV is open is not in the digest, so a list
    fetched meanwhile may leave it unplayable. `sessions.py:729-732` says that
    a cached list cannot survive a real change. A re-split transcript keeps its
    stamp, so the digest does not move although the number of segments did
    (`wav_cache.py:520-530`) [SessionListing: `CameBack`, `blurred`].

22. A browser that sends no Fetch Metadata does not mark its poll as the page's
    own (`auth.py:91-92`), so once another tab's navigation has cleared the dead
    cookie, the open tab's poll is challenged and draws the password dialog.
    `auth.py:235-238` says that a browser's background request is never
    challenged, cookie or not; `auth.py:75-80` names plain http to a LAN address
    as the place where there is no Fetch Metadata, and
    `tests/test_auth_cookie.py:75-80` has the challenge of a request without it
    (TLC) [LoginLinks: `PromptIsAfterClearing` says when].

*Tray bridge*

23. The drain budget is looked at between two connections only
    (`TapStream.cs:265`). A Recorder that accepts and then does not read keeps
    the send, and with it the drain, for ever; `TapStream.cs:30` says never
    (TLC, without the fairness of sends).
24. An overflow during an awaited send drops the frame that is being sent, and
    the pop that follows removes the next one, unsent (`TapStream.cs:232`)
    (TLC) [TapStream: `OneGapPerBreak` asks for no overflow].
25. A last frame and the end of the utterance that come between the pump's empty
    peek and its look at `_draining` close the stream as drained with a frame in
    the ring (`TapStream.cs:239`) [TapStream].
26. The reset of the gate is raised before the mute is in force
    (`TapSession.cs:208`), so a callback in between consumes it and opens the
    gate again. After the unmute the first stretch of speech goes nowhere, which
    is what `TapSession.cs:49-50` rules out (TLC). A mute and an unmute around
    one callback can leave the gate and the stream apart: the stream is
    forgotten without a drain when the gate opens again over one that is open
    (`TapSession.cs:185`) [TapSession: `StreamFollowsGate` asks for no mute].
27. A callback that is running when End detaches its handler may open an
    utterance after `DrainAllAsync` took its snapshot; it is not waited for
    (`TapSession.cs:309`) [TapSession: `DisposedOpensNothing` starts at the
    dispose]. The constructor reads `IsMuted` and writes `_muted` after the
    handlers are attached, so it can overwrite a mute (`TapSession.cs:71-75`)
    [TapSession: `SeedRead`, `SeedWrite`].
28. A Start from an attached tap whose listing of the devices throws leaves the
    idle menu over a tap that streams, "with no way left to disconnect" it,
    which `BridgeRuntime.cs:380-384` rules out for a refused selection only
    (TLC) [TrayRuntime: `unlisted`].
29. Posts of a flow that fails during a quit enable the menu's commands again
    (`BridgeRuntime.cs:297`, `:309`, `:931`, `:946`), while the comment at
    `BridgeRuntime.cs:1107` says they are off for the whole teardown; an End or
    a Disconnect that is clicked then is not waited for, and the shell may be
    let go with devices open (TLC) [TrayRuntime: `ShutdownIsLast` asks that
    nothing was clicked]. A second Quit click while the first is at work lets
    the shell go at once; `ITrayView.Shutdown` is to be called at the end.
30. A crash between the save of a meeting and its trigger: the next launch
    polls a pipeline nobody started, is told "idle" and forgets it
    [TrayRuntime: `Poll`].

*Bundle*

31. A Stop Recorder that crosses the Recorder's own exit: the exit's callback
    takes the handle between the menu's question and `Stop`
    (`HostController.cs:317`), the menu says stopped and a start may follow; the
    callback's late verdict then sets "stopped" over that start's "Preparing"
    and a second one is offered. Two Recorders are booted, of which the tray
    holds one (TLC) [RecorderHost: `crossed`].
32. A tidy-up that is cut short leaves a part of the older release's runtime
    under its name, and `IsIntact` looks for the interpreter and the wheel only
    (`RuntimeCopy.cs:191`): whoever goes back to that release boots it. For
    `RuntimeCopy.cs:53` the rename is the marker of a whole copy (TLC) [RuntimeCopy: `half`].

## 7. Abstractions

Common to all modules: names, text, audio and numbers that no property looks at
are model values or absent. A call that cannot suspend is one step. Where
nothing survives a restart of the Recorder, the model starts empty and has none;
SessionJobs, Setup, LoginLinks and TrayRuntime have restarts or launches.

- TapFanOut, SessionRoutes. Time is the `aged` flag. The roster's write is one
  step, and of the roster only the folder it makes is kept (its entries are
  People's). A connection mints at most one WAV, whose name is the
  connection's. Toggling the record preference in the middle of a connection is
  not modelled: the code reads it when the tap opens. Only the last rmdir of a
  delete can fail. Absorb is one step, although a reclaim's thread could run
  during it. Two session ids minted within a second, which the code tells apart
  by a suffix, are just two ids. The frames a receive loop still had when its
  task was cancelled are covered by `Detach` coming at any moment. A delete of
  one WAV names one that a listing has shown.
- TapRelay. `stale.close()` swallows the cancellation of the reconnect task,
  as in the code; the configuration is compared by the number of the start.
- RecorderHost. What a boot says after it published its child cannot throw; a
  kill always ends its child; the two reads of `OwnsRunningRecorder` are one
  step. There is one port, and whoever else is on it comes and goes. A loss of
  files that leaves interpreter and wheel is not modelled: `IsIntact` is a check
  of names by design. Boots that copy at the same time do so step by step.
- LiveChannel. One channel. The plan of an apply is a choice between "as
  requested" and "restart". A child always dies at the SIGKILL.
- EngineSwap. The WhisperLiveKit channel starts in one step. A request that was
  answered is forgotten.
- LiveSettings. Applies come one after another. One knob in milliseconds stands
  for the three; a threshold is in thousandths.
- ModelCache. Callers are unconstrained threads, although the program runs them
  on one model thread: the cache's own docstrings promise the former.
  `clear_cache`, which takes models from running jobs by design, is left out.
- Captions. A frame is one word; the detector answers each of its windows as it
  likes. The engine hears a frame or mishears it, and a decode depends on the
  window alone. Whisperlivekit repeats its lines and revises the last.
- TranscriptCache. A fingerprint is the number of times the WAV grew; what is
  heard of it is a range of segments; a rule matches one segment. Reads of one
  file are atomic, since every write replaces its file.
- SessionJobs. A transcript's words are the set of files merged into it; a
  sidecar exists or not. Date ranges, the re-transcription of one WAV
  (`transcribe_one`), suppressed and empty results are left out, and deletes of
  recorded audio are SessionRoutes'. A clip is named by its stretch of speech
  and the strip that cut it.
- People. Colours, notes and the free text of a typed name are left out.
- Setup. An install by pip succeeds or fails as a whole; the numbered prompt
  and the menu with arrow keys end in the same selection. The first format of
  the selection is older than the Moonshine family, and an earlier version has
  stamped none but itself (`CheckoutsAssumption`).
- LoginLinks. One browser with one tab, which a link opened; navigations may be
  another tab's. Password and bearer are Section 8's: a browser that was given the
  password sends it with every request, and is never refused. Whether it sends
  Fetch Metadata is settled by its address and its age, so it is chosen once.
- OperatorConfig. One bounded knob and the summarizer default stand for the
  settings; values are those that parse, that are out of bounds, and that do
  not.
- SessionListing. One session and one tab.
- TapStream. Frames of one size; the ring's bytes are a count. Sends into a
  broken link may succeed any number of times before one fails.
- TapSession. Levels and pre-roll: the gate answers what a callback's frames
  may make of it. The re-tuning of the gate while it runs changes no state
  modelled here.
- TrayRuntime. A process has one Quit. Devices are named by the click that
  opens them, and open or fail as a set; what a partial failure says is a
  notice. Statuses, notices, past meetings and settings are left out.

## 8. Not modelled

`PROJECT.json` gives the reason for each component. In short: the dashboard's
views, signal processing and machine learning behind an interface (silence
stripping, the transcriber and diarizer adapters, what a summarizer sends), the
patterns of the hallucination rules and of the live guard, request filters over
constant secrets (password, bearer, TLS), I/O with the outside (probes,
packaging), the wiring of the application, and the platform shells of the
bridge. The SpatialChat bridge is a program of its own beside the Recorder, with
logic worth a model: it comes next in the plan. Of the bundle's supervisor, the
command lines, the login link, the rotation of its log and the reapers are left
out.

## 9. Plan

In the order of what the program exists for, which is not losing a recording:

1. *Done.* Taps, sessions and their routes with the abstract SessionLock; the
   relay, the live channel, the model cache, the jobs; the bridge's stream and
   session; their proofs.
2. *Done.* The transcript cache, the captions of an utterance, people and
   names, setup, login, configuration, live settings and swaps, the listing;
   the tray bridge's runtime and the composition of its layers; the bundle's
   supervisor.
3. Proofs. *Done:* the refinement of SessionLock for any number of taps and walks,
   and the safety of SessionRoutes with it; EngineSwap, LoginLinks,
   OperatorConfig, LiveSettings, Setup, the listing; the frames of TapStream;
   TrayRuntime; RecorderHost and the copies it boots; the transcript cache;
   people. *Next:* the abstract utterance of item 4.
4. An abstract utterance, from the speaker's gate to the WAV: a bridge stream
   over a connection into the fan-out, in order and without repeats, with
   TapStream and TapFanOut as its two halves.
5. The SpatialChat bridge, and the past meetings and settings of the tray
   runtime.
