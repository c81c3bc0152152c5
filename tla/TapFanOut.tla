----------------------------- MODULE TapFanOut -----------------------------
(***************************************************************************)
(* The lifecycle of /tap connections: routes/tap.py (the websocket route)  *)
(* and tap_fan_out.py (open, write_frame, close), over the utterance index *)
(* of recorder.py and the two registries of tap_registry.py.               *)
(*                                                                         *)
(* The event loop is one thread: a coroutine that runs between two awaits  *)
(* excludes every other coroutine, but not the worker threads of the       *)
(* destructive routes (SessionRoutes).  "loop" is the connection inside    *)
(* such a stretch, or Nobody; a step of any other coroutine needs it to be *)
(* Nobody.  Inside a stretch there is one action per call that a worker    *)
(* thread can observe or disturb.                                          *)
(*                                                                         *)
(* A connection mints at most one WAV, whose name carries a fresh uuid:    *)
(* the connection's own name stands for it.                                *)
(***************************************************************************)
EXTENDS TapRegistry, FiniteSets

CONSTANTS
  Conns,      \* /tap connections, each used once; also their owner tokens
  OldWavs,    \* WAVs recorded before this process started
  Utts, Idents, NoRecord,
  RecordPrefs, \* the values the tap settings' record preference takes
  MaxFrames,  \* bound on the frames one WAV receives
  Nobody,     \* the event loop is between two stretches
  NoWav,      \* a connection with no WAV handle
  NoSession   \* the folder of a file that does not exist

Wavs == Conns \cup OldWavs

VARIABLES
  byId,       \* the utterance index
  loop,       \* the connection that holds the event loop, or Nobody
  phase,      \* where a connection is in its handler
  tap,        \* what it asked for: utterance, identity, session, record?
  marked,     \* connections whose _prune_mark is set
  guarded,    \* connections whose _destruct_guard is set
  handle,     \* the WAV a connection has open, or NoWav
  bytes,      \* _bytes_received, in frames
  rows,       \* connections with an ActiveStream row
  home,       \* the folder that holds a WAV file, or NoSession
  frames,     \* what was written to a WAV, whether or not it has a name
  dirs        \* session folders on disk

Index == INSTANCE UtteranceIndex WITH Owners <- Conns, Folders <- Sessions

ASSUME ConnsAssumption == /\ IsFiniteSet(Conns)
                          /\ Conns \cap OldWavs = {}
                          /\ Nobody \notin Conns
                          /\ NoWav \notin Wavs
                          /\ NoRecord \notin Index!UtteranceRecord
                          /\ NoSession \notin Sessions
                          /\ MaxFrames \in Nat
                          /\ RecordPrefs \subseteq BOOLEAN

tapVars  == <<byId, loop, phase, tap, marked, guarded, handle, bytes, rows>>
fileVars == <<home, frames, dirs>>
fanVars  == <<tapVars, fileVars, registryVars>>

Claim == [utt: Utts, ident: Idents, sess: Sessions, record: RecordPrefs]

Phases ==
  {"idle",       \* not connected
   "accepted",   \* session resolved, ws.accept awaited
   "reopen",     \* try_resume found the record, its WAV is not open yet
   "join",       \* a fresh utterance, before the mark and the guard
   "create",     \* marked and guarded, before mkdir
   "announce",   \* WAV open (or record off), before the roster and the row
   "open",       \* relay.open() awaited, then the receive loop
   "unwind",     \* open raised: _close runs without leaving the loop
   "finalize",   \* _close: guard and mark are dropped
   "drain",      \* _close: awaiting the relay's close
   "closed"}

TypeOK ==
  /\ RegistryTypeOK
  /\ Index!IndexTypeOK
  /\ loop \in Conns \cup {Nobody}
  /\ phase \in [Conns -> Phases]
  /\ tap \in [Conns -> Claim]
  /\ marked \subseteq Conns
  /\ guarded \subseteq Conns
  /\ handle \in [Conns -> Wavs \cup {NoWav}]
  /\ bytes \in [Conns -> Nat]
  /\ rows \subseteq Conns
  /\ home \in [Wavs -> Sessions \cup {NoSession}]
  /\ frames \in [Wavs -> Nat]
  /\ dirs \subseteq Sessions

Sess(c) == tap[c].sess

(* Old WAVs lie in folders on disk; nothing is connected. *)
Init ==
  /\ RegistryInit
  /\ Index!IndexInit
  /\ loop = Nobody
  /\ phase = [c \in Conns |-> "idle"]
  /\ tap \in [Conns -> Claim]
  /\ marked = {} /\ guarded = {} /\ rows = {}
  /\ handle = [c \in Conns |-> NoWav]
  /\ bytes = [c \in Conns |-> 0]
  /\ frames = [w \in Wavs |-> IF w \in OldWavs THEN 1 ELSE 0]
  /\ dirs \in SUBSET Sessions
  /\ home \in [Wavs -> dirs \cup {NoSession}]
  /\ \A w \in Wavs : home[w] = NoSession <=> w \in Conns

-----------------------------------------------------------------------------
(* The connection c moves from one phase to the next while it holds the    *)
(* loop; Takes and Yields are the two ends of such a stretch.              *)
Within(c, from, to) ==
  /\ loop = c
  /\ phase[c] = from
  /\ phase' = [phase EXCEPT ![c] = to]
  /\ UNCHANGED loop

Takes(c, from, to) ==
  /\ loop = Nobody
  /\ phase[c] = from
  /\ phase' = [phase EXCEPT ![c] = to]
  /\ loop' = c

Yields(c, from, to) ==
  /\ loop = c
  /\ phase[c] = from
  /\ phase' = [phase EXCEPT ![c] = to]
  /\ loop' = Nobody

-----------------------------------------------------------------------------
(* The websocket route resolves the session (the caller says which ones a  *)
(* tap may name), then awaits the upgrade.                                 *)
Accept(c, s) ==
  /\ loop = Nobody
  /\ phase[c] = "idle"
  /\ Sess(c) = s
  /\ phase' = [phase EXCEPT ![c] = "accepted"]
  /\ UNCHANGED <<byId, loop, tap, marked, guarded, handle, bytes, rows,
                 fileVars, registryVars>>

(* _open begins.  A recording tap asks the index first; a record-off tap   *)
(* opens no WAV.                                                           *)
StartOpen(c) ==
  /\ IF tap[c].record
     THEN LET u == tap[c].utt
              i == tap[c].ident
          IN /\ Takes(c, "accepted",
                      IF Index!Resumable(u, i, Sess(c), home)
                      THEN "reopen" ELSE "join")
             /\ byId' = Index!TryResume(u, i, Sess(c), c, home)
     ELSE Takes(c, "accepted", "announce") /\ UNCHANGED byId
  /\ UNCHANGED <<tap, marked, guarded, handle, bytes, rows, fileVars,
                 registryVars>>

(* open_recorder_wav_append: the file may be gone by now, and opening it   *)
(* may fail for reasons of its own.                                        *)
Reopen(c) ==
  LET rec == byId[tap[c].utt]
  IN /\ Within(c, "reopen", "announce")
     /\ home[rec.wav] = rec.sess
     /\ handle' = [handle EXCEPT ![c] = rec.wav]
     /\ bytes' = [bytes EXCEPT ![c] = rec.bytes]
     /\ UNCHANGED <<byId, tap, marked, guarded, rows, fileVars, registryVars>>

ReopenFails(c) ==
  /\ Within(c, "reopen", "unwind")
  /\ UNCHANGED <<byId, tap, marked, guarded, handle, bytes, rows, fileVars,
                 registryVars>>

(* The mark comes first, and stays until _close even when the guard says   *)
(* no.                                                                     *)
Join(c) ==
  /\ MarkSessionInFlight(Sess(c))
  /\ marked' = marked \cup {c}
  /\ \/ /\ RegisterTap(Sess(c))
        /\ guarded' = guarded \cup {c}
        /\ Within(c, "join", "create")
     \/ /\ DestructionInProgress(Sess(c))
        /\ Within(c, "join", "unwind")
        /\ UNCHANGED <<active, guarded>>
  /\ UNCHANGED <<byId, tap, handle, bytes, rows, fileVars>>

(* mkdir, register_new, open_recorder_wav. *)
Create(c) ==
  /\ Within(c, "create", "announce")
  /\ dirs' = dirs \cup {Sess(c)}
  /\ byId' = Index!RegisterNew(tap[c].utt, c, tap[c].ident, Sess(c), c)
  /\ home' = [home EXCEPT ![c] = Sess(c)]
  /\ handle' = [handle EXCEPT ![c] = c]
  /\ UNCHANGED <<tap, marked, guarded, bytes, rows, frames, registryVars>>

(* The disk says no: at the mkdir, or once the record is indexed. *)
CreateFails(c) ==
  /\ Within(c, "create", "unwind")
  /\ \/ UNCHANGED <<dirs, byId>>
     \/ /\ dirs' = dirs \cup {Sess(c)}
        /\ byId' = Index!RegisterNew(tap[c].utt, c, tap[c].ident, Sess(c), c)
  /\ UNCHANGED <<tap, marked, guarded, handle, bytes, rows, home, frames,
                 registryVars>>

(* roster.record_occurrence (which makes the folder of a recording tap if  *)
(* it is not there), streams.register, and the await of relay.open().      *)
Announce(c) ==
  /\ Yields(c, "announce", "open")
  /\ dirs' = IF tap[c].record THEN dirs \cup {Sess(c)} ELSE dirs
  /\ rows' = rows \cup {c}
  /\ UNCHANGED <<byId, tap, marked, guarded, handle, bytes, home, frames,
                 registryVars>>

AnnounceFails(c) ==
  /\ Within(c, "announce", "unwind")
  /\ UNCHANGED <<byId, tap, marked, guarded, handle, bytes, rows, fileVars,
                 registryVars>>

(* write_frame, up to its first await. *)
WriteFrame(c) ==
  /\ loop = Nobody
  /\ phase[c] = "open"
  /\ handle[c] # NoWav
  /\ frames[handle[c]] < MaxFrames
  /\ frames' = [frames EXCEPT ![handle[c]] = @ + 1]
  /\ bytes' = [bytes EXCEPT ![c] = @ + 1]
  /\ UNCHANGED <<byId, loop, phase, tap, marked, guarded, handle, rows, home,
                 dirs, registryVars>>

-----------------------------------------------------------------------------
(* Mutant: only an open that succeeded gives back the mark.                *)
DetachKeepsMark(c) ==
  /\ \/ Takes(c, "open", "finalize") /\ ReleaseSessionMark(Sess(c))
     \/ Within(c, "unwind", "finalize") /\ UNCHANGED marks
  /\ IF c \in guarded THEN UnregisterTap(Sess(c)) ELSE UNCHANGED active
  /\ marked' = marked \ {c}
  /\ guarded' = guarded \ {c}
  /\ UNCHANGED <<byId, tap, handle, bytes, rows, fileVars>>

(* _close, first half: the destruction guard, then the mark. *)
Detach(c) ==
  /\ \/ Takes(c, "open", "finalize")
     \/ Within(c, "unwind", "finalize")
  /\ IF c \in guarded THEN UnregisterTap(Sess(c)) ELSE UNCHANGED active
  /\ IF c \in marked THEN ReleaseSessionMark(Sess(c)) ELSE UNCHANGED marks
  /\ marked' = marked \ {c}
  /\ guarded' = guarded \ {c}
  /\ UNCHANGED <<byId, tap, handle, bytes, rows, fileVars>>

(* _close, second half up to its first await: the WAV is finalised, or     *)
(* unlinked when nothing came, and the record is released either way.      *)
Finalize(c) ==
  LET kept == bytes[c] > 0
  IN /\ Yields(c, "finalize", "drain")
     /\ home' = IF handle[c] # NoWav /\ ~kept /\ home[handle[c]] = Sess(c)
                THEN [home EXCEPT ![handle[c]] = NoSession] ELSE home
     /\ handle' = [handle EXCEPT ![c] = NoWav]
     /\ byId' = Index!Release(tap[c].utt, c, bytes[c], kept)
     /\ UNCHANGED <<tap, marked, guarded, bytes, rows, frames, dirs,
                    registryVars>>

(* The relay is closed (or the wait was cancelled): the row goes. *)
Drained(c) ==
  /\ loop = Nobody
  /\ phase[c] = "drain"
  /\ phase' = [phase EXCEPT ![c] = "closed"]
  /\ rows' = rows \ {c}
  /\ UNCHANGED <<byId, loop, tap, marked, guarded, handle, bytes, fileVars,
                 registryVars>>

(* A closed utterance ages past the resume window. *)
WindowPasses(u) ==
  /\ Index!WindowPasses(u)
  /\ UNCHANGED <<loop, phase, tap, marked, guarded, handle, bytes, rows,
                 fileVars, registryVars>>

-----------------------------------------------------------------------------
(* Everything a connection does once it is accepted. *)
TapStep(c) ==
  \/ StartOpen(c)
  \/ Reopen(c) \/ ReopenFails(c)
  \/ Join(c)
  \/ Create(c) \/ CreateFails(c)
  \/ Announce(c) \/ AnnounceFails(c)
  \/ WriteFrame(c)
  \/ Detach(c)
  \/ Finalize(c)
  \/ Drained(c)

(* Every connection has come and gone: the bound of the model, no halt of  *)
(* the program.                                                            *)
AllClosed == \A c \in Conns : phase[c] = "closed"

TapNext ==
  \/ \E c \in Conns, s \in Sessions : Accept(c, s)
  \/ \E c \in Conns : TapStep(c)
  \/ \E u \in Utts : WindowPasses(u)
  \/ AllClosed /\ UNCHANGED fanVars

(* A stretch of the loop runs to its await, and relay.close() returns: its *)
(* waits carry timeouts.  Nobody has to connect, to speak or to hang up.   *)
TapFairness ==
  \A c \in Conns : WF_fanVars(/\ TapStep(c)
                             /\ (loop = c \/ phase[c] = "drain"))

TapSpec == Init /\ [][TapNext]_fanVars /\ TapFairness

-----------------------------------------------------------------------------
(* Two connections never write the same WAV file, however they share an    *)
(* utterance id: not a zombie and the reconnect that replaces it, not a    *)
(* resume and a duplicate (register_new, try_resume).                      *)
OneWriter ==
  \A c, d \in Conns : handle[c] # NoWav /\ handle[c] = handle[d] => c = d

(* A record marked open belongs to a connection that is still between its  *)
(* open and its close, and carries that connection's utterance: no failure *)
(* in the middle of open leaves a record open for good (the leak _close    *)
(* releases for on every path).                                            *)
OwnedBy(c, u) ==
  /\ tap[c].utt = u
  /\ phase[c] \in {"reopen", "announce", "open", "unwind", "finalize"}

NoStrandedRecord ==
  \A u \in Utts : Index!Has(u) /\ byId[u].open => OwnedBy(byId[u].owner, u)

(* The byte count a connection reports is what its WAV holds, the part     *)
(* recorded before a reconnect included; and so is the count a closed      *)
(* record hands to the next resume.                                        *)
ByteCountExact ==
  /\ \A c \in Conns : handle[c] # NoWav => bytes[c] = frames[handle[c]]
  /\ \A u \in Utts : Index!Has(u) /\ ~byId[u].open
                     => /\ byId[u].bytes = frames[byId[u].wav]
                        /\ byId[u].bytes > 0

(* The registries count exactly the connections that still owe a release:  *)
(* a session nobody holds reads 0 in both, so neither prune nor a delete   *)
(* is refused for ever (the leak tap_registry's docstrings warn of).       *)
Markers(s) == {c \in marked : Sess(c) = s}
Holders(s) == {c \in guarded : Sess(c) = s}

MarksBalanced ==
  \A s \in Sessions : marks[s] = Cardinality(Markers(s))

GuardBalanced ==
  \A s \in Sessions :
     \/ active[s] = Cardinality(Holders(s))
     \/ active[s] = Destroying /\ Holders(s) = {}

(* Whatever connections share an utterance id, and however often it is     *)
(* resumed: a WAV has one writer and its byte count is exact.              *)
WavsStayWhole == OneWriter /\ ByteCountExact

(* Whatever stage an open or a close fails at: what a connection took in   *)
(* the index, the marks and the guard is given back, once.                 *)
Bookkeeping == NoStrandedRecord /\ MarksBalanced /\ GuardBalanced

(* An open record changes only when the connection that owns it closes: no *)
(* other connection's open or close touches it (release, register_new).    *)
OpenRecordIsOwners ==
  [][\A u \in Utts :
       Index!Has(u) /\ byId[u].open /\ byId'[u] # byId[u]
       => /\ phase[byId[u].owner] = "finalize"
          /\ phase'[byId[u].owner] = "drain"]_fanVars

(* A connection that started to close gets to the end of it.               *)
ClosingEnds ==
  \A c \in Conns :
    phase[c] \in {"unwind", "finalize", "drain"} ~> phase[c] = "closed"

=============================================================================
