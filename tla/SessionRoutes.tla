--------------------------- MODULE SessionRoutes ---------------------------
(***************************************************************************)
(* The routes that create, rotate, empty and delete session folders,       *)
(* running beside the taps of TapFanOut: routes/sessions.py,               *)
(* routes/wav.py, routes/guards.py, the session half of routes/tap.py, the *)
(* walks of session_maintenance.py and the job slots of recorder.py.       *)
(*                                                                         *)
(* A destructive request runs its preflight on the event loop and its walk *)
(* on a worker thread; prune, absorb and rotate stay on the loop.  What    *)
(* the walks look at is modelled file by file, so a tap can come between   *)
(* any two of their steps.                                                 *)
(***************************************************************************)
EXTENDS TapFanOut

CONSTANTS
  Workers,   \* requests, each served once, with its worker thread
  Kinds,     \* the routes that are called
  FreeSlot   \* a session's job slot that nobody holds

ASSUME RoutesAssumption ==
  /\ Kinds \subseteq {"session", "audio", "wav", "reclaim", "batch"}
  /\ FreeSlot \notin Workers

VARIABLES
  current,      \* Recorder.session_start
  transcribed,  \* sessions with a merged transcript
  jobs,         \* JobTracker: who holds a session's slot
  wphase,       \* where a request is
  ask,          \* the request: route, session, file
  todo          \* the files the walk found and has not unlinked

routeVars == <<current, transcribed, jobs, wphase, ask, todo>>
vars == <<fanVars, routeVars>>

(* A request that was not made yet, or was answered.                       *)
Nothing == [kind |-> "none", sess |-> NoSession, wav |-> NoWav]

Kind(w) == ask[w].kind
Target(w) == ask[w].sess

RoutesInit ==
  /\ Init
  /\ current \in Sessions \ dirs
  /\ transcribed \in SUBSET dirs
  /\ jobs = [s \in Sessions |-> FreeSlot]
  /\ wphase = [w \in Workers |-> "idle"]
  /\ ask = [w \in Workers |-> Nothing]
  /\ todo = [w \in Workers |-> {}]

FilesOf(s) == {f \in Wavs : home[f] = s}

-----------------------------------------------------------------------------
(* Mutant: the preflight does not look at the job slot.                    *)
PreflightIgnoresJobs(s) ==
  /\ s # current
  /\ \A c \in rows : Sess(c) # s
  /\ ~SessionHasOpenTap(s)

(* refuse_current_or_busy for one session: not the current one, no job, no *)
(* ActiveStream row, no in-flight mark.  It never suspends, so the check   *)
(* and the claim of the job slot after it are one stretch of the loop.     *)
Preflight(s) ==
  /\ s # current
  /\ jobs[s] = FreeSlot
  /\ \A c \in rows : Sess(c) # s
  /\ ~SessionHasOpenTap(s)

Step(w, from, to) ==
  /\ wphase[w] = from
  /\ wphase' = [wphase EXCEPT ![w] = to]

Asks(w, kind, s, f) ==
  /\ kind \in Kinds
  /\ ask' = [ask EXCEPT ![w] = [kind |-> kind, sess |-> s, wav |-> f]]

(* Mutant: the delete does not take the job slot.                          *)
DestroyWithoutSlot(w, s, first) ==
  /\ loop = Nobody
  /\ Preflight(s)
  /\ s \in dirs
  /\ Step(w, "idle", first)
  /\ UNCHANGED <<fanVars, current, transcribed, jobs, todo>>

(* What the three deletes begin with: preflight, the folder exists, take   *)
(* the job slot for the length of the walk.                                *)
Destroy(w, s, first) ==
  /\ loop = Nobody
  /\ Preflight(s)
  /\ s \in dirs
  /\ Step(w, "idle", first)
  /\ jobs' = [jobs EXCEPT ![s] = w]
  /\ UNCHANGED <<fanVars, current, transcribed, todo>>

DeleteSession(w, s) == Destroy(w, s, "claim") /\ Asks(w, "session", s, NoWav)

DeleteAudio(w, s) == Destroy(w, s, "claim") /\ Asks(w, "audio", s, NoWav)

(* The WAV route holds no destruction claim; its caller names a WAV that a *)
(* listing showed.                                                         *)
DeleteWav(w, s, f) ==
  f \in FilesOf(s) /\ Destroy(w, s, "scan") /\ Asks(w, "wav", s, f)

(* Bulk reclaim, for one of the sessions it walks: busy sessions are left  *)
(* out by a snapshot taken on the loop.  Neither slot nor claim.           *)
StartReclaim(w, s) ==
  /\ loop = Nobody
  /\ s # current
  /\ jobs[s] = FreeSlot
  /\ \A c \in rows : Sess(c) # s
  /\ Step(w, "idle", "weigh")
  /\ Asks(w, "reclaim", s, NoWav)
  /\ UNCHANGED <<fanVars, current, transcribed, jobs, todo>>

(* A batch job (transcribe, strip, the pipeline): jobs.run on the session. *)
StartBatch(w, s) ==
  /\ loop = Nobody
  /\ s \in dirs
  /\ jobs[s] = FreeSlot
  /\ Step(w, "idle", "batch")
  /\ jobs' = [jobs EXCEPT ![s] = w]
  /\ Asks(w, "batch", s, NoWav)
  /\ UNCHANGED <<fanVars, current, transcribed, todo>>

-----------------------------------------------------------------------------
(* The worker threads: none of these steps needs the loop.                 *)

(* reclaim_audio_older_than: a transcript, WAVs, and none of them recent.  *)
Eligible(s) ==
  s \in dirs \cap transcribed /\ FilesOf(s) # {} /\ FilesOf(s) \subseteq OldWavs

Weigh(w) ==
  /\ \/ Step(w, "weigh", "check") /\ Eligible(Target(w))
     \/ Step(w, "weigh", "done") /\ ~Eligible(Target(w))
  /\ UNCHANGED <<fanVars, current, transcribed, jobs, ask, todo>>

(* busy_check at delete time looks at the job slot only. *)
BusyCheck(w) ==
  /\ Step(w, "check", IF jobs[Target(w)] = FreeSlot THEN "scan" ELSE "done")
  /\ UNCHANGED <<fanVars, current, transcribed, jobs, ask, todo>>

(* destruction_claim. *)
ClaimDestruct(w) ==
  /\ \/ Step(w, "claim", "scan") /\ TryClaimDestruct(Target(w))
     \/ Step(w, "claim", "finish") /\ ClaimRefused(Target(w)) /\ UNCHANGED active
  /\ UNCHANGED <<tapVars, fileVars, marks, current, transcribed, jobs, ask,
                 todo>>

(* The walk lists what it will delete: the original WAVs of the session,   *)
(* or the one that was named, if it is still there.                        *)
Scan(w) ==
  /\ Step(w, "scan", "walk")
  /\ todo' = [todo EXCEPT ![w] = IF Kind(w) = "wav" THEN FilesOf(Target(w)) \cap {ask[w].wav}
                                                   ELSE FilesOf(Target(w))]
  /\ UNCHANGED <<fanVars, current, transcribed, jobs, ask>>

(* ... and unlinks it, file by file, each with its sidecars.               *)
Unlink(w) ==
  /\ wphase[w] = "walk"
  /\ \E f \in todo[w] :
       /\ todo' = [todo EXCEPT ![w] = @ \ {f}]
       /\ home' = IF home[f] = Target(w)
                  THEN [home EXCEPT ![f] = NoSession] ELSE home
  /\ UNCHANGED <<tapVars, frames, dirs, registryVars, current, transcribed,
                 jobs, wphase, ask>>

(* rmtree ends with the rmdir, which fails on a folder that is not empty;  *)
(* the other walks leave the folder.                                       *)
WalkEnds(w) ==
  /\ todo[w] = {}
  /\ Step(w, "walk", IF Kind(w) \in {"session", "audio"} THEN "unclaim"
                     ELSE "finish")
  /\ IF Kind(w) = "session" /\ FilesOf(Target(w)) = {}
     THEN /\ dirs' = dirs \ {Target(w)}
          /\ transcribed' = transcribed \ {Target(w)}
     ELSE UNCHANGED <<dirs, transcribed>>
  /\ UNCHANGED <<tapVars, home, frames, registryVars, current, jobs, ask,
                 todo>>

Unclaim(w) ==
  /\ Step(w, "unclaim", "finish")
  /\ ReleaseDestruct(Target(w))
  /\ UNCHANGED <<tapVars, fileVars, marks, current, transcribed, jobs, ask,
                 todo>>

(* delete_session_wav and delete_session_audio, for a delete or a reclaim.  *)
WavWalk(w) == Kind(w) = "wav" /\ (Scan(w) \/ Unlink(w) \/ WalkEnds(w))
AudioWalk(w) == Kind(w) \in {"audio", "reclaim"} /\ (Scan(w) \/ Unlink(w) \/ WalkEnds(w))
SessionWalk(w) == Kind(w) = "session" /\ (Scan(w) \/ Unlink(w) \/ WalkEnds(w))

(* reclaim_audio_older_than, for one session.                              *)
ReclaimOlder(w) ==
  Weigh(w) \/ BusyCheck(w) \/ (Kind(w) = "reclaim" /\ AudioWalk(w))

(* Back on the loop: jobs.run frees the slot on every exit path, if the    *)
(* route took it; a batch job leaves the merged transcript behind.         *)
Finish(w) ==
  /\ loop = Nobody
  /\ \/ Step(w, "finish", "done") /\ UNCHANGED transcribed
     \/ /\ Step(w, "batch", "done")
        /\ \/ transcribed' = transcribed \cup {Target(w)}
           \/ UNCHANGED transcribed
  /\ IF Kind(w) = "reclaim"
     THEN UNCHANGED <<jobs, ask>>
     ELSE /\ jobs' = [jobs EXCEPT ![Target(w)] = FreeSlot]
          /\ ask' = [ask EXCEPT ![w] = Nothing]
  /\ UNCHANGED <<fanVars, current, todo>>

-----------------------------------------------------------------------------
(* session_is_empty, for a folder without an operator label. *)
Empty(s) == FilesOf(s) = {} /\ s \notin transcribed

(* What the bulk walks go through: every folder but the current session's. *)
Candidates(cur) == dirs \ {cur}

(* prune_empty_sessions, with cur the current session. *)
Prunable(cur) == {s \in Candidates(cur) : ~SessionHasOpenTap(s) /\ Empty(s)}

(* _mint_unclaimed_session_id: an id with no folder. *)
Unclaimed(s) == s \notin dirs

Prune ==
  /\ loop = Nobody
  /\ Prunable(current) # {}
  /\ dirs' = dirs \ Prunable(current)
  /\ UNCHANGED <<tapVars, home, frames, registryVars, routeVars>>

(* The dashboard's new session rotates, then prunes. *)
NewSession(s) ==
  /\ loop = Nobody
  /\ Unclaimed(s)
  /\ current' = s
  /\ dirs' = dirs \ Prunable(s)
  /\ UNCHANGED <<tapVars, home, frames, registryVars, transcribed, jobs,
                 wphase, ask, todo>>

(* A bridge's new session rotates unless the current one is empty. *)
TapNewSession(s) ==
  /\ loop = Nobody
  /\ ~Empty(current)
  /\ Unclaimed(s)
  /\ current' = s
  /\ UNCHANGED <<fanVars, transcribed, jobs, wphase, ask, todo>>

Detached(s) ==
  /\ loop = Nobody
  /\ Unclaimed(s)
  /\ s # current
  /\ dirs' = dirs \cup {s}
  /\ UNCHANGED <<tapVars, home, frames, registryVars, routeVars>>

(* POST /api/tap/new-session, with either body.                            *)
TapSession(s) == Detached(s) \/ TapNewSession(s)

(* The target of an absorb may be the current session and have taps open.  *)
MayAbsorb(t, s) ==
  /\ t # s
  /\ Preflight(s)
  /\ jobs[t] = FreeSlot
  /\ {t, s} \subseteq dirs

(* absorb_session: the source's WAVs move into the target, whose merged    *)
(* transcript is dropped, and the source folder goes.                      *)
Absorb(t, s) ==
  /\ loop = Nobody
  /\ MayAbsorb(t, s)
  /\ home' = [f \in Wavs |-> IF home[f] = s THEN t ELSE home[f]]
  /\ dirs' = dirs \ {s}
  /\ transcribed' = transcribed \ {t, s}
  /\ UNCHANGED <<tapVars, frames, registryVars, current, jobs, wphase, ask,
                 todo>>

-----------------------------------------------------------------------------
(* A plain tap goes to the current session, a detached one to a folder it  *)
(* names, which must exist.                                                *)
Connect(c) ==
  /\ \E s \in dirs \cup {current} : Accept(c, s)
  /\ UNCHANGED routeVars

FanStep ==
  \/ \E c \in Conns : TapStep(c)
  \/ \E u \in Utts : WindowPasses(u)

WorkerStep(w) ==
  \/ ReclaimOlder(w)
  \/ ClaimDestruct(w)
  \/ WavWalk(w) \/ AudioWalk(w) \/ SessionWalk(w)
  \/ Unclaim(w)

LoopRoutes ==
  \/ Prune
  \/ \E s \in Sessions : NewSession(s) \/ TapSession(s)
  \/ \E t, s \in Sessions : Absorb(t, s)

Next ==
  \/ \E c \in Conns : Connect(c)
  \/ FanStep /\ UNCHANGED routeVars
  \/ \E w \in Workers, s \in Sessions :
       \/ DeleteSession(w, s) \/ DeleteAudio(w, s)
       \/ \E f \in Wavs : DeleteWav(w, s, f)
       \/ StartReclaim(w, s) \/ StartBatch(w, s)
  \/ \E w \in Workers : WorkerStep(w) \/ Finish(w)
  \/ LoopRoutes

Spec == RoutesInit /\ [][Next]_vars

-----------------------------------------------------------------------------
(* The claims a walk holds between destruction_claim's enter and exit.     *)
Claimed(w, s) ==
  /\ Target(w) = s
  /\ Kind(w) \in {"session", "audio"}
  /\ wphase[w] \in {"scan", "walk", "unclaim"}

(* The guard's integer and the job slots together are a shared/exclusive   *)
(* lock on the session folder.                                             *)
Lock == INSTANCE SessionLock
          WITH Taps <- Conns, Walks <- Workers, Folders <- Sessions,
               taps <- [s \in Sessions |-> Holders(s)],
               walks <- [s \in Sessions |-> {w \in Workers : Claimed(w, s)}]

(* A refinement: taps and walks take and leave the folder the way the lock *)
(* allows, although a second try_claim_destruct of a claimed session would *)
(* be granted.                                                             *)
ImplementsLock == Lock!LockSpec

(* A bulk reclaim was asked for session s: the one walk that neither the   *)
(* guard nor the slot holds off.                                           *)
Reclaimed(s) ==
  \E w \in Workers : Kind(w) = "reclaim" /\ Target(w) = s /\ wphase[w] # "idle"

KeepsItsWav(c) ==
  phase[c] \in {"announce", "open"}
    => Sess(c) \in dirs /\ home[handle[c]] = Sess(c)

(* A tap that recorded a fresh utterance keeps its folder and its WAV,     *)
(* whatever prune, rotate, absorb and the delete routes do meanwhile: the  *)
(* mark holds off prune and absorb, the guard holds off the threads.       *)
GuardedTapKeepsItsWav ==
  \A c \in guarded : ~Reclaimed(Sess(c)) => KeepsItsWav(c)

(* Any connection with an open WAV, the resumed ones too: what             *)
(* routes/guards.py says of the deletes (the race with a tap that opens    *)
(* after the preflight "is now CLOSED").                                   *)
OpenWavStaysOnDisk ==
  \A c \in Conns :
    phase[c] = "open" /\ handle[c] # NoWav => home[handle[c]] = Sess(c)

(* While a batch job holds a session's slot no recorded WAV leaves the     *)
(* session: the routes that delete or move WAVs take or test the slot,     *)
(* bulk reclaim alone but for its first look.                              *)
BatchKeepsItsWavs ==
  [][\A w \in Workers, f \in Wavs :
       /\ wphase[w] = "batch"
       /\ home[f] = Target(w)
       /\ frames[f] > 0
       /\ ~Reclaimed(home[f])
       => home'[f] = home[f]]_vars
=============================================================================
