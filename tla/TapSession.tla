----------------------------- MODULE TapSession -----------------------------
(***************************************************************************)
(* TapSession.cs and LevelGate.cs of the tray bridge's Core: one capture   *)
(* device, a level gate, and an utterance stream for each stretch of       *)
(* speech.                                                                 *)
(*                                                                         *)
(* Three threads meet here: the device's capture thread (OnData), its      *)
(* volume thread (OnMuteChanged) and the caller, who constructs the        *)
(* session and ends it (DrainAllAsync then DisposeAsync) or quits          *)
(* (DisposeAsync alone).  A block under _lock is one action, a volatile    *)
(* read or write another; a callback that has begun is not stopped by      *)
(* detaching its handler.                                                  *)
(*                                                                         *)
(* The gate keeps its open flag and says what one callback's frames make   *)
(* of it; levels, pre-roll and frames are left out.  Streams are numbered  *)
(* as they open and their end is TapStream's DrainEnds.                    *)
(***************************************************************************)
EXTENDS Integers, Sequences, FiniteSets

CONSTANTS
  MaxStreams, \* bound: utterances opened
  MaxFlips    \* bound: mutes and unmutes of the device

ASSUME SessionAssumption == MaxStreams \in Nat /\ MaxFlips \in Nat

VARIABLES
  device,   \* IAudioCapture.IsMuted
  flips,    \* how often it changed
  attached, \* the handlers are subscribed
  muted,    \* _muted
  pending,  \* _gateResetPending
  gate,     \* LevelGate._open
  current,  \* _current, 0 for null
  opened,   \* streams begun
  ended,    \* streams handed to DrainAndDisposeAsync
  flushed,  \* of those, the ones whose drain is over
  disposed, \* _disposed
  capture,  \* where the capture thread is
  events,   \* the gate events it has yet to handle
  volume,   \* where the volume thread is
  owner,    \* where the caller is
  seed,     \* what the constructor read of IsMuted
  awaited   \* the drains DrainAllAsync waits for

deviceVars == <<device, flips>>
ownerVars == <<owner, seed, awaited>>
streamVars == <<current, opened, ended, flushed, disposed>>
captureVars == <<gate, capture, events>>
vars == <<deviceVars, attached, muted, pending, captureVars, streamVars,
          volume, ownerVars>>

Streams == 1..MaxStreams
Kinds == {"opened", "audio", "closed"}

(* Every variable in its range; a stream is begun before it ends, and its  *)
(* drain starts before it is over.                                         *)
TypeOK ==
  /\ device \in BOOLEAN /\ flips \in 0..MaxFlips
  /\ attached \in BOOLEAN /\ muted \in BOOLEAN /\ pending \in BOOLEAN
  /\ gate \in BOOLEAN
  /\ opened \in 0..MaxStreams /\ current \in 0..opened
  /\ ended \subseteq 1..opened /\ flushed \subseteq ended
  /\ disposed \in BOOLEAN
  /\ capture \in {"idle", "resync", "clear", "look", "push", "events"}
  /\ events \in Seq(Kinds) /\ Len(events) <= 3
  /\ volume \in {"idle", "flag", "mute", "close", "unmute"}
  /\ owner \in {"read", "seed", "start", "live", "snapshot", "drain",
                "detach", "take", "stop", "gone"}
  /\ seed \in BOOLEAN /\ awaited \subseteq Streams

(* The constructor has subscribed and seeds _muted next. *)
Init ==
  /\ device \in BOOLEAN /\ flips = 0
  /\ attached = TRUE /\ muted = FALSE /\ pending = FALSE
  /\ gate = FALSE /\ capture = "idle" /\ events = <<>>
  /\ current = 0 /\ opened = 0 /\ ended = {} /\ flushed = {} /\ disposed = FALSE
  /\ volume = "idle" /\ owner = "read" /\ seed = FALSE /\ awaited = {}

CaptureGoes(from, to) == capture = from /\ capture' = to
VolumeGoes(from, to) == volume = from /\ volume' = to
OwnerGoes(from, to) == owner = from /\ owner' = to

(* Under _lock: whatever is open goes to its drain. *)
EndCurrent ==
  /\ ended' = IF current = 0 THEN ended ELSE ended \cup {current}
  /\ current' = 0

-----------------------------------------------------------------------------
(* The capture thread: OnData. *)

OnData ==
  /\ attached /\ owner \notin {"read", "seed", "start"}
  /\ CaptureGoes("idle", "resync")
  /\ UNCHANGED <<deviceVars, attached, muted, pending, gate, events, streamVars,
                 volume, ownerVars>>

Resync ==
  /\ CaptureGoes("resync", IF pending THEN "clear" ELSE "look")
  /\ gate' = (gate /\ ~pending)
  /\ UNCHANGED <<deviceVars, attached, muted, pending, events, streamVars,
                 volume, ownerVars>>

ClearPending ==
  /\ CaptureGoes("clear", "look")
  /\ pending' = FALSE
  /\ UNCHANGED <<deviceVars, attached, muted, gate, events, streamVars, volume, ownerVars>>

LookMuted ==
  /\ CaptureGoes("look", IF muted THEN "idle" ELSE "push")
  /\ UNCHANGED <<deviceVars, attached, muted, pending, gate, events, streamVars,
                 volume, ownerVars>>

(* LevelGate.Push: the frames of one callback may open the gate, go through *)
(* it, or close it after the hangover; an opening frame never closes it.    *)
Emits(open) ==
  IF open THEN {<<"audio">>, <<"audio", "closed">>, <<"audio", "closed", "opened">>}
          ELSE {<<>>, <<"opened">>, <<"opened", "audio">>, <<"opened", "audio", "closed">>}

Push ==
  /\ CaptureGoes("push", "events")
  /\ \E e \in Emits(gate) :
       /\ Cardinality({i \in DOMAIN e : e[i] = "opened"}) <= MaxStreams - opened
       /\ events' = e
       /\ gate' = IF e = <<>> THEN gate ELSE e[Len(e)] # "closed"
  /\ UNCHANGED <<deviceVars, attached, muted, pending, streamVars, volume, ownerVars>>

(* Mutant: no second look at _muted under the lock. *)
OpensEvenMuted ==
  IF disposed THEN UNCHANGED streamVars
  ELSE /\ opened' = opened + 1 /\ current' = opened + 1
       /\ UNCHANGED <<ended, flushed, disposed>>

(* Under _lock; a stream that was open is forgotten. *)
OpenUtterance ==
  IF disposed \/ muted THEN UNCHANGED streamVars
  ELSE /\ opened' = opened + 1 /\ current' = opened + 1
       /\ UNCHANGED <<ended, flushed, disposed>>

(* Mutant: _current is not set to null. *)
ClosesAndKeeps ==
  /\ ended' = ended \cup ({current} \ {0})
  /\ UNCHANGED <<current, opened, flushed, disposed>>

CloseUtterance == EndCurrent /\ UNCHANGED <<opened, flushed, disposed>>

(* EnqueueToCurrent changes nothing here: with no stream the frame goes. *)
Handle ==
  /\ capture = "events" /\ events # <<>>
  /\ events' = Tail(events) /\ UNCHANGED <<gate, capture>>
  /\ CASE Head(events) = "opened" -> OpenUtterance
       [] Head(events) = "closed" -> CloseUtterance
       [] OTHER -> UNCHANGED streamVars
  /\ UNCHANGED <<deviceVars, attached, muted, pending, volume, ownerVars>>

OnDataReturns ==
  /\ events = <<>> /\ CaptureGoes("events", "idle")
  /\ UNCHANGED <<deviceVars, attached, muted, pending, gate, events, streamVars,
                 volume, ownerVars>>

-----------------------------------------------------------------------------
(* The volume thread: the device changes, then OnMuteChanged. *)

Flip ==
  /\ flips < MaxFlips
  /\ device' = ~device /\ flips' = flips + 1
  /\ VolumeGoes("idle", IF ~attached THEN "idle" ELSE IF device THEN "unmute" ELSE "flag")
  /\ UNCHANGED <<attached, muted, pending, captureVars, streamVars, ownerVars>>

FlagReset ==
  /\ VolumeGoes("flag", "mute") /\ pending' = TRUE
  /\ UNCHANGED <<deviceVars, attached, muted, captureVars, streamVars, ownerVars>>

Mute ==
  /\ VolumeGoes("mute", "close") /\ muted' = TRUE
  /\ UNCHANGED <<deviceVars, attached, pending, captureVars, streamVars, ownerVars>>

CloseOnMute ==
  /\ VolumeGoes("close", "idle") /\ CloseUtterance
  /\ UNCHANGED <<deviceVars, attached, muted, pending, captureVars, ownerVars>>

Unmute ==
  /\ VolumeGoes("unmute", "idle") /\ muted' = FALSE
  /\ UNCHANGED <<deviceVars, attached, pending, captureVars, streamVars, ownerVars>>

-----------------------------------------------------------------------------
(* The caller. *)

SeedRead ==
  /\ OwnerGoes("read", "seed") /\ seed' = device
  /\ UNCHANGED <<deviceVars, attached, muted, pending, captureVars, streamVars, volume, awaited>>

SeedWrite ==
  /\ OwnerGoes("seed", "start") /\ muted' = seed
  /\ UNCHANGED <<deviceVars, attached, pending, captureVars, streamVars, volume, seed, awaited>>

(* _capture.Start: on failure the handlers go and nothing else is left. *)
StartCapture ==
  /\ \/ OwnerGoes("start", "live") /\ UNCHANGED attached
     \/ OwnerGoes("start", "gone") /\ attached' = FALSE
  /\ UNCHANGED <<deviceVars, muted, pending, captureVars, streamVars, volume, seed, awaited>>

(* EndMeetingAsync: DrainAllAsync detaches first. *)
EndMeeting ==
  /\ OwnerGoes("live", "snapshot") /\ attached' = FALSE
  /\ UNCHANGED <<deviceVars, muted, pending, captureVars, streamVars, volume, seed, awaited>>

Snapshot ==
  /\ OwnerGoes("snapshot", "drain")
  /\ EndCurrent /\ awaited' = ended'
  /\ UNCHANGED <<deviceVars, attached, muted, pending, captureVars, opened,
                 flushed, disposed, volume, seed>>

DrainIsOver ==
  /\ OwnerGoes("drain", "detach") /\ awaited \subseteq flushed
  /\ UNCHANGED <<deviceVars, attached, muted, pending, captureVars, streamVars, volume, seed, awaited>>

(* DisposeAsync, after the drain or at once when the tray quits. *)
Dispose ==
  /\ OwnerGoes("detach", "take") \/ OwnerGoes("live", "take")
  /\ attached' = FALSE
  /\ UNCHANGED <<deviceVars, muted, pending, captureVars, streamVars, volume, seed, awaited>>

TakeCurrent ==
  /\ OwnerGoes("take", "stop")
  /\ disposed' = TRUE /\ EndCurrent
  /\ UNCHANGED <<deviceVars, attached, muted, pending, captureVars, opened,
                 flushed, volume, seed, awaited>>

(* The wait for the drains ends with them or with its two seconds. *)
StopAndRelease ==
  /\ OwnerGoes("stop", "gone")
  /\ UNCHANGED <<deviceVars, attached, muted, pending, captureVars, streamVars, volume, seed, awaited>>

(* A stream's drain is over, as TapStream has it. *)
Flushed ==
  /\ \E s \in ended \ flushed : flushed' = flushed \cup {s}
  /\ UNCHANGED <<deviceVars, attached, muted, pending, captureVars, current,
                 opened, ended, disposed, volume, ownerVars>>

-----------------------------------------------------------------------------
CaptureStep == Resync \/ ClearPending \/ LookMuted \/ Push \/ Handle \/ OnDataReturns
VolumeStep == FlagReset \/ Mute \/ CloseOnMute \/ Unmute
OwnerStep == \/ SeedRead \/ SeedWrite \/ StartCapture \/ Snapshot
             \/ DrainIsOver \/ TakeCurrent \/ StopAndRelease

Next == \/ OnData \/ CaptureStep
        \/ Flip \/ VolumeStep
        \/ OwnerStep \/ EndMeeting \/ Dispose \/ Flushed

(* Threads run on, and a drain that was begun ends; nobody has to speak,   *)
(* mute or quit.                                                           *)
Fairness ==
  /\ WF_vars(CaptureStep) /\ WF_vars(VolumeStep)
  /\ WF_vars(OwnerStep) /\ WF_vars(owner = "detach" /\ Dispose)
  /\ WF_vars(Flushed)

Spec == Init /\ [][Next]_vars /\ Fairness

-----------------------------------------------------------------------------
(* Properties. *)

(* No tap is ever born muted: once the handler of a mute has run there is  *)
(* no open utterance until the handler of an unmute has.                   *)
MutedIsClosed == muted /\ volume # "close" => current = 0

(* The gate as the events handled so far leave it. *)
HandledGate == IF events = <<>> THEN gate ELSE Head(events) # "opened"

(* While nobody mutes and nobody ends, there is an open utterance exactly  *)
(* when the gate is open, and every other one has been handed to its       *)
(* drain: no speech without a stream, and no stream left behind.           *)
StreamFollowsGate ==
  flips = 0 /\ owner \notin {"snapshot", "drain", "detach", "take", "stop", "gone"}
    => /\ (current # 0) = HandledGate
       /\ 1..opened \ ended \subseteq {current}

(* The session is not resurrected: after DisposeAsync took the current     *)
(* utterance, a callback that was already running opens no other.          *)
DisposedOpensNothing == disposed => current = 0

(* A callback that was running when a mute or the end of the session was   *)
(* handled leaves no stream open behind it.                                *)
NoLateStream == MutedIsClosed /\ DisposedOpensNothing

(* An end that was begun gives the device back. *)
EndComesBack == owner \in {"snapshot", "take"} ~> owner = "gone"
=============================================================================
