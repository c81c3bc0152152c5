---------------------------- MODULE LiveChannel ----------------------------
(***************************************************************************)
(* live.py, class WhisperLiveKitChannel, under the requests of             *)
(* live_control.apply_live (one channel, no family swap) and               *)
(* routes/live.py: the one caption engine a Recorder supervises.           *)
(*                                                                         *)
(* Each request runs on a worker thread of its own, and each child has a   *)
(* pump thread that reads its output.  start and the two ends of stop hold *)
(* the channel's lock, so each is one action; the wait in the middle of    *)
(* stop, the announcements of apply_live and every write of a pump are     *)
(* outside the lock.  A pump looks at _proc in one step and writes info in *)
(* the next: nothing keeps a start from running in between.                *)
(***************************************************************************)
EXTENDS Integers, FiniteSets

CONSTANTS
  Requests,  \* apply and stop requests, each made once
  Kinds,     \* which of them are made: a subset of {"apply", "stop"}
  Children,  \* processes, in the order nobody cares about
  NoChild

ASSUME ChannelAssumption == /\ NoChild \notin Children
                            /\ Kinds \subseteq {"apply", "stop"}

VARIABLES
  proc,    \* _proc
  child,   \* what became of a process
  banner,  \* processes that wrote their startup banner
  state,   \* info["state"]
  pid,     \* info["pid"]
  kind,    \* what a request asks for
  at,      \* where a request is
  victim,  \* the process a stop waits for
  pump     \* where the pump thread of a process is

infoVars == <<state, pid>>
requestVars == <<kind, at, victim>>
channelVars == <<proc, child, banner, infoVars, requestVars, pump>>

ChannelTypeOK ==
  /\ proc \in Children \cup {NoChild}
  /\ child \in [Children -> {"unborn", "alive", "ok", "failed"}]
  /\ banner \subseteq Children
  /\ state \in {"stopped", "starting", "running", "error"}
  /\ pid \in Children \cup {NoChild}
  /\ kind \in [Requests -> Kinds]
  /\ at \in [Requests -> {"idle", "announce", "look", "stop", "wait", "leave",
                          "again", "start", "done"}]
  /\ victim \in [Requests -> Children \cup {NoChild}]
  /\ pump \in [Children -> {"none", "reading", "promote", "read on",
                            "stamp", "ended"}]

ChannelInit ==
  /\ proc = NoChild
  /\ child = [p \in Children |-> "unborn"]
  /\ banner = {}
  /\ state = "stopped" /\ pid = NoChild
  /\ kind \in [Requests -> Kinds]
  /\ at = [r \in Requests |-> "idle"]
  /\ victim = [r \in Requests |-> NoChild]
  /\ pump = [p \in Children |-> "none"]

Alive(p) == p # NoChild /\ child[p] = "alive"
Running == Alive(proc)

(* Processes differ in nothing: the next one is any that was not used. *)
Newborn(p) == p = CHOOSE x \in Children : child[x] = "unborn"

Goes(r, from, to) == at[r] = from /\ at' = [at EXCEPT ![r] = to]

-----------------------------------------------------------------------------
(* apply_live.  The plan finds the running engine as requested, or goes on *)
(* to a restart.                                                           *)
Plan(r) ==
  /\ kind[r] = "apply"
  /\ \/ Running /\ Goes(r, "idle", "done")
     \/ Goes(r, "idle", "announce")
  /\ UNCHANGED <<proc, child, banner, infoVars, kind, victim, pump>>

(* begin_transition, before the stop and, if there was one, after it. *)
BeginTransition(r) ==
  /\ Goes(r, "announce", "look") \/ Goes(r, "again", "start")
  /\ state' = "starting"
  /\ UNCHANGED <<proc, child, banner, pid, kind, victim, pump>>

Look(r) ==
  /\ Goes(r, "look", IF Running THEN "stop" ELSE "start")
  /\ UNCHANGED <<proc, child, banner, infoVars, kind, victim, pump>>

(* Mutant: start does not ask whether an engine runs.                      *)
StartUnchecked(r) ==
  /\ Goes(r, "start", "done")
  /\ \E p \in Children :
       /\ child[p] = "unborn" /\ Newborn(p)
       /\ proc' = p /\ pid' = p
       /\ child' = [child EXCEPT ![p] = "alive"]
       /\ pump' = [pump EXCEPT ![p] = "reading"]
  /\ state' = "starting"
  /\ UNCHANGED <<banner, kind, victim>>

(* start: refused while an engine runs; it fails before the spawn, or in   *)
(* it, or there is a new child with a pump of its own.                     *)
Start(r) ==
  /\ Goes(r, "start", "done")
  /\ \/ Running /\ UNCHANGED <<proc, child, infoVars, pump>>
     \/ ~Running /\ state' = "error" /\ proc' \in {proc, NoChild}
        /\ UNCHANGED <<child, pid, pump>>
     \/ /\ ~Running
        /\ \E p \in Children :
             /\ child[p] = "unborn" /\ Newborn(p)
             /\ proc' = p /\ pid' = p
             /\ child' = [child EXCEPT ![p] = "alive"]
             /\ pump' = [pump EXCEPT ![p] = "reading"]
        /\ state' = "starting"
  /\ UNCHANGED <<banner, kind, victim>>

-----------------------------------------------------------------------------
(* stop, for the stop route and inside apply_live.                         *)

Stopped(r) == IF kind[r] = "apply" THEN "again" ELSE "done"

AskStop(r) ==
  /\ kind[r] = "stop"
  /\ Goes(r, "idle", "stop")
  /\ UNCHANGED <<proc, child, banner, infoVars, kind, victim, pump>>

StopEnters(r) ==
  /\ at[r] = "stop"
  /\ IF Running
     THEN /\ Goes(r, "stop", "wait")
          /\ victim' = [victim EXCEPT ![r] = proc]
          /\ UNCHANGED <<proc, infoVars>>
     ELSE /\ Goes(r, "stop", Stopped(r))
          /\ proc' = NoChild
          /\ state' = "stopped"
          /\ pid' = IF proc = NoChild THEN pid ELSE NoChild
          /\ UNCHANGED victim
  /\ UNCHANGED <<child, banner, kind, pump>>

(* SIGTERM, then SIGKILL: the wait ends with the child dead. *)
StopWaits(r) ==
  /\ Goes(r, "wait", "leave")
  /\ \/ Alive(victim[r])
        /\ \E rc \in {"ok", "failed"} : child' = [child EXCEPT ![victim[r]] = rc]
     \/ ~Alive(victim[r]) /\ UNCHANGED child
  /\ UNCHANGED <<proc, banner, infoVars, kind, victim, pump>>

(* Mutant: stop does not ask whether the channel still has its child.      *)
StopLeavesUnowned(r) ==
  /\ Goes(r, "leave", Stopped(r))
  /\ proc' = NoChild /\ state' = "stopped" /\ pid' = NoChild
  /\ UNCHANGED <<child, banner, kind, victim, pump>>

StopLeaves(r) ==
  /\ Goes(r, "leave", Stopped(r))
  /\ IF proc = victim[r]
     THEN proc' = NoChild /\ state' = "stopped" /\ pid' = NoChild
     ELSE UNCHANGED <<proc, infoVars>>
  /\ UNCHANGED <<child, banner, kind, victim, pump>>

-----------------------------------------------------------------------------
(* The children and their pump threads.                                    *)

Speaks(p) ==
  /\ Alive(p)
  /\ p \notin banner
  /\ banner' = banner \cup {p}
  /\ UNCHANGED <<proc, child, infoVars, requestVars, pump>>

Crashes(p) ==
  /\ Alive(p)
  /\ \E rc \in {"ok", "failed"} : child' = [child EXCEPT ![p] = rc]
  /\ UNCHANGED <<proc, banner, infoVars, requestVars, pump>>

PumpAt(p, from, to) == pump[p] = from /\ pump' = [pump EXCEPT ![p] = to]

(* The banner is read, perhaps after the child is dead; is it still ours? *)
PumpReadsBanner(p) ==
  /\ p \in banner
  /\ PumpAt(p, "reading", IF proc = p THEN "promote" ELSE "read on")
  /\ UNCHANGED <<proc, child, banner, infoVars, requestVars>>

PumpPromotes(p) ==
  /\ PumpAt(p, "promote", "read on")
  /\ state' = "running"
  /\ UNCHANGED <<proc, child, banner, pid, requestVars>>

(* The output ends, the exit code is there; is the child still ours? *)
PumpSeesExit(p) ==
  /\ ~Alive(p)
  /\ \/ p \notin banner /\ PumpAt(p, "reading", IF proc = p THEN "stamp"
                                                ELSE "ended")
     \/ PumpAt(p, "read on", IF proc = p THEN "stamp" ELSE "ended")
  /\ UNCHANGED <<proc, child, banner, infoVars, requestVars>>

PumpStamps(p) ==
  /\ PumpAt(p, "stamp", "ended")
  /\ state' = IF child[p] = "ok" THEN "stopped" ELSE "error"
  /\ pid' = NoChild
  /\ UNCHANGED <<proc, child, banner, requestVars>>

-----------------------------------------------------------------------------
Request(r) ==
  \/ Plan(r) \/ BeginTransition(r) \/ Look(r) \/ Start(r)
  \/ AskStop(r) \/ StopEnters(r) \/ StopWaits(r) \/ StopLeaves(r)

Pump(p) ==
  \/ PumpReadsBanner(p) \/ PumpPromotes(p)
  \/ PumpSeesExit(p) \/ PumpStamps(p)

ChannelNext ==
  \/ \E r \in Requests : Request(r)
  \/ \E p \in Children : Speaks(p) \/ Crashes(p) \/ Pump(p)

(* Threads that were started run on; nobody has to make a request, and no  *)
(* child has to come up.                                                   *)
ChannelFairness ==
  /\ \A r \in Requests : WF_channelVars(at[r] # "idle" /\ Request(r))
  /\ \A p \in Children : WF_channelVars(Pump(p))

ChannelSpec == ChannelInit /\ [][ChannelNext]_channelVars /\ ChannelFairness

-----------------------------------------------------------------------------
(* However many applies and stops overlap, one engine runs at most, and it *)
(* is the one the channel can stop: no restart leaves an orphan behind.    *)
OneEngine == \A p \in Children : Alive(p) => p = proc

(* A stop that finds its child replaced says nothing: it never reports the *)
(* channel down over a child that a concurrent start has spawned.          *)
StopTellsTheTruth ==
  [][\A r \in Requests :
       at[r] = "leave" /\ at'[r] # "leave" /\ infoVars' # infoVars => ~Running]_channelVars

(* A child that dies on its own is noticed: unless the pump of a child    *)
(* before it is in the middle of its write, the channel does not go on     *)
(* saying starting or running with nothing there to start or run.          *)
DiesUndisturbed(p) ==
  /\ proc = p /\ child[p] \in {"ok", "failed"} /\ pump[p] # "ended"
  /\ \A x \in Children \ {p} : pump[x] \notin {"promote", "stamp"}

DeathIsNoticed ==
  \A p \in Children :
    DiesUndisturbed(p) ~> (proc # p \/ state \in {"stopped", "error"})

(* Every request comes to an end.                                          *)
RequestsEnd == \A r \in Requests : at[r] # "idle" ~> at[r] = "done"

(* Neither a request nor the channel's own state waits for a child that    *)
(* will not answer: requests end, and a death shows.                       *)
NothingHangs == DeathIsNoticed /\ RequestsEnd
=============================================================================
