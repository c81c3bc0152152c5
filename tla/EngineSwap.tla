------------------------------ MODULE EngineSwap ------------------------------
(***************************************************************************)
(* recorder.live under live_control.apply_live when a request asks for a   *)
(* model of the other family: the WhisperLiveKit channel and its child on  *)
(* one side, on the other moonshine_live.py, whose engine is a websocket   *)
(* server on a loop thread of its own.  A swap makes a fresh channel, so   *)
(* an engine is out of reach once its channel is no longer recorder.live.  *)
(*                                                                         *)
(* Moonshine's start holds the channel's lock from its look at running()   *)
(* to its end, its wait for the thread included; stop takes the thread     *)
(* under the lock, waits without it, and looks again under it.  The        *)
(* WhisperLiveKit side is what LiveChannel models in detail: here its      *)
(* start is one step and its pump's writes of info are left out.           *)
(***************************************************************************)
EXTENDS Integers, FiniteSets

CONSTANTS
  MaxCalls,  \* requests of /api/live, numbered as they come in
  Channels,  \* channel objects, of which a swap takes an unmade one
  Threads,   \* child processes of one family, loop threads of the other
  Nobody

ASSUME SwapAssumption ==
  MaxCalls \in Nat /\ Nobody \notin Channels \cup Threads \cup 1..MaxCalls

VARIABLES
  live,       \* recorder.live
  family,     \* of a channel; "unmade" before its construction
  engine,     \* the thread a channel refers to (_proc; _thread, _loop, _server)
  locked,     \* the start that holds a channel's lock
  said,       \* info["state"] of a Moonshine channel
  thread,     \* what a thread does
  stops,      \* loops with a loop.stop queued
  abandoned,  \* threads whose start gave up on them
  call,       \* of a request: where it is, what it wants, current, target,
              \* the channel it stops and the thread it waits for
  overlapped  \* a swap was planned while another apply was under way, or
              \* an apply while a swap was (history)

channelVars == <<live, family, engine, locked, said>>
threadVars == <<thread, stops, abandoned>>
evars == <<channelVars, threadVars, call, overlapped>>

Calls == 1..MaxCalls

FirstOf(S, f, value) == CHOOSE x \in S : f[x] = value
At(r, place) == call[r].at = place
ComesIn(r) == At(r, "idle") /\ \A q \in 1..(r - 1) : ~At(q, "idle")
UnderWay(r) == call[r].at \notin {"idle", "done"}
Swaps(r) == call[r].from # call[r].to

Wanted(w) ==
  [at |-> "idle", wants |-> w, from |-> Nobody, to |-> Nobody, on |-> Nobody, of |-> Nobody]

(* A request that was answered is forgotten.                               *)
StepsTo(r, place) ==
  call' = [call EXCEPT ![r] = IF place = "done" THEN [Wanted("stop") EXCEPT !.at = "done"]
                              ELSE [@ EXCEPT !.at = place]]

EInit ==
  /\ live \in Channels /\ live = CHOOSE c \in Channels : TRUE
  /\ family = [c \in Channels |-> IF c = live THEN "whisper" ELSE "unmade"]
  /\ engine = [c \in Channels |-> Nobody]
  /\ locked = [c \in Channels |-> Nobody]
  /\ said = [c \in Channels |-> "stopped"]
  /\ thread = [t \in Threads |-> "unborn"]
  /\ stops = {} /\ abandoned = {}
  /\ call \in [Calls -> {Wanted(w) : w \in {"whisper", "moonshine", "stop"}}]
  /\ overlapped = FALSE

IsRunning(c) == engine[c] # Nobody /\ thread[engine[c]] # "ended"

(* The bounds on engines and channels: neither are used twice.             *)
CanSpawn == \E t \in Threads : thread[t] = "unborn"
CanMake == \E c \in Channels : family[c] = "unmade"

-----------------------------------------------------------------------------
(* apply_live, and the two routes.                                         *)

(* The channel to run: a fresh one for the other family.                   *)
Target(wants) ==
  IF wants = family[live] THEN live ELSE FirstOf(Channels, family, "unmade")

(* The plan is made where the request is parsed; what follows runs on a    *)
(* worker thread.  A running engine that is as requested is left alone.    *)
PlanLive(r) ==
  LET to == Target(call[r].wants)
  IN  /\ ComesIn(r) /\ call[r].wants # "stop"
      /\ call[r].wants = family[live] \/ CanMake
      /\ \/ to = live /\ IsRunning(live) /\ StepsTo(r, "done") /\ UNCHANGED <<family, overlapped>>
         \/ /\ call' = [call EXCEPT ![r].at = IF to = live THEN "announce" ELSE "swap",
                                    ![r].from = live, ![r].to = to]
            /\ family' = [family EXCEPT ![to] = call[r].wants]
            /\ overlapped' = (overlapped \/
                 \E q \in Calls : /\ UnderWay(q) /\ call[q].wants # "stop"
                                  /\ to # live \/ Swaps(q))
      /\ UNCHANGED <<live, engine, locked, said, threadVars>>

AskStop(r) ==
  /\ ComesIn(r) /\ call[r].wants = "stop"
  /\ call' = [call EXCEPT ![r].at = "stop", ![r].on = live]
  /\ UNCHANGED <<channelVars, threadVars, overlapped>>

StopsOrGoes(r, c, place) ==
  /\ call' = [call EXCEPT ![r].at = IF IsRunning(c) THEN "stop" ELSE place, ![r].on = c]
  /\ UNCHANGED <<channelVars, threadVars, overlapped>>

LeaveOld(r) == At(r, "swap") /\ StopsOrGoes(r, call[r].from, "install")

Install(r) ==
  /\ At(r, "install") /\ StepsTo(r, "announce")
  /\ live' = call[r].to
  /\ UNCHANGED <<family, engine, locked, said, threadVars, overlapped>>

Announce(r) ==
  /\ \/ At(r, "announce") /\ StepsTo(r, "look")
     \/ At(r, "again") /\ StepsTo(r, "start")
  /\ said' = IF family[call[r].to] = "moonshine"
             THEN [said EXCEPT ![call[r].to] = "starting"] ELSE said
  /\ UNCHANGED <<live, family, engine, locked, threadVars, overlapped>>

LookAtTarget(r) == At(r, "look") /\ StopsOrGoes(r, call[r].to, "start")

(* Where a request goes on once its stop returned, whatever that returned. *)
AfterStop(r) ==
  CASE call[r].wants = "stop" -> "done"
    [] call[r].on = call[r].to -> "again"
    [] OTHER -> "install"

-----------------------------------------------------------------------------
(* The WhisperLiveKit channel, as LiveChannel has it.                      *)

StartChild(r) ==
  /\ At(r, "start") /\ family[call[r].to] = "whisper" /\ StepsTo(r, "done")
  /\ \/ UNCHANGED <<engine, thread>>
     \/ /\ ~IsRunning(call[r].to) /\ CanSpawn
        /\ LET t == FirstOf(Threads, thread, "unborn")
           IN  /\ engine' = [engine EXCEPT ![call[r].to] = t]
               /\ thread' = [thread EXCEPT ![t] = "child"]
  /\ UNCHANGED <<live, family, locked, said, stops, abandoned, overlapped>>

StopChild(r) ==
  /\ call[r].at \in {"stop", "wait", "leave"} /\ family[call[r].on] = "whisper"
  /\ \/ /\ At(r, "stop")
        /\ IF IsRunning(call[r].on)
           THEN /\ call' = [call EXCEPT ![r].at = "wait", ![r].of = engine[call[r].on]]
                /\ UNCHANGED engine
           ELSE StepsTo(r, AfterStop(r)) /\ engine' = [engine EXCEPT ![call[r].on] = Nobody]
        /\ UNCHANGED thread
     \/ /\ At(r, "wait") /\ StepsTo(r, "leave")
        /\ thread' = [thread EXCEPT ![call[r].of] = "ended"]
        /\ UNCHANGED engine
     \/ /\ At(r, "leave") /\ StepsTo(r, AfterStop(r))
        /\ engine' = IF engine[call[r].on] = call[r].of
                    THEN [engine EXCEPT ![call[r].on] = Nobody] ELSE engine
        /\ UNCHANGED thread
  /\ UNCHANGED <<live, family, locked, said, stops, abandoned, overlapped>>

ChildDies(t) ==
  /\ thread[t] = "child"
  /\ thread' = [thread EXCEPT ![t] = "ended"]
  /\ UNCHANGED <<channelVars, stops, abandoned, call, overlapped>>

-----------------------------------------------------------------------------
(* MoonshineLiveChannel.start.                                             *)

Starting(r) == family[call[r].to] = "moonshine"
Free(c) == locked[c] = Nobody
Fails(r) ==
  /\ said' = [said EXCEPT ![call[r].to] = "error"]
  /\ locked' = [locked EXCEPT ![call[r].to] = Nobody]

(* Refused while a server runs; or the engine does not load; or its thread *)
(* is on its way, and the lock stays taken.                                *)
StartServer(r) ==
  LET c == call[r].to
      t == FirstOf(Threads, thread, "unborn")
  IN  /\ At(r, "start") /\ Starting(r) /\ Free(c)
      /\ \/ IsRunning(c) /\ StepsTo(r, "done") /\ UNCHANGED <<said, locked, thread>>
         \/ ~IsRunning(c) /\ StepsTo(r, "done") /\ Fails(r) /\ UNCHANGED thread
         \/ /\ ~IsRunning(c) /\ CanSpawn
            /\ call' = [call EXCEPT ![r].at = "ready", ![r].of = t]
            /\ thread' = [thread EXCEPT ![t] = "binding"]
            /\ locked' = [locked EXCEPT ![c] = r]
            /\ UNCHANGED said
      /\ UNCHANGED <<live, family, engine, stops, abandoned, overlapped>>

(* ready is set: the socket is bound and the channel takes the thread, or  *)
(* the bind failed.                                                        *)
ServerIsReady(r) ==
  LET c == call[r].to
  IN  /\ At(r, "ready") /\ Starting(r) /\ StepsTo(r, "done")
      /\ \/ /\ thread[call[r].of] \in {"bound", "serving"}
            /\ engine' = [engine EXCEPT ![c] = call[r].of]
            /\ said' = [said EXCEPT ![c] = "running"]
            /\ locked' = [locked EXCEPT ![c] = Nobody]
         \/ /\ thread[call[r].of] \in {"failed", "ended"}
            /\ Fails(r) /\ UNCHANGED engine
      /\ UNCHANGED <<live, family, threadVars, overlapped>>

NeverReady(r) ==
  /\ At(r, "ready") /\ thread[call[r].of] = "binding"
  /\ StepsTo(r, "abandon")
  /\ UNCHANGED <<channelVars, threadVars, overlapped>>

Abandon(r) ==
  /\ At(r, "abandon") /\ StepsTo(r, "halt")
  /\ abandoned' = abandoned \cup {call[r].of}
  /\ UNCHANGED <<channelVars, thread, stops, overlapped>>

(* Mutant: an abandoned loop is flagged and not stopped.                   *)
HaltTrusting(r) ==
  /\ At(r, "halt") /\ StepsTo(r, "done")
  /\ Fails(r)
  /\ UNCHANGED <<live, family, engine, threadVars, overlapped>>

HaltAbandoned(r) ==
  /\ At(r, "halt") /\ StepsTo(r, "done")
  /\ stops' = IF thread[call[r].of] = "ended" THEN stops ELSE stops \cup {call[r].of}
  /\ Fails(r)
  /\ UNCHANGED <<live, family, engine, thread, abandoned, overlapped>>

MoonshineStart(r) ==
  \/ StartServer(r) \/ ServerIsReady(r)
  \/ NeverReady(r) \/ Abandon(r) \/ HaltAbandoned(r)

-----------------------------------------------------------------------------
(* The loop thread, start's _run.                                          *)

Does(t, from, to) == thread[t] = from /\ thread' = [thread EXCEPT ![t] = to]

(* A stop that is queued while the socket is bound ends the bind, or is    *)
(* used up by it: only the flag is left then.                              *)
Binds(t) ==
  /\ Does(t, "binding", "bound") \/ Does(t, "binding", "failed")
  /\ stops' = stops \ {t}
  /\ UNCHANGED <<channelVars, abandoned, call, overlapped>>

Serves(t) ==
  /\ Does(t, "bound", IF t \in abandoned THEN "closing" ELSE "serving")
  /\ UNCHANGED <<channelVars, stops, abandoned, call, overlapped>>

Halts(t) ==
  /\ t \in stops /\ Does(t, "serving", "closing")
  /\ stops' = stops \ {t}
  /\ UNCHANGED <<channelVars, abandoned, call, overlapped>>

(* The teardown takes a stray stop with it and closes the socket.          *)
Closes(t) ==
  /\ Does(t, "closing", "ended") \/ Does(t, "failed", "ended")
  /\ stops' = stops \ {t} /\ abandoned' = abandoned \ {t}
  /\ UNCHANGED <<channelVars, call, overlapped>>

RunLoop(t) == Binds(t) \/ Serves(t) \/ Halts(t) \/ Closes(t)

-----------------------------------------------------------------------------
(* MoonshineLiveChannel.stop.                                              *)

Stopping(r) == family[call[r].on] = "moonshine"

TakeServer(r) ==
  LET c == call[r].on
  IN  /\ At(r, "stop") /\ Stopping(r) /\ Free(c)
      /\ IF engine[c] = Nobody
         THEN StepsTo(r, AfterStop(r)) /\ said' = [said EXCEPT ![c] = "stopped"] /\ UNCHANGED engine
         ELSE /\ call' = [call EXCEPT ![r].at = "wait", ![r].of = engine[c]]
              /\ engine' = [engine EXCEPT ![c] = Nobody]
              /\ UNCHANGED said
      /\ UNCHANGED <<live, family, locked, threadVars, overlapped>>

StopLoop(r) ==
  /\ At(r, "wait") /\ Stopping(r) /\ StepsTo(r, "join")
  /\ stops' = stops \cup {call[r].of}
  /\ UNCHANGED <<channelVars, thread, abandoned, overlapped>>

(* The thread ended, or did not in time.                                   *)
JoinThread(r) ==
  /\ At(r, "join")
  /\ StepsTo(r, IF thread[call[r].of] = "ended" THEN "leave" ELSE "late")
  /\ UNCHANGED <<channelVars, threadVars, overlapped>>

LeaveServer(r) ==
  LET c == call[r].on
  IN  /\ call[r].at \in {"leave", "late"} /\ Stopping(r) /\ Free(c)
      /\ StepsTo(r, AfterStop(r))
      /\ said' = IF engine[c] # Nobody THEN said
                 ELSE [said EXCEPT ![c] = IF At(r, "late") THEN "error" ELSE "stopped"]
      /\ UNCHANGED <<live, family, engine, locked, threadVars, overlapped>>

MoonshineStop(r) == TakeServer(r) \/ StopLoop(r) \/ JoinThread(r) \/ LeaveServer(r)

-----------------------------------------------------------------------------
ApplyLive(r) ==
  \/ LeaveOld(r) \/ Install(r) \/ Announce(r) \/ LookAtTarget(r)
  \/ StartChild(r) \/ StopChild(r) \/ MoonshineStart(r) \/ MoonshineStop(r)

ENext ==
  \/ \E r \in Calls : PlanLive(r) \/ AskStop(r) \/ ApplyLive(r)
  \/ \E t \in Threads : ChildDies(t) \/ RunLoop(t)

-----------------------------------------------------------------------------
(* An engine that will go on is in somebody's hands: its channel refers to *)
(* it, or a request is about to hand it over or to stop it.  A bind that   *)
(* lands after its start gave up leaves no server behind, however the flag *)
(* and the queued stop meet the thread (moonshine_live.start, "a running   *)
(* server nothing references").                                            *)
InHand(t) ==
  \/ \E c \in Channels : engine[c] = t
  \/ \E r \in Calls : call[r].of = t /\ call[r].at \in {"ready", "abandon", "halt", "wait"}

NoServerIsLost ==
  \A t \in Threads :
    /\ thread[t] \in {"child", "serving"} => t \in stops \/ InHand(t)
    /\ thread[t] = "bound" => t \in abandoned \cup stops \/ InHand(t)

(* A channel that says it is down has no server running, whatever starts   *)
(* and stops overlap on it.                                                *)
DownIsDown ==
  \A c \in Channels :
    family[c] = "moonshine" /\ said[c] \in {"stopped", "error"} => ~IsRunning(c)

(* One engine at a time is what recorder.live can stop: a swap leaves none *)
(* running in the channel it replaced, unless it overlapped another apply. *)
OldEngineIsStopped ==
  ~overlapped =>
    \A c \in Channels \ {live} :
      IsRunning(c) => \E r \in Calls : UnderWay(r) /\ c \in {call[r].from, call[r].to}

(* Swaps between the two families lose no engine.                          *)
SwapIsSound == NoServerIsLost /\ DownIsDown /\ OldEngineIsStopped
=============================================================================
