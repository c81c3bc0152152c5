---------------------------- MODULE RecorderHost ----------------------------
(***************************************************************************)
(* RecorderSupervisor.cs and HostController.cs: the tray of a Bundle boots *)
(* the Recorder, shows what it does and stops it.  A boot runs on a pool   *)
(* thread: the copy of the runtime, preflight to its end, the Recorder.    *)
(* The UI thread starts, stops and quits; the exit of the Recorder calls   *)
(* back on a thread of its own.  They meet under two locks that are never  *)
(* held across a spawn, a kill or a render: each critical section is one   *)
(* step, and so is what is outside of them.                                *)
(*                                                                         *)
(* There is no reaper while the tray lives; when it ends by itself or in a *)
(* crash, the reaper or the job object takes what is left.                 *)
(***************************************************************************)
EXTENDS RuntimeCopy, FiniteSets

CONSTANTS
  MaxClicks,      \* where the payload is the runtime
  MaxCopyClicks,  \* where it is copied
  MaxLaunches, MaxInstalls

VARIABLES
  stopping,  \* _stopping
  recorder,  \* _recorder
  preflight, \* _preflight
  procs,     \* the processes spawned: alive?, and the stage of Exited
  ui,        \* the UI thread: its stage, and the handles Stop took
  state,     \* HostController._state
  posts,     \* reports the view has not shown, in the order of their stamps
  menu,      \* what the view shows
  quit,      \* the operator's Quit
  clicks, launches, installs,
  crossed    \* a Stop Recorder found that the Recorder had gone meanwhile

supervisorVars == <<stopping, recorder, preflight, procs>>
hostVars == <<ui, state, posts, menu, quit>>
countVars == <<clicks, launches, installs, crossed>>
bundleVars == <<copyVars, supervisorVars, hostVars, countVars>>

Nobody == 0
UIAt(stage) == [at |-> stage, child |-> Nobody, preflight |-> Nobody]

Fresh ==
  /\ stopping = FALSE /\ recorder = Nobody /\ preflight = Nobody /\ procs = <<>>
  /\ ui = UIAt("startup") /\ state = "stopped" /\ posts = <<>> /\ menu = "none"
  /\ quit = "no" /\ crossed = FALSE

BundleInit ==
  /\ CopyInit
  /\ Fresh
  /\ clicks = 0 /\ launches = 1 /\ installs = 0

Alive(c) == c # Nobody /\ procs[c].alive
Killed(cs) == [c \in DOMAIN procs |-> IF c \in cs THEN [procs[c] EXCEPT !.alive = FALSE] ELSE procs[c]]
Spawned == Append(procs, [alive |-> TRUE, exited |-> "unwatched"])
CanStart(s) == s \in {"stopped", "failed", "unmanaged"}

Report(s) == state' = s /\ posts' = Append(posts, s)

-----------------------------------------------------------------------------
(* A boot.  Its stages up to "report" are RuntimeCopy's.                   *)

Announces(b) ==
  /\ Goes(b, "report", "spawn")
  /\ Report("preflight")
  /\ UNCHANGED <<diskVars, relied, supervisorVars, ui, menu, quit>>

Spawns(b, from, to) ==
  /\ \/ boots' = [boots EXCEPT ![b].at = to, ![b].child = Len(procs) + 1] /\ procs' = Spawned
     \/ boots' = [boots EXCEPT ![b].at = "fail"] /\ UNCHANGED procs
  /\ boots[b].at = from
  /\ UNCHANGED <<diskVars, relied, stopping, recorder, preflight, hostVars>>

(* The quit race of a spawn: publish the child, or kill it.                *)
ClaimsPreflight(b) ==
  /\ Goes(b, "claim", IF stopping THEN "drop" ELSE "wait")
  /\ preflight' = IF stopping THEN preflight ELSE boots[b].child
  /\ UNCHANGED <<diskVars, relied, stopping, recorder, procs, hostVars>>

Drops(b) ==
  /\ Goes(b, "drop", "over")
  /\ procs' = Killed({boots[b].child})
  /\ UNCHANGED <<diskVars, relied, stopping, recorder, preflight, hostVars>>

PreflightEnds(b) ==
  /\ Goes(b, "wait", "look")
  /\ ~Alive(boots[b].child)
  /\ preflight' = Nobody
  /\ UNCHANGED <<diskVars, relied, stopping, recorder, procs, hostVars>>

Looks(b) ==
  /\ Goes(b, "look", IF stopping THEN "over" ELSE "launch")
  /\ UNCHANGED <<diskVars, relied, supervisorVars, hostVars>>

(* Mutant: the Recorder is published without a look at the quit.           *)
PublishesAnyway(b) ==
  /\ Goes(b, "publish", "running")
  /\ recorder' = boots[b].child
  /\ UNCHANGED <<diskVars, relied, stopping, preflight, procs, hostVars>>

Publishes(b) ==
  /\ Goes(b, "publish", IF stopping THEN "drop" ELSE "running")
  /\ recorder' = IF stopping THEN recorder ELSE boots[b].child
  /\ UNCHANGED <<diskVars, relied, stopping, preflight, procs, hostVars>>

(* Running is said first, then the exit is listened for: one that has      *)
(* already happened is raised there and then.                              *)
SaysRunning(b) ==
  /\ Goes(b, "running", "watch")
  /\ Report("running")
  /\ UNCHANGED <<diskVars, relied, supervisorVars, ui, menu, quit>>

Watches(b) ==
  /\ Goes(b, "watch", "over")
  /\ procs' = [procs EXCEPT ![boots[b].child].exited = "watched"]
  /\ UNCHANGED <<diskVars, relied, stopping, recorder, preflight, hostVars>>

Fails(b) ==
  /\ Goes(b, "fail", IF stopping THEN "over" ELSE "failed")
  /\ UNCHANGED <<diskVars, relied, supervisorVars, hostVars>>

SaysFailed(b) ==
  /\ Goes(b, "failed", "over")
  /\ Report("failed")
  /\ UNCHANGED <<diskVars, relied, supervisorVars, ui, menu, quit>>

BootStep(b) ==
  \/ CopyStep(b) /\ UNCHANGED <<supervisorVars, hostVars>>
  \/ Announces(b) \/ Spawns(b, "spawn", "claim") \/ ClaimsPreflight(b)
  \/ PreflightEnds(b) \/ Looks(b) \/ Spawns(b, "launch", "publish") \/ Publishes(b)
  \/ Drops(b) \/ SaysRunning(b) \/ Watches(b) \/ Fails(b) \/ SaysFailed(b)

-----------------------------------------------------------------------------
(* A child ends by itself, and OnRecorderExited, which drains and probes   *)
(* the port between its critical section and its report.                   *)

Dies(c) ==
  /\ Alive(c)
  /\ procs' = Killed({c})
  /\ UNCHANGED <<copyVars, stopping, recorder, preflight, hostVars>>

Exits(c) ==
  /\ ~Alive(c) /\ procs[c].exited = "watched"
  /\ LET mine == ~stopping /\ recorder = c
     IN /\ procs' = [procs EXCEPT ![c].exited = IF mine THEN "verdict" ELSE "done"]
        /\ recorder' = IF mine THEN Nobody ELSE recorder
  /\ UNCHANGED <<copyVars, stopping, preflight, hostVars>>

(* Somebody else may be on the port.                                       *)
Verdict(c) ==
  /\ procs[c].exited = "verdict"
  /\ procs' = [procs EXCEPT ![c].exited = "done"]
  /\ Report("unmanaged") \/ Report("stopped")
  /\ UNCHANGED <<copyVars, stopping, recorder, preflight, ui, menu, quit>>

-----------------------------------------------------------------------------
(* The UI thread.  A click is on what the menu shows, and is refused when  *)
(* the state has moved on.                                                 *)

Click ==
  /\ clicks < IF copied THEN MaxCopyClicks ELSE MaxClicks
  /\ clicks' = clicks + 1
  /\ UNCHANGED <<launches, installs>>
Uncounted == UNCHANGED countVars

StartRecorder ==
  /\ ui.at = "idle" /\ CanStart(menu) /\ CanStart(state)
  /\ Click
  /\ state' = "preflight"
  /\ ui' = UIAt("report")
  /\ UNCHANGED <<copyVars, supervisorVars, posts, menu, quit, crossed>>

Starting ==
  /\ ui.at \in {"startup", "report"}
  /\ Report("preflight")
  /\ ui' = UIAt("start")
  /\ UNCHANGED <<copyVars, supervisorVars, menu, quit>>
  /\ Uncounted

(* Another boot is run beside those that are not over yet.                 *)
Begins ==
  LET going == {b \in DOMAIN boots : boots[b].at # "over"}
  IN  \E b \in (1..Cardinality(going) + 1) \ going :
        boots' = Put(Keep(boots, going), b, [at |-> "ensure", child |-> Nobody, outcome |-> "none"])

(* Mutant: a stop is for good.                                             *)
StartLatched ==
  /\ ui.at = "start"
  /\ Begins
  /\ ui' = UIAt("idle")
  /\ UNCHANGED <<diskVars, relied, supervisorVars, state, posts, menu, quit>>
  /\ Uncounted

Start ==
  /\ ui.at = "start"
  /\ stopping' = FALSE
  /\ Begins
  /\ ui' = UIAt("idle")
  /\ UNCHANGED <<diskVars, relied, recorder, preflight, procs, state, posts, menu, quit>>
  /\ Uncounted

OwnsRunningRecorder == state = "running" /\ recorder # Nobody

StopRecorder ==
  /\ ui.at = "idle" /\ menu = "running" /\ OwnsRunningRecorder
  /\ Click
  /\ ui' = UIAt("stop")
  /\ UNCHANGED <<copyVars, supervisorVars, state, posts, menu, quit, crossed>>

Stop ==
  /\ ui.at = "stop"
  /\ stopping' = TRUE
  /\ recorder' = Nobody
  /\ ui' = [at |-> "kill", child |-> recorder, preflight |-> preflight]
  /\ crossed' = (crossed \/ (quit # "going" /\ recorder = Nobody))
  /\ UNCHANGED <<copyVars, preflight, procs, state, posts, menu, quit, clicks, launches, installs>>

Kills ==
  /\ ui.at = "kill"
  /\ procs' = Killed({ui.child, ui.preflight})
  /\ IF quit = "going"
     THEN ui' = UIAt("gone") /\ quit' = "over" /\ UNCHANGED <<state, posts>>
     ELSE ui' = UIAt("idle") /\ Report("stopped") /\ UNCHANGED quit
  /\ UNCHANGED <<copyVars, stopping, recorder, preflight, menu>>
  /\ Uncounted

(* ConfirmQuit: one question at a time; the pool asks the Recorder for its *)
(* jobs, the UI thread the operator.                                       *)
Quit ==
  /\ ui.at = "idle" /\ quit = "no"
  /\ Click
  /\ quit' = "probing"
  /\ UNCHANGED <<copyVars, supervisorVars, ui, state, posts, menu, crossed>>

Probed ==
  /\ quit = "probing"
  /\ \/ OwnsRunningRecorder /\ quit' = "asking"
     \/ quit' = "leaving"
  /\ UNCHANGED <<copyVars, supervisorVars, ui, state, posts, menu>>
  /\ Uncounted

Answered ==
  /\ ui.at = "idle" /\ quit \in {"asking", "leaving"}
  /\ \/ quit' = "going" /\ ui' = UIAt("stop")
     \/ quit = "asking" /\ quit' = "no" /\ UNCHANGED ui
  /\ UNCHANGED <<copyVars, supervisorVars, state, posts, menu>>
  /\ Uncounted

(* Mutant: the last post wins.                                             *)
ShowsAnyPost(n) ==
  /\ ui.at = "idle"
  /\ menu' = posts[n]
  /\ posts' = SubSeq(posts, 1, n - 1) \o SubSeq(posts, n + 1, Len(posts))
  /\ UNCHANGED <<copyVars, supervisorVars, ui, state, quit>>
  /\ Uncounted

(* Posts of two threads may arrive in either order; an older one than what *)
(* is shown changes nothing.                                               *)
Shows(n) ==
  /\ ui.at = "idle"
  /\ menu' = posts[n]
  /\ posts' = SubSeq(posts, n + 1, Len(posts))
  /\ UNCHANGED <<copyVars, supervisorVars, ui, state, quit>>
  /\ Uncounted

UIStep ==
  \/ Starting \/ Start \/ Stop \/ Kills \/ Answered
  \/ \E n \in DOMAIN posts : Shows(n)

-----------------------------------------------------------------------------
(* The tray ends, by itself or in a crash, what is left of it with it; the *)
(* next launch may be of another release; without a copy there is nothing  *)
(* it would find.  Between two boots the runtime may be installed into, or *)
(* damaged.                                                                *)
Launch ==
  /\ copied /\ launches < MaxLaunches
  /\ launches' = launches + 1 /\ UNCHANGED <<clicks, installs>>
  /\ \E v \in Versions : Reinstall(v)
  /\ boots' = <<>>
  /\ stopping' = FALSE /\ recorder' = Nobody /\ preflight' = Nobody /\ procs' = <<>>
  /\ ui' = UIAt("startup") /\ state' = "stopped" /\ posts' = <<>> /\ menu' = "none"
  /\ quit' = "no" /\ crossed' = FALSE

Tampers ==
  /\ installs < MaxInstalls
  /\ \A b \in DOMAIN boots : boots[b].at = "over"
  /\ installs' = installs + 1 /\ UNCHANGED <<clicks, launches, crossed>>
  /\ (Alive(recorder) /\ Install) \/ Damage
  /\ UNCHANGED <<supervisorVars, hostVars>>

BundleNext ==
  \/ \E b \in DOMAIN boots : BootStep(b) /\ Uncounted
  \/ \E c \in DOMAIN procs : (Dies(c) \/ Exits(c) \/ Verdict(c)) /\ Uncounted
  \/ UIStep \/ StartRecorder \/ StopRecorder \/ Quit \/ Probed
  \/ Launch \/ Tampers

(* The pool and the UI thread run what they were given; no child has to    *)
(* die, and nobody to click or to launch.                                  *)
BundleFairness ==
  /\ WF_bundleVars(\E b \in DOMAIN boots : BootStep(b) /\ Uncounted)
  /\ WF_bundleVars(\E c \in DOMAIN procs : (Exits(c) \/ Verdict(c)) /\ Uncounted)
  /\ WF_bundleVars(UIStep) /\ WF_bundleVars(Probed)

BundleSpec == BundleInit /\ [][BundleNext]_bundleVars /\ BundleFairness

-----------------------------------------------------------------------------
(* However starts, stops, quits and exits meet, a child that lives can be  *)
(* stopped: the tray holds it, or a thread that will look at the quit or   *)
(* kill it does, and there is one at a time.  Not so once a Stop Recorder  *)
(* has crossed an exit, whose late verdict then offers a second start.     *)
HeldBy(b, c) ==
  boots[b].child = c /\ boots[b].at \in {"claim", "wait", "publish", "drop"}
InReach(c) ==
  \/ c \in {recorder, preflight, ui.child, ui.preflight}
  \/ \E b \in DOMAIN boots : HeldBy(b, c)

NoOrphan ==
  ~crossed =>
    /\ \A c \in DOMAIN procs : Alive(c) => InReach(c)
    /\ \A c, d \in DOMAIN procs : Alive(c) /\ Alive(d) => c = d
    /\ quit = "over" => recorder = Nobody

(* When nothing is in flight the menu shows the state, the state is so,    *)
(* and it is one of those that offer a command.                            *)
Settled ==
  /\ ui.at = "idle" /\ posts = <<>>
  /\ \A b \in DOMAIN boots : boots[b].at = "over"
  /\ \A c \in DOMAIN procs : ~Alive(c) => procs[c].exited \notin {"watched", "verdict"}

HostMenuIsTrue ==
  ~crossed /\ Settled =>
    /\ menu = state
    /\ state = "running" <=> recorder # Nobody
    /\ state # "preflight"

(* What a boot runs is a whole interpreter with its wheel, whatever was    *)
(* cut short before it; unless it is an older release's runtime, come back *)
(* to when its deletion had begun (RuntimeCopy.cs).                        *)
RunsWhole ==
  \A b \in DOMAIN boots :
    copied /\ boots[b].at = "resolve" /\ version \notin half
    => Present /\ Payload \subseteq runtime[version]

(* "/setup's model backends are gone and the operator should be offered the  *)
(* install picker again [...] exactly when a copy was (re-)made over an     *)
(* interpreter that had been pip-installed into" (RuntimeCopyResult): a     *)
(* boot that goes on without the backends has said so.                      *)
LossIsTold ==
  \A b \in DOMAIN boots :
    copied /\ boots[b].at = "resolve" /\ Present /\ "backends" \notin runtime[version]
    => ~relied

(* A boot does not leave the menu at Preparing, unless preflight runs, and *)
(* a quit is answered or carried out.                                      *)
HostComesBack ==
  /\ state = "preflight" ~>
       (state # "preflight" \/ Alive(preflight) \/ quit = "over")
  /\ quit # "no" ~> quit \in {"no", "over"}
=============================================================================
