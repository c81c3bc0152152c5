----------------------------- MODULE TrayRuntime -----------------------------
(***************************************************************************)
(* BridgeRuntime.cs of the tray bridge's Core, with the parts of           *)
(* CaptureOrchestrator.cs, MeetingController.cs and MeetingStateStore.cs   *)
(* it drives: the operator's Start, Connect, Disconnect, End and Quit,     *)
(* each a task that outlives its click, over one set of devices.           *)
(*                                                                         *)
(* A click is handled on the shell's UI thread up to its first wait, and   *)
(* so is one action; the rest of its task runs on the pool, a step per     *)
(* wait or block under _gate, and reaches the menu through posts the UI    *)
(* thread takes in order.  A device set, a meeting and a session are       *)
(* named by the click that made them.  Statuses, notices, the summary      *)
(* window, the past meetings and the settings are left out; how a set      *)
(* drains is TapSession's, what the Recorder does TapScribe's own.         *)
(***************************************************************************)
EXTENDS Integers, Sequences, FiniteSets

CONSTANTS
  MaxClicks,   \* bound: clicks that begin something, over all launches
  MaxLaunches, \* bound: launches of the process
  MaxBlips,    \* MaxConsecutivePollFailures
  MaxShown     \* bound: polls that find the pipeline running, per flow

ASSUME TrayAssumption == /\ {MaxClicks, MaxLaunches, MaxShown} \subseteq Nat
                         /\ MaxBlips \in Nat \ {0}

VARIABLES
  process,   \* "up", "crashed" or "quit"
  launches,  \* launches so far
  clicks,    \* flows begun so far
  sets,      \* set -> "live", "draining" (EndMeetingAsync), "closing"
             \* (DisposeAsync), and closed: "drained", "faulted", "closed"
  meeting,   \* the set of _meeting, 0 for null
  room,      \* the set of _attached, 0 for null
  flows,     \* the tasks in flight: click -> [kind, at, set, session, run,
             \* cancelled, blips, shown]
  quit,      \* QuitAsync: [at, tasks, set, clicks]
  capped,    \* one of its waits ran into its cap (history)
  menu,      \* the commands the menu offers: "idle", "busy", "running"
             \* or "attached"
  posts,     \* what the dispatcher has yet to run: menus, or "shutdown"
  unlisted,  \* a takeover could not list the devices (history)
  saved,     \* meeting-state.json: a session, 0 for none
  triggered, \* the sessions whose pipeline was triggered, in order (history)
  settled,   \* those whose outcome was shown or that were not saved (history)
  dropped    \* those whose flow a quit cancelled (history)

diskVars == <<saved, triggered, settled, dropped>>
ownVars == <<sets, meeting, room, flows>>
rvars == <<process, launches, clicks, ownVars, quit, capped, menu, posts, unlisted, diskVars>>

NoQuit == [at |-> 0, tasks |-> {}, set |-> 0, clicks |-> 0]

RInit ==
  /\ process = "up" /\ launches = 1 /\ clicks = 0
  /\ sets = <<>> /\ meeting = 0 /\ room = 0 /\ flows = <<>>
  /\ quit = NoQuit /\ capped = FALSE /\ menu = "idle" /\ posts = <<>> /\ unlisted = FALSE
  /\ saved = 0 /\ triggered = <<>> /\ settled = {} /\ dropped = {}

Quitting == quit.at # 0

Posts(what) == posts' = Append(posts, what)

Turns(s, how) == sets' = [sets EXCEPT ![s] = how]

Flow(kind, at, set, session, run) ==
  [kind |-> kind, at |-> at, set |-> set, session |-> session, run |-> run,
   cancelled |-> FALSE, blips |-> 0, shown |-> 0]

Put(f, x, value) == [y \in DOMAIN f \cup {x} |-> IF y = x THEN value ELSE f[y]]

(* The task of the latest click, as its first wait leaves it.              *)
Runs(flow) == flows' = Put(flows, clicks + 1, flow)

Moves(n, at) == flows' = [flows EXCEPT ![n].at = at]

Returns(n) == flows' = [m \in DOMAIN flows \ {n} |-> flows[m]]

InFlight(kinds) == {n \in DOMAIN flows : flows[n].kind \in kinds}

-----------------------------------------------------------------------------
(* Clicks.                                                                 *)
Clicks ==
  /\ process = "up" /\ clicks < MaxClicks
  /\ clicks' = clicks + 1 /\ menu' = "busy"
  /\ UNCHANGED <<process, launches, quit, capped>>

(* FlowInFlightLocked                                                      *)
FlowInFlight == meeting # 0 \/ InFlight({"start", "end", "connect", "disconnect"}) # {} \/ Quitting

(* Mutant: the menu of a refused takeover is the idle one.                 *)
RefusalIsIdle == "idle"

(* DescribeVerdict's menu: an attached tap that still streams keeps its    *)
(* commands.                                                               *)
Refused == IF room # 0 THEN "attached" ELSE "idle"

(* Up to the pre-flight, or to the drain of what a Start takes over: the   *)
(* devices cannot be listed, the selection is refused, or it resolves.     *)
Opens(kind) ==
  /\ Clicks /\ ~FlowInFlight
  /\ \/ /\ Posts("idle") /\ unlisted' = (unlisted \/ room # 0)
        /\ UNCHANGED <<sets, room, flows>>
     \/ /\ Posts(Refused)
        /\ UNCHANGED <<sets, room, flows, unlisted>>
     \/ /\ room = 0 /\ Runs(Flow(kind, "preflight", 0, 0, FALSE))
        /\ UNCHANGED <<sets, room, posts, unlisted>>
     \/ /\ room # 0 /\ room' = 0 /\ Turns(room, "draining") /\ Runs(Flow(kind, "takeover", room, 0, FALSE))
        /\ UNCHANGED <<posts, unlisted>>
  /\ UNCHANGED <<meeting, diskVars>>

Start == menu \in {"idle", "attached"} /\ Opens("start")

Connect == menu = "idle" /\ room = 0 /\ Opens("connect")

Disconnect ==
  /\ Clicks /\ menu = "attached" /\ room # 0
  /\ room' = 0 /\ Turns(room, "draining") /\ Runs(Flow("disconnect", "drain", room, 0, FALSE))
  /\ UNCHANGED <<meeting, posts, unlisted, diskVars>>

(* Record-only, or with the pipeline: then the session is saved first, if  *)
(* the disk takes it.                                                      *)
End ==
  /\ Clicks /\ menu = "running" /\ meeting # 0
  /\ meeting' = 0 /\ Turns(meeting, "draining")
  /\ \E run, kept \in BOOLEAN :
       /\ kept => run
       /\ Runs(Flow("end", "drain", meeting, meeting, run))
       /\ saved' = IF kept THEN meeting ELSE saved
       /\ settled' = IF kept THEN settled ELSE settled \cup {meeting}
  /\ UNCHANGED <<room, posts, unlisted, triggered, dropped>>

-----------------------------------------------------------------------------
(* A Start or a Connect goes on: OpenTapsAsync and RunTapsAsync.           *)
Continues(n, kinds, at) ==
  /\ n \in InFlight(kinds) /\ flows[n].at = at
  /\ UNCHANGED <<process, launches, clicks, quit, capped, menu, unlisted>>

(* A quit during the takeover's drain ends it; a drain that fails too.     *)
TakenOver(n) ==
  /\ Continues(n, {"start"}, "takeover")
  /\ CASE sets[flows[n].set] = "faulted" -> Returns(n) /\ Posts("idle")
       [] sets[flows[n].set] = "drained" /\ Quitting -> Returns(n) /\ UNCHANGED posts
       [] sets[flows[n].set] = "drained" /\ ~Quitting -> Moves(n, "preflight") /\ UNCHANGED posts
       [] OTHER -> FALSE
  /\ UNCHANGED <<sets, meeting, room, diskVars>>

(* The Recorder answers and devices open and start, or one of it fails and *)
(* leaves none open.                                                       *)
DevicesOpen(n) ==
  /\ Continues(n, {"start", "connect"}, "preflight")
  /\ \/ /\ flows' = [flows EXCEPT ![n].at = "publish", ![n].set = n]
        /\ sets' = Put(sets, n, "live") /\ UNCHANGED posts
     \/ Returns(n) /\ Posts("idle") /\ UNCHANGED sets
  /\ UNCHANGED <<meeting, room, diskVars>>

Published(n) ==
  /\ flows' = [flows EXCEPT ![n].at = "show", ![n].set = 0]
  /\ meeting' = IF flows[n].kind = "start" THEN n ELSE meeting
  /\ room' = IF flows[n].kind = "connect" THEN n ELSE room
  /\ UNCHANGED sets

(* Mutant: no look at _quitting.                                           *)
PublishIgnoresQuit(n) ==
  /\ Continues(n, {"start", "connect"}, "publish")
  /\ Published(n)
  /\ UNCHANGED <<posts, diskVars>>

Publish(n) ==
  /\ Continues(n, {"start", "connect"}, "publish")
  /\ \/ ~Quitting /\ Published(n)
     \/ Quitting /\ Moves(n, "abandon") /\ Turns(n, "closing") /\ UNCHANGED <<meeting, room>>
  /\ UNCHANGED <<posts, diskVars>>

ShowLive(n) ==
  /\ Continues(n, {"start", "connect"}, "show")
  /\ Returns(n) /\ Posts(IF flows[n].kind = "start" THEN "running" ELSE "attached")
  /\ UNCHANGED <<sets, meeting, room, diskVars>>

Abandoned(n) ==
  /\ Continues(n, {"start", "connect"}, "abandon") /\ sets[n] = "closed"
  /\ Returns(n)
  /\ UNCHANGED <<sets, meeting, room, posts, diskVars>>

Disconnected(n) ==
  /\ Continues(n, {"disconnect"}, "drain") /\ sets[flows[n].set] \in {"drained", "faulted"}
  /\ Returns(n)
  /\ IF Quitting THEN UNCHANGED posts ELSE Posts("idle")
  /\ UNCHANGED <<sets, meeting, room, diskVars>>

-----------------------------------------------------------------------------
(* An End goes on: RunPipelineFlowAsync around MeetingController.          *)
Tells(n) == Moves(n, "over") /\ Posts("idle") /\ settled' = settled \cup {flows[n].session}

CutOff(n) ==
  /\ flows[n].cancelled /\ Moves(n, "over") /\ Posts("idle")
  /\ dropped' = dropped \cup {flows[n].session}

(* What the drain throws is not what the flow catches: it escapes.         *)
EndDrained(n) ==
  /\ Continues(n, {"end"}, "drain")
  /\ \/ /\ sets[flows[n].set] = "faulted"
        /\ Moves(n, "escapes") /\ UNCHANGED <<posts, settled, dropped>>
     \/ /\ sets[flows[n].set] = "drained"
        /\ \/ ~flows[n].run /\ Tells(n) /\ UNCHANGED dropped
           \/ flows[n].run /\ CutOff(n) /\ UNCHANGED settled
           \/ /\ flows[n].run /\ ~flows[n].cancelled
              /\ Moves(n, "trigger") /\ UNCHANGED <<posts, settled, dropped>>
  /\ UNCHANGED <<sets, meeting, room, saved, triggered>>

(* TriggerPipelineAsync: accepted, busy with another job of the session,   *)
(* or failed or cut off, whether or not it reached the Recorder.           *)
TriggerEnds(n) ==
  /\ Continues(n, {"end"}, "trigger")
  /\ \E reached \in BOOLEAN :
       /\ triggered' = IF reached THEN Append(triggered, flows[n].session) ELSE triggered
       /\ \/ Moves(n, "poll") /\ UNCHANGED <<posts, settled, dropped>>
          \/ Tells(n) /\ UNCHANGED dropped
          \/ CutOff(n) /\ UNCHANGED settled
  /\ UNCHANGED <<sets, meeting, room, saved>>

(* PollToTerminalAsync: a running pipeline; what ends the polls; a failure *)
(* to answer, of which a run of MaxBlips ends them too.                    *)
Poll(n) ==
  /\ Continues(n, {"end"}, "poll")
  /\ \/ /\ ~flows[n].cancelled /\ flows[n].shown < MaxShown
        /\ flows' = [flows EXCEPT ![n].shown = @ + 1, ![n].blips = 0]
        /\ UNCHANGED <<posts, settled, dropped>>
     \/ Tells(n) /\ UNCHANGED dropped
     \/ /\ ~flows[n].cancelled /\ flows[n].blips + 1 < MaxBlips
        /\ flows' = [flows EXCEPT ![n].blips = @ + 1]
        /\ UNCHANGED <<posts, settled, dropped>>
     \/ CutOff(n) /\ UNCHANGED settled
  /\ UNCHANGED <<sets, meeting, room, saved, triggered>>

(* The flow's finally: the state file goes, if the disk lets it, and an    *)
(* exception that escaped is told of.                                      *)
Forget(n) ==
  /\ n \in InFlight({"end"}) /\ flows[n].at \in {"over", "escapes"}
  /\ Returns(n) /\ saved' \in {0, saved}
  /\ IF flows[n].at = "escapes" THEN Posts("idle") ELSE UNCHANGED posts
  /\ UNCHANGED <<process, launches, clicks, sets, meeting, room, quit, capped, menu, unlisted,
                 triggered, settled, dropped>>

-----------------------------------------------------------------------------
(* QuitAsync.                                                              *)
Stages == <<"settle", "meeting", "room", "disconnect", "end", "shutdown">>

(* What a stage would wait for is there.                                   *)
Waits(stage, tasks) ==
  CASE stage = "settle" -> tasks \cap InFlight({"start", "connect"}) # {}
    [] stage = "meeting" -> meeting # 0
    [] stage = "room" -> room # 0
    [] stage \in {"disconnect", "end"} -> tasks \cap InFlight({stage}) # {}
    [] stage = "shutdown" -> TRUE

(* On to the next of these stages with something to wait for: the set it   *)
(* takes, it closes.                                                       *)
GoesThrough(stages, tasks) ==
  LET i == CHOOSE j \in stages :
             /\ j > quit.at /\ Waits(Stages[j], tasks)
             /\ \A k \in stages : quit.at < k /\ k < j => ~Waits(Stages[k], tasks)
      taken == CASE Stages[i] = "meeting" -> meeting [] Stages[i] = "room" -> room [] OTHER -> 0
  IN  /\ quit' = [at |-> i, tasks |-> tasks, set |-> taken, clicks |-> IF Quitting THEN quit.clicks ELSE clicks]
      /\ meeting' = IF Stages[i] = "meeting" THEN 0 ELSE meeting
      /\ room' = IF Stages[i] = "room" THEN 0 ELSE room
      /\ IF taken # 0 THEN Turns(taken, "closing") ELSE UNCHANGED sets
      /\ IF Stages[i] = "shutdown" THEN Posts("shutdown") ELSE UNCHANGED posts

GoesOn(tasks) == GoesThrough(DOMAIN Stages, tasks)

(* Up to its first wait: the End in flight is cancelled, the menu busy.    *)
Quit ==
  /\ process = "up" /\ ~Quitting
  /\ menu' = "busy"
  /\ flows' = [n \in DOMAIN flows |-> [flows[n] EXCEPT !.cancelled = flows[n].kind = "end"]]
  /\ GoesOn(DOMAIN flows)
  /\ UNCHANGED <<process, launches, clicks, capped, unlisted, diskVars>>

Waited ==
  CASE Stages[quit.at] \in {"meeting", "room"} -> sets[quit.set] = "closed"
    [] OTHER -> ~Waits(Stages[quit.at], quit.tasks)

(* Mutant: no cap is raced.                                                *)
QuitWaits ==
  /\ quit.at \in 1..Len(Stages) - 1 /\ Waited
  /\ GoesOn(quit.tasks)
  /\ UNCHANGED <<process, launches, clicks, flows, capped, menu, unlisted, diskVars>>

(* What it waits for is over, or its cap is.                               *)
QuitGoesOn ==
  /\ quit.at \in 1..Len(Stages) - 1
  /\ capped' = (capped \/ ~Waited)
  /\ GoesOn(quit.tasks)
  /\ UNCHANGED <<process, launches, clicks, flows, menu, unlisted, diskVars>>

-----------------------------------------------------------------------------
(* EndMeetingAsync and DisposeAsync of a set come to their end.            *)
SetCloses(s) ==
  /\ \/ sets[s] = "draining" /\ \E how \in {"drained", "faulted"} : Turns(s, how)
     \/ sets[s] = "closing" /\ Turns(s, "closed")
  /\ UNCHANGED <<process, launches, clicks, meeting, room, flows, quit, capped, menu, posts, unlisted, diskVars>>

(* The process ends, and what it held with it.                             *)
Exits(how) ==
  /\ process' = how
  /\ sets' = <<>> /\ meeting' = 0 /\ room' = 0 /\ flows' = <<>>
  /\ quit' = NoQuit /\ capped' = FALSE /\ menu' = "idle" /\ posts' = <<>> /\ unlisted' = FALSE
  /\ UNCHANGED <<launches, clicks, diskVars>>

(* The UI thread runs a post.                                              *)
Render ==
  /\ posts # <<>>
  /\ \/ Head(posts) = "shutdown" /\ Exits("quit")
     \/ /\ Head(posts) # "shutdown" /\ menu' = Head(posts) /\ posts' = Tail(posts)
        /\ UNCHANGED <<process, launches, clicks, ownVars, quit, capped, unlisted, diskVars>>

Crash == process = "up" /\ Exits("crashed")

(* Mutant: what is resumed is triggered again.                             *)
StartupTriggers ==
  /\ process # "up" /\ process' = "up"
  /\ launches < MaxLaunches /\ launches' = launches + 1
  /\ \/ saved = 0 /\ UNCHANGED <<clicks, flows, menu>>
     \/ /\ saved # 0 /\ clicks' = clicks + 1 /\ menu' = "busy"
        /\ Runs(Flow("end", "trigger", 0, saved, TRUE))
  /\ UNCHANGED <<sets, meeting, room, quit, capped, posts, unlisted, diskVars>>

(* Launched again: a saved session is followed, and nothing else done.     *)
Startup ==
  /\ process # "up" /\ process' = "up"
  /\ launches < MaxLaunches /\ launches' = launches + 1
  /\ \/ saved = 0 /\ UNCHANGED <<clicks, flows, menu>>
     \/ /\ saved # 0 /\ clicks' = clicks + 1 /\ menu' = "busy"
        /\ Runs(Flow("end", "poll", 0, saved, TRUE))
  /\ UNCHANGED <<sets, meeting, room, quit, capped, posts, unlisted, diskVars>>

FlowStep(n) ==
  \/ TakenOver(n) \/ DevicesOpen(n) \/ Publish(n) \/ ShowLive(n) \/ Abandoned(n) \/ Disconnected(n)
  \/ EndDrained(n) \/ TriggerEnds(n) \/ Poll(n) \/ Forget(n)

RNext ==
  \/ Start \/ Connect \/ Disconnect \/ End \/ Quit
  \/ \E n \in DOMAIN flows : FlowStep(n)
  \/ QuitGoesOn \/ Render
  \/ \E s \in DOMAIN sets : SetCloses(s)
  \/ Crash \/ Startup

RSpec == RInit /\ [][RNext]_rvars

-----------------------------------------------------------------------------
(* Properties.                                                             *)
Unclosed == {s \in DOMAIN sets : sets[s] \in {"live", "draining", "closing"}}

Owners(s) ==
  Cardinality({n \in DOMAIN flows : flows[n].set = s})
    + (IF s = meeting THEN 1 ELSE 0) + (IF s = room THEN 1 ELSE 0)

(* Whatever clicks, answers and a quit overtake one another, the devices   *)
(* are open once, in the hands of exactly one who will close them; once a  *)
(* quit has looked for the meeting and the attached tap, none appears      *)
(* (BridgeRuntime's FlowInFlightLocked, TakeMeeting, RunTapsAsync).        *)
DevicesHaveOneOwner ==
  /\ Cardinality(Unclosed) <= 1
  /\ \A s \in Unclosed : sets[s] # "closing" => Owners(s) = 1
  /\ quit.at > 3 => meeting = 0 /\ room = 0

(* The shell is let go last (ITrayView.Shutdown: "so nothing is            *)
(* streaming"), unless a wait of the quit ran into its cap or something    *)
(* was clicked during it (README, Known disagreements).                    *)
ShutdownIsLast ==
  quit.at = Len(Stages) /\ ~capped /\ clicks = quit.clicks => Unclosed = {}

(* The devices are in one hand while they are open, and closed before the *)
(* shell is let go.                                                        *)
DevicesAreReleased == DevicesHaveOneOwner /\ ShutdownIsLast

Quiet == process = "up" /\ DOMAIN flows = {} /\ posts = <<>> /\ ~Quitting

Mode == IF meeting # 0 THEN "running" ELSE IF room # 0 THEN "attached" ELSE "idle"

(* Once everything has settled the menu offers what the runtime can do,    *)
(* after every failure too; left out is a takeover that could not list the *)
(* devices (README, Known disagreements).                                  *)
MenuTellsMode == Quiet /\ ~unlisted => menu = Mode

(* A meeting's pipeline is triggered once, and when all its taps have      *)
(* drained, over crashes and launches (EndAsync, ResumeAsync); until its   *)
(* outcome was shown its session is in the state file, so that the next    *)
(* launch goes on following it.                                            *)
MeetingRunsOnce ==
  /\ \A i, j \in DOMAIN triggered : triggered[i] = triggered[j] => i = j
  /\ \A i \in DOMAIN triggered :
       triggered[i] \in DOMAIN sets => sets[triggered[i]] = "drained"
  /\ \A i \in DOMAIN triggered :
       triggered[i] \notin settled \cup dropped => saved = triggered[i]

(* A quit in the middle of it too ("a tray that was quit mid-pipeline      *)
(* comes back and picks the in-flight meeting up where it left off",       *)
(* BridgeRuntimeResumeTests.cs:4).  The code does not do that.             *)
QuitIsResumed ==
  process = "quit" =>
    \A i \in DOMAIN triggered : triggered[i] \notin settled => saved = triggered[i]

(* A quit ends, and the menu comes back, unless devices never close.       *)
QuitEnds == Quitting ~> process # "up"

MenuComesBack ==
  process = "up" /\ menu = "busy" ~> process # "up" \/ menu # "busy" \/ Unclosed # {}
=============================================================================
