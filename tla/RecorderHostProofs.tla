------------------------- MODULE RecorderHostProofs -------------------------
(* What holds of RecorderHost and RuntimeCopy for any number of boots,     *)
(* children, clicks and launches, and any releases: no child that nobody   *)
(* can stop, a menu that tells what is so, and no boot of half a runtime.  *)
(*                                                                         *)
(* A tray keeps one boot at work at a time because a start is offered only *)
(* in a state that no working boot leaves and no running Recorder has; the *)
(* host's invariant ties the state, the reports and the UI thread's stage  *)
(* to who is at work (WorkInv), who holds what lives (LifeInv), and what   *)
(* the state speaks of (StateInv).                                         *)
EXTENDS RecorderHost, TLAPS

(* What a boot, a process, the UI thread and the host can be.              *)
Stages ==
  {"ensure", "clear", "copy", "move", "tidy", "notice", "resolve", "report", "spawn", "claim",
          "wait", "look",
   "launch", "publish", "drop", "running", "watch", "fail", "failed", "over"}
BootType == [at : Stages, child : Nat, outcome : {"none", "current", "repaired", "upgraded",
        "fresh"}]
ProcType == [alive : BOOLEAN, exited : {"unwatched", "watched", "verdict", "done"}]
UIType == [at : {"startup", "report", "start", "idle", "stop", "kill", "gone"}, child : Nat,
        preflight : Nat]
States == {"stopped", "preflight", "running", "failed", "unmanaged"}

HostTypeOK ==
  /\ boots \in [DOMAIN boots -> BootType]
  /\ procs \in Seq(ProcType)
  /\ stopping \in BOOLEAN /\ crossed \in BOOLEAN
  /\ recorder \in Nat /\ preflight \in Nat
  /\ ui \in UIType
  /\ state \in States /\ menu \in States \cup {"none"} /\ posts \in Seq(States)
  /\ quit \in {"no", "probing", "asking", "leaving", "going", "over"}

(* The processes that are spoken of were spawned, and each boot's child is *)
(* its own.                                                                *)
NamesInv ==
  /\ {recorder, ui.child} \subseteq 0..Len(procs)
  /\ \A b \in DOMAIN boots : boots[b].child \in 0..Len(procs)
  /\ \A b, d \in DOMAIN boots : boots[b].child = boots[d].child /\ boots[b].child # Nobody =>
       b = d

(* A process that is listened to is dead once its exit was handled, and is *)
(* listened to only after its boot has said running.                       *)
WithChild == {"claim", "wait", "publish", "drop", "running", "watch"}
ExitInv ==
  /\ \A c \in DOMAIN procs : procs[c].exited \in {"verdict", "done"} => ~procs[c].alive
  /\ \A b \in DOMAIN boots : boots[b].at \in WithChild =>
       boots[b].child # Nobody /\ procs[boots[b].child].exited = "unwatched"

(* A quit that goes is the UI thread's, and a stop has taken the Recorder. *)
QuitInv ==
  /\ quit = "going" => ui.at \in {"stop", "kill"}
  /\ quit = "over" <=> ui.at = "gone"
  /\ ui.at \in {"kill", "gone"} => stopping = TRUE /\ recorder = Nobody

(* The view shows the latest report, or will.                              *)
PostsInv ==
  ui.at \notin {"startup", "report"} => state = IF posts = <<>> THEN menu ELSE posts[Len(posts)]

Working(b) == boots[b].at \notin {"watch", "over"}
Pending(c) == procs[c].exited = "verdict"

(* While a boot works, the host says so and has no Recorder but that boot's *)
(* own; it is told to stop only by a quit.                                  *)
WorkInv ==
  /\ \A b, d \in DOMAIN boots : Working(b) /\ Working(d) => b = d
  /\ \A b \in DOMAIN boots : Working(b) =>
       /\ state = "preflight"
       /\ \/ ui.at = "idle" /\ stopping = FALSE
          \/ ui.at = "stop" /\ stopping = FALSE /\ quit = "going"
          \/ ui.at \in {"kill", "gone"} /\ quit \in {"going", "over"}
       /\ boots[b].at = "drop" => stopping = TRUE
       /\ boots[b].at = "running" => recorder = boots[b].child \/ stopping = TRUE
       /\ boots[b].at # "running" => recorder = Nobody /\ (ui.at = "kill" => ui.child = Nobody)
       /\ boots[b].at \in {"look", "launch"} => ~Alive(boots[b].child)

(* A process that lives is a boot's, the host's, or about to be killed.    *)
LifeInv ==
  \A c \in DOMAIN procs : Alive(c) =>
    \/ \E b \in DOMAIN boots : HeldBy(b, c)
    \/ c = recorder
    \/ ui.at = "kill" /\ c = ui.child

(* What the state says.                                                    *)
RecorderInv ==
  recorder # Nobody =>
    state = "running" \/ \E b \in DOMAIN boots : boots[b].at = "running" /\
            boots[b].child = recorder
RunningInv ==
  state = "running" =>
    \/ recorder # Nobody \/ ui.at = "kill" \/ quit = "over"
    \/ \E c \in DOMAIN procs : Pending(c)
PreparingInv ==
  state = "preflight" =>
    \/ ui.at \in {"report", "start"} \/ \E b \in DOMAIN boots : Working(b)
    \/ quit = "over" \/ (quit = "going" /\ ui.at = "kill")
PendingInv ==
  \A c \in DOMAIN procs : Pending(c) =>
    /\ state = "running" /\ recorder = Nobody /\ \A d \in DOMAIN procs : Pending(d) => d = c
    /\ ui.at = "kill" => quit = "going" /\ ui.child = Nobody
StopInv ==
  /\ ui.at \in {"stop", "kill"} /\ quit # "going" => \A b \in DOMAIN boots : ~Working(b)
  /\ ui.at = "kill" /\ quit # "going" => state = "running"
  /\ ui.at \in {"startup", "report", "start"} =>
       /\ recorder = Nobody
       /\ state = IF ui.at = "startup" THEN "stopped" ELSE "preflight"
StateInv == RecorderInv /\ RunningInv /\ PreparingInv /\ PendingInv /\ StopInv

Orderly == crossed = FALSE => WorkInv /\ LifeInv /\ StateInv

HostInv == HostTypeOK /\ NamesInv /\ ExitInv /\ QuitInv /\ PostsInv /\ Orderly


-----------------------------------------------------------------------------
(* What a move of a boot leaves: its stage is new, its child and the other *)
(* boots are as they were.                                                 *)
Moves(b, to) ==
  /\ DOMAIN boots' = DOMAIN boots /\ boots' \in [DOMAIN boots -> BootType]
  /\ boots'[b].at = to /\ boots'[b].child = boots[b].child
  /\ \A d \in DOMAIN boots : d # b => boots'[d] = boots[d]
  /\ \A d \in DOMAIN boots : boots'[d].child = boots[d].child

(* A step of Goes is a move.                                               *)
LEMMA GoesMoves ==
  ASSUME HostTypeOK, NEW b \in DOMAIN boots, NEW from, NEW to \in Stages, Goes(b, from, to)
  PROVE  boots[b].at = from /\ Moves(b, to)
<1>1. boots \in [DOMAIN boots -> BootType] /\ boots[b] \in BootType
  BY DEF HostTypeOK
<1>2. boots[b].at = from /\ boots' = [boots EXCEPT ![b].at = to]
  BY DEF Goes
<1>3. QED
  BY <1>1, <1>2 DEF Moves, BootType

(* A process more.                                                         *)
LEMMA SpawnedShape ==
  ASSUME HostTypeOK, procs' = Spawned
  PROVE  /\ Len(procs) \in Nat /\ Len(procs') = Len(procs) + 1 /\ procs' \in Seq(ProcType)
         /\ DOMAIN procs = 1..Len(procs) /\ DOMAIN procs' = 1..Len(procs) + 1
         /\ \A c \in DOMAIN procs : procs'[c] = procs[c]
         /\ procs'[Len(procs) + 1].exited = "unwatched"
         /\ \A c \in DOMAIN procs' : c \in DOMAIN procs \/ c = Len(procs) + 1
         /\ \A c \in 0..Len(procs) : c \in 0..Len(procs') /\ c # Len(procs) + 1 /\ (c # 0 =>
              c \in DOMAIN procs)
         /\ Len(procs) + 1 \in 0..Len(procs') /\ Len(procs) + 1 # 0
<1>1. procs \in Seq(ProcType) /\ [alive |-> TRUE, exited |-> "unwatched"] \in ProcType
  BY DEF HostTypeOK, ProcType
<1>2. /\ Len(procs) \in Nat /\ Len(procs') = Len(procs) + 1 /\ procs' \in Seq(ProcType)
      /\ DOMAIN procs = 1..Len(procs) /\ DOMAIN procs' = 1..Len(procs) + 1
      /\ \A c \in DOMAIN procs : procs'[c] = procs[c]
      /\ procs'[Len(procs) + 1].exited = "unwatched"
  BY <1>1 DEF Spawned
<1>3. PICK n \in Nat : n = Len(procs)
  BY <1>2
<1>4. \A c \in 1..n + 1 : c \in 1..n \/ c = n + 1
  OBVIOUS
<1>5. \A c \in 0..n : c \in 0..n + 1 /\ c # n + 1 /\ (c # 0 => c \in 1..n)
  OBVIOUS
<1>6. n + 1 \in 0..n + 1 /\ n + 1 # 0
  OBVIOUS
<1>7. QED
  BY <1>2, <1>3, <1>4, <1>5, <1>6

(* Processes less.                                                         *)
LEMMA KilledShape ==
  ASSUME HostTypeOK, NEW cs, procs' = Killed(cs)
  PROVE  /\ DOMAIN procs' = DOMAIN procs /\ Len(procs') = Len(procs) /\ procs' \in Seq(ProcType)
         /\ \A c \in DOMAIN procs : procs'[c].exited = procs[c].exited
         /\ \A c \in DOMAIN procs : procs'[c].alive => procs[c].alive /\ c \notin cs
<1>1. procs \in Seq(ProcType) /\ DOMAIN procs = 1..Len(procs) /\ Len(procs) \in Nat
  BY DEF HostTypeOK
<1>2. \A c \in DOMAIN procs : procs[c] \in ProcType
  BY <1>1
<1>3. \A c \in DOMAIN procs : procs'[c] = IF c \in cs THEN [procs[c] EXCEPT !.alive = FALSE] ELSE procs[c]
  BY DEF Killed
<1>4. ASSUME NEW c \in DOMAIN procs
      PROVE  procs'[c] \in ProcType /\ procs'[c].exited = procs[c].exited /\
              (procs'[c].alive => procs[c].alive /\ c \notin cs)
  <2>1. CASE c \in cs
    BY <1>2, <1>3, <2>1 DEF ProcType
  <2>2. CASE c \notin cs
    BY <1>2, <1>3, <2>2
  <2>3. QED
    BY <2>1, <2>2
<1>5. DOMAIN procs' = 1..Len(procs) /\ procs' = [c \in 1..Len(procs) |-> procs'[c]]
  BY <1>1 DEF Killed
<1>6. procs' \in [1..Len(procs) -> ProcType]
  BY <1>1, <1>4, <1>5
<1>7. procs' \in Seq(ProcType) /\ Len(procs') = Len(procs)
  BY <1>1, <1>5, <1>6
<1>8. QED
  BY <1>1, <1>4, <1>5, <1>7

(* The listening to a process moves on.                                    *)
LEMMA ExitedShape ==
  ASSUME HostTypeOK, NEW c \in DOMAIN procs, NEW to \in {"watched", "verdict", "done"},
         procs' = [procs EXCEPT ![c].exited = to]
  PROVE  /\ DOMAIN procs' = DOMAIN procs /\ Len(procs') = Len(procs) /\ procs' \in Seq(ProcType)
         /\ \A d \in DOMAIN procs : procs'[d].alive = procs[d].alive
         /\ procs'[c].exited = to
         /\ \A d \in DOMAIN procs : d # c => procs'[d] = procs[d]
<1>1. procs \in Seq(ProcType) /\ DOMAIN procs = 1..Len(procs) /\ procs[c] \in ProcType
  BY DEF HostTypeOK
<1>2. QED
  BY <1>1 DEF ProcType

(* A report is the state and the last post.                                *)
LEMMA ReportShape ==
  ASSUME HostTypeOK, NEW s \in States, Report(s)
  PROVE  state' = s /\ posts' \in Seq(States) /\ posts' # <<>> /\ posts'[Len(posts')] = s
<1>1. posts \in Seq(States)
  BY DEF HostTypeOK
<1>2. QED
  BY <1>1 DEF Report

-----------------------------------------------------------------------------
(* A boot between stages that hold nothing: nobody sees it.                *)
LEMMA QuietKeeps ==
  ASSUME HostInv, NEW b \in DOMAIN boots, NEW to \in Stages, to \notin {"claim", "wait",
          "publish", "drop", "running", "watch", "look", "launch", "over"},
         boots[b].at \notin {"claim", "wait", "publish", "drop", "running", "watch", "over"},
                 Moves(b, to),
         UNCHANGED <<stopping, recorder, preflight, procs, ui, state, posts, menu, quit,
                 crossed>>
  PROVE  HostInv'
<1>0. HostTypeOK /\ NamesInv /\ ExitInv /\ QuitInv /\ PostsInv
  BY DEF HostInv
<1>1. HostTypeOK'
  BY <1>0 DEF HostTypeOK, Moves
<1>2. NamesInv'
  BY <1>0 DEF NamesInv, Moves
<1>3. ExitInv'
  BY <1>0 DEF ExitInv, WithChild, Moves
<1>4. QuitInv'
  BY <1>0 DEF QuitInv
<1>5. PostsInv'
  BY <1>0 DEF PostsInv
<1>6. ASSUME crossed' = FALSE PROVE WorkInv' /\ LifeInv' /\ StateInv'
  <2>1. WorkInv /\ LifeInv /\ RecorderInv /\ RunningInv /\ PreparingInv /\ PendingInv /\ StopInv
    BY <1>6, <1>0 DEF HostInv, Orderly, StateInv
  <2>2. WorkInv'
    BY <1>0, <2>1 DEF Working, Moves, WorkInv
  <2>3. LifeInv'
    <3>1. ASSUME NEW c \in DOMAIN procs, Alive(c)
          PROVE  (\E d \in DOMAIN boots : HeldBy(d,
                  c))' \/ c = recorder' \/ (ui'.at = "kill" /\ c = ui'.child)
      <4>1. CASE \E d \in DOMAIN boots : HeldBy(d, c)
        <5>1. PICK d \in DOMAIN boots : HeldBy(d, c)
          BY <4>1
        <5>2. CASE d = b
          BY <1>0, <2>1, <3>1, <5>1, <5>2 DEF HeldBy, Moves, Alive, WorkInv, Working
        <5>3. CASE d # b
          BY <1>0, <5>1, <5>3 DEF HeldBy, Moves
        <5>4. QED
          BY <5>2, <5>3
      <4>2. CASE c = recorder
        BY <1>0, <2>1, <4>2, <3>1 DEF WorkInv, Working, Alive
      <4>3. CASE ui.at = "kill" /\ c = ui.child
        BY <1>0, <4>3
      <4>4. QED
        BY <2>1, <3>1, <4>1, <4>2, <4>3 DEF LifeInv
    <3>2. QED
      BY <1>0, <3>1 DEF LifeInv, Alive
  <2>4. RecorderInv'
    <3>1. CASE recorder = Nobody
      BY <1>0, <3>1 DEF RecorderInv
    <3>2. CASE recorder # Nobody /\ state = "running"
      BY <1>0, <2>1, <3>2 DEF RecorderInv, WorkInv, Working
    <3>3. CASE recorder # Nobody /\ state # "running"
      <4>1. PICK d \in DOMAIN boots : boots[d].at = "running" /\ boots[d].child = recorder
        BY <2>1, <3>3 DEF RecorderInv
      <4>2. d # b
        BY <1>0, <2>1, <3>3, <4>1 DEF WorkInv, Working
      <4>3. QED
        BY <1>0, <4>1, <4>2 DEF Moves, RecorderInv
    <3>4. QED
      BY <3>1, <3>2, <3>3
  <2>5. RunningInv'
    BY <1>0, <2>1 DEF Pending, RunningInv
  <2>6. PreparingInv'
    BY <1>0, <2>1 DEF Working, Moves, PreparingInv
  <2>7. PendingInv'
    BY <1>0, <2>1 DEF Pending, PendingInv
  <2>8. StopInv'
    BY <1>0, <2>1 DEF Working, StopInv
  <2>9. QED
    BY <2>2, <2>3, <2>4, <2>5, <2>6, <2>7, <2>8 DEF StateInv
<1>7. QED
  BY <1>1, <1>2, <1>3, <1>4, <1>5, <1>6 DEF HostInv, Orderly

(* A boot that ends of its own, told to stop.                              *)
LEMMA EndsKeep ==
  ASSUME HostInv, NEW b \in DOMAIN boots, boots[b].at \in {"look", "fail"}, stopping = TRUE,
          Moves(b, "over"),
         UNCHANGED <<stopping, recorder, preflight, procs, ui, state, posts, menu, quit,
                 crossed>>
  PROVE  HostInv'
<1>0. HostTypeOK /\ NamesInv /\ ExitInv /\ QuitInv /\ PostsInv
  BY DEF HostInv
<1>1. HostTypeOK'
  BY <1>0 DEF HostTypeOK, Moves
<1>2. NamesInv'
  BY <1>0 DEF NamesInv, Moves
<1>3. ExitInv'
  BY <1>0 DEF ExitInv, WithChild, Moves
<1>4. QuitInv'
  BY <1>0 DEF QuitInv
<1>5. PostsInv'
  BY <1>0 DEF PostsInv
<1>6. ASSUME crossed' = FALSE PROVE WorkInv' /\ LifeInv' /\ StateInv'
  <2>1. WorkInv /\ LifeInv /\ RecorderInv /\ RunningInv /\ PreparingInv /\ PendingInv /\ StopInv
    BY <1>6, <1>0 DEF HostInv, Orderly, StateInv
  <2>2. WorkInv'
    BY <1>0, <2>1 DEF Working, Moves, WorkInv
  <2>3. LifeInv'
    BY <1>0, <2>1 DEF HeldBy, Alive, Moves, LifeInv
  <2>4. RecorderInv'
    BY <1>0, <2>1 DEF Moves, RecorderInv
  <2>5. RunningInv'
    BY <1>0, <2>1 DEF Pending, RunningInv
  <2>6. PreparingInv'
    <3>1. state = "preflight" /\ ui.at \in {"kill", "gone"} /\ quit \in {"going", "over"}
      BY <1>0, <2>1 DEF WorkInv, Working
    <3>2. quit = "over" \/ (quit = "going" /\ ui.at = "kill")
      BY <1>0, <3>1 DEF QuitInv
    <3>3. QED
      BY <1>0, <3>2 DEF PreparingInv
  <2>7. PendingInv'
    BY <1>0, <2>1 DEF Pending, PendingInv
  <2>8. StopInv'
    BY <1>0, <2>1 DEF Working, StopInv
  <2>9. QED
    BY <2>2, <2>3, <2>4, <2>5, <2>6, <2>7, <2>8 DEF StateInv
<1>7. QED
  BY <1>1, <1>2, <1>3, <1>4, <1>5, <1>6 DEF HostInv, Orderly

(* A boot that goes on after preflight.                                    *)
LEMMA LaunchKeeps ==
  ASSUME HostInv, NEW b \in DOMAIN boots, boots[b].at = "look", Moves(b, "launch"),
         UNCHANGED <<stopping, recorder, preflight, procs, ui, state, posts, menu, quit,
                 crossed>>
  PROVE  HostInv'
<1>0. HostTypeOK /\ NamesInv /\ ExitInv /\ QuitInv /\ PostsInv
  BY DEF HostInv
<1>1. HostTypeOK'
  BY <1>0 DEF HostTypeOK, Moves
<1>2. NamesInv'
  BY <1>0 DEF NamesInv, Moves
<1>3. ExitInv'
  BY <1>0 DEF ExitInv, WithChild, Moves
<1>4. QuitInv'
  BY <1>0 DEF QuitInv
<1>5. PostsInv'
  BY <1>0 DEF PostsInv
<1>6. ASSUME crossed' = FALSE PROVE WorkInv' /\ LifeInv' /\ StateInv'
  <2>1. WorkInv /\ LifeInv /\ RecorderInv /\ RunningInv /\ PreparingInv /\ PendingInv /\ StopInv
    BY <1>6, <1>0 DEF HostInv, Orderly, StateInv
  <2>2. WorkInv'
    BY <1>0, <2>1 DEF Working, Alive, Moves, WorkInv
  <2>3. LifeInv'
    <3>1. ASSUME NEW c \in DOMAIN procs, Alive(c)
          PROVE  (\E d \in DOMAIN boots : HeldBy(d,
                  c))' \/ c = recorder' \/ (ui'.at = "kill" /\ c = ui'.child)
      <4>1. CASE \E d \in DOMAIN boots : HeldBy(d, c)
        <5>1. PICK d \in DOMAIN boots : HeldBy(d, c)
          BY <4>1
        <5>2. CASE d = b
          BY <1>0, <2>1, <3>1, <5>1, <5>2 DEF HeldBy, Moves, Alive, WorkInv, Working
        <5>3. CASE d # b
          BY <1>0, <5>1, <5>3 DEF HeldBy, Moves
        <5>4. QED
          BY <5>2, <5>3
      <4>2. CASE c = recorder
        BY <1>0, <2>1, <4>2, <3>1 DEF WorkInv, Working, Alive
      <4>3. CASE ui.at = "kill" /\ c = ui.child
        BY <1>0, <4>3
      <4>4. QED
        BY <2>1, <3>1, <4>1, <4>2, <4>3 DEF LifeInv
    <3>2. QED
      BY <1>0, <3>1 DEF LifeInv, Alive
  <2>4. RecorderInv'
    BY <1>0, <2>1 DEF Moves, RecorderInv
  <2>5. RunningInv'
    BY <1>0, <2>1 DEF Pending, RunningInv
  <2>6. PreparingInv'
    BY <1>0, <2>1 DEF Working, Moves, PreparingInv
  <2>7. PendingInv'
    BY <1>0, <2>1 DEF Pending, PendingInv
  <2>8. StopInv'
    BY <1>0, <2>1 DEF Working, StopInv
  <2>9. QED
    BY <2>2, <2>3, <2>4, <2>5, <2>6, <2>7, <2>8 DEF StateInv
<1>7. QED
  BY <1>1, <1>2, <1>3, <1>4, <1>5, <1>6 DEF HostInv, Orderly

(* A boot that says it prepares.                                           *)
LEMMA AnnouncesKeeps ==
  ASSUME HostInv, NEW b \in DOMAIN boots, Announces(b), UNCHANGED crossed
  PROVE  HostInv'
<1>0. HostTypeOK /\ NamesInv /\ ExitInv /\ QuitInv /\ PostsInv
  BY DEF HostInv
<1>1. boots[b].at = "report" /\ Moves(b, "spawn")
  BY <1>0, GoesMoves DEF Announces, Stages
<1>2. UNCHANGED <<stopping, recorder, preflight, procs, ui, menu, quit, crossed>>
  BY DEF Announces, supervisorVars, hostVars
<1>3. state' = "preflight" /\ posts' \in Seq(States) /\ posts' # <<>> /\
        posts'[Len(posts')] = "preflight"
  BY <1>0, ReportShape DEF Announces, States
<1>4. HostTypeOK'
  BY <1>0, <1>1, <1>2, <1>3 DEF HostTypeOK, Moves
<1>5. NamesInv'
  BY <1>0, <1>1, <1>2, <1>3 DEF NamesInv, Moves
<1>6. ExitInv'
  BY <1>0, <1>1, <1>2, <1>3 DEF ExitInv, WithChild, Moves
<1>7. QuitInv'
  BY <1>0, <1>1, <1>2, <1>3 DEF QuitInv
<1>8. PostsInv'
  BY <1>0, <1>1, <1>2, <1>3 DEF PostsInv
<1>9. ASSUME crossed' = FALSE PROVE WorkInv' /\ LifeInv' /\ StateInv'
  <2>1. WorkInv /\ LifeInv /\ RecorderInv /\ RunningInv /\ PreparingInv /\ PendingInv /\ StopInv
    BY <1>9, <1>0, <1>1, <1>2, <1>3 DEF HostInv, Orderly, StateInv
  <2>2. WorkInv'
    BY <1>0, <1>1, <1>2, <1>3, <2>1 DEF Working, Moves, WorkInv
  <2>3. LifeInv'
    BY <1>0, <1>1, <1>2, <1>3, <2>1 DEF NamesInv, QuitInv, HeldBy, Alive, Moves, LifeInv
  <2>4. RecorderInv'
    <3>1. CASE recorder = Nobody
      BY <1>0, <1>1, <1>2, <1>3, <3>1 DEF RecorderInv
    <3>2. CASE recorder # Nobody /\ state = "running"
      BY <1>0, <1>1, <1>2, <1>3, <2>1, <3>2 DEF RecorderInv, WorkInv, Working
    <3>3. CASE recorder # Nobody /\ state # "running"
      <4>1. PICK d \in DOMAIN boots : boots[d].at = "running" /\ boots[d].child = recorder
        BY <2>1, <3>3 DEF RecorderInv
      <4>2. d # b
        BY <1>0, <1>1, <1>2, <1>3, <2>1, <3>3, <4>1 DEF WorkInv, Working
      <4>3. QED
        BY <1>0, <1>1, <1>2, <1>3, <4>1, <4>2 DEF Moves, RecorderInv
    <3>4. QED
      BY <3>1, <3>2, <3>3
  <2>5. RunningInv'
    BY <1>0, <1>1, <1>2, <1>3, <2>1 DEF RunningInv
  <2>6. PreparingInv'
    BY <1>0, <1>1, <1>2, <1>3, <2>1 DEF Working, Moves, PreparingInv
  <2>7. PendingInv'
    BY <1>0, <1>1, <1>2, <1>3, <2>1 DEF Working, Pending, PendingInv, WorkInv
  <2>8. StopInv'
    BY <1>0, <1>1, <1>2, <1>3, <2>1 DEF Working, StopInv, WorkInv
  <2>9. QED
    BY <2>2, <2>3, <2>4, <2>5, <2>6, <2>7, <2>8 DEF StateInv
<1>10. QED
  BY <1>4, <1>5, <1>6, <1>7, <1>8, <1>9 DEF HostInv, Orderly

(* A boot that says the Recorder runs.                                     *)
LEMMA SaysRunningKeeps ==
  ASSUME HostInv, NEW b \in DOMAIN boots, SaysRunning(b), UNCHANGED crossed
  PROVE  HostInv'
<1>0. HostTypeOK /\ NamesInv /\ ExitInv /\ QuitInv /\ PostsInv
  BY DEF HostInv
<1>1. boots[b].at = "running" /\ Moves(b, "watch")
  BY <1>0, GoesMoves DEF SaysRunning, Stages
<1>2. UNCHANGED <<stopping, recorder, preflight, procs, ui, menu, quit, crossed>>
  BY DEF SaysRunning, supervisorVars, hostVars
<1>3. state' = "running" /\ posts' \in Seq(States) /\ posts' # <<>> /\
        posts'[Len(posts')] = "running"
  BY <1>0, ReportShape DEF SaysRunning, States
<1>4. HostTypeOK'
  BY <1>0, <1>1, <1>2, <1>3 DEF HostTypeOK, Moves
<1>5. NamesInv'
  BY <1>0, <1>1, <1>2, <1>3 DEF NamesInv, Moves
<1>6. ExitInv'
  BY <1>0, <1>1, <1>2, <1>3 DEF ExitInv, WithChild, Moves
<1>7. QuitInv'
  BY <1>0, <1>1, <1>2, <1>3 DEF QuitInv
<1>8. PostsInv'
  BY <1>0, <1>1, <1>2, <1>3 DEF PostsInv
<1>9. ASSUME crossed' = FALSE PROVE WorkInv' /\ LifeInv' /\ StateInv'
  <2>1. WorkInv /\ LifeInv /\ RecorderInv /\ RunningInv /\ PreparingInv /\ PendingInv /\ StopInv
    BY <1>9, <1>0, <1>1, <1>2, <1>3 DEF HostInv, Orderly, StateInv
  <2>2. WorkInv'
    BY <1>0, <1>1, <1>2, <1>3, <2>1 DEF Working, Moves, WorkInv
  <2>3. LifeInv'
    <3>1. ASSUME NEW c \in DOMAIN procs, Alive(c)
          PROVE  (\E d \in DOMAIN boots : HeldBy(d,
                  c))' \/ c = recorder' \/ (ui'.at = "kill" /\ c = ui'.child)
      <4>1. CASE \E d \in DOMAIN boots : HeldBy(d, c)
        <5>1. PICK d \in DOMAIN boots : HeldBy(d, c)
          BY <4>1
        <5>2. CASE d = b
          BY <1>0, <1>1, <1>2, <1>3, <2>1, <3>1, <5>1, <5>2 DEF HeldBy, Moves, Alive, WorkInv,
            Working
        <5>3. CASE d # b
          BY <1>0, <1>1, <1>2, <1>3, <5>1, <5>3 DEF HeldBy, Moves
        <5>4. QED
          BY <5>2, <5>3
      <4>2. CASE c = recorder
        BY <1>0, <1>1, <1>2, <1>3, <2>1, <4>2, <3>1 DEF WorkInv, Working, Alive
      <4>3. CASE ui.at = "kill" /\ c = ui.child
        BY <1>0, <1>1, <1>2, <1>3, <4>3
      <4>4. QED
        BY <2>1, <3>1, <4>1, <4>2, <4>3 DEF LifeInv
    <3>2. QED
      BY <1>0, <1>1, <1>2, <1>3, <3>1 DEF LifeInv, Alive
  <2>4. RecorderInv'
    BY <1>0, <1>1, <1>2, <1>3, <2>1 DEF RecorderInv
  <2>5. RunningInv'
    <3>1. CASE stopping = FALSE
      BY <1>0, <1>1, <1>2, <1>3, <2>1, <3>1 DEF WorkInv, Working, ExitInv, WithChild, RunningInv
    <3>2. CASE stopping = TRUE
      <4>1. ui.at \in {"kill", "gone"}
        BY <1>0, <1>1, <1>2, <1>3, <2>1, <3>2 DEF WorkInv, Working
      <4>2. ui.at = "kill" \/ quit = "over"
        BY <1>0, <4>1 DEF QuitInv
      <4>3. QED
        BY <1>0, <1>1, <1>2, <1>3, <4>2 DEF RunningInv
    <3>3. QED
      BY <1>0, <3>1, <3>2 DEF HostTypeOK
  <2>6. PreparingInv'
    BY <1>0, <1>1, <1>2, <1>3, <2>1 DEF PreparingInv
  <2>7. PendingInv'
    BY <1>0, <1>1, <1>2, <1>3, <2>1 DEF Pending, PendingInv
  <2>8. StopInv'
    BY <1>0, <1>1, <1>2, <1>3, <2>1 DEF Working, StopInv, WorkInv
  <2>9. QED
    BY <2>2, <2>3, <2>4, <2>5, <2>6, <2>7, <2>8 DEF StateInv
<1>10. QED
  BY <1>4, <1>5, <1>6, <1>7, <1>8, <1>9 DEF HostInv, Orderly

(* A boot that says it failed.                                             *)
LEMMA SaysFailedKeeps ==
  ASSUME HostInv, NEW b \in DOMAIN boots, SaysFailed(b), UNCHANGED crossed
  PROVE  HostInv'
<1>0. HostTypeOK /\ NamesInv /\ ExitInv /\ QuitInv /\ PostsInv
  BY DEF HostInv
<1>1. boots[b].at = "failed" /\ Moves(b, "over")
  BY <1>0, GoesMoves DEF SaysFailed, Stages
<1>2. UNCHANGED <<stopping, recorder, preflight, procs, ui, menu, quit, crossed>>
  BY DEF SaysFailed, supervisorVars, hostVars
<1>3. state' = "failed" /\ posts' \in Seq(States) /\ posts' # <<>> /\
        posts'[Len(posts')] = "failed"
  BY <1>0, ReportShape DEF SaysFailed, States
<1>4. HostTypeOK'
  BY <1>0, <1>1, <1>2, <1>3 DEF HostTypeOK, Moves
<1>5. NamesInv'
  BY <1>0, <1>1, <1>2, <1>3 DEF NamesInv, Moves
<1>6. ExitInv'
  BY <1>0, <1>1, <1>2, <1>3 DEF ExitInv, WithChild, Moves
<1>7. QuitInv'
  BY <1>0, <1>1, <1>2, <1>3 DEF QuitInv
<1>8. PostsInv'
  BY <1>0, <1>1, <1>2, <1>3 DEF PostsInv
<1>9. ASSUME crossed' = FALSE PROVE WorkInv' /\ LifeInv' /\ StateInv'
  <2>1. WorkInv /\ LifeInv /\ RecorderInv /\ RunningInv /\ PreparingInv /\ PendingInv /\ StopInv
    BY <1>9, <1>0, <1>1, <1>2, <1>3 DEF HostInv, Orderly, StateInv
  <2>2. WorkInv'
    BY <1>0, <1>1, <1>2, <1>3, <2>1 DEF Working, Moves, WorkInv
  <2>3. LifeInv'
    <3>1. ASSUME NEW c \in DOMAIN procs, Alive(c)
          PROVE  (\E d \in DOMAIN boots : HeldBy(d,
                  c))' \/ c = recorder' \/ (ui'.at = "kill" /\ c = ui'.child)
      <4>1. CASE \E d \in DOMAIN boots : HeldBy(d, c)
        <5>1. PICK d \in DOMAIN boots : HeldBy(d, c)
          BY <4>1
        <5>2. CASE d = b
          BY <1>0, <1>1, <1>2, <1>3, <2>1, <3>1, <5>1, <5>2 DEF HeldBy, Moves, Alive, WorkInv,
            Working
        <5>3. CASE d # b
          BY <1>0, <1>1, <1>2, <1>3, <5>1, <5>3 DEF HeldBy, Moves
        <5>4. QED
          BY <5>2, <5>3
      <4>2. CASE c = recorder
        BY <1>0, <1>1, <1>2, <1>3, <2>1, <4>2, <3>1 DEF WorkInv, Working, Alive
      <4>3. CASE ui.at = "kill" /\ c = ui.child
        BY <1>0, <1>1, <1>2, <1>3, <4>3
      <4>4. QED
        BY <2>1, <3>1, <4>1, <4>2, <4>3 DEF LifeInv
    <3>2. QED
      BY <1>0, <1>1, <1>2, <1>3, <3>1 DEF LifeInv, Alive
  <2>4. RecorderInv'
    <3>1. CASE recorder = Nobody
      BY <1>0, <1>1, <1>2, <1>3, <3>1 DEF RecorderInv
    <3>2. CASE recorder # Nobody /\ state = "running"
      BY <1>0, <1>1, <1>2, <1>3, <2>1, <3>2 DEF RecorderInv, WorkInv, Working
    <3>3. CASE recorder # Nobody /\ state # "running"
      <4>1. PICK d \in DOMAIN boots : boots[d].at = "running" /\ boots[d].child = recorder
        BY <2>1, <3>3 DEF RecorderInv
      <4>2. d # b
        BY <1>0, <1>1, <1>2, <1>3, <2>1, <3>3, <4>1 DEF WorkInv, Working
      <4>3. QED
        BY <1>0, <1>1, <1>2, <1>3, <4>1, <4>2 DEF Moves, RecorderInv
    <3>4. QED
      BY <3>1, <3>2, <3>3
  <2>5. RunningInv'
    BY <1>0, <1>1, <1>2, <1>3, <2>1 DEF RunningInv
  <2>6. PreparingInv'
    BY <1>0, <1>1, <1>2, <1>3, <2>1 DEF PreparingInv
  <2>7. PendingInv'
    BY <1>0, <1>1, <1>2, <1>3, <2>1 DEF Working, Pending, PendingInv, WorkInv
  <2>8. StopInv'
    BY <1>0, <1>1, <1>2, <1>3, <2>1 DEF Working, StopInv, WorkInv
  <2>9. QED
    BY <2>2, <2>3, <2>4, <2>5, <2>6, <2>7, <2>8 DEF StateInv
<1>10. QED
  BY <1>4, <1>5, <1>6, <1>7, <1>8, <1>9 DEF HostInv, Orderly

(* Preflight has ended.                                                    *)
LEMMA PreflightEndsKeeps ==
  ASSUME HostInv, NEW b \in DOMAIN boots, PreflightEnds(b), UNCHANGED crossed
  PROVE  HostInv'
<1>0. HostTypeOK /\ NamesInv /\ ExitInv /\ QuitInv /\ PostsInv
  BY DEF HostInv
<1>1. boots[b].at = "wait" /\ Moves(b, "look")
  BY <1>0, GoesMoves DEF PreflightEnds, Stages
<1>2. UNCHANGED <<stopping, recorder, procs, ui, state, posts, menu, quit, crossed>>
  BY DEF PreflightEnds, supervisorVars, hostVars
<1>3. ~Alive(boots[b].child) /\ preflight' = 0
  BY DEF PreflightEnds, Nobody
<1>4. HostTypeOK'
  BY <1>0, <1>1, <1>2, <1>3 DEF HostTypeOK, Moves
<1>5. NamesInv'
  BY <1>0, <1>1, <1>2, <1>3 DEF NamesInv, Moves
<1>6. ExitInv'
  BY <1>0, <1>1, <1>2, <1>3 DEF ExitInv, WithChild, Moves
<1>7. QuitInv'
  BY <1>0, <1>1, <1>2, <1>3 DEF QuitInv
<1>8. PostsInv'
  BY <1>0, <1>1, <1>2, <1>3 DEF PostsInv
<1>9. ASSUME crossed' = FALSE PROVE WorkInv' /\ LifeInv' /\ StateInv'
  <2>1. WorkInv /\ LifeInv /\ RecorderInv /\ RunningInv /\ PreparingInv /\ PendingInv /\ StopInv
    BY <1>9, <1>0, <1>1, <1>2, <1>3 DEF HostInv, Orderly, StateInv
  <2>2. WorkInv'
    BY <1>0, <1>1, <1>2, <1>3, <2>1 DEF Working, Alive, Moves, WorkInv
  <2>3. LifeInv'
    <3>1. ASSUME NEW c \in DOMAIN procs, Alive(c)
          PROVE  (\E d \in DOMAIN boots : HeldBy(d,
                  c))' \/ c = recorder' \/ (ui'.at = "kill" /\ c = ui'.child)
      <4>1. CASE \E d \in DOMAIN boots : HeldBy(d, c)
        <5>1. PICK d \in DOMAIN boots : HeldBy(d, c)
          BY <4>1
        <5>2. CASE d = b
          BY <1>0, <1>1, <1>2, <1>3, <2>1, <3>1, <5>1, <5>2 DEF HeldBy, Moves, Alive, WorkInv,
            Working
        <5>3. CASE d # b
          BY <1>0, <1>1, <1>2, <1>3, <5>1, <5>3 DEF HeldBy, Moves
        <5>4. QED
          BY <5>2, <5>3
      <4>2. CASE c = recorder
        BY <1>0, <1>1, <1>2, <1>3, <2>1, <4>2, <3>1 DEF WorkInv, Working, Alive
      <4>3. CASE ui.at = "kill" /\ c = ui.child
        BY <1>0, <1>1, <1>2, <1>3, <4>3
      <4>4. QED
        BY <2>1, <3>1, <4>1, <4>2, <4>3 DEF LifeInv
    <3>2. QED
      BY <1>0, <1>1, <1>2, <1>3, <3>1 DEF LifeInv, Alive
  <2>4. RecorderInv'
    BY <1>0, <1>1, <1>2, <1>3, <2>1 DEF Moves, RecorderInv
  <2>5. RunningInv'
    BY <1>0, <1>1, <1>2, <1>3, <2>1 DEF Pending, RunningInv
  <2>6. PreparingInv'
    BY <1>0, <1>1, <1>2, <1>3, <2>1 DEF Working, Moves, PreparingInv
  <2>7. PendingInv'
    BY <1>0, <1>1, <1>2, <1>3, <2>1 DEF Pending, PendingInv
  <2>8. StopInv'
    BY <1>0, <1>1, <1>2, <1>3, <2>1 DEF Working, StopInv
  <2>9. QED
    BY <2>2, <2>3, <2>4, <2>5, <2>6, <2>7, <2>8 DEF StateInv
<1>10. QED
  BY <1>4, <1>5, <1>6, <1>7, <1>8, <1>9 DEF HostInv, Orderly

(* Preflight is published.                                                 *)
LEMMA ClaimKeeps ==
  ASSUME HostInv, NEW b \in DOMAIN boots, ClaimsPreflight(b), stopping = FALSE,
          UNCHANGED crossed
  PROVE  HostInv'
<1>0. HostTypeOK /\ NamesInv /\ ExitInv /\ QuitInv /\ PostsInv
  BY DEF HostInv
<1>1. boots[b].at = "claim" /\ Moves(b, "wait")
  BY <1>0, GoesMoves DEF ClaimsPreflight, Stages
<1>2. UNCHANGED <<stopping, recorder, procs, ui, state, posts, menu, quit, crossed>>
  BY DEF ClaimsPreflight, supervisorVars, hostVars
<1>3. preflight' = boots[b].child /\ boots[b].child \in Nat
  BY <1>0 DEF ClaimsPreflight, HostTypeOK, BootType
<1>4. HostTypeOK'
  BY <1>0, <1>1, <1>2, <1>3 DEF HostTypeOK, Moves
<1>5. NamesInv'
  BY <1>0, <1>1, <1>2, <1>3 DEF NamesInv, Moves
<1>6. ExitInv'
  BY <1>0, <1>1, <1>2, <1>3 DEF ExitInv, WithChild, Moves
<1>7. QuitInv'
  BY <1>0, <1>1, <1>2, <1>3 DEF QuitInv
<1>8. PostsInv'
  BY <1>0, <1>1, <1>2, <1>3 DEF PostsInv
<1>9. ASSUME crossed' = FALSE PROVE WorkInv' /\ LifeInv' /\ StateInv'
  <2>1. WorkInv /\ LifeInv /\ RecorderInv /\ RunningInv /\ PreparingInv /\ PendingInv /\ StopInv
    BY <1>9, <1>0, <1>1, <1>2, <1>3 DEF HostInv, Orderly, StateInv
  <2>2. WorkInv'
    BY <1>0, <1>1, <1>2, <1>3, <2>1 DEF Working, Moves, WorkInv
  <2>3. LifeInv'
    BY <1>0, <1>1, <1>2, <1>3, <2>1 DEF HeldBy, Alive, Moves, LifeInv
  <2>4. RecorderInv'
    BY <1>0, <1>1, <1>2, <1>3, <2>1 DEF Moves, RecorderInv
  <2>5. RunningInv'
    BY <1>0, <1>1, <1>2, <1>3, <2>1 DEF Pending, RunningInv
  <2>6. PreparingInv'
    BY <1>0, <1>1, <1>2, <1>3, <2>1 DEF Working, Moves, PreparingInv
  <2>7. PendingInv'
    BY <1>0, <1>1, <1>2, <1>3, <2>1 DEF Pending, PendingInv
  <2>8. StopInv'
    BY <1>0, <1>1, <1>2, <1>3, <2>1 DEF Working, StopInv
  <2>9. QED
    BY <2>2, <2>3, <2>4, <2>5, <2>6, <2>7, <2>8 DEF StateInv
<1>10. QED
  BY <1>4, <1>5, <1>6, <1>7, <1>8, <1>9 DEF HostInv, Orderly

(* Preflight is dropped: a stop came before it.                            *)
LEMMA ClaimDropKeeps ==
  ASSUME HostInv, NEW b \in DOMAIN boots, ClaimsPreflight(b), stopping = TRUE, UNCHANGED crossed
  PROVE  HostInv'
<1>0. HostTypeOK /\ NamesInv /\ ExitInv /\ QuitInv /\ PostsInv
  BY DEF HostInv
<1>1. boots[b].at = "claim" /\ Moves(b, "drop")
  BY <1>0, GoesMoves DEF ClaimsPreflight, Stages
<1>2. UNCHANGED <<stopping, recorder, procs, ui, state, posts, menu, quit, crossed>>
  BY DEF ClaimsPreflight, supervisorVars, hostVars
<1>3. preflight' = preflight
  BY DEF ClaimsPreflight
<1>4. HostTypeOK'
  BY <1>0, <1>1, <1>2, <1>3 DEF HostTypeOK, Moves
<1>5. NamesInv'
  BY <1>0, <1>1, <1>2, <1>3 DEF NamesInv, Moves
<1>6. ExitInv'
  <2>1. ASSUME NEW d \in DOMAIN boots, boots'[d].at \in WithChild
        PROVE  boots'[d].child # Nobody /\ procs'[boots'[d].child].exited = "unwatched"
    <3>1. CASE d = b
      BY <1>0, <1>1, <1>2, <1>3, <2>1, <3>1 DEF ExitInv, WithChild, Moves, Nobody
    <3>2. CASE d # b
      BY <1>0, <1>1, <1>2, <1>3, <2>1, <3>2 DEF ExitInv, Moves
    <3>3. QED
      BY <3>1, <3>2
  <2>2. QED
    BY <1>0, <1>1, <1>2, <1>3, <2>1 DEF ExitInv, Moves
<1>7. QuitInv'
  BY <1>0, <1>1, <1>2, <1>3 DEF QuitInv
<1>8. PostsInv'
  BY <1>0, <1>1, <1>2, <1>3 DEF PostsInv
<1>9. ASSUME crossed' = FALSE PROVE WorkInv' /\ LifeInv' /\ StateInv'
  <2>1. WorkInv /\ LifeInv /\ RecorderInv /\ RunningInv /\ PreparingInv /\ PendingInv /\ StopInv
    BY <1>9, <1>0, <1>1, <1>2, <1>3 DEF HostInv, Orderly, StateInv
  <2>2. WorkInv'
    BY <1>0, <1>1, <1>2, <1>3, <2>1 DEF Working, Moves, WorkInv
  <2>3. LifeInv'
    BY <1>0, <1>1, <1>2, <1>3, <2>1 DEF HeldBy, Alive, Moves, LifeInv
  <2>4. RecorderInv'
    BY <1>0, <1>1, <1>2, <1>3, <2>1 DEF Moves, RecorderInv
  <2>5. RunningInv'
    BY <1>0, <1>1, <1>2, <1>3, <2>1 DEF Pending, RunningInv
  <2>6. PreparingInv'
    BY <1>0, <1>1, <1>2, <1>3, <2>1 DEF Working, Moves, PreparingInv
  <2>7. PendingInv'
    BY <1>0, <1>1, <1>2, <1>3, <2>1 DEF Pending, PendingInv
  <2>8. StopInv'
    BY <1>0, <1>1, <1>2, <1>3, <2>1 DEF Working, StopInv
  <2>9. QED
    BY <2>2, <2>3, <2>4, <2>5, <2>6, <2>7, <2>8 DEF StateInv
<1>10. QED
  BY <1>4, <1>5, <1>6, <1>7, <1>8, <1>9 DEF HostInv, Orderly

(* The Recorder is published.                                              *)
LEMMA PublishKeeps ==
  ASSUME HostInv, NEW b \in DOMAIN boots, Publishes(b), stopping = FALSE, UNCHANGED crossed
  PROVE  HostInv'
<1>0. HostTypeOK /\ NamesInv /\ ExitInv /\ QuitInv /\ PostsInv
  BY DEF HostInv
<1>1. boots[b].at = "publish" /\ Moves(b, "running")
  BY <1>0, GoesMoves DEF Publishes, Stages
<1>2. UNCHANGED <<stopping, preflight, procs, ui, state, posts, menu, quit, crossed>>
  BY DEF Publishes, supervisorVars, hostVars
<1>3. recorder' = boots[b].child /\ boots[b].child \in Nat
  BY <1>0 DEF Publishes, HostTypeOK, BootType
<1>4. HostTypeOK'
  BY <1>0, <1>1, <1>2, <1>3 DEF HostTypeOK, Moves
<1>5. NamesInv'
  BY <1>0, <1>1, <1>2, <1>3 DEF NamesInv, Moves
<1>6. ExitInv'
  BY <1>0, <1>1, <1>2, <1>3 DEF ExitInv, WithChild, Moves
<1>7. QuitInv'
  BY <1>0, <1>1, <1>2, <1>3 DEF QuitInv
<1>8. PostsInv'
  BY <1>0, <1>1, <1>2, <1>3 DEF PostsInv
<1>9. ASSUME crossed' = FALSE PROVE WorkInv' /\ LifeInv' /\ StateInv'
  <2>1. WorkInv /\ LifeInv /\ RecorderInv /\ RunningInv /\ PreparingInv /\ PendingInv /\ StopInv
    BY <1>9, <1>0, <1>1, <1>2, <1>3 DEF HostInv, Orderly, StateInv
  <2>2. WorkInv'
    BY <1>0, <1>1, <1>2, <1>3, <2>1 DEF Working, Moves, WorkInv
  <2>3. LifeInv'
    <3>1. ASSUME NEW c \in DOMAIN procs, Alive(c)
          PROVE  (\E d \in DOMAIN boots : HeldBy(d,
                  c))' \/ c = recorder' \/ (ui'.at = "kill" /\ c = ui'.child)
      <4>1. CASE \E d \in DOMAIN boots : HeldBy(d, c)
        <5>1. PICK d \in DOMAIN boots : HeldBy(d, c)
          BY <4>1
        <5>2. CASE d = b
          BY <1>0, <1>1, <1>2, <1>3, <2>1, <3>1, <5>1, <5>2 DEF HeldBy, Moves, Alive, WorkInv,
            Working
        <5>3. CASE d # b
          BY <1>0, <1>1, <1>2, <1>3, <5>1, <5>3 DEF HeldBy, Moves
        <5>4. QED
          BY <5>2, <5>3
      <4>2. CASE c = recorder
        BY <1>0, <1>1, <1>2, <1>3, <2>1, <4>2, <3>1 DEF WorkInv, Working, Alive
      <4>3. CASE ui.at = "kill" /\ c = ui.child
        BY <1>0, <1>1, <1>2, <1>3, <4>3
      <4>4. QED
        BY <2>1, <3>1, <4>1, <4>2, <4>3 DEF LifeInv
    <3>2. QED
      BY <1>0, <1>1, <1>2, <1>3, <3>1 DEF LifeInv, Alive
  <2>4. RecorderInv'
    BY <1>0, <1>1, <1>2, <1>3, <2>1 DEF Moves, RecorderInv
  <2>5. RunningInv'
    BY <1>0, <1>1, <1>2, <1>3, <2>1 DEF WorkInv, Working, RunningInv
  <2>6. PreparingInv'
    BY <1>0, <1>1, <1>2, <1>3, <2>1 DEF Working, Moves, PreparingInv
  <2>7. PendingInv'
    BY <1>0, <1>1, <1>2, <1>3, <2>1 DEF Working, Pending, PendingInv, WorkInv
  <2>8. StopInv'
    BY <1>0, <1>1, <1>2, <1>3, <2>1 DEF Working, StopInv, WorkInv
  <2>9. QED
    BY <2>2, <2>3, <2>4, <2>5, <2>6, <2>7, <2>8 DEF StateInv
<1>10. QED
  BY <1>4, <1>5, <1>6, <1>7, <1>8, <1>9 DEF HostInv, Orderly

(* The Recorder is dropped: a stop came before it.                         *)
LEMMA PublishDropKeeps ==
  ASSUME HostInv, NEW b \in DOMAIN boots, Publishes(b), stopping = TRUE, UNCHANGED crossed
  PROVE  HostInv'
<1>0. HostTypeOK /\ NamesInv /\ ExitInv /\ QuitInv /\ PostsInv
  BY DEF HostInv
<1>1. boots[b].at = "publish" /\ Moves(b, "drop")
  BY <1>0, GoesMoves DEF Publishes, Stages
<1>2. UNCHANGED <<stopping, preflight, procs, ui, state, posts, menu, quit, crossed>>
  BY DEF Publishes, supervisorVars, hostVars
<1>3. recorder' = recorder
  BY DEF Publishes
<1>4. HostTypeOK'
  BY <1>0, <1>1, <1>2, <1>3 DEF HostTypeOK, Moves
<1>5. NamesInv'
  BY <1>0, <1>1, <1>2, <1>3 DEF NamesInv, Moves
<1>6. ExitInv'
  <2>1. ASSUME NEW d \in DOMAIN boots, boots'[d].at \in WithChild
        PROVE  boots'[d].child # Nobody /\ procs'[boots'[d].child].exited = "unwatched"
    <3>1. CASE d = b
      BY <1>0, <1>1, <1>2, <1>3, <2>1, <3>1 DEF ExitInv, WithChild, Moves, Nobody
    <3>2. CASE d # b
      BY <1>0, <1>1, <1>2, <1>3, <2>1, <3>2 DEF ExitInv, Moves
    <3>3. QED
      BY <3>1, <3>2
  <2>2. QED
    BY <1>0, <1>1, <1>2, <1>3, <2>1 DEF ExitInv, Moves
<1>7. QuitInv'
  BY <1>0, <1>1, <1>2, <1>3 DEF QuitInv
<1>8. PostsInv'
  BY <1>0, <1>1, <1>2, <1>3 DEF PostsInv
<1>9. ASSUME crossed' = FALSE PROVE WorkInv' /\ LifeInv' /\ StateInv'
  <2>1. WorkInv /\ LifeInv /\ RecorderInv /\ RunningInv /\ PreparingInv /\ PendingInv /\ StopInv
    BY <1>9, <1>0, <1>1, <1>2, <1>3 DEF HostInv, Orderly, StateInv
  <2>2. WorkInv'
    BY <1>0, <1>1, <1>2, <1>3, <2>1 DEF Working, Moves, WorkInv
  <2>3. LifeInv'
    BY <1>0, <1>1, <1>2, <1>3, <2>1 DEF HeldBy, Alive, Moves, LifeInv
  <2>4. RecorderInv'
    BY <1>0, <1>1, <1>2, <1>3, <2>1 DEF Moves, RecorderInv
  <2>5. RunningInv'
    BY <1>0, <1>1, <1>2, <1>3, <2>1 DEF Pending, RunningInv
  <2>6. PreparingInv'
    BY <1>0, <1>1, <1>2, <1>3, <2>1 DEF Working, Moves, PreparingInv
  <2>7. PendingInv'
    BY <1>0, <1>1, <1>2, <1>3, <2>1 DEF Pending, PendingInv
  <2>8. StopInv'
    BY <1>0, <1>1, <1>2, <1>3, <2>1 DEF Working, StopInv
  <2>9. QED
    BY <2>2, <2>3, <2>4, <2>5, <2>6, <2>7, <2>8 DEF StateInv
<1>10. QED
  BY <1>4, <1>5, <1>6, <1>7, <1>8, <1>9 DEF HostInv, Orderly

(* What a spawn leaves: the boot has the process as its child.              *)
Hatches(b, to) ==
  /\ DOMAIN boots' = DOMAIN boots /\ boots' \in [DOMAIN boots -> BootType]
  /\ boots'[b].at = to /\ boots'[b].child = Len(procs) + 1
  /\ \A d \in DOMAIN boots : d # b => boots'[d] = boots[d]

(* A spawn that comes off.                                                 *)
LEMMA SpawnHatches ==
  ASSUME HostTypeOK, NEW b \in DOMAIN boots, NEW to \in Stages,
         boots' = [boots EXCEPT ![b].at = to, ![b].child = Len(procs) + 1]
  PROVE  Hatches(b, to)
<1>1. boots \in [DOMAIN boots -> BootType] /\ boots[b] \in BootType /\ Len(procs) + 1 \in Nat
  BY DEF HostTypeOK
<1>2. PICK n \in Nat : n = Len(procs) + 1
  BY <1>1
<1>3. boots' = [boots EXCEPT ![b] = [boots[b] EXCEPT !.at = to, !.child = n]]
  BY <1>1, <1>2
<1>4. [boots[b] EXCEPT !.at = to, !.child = n] \in BootType
  BY <1>1, <1>2 DEF BootType
<1>5. boots'[b] = [boots[b] EXCEPT !.at = to, !.child = n]
  BY <1>1, <1>3
<1>6. boots'[b].at = to /\ boots'[b].child = n
  BY <1>1, <1>5 DEF BootType
<1>7. QED
  BY <1>1, <1>2, <1>3, <1>4, <1>6 DEF Hatches

(* A process is spawned for a boot.                                        *)
LEMMA SpawnKeeps ==
  ASSUME HostInv, NEW b \in DOMAIN boots, NEW to \in {"claim", "publish"},
          boots[b].at \in {"spawn", "launch"}, Hatches(b, to),
         procs' = Spawned, UNCHANGED <<stopping, recorder, preflight, ui, state, posts, menu,
                 quit, crossed>>
  PROVE  HostInv'
<1>0. HostTypeOK /\ NamesInv /\ ExitInv /\ QuitInv /\ PostsInv
  BY DEF HostInv
<1>1. procs' \in Seq(ProcType) /\ DOMAIN procs = 1..Len(procs)
  BY <1>0, SpawnedShape
<1>2. /\ \A c \in DOMAIN procs : procs'[c] = procs[c]
     /\ procs'[Len(procs) + 1].exited = "unwatched"
     /\ \A c \in DOMAIN procs' : c \in DOMAIN procs \/ c = Len(procs) + 1
  BY <1>0, SpawnedShape
<1>3. /\ \A c \in 0..Len(procs) : c \in 0..Len(procs') /\ c # Len(procs) + 1 /\ (c # 0 =>
        c \in DOMAIN procs)
     /\ Len(procs) + 1 \in 0..Len(procs') /\ Len(procs) + 1 # 0
  BY <1>0, SpawnedShape
<1>4. HostTypeOK'
  BY <1>0, <1>1, <1>2, <1>3 DEF HostTypeOK, Hatches
<1>5. NamesInv'
  <2>1. ASSUME NEW d \in DOMAIN boots
        PROVE  boots'[d].child \in 0..Len(procs') /\ (d # b =>
                boots'[d].child \in 0..Len(procs) /\ boots'[d] = boots[d])
    BY <1>0, <1>3 DEF NamesInv, Hatches
  <2>2. ASSUME NEW d \in DOMAIN boots, NEW e \in DOMAIN boots,
          boots'[d].child = boots'[e].child, boots'[d].child # Nobody
        PROVE  d = e
    <3>1. CASE d = b \/ e = b
      BY <1>3, <2>1, <2>2, <3>1 DEF Hatches
    <3>2. CASE d # b /\ e # b
      BY <1>0, <2>1, <2>2, <3>2 DEF NamesInv
    <3>3. QED
      BY <3>1, <3>2
  <2>3. {recorder', ui'.child} \subseteq 0..Len(procs')
    BY <1>0, <1>1, <1>2, <1>3 DEF NamesInv
  <2>4. QED
    BY <2>1, <2>2, <2>3 DEF NamesInv, Hatches
<1>6. ExitInv'
  <2>1. ASSUME NEW d \in DOMAIN boots, boots'[d].at \in WithChild
        PROVE  boots'[d].child # Nobody /\ procs'[boots'[d].child].exited = "unwatched"
    <3>1. CASE d = b
      BY <1>2, <1>3, <3>1 DEF Hatches, Nobody
    <3>2. CASE d # b
      <4>1. boots'[d] = boots[d] /\ boots[d].child \in 0..Len(procs) /\
              boots[d].child # Nobody /\ procs[boots[d].child].exited = "unwatched"
        BY <1>0, <1>1, <1>2, <1>3, <2>1, <3>2 DEF ExitInv, NamesInv, Hatches
      <4>2. boots[d].child \in DOMAIN procs
        BY <1>3, <4>1 DEF Nobody
      <4>3. QED
        BY <1>2, <4>1, <4>2
    <3>3. QED
      BY <3>1, <3>2
  <2>2. ASSUME NEW c \in DOMAIN procs', procs'[c].exited \in {"verdict", "done"}
        PROVE  ~procs'[c].alive
    <3>1. c \in DOMAIN procs
      BY <1>2, <2>2
    <3>2. QED
      BY <1>0, <1>1, <1>2, <1>3, <2>2, <3>1 DEF ExitInv
  <2>3. QED
    BY <2>1, <2>2 DEF ExitInv, Hatches
<1>7. QuitInv'
  BY <1>0, <1>1, <1>2, <1>3 DEF QuitInv
<1>8. PostsInv'
  BY <1>0, <1>1, <1>2, <1>3 DEF PostsInv
<1>9. ASSUME crossed' = FALSE PROVE WorkInv' /\ LifeInv' /\ StateInv'
  <2>1. WorkInv /\ LifeInv /\ RecorderInv /\ RunningInv /\ PreparingInv /\ PendingInv /\ StopInv
    BY <1>9, <1>0, <1>1, <1>2, <1>3 DEF HostInv, Orderly, StateInv
  <2>2. WorkInv'
    BY <1>0, <1>1, <1>2, <1>3, <2>1 DEF Working, Hatches, WorkInv
  <2>3. LifeInv'
    <3>1. ASSUME NEW c \in DOMAIN procs', procs'[c].alive
          PROVE  (\E d \in DOMAIN boots : HeldBy(d,
                  c))' \/ c = recorder' \/ (ui'.at = "kill" /\ c = ui'.child)
      <4>1. CASE c = Len(procs) + 1
        BY <1>0, <1>1, <1>2, <1>3, <4>1 DEF HeldBy, Hatches
      <4>2. CASE c # Len(procs) + 1
        <5>1. c \in DOMAIN procs /\ Alive(c)
          BY <1>0, <1>1, <1>2, <1>3, <3>1, <4>2 DEF Alive, Nobody
        <5>2. CASE \E d \in DOMAIN boots : HeldBy(d, c)
          <6>1. PICK d \in DOMAIN boots : HeldBy(d, c)
            BY <5>2
          <6>2. d # b
            BY <6>1 DEF HeldBy
          <6>3. QED
            BY <1>0, <1>1, <1>2, <1>3, <6>1, <6>2 DEF HeldBy, Hatches
        <5>3. CASE c = recorder \/ (ui.at = "kill" /\ c = ui.child)
          BY <1>0, <1>1, <1>2, <1>3, <5>3
        <5>4. QED
          BY <2>1, <5>1, <5>2, <5>3 DEF LifeInv
      <4>3. QED
        BY <4>1, <4>2
    <3>2. QED
      BY <1>0, <1>1, <1>2, <1>3, <3>1 DEF LifeInv, Alive
  <2>4. RecorderInv'
    BY <1>0, <1>1, <1>2, <1>3, <2>1 DEF Hatches, RecorderInv
  <2>5. RunningInv'
    BY <1>0, <1>1, <1>2, <1>3, <2>1 DEF Pending, RunningInv
  <2>6. PreparingInv'
    BY <1>0, <1>1, <1>2, <1>3, <2>1 DEF Working, Hatches, PreparingInv
  <2>7. PendingInv'
    <3>1. ASSUME NEW c \in DOMAIN procs', Pending(c)'
          PROVE  c \in DOMAIN procs /\ Pending(c)
      BY <1>2, <3>1 DEF Pending
    <3>2. QED
      BY <1>0, <1>1, <1>2, <1>3, <2>1, <3>1 DEF PendingInv
  <2>8. StopInv'
    BY <1>0, <1>1, <1>2, <1>3, <2>1 DEF Working, StopInv
  <2>9. QED
    BY <2>2, <2>3, <2>4, <2>5, <2>6, <2>7, <2>8 DEF StateInv
<1>10. QED
  BY <1>4, <1>5, <1>6, <1>7, <1>8, <1>9 DEF HostInv, Orderly

(* A process that came too late is killed.                                 *)
LEMMA DropsKeeps ==
  ASSUME HostInv, NEW b \in DOMAIN boots, Drops(b), UNCHANGED crossed
  PROVE  HostInv'
<1>0. HostTypeOK /\ NamesInv /\ ExitInv /\ QuitInv /\ PostsInv
  BY DEF HostInv
<1>1. boots[b].at = "drop" /\ Moves(b, "over")
  BY <1>0, GoesMoves DEF Drops, Stages
<1>2. UNCHANGED <<stopping, recorder, preflight, ui, state, posts, menu, quit, crossed>>
  BY DEF Drops, supervisorVars, hostVars
<1>3. procs' = Killed({boots[b].child})
  BY DEF Drops
<1>4. DOMAIN procs' = DOMAIN procs /\ Len(procs') = Len(procs)
  BY <1>0, <1>3, KilledShape
<1>5. procs' \in Seq(ProcType)
  BY <1>0, <1>3, KilledShape
<1>6. \A e \in DOMAIN procs : procs'[e].exited = procs[e].exited /\ (procs'[e].alive =>
        procs[e].alive /\ e \notin {boots[b].child})
  BY <1>0, <1>3, KilledShape
<1>7. HostTypeOK'
  BY <1>0, <1>1, <1>2, <1>3, <1>4, <1>5, <1>6 DEF HostTypeOK, Moves
<1>8. NamesInv'
  BY <1>0, <1>1, <1>2, <1>4 DEF NamesInv, Moves
<1>9. ExitInv'
  <2>1. ASSUME NEW d \in DOMAIN boots, boots'[d].at \in WithChild
        PROVE  boots'[d].child # Nobody /\ procs'[boots'[d].child].exited = "unwatched"
    <3>1. d # b /\ boots'[d] = boots[d] /\ boots[d].child \in DOMAIN procs /\
            boots[d].child # Nobody /\ procs[boots[d].child].exited = "unwatched"
      <4>1. d # b
        BY <1>1, <2>1 DEF Moves, WithChild
      <4>2. boots'[d] = boots[d]
        BY <1>1, <4>1 DEF Moves
      <4>3. boots[d].child # Nobody /\ procs[boots[d].child].exited = "unwatched"
        BY <1>0, <2>1, <4>2 DEF ExitInv
      <4>4. boots[d].child \in DOMAIN procs
        BY <1>0, <4>3 DEF NamesInv, HostTypeOK, Nobody
      <4>5. QED
        BY <4>1, <4>2, <4>3, <4>4
    <3>2. boots[d].child # boots[b].child
      BY <1>0, <1>1, <1>2, <1>3, <1>4, <1>5, <1>6, <3>1 DEF NamesInv
    <3>3. QED
      BY <1>0, <1>1, <1>2, <1>3, <1>4, <1>5, <1>6, <3>1, <3>2
  <2>2. ASSUME NEW c \in DOMAIN procs, procs'[c].exited \in {"verdict", "done"}
        PROVE  ~procs'[c].alive
    BY <1>0, <1>1, <1>2, <1>3, <1>4, <1>5, <1>6, <2>2 DEF ExitInv
  <2>3. QED
    BY <1>0, <1>1, <1>2, <1>3, <1>4, <1>5, <1>6, <2>1, <2>2 DEF ExitInv, Moves
<1>10. QuitInv'
  BY <1>0, <1>1, <1>2, <1>3, <1>4, <1>5, <1>6 DEF QuitInv
<1>11. PostsInv'
  BY <1>0, <1>1, <1>2, <1>3, <1>4, <1>5, <1>6 DEF PostsInv
<1>12. ASSUME crossed' = FALSE PROVE WorkInv' /\ LifeInv' /\ StateInv'
  <2>1. WorkInv /\ LifeInv /\ RecorderInv /\ RunningInv /\ PreparingInv /\ PendingInv /\ StopInv
    BY <1>12, <1>0, <1>1, <1>2, <1>3, <1>4, <1>5, <1>6 DEF HostInv, Orderly, StateInv
  <2>2. WorkInv'
    <3>1. \A d \in DOMAIN boots : Working(d)' => Working(d) /\ boots'[d] = boots[d]
      BY <1>0, <1>1, <1>2, <1>3, <1>4, <1>5, <1>6 DEF Working, Moves
    <3>2. ASSUME NEW d \in DOMAIN boots, boots[d].at \in {"look", "launch"},
            ~Alive(boots[d].child)
          PROVE  ~Alive(boots[d].child)'
      <4>1. boots[d].child = Nobody \/ boots[d].child \in DOMAIN procs
        BY <1>0 DEF NamesInv, HostTypeOK, Nobody
      <4>2. boots'[d].child = boots[d].child
        BY <1>1 DEF Moves
      <4>3. QED
        BY <1>6, <3>2, <4>1, <4>2 DEF Alive
    <3>3. QED
      BY <1>0, <1>1, <1>2, <1>3, <1>4, <1>5, <1>6, <2>1, <3>1, <3>2 DEF WorkInv, Moves, Working
  <2>3. LifeInv'
    <3>1. ASSUME NEW c \in DOMAIN procs, procs'[c].alive
          PROVE  (\E d \in DOMAIN boots : HeldBy(d,
                  c))' \/ c = recorder' \/ (ui'.at = "kill" /\ c = ui'.child)
      <4>0. Alive(c)
        BY <1>0, <1>4, <1>6, <3>1 DEF Alive, NamesInv, HostTypeOK, Nobody
      <4>1. CASE \E d \in DOMAIN boots : HeldBy(d, c)
        <5>1. PICK d \in DOMAIN boots : HeldBy(d, c)
          BY <4>1
        <5>2. d # b
          BY <1>0, <1>1, <1>2, <1>3, <1>4, <1>5, <1>6, <3>1, <5>1 DEF HeldBy
        <5>3. QED
          BY <1>0, <1>1, <1>2, <1>3, <1>4, <1>5, <1>6, <5>1, <5>2 DEF HeldBy, Moves
      <4>2. CASE c = recorder \/ (ui.at = "kill" /\ c = ui.child)
        BY <1>0, <1>1, <1>2, <1>3, <1>4, <1>5, <1>6, <4>2
      <4>3. QED
        BY <2>1, <4>0, <4>1, <4>2 DEF LifeInv
    <3>2. QED
      BY <1>0, <1>1, <1>2, <1>3, <1>4, <1>5, <1>6, <3>1 DEF LifeInv, Alive
  <2>4. RecorderInv'
    BY <1>0, <1>1, <1>2, <1>3, <1>4, <1>5, <1>6, <2>1 DEF QuitInv, Moves, RecorderInv
  <2>5. RunningInv'
    BY <1>0, <1>1, <1>2, <1>3, <1>4, <1>5, <1>6, <2>1 DEF Pending, RunningInv
  <2>6. PreparingInv'
    <3>1. state = "preflight" /\ ui.at \in {"kill", "gone"} /\ quit \in {"going", "over"}
      BY <1>0, <1>1, <1>2, <1>3, <1>4, <1>5, <1>6, <2>1 DEF WorkInv, Working
    <3>2. quit = "over" \/ (quit = "going" /\ ui.at = "kill")
      BY <1>0, <3>1 DEF QuitInv
    <3>3. QED
      BY <1>0, <1>1, <1>2, <1>3, <1>4, <1>5, <1>6, <3>2 DEF PreparingInv
  <2>7. PendingInv'
    BY <1>0, <1>1, <1>2, <1>3, <1>4, <1>5, <1>6, <2>1 DEF Working, Pending, PendingInv, WorkInv
  <2>8. StopInv'
    BY <1>0, <1>1, <1>2, <1>3, <1>4, <1>5, <1>6, <2>1 DEF Working, StopInv
  <2>9. QED
    BY <2>2, <2>3, <2>4, <2>5, <2>6, <2>7, <2>8 DEF StateInv
<1>13. QED
  BY <1>7, <1>8, <1>9, <1>10, <1>11, <1>12 DEF HostInv, Orderly

(* The Recorder's exit is listened for.                                    *)
LEMMA WatchesKeeps ==
  ASSUME HostInv, NEW b \in DOMAIN boots, Watches(b), UNCHANGED crossed
  PROVE  HostInv'
<1>0. HostTypeOK /\ NamesInv /\ ExitInv /\ QuitInv /\ PostsInv
  BY DEF HostInv
<1>1. boots[b].at = "watch" /\ Moves(b, "over")
  BY <1>0, GoesMoves DEF Watches, Stages
<1>2. UNCHANGED <<stopping, recorder, preflight, ui, state, posts, menu, quit, crossed>>
  BY DEF Watches, supervisorVars, hostVars
<1>3. PICK n \in DOMAIN procs : n = boots[b].child /\ procs[n].exited = "unwatched"
  BY <1>0, <1>1 DEF HostTypeOK, NamesInv, ExitInv, WithChild, Nobody
<1>4. DOMAIN procs' = DOMAIN procs /\ Len(procs') = Len(procs)
  BY <1>0, <1>3, ExitedShape DEF Watches
<1>5. procs' \in Seq(ProcType)
  BY <1>0, <1>3, ExitedShape DEF Watches
<1>6. /\ \A d \in DOMAIN procs : procs'[d].alive = procs[d].alive
     /\ procs'[n].exited = "watched"
     /\ \A d \in DOMAIN procs : d # n => procs'[d] = procs[d]
  BY <1>0, <1>3, ExitedShape DEF Watches
<1>7. HostTypeOK'
  BY <1>0, <1>1, <1>2, <1>3, <1>4, <1>5, <1>6 DEF HostTypeOK, Moves
<1>8. NamesInv'
  BY <1>0, <1>1, <1>2, <1>4 DEF NamesInv, Moves
<1>9. ExitInv'
  <2>1. ASSUME NEW d \in DOMAIN boots, boots'[d].at \in WithChild
        PROVE  boots'[d].child # Nobody /\ procs'[boots'[d].child].exited = "unwatched"
    <3>1. d # b /\ boots'[d] = boots[d] /\ boots[d].child \in DOMAIN procs /\
            boots[d].child # Nobody /\ procs[boots[d].child].exited = "unwatched"
      <4>1. d # b
        BY <1>1, <2>1 DEF Moves, WithChild
      <4>2. boots'[d] = boots[d]
        BY <1>1, <4>1 DEF Moves
      <4>3. boots[d].child # Nobody /\ procs[boots[d].child].exited = "unwatched"
        BY <1>0, <2>1, <4>2 DEF ExitInv
      <4>4. boots[d].child \in DOMAIN procs
        BY <1>0, <4>3 DEF NamesInv, HostTypeOK, Nobody
      <4>5. QED
        BY <4>1, <4>2, <4>3, <4>4
    <3>2. boots[d].child # boots[b].child
      BY <1>0, <1>1, <1>2, <1>3, <1>4, <1>5, <1>6, <3>1 DEF NamesInv
    <3>3. QED
      BY <1>0, <1>1, <1>2, <1>3, <1>4, <1>5, <1>6, <3>1, <3>2
  <2>2. ASSUME NEW c \in DOMAIN procs, procs'[c].exited \in {"verdict", "done"}
        PROVE  ~procs'[c].alive
    BY <1>0, <1>1, <1>2, <1>3, <1>4, <1>5, <1>6, <2>2 DEF ExitInv
  <2>3. QED
    BY <1>0, <1>1, <1>2, <1>3, <1>4, <1>5, <1>6, <2>1, <2>2 DEF ExitInv, Moves
<1>10. QuitInv'
  BY <1>0, <1>1, <1>2, <1>3, <1>4, <1>5, <1>6 DEF QuitInv
<1>11. PostsInv'
  BY <1>0, <1>1, <1>2, <1>3, <1>4, <1>5, <1>6 DEF PostsInv
<1>12. ASSUME crossed' = FALSE PROVE WorkInv' /\ LifeInv' /\ StateInv'
  <2>1. WorkInv /\ LifeInv /\ RecorderInv /\ RunningInv /\ PreparingInv /\ PendingInv /\ StopInv
    BY <1>12, <1>0, <1>1, <1>2, <1>3, <1>4, <1>5, <1>6 DEF HostInv, Orderly, StateInv
  <2>2. WorkInv'
    <3>1. \A d \in DOMAIN boots : Working(d)' => Working(d) /\ boots'[d] = boots[d]
      BY <1>0, <1>1, <1>2, <1>3, <1>4, <1>5, <1>6 DEF Working, Moves
    <3>2. ASSUME NEW d \in DOMAIN boots, boots[d].at \in {"look", "launch"},
            ~Alive(boots[d].child)
          PROVE  ~Alive(boots[d].child)'
      <4>1. boots[d].child = Nobody \/ boots[d].child \in DOMAIN procs
        BY <1>0 DEF NamesInv, HostTypeOK, Nobody
      <4>2. boots'[d].child = boots[d].child
        BY <1>1 DEF Moves
      <4>3. QED
        BY <1>6, <3>2, <4>1, <4>2 DEF Alive
    <3>3. QED
      BY <1>0, <1>1, <1>2, <1>3, <1>4, <1>5, <1>6, <2>1, <3>1, <3>2 DEF WorkInv, Moves, Working
  <2>3. LifeInv'
    <3>1. ASSUME NEW c \in DOMAIN procs, procs'[c].alive
          PROVE  (\E d \in DOMAIN boots : HeldBy(d,
                  c))' \/ c = recorder' \/ (ui'.at = "kill" /\ c = ui'.child)
      <4>0. Alive(c)
        BY <1>0, <1>4, <1>6, <3>1 DEF Alive, NamesInv, HostTypeOK, Nobody
      <4>1. CASE \E d \in DOMAIN boots : HeldBy(d, c)
        <5>1. PICK d \in DOMAIN boots : HeldBy(d, c)
          BY <4>1
        <5>2. d # b
          BY <1>0, <1>1, <1>2, <1>3, <1>4, <1>5, <1>6, <3>1, <5>1 DEF HeldBy
        <5>3. QED
          BY <1>0, <1>1, <1>2, <1>3, <1>4, <1>5, <1>6, <5>1, <5>2 DEF HeldBy, Moves
      <4>2. CASE c = recorder \/ (ui.at = "kill" /\ c = ui.child)
        BY <1>0, <1>1, <1>2, <1>3, <1>4, <1>5, <1>6, <4>2
      <4>3. QED
        BY <2>1, <4>0, <4>1, <4>2 DEF LifeInv
    <3>2. QED
      BY <1>0, <1>1, <1>2, <1>3, <1>4, <1>5, <1>6, <3>1 DEF LifeInv, Alive
  <2>4. RecorderInv'
    BY <1>0, <1>1, <1>2, <1>3, <1>4, <1>5, <1>6, <2>1 DEF Moves, RecorderInv
  <2>5. RunningInv'
    BY <1>0, <1>1, <1>2, <1>3, <1>4, <1>5, <1>6, <2>1 DEF Pending, RunningInv
  <2>6. PreparingInv'
    BY <1>0, <1>1, <1>2, <1>3, <1>4, <1>5, <1>6, <2>1 DEF Working, Moves, PreparingInv
  <2>7. PendingInv'
    <3>1. \A c \in DOMAIN procs : Pending(c)' => Pending(c)
      BY <1>4, <1>6 DEF Pending
    <3>2. QED
      BY <1>0, <1>1, <1>2, <1>3, <1>4, <1>5, <1>6, <2>1, <3>1 DEF PendingInv
  <2>8. StopInv'
    BY <1>0, <1>1, <1>2, <1>3, <1>4, <1>5, <1>6, <2>1 DEF Working, Moves, StopInv
  <2>9. QED
    BY <2>2, <2>3, <2>4, <2>5, <2>6, <2>7, <2>8 DEF StateInv
<1>13. QED
  BY <1>7, <1>8, <1>9, <1>10, <1>11, <1>12 DEF HostInv, Orderly

-----------------------------------------------------------------------------
(* A process ends.                                                         *)
LEMMA DiesKeeps ==
  ASSUME HostInv, NEW c \in DOMAIN procs, Dies(c), UNCHANGED crossed
  PROVE  HostInv'
<1>0. HostTypeOK /\ NamesInv /\ ExitInv /\ QuitInv /\ PostsInv
  BY DEF HostInv
<1>1. UNCHANGED <<boots, stopping, recorder, preflight, ui, state, posts, menu, quit, crossed>>
  BY DEF Dies, Click, Uncounted, copyVars, supervisorVars, hostVars, countVars
<1>2. procs' = Killed({c})
  BY DEF Dies
<1>3. DOMAIN procs' = DOMAIN procs /\ Len(procs') = Len(procs)
  BY <1>0, <1>2, KilledShape
<1>4. procs' \in Seq(ProcType)
  BY <1>0, <1>2, KilledShape
<1>5. \A e \in DOMAIN procs : procs'[e].exited = procs[e].exited /\ (procs'[e].alive =>
        procs[e].alive /\ e \notin {c})
  BY <1>0, <1>2, KilledShape
<1>6. HostTypeOK'
  BY <1>0, <1>1, <1>2, <1>3, <1>4, <1>5 DEF HostTypeOK
<1>7. NamesInv'
  BY <1>0, <1>1, <1>2, <1>3, <1>4, <1>5 DEF NamesInv
<1>8. ExitInv'
  <2>1. ASSUME NEW d \in DOMAIN boots, boots[d].at \in WithChild
        PROVE  boots[d].child \in DOMAIN procs /\ boots[d].child # Nobody /\
                procs[boots[d].child].exited = "unwatched"
    <3>1. boots[d].child # Nobody /\ procs[boots[d].child].exited = "unwatched"
      BY <1>0, <2>1 DEF ExitInv
    <3>2. QED
      BY <1>0, <3>1 DEF NamesInv, HostTypeOK, Nobody
  <2>2. ASSUME NEW e \in DOMAIN procs, procs'[e].exited \in {"verdict", "done"}
        PROVE  ~procs'[e].alive
    BY <1>0, <1>5, <2>2 DEF ExitInv
  <2>3. ASSUME NEW e \in DOMAIN procs, procs[e].exited = "unwatched"
        PROVE  procs'[e].exited = "unwatched"
    BY <1>2, <1>5, <2>3
  <2>4. QED
    BY <1>1, <1>3, <2>1, <2>2, <2>3 DEF ExitInv
<1>9. QuitInv'
  BY <1>0, <1>1, <1>2, <1>3, <1>4, <1>5 DEF QuitInv
<1>10. PostsInv'
  BY <1>0, <1>1, <1>2, <1>3, <1>4, <1>5 DEF PostsInv
<1>11. ASSUME crossed' = FALSE PROVE WorkInv' /\ LifeInv' /\ StateInv'
  <2>1. WorkInv /\ LifeInv /\ RecorderInv /\ RunningInv /\ PreparingInv /\ PendingInv /\ StopInv
    BY <1>11, <1>0, <1>1, <1>2, <1>3, <1>4, <1>5 DEF HostInv, Orderly, StateInv
  <2>2. WorkInv'
    <3>1. ASSUME NEW d \in DOMAIN boots, ~Alive(boots[d].child)
          PROVE  ~Alive(boots[d].child)'
      <4>1. boots[d].child = Nobody \/ boots[d].child \in DOMAIN procs
        BY <1>0 DEF NamesInv, HostTypeOK, Nobody
      <4>2. QED
        BY <1>1, <1>5, <3>1, <4>1 DEF Alive
    <3>2. QED
      BY <1>0, <1>1, <1>2, <1>3, <1>4, <1>5, <2>1, <3>1 DEF WorkInv, Working, Nobody
  <2>3. LifeInv'
    BY <1>0, <1>1, <1>2, <1>3, <1>4, <1>5, <2>1 DEF HeldBy, Alive, LifeInv
  <2>4. RecorderInv'
    BY <1>0, <1>1, <1>2, <1>3, <1>4, <1>5, <2>1 DEF RecorderInv
  <2>5. RunningInv'
    BY <1>0, <1>1, <1>2, <1>3, <1>4, <1>5, <2>1 DEF Pending, RunningInv
  <2>6. PreparingInv'
    BY <1>0, <1>1, <1>2, <1>3, <1>4, <1>5, <2>1 DEF Working, PreparingInv
  <2>7. PendingInv'
    <3>1. \A d \in DOMAIN procs : Pending(d)' => Pending(d)
      BY <1>5 DEF Pending
    <3>2. QED
      BY <1>0, <1>1, <1>2, <1>3, <1>4, <1>5, <2>1, <3>1 DEF PendingInv, Nobody
  <2>8. StopInv'
    BY <1>0, <1>1, <1>2, <1>3, <1>4, <1>5, <2>1 DEF Working, StopInv
  <2>9. QED
    BY <2>2, <2>3, <2>4, <2>5, <2>6, <2>7, <2>8 DEF StateInv
<1>12. QED
  BY <1>6, <1>7, <1>8, <1>9, <1>10, <1>11 DEF HostInv, Orderly

(* The exit of the Recorder that runs.                                     *)
LEMMA ExitsMineKeeps ==
  ASSUME HostInv, NEW c \in DOMAIN procs, Exits(c), recorder = c, stopping = FALSE,
          UNCHANGED crossed
  PROVE  HostInv'
<1>0. HostTypeOK /\ NamesInv /\ ExitInv /\ QuitInv /\ PostsInv
  BY DEF HostInv
<1>1. UNCHANGED <<boots, stopping, preflight, ui, state, posts, menu, quit, crossed>>
  BY DEF Exits, Click, Uncounted, copyVars, supervisorVars, hostVars, countVars
<1>2. ~procs[c].alive /\ procs[c].exited = "watched" /\ c # Nobody /\ recorder' = Nobody
  BY <1>0 DEF Exits, HostTypeOK, Alive, Nobody
<1>3. procs' = [procs EXCEPT ![c].exited = "verdict"]
  BY <1>0 DEF Exits, HostTypeOK
<1>4. DOMAIN procs' = DOMAIN procs /\ Len(procs') = Len(procs)
  BY <1>0, <1>3, ExitedShape
<1>5. procs' \in Seq(ProcType)
  BY <1>0, <1>3, ExitedShape
<1>6. /\ \A d \in DOMAIN procs : procs'[d].alive = procs[d].alive
     /\ procs'[c].exited = "verdict"
     /\ \A d \in DOMAIN procs : d # c => procs'[d] = procs[d]
  BY <1>0, <1>3, ExitedShape
<1>7. HostTypeOK'
  BY <1>0, <1>1, <1>2, <1>3, <1>4, <1>5, <1>6 DEF HostTypeOK, Nobody
<1>8. NamesInv'
  BY <1>0, <1>1, <1>2, <1>3, <1>4, <1>5, <1>6 DEF NamesInv, Nobody
<1>9. ExitInv'
  <2>1. ASSUME NEW d \in DOMAIN boots, boots[d].at \in WithChild
        PROVE  boots[d].child \in DOMAIN procs /\ boots[d].child # Nobody /\
                procs[boots[d].child].exited = "unwatched"
    <3>1. boots[d].child # Nobody /\ procs[boots[d].child].exited = "unwatched"
      BY <1>0, <2>1 DEF ExitInv
    <3>2. QED
      BY <1>0, <3>1 DEF NamesInv, HostTypeOK, Nobody
  <2>2. ASSUME NEW e \in DOMAIN procs, procs'[e].exited \in {"verdict", "done"}
        PROVE  ~procs'[e].alive
    BY <1>0, <1>6, <1>2, <2>2 DEF ExitInv
  <2>3. ASSUME NEW e \in DOMAIN procs, procs[e].exited = "unwatched"
        PROVE  procs'[e].exited = "unwatched"
    BY <1>2, <1>6, <1>2, <2>3
  <2>4. QED
    BY <1>1, <1>4, <2>1, <2>2, <2>3 DEF ExitInv
<1>10. QuitInv'
  BY <1>0, <1>1, <1>2, <1>3, <1>4, <1>5, <1>6 DEF QuitInv
<1>11. PostsInv'
  BY <1>0, <1>1, <1>2, <1>3, <1>4, <1>5, <1>6 DEF PostsInv
<1>12. ASSUME crossed' = FALSE PROVE WorkInv' /\ LifeInv' /\ StateInv'
  <2>1. WorkInv /\ LifeInv /\ RecorderInv /\ RunningInv /\ PreparingInv /\ PendingInv /\ StopInv
    BY <1>12, <1>0, <1>1, <1>2, <1>3, <1>4, <1>5, <1>6 DEF HostInv, Orderly, StateInv
  <2>2. WorkInv'
    <3>1. \A d \in DOMAIN boots : ~Working(d)
      BY <1>0, <1>1, <1>2, <1>3, <1>4, <1>5, <1>6, <2>1 DEF WorkInv, PendingInv, Pending,
        Working, ExitInv, WithChild, Nobody
    <3>2. QED
      BY <1>1, <3>1 DEF WorkInv, Working
  <2>3. LifeInv'
    BY <1>0, <1>1, <1>2, <1>3, <1>4, <1>5, <1>6, <2>1 DEF HeldBy, Alive, LifeInv
  <2>4. RecorderInv'
    BY <1>0, <1>1, <1>2, <1>3, <1>4, <1>5, <1>6, <2>1 DEF RecorderInv
  <2>5. RunningInv'
    BY <1>0, <1>1, <1>2, <1>3, <1>4, <1>5, <1>6, <2>1 DEF Pending, RunningInv
  <2>6. PreparingInv'
    BY <1>0, <1>1, <1>2, <1>3, <1>4, <1>5, <1>6, <2>1 DEF Working, PreparingInv
  <2>7. PendingInv'
    <3>1. \A d \in DOMAIN procs : ~Pending(d)
      BY <1>2, <2>1 DEF PendingInv
    <3>2. \A d \in DOMAIN procs : Pending(d)' => d = c
      BY <1>6, <3>1 DEF Pending
    <3>3. state = "running" /\ ui.at # "kill"
      <4>1. \A d \in DOMAIN boots : boots[d].at = "running" => boots[d].child # c
        BY <1>0, <1>2 DEF ExitInv, WithChild
      <4>2. QED
        BY <1>0, <1>2, <2>1, <4>1 DEF RecorderInv, QuitInv
    <3>4. QED
      BY <1>1, <1>2, <1>4, <3>2, <3>3 DEF PendingInv
  <2>8. StopInv'
    BY <1>0, <1>1, <1>2, <1>3, <1>4, <1>5, <1>6, <2>1 DEF Working, StopInv
  <2>9. QED
    BY <2>2, <2>3, <2>4, <2>5, <2>6, <2>7, <2>8 DEF StateInv
<1>13. QED
  BY <1>7, <1>8, <1>9, <1>10, <1>11, <1>12 DEF HostInv, Orderly

(* The exit of a Recorder that a stop took.                                *)
LEMMA ExitsOtherKeeps ==
  ASSUME HostInv, NEW c \in DOMAIN procs, Exits(c), ~(recorder = c /\ stopping = FALSE),
          UNCHANGED crossed
  PROVE  HostInv'
<1>0. HostTypeOK /\ NamesInv /\ ExitInv /\ QuitInv /\ PostsInv
  BY DEF HostInv
<1>1. UNCHANGED <<boots, stopping, preflight, ui, state, posts, menu, quit, crossed>>
  BY DEF Exits, Click, Uncounted, copyVars, supervisorVars, hostVars, countVars
<1>2. ~procs[c].alive /\ procs[c].exited = "watched" /\ c # Nobody /\ recorder' = recorder
  BY <1>0 DEF Exits, HostTypeOK, Alive, Nobody
<1>3. procs' = [procs EXCEPT ![c].exited = "done"]
  BY <1>0 DEF Exits, HostTypeOK
<1>4. DOMAIN procs' = DOMAIN procs /\ Len(procs') = Len(procs)
  BY <1>0, <1>3, ExitedShape
<1>5. procs' \in Seq(ProcType)
  BY <1>0, <1>3, ExitedShape
<1>6. /\ \A d \in DOMAIN procs : procs'[d].alive = procs[d].alive
     /\ procs'[c].exited = "done"
     /\ \A d \in DOMAIN procs : d # c => procs'[d] = procs[d]
  BY <1>0, <1>3, ExitedShape
<1>7. HostTypeOK'
  BY <1>0, <1>1, <1>2, <1>3, <1>4, <1>5, <1>6 DEF HostTypeOK
<1>8. NamesInv'
  BY <1>0, <1>1, <1>2, <1>3, <1>4, <1>5, <1>6 DEF NamesInv
<1>9. ExitInv'
  <2>1. ASSUME NEW d \in DOMAIN boots, boots[d].at \in WithChild
        PROVE  boots[d].child \in DOMAIN procs /\ boots[d].child # Nobody /\
                procs[boots[d].child].exited = "unwatched"
    <3>1. boots[d].child # Nobody /\ procs[boots[d].child].exited = "unwatched"
      BY <1>0, <2>1 DEF ExitInv
    <3>2. QED
      BY <1>0, <3>1 DEF NamesInv, HostTypeOK, Nobody
  <2>2. ASSUME NEW e \in DOMAIN procs, procs'[e].exited \in {"verdict", "done"}
        PROVE  ~procs'[e].alive
    BY <1>0, <1>6, <1>2, <2>2 DEF ExitInv
  <2>3. ASSUME NEW e \in DOMAIN procs, procs[e].exited = "unwatched"
        PROVE  procs'[e].exited = "unwatched"
    BY <1>2, <1>6, <1>2, <2>3
  <2>4. QED
    BY <1>1, <1>4, <2>1, <2>2, <2>3 DEF ExitInv
<1>10. QuitInv'
  BY <1>0, <1>1, <1>2, <1>3, <1>4, <1>5, <1>6 DEF QuitInv
<1>11. PostsInv'
  BY <1>0, <1>1, <1>2, <1>3, <1>4, <1>5, <1>6 DEF PostsInv
<1>12. ASSUME crossed' = FALSE PROVE WorkInv' /\ LifeInv' /\ StateInv'
  <2>1. WorkInv /\ LifeInv /\ RecorderInv /\ RunningInv /\ PreparingInv /\ PendingInv /\ StopInv
    BY <1>12, <1>0, <1>1, <1>2, <1>3, <1>4, <1>5, <1>6 DEF HostInv, Orderly, StateInv
  <2>2. WorkInv'
    BY <1>0, <1>1, <1>2, <1>3, <1>4, <1>5, <1>6, <2>1 DEF Working, Alive, WorkInv
  <2>3. LifeInv'
    BY <1>0, <1>1, <1>2, <1>3, <1>4, <1>5, <1>6, <2>1 DEF HeldBy, Alive, LifeInv
  <2>4. RecorderInv'
    BY <1>0, <1>1, <1>2, <1>3, <1>4, <1>5, <1>6, <2>1 DEF RecorderInv
  <2>5. RunningInv'
    BY <1>0, <1>1, <1>2, <1>3, <1>4, <1>5, <1>6, <2>1 DEF Pending, RunningInv
  <2>6. PreparingInv'
    BY <1>0, <1>1, <1>2, <1>3, <1>4, <1>5, <1>6, <2>1 DEF Working, PreparingInv
  <2>7. PendingInv'
    BY <1>0, <1>1, <1>2, <1>3, <1>4, <1>5, <1>6, <2>1 DEF Pending, PendingInv
  <2>8. StopInv'
    BY <1>0, <1>1, <1>2, <1>3, <1>4, <1>5, <1>6, <2>1 DEF Working, StopInv
  <2>9. QED
    BY <2>2, <2>3, <2>4, <2>5, <2>6, <2>7, <2>8 DEF StateInv
<1>13. QED
  BY <1>7, <1>8, <1>9, <1>10, <1>11, <1>12 DEF HostInv, Orderly

(* The report of an exit.                                                  *)
LEMMA VerdictKeeps ==
  ASSUME HostInv, NEW c \in DOMAIN procs, Verdict(c), NEW s \in {"stopped", "unmanaged"},
          Report(s), UNCHANGED crossed
  PROVE  HostInv'
<1>0. HostTypeOK /\ NamesInv /\ ExitInv /\ QuitInv /\ PostsInv
  BY DEF HostInv
<1>1. UNCHANGED <<boots, stopping, recorder, preflight, ui, menu, quit, crossed>>
  BY DEF Verdict, Click, Uncounted, copyVars, supervisorVars, hostVars, countVars
<1>2. procs[c].exited = "verdict"
  BY DEF Verdict
<1>3. DOMAIN procs' = DOMAIN procs /\ Len(procs') = Len(procs)
  BY <1>0, ExitedShape DEF Verdict
<1>4. procs' \in Seq(ProcType)
  BY <1>0, ExitedShape DEF Verdict
<1>5. /\ \A d \in DOMAIN procs : procs'[d].alive = procs[d].alive
     /\ procs'[c].exited = "done"
     /\ \A d \in DOMAIN procs : d # c => procs'[d] = procs[d]
  BY <1>0, ExitedShape DEF Verdict
<1>6. state' = s /\ posts' \in Seq(States) /\ posts' # <<>> /\ posts'[Len(posts')] = s
  BY <1>0, ReportShape DEF States
<1>7. HostTypeOK'
  BY <1>0, <1>1, <1>2, <1>3, <1>4, <1>5, <1>6 DEF HostTypeOK
<1>8. NamesInv'
  BY <1>0, <1>1, <1>2, <1>3, <1>4, <1>5, <1>6 DEF NamesInv
<1>9. ExitInv'
  <2>1. ASSUME NEW d \in DOMAIN boots, boots[d].at \in WithChild
        PROVE  boots[d].child \in DOMAIN procs /\ boots[d].child # Nobody /\
                procs[boots[d].child].exited = "unwatched"
    <3>1. boots[d].child # Nobody /\ procs[boots[d].child].exited = "unwatched"
      BY <1>0, <2>1 DEF ExitInv
    <3>2. QED
      BY <1>0, <3>1 DEF NamesInv, HostTypeOK, Nobody
  <2>2. ASSUME NEW e \in DOMAIN procs, procs'[e].exited \in {"verdict", "done"}
        PROVE  ~procs'[e].alive
    BY <1>0, <1>2, <1>5, <2>2 DEF ExitInv
  <2>3. ASSUME NEW e \in DOMAIN procs, procs[e].exited = "unwatched"
        PROVE  procs'[e].exited = "unwatched"
    BY <1>2, <1>2, <1>5, <2>3
  <2>4. QED
    BY <1>1, <1>3, <2>1, <2>2, <2>3 DEF ExitInv
<1>10. QuitInv'
  BY <1>0, <1>1, <1>2, <1>3, <1>4, <1>5, <1>6 DEF QuitInv
<1>11. PostsInv'
  BY <1>0, <1>1, <1>2, <1>3, <1>4, <1>5, <1>6 DEF PostsInv
<1>12. ASSUME crossed' = FALSE PROVE WorkInv' /\ LifeInv' /\ StateInv'
  <2>1. WorkInv /\ LifeInv /\ RecorderInv /\ RunningInv /\ PreparingInv /\ PendingInv /\ StopInv
    BY <1>12, <1>0, <1>1, <1>2, <1>3, <1>4, <1>5, <1>6 DEF HostInv, Orderly, StateInv
  <2>2. WorkInv'
    <3>1. \A d \in DOMAIN boots : ~Working(d)
      BY <1>0, <1>1, <1>2, <1>3, <1>4, <1>5, <1>6, <2>1 DEF WorkInv, PendingInv, Pending,
        Working, ExitInv, WithChild, Nobody
    <3>2. QED
      BY <1>1, <3>1 DEF WorkInv, Working
  <2>3. LifeInv'
    BY <1>0, <1>1, <1>2, <1>3, <1>4, <1>5, <1>6, <2>1 DEF HeldBy, Alive, LifeInv
  <2>4. RecorderInv'
    <3>1. recorder' = Nobody
      BY <1>1, <1>2, <2>1 DEF PendingInv, Pending
    <3>2. QED
      BY <3>1 DEF RecorderInv
  <2>5. RunningInv'
    BY <1>0, <1>1, <1>2, <1>3, <1>4, <1>5, <1>6, <2>1 DEF RunningInv
  <2>6. PreparingInv'
    BY <1>0, <1>1, <1>2, <1>3, <1>4, <1>5, <1>6, <2>1 DEF PreparingInv
  <2>7. PendingInv'
    BY <1>0, <1>1, <1>2, <1>3, <1>4, <1>5, <1>6, <2>1 DEF Pending, PendingInv
  <2>8. StopInv'
    <3>1. /\ state = "running" /\ (ui.at = "kill" => quit = "going") /\
            \A d \in DOMAIN boots : ~Working(d)
      BY <1>2, <2>1 DEF PendingInv, Pending, WorkInv
    <3>2. ui.at \notin {"startup", "report", "start"}
      BY <2>1, <3>1 DEF StopInv
    <3>3. QED
      BY <1>1, <3>1, <3>2 DEF StopInv, Working
  <2>9. QED
    BY <2>2, <2>3, <2>4, <2>5, <2>6, <2>7, <2>8 DEF StateInv
<1>13. QED
  BY <1>7, <1>8, <1>9, <1>10, <1>11, <1>12 DEF HostInv, Orderly

(* Start Recorder.                                                         *)
LEMMA StartRecorderKeeps ==
  ASSUME HostInv, StartRecorder
  PROVE  HostInv'
<1>0. HostTypeOK /\ NamesInv /\ ExitInv /\ QuitInv /\ PostsInv
  BY DEF HostInv
<1>1. UNCHANGED <<boots, stopping, recorder, preflight, procs, posts, menu, quit, crossed>>
  BY DEF StartRecorder, Click, Uncounted, copyVars, supervisorVars, hostVars, countVars
<1>2. ui.at = "idle" /\ state \in {"stopped", "failed", "unmanaged"}
  BY DEF StartRecorder, CanStart
<1>3. state' = "preflight" /\ ui' \in UIType /\ ui'.at = "report" /\ ui'.child = 0
  BY DEF StartRecorder, UIAt, UIType, Nobody
<1>4. HostTypeOK'
  BY <1>0, <1>1, <1>2, <1>3 DEF HostTypeOK, States
<1>5. NamesInv'
  BY <1>0, <1>1, <1>2, <1>3 DEF NamesInv
<1>6. ExitInv'
  BY <1>0, <1>1, <1>2, <1>3 DEF ExitInv
<1>7. QuitInv'
  BY <1>0, <1>1, <1>2, <1>3 DEF QuitInv
<1>8. PostsInv'
  BY <1>0, <1>1, <1>2, <1>3 DEF PostsInv
<1>9. ASSUME crossed' = FALSE PROVE WorkInv' /\ LifeInv' /\ StateInv'
  <2>1. WorkInv /\ LifeInv /\ RecorderInv /\ RunningInv /\ PreparingInv /\ PendingInv /\ StopInv
    BY <1>9, <1>0, <1>1, <1>2, <1>3 DEF HostInv, Orderly, StateInv
  <2>2. WorkInv'
    BY <1>0, <1>1, <1>2, <1>3, <2>1 DEF Working, WorkInv
  <2>3. LifeInv'
    BY <1>0, <1>1, <1>2, <1>3, <2>1 DEF HeldBy, Alive, LifeInv
  <2>4. RecorderInv'
    BY <1>0, <1>1, <1>2, <1>3, <2>1 DEF RecorderInv
  <2>5. RunningInv'
    BY <1>0, <1>1, <1>2, <1>3, <2>1 DEF RunningInv
  <2>6. PreparingInv'
    BY <1>0, <1>1, <1>2, <1>3, <2>1 DEF PreparingInv
  <2>7. PendingInv'
    BY <1>0, <1>1, <1>2, <1>3, <2>1 DEF Pending, PendingInv
  <2>8. StopInv'
    <3>1. recorder = Nobody
      BY <1>0, <1>2, <2>1 DEF RecorderInv, WorkInv, Working
    <3>2. QED
      BY <1>1, <1>3, <3>1 DEF StopInv
  <2>9. QED
    BY <2>2, <2>3, <2>4, <2>5, <2>6, <2>7, <2>8 DEF StateInv
<1>10. QED
  BY <1>4, <1>5, <1>6, <1>7, <1>8, <1>9 DEF HostInv, Orderly

(* A start is reported.                                                    *)
LEMMA StartingKeeps ==
  ASSUME HostInv, Starting
  PROVE  HostInv'
<1>0. HostTypeOK /\ NamesInv /\ ExitInv /\ QuitInv /\ PostsInv
  BY DEF HostInv
<1>1. UNCHANGED <<boots, stopping, recorder, preflight, procs, menu, quit, crossed>>
  BY DEF Starting, Click, Uncounted, copyVars, supervisorVars, hostVars, countVars
<1>2. ui.at \in {"startup", "report"}
  BY DEF Starting
<1>3. ui' \in UIType /\ ui'.at = "start" /\ ui'.child = 0
  BY DEF Starting, UIAt, UIType, Nobody
<1>4. state' = "preflight" /\ posts' \in Seq(States) /\ posts' # <<>> /\
        posts'[Len(posts')] = "preflight"
  BY <1>0, ReportShape DEF Starting, States
<1>5. HostTypeOK'
  BY <1>0, <1>1, <1>2, <1>3, <1>4 DEF HostTypeOK
<1>6. NamesInv'
  BY <1>0, <1>1, <1>2, <1>3, <1>4 DEF NamesInv
<1>7. ExitInv'
  BY <1>0, <1>1, <1>2, <1>3, <1>4 DEF ExitInv
<1>8. QuitInv'
  BY <1>0, <1>1, <1>2, <1>3, <1>4 DEF QuitInv
<1>9. PostsInv'
  BY <1>0, <1>1, <1>2, <1>3, <1>4 DEF PostsInv
<1>10. ASSUME crossed' = FALSE PROVE WorkInv' /\ LifeInv' /\ StateInv'
  <2>1. WorkInv /\ LifeInv /\ RecorderInv /\ RunningInv /\ PreparingInv /\ PendingInv /\ StopInv
    BY <1>10, <1>0, <1>1, <1>2, <1>3, <1>4 DEF HostInv, Orderly, StateInv
  <2>2. WorkInv'
    BY <1>0, <1>1, <1>2, <1>3, <1>4, <2>1 DEF Working, WorkInv
  <2>3. LifeInv'
    BY <1>0, <1>1, <1>2, <1>3, <1>4, <2>1 DEF HeldBy, Alive, LifeInv
  <2>4. RecorderInv'
    <3>1. recorder' = Nobody
      BY <1>1, <1>2, <2>1 DEF StopInv
    <3>2. QED
      BY <3>1 DEF RecorderInv
  <2>5. RunningInv'
    BY <1>0, <1>1, <1>2, <1>3, <1>4, <2>1 DEF RunningInv
  <2>6. PreparingInv'
    BY <1>0, <1>1, <1>2, <1>3, <1>4, <2>1 DEF PreparingInv
  <2>7. PendingInv'
    <3>1. state # "running"
      BY <1>2, <2>1 DEF StopInv
    <3>2. \A d \in DOMAIN procs : ~Pending(d)
      BY <2>1, <3>1 DEF PendingInv
    <3>3. QED
      BY <1>1, <3>2 DEF PendingInv, Pending
  <2>8. StopInv'
    BY <1>0, <1>1, <1>2, <1>3, <1>4, <2>1 DEF StopInv
  <2>9. QED
    BY <2>2, <2>3, <2>4, <2>5, <2>6, <2>7, <2>8 DEF StateInv
<1>11. QED
  BY <1>5, <1>6, <1>7, <1>8, <1>9, <1>10 DEF HostInv, Orderly

(* Stop Recorder.                                                          *)
LEMMA StopRecorderKeeps ==
  ASSUME HostInv, StopRecorder
  PROVE  HostInv'
<1>0. HostTypeOK /\ NamesInv /\ ExitInv /\ QuitInv /\ PostsInv
  BY DEF HostInv
<1>1. UNCHANGED <<boots, stopping, recorder, preflight, procs, state, posts, menu, quit,
        crossed>>
  BY DEF StopRecorder, Click, Uncounted, copyVars, supervisorVars, hostVars, countVars
<1>2. ui.at = "idle" /\ state = "running" /\ recorder # Nobody
  BY DEF StopRecorder, OwnsRunningRecorder
<1>3. ui' \in UIType /\ ui'.at = "stop" /\ ui'.child = 0
  BY DEF StopRecorder, UIAt, UIType, Nobody
<1>4. HostTypeOK'
  BY <1>0, <1>1, <1>2, <1>3 DEF HostTypeOK
<1>5. NamesInv'
  BY <1>0, <1>1, <1>2, <1>3 DEF NamesInv
<1>6. ExitInv'
  BY <1>0, <1>1, <1>2, <1>3 DEF ExitInv
<1>7. QuitInv'
  BY <1>0, <1>1, <1>2, <1>3 DEF QuitInv
<1>8. PostsInv'
  BY <1>0, <1>1, <1>2, <1>3 DEF PostsInv
<1>9. ASSUME crossed' = FALSE PROVE WorkInv' /\ LifeInv' /\ StateInv'
  <2>1. WorkInv /\ LifeInv /\ RecorderInv /\ RunningInv /\ PreparingInv /\ PendingInv /\ StopInv
    BY <1>9, <1>0, <1>1, <1>2, <1>3 DEF HostInv, Orderly, StateInv
  <2>2. WorkInv'
    BY <1>0, <1>1, <1>2, <1>3, <2>1 DEF Working, WorkInv
  <2>3. LifeInv'
    BY <1>0, <1>1, <1>2, <1>3, <2>1 DEF HeldBy, Alive, LifeInv
  <2>4. RecorderInv'
    BY <1>0, <1>1, <1>2, <1>3, <2>1 DEF RecorderInv
  <2>5. RunningInv'
    BY <1>0, <1>1, <1>2, <1>3, <2>1 DEF RunningInv
  <2>6. PreparingInv'
    BY <1>0, <1>1, <1>2, <1>3, <2>1 DEF PreparingInv
  <2>7. PendingInv'
    BY <1>0, <1>1, <1>2, <1>3, <2>1 DEF Pending, PendingInv
  <2>8. StopInv'
    BY <1>0, <1>1, <1>2, <1>3, <2>1 DEF Working, StopInv, WorkInv
  <2>9. QED
    BY <2>2, <2>3, <2>4, <2>5, <2>6, <2>7, <2>8 DEF StateInv
<1>10. QED
  BY <1>4, <1>5, <1>6, <1>7, <1>8, <1>9 DEF HostInv, Orderly

(* Stop takes the Recorder.                                                *)
LEMMA StopKeeps ==
  ASSUME HostInv, Stop
  PROVE  HostInv'
<1>0. HostTypeOK /\ NamesInv /\ ExitInv /\ QuitInv /\ PostsInv
  BY DEF HostInv
<1>1. UNCHANGED <<boots, preflight, procs, state, posts, menu, quit>>
  BY DEF Stop, Click, Uncounted, copyVars, supervisorVars, hostVars, countVars
<1>2. ui.at = "stop" /\ stopping' = TRUE /\ recorder' = Nobody
  BY DEF Stop
<1>3. ui' \in UIType /\ ui'.at = "kill" /\ ui'.child = recorder
  BY <1>0 DEF Stop, UIType, HostTypeOK
<1>4. crossed' \in BOOLEAN /\ (crossed' = FALSE => crossed = FALSE /\
        (quit = "going" \/ recorder # Nobody))
  BY <1>0 DEF Stop, HostTypeOK
<1>5. HostTypeOK'
  BY <1>0, <1>1, <1>2, <1>3, <1>4 DEF HostTypeOK, Nobody
<1>6. NamesInv'
  BY <1>0, <1>1, <1>2, <1>3, <1>4 DEF NamesInv, Nobody
<1>7. ExitInv'
  BY <1>0, <1>1, <1>2, <1>3, <1>4 DEF ExitInv
<1>8. QuitInv'
  BY <1>0, <1>1, <1>2, <1>3, <1>4 DEF QuitInv
<1>9. PostsInv'
  BY <1>0, <1>1, <1>2, <1>3, <1>4 DEF PostsInv
<1>10. ASSUME crossed' = FALSE PROVE WorkInv' /\ LifeInv' /\ StateInv'
  <2>1. WorkInv /\ LifeInv /\ RecorderInv /\ RunningInv /\ PreparingInv /\ PendingInv /\ StopInv
    BY <1>10, <1>0, <1>1, <1>2, <1>3, <1>4 DEF HostInv, Orderly, StateInv
  <2>2. WorkInv'
    BY <1>0, <1>1, <1>2, <1>3, <1>4, <2>1 DEF Working, Alive, WorkInv
  <2>3. LifeInv'
    BY <1>0, <1>1, <1>2, <1>3, <1>4, <2>1 DEF HeldBy, Alive, LifeInv
  <2>4. RecorderInv'
    BY <1>0, <1>1, <1>2, <1>3, <1>4, <2>1 DEF RecorderInv
  <2>5. RunningInv'
    BY <1>0, <1>1, <1>2, <1>3, <1>4, <2>1 DEF RunningInv
  <2>6. PreparingInv'
    BY <1>0, <1>1, <1>2, <1>3, <1>4, <2>1 DEF Working, PreparingInv
  <2>7. PendingInv'
    <3>1. ASSUME NEW c \in DOMAIN procs, Pending(c)
          PROVE  state = "running" /\ quit = "going" /\ ui'.child = Nobody /\
                  \A d \in DOMAIN procs : Pending(d) => d = c
      BY <1>3, <1>4, <1>10, <2>1, <3>1 DEF PendingInv, Nobody
    <3>2. QED
      BY <1>1, <1>2, <3>1 DEF PendingInv, Pending
  <2>8. StopInv'
    <3>1. quit # "going" => state = "running" /\ \A d \in DOMAIN boots : ~Working(d)
      BY <1>2, <1>4, <1>10, <2>1 DEF StopInv, RecorderInv, Working
    <3>2. QED
      BY <1>1, <1>3, <3>1 DEF StopInv, Working
  <2>9. QED
    BY <2>2, <2>3, <2>4, <2>5, <2>6, <2>7, <2>8 DEF StateInv
<1>11. QED
  BY <1>5, <1>6, <1>7, <1>8, <1>9, <1>10 DEF HostInv, Orderly

(* The kill of a quit.                                                     *)
LEMMA KillsQuitKeeps ==
  ASSUME HostInv, Kills, quit = "going"
  PROVE  HostInv'
<1>0. HostTypeOK /\ NamesInv /\ ExitInv /\ QuitInv /\ PostsInv
  BY DEF HostInv
<1>1. UNCHANGED <<boots, stopping, recorder, preflight, state, posts, menu, crossed>>
  BY DEF Kills, Click, Uncounted, copyVars, supervisorVars, hostVars, countVars
<1>2. ui.at = "kill" /\ quit' = "over" /\ procs' = Killed({ui.child, ui.preflight})
  BY DEF Kills
<1>3. ui' \in UIType /\ ui'.at = "gone" /\ ui'.child = 0
  BY DEF Kills, UIAt, UIType, Nobody
<1>4. DOMAIN procs' = DOMAIN procs /\ Len(procs') = Len(procs)
  BY <1>0, <1>2, KilledShape
<1>5. procs' \in Seq(ProcType)
  BY <1>0, <1>2, KilledShape
<1>6. \A e \in DOMAIN procs : procs'[e].exited = procs[e].exited /\ (procs'[e].alive =>
        procs[e].alive /\ e \notin {ui.child, ui.preflight})
  BY <1>0, <1>2, KilledShape
<1>7. HostTypeOK'
  BY <1>0, <1>1, <1>2, <1>3, <1>4, <1>5, <1>6 DEF HostTypeOK
<1>8. NamesInv'
  BY <1>0, <1>1, <1>3, <1>4 DEF NamesInv, Nobody
<1>9. ExitInv'
  <2>1. ASSUME NEW d \in DOMAIN boots, boots[d].at \in WithChild
        PROVE  boots[d].child \in DOMAIN procs /\ boots[d].child # Nobody /\
                procs[boots[d].child].exited = "unwatched"
    <3>1. boots[d].child # Nobody /\ procs[boots[d].child].exited = "unwatched"
      BY <1>0, <2>1 DEF ExitInv
    <3>2. QED
      BY <1>0, <3>1 DEF NamesInv, HostTypeOK, Nobody
  <2>2. ASSUME NEW e \in DOMAIN procs, procs'[e].exited \in {"verdict", "done"}
        PROVE  ~procs'[e].alive
    BY <1>0, <1>6, <2>2 DEF ExitInv
  <2>3. ASSUME NEW e \in DOMAIN procs, procs[e].exited = "unwatched"
        PROVE  procs'[e].exited = "unwatched"
    BY <1>2, <1>6, <2>3
  <2>4. QED
    BY <1>1, <1>4, <2>1, <2>2, <2>3 DEF ExitInv
<1>10. QuitInv'
  BY <1>0, <1>1, <1>2, <1>3, <1>4, <1>5, <1>6 DEF QuitInv
<1>11. PostsInv'
  BY <1>0, <1>1, <1>2, <1>3, <1>4, <1>5, <1>6 DEF PostsInv
<1>12. ASSUME crossed' = FALSE PROVE WorkInv' /\ LifeInv' /\ StateInv'
  <2>1. WorkInv /\ LifeInv /\ RecorderInv /\ RunningInv /\ PreparingInv /\ PendingInv /\ StopInv
    BY <1>12, <1>0, <1>1, <1>2, <1>3, <1>4, <1>5, <1>6 DEF HostInv, Orderly, StateInv
  <2>2. WorkInv'
    <3>1. ASSUME NEW d \in DOMAIN boots, ~Alive(boots[d].child)
          PROVE  ~Alive(boots[d].child)'
      <4>1. boots[d].child = Nobody \/ boots[d].child \in DOMAIN procs
        BY <1>0 DEF NamesInv, HostTypeOK, Nobody
      <4>2. QED
        BY <1>1, <1>6, <3>1, <4>1 DEF Alive
    <3>2. QED
      BY <1>0, <1>1, <1>2, <1>3, <1>4, <1>5, <1>6, <2>1, <3>1 DEF WorkInv, Working, Nobody
  <2>3. LifeInv'
    <3>1. ASSUME NEW d \in DOMAIN procs, procs'[d].alive
          PROVE  Alive(d) /\ d # ui.child
      BY <1>0, <1>6, <3>1 DEF Alive, HostTypeOK, Nobody
    <3>2. ASSUME NEW d \in DOMAIN procs, Alive(d), d # ui.child
          PROVE  d = recorder \/ \E e \in DOMAIN boots : HeldBy(e, d)
      BY <2>1, <3>2 DEF LifeInv
    <3>3. QED
      BY <1>1, <1>4, <3>1, <3>2 DEF LifeInv, HeldBy, Alive
  <2>4. RecorderInv'
    BY <1>0, <1>1, <1>2, <1>3, <1>4, <1>5, <1>6, <2>1 DEF RecorderInv
  <2>5. RunningInv'
    BY <1>0, <1>1, <1>2, <1>3, <1>4, <1>5, <1>6, <2>1 DEF RunningInv
  <2>6. PreparingInv'
    BY <1>0, <1>1, <1>2, <1>3, <1>4, <1>5, <1>6, <2>1 DEF PreparingInv
  <2>7. PendingInv'
    <3>1. \A d \in DOMAIN procs : Pending(d)' => Pending(d)
      BY <1>6 DEF Pending
    <3>2. QED
      BY <1>0, <1>1, <1>2, <1>3, <1>4, <1>5, <1>6, <2>1, <3>1 DEF PendingInv, Nobody
  <2>8. StopInv'
    BY <1>0, <1>1, <1>2, <1>3, <1>4, <1>5, <1>6, <2>1 DEF StopInv
  <2>9. QED
    BY <2>2, <2>3, <2>4, <2>5, <2>6, <2>7, <2>8 DEF StateInv
<1>13. QED
  BY <1>7, <1>8, <1>9, <1>10, <1>11, <1>12 DEF HostInv, Orderly

(* The kill of a Stop Recorder.                                            *)
LEMMA KillsKeeps ==
  ASSUME HostInv, Kills, quit # "going"
  PROVE  HostInv'
<1>0. HostTypeOK /\ NamesInv /\ ExitInv /\ QuitInv /\ PostsInv
  BY DEF HostInv
<1>1. UNCHANGED <<boots, stopping, recorder, preflight, menu, quit, crossed>>
  BY DEF Kills, Click, Uncounted, copyVars, supervisorVars, hostVars, countVars
<1>2. ui.at = "kill" /\ procs' = Killed({ui.child, ui.preflight})
  BY DEF Kills
<1>3. ui' \in UIType /\ ui'.at = "idle" /\ ui'.child = 0
  BY DEF Kills, UIAt, UIType, Nobody
<1>4. DOMAIN procs' = DOMAIN procs /\ Len(procs') = Len(procs)
  BY <1>0, <1>2, KilledShape
<1>5. procs' \in Seq(ProcType)
  BY <1>0, <1>2, KilledShape
<1>6. \A e \in DOMAIN procs : procs'[e].exited = procs[e].exited /\ (procs'[e].alive =>
        procs[e].alive /\ e \notin {ui.child, ui.preflight})
  BY <1>0, <1>2, KilledShape
<1>7. state' = "stopped" /\ posts' \in Seq(States) /\ posts' # <<>> /\
        posts'[Len(posts')] = "stopped"
  BY <1>0, ReportShape DEF Kills, States
<1>8. HostTypeOK'
  BY <1>0, <1>1, <1>2, <1>3, <1>4, <1>5, <1>6, <1>7 DEF HostTypeOK
<1>9. NamesInv'
  BY <1>0, <1>1, <1>3, <1>4 DEF NamesInv, Nobody
<1>10. ExitInv'
  <2>1. ASSUME NEW d \in DOMAIN boots, boots[d].at \in WithChild
        PROVE  boots[d].child \in DOMAIN procs /\ boots[d].child # Nobody /\
                procs[boots[d].child].exited = "unwatched"
    <3>1. boots[d].child # Nobody /\ procs[boots[d].child].exited = "unwatched"
      BY <1>0, <2>1 DEF ExitInv
    <3>2. QED
      BY <1>0, <3>1 DEF NamesInv, HostTypeOK, Nobody
  <2>2. ASSUME NEW e \in DOMAIN procs, procs'[e].exited \in {"verdict", "done"}
        PROVE  ~procs'[e].alive
    BY <1>0, <1>6, <2>2 DEF ExitInv
  <2>3. ASSUME NEW e \in DOMAIN procs, procs[e].exited = "unwatched"
        PROVE  procs'[e].exited = "unwatched"
    BY <1>2, <1>6, <2>3
  <2>4. QED
    BY <1>1, <1>4, <2>1, <2>2, <2>3 DEF ExitInv
<1>11. QuitInv'
  BY <1>0, <1>1, <1>2, <1>3, <1>4, <1>5, <1>6, <1>7 DEF QuitInv
<1>12. PostsInv'
  BY <1>0, <1>1, <1>2, <1>3, <1>4, <1>5, <1>6, <1>7 DEF PostsInv
<1>13. ASSUME crossed' = FALSE PROVE WorkInv' /\ LifeInv' /\ StateInv'
  <2>1. WorkInv /\ LifeInv /\ RecorderInv /\ RunningInv /\ PreparingInv /\ PendingInv /\ StopInv
    BY <1>13, <1>0, <1>1, <1>2, <1>3, <1>4, <1>5, <1>6, <1>7 DEF HostInv, Orderly, StateInv
  <2>2. WorkInv'
    BY <1>0, <1>1, <1>2, <1>3, <1>4, <1>5, <1>6, <1>7, <2>1 DEF QuitInv, Working, WorkInv
  <2>3. LifeInv'
    BY <1>0, <1>1, <1>2, <1>3, <1>4, <1>5, <1>6, <1>7, <2>1 DEF QuitInv, HeldBy, Alive, LifeInv
  <2>4. RecorderInv'
    BY <1>0, <1>1, <1>2, <1>3, <1>4, <1>5, <1>6, <1>7, <2>1 DEF QuitInv, RecorderInv
  <2>5. RunningInv'
    BY <1>0, <1>1, <1>2, <1>3, <1>4, <1>5, <1>6, <1>7, <2>1 DEF RunningInv
  <2>6. PreparingInv'
    BY <1>0, <1>1, <1>2, <1>3, <1>4, <1>5, <1>6, <1>7, <2>1 DEF PreparingInv
  <2>7. PendingInv'
    <3>1. \A d \in DOMAIN procs : ~Pending(d)
      BY <1>2, <2>1 DEF PendingInv
    <3>2. QED
      BY <1>4, <1>6, <3>1 DEF PendingInv, Pending
  <2>8. StopInv'
    BY <1>0, <1>1, <1>2, <1>3, <1>4, <1>5, <1>6, <1>7, <2>1 DEF StopInv
  <2>9. QED
    BY <2>2, <2>3, <2>4, <2>5, <2>6, <2>7, <2>8 DEF StateInv
<1>14. QED
  BY <1>8, <1>9, <1>10, <1>11, <1>12, <1>13 DEF HostInv, Orderly

(* Quit.                                                                   *)
LEMMA QuitKeeps ==
  ASSUME HostInv, Quit
  PROVE  HostInv'
<1>0. HostTypeOK /\ NamesInv /\ ExitInv /\ QuitInv /\ PostsInv
  BY DEF HostInv
<1>1. UNCHANGED <<boots, stopping, recorder, preflight, procs, ui, state, posts, menu, crossed>>
  BY DEF Quit, Click, Uncounted, copyVars, supervisorVars, hostVars, countVars
<1>2. quit = "no" /\ quit' = "probing" /\ ui.at = "idle"
  BY DEF Quit
<1>3. HostTypeOK'
  BY <1>0, <1>1, <1>2 DEF HostTypeOK
<1>4. NamesInv'
  BY <1>0, <1>1, <1>2 DEF NamesInv
<1>5. ExitInv'
  BY <1>0, <1>1, <1>2 DEF ExitInv
<1>6. QuitInv'
  BY <1>0, <1>1, <1>2 DEF QuitInv
<1>7. PostsInv'
  BY <1>0, <1>1, <1>2 DEF PostsInv
<1>8. ASSUME crossed' = FALSE PROVE WorkInv' /\ LifeInv' /\ StateInv'
  <2>1. WorkInv /\ LifeInv /\ RecorderInv /\ RunningInv /\ PreparingInv /\ PendingInv /\ StopInv
    BY <1>8, <1>0, <1>1, <1>2 DEF HostInv, Orderly, StateInv
  <2>2. WorkInv'
    BY <1>0, <1>1, <1>2, <2>1 DEF Working, Alive, WorkInv
  <2>3. LifeInv'
    BY <1>0, <1>1, <1>2, <2>1 DEF HeldBy, Alive, LifeInv
  <2>4. RecorderInv'
    BY <1>0, <1>1, <1>2, <2>1 DEF RecorderInv
  <2>5. RunningInv'
    BY <1>0, <1>1, <1>2, <2>1 DEF Pending, RunningInv
  <2>6. PreparingInv'
    BY <1>0, <1>1, <1>2, <2>1 DEF Working, PreparingInv
  <2>7. PendingInv'
    BY <1>0, <1>1, <1>2, <2>1 DEF Pending, PendingInv
  <2>8. StopInv'
    BY <1>0, <1>1, <1>2, <2>1 DEF StopInv
  <2>9. QED
    BY <2>2, <2>3, <2>4, <2>5, <2>6, <2>7, <2>8 DEF StateInv
<1>9. QED
  BY <1>3, <1>4, <1>5, <1>6, <1>7, <1>8 DEF HostInv, Orderly

(* The Recorder was asked.                                                 *)
LEMMA ProbedKeeps ==
  ASSUME HostInv, Probed
  PROVE  HostInv'
<1>0. HostTypeOK /\ NamesInv /\ ExitInv /\ QuitInv /\ PostsInv
  BY DEF HostInv
<1>1. UNCHANGED <<boots, stopping, recorder, preflight, procs, ui, state, posts, menu, crossed>>
  BY DEF Probed, Click, Uncounted, copyVars, supervisorVars, hostVars, countVars
<1>2. quit = "probing" /\ quit' \in {"asking", "leaving"}
  BY DEF Probed
<1>3. HostTypeOK'
  BY <1>0, <1>1, <1>2 DEF HostTypeOK
<1>4. NamesInv'
  BY <1>0, <1>1, <1>2 DEF NamesInv
<1>5. ExitInv'
  BY <1>0, <1>1, <1>2 DEF ExitInv
<1>6. QuitInv'
  BY <1>0, <1>1, <1>2 DEF QuitInv
<1>7. PostsInv'
  BY <1>0, <1>1, <1>2 DEF PostsInv
<1>8. ASSUME crossed' = FALSE PROVE WorkInv' /\ LifeInv' /\ StateInv'
  <2>1. WorkInv /\ LifeInv /\ RecorderInv /\ RunningInv /\ PreparingInv /\ PendingInv /\ StopInv
    BY <1>8, <1>0, <1>1, <1>2 DEF HostInv, Orderly, StateInv
  <2>2. WorkInv'
    BY <1>0, <1>1, <1>2, <2>1 DEF Working, Alive, WorkInv
  <2>3. LifeInv'
    BY <1>0, <1>1, <1>2, <2>1 DEF HeldBy, Alive, LifeInv
  <2>4. RecorderInv'
    BY <1>0, <1>1, <1>2, <2>1 DEF RecorderInv
  <2>5. RunningInv'
    BY <1>0, <1>1, <1>2, <2>1 DEF Pending, RunningInv
  <2>6. PreparingInv'
    BY <1>0, <1>1, <1>2, <2>1 DEF Working, PreparingInv
  <2>7. PendingInv'
    BY <1>0, <1>1, <1>2, <2>1 DEF Pending, PendingInv
  <2>8. StopInv'
    BY <1>0, <1>1, <1>2, <2>1 DEF Working, StopInv
  <2>9. QED
    BY <2>2, <2>3, <2>4, <2>5, <2>6, <2>7, <2>8 DEF StateInv
<1>9. QED
  BY <1>3, <1>4, <1>5, <1>6, <1>7, <1>8 DEF HostInv, Orderly

(* The operator leaves.                                                    *)
LEMMA AnsweredGoKeeps ==
  ASSUME HostInv, Answered, quit' = "going"
  PROVE  HostInv'
<1>0. HostTypeOK /\ NamesInv /\ ExitInv /\ QuitInv /\ PostsInv
  BY DEF HostInv
<1>1. UNCHANGED <<boots, stopping, recorder, preflight, procs, state, posts, menu, crossed>>
  BY DEF Answered, Click, Uncounted, copyVars, supervisorVars, hostVars, countVars
<1>2. ui.at = "idle" /\ quit \in {"asking", "leaving"} /\ ui' \in UIType /\ ui'.at = "stop" /\
        ui'.child = 0
  BY DEF Answered, UIAt, UIType, Nobody
<1>3. HostTypeOK'
  BY <1>0, <1>1, <1>2 DEF HostTypeOK
<1>4. NamesInv'
  BY <1>0, <1>1, <1>2 DEF NamesInv
<1>5. ExitInv'
  BY <1>0, <1>1, <1>2 DEF ExitInv
<1>6. QuitInv'
  BY <1>0, <1>1, <1>2 DEF QuitInv
<1>7. PostsInv'
  BY <1>0, <1>1, <1>2 DEF PostsInv
<1>8. ASSUME crossed' = FALSE PROVE WorkInv' /\ LifeInv' /\ StateInv'
  <2>1. WorkInv /\ LifeInv /\ RecorderInv /\ RunningInv /\ PreparingInv /\ PendingInv /\ StopInv
    BY <1>8, <1>0, <1>1, <1>2 DEF HostInv, Orderly, StateInv
  <2>2. WorkInv'
    BY <1>0, <1>1, <1>2, <2>1 DEF Working, Alive, WorkInv
  <2>3. LifeInv'
    BY <1>0, <1>1, <1>2, <2>1 DEF HeldBy, Alive, LifeInv
  <2>4. RecorderInv'
    BY <1>0, <1>1, <1>2, <2>1 DEF RecorderInv
  <2>5. RunningInv'
    BY <1>0, <1>1, <1>2, <2>1 DEF Pending, RunningInv
  <2>6. PreparingInv'
    BY <1>0, <1>1, <1>2, <2>1 DEF Working, PreparingInv
  <2>7. PendingInv'
    BY <1>0, <1>1, <1>2, <2>1 DEF Pending, PendingInv
  <2>8. StopInv'
    BY <1>0, <1>1, <1>2, <2>1 DEF StopInv
  <2>9. QED
    BY <2>2, <2>3, <2>4, <2>5, <2>6, <2>7, <2>8 DEF StateInv
<1>9. QED
  BY <1>3, <1>4, <1>5, <1>6, <1>7, <1>8 DEF HostInv, Orderly

(* The operator stays.                                                     *)
LEMMA AnsweredNoKeeps ==
  ASSUME HostInv, Answered, quit' # "going"
  PROVE  HostInv'
<1>0. HostTypeOK /\ NamesInv /\ ExitInv /\ QuitInv /\ PostsInv
  BY DEF HostInv
<1>1. UNCHANGED <<boots, stopping, recorder, preflight, procs, ui, state, posts, menu, crossed>>
  BY DEF Answered, Click, Uncounted, copyVars, supervisorVars, hostVars, countVars
<1>2. ui.at = "idle" /\ quit = "asking" /\ quit' = "no"
  BY DEF Answered
<1>3. HostTypeOK'
  BY <1>0, <1>1, <1>2 DEF HostTypeOK
<1>4. NamesInv'
  BY <1>0, <1>1, <1>2 DEF NamesInv
<1>5. ExitInv'
  BY <1>0, <1>1, <1>2 DEF ExitInv
<1>6. QuitInv'
  BY <1>0, <1>1, <1>2 DEF QuitInv
<1>7. PostsInv'
  BY <1>0, <1>1, <1>2 DEF PostsInv
<1>8. ASSUME crossed' = FALSE PROVE WorkInv' /\ LifeInv' /\ StateInv'
  <2>1. WorkInv /\ LifeInv /\ RecorderInv /\ RunningInv /\ PreparingInv /\ PendingInv /\ StopInv
    BY <1>8, <1>0, <1>1, <1>2 DEF HostInv, Orderly, StateInv
  <2>2. WorkInv'
    BY <1>0, <1>1, <1>2, <2>1 DEF Working, Alive, WorkInv
  <2>3. LifeInv'
    BY <1>0, <1>1, <1>2, <2>1 DEF HeldBy, Alive, LifeInv
  <2>4. RecorderInv'
    BY <1>0, <1>1, <1>2, <2>1 DEF RecorderInv
  <2>5. RunningInv'
    BY <1>0, <1>1, <1>2, <2>1 DEF Pending, RunningInv
  <2>6. PreparingInv'
    BY <1>0, <1>1, <1>2, <2>1 DEF Working, PreparingInv
  <2>7. PendingInv'
    BY <1>0, <1>1, <1>2, <2>1 DEF Pending, PendingInv
  <2>8. StopInv'
    BY <1>0, <1>1, <1>2, <2>1 DEF StopInv
  <2>9. QED
    BY <2>2, <2>3, <2>4, <2>5, <2>6, <2>7, <2>8 DEF StateInv
<1>9. QED
  BY <1>3, <1>4, <1>5, <1>6, <1>7, <1>8 DEF HostInv, Orderly

(* A report is shown.                                                      *)
LEMMA ShowsKeeps ==
  ASSUME HostInv, NEW n \in DOMAIN posts, Shows(n)
  PROVE  HostInv'
<1>0. HostTypeOK /\ NamesInv /\ ExitInv /\ QuitInv /\ PostsInv
  BY DEF HostInv
<1>1. UNCHANGED <<boots, stopping, recorder, preflight, procs, ui, state, quit, crossed>>
  BY DEF Shows, Click, Uncounted, copyVars, supervisorVars, hostVars, countVars
<1>2. PICK l \in Nat : l = Len(posts) /\ n \in 1..l
  BY <1>0 DEF HostTypeOK
<1>3. ui.at = "idle" /\ menu' = posts[n] /\ posts[n] \in States /\ posts' = SubSeq(posts,
        n + 1, l)
  BY <1>0, <1>2 DEF Shows, HostTypeOK
<1>4. posts' \in Seq(States) /\ Len(posts') = l - n
  BY <1>0, <1>2, <1>3 DEF HostTypeOK
<1>5. n < l => posts' # <<>> /\ posts'[Len(posts')] = posts[l]
  BY <1>0, <1>2, <1>3, <1>4 DEF HostTypeOK
<1>6. n = l => posts' = <<>>
  BY <1>2, <1>4
<1>7. HostTypeOK'
  BY <1>0, <1>1, <1>2, <1>3, <1>4, <1>5, <1>6 DEF HostTypeOK
<1>8. NamesInv'
  BY <1>0, <1>1, <1>2, <1>3, <1>4, <1>5, <1>6 DEF NamesInv
<1>9. ExitInv'
  BY <1>0, <1>1, <1>2, <1>3, <1>4, <1>5, <1>6 DEF ExitInv
<1>10. QuitInv'
  BY <1>0, <1>1, <1>2, <1>3, <1>4, <1>5, <1>6 DEF QuitInv
<1>11. PostsInv'
  BY <1>0, <1>1, <1>2, <1>3, <1>4, <1>5, <1>6 DEF PostsInv
<1>12. ASSUME crossed' = FALSE PROVE WorkInv' /\ LifeInv' /\ StateInv'
  <2>1. WorkInv /\ LifeInv /\ RecorderInv /\ RunningInv /\ PreparingInv /\ PendingInv /\ StopInv
    BY <1>12, <1>0, <1>1, <1>2, <1>3, <1>4, <1>5, <1>6 DEF HostInv, Orderly, StateInv
  <2>2. WorkInv'
    BY <1>0, <1>1, <1>2, <1>3, <1>4, <1>5, <1>6, <2>1 DEF Working, Alive, WorkInv
  <2>3. LifeInv'
    BY <1>0, <1>1, <1>2, <1>3, <1>4, <1>5, <1>6, <2>1 DEF HeldBy, Alive, LifeInv
  <2>4. RecorderInv'
    BY <1>0, <1>1, <1>2, <1>3, <1>4, <1>5, <1>6, <2>1 DEF RecorderInv
  <2>5. RunningInv'
    BY <1>0, <1>1, <1>2, <1>3, <1>4, <1>5, <1>6, <2>1 DEF Pending, RunningInv
  <2>6. PreparingInv'
    BY <1>0, <1>1, <1>2, <1>3, <1>4, <1>5, <1>6, <2>1 DEF Working, PreparingInv
  <2>7. PendingInv'
    BY <1>0, <1>1, <1>2, <1>3, <1>4, <1>5, <1>6, <2>1 DEF Pending, PendingInv
  <2>8. StopInv'
    BY <1>0, <1>1, <1>2, <1>3, <1>4, <1>5, <1>6, <2>1 DEF StopInv
  <2>9. QED
    BY <2>2, <2>3, <2>4, <2>5, <2>6, <2>7, <2>8 DEF StateInv
<1>13. QED
  BY <1>7, <1>8, <1>9, <1>10, <1>11, <1>12 DEF HostInv, Orderly

(* A boot begins: those that are over are forgotten.                       *)
LEMMA BeginsShape ==
  ASSUME HostTypeOK, Begins
  PROVE  \E b :
           /\ boots' \in [DOMAIN boots' -> BootType]
           /\ b \in DOMAIN boots' /\ boots'[b].at = "ensure" /\ boots'[b].child = 0
           /\ \A d \in DOMAIN boots' : d # b => d \in DOMAIN boots /\ boots'[d] = boots[d]
           /\ \A d \in DOMAIN boots : boots[d].at # "over" => d # b /\ d \in DOMAIN boots'
<1> DEFINE going == {d \in DOMAIN boots : boots[d].at # "over"}
           new == [at |-> "ensure", child |-> Nobody, outcome |-> "none"]
<1>1. PICK b \in (1..Cardinality(going) + 1) \ going : boots' = Put(Keep(boots, going), b, new)
  BY Zenon DEF Begins
<1>2. boots' = [y \in (DOMAIN boots \cap going) \cup {b} |-> IF y = b THEN new ELSE [z \in DOMAIN boots \cap going |-> boots[z]][y]]
  BY <1>1 DEF Put, Keep
<1>3. DOMAIN boots \cap going = going /\ b \notin going
  BY <1>1
<1>4. new \in BootType /\ new.at = "ensure" /\ new.child = 0
  BY DEF BootType, Stages, Nobody
<1>5. \A d \in going : d \in DOMAIN boots /\ boots[d] \in BootType
  BY DEF HostTypeOK
<1> HIDE DEF new
<1>6. boots' = [y \in going \cup {b} |-> IF y = b THEN new ELSE boots[y]]
  BY <1>2, <1>3
<1>7. \A d \in DOMAIN boots : boots[d].at # "over" => d \in going
  OBVIOUS
<1> HIDE DEF going
<1>8. DOMAIN boots' = going \cup {b} /\ boots'[b] = new /\ \A d \in going : boots'[d] = boots[d]
  BY <1>3, <1>6
<1>9. boots' \in [DOMAIN boots' -> BootType]
  BY <1>4, <1>5, <1>6
<1>10. QED
  BY <1>3, <1>4, <1>5, <1>7, <1>8, <1>9

(* Start begins a boot.                                                    *)
LEMMA StartKeeps ==
  ASSUME HostInv, Start, UNCHANGED crossed
  PROVE  HostInv'
<1>0. HostTypeOK /\ NamesInv /\ ExitInv /\ QuitInv /\ PostsInv
  BY DEF HostInv
<1>1. UNCHANGED <<recorder, preflight, procs, state, posts, menu, quit, crossed>>
  BY DEF Start, copyVars, supervisorVars, hostVars, countVars
<1>2. ui.at = "start" /\ stopping' = FALSE /\ ui' \in UIType /\ ui'.at = "idle" /\ ui'.child = 0
  BY DEF Start, UIAt, UIType, Nobody
<1>3. PICK b :
           /\ boots' \in [DOMAIN boots' -> BootType]
           /\ b \in DOMAIN boots' /\ boots'[b].at = "ensure" /\ boots'[b].child = 0
           /\ \A d \in DOMAIN boots' : d # b => d \in DOMAIN boots /\ boots'[d] = boots[d]
           /\ \A d \in DOMAIN boots : boots[d].at # "over" => d # b /\ d \in DOMAIN boots'
  BY <1>0, BeginsShape DEF Start
<1>4. HostTypeOK'
  BY <1>0, <1>1, <1>2, <1>3 DEF HostTypeOK
<1>5. NamesInv'
  <2>1. \A d \in DOMAIN boots' : d = b \/ (d \in DOMAIN boots /\ boots'[d] = boots[d])
    BY <1>3
  <2>2. QED
    BY <1>0, <1>1, <1>2, <1>3, <2>1 DEF NamesInv, Nobody, HostTypeOK
<1>6. ExitInv'
  <2>1. ASSUME NEW d \in DOMAIN boots', boots'[d].at \in WithChild
        PROVE  d \in DOMAIN boots /\ boots'[d] = boots[d]
    BY <1>3, <2>1 DEF WithChild
  <2>2. QED
    BY <1>0, <1>1, <2>1 DEF ExitInv
<1>7. QuitInv'
  BY <1>0, <1>1, <1>2, <1>3 DEF QuitInv
<1>8. PostsInv'
  BY <1>0, <1>1, <1>2, <1>3 DEF PostsInv
<1>9. ASSUME crossed' = FALSE PROVE WorkInv' /\ LifeInv' /\ StateInv'
  <2>1. WorkInv /\ LifeInv /\ RecorderInv /\ RunningInv /\ PreparingInv /\ PendingInv /\ StopInv
    BY <1>9, <1>0, <1>1, <1>2, <1>3 DEF HostInv, Orderly, StateInv
  <2>2. WorkInv'
    <3>1. \A d \in DOMAIN boots : ~Working(d)
      BY <1>2, <2>1 DEF WorkInv
    <3>2. state = "preflight" /\ recorder = Nobody
      BY <1>2, <2>1 DEF StopInv
    <3>3. \A d \in DOMAIN boots' : Working(d)' => d = b
      BY <1>3, <3>1 DEF Working
    <3>4. QED
      BY <1>1, <1>2, <1>3, <3>2, <3>3 DEF WorkInv, Working
  <2>3. LifeInv'
    <3>1. \A d \in DOMAIN boots : \A c : ~HeldBy(d, c)
      BY <1>2, <2>1 DEF WorkInv, HeldBy, Working
    <3>2. recorder = Nobody
      BY <1>2, <2>1 DEF StopInv
    <3>3. \A c \in DOMAIN procs : ~Alive(c)
      BY <1>2, <2>1, <3>1, <3>2 DEF LifeInv, Alive
    <3>4. QED
      BY <1>1, <3>3 DEF LifeInv, Alive
  <2>4. RecorderInv'
    BY <1>1, <1>2, <2>1 DEF StopInv, RecorderInv
  <2>5. RunningInv'
    BY <1>1, <1>2, <2>1 DEF StopInv, RunningInv
  <2>6. PreparingInv'
    BY <1>1, <1>3 DEF PreparingInv, Working
  <2>7. PendingInv'
    <3>1. state # "running"
      BY <1>2, <2>1 DEF StopInv
    <3>2. \A d \in DOMAIN procs : ~Pending(d)
      BY <2>1, <3>1 DEF PendingInv
    <3>3. QED
      BY <1>1, <3>2 DEF PendingInv, Pending
  <2>8. StopInv'
    BY <1>2 DEF StopInv
  <2>9. QED
    BY <2>2, <2>3, <2>4, <2>5, <2>6, <2>7, <2>8 DEF StateInv
<1>10. QED
  BY <1>4, <1>5, <1>6, <1>7, <1>8, <1>9 DEF HostInv, Orderly

(* A tray that was just launched.                                          *)
LEMMA FreshHost == Fresh /\ boots = <<>> => HostInv
<1>1. SUFFICES ASSUME Fresh, boots = <<>> PROVE HostInv
  OBVIOUS
<1>2. DOMAIN boots = {} /\ procs = <<>> /\ DOMAIN procs = {} /\ Len(procs) = 0
  BY <1>1 DEF Fresh
<1>3. /\ stopping = FALSE /\ recorder = 0 /\ preflight = 0 /\ state = "stopped" /\
        posts = <<>> /\ menu = "none"
      /\ quit = "no" /\ crossed = FALSE /\ ui.at = "startup" /\ ui.child = 0 /\ ui \in UIType
  BY <1>1 DEF Fresh, UIAt, UIType, Nobody
<1>4. HostTypeOK
  <2>1. <<>> \in Seq(ProcType) /\ <<>> \in Seq(States)
    OBVIOUS
  <2>2. boots \in [DOMAIN boots -> BootType]
    BY <1>1, <1>2
  <2>3. QED
    BY <1>2, <1>3, <2>1, <2>2 DEF HostTypeOK, States
<1>5. NamesInv /\ ExitInv /\ QuitInv /\ PostsInv
  BY <1>2, <1>3 DEF NamesInv, ExitInv, QuitInv, PostsInv, Nobody
<1>6. WorkInv /\ LifeInv /\ StateInv
  BY <1>2, <1>3 DEF WorkInv, LifeInv, StateInv, RecorderInv, RunningInv, PreparingInv,
    PendingInv, StopInv, Nobody
<1>7. QED
  BY <1>4, <1>5, <1>6 DEF HostInv, Orderly

(* A boot's step.                                                          *)
LEMMA BootKeeps ==
  ASSUME HostInv, NEW b \in DOMAIN boots, BootStep(b), UNCHANGED crossed
  PROVE  HostInv'
<1>0. HostTypeOK
  BY DEF HostInv
<1>1. CASE CopyStep(b) /\ UNCHANGED <<supervisorVars, hostVars>>
  <2>1. UNCHANGED <<stopping, recorder, preflight, procs, ui, state, posts, menu, quit,
          crossed>>
    BY <1>1 DEF supervisorVars, hostVars
  <2>2. boots[b].at \in {"ensure", "clear", "copy", "move", "tidy", "notice", "resolve"}
    BY <1>1 DEF CopyStep, Ensure, Clear, Copy, Move, Tidy, Notice, Resolve, Goes
  <2>3. CASE Ensure(b)
    <3>1. boots[b] \in BootType /\ boots \in [DOMAIN boots -> BootType]
      BY <1>0 DEF HostTypeOK
    <3>2. PICK to \in {"resolve", "tidy", "clear"}, o \in {"none", "current", "repaired",
            "upgraded", "fresh"} :
            boots' = [boots EXCEPT ![b] = [boots[b] EXCEPT !.at = to, !.outcome = o]]
      <4>1. Outcome \in {"repaired", "upgraded", "fresh"}
        BY DEF Outcome
      <4>2. PICK to \in {"resolve", "tidy",
              "clear"} : to = IF ~copied THEN "resolve" ELSE IF IsIntact THEN "tidy" ELSE "clear"
        OBVIOUS
      <4>3. PICK o \in {"none", "current", "repaired", "upgraded",
              "fresh"} : o = IF ~copied \/ IsIntact THEN "current" ELSE Outcome
        BY <4>1
      <4>4. boots' = [boots EXCEPT ![b].at = to, ![b].outcome = o]
        BY <2>3, <4>2, <4>3 DEF Ensure
      <4>5. QED
        BY <3>1, <4>4
    <3>3. [boots[b] EXCEPT !.at = to, !.outcome = o] \in BootType
      BY <3>1, <3>2 DEF BootType, Stages
    <3>4. Moves(b, to)
      BY <3>1, <3>2, <3>3 DEF Moves, BootType
    <3>5. to \in Stages /\ to \notin {"claim", "wait", "publish", "drop", "running", "watch",
            "look", "launch", "over"}
      BY DEF Stages
    <3>6. QED
      BY <2>1, <2>2, <3>4, <3>5, QuietKeeps
  <2>4. CASE ~Ensure(b)
    <3>1. \E to \in {"copy", "fail", "move", "tidy", "notice", "resolve", "report"} : Goes(b,
            boots[b].at, to)
      BY <1>1, <2>4 DEF CopyStep, Clear, Copy, Move, Tidy, Notice, Resolve, Goes
    <3>2. PICK to \in {"copy", "fail", "move", "tidy", "notice", "resolve", "report"} : Goes(b,
            boots[b].at, to)
      BY <3>1
    <3>3. to \in Stages /\ to \notin {"claim", "wait", "publish", "drop", "running", "watch",
            "look", "launch", "over"}
      BY DEF Stages
    <3>4. Moves(b, to)
      BY <1>0, <3>2, <3>3, GoesMoves
    <3>5. QED
      BY <2>1, <2>2, <3>3, <3>4, QuietKeeps
  <2>5. QED
    BY <2>3, <2>4
<1>2. ASSUME Spawns(b, "spawn", "claim") \/ Spawns(b, "launch", "publish")
      PROVE  HostInv'
  <2>1. UNCHANGED <<stopping, recorder, preflight, ui, state, posts, menu, quit, crossed>> /\
          boots[b].at \in {"spawn", "launch"}
    BY <1>2 DEF Spawns, hostVars
  <2>2. CASE procs' = Spawned /\ \E to \in {"claim",
          "publish"} : boots' = [boots EXCEPT ![b].at = to, ![b].child = Len(procs) + 1]
    <3>1. PICK to \in {"claim", "publish"} : boots' = [boots EXCEPT ![b].at = to,
            ![b].child = Len(procs) + 1]
      BY <2>2
    <3>2. to \in Stages
      BY DEF Stages
    <3>3. Hatches(b, to)
      BY <1>0, <3>1, <3>2, SpawnHatches
    <3>4. QED
      BY <2>1, <2>2, <3>3, SpawnKeeps
  <2>3. CASE boots' = [boots EXCEPT ![b].at = "fail"] /\ UNCHANGED procs
    <3>1. Goes(b, boots[b].at, "fail") /\ "fail" \in Stages
      BY <2>3 DEF Goes, Stages
    <3>2. Moves(b, "fail")
      BY <1>0, <3>1, GoesMoves
    <3>3. QED
      BY <2>1, <2>3, <3>1, <3>2, QuietKeeps
  <2>4. QED
    BY <1>2, <2>2, <2>3 DEF Spawns
<1>3. CASE ClaimsPreflight(b)
  BY <1>0, <1>3, ClaimKeeps, ClaimDropKeeps DEF HostTypeOK
<1>4. CASE Publishes(b)
  BY <1>0, <1>4, PublishKeeps, PublishDropKeeps DEF HostTypeOK
<1>5. CASE Looks(b)
  <2>1. UNCHANGED <<stopping, recorder, preflight, procs, ui, state, posts, menu, quit,
          crossed>>
    BY <1>5 DEF Looks, supervisorVars, hostVars
  <2>2. CASE stopping = TRUE
    <3>1. Goes(b, "look", "over") /\ "over" \in Stages
      BY <1>5, <2>2 DEF Looks, Stages
    <3>2. boots[b].at = "look" /\ Moves(b, "over")
      BY <1>0, <3>1, GoesMoves
    <3>3. QED
      BY <2>1, <2>2, <3>2, EndsKeep
  <2>3. CASE stopping = FALSE
    <3>1. Goes(b, "look", "launch") /\ "launch" \in Stages
      BY <1>5, <2>3 DEF Looks, Stages
    <3>2. boots[b].at = "look" /\ Moves(b, "launch")
      BY <1>0, <3>1, GoesMoves
    <3>3. QED
      BY <2>1, <3>2, LaunchKeeps
  <2>4. QED
    BY <1>0, <2>2, <2>3 DEF HostTypeOK
<1>6. CASE Fails(b)
  <2>1. UNCHANGED <<stopping, recorder, preflight, procs, ui, state, posts, menu, quit,
          crossed>>
    BY <1>6 DEF Fails, supervisorVars, hostVars
  <2>2. CASE stopping = TRUE
    <3>1. Goes(b, "fail", "over") /\ "over" \in Stages
      BY <1>6, <2>2 DEF Fails, Stages
    <3>2. boots[b].at = "fail" /\ Moves(b, "over")
      BY <1>0, <3>1, GoesMoves
    <3>3. QED
      BY <2>1, <2>2, <3>2, EndsKeep
  <2>3. CASE stopping = FALSE
    <3>1. Goes(b, "fail", "failed") /\ "failed" \in Stages
      BY <1>6, <2>3 DEF Fails, Stages
    <3>2. boots[b].at = "fail" /\ Moves(b, "failed")
      BY <1>0, <3>1, GoesMoves
    <3>3. QED
      BY <2>1, <3>1, <3>2, QuietKeeps
  <2>4. QED
    BY <1>0, <2>2, <2>3 DEF HostTypeOK
<1>7. QED
  BY <1>1, <1>2, <1>3, <1>4, <1>5, <1>6, AnnouncesKeeps, PreflightEndsKeeps, DropsKeeps,
    SaysRunningKeeps, WatchesKeeps, SaysFailedKeeps
  DEF BootStep

(* What happens to a process.                                              *)
LEMMA ProcessKeeps ==
  ASSUME HostInv, NEW c \in DOMAIN procs, Dies(c) \/ Exits(c) \/ Verdict(c), UNCHANGED crossed
  PROVE  HostInv'
<1>1. CASE Exits(c)
  BY <1>1, ExitsMineKeeps, ExitsOtherKeeps
<1>2. CASE Verdict(c)
  <2>1. PICK s \in {"stopped", "unmanaged"} : Report(s)
    BY <1>2 DEF Verdict
  <2>2. QED
    BY <1>2, <2>1, VerdictKeeps
<1>3. QED
  BY <1>1, <1>2, DiesKeeps

(* The UI thread.                                                          *)
LEMMA UIKeeps ==
  ASSUME HostInv, UIStep \/ StartRecorder \/ StopRecorder \/ Quit \/ Probed
  PROVE  HostInv'
<1>1. CASE Kills
  BY <1>1, KillsQuitKeeps, KillsKeeps
<1>2. CASE Answered
  BY <1>2, AnsweredGoKeeps, AnsweredNoKeeps
<1>3. CASE Start
  <2>1. UNCHANGED crossed
    BY <1>3 DEF Start, Uncounted, countVars
  <2>2. QED
    BY <1>3, <2>1, StartKeeps
<1>4. QED
  BY <1>1, <1>2, <1>3, StartingKeeps, StopKeeps, ShowsKeeps, StartRecorderKeeps,
    StopRecorderKeeps, QuitKeeps, ProbedKeeps DEF UIStep

(* The host's invariant is kept.                                           *)
LEMMA HostKeeps == HostInv /\ [BundleNext]_bundleVars => HostInv'
<1>1. SUFFICES ASSUME HostInv, [BundleNext]_bundleVars PROVE HostInv'
  OBVIOUS
<1>2. ASSUME NEW b \in DOMAIN boots, BootStep(b), Uncounted PROVE HostInv'
  BY <1>1, <1>2, BootKeeps DEF Uncounted, countVars
<1>3. ASSUME NEW c \in DOMAIN procs, Dies(c) \/ Exits(c) \/ Verdict(c), Uncounted PROVE HostInv'
  BY <1>1, <1>3, ProcessKeeps DEF Uncounted, countVars
<1>4. CASE Launch
  <2>1. Fresh' /\ boots' = <<>>
    BY <1>4 DEF Launch, Fresh, UIAt, Nobody
  <2>2. (Fresh /\ boots = <<>> => HostInv)'
    BY FreshHost, PTL
  <2>3. QED
    BY <2>1, <2>2
<1>5. ASSUME UNCHANGED <<boots, stopping, recorder, preflight, procs, ui, state, posts, menu,
        quit, crossed>> PROVE HostInv'
  BY <1>1, <1>5 DEF HostInv, HostTypeOK, NamesInv, ExitInv, QuitInv, PostsInv, Orderly,
    WorkInv, LifeInv, StateInv,
    RecorderInv, RunningInv, PreparingInv, PendingInv, StopInv, Working, Pending, HeldBy, Alive
<1>6. CASE Tampers \/ UNCHANGED bundleVars
  <2>1. UNCHANGED <<boots, stopping, recorder, preflight, procs, ui, state, posts, menu, quit,
          crossed>>
    BY <1>6 DEF Tampers, Install, Damage, bundleVars, copyVars, supervisorVars, hostVars,
      countVars
  <2>2. QED
    BY <1>5, <2>1
<1>7. QED
  BY <1>1, <1>2, <1>3, <1>4, <1>6, UIKeeps DEF BundleNext

(* The tray's invariant, crossed stops or not.                             *)
LEMMA HostInvariance == BundleSpec => []HostInv
<1>1. BundleInit => HostInv
  BY FreshHost DEF BundleInit, CopyInit
<1>2. QED
  BY <1>1, HostKeeps, PTL DEF BundleSpec

(* What is held by a boot, the host or a kill is in reach, and there is    *)
(* one.                                                                    *)
LEMMA NoOrphanFollows == HostInv => NoOrphan
<1>1. SUFFICES ASSUME HostInv, ~crossed PROVE
        /\ \A c \in DOMAIN procs : Alive(c) => InReach(c)
        /\ \A c, d \in DOMAIN procs : Alive(c) /\ Alive(d) => c = d
        /\ quit = "over" => recorder = Nobody
  BY DEF NoOrphan
<1>2. WorkInv /\ LifeInv /\ QuitInv /\ HostTypeOK /\ NamesInv
  BY <1>1 DEF HostInv, Orderly, HostTypeOK
<1>3. \A c \in DOMAIN procs : Alive(c) => InReach(c)
  BY <1>2 DEF LifeInv, InReach
<1>4. quit = "over" => recorder = Nobody
  BY <1>2 DEF QuitInv
<1>5. ASSUME NEW c \in DOMAIN procs, NEW d \in DOMAIN procs, Alive(c), Alive(d)
      PROVE  c = d
  <2>1. ASSUME NEW b \in DOMAIN boots, NEW p, HeldBy(b, p)
        PROVE  Working(b) /\ recorder = Nobody /\ (ui.at = "kill" => ui.child = Nobody) /\
                p = boots[b].child
    BY <1>2, <2>1 DEF WorkInv, Working, HeldBy
  <2>2. ASSUME NEW b \in DOMAIN boots, NEW e \in DOMAIN boots, Working(b), Working(e)
        PROVE  b = e
    BY <1>2, <2>2 DEF WorkInv
  <2>3. c # Nobody /\ d # Nobody
    BY <1>5 DEF Alive
  <2>4. ui.at = "kill" => recorder = Nobody
    BY <1>2 DEF QuitInv
  <2>5. QED
    BY <1>2, <1>5, <2>1, <2>2, <2>3, <2>4 DEF LifeInv
<1>6. QED
  BY <1>3, <1>4, <1>5

(* A settled tray shows its state, and the state is so.                    *)
LEMMA MenuFollows == HostInv => HostMenuIsTrue
<1>1. SUFFICES ASSUME HostInv, ~crossed, Settled
      PROVE  menu = state /\ (state = "running" <=> recorder # Nobody) /\ state # "preflight"
  BY DEF HostMenuIsTrue
<1>2. HostTypeOK /\ ExitInv /\ QuitInv /\ PostsInv /\ WorkInv /\ RecorderInv /\ RunningInv /\
        PreparingInv
  BY <1>1 DEF HostInv, Orderly, HostTypeOK, StateInv
<1>3. ui.at = "idle" /\ posts = <<>> /\ \A b \in DOMAIN boots : boots[b].at = "over"
  BY <1>1 DEF Settled
<1>4. menu = state
  BY <1>2, <1>3 DEF PostsInv
<1>5. \A c \in DOMAIN procs : ~Pending(c)
  BY <1>1, <1>2 DEF Settled, Pending, ExitInv, Alive
<1>6. quit # "over" /\ quit # "going"
  BY <1>2, <1>3 DEF QuitInv
<1>7. state = "running" <=> recorder # Nobody
  BY <1>2, <1>3, <1>5, <1>6 DEF RecorderInv, RunningInv
<1>8. state # "preflight"
  BY <1>2, <1>3, <1>6 DEF PreparingInv, Working
<1>9. QED
  BY <1>4, <1>7, <1>8

(* For any releases, clicks, launches and installs: a child that lives can *)
(* be stopped and there is one at a time, until a Stop Recorder crosses an *)
(* exit (NoOrphan).                                                        *)
THEOREM NobodyOrphaned == BundleSpec => []NoOrphan
  BY HostInvariance, NoOrphanFollows, PTL

(* And the menu of a tray with nothing in flight tells what is so.         *)
THEOREM HostMenuTells == BundleSpec => []HostMenuIsTrue
  BY HostInvariance, MenuFollows, PTL

-----------------------------------------------------------------------------
(* The runtimes on disk.                                                   *)
DiskTypeOK ==
  /\ copied \in BOOLEAN /\ version \in Versions
  /\ DOMAIN runtime \subseteq Versions /\ runtime \in [DOMAIN runtime -> SUBSET Parts]
  /\ partial \subseteq Versions /\ half \subseteq Versions

(* What looks intact is, unless a tidy-up has begun on it.                 *)
IntactInv ==
  \A v \in DOMAIN runtime \ half : {"python", "wheel"} \subseteq runtime[v] =>
          Payload \subseteq runtime[v]

(* A boot makes a copy because there is no intact one, and goes on with    *)
(* one that is.                                                            *)
Broken == {"clear", "copy", "move"}
Sound == {"tidy", "notice", "resolve"}
StagesInv ==
  \A b \in DOMAIN boots : (boots[b].at \in Broken => ~IsIntact) /\ (boots[b].at \in Sound =>
          IsIntact)
CopyInv == copied => IntactInv /\ StagesInv

(* Nothing on disk changes, and no boot comes to a stage of the copy.      *)
LEMMA CopyFrame ==
  ASSUME DiskTypeOK, CopyInv, UNCHANGED diskVars,
         \A b \in DOMAIN boots' : boots'[b].at \in Broken \cup Sound => b \in DOMAIN boots /\
                 boots'[b].at = boots[b].at
  PROVE  DiskTypeOK' /\ CopyInv'
<1>1. UNCHANGED <<copied, version, runtime, partial, half>>
  BY DEF diskVars
<1>2. DiskTypeOK'
  BY <1>1 DEF DiskTypeOK
<1>3. (IsIntact <=> IsIntact') /\ (IntactInv <=> IntactInv')
  BY <1>1 DEF IsIntact, Present, IntactInv
<1>4. CopyInv'
  BY <1>1, <1>3 DEF CopyInv, StagesInv
<1>5. QED
  BY <1>2, <1>4

(* A boot's step of the copy, when no other boot is at one.                *)
LEMMA CopyMove ==
  ASSUME HostTypeOK, NEW b \in DOMAIN boots, NEW to \in Stages, Moves(b, to),
         copied = TRUE => \A d \in DOMAIN boots : d # b => boots[d].at \notin Broken \cup Sound,
         UNCHANGED copied, copied \in BOOLEAN, IntactInv', to \in Broken => ~IsIntact',
                 to \in Sound => IsIntact'
  PROVE  CopyInv'
<1>1. ASSUME copied = TRUE, NEW d \in DOMAIN boots, d # b
      PROVE  boots'[d].at \notin Broken \cup Sound
  BY <1>1 DEF Moves
<1>2. copied = TRUE => StagesInv'
  BY <1>1 DEF StagesInv, Moves
<1>3. QED
  BY <1>2 DEF CopyInv

(* A boot that looks for a runtime makes a copy, or finds an intact one.   *)
LEMMA EnsureCopy ==
  ASSUME HostTypeOK, DiskTypeOK, CopyInv, NEW b \in DOMAIN boots, Ensure(b)
  PROVE  \E to \in Stages : Moves(b, to) /\ (copied = TRUE => (to \in Broken => ~IsIntact) /\
          (to \in Sound => IsIntact))
<1>1. boots[b] \in BootType /\ boots \in [DOMAIN boots -> BootType]
  BY DEF HostTypeOK
<1>2. Outcome \in {"repaired", "upgraded", "fresh"}
  BY DEF Outcome
<1>3. PICK to \in {"resolve", "tidy",
        "clear"} : to = IF ~copied THEN "resolve" ELSE IF IsIntact THEN "tidy" ELSE "clear"
  OBVIOUS
<1>4. PICK o \in {"none", "current", "repaired", "upgraded",
        "fresh"} : o = IF ~copied \/ IsIntact THEN "current" ELSE Outcome
  BY <1>2
<1>5. boots' = [boots EXCEPT ![b].at = to, ![b].outcome = o]
  BY <1>3, <1>4 DEF Ensure
<1>6. boots' = [boots EXCEPT ![b] = [boots[b] EXCEPT !.at = to, !.outcome = o]]
  BY <1>1, <1>5
<1>7. [boots[b] EXCEPT !.at = to, !.outcome = o] \in BootType /\ to \in Stages
  BY <1>1, <1>3, <1>4 DEF BootType, Stages
<1>8. Moves(b, to)
  BY <1>1, <1>6, <1>7 DEF Moves, BootType
<1>9. copied = TRUE => (to \in Broken => ~IsIntact) /\ (to \in Sound => IsIntact)
  BY <1>3 DEF Broken, Sound
<1>10. QED
  BY <1>7, <1>8, <1>9

(* Between the copies, the disk is as it is said to be.                    *)
LEMMA CopyStepKeeps ==
  ASSUME HostTypeOK, DiskTypeOK, CopyInv, NEW b \in DOMAIN boots, CopyStep(b),
         copied = TRUE => \A d \in DOMAIN boots : d # b => boots[d].at \notin Broken \cup Sound
  PROVE  DiskTypeOK' /\ CopyInv'
<1>0. copied = TRUE => IntactInv /\ (boots[b].at \in Broken => ~IsIntact) /\
        (boots[b].at \in Sound => IsIntact)
  BY DEF CopyInv, StagesInv
<1>1. CASE Ensure(b)
  <2>1. UNCHANGED <<copied, version, runtime, partial, half>>
    BY <1>1 DEF Ensure, diskVars
  <2>2. DiskTypeOK' /\ (IsIntact <=> IsIntact') /\ (IntactInv <=> IntactInv')
    BY <2>1 DEF DiskTypeOK, IsIntact, Present, IntactInv
  <2>3. PICK to \in Stages : Moves(b, to) /\ (copied = TRUE => (to \in Broken => ~IsIntact) /\
          (to \in Sound => IsIntact))
    BY <1>1, EnsureCopy
  <2>4. CASE copied = TRUE
    BY <1>0, <2>1, <2>2, <2>3, <2>4, CopyMove
  <2>5. CASE copied # TRUE
    BY <2>1, <2>2, <2>5 DEF CopyInv, DiskTypeOK
  <2>6. QED
    BY <2>2, <2>4, <2>5
<1>2. CASE Clear(b)
  <2>1. CASE Goes(b, "clear", "copy") /\ runtime' = Keep(runtime, Others) /\
          partial' = partial \ {version} /\ UNCHANGED <<copied, version, half>>
    <3>1. Moves(b, "copy") /\ "copy" \in Stages
      BY <2>1, GoesMoves DEF Stages
    <3>2. DOMAIN runtime' = Others /\ \A v \in Others : runtime'[v] = runtime[v]
      BY <2>1 DEF Keep, Others
    <3>3. runtime' \in [Others -> SUBSET Parts]
      BY <2>1 DEF Keep, Others, DiskTypeOK
    <3>4. DiskTypeOK'
      BY <2>1, <3>2, <3>3 DEF DiskTypeOK, Others
    <3>5. ~IsIntact'
      BY <2>1, <3>2 DEF IsIntact, Present, Others
    <3>6. IntactInv => IntactInv'
      BY <2>1, <3>2 DEF IntactInv, Others
    <3>7. QED
      BY <1>0, <2>1, <3>1, <3>4, <3>5, <3>6, CopyMove DEF CopyInv, DiskTypeOK, Sound
  <2>2. CASE Goes(b, "clear", "fail") /\ UNCHANGED <<copied, version, partial, half>>
             /\ (runtime' = runtime \/ (Present /\
                  \E left \in SUBSET runtime[version] : runtime' = [runtime EXCEPT ![version] = left]))
    <3>1. Moves(b, "fail") /\ "fail" \in Stages /\ boots[b].at = "clear"
      BY <2>2, GoesMoves DEF Stages
    <3>2. /\ DOMAIN runtime' = DOMAIN runtime /\ runtime' \in [DOMAIN runtime -> SUBSET Parts]
          /\ \A v \in DOMAIN runtime : v # version => runtime'[v] = runtime[v]
          /\ Present => runtime'[version] \subseteq runtime[version]
      BY <2>2 DEF DiskTypeOK, Present
    <3>3. DiskTypeOK'
      BY <2>2, <3>2 DEF DiskTypeOK
    <3>4. ~IsIntact /\ IntactInv => IntactInv'
      BY <2>2, <3>2 DEF IntactInv, IsIntact, Present
    <3>5. QED
      BY <1>0, <2>2, <3>1, <3>3, <3>4, CopyMove DEF CopyInv, DiskTypeOK, Sound, Broken
  <2>3. QED
    BY <1>2, <2>1, <2>2 DEF Clear
<1>3. CASE Copy(b)
  <2>1. UNCHANGED <<copied, version, runtime, half>> /\ partial' = partial \cup {version}
    BY <1>3 DEF Copy
  <2>2. DiskTypeOK' /\ (IsIntact <=> IsIntact') /\ (IntactInv <=> IntactInv')
    BY <2>1 DEF DiskTypeOK, IsIntact, Present, IntactInv
  <2>3. PICK to \in {"fail", "move"} : Goes(b, "copy", to)
    BY <1>3 DEF Copy
  <2>4. Moves(b, to) /\ to \in Stages /\ boots[b].at = "copy"
    BY <2>3, GoesMoves DEF Stages
  <2>5. QED
    BY <1>0, <2>1, <2>2, <2>4, CopyMove DEF CopyInv, DiskTypeOK, Sound, Broken
<1>4. CASE Move(b)
  <2>1. CASE Goes(b, "move", "tidy") /\ ~Present /\ runtime' = Put(runtime, version,
          Payload) /\ partial' = partial \ {version}
             /\ half' = half \ {version} /\ UNCHANGED <<copied, version>>
    <3>1. Moves(b, "tidy") /\ "tidy" \in Stages
      BY <2>1, GoesMoves DEF Stages
    <3>2. /\ DOMAIN runtime' = DOMAIN runtime \cup {version} /\ runtime'[version] = Payload
          /\ \A v \in DOMAIN runtime : v # version => runtime'[v] = runtime[v]
      BY <2>1 DEF Put
    <3>3. Payload \subseteq Parts /\ {"python", "wheel"} \subseteq Payload
      BY DEF Payload, Parts
    <3>4. runtime' \in [DOMAIN runtime \cup {version} -> SUBSET Parts]
      BY <2>1, <3>3 DEF Put, DiskTypeOK
    <3>5. DiskTypeOK'
      BY <2>1, <3>2, <3>4 DEF DiskTypeOK
    <3>6. IsIntact'
      BY <2>1, <3>2, <3>3 DEF IsIntact, Present
    <3>7. IntactInv => IntactInv'
      <4>1. SUFFICES ASSUME IntactInv, NEW v \in DOMAIN runtime' \ half', {"python",
              "wheel"} \subseteq runtime'[v]
                     PROVE  Payload \subseteq runtime'[v]
        BY DEF IntactInv
      <4>2. CASE v = version
        BY <3>2, <4>2
      <4>3. CASE v # version
        BY <2>1, <3>2, <4>1, <4>3 DEF IntactInv
      <4>4. QED
        BY <4>2, <4>3
    <3>8. QED
      BY <1>0, <2>1, <3>1, <3>5, <3>6, <3>7, CopyMove DEF CopyInv, DiskTypeOK, Broken
  <2>2. CASE Goes(b, "move", "fail") /\ UNCHANGED <<copied, version, runtime, partial, half>>
    <3>1. Moves(b, "fail") /\ "fail" \in Stages
      BY <2>2, GoesMoves DEF Stages
    <3>2. DiskTypeOK' /\ (IntactInv <=> IntactInv')
      BY <2>2 DEF DiskTypeOK, IntactInv
    <3>3. QED
      BY <1>0, <2>2, <3>1, <3>2, CopyMove DEF CopyInv, DiskTypeOK, Broken, Sound
  <2>3. QED
    BY <1>4, <2>1, <2>2 DEF Move, diskVars
<1>5. CASE Tidy(b)
  <2>1. Moves(b, "notice") /\ "notice" \in Stages /\ boots[b].at = "tidy"
    BY <1>5, GoesMoves DEF Tidy, Stages
  <2>2. PICK kept \in SUBSET Others : \E left \in [kept -> SUBSET Parts] :
          /\ \A v \in kept : left[v] \subseteq runtime[v]
          /\ runtime' = [v \in DOMAIN runtime \ (Others \ kept) |-> IF v \in kept THEN left[v] ELSE runtime[v]]
          /\ half' = (half \ Others) \cup kept
    BY <1>5 DEF Tidy
  <2>3. PICK left \in [kept -> SUBSET Parts] :
          /\ \A v \in kept : left[v] \subseteq runtime[v]
          /\ runtime' = [v \in DOMAIN runtime \ (Others \ kept) |-> IF v \in kept THEN left[v] ELSE runtime[v]]
          /\ half' = (half \ Others) \cup kept
    BY <2>2
  <2>4. UNCHANGED <<copied, version>> /\ partial' \subseteq partial
    BY <1>5 DEF Tidy
  <2>5. Others \subseteq DOMAIN runtime /\ version \notin Others
    BY DEF Others
  <2>6. DOMAIN runtime' = DOMAIN runtime \ (Others \ kept) /\
          \A v \in DOMAIN runtime' : v \notin kept => runtime'[v] = runtime[v]
    BY <2>3
  <2>7. runtime' \in [DOMAIN runtime' -> SUBSET Parts]
    BY <2>3, <2>6 DEF DiskTypeOK
  <2>8. DiskTypeOK'
    BY <2>2, <2>4, <2>5, <2>6, <2>7 DEF DiskTypeOK
  <2>9. IsIntact <=> IsIntact'
    BY <2>2, <2>4, <2>5, <2>6 DEF IsIntact, Present
  <2>10. IntactInv => IntactInv'
    <3>1. SUFFICES ASSUME IntactInv, NEW v \in DOMAIN runtime' \ half', {"python",
            "wheel"} \subseteq runtime'[v]
                   PROVE  Payload \subseteq runtime'[v]
      BY DEF IntactInv
    <3>2. v \notin kept
      BY <2>3
    <3>3. v \in DOMAIN runtime /\ v \notin Others
      BY <2>6, <3>2
    <3>4. v \notin half
      BY <2>3, <3>3
    <3>5. QED
      BY <2>6, <3>1, <3>2, <3>3, <3>4 DEF IntactInv
  <2>11. QED
    BY <1>0, <2>1, <2>4, <2>8, <2>9, <2>10, CopyMove DEF CopyInv, DiskTypeOK, Broken, Sound
<1>6. CASE Notice(b) \/ Resolve(b)
  <2>1. UNCHANGED <<copied, version, runtime, partial, half>>
    BY <1>6 DEF Notice, Resolve, diskVars
  <2>2. DiskTypeOK' /\ (IsIntact <=> IsIntact') /\ (IntactInv <=> IntactInv')
    BY <2>1 DEF DiskTypeOK, IsIntact, Present, IntactInv
  <2>3. \E to \in {"resolve", "report", "fail"} : Goes(b, boots[b].at, to) /\
          (to = "resolve" => boots[b].at = "notice")
    BY <1>6 DEF Notice, Resolve, Goes
  <2>4. PICK to \in {"resolve", "report", "fail"} : Goes(b, boots[b].at, to) /\
          (to = "resolve" => boots[b].at = "notice")
    BY <2>3
  <2>5. Moves(b, to) /\ to \in Stages
    BY <2>4, GoesMoves DEF Stages
  <2>6. QED
    BY <1>0, <2>1, <2>2, <2>4, <2>5, CopyMove DEF CopyInv, DiskTypeOK, Sound, Broken
<1>7. QED
  BY <1>1, <1>2, <1>3, <1>4, <1>5, <1>6 DEF CopyStep

(* The other stages of a boot.                                             *)
LEMMA LaterKeeps ==
  ASSUME HostTypeOK, DiskTypeOK, CopyInv, NEW b \in DOMAIN boots, BootStep(b), ~CopyStep(b)
  PROVE  DiskTypeOK' /\ CopyInv'
<1>1. UNCHANGED diskVars
  BY DEF BootStep, Announces, Spawns, ClaimsPreflight, PreflightEnds, Looks, Publishes, Drops,
    SaysRunning, Watches, Fails, SaysFailed
<1>2. CASE \E to \in Stages : to \notin Broken \cup Sound /\ Goes(b, boots[b].at, to)
  <2>1. PICK to \in Stages : to \notin Broken \cup Sound /\ Goes(b, boots[b].at, to)
    BY <1>2
  <2>2. Moves(b, to)
    BY <2>1, GoesMoves
  <2>3. QED
    BY <1>1, <2>1, <2>2, CopyFrame DEF Moves
<1>3. CASE \E to \in {"claim", "publish"} : boots' = [boots EXCEPT ![b].at = to,
        ![b].child = Len(procs) + 1]
  <2>1. PICK to \in {"claim", "publish"} : boots' = [boots EXCEPT ![b].at = to,
          ![b].child = Len(procs) + 1]
    BY <1>3
  <2>2. Hatches(b, to)
    BY <2>1, SpawnHatches DEF Stages
  <2>3. QED
    BY <1>1, <2>1, <2>2, CopyFrame DEF Hatches, Broken, Sound
<1>4. QED
  <2>1. CASE Spawns(b, "spawn", "claim") \/ Spawns(b, "launch", "publish")
    <3>1. "fail" \in Stages /\ "fail" \notin Broken \cup Sound
      BY DEF Stages, Broken, Sound
    <3>2. QED
      BY <1>2, <1>3, <2>1, <3>1 DEF Spawns, Goes
  <2>2. CASE ~(Spawns(b, "spawn", "claim") \/ Spawns(b, "launch", "publish"))
    <3>1. \E to \in {"spawn", "drop", "wait", "look", "over", "launch", "running", "watch",
            "failed"} : Goes(b, boots[b].at, to)
      BY <2>2 DEF BootStep, Announces, ClaimsPreflight, PreflightEnds, Looks, Publishes, Drops,
        SaysRunning, Watches, Fails, SaysFailed, Goes
    <3>2. {"spawn", "drop", "wait", "look", "over", "launch", "running", "watch",
            "failed"} \subseteq Stages \ (Broken \cup Sound)
      BY DEF Stages, Broken, Sound
    <3>3. QED
      BY <1>2, <3>1, <3>2
  <2>3. QED
    BY <2>1, <2>2

(* What a Recorder that runs, or somebody, does to its runtime between two *)
(* boots.                                                                  *)
LEMMA TampersKeep ==
  ASSUME HostTypeOK, DiskTypeOK, CopyInv, Tampers
  PROVE  DiskTypeOK' /\ CopyInv'
<1>1. UNCHANGED <<copied, version, partial, half, boots>> /\ Present
  BY DEF Tampers, Install, Damage
<1>2. \A b \in DOMAIN boots : boots[b].at \notin Broken \cup Sound
  BY DEF Tampers, Broken, Sound
<1>3. PICK new : /\ runtime' = [runtime EXCEPT ![version] = new]
                 /\ new \subseteq Parts
                 /\ \/ runtime[version] \subseteq new /\
                      new \subseteq runtime[version] \cup {"backends"}
                    \/ ~({"python", "wheel"} \subseteq new)
  <2>1. runtime[version] \subseteq Parts
    BY <1>1 DEF DiskTypeOK, Present
  <2>2. CASE Install
    BY <2>1, <2>2 DEF Install, Parts
  <2>3. CASE Damage
    <3>1. PICK gone \in {{"python"}, {"wheel"},
            Payload} : runtime' = [runtime EXCEPT ![version] = @ \ gone]
      BY <2>3 DEF Damage
    <3>2. "python" \in gone \/ "wheel" \in gone
      BY DEF Payload
    <3>3. QED
      BY <2>1, <3>1, <3>2
  <2>4. QED
    BY <2>2, <2>3 DEF Tampers
<1>4. /\ DOMAIN runtime' = DOMAIN runtime /\ runtime'[version] = new
      /\ \A v \in DOMAIN runtime : v # version => runtime'[v] = runtime[v]
      /\ runtime' \in [DOMAIN runtime -> SUBSET Parts]
  BY <1>1, <1>3 DEF DiskTypeOK, Present
<1>5. DiskTypeOK'
  BY <1>1, <1>4 DEF DiskTypeOK
<1>6. IntactInv => IntactInv'
  <2>1. SUFFICES ASSUME IntactInv, NEW v \in DOMAIN runtime' \ half', {"python",
          "wheel"} \subseteq runtime'[v]
                 PROVE  Payload \subseteq runtime'[v]
    BY DEF IntactInv
  <2>2. CASE v = version
    <3>1. runtime[version] \subseteq new /\ {"python", "wheel"} \subseteq runtime[version]
      BY <1>3, <1>4, <2>1, <2>2
    <3>2. new \in SUBSET Parts /\ {"python", "wheel"} \subseteq new
      BY <1>3, <1>4, <2>1, <2>2
    <3>3. QED
      BY <1>1, <1>4, <2>1, <2>2, <3>1, <3>2 DEF IntactInv
  <2>3. CASE v # version
    BY <1>1, <1>4, <2>1, <2>3 DEF IntactInv
  <2>4. QED
    BY <2>2, <2>3
<1>7. CopyInv'
  BY <1>1, <1>2, <1>6 DEF CopyInv, StagesInv
<1>8. QED
  BY <1>5, <1>7

(* While no Stop Recorder has crossed an exit, one boot works at a time,   *)
(* and the disk stays as it is said to be.                                 *)
LEMMA DiskKeeps ==
  HostInv /\ DiskTypeOK /\ CopyInv /\ (copied => ~crossed) /\ [BundleNext]_bundleVars =>
          DiskTypeOK' /\ CopyInv'
<1>1. SUFFICES ASSUME HostInv, DiskTypeOK, CopyInv, copied => ~crossed, [BundleNext]_bundleVars
               PROVE  DiskTypeOK' /\ CopyInv'
  OBVIOUS
<1>2. HostTypeOK
  BY <1>1 DEF HostInv
<1>3. ASSUME UNCHANGED <<diskVars, boots>> PROVE DiskTypeOK' /\ CopyInv'
  BY <1>1, <1>3, CopyFrame
<1>4. ASSUME NEW b \in DOMAIN boots, BootStep(b) PROVE DiskTypeOK' /\ CopyInv'
  <2>1. CASE CopyStep(b)
    <3>1. boots[b].at \in Broken \cup Sound \cup {"ensure"}
      BY <2>1 DEF CopyStep, Ensure, Clear, Copy, Move, Tidy, Notice, Resolve, Goes, Broken,
        Sound
    <3>2. ASSUME copied = TRUE, NEW d \in DOMAIN boots, d # b
          PROVE  boots[d].at \notin Broken \cup Sound
      <4>1. WorkInv
        BY <1>1, <1>2, <3>2 DEF HostInv, Orderly, HostTypeOK
      <4>2. Working(b)
        BY <3>1 DEF Working, Broken, Sound
      <4>3. ~Working(d)
        BY <3>2, <4>1, <4>2 DEF WorkInv
      <4>4. QED
        BY <4>3 DEF Working, Broken, Sound
    <3>3. QED
      BY <1>1, <1>2, <2>1, <3>2, CopyStepKeeps
  <2>2. CASE ~CopyStep(b)
    BY <1>1, <1>2, <1>4, <2>2, LaterKeeps
  <2>3. QED
    BY <2>1, <2>2
<1>5. ASSUME NEW c \in DOMAIN procs, Dies(c) \/ Exits(c) \/ Verdict(c) PROVE DiskTypeOK' /\
        CopyInv'
  <2>1. UNCHANGED <<diskVars, boots>>
    BY <1>5 DEF Dies, Exits, Verdict, copyVars
  <2>2. QED
    BY <1>3, <2>1
<1>6. CASE Start
  <2>1. UNCHANGED diskVars
    BY <1>6 DEF Start
  <2>2. PICK b :
           /\ boots' \in [DOMAIN boots' -> BootType]
           /\ b \in DOMAIN boots' /\ boots'[b].at = "ensure" /\ boots'[b].child = 0
           /\ \A d \in DOMAIN boots' : d # b => d \in DOMAIN boots /\ boots'[d] = boots[d]
           /\ \A d \in DOMAIN boots : boots[d].at # "over" => d # b /\ d \in DOMAIN boots'
    BY <1>2, <1>6, BeginsShape DEF Start
  <2>3. \A d \in DOMAIN boots' : boots'[d].at \in Broken \cup Sound => d \in DOMAIN boots /\
          boots'[d].at = boots[d].at
    BY <2>2 DEF Broken, Sound
  <2>4. QED
    BY <1>1, <2>1, <2>3, CopyFrame
<1>7. CASE Launch
  <2>1. UNCHANGED <<copied, runtime, partial, half>> /\ version' \in Versions /\
          DOMAIN boots' = {}
    BY <1>7 DEF Launch, Reinstall
  <2>2. DiskTypeOK'
    BY <1>1, <2>1 DEF DiskTypeOK
  <2>3. IntactInv => IntactInv'
    BY <2>1 DEF IntactInv
  <2>4. StagesInv'
    BY <2>1 DEF StagesInv
  <2>5. QED
    BY <1>1, <2>1, <2>2, <2>3, <2>4 DEF CopyInv
<1>8. CASE (UIStep /\ ~Start) \/ StartRecorder \/ StopRecorder \/ Quit \/ Probed \/ UNCHANGED bundleVars
  <2>1. UNCHANGED <<diskVars, boots>>
    BY <1>8 DEF UIStep, Starting, Stop, Kills, Answered, Shows, StartRecorder, StopRecorder,
      Quit, Probed, bundleVars, copyVars
  <2>2. QED
    BY <1>3, <2>1
<1>9. CASE Tampers
  BY <1>1, <1>2, <1>9, TampersKeep
<1>10. QED
  BY <1>1, <1>4, <1>5, <1>6, <1>7, <1>8, <1>9 DEF BundleNext

(* No runtime is on disk to begin with.                                    *)
LEMMA DiskInit == BundleInit => DiskTypeOK /\ CopyInv
<1>1. SUFFICES ASSUME BundleInit PROVE DiskTypeOK /\ CopyInv
  OBVIOUS
<1>2. DOMAIN boots = {} /\ DOMAIN runtime = {} /\ runtime \in [{} -> SUBSET Parts]
  BY <1>1 DEF BundleInit, CopyInit
<1>3. copied \in BOOLEAN /\ version \in Versions /\ partial = {} /\ half = {}
  BY <1>1 DEF BundleInit, CopyInit
<1>4. QED
  BY <1>2, <1>3 DEF DiskTypeOK, CopyInv, IntactInv, StagesInv

(* A boot that resolves its wheel has an intact runtime.                   *)
LEMMA WholeFollows == DiskTypeOK /\ CopyInv => RunsWhole
<1>1. SUFFICES ASSUME DiskTypeOK, CopyInv, NEW b \in DOMAIN boots, copied,
        boots[b].at = "resolve", version \notin half
               PROVE  Present /\ Payload \subseteq runtime[version]
  BY DEF RunsWhole
<1>2. IntactInv /\ IsIntact
  BY <1>1 DEF CopyInv, StagesInv, Sound
<1>3. QED
  BY <1>1, <1>2 DEF IntactInv, IsIntact, Present

(* What a boot runs is whole, whatever was cut short before it, as long as *)
(* no Stop Recorder crosses an exit where the runtime is a copy: two boots *)
(* may then work at once, and delete under each other.                     *)
THEOREM BootsRunWhole == BundleSpec /\ [](copied => ~crossed) => []RunsWhole
<1>1. BundleInit => HostInv /\ DiskTypeOK /\ CopyInv
  BY FreshHost, DiskInit DEF BundleInit, CopyInit
<1>2. QED
  BY <1>1, HostKeeps, DiskKeeps, WholeFollows, PTL DEF BundleSpec

-----------------------------------------------------------------------------
(* With no click in a tray of a copied runtime nothing is ever stopped.    *)
Unclicked ==
  /\ clicks \in Nat
  /\ copied => crossed = FALSE /\ quit = "no" /\ ui.at \notin {"stop", "kill"}

(* Only a click leads to a stop.                                           *)
LEMMA UnclickedKeeps ==
  ASSUME MaxCopyClicks = 0
  PROVE  Unclicked /\ [BundleNext]_bundleVars => Unclicked'
<1>1. SUFFICES ASSUME Unclicked, [BundleNext]_bundleVars PROVE Unclicked'
  OBVIOUS
<1>2. ASSUME UNCHANGED <<copied, clicks, crossed, quit, ui>> PROVE Unclicked'
  BY <1>1, <1>2 DEF Unclicked
<1>3. ASSUME Click, UNCHANGED copied PROVE Unclicked'
  BY <1>1, <1>3 DEF Unclicked, Click
<1>4. CASE StartRecorder \/ StopRecorder \/ Quit
  BY <1>3, <1>4 DEF StartRecorder, StopRecorder, Quit, copyVars, diskVars
<1>5. ASSUME NEW b \in DOMAIN boots, BootStep(b), Uncounted PROVE Unclicked'
  <2>1. UNCHANGED <<quit, ui>>
    BY <1>5 DEF BootStep, hostVars, Announces, Spawns, ClaimsPreflight, PreflightEnds, Looks,
      Publishes, Drops, SaysRunning, Watches, Fails, SaysFailed
  <2>2. UNCHANGED copied
    BY <1>5 DEF BootStep, diskVars, CopyStep, Ensure, Clear, Copy, Move, Tidy, Notice, Resolve,
      Announces, Spawns,
      ClaimsPreflight, PreflightEnds, Looks, Publishes, Drops, SaysRunning, Watches, Fails,
              SaysFailed
  <2>3. QED
    BY <1>2, <1>5, <2>1, <2>2 DEF Uncounted, countVars
<1>6. ASSUME NEW c \in DOMAIN procs, Dies(c) \/ Exits(c) \/ Verdict(c),
        Uncounted PROVE Unclicked'
  BY <1>2, <1>6 DEF Dies, Exits, Verdict, hostVars, copyVars, diskVars, Uncounted, countVars
<1>7. CASE Starting \/ Start \/ \E n \in DOMAIN posts : Shows(n)
  BY <1>1, <1>7 DEF Starting, Start, Shows, UIAt, Uncounted, countVars, copyVars, diskVars,
    Unclicked
<1>8. CASE Stop \/ Kills \/ Answered \/ Probed
  BY <1>1, <1>8 DEF Stop, Kills, Answered, Probed, Uncounted, countVars, copyVars, diskVars,
    Unclicked
<1>9. CASE Launch
  BY <1>1, <1>9 DEF Launch, Reinstall, UIAt, Unclicked
<1>10. CASE Tampers \/ UNCHANGED bundleVars
  BY <1>2, <1>10 DEF Tampers, Install, Damage, bundleVars, copyVars, diskVars, hostVars,
    countVars
<1>11. QED
  BY <1>1, <1>4, <1>5, <1>6, <1>7, <1>8, <1>9, <1>10 DEF BundleNext, UIStep

(* So it is for any number of launches, of any releases, and of installs   *)
(* and damages, when nobody clicks in the tray of a copied runtime.        *)
THEOREM LaunchesRunWhole ==
  ASSUME MaxCopyClicks = 0
  PROVE  BundleSpec => []RunsWhole
<1>1. BundleInit => Unclicked
  BY DEF BundleInit, Fresh, UIAt, Unclicked
<1>2. Unclicked => (copied => ~crossed)
  BY DEF Unclicked
<1>3. Unclicked /\ [BundleNext]_bundleVars => Unclicked'
  BY UnclickedKeeps
<1>4. QED
  BY <1>1, <1>2, <1>3, BootsRunWhole, PTL DEF BundleSpec

=============================================================================
