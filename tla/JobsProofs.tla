----------------------------- MODULE JobsProofs -----------------------------
(***************************************************************************)
(* What the server does in the background, for any number of its actors:   *)
(* the swap of the live engine, then the jobs of a session.                *)
(*                                                                         *)
(* EngineSwap, for any requests, channels and threads: no engine is lost.  *)
(* A thread is in somebody's hands from its birth on (ThreadOK), which     *)
(* needs to know what a start that holds a channel's lock has begun        *)
(* (HoldingOK, LockOK), what kind of thread a channel and a stop refer to  *)
(* (CallOK, EngineOK), and, while nothing overlaps a swap, which channel   *)
(* recorder.live is and from when on the old engine is down (SwapOK).      *)
(*                                                                         *)
(* SessionJobs, for any requests, recordings and restarts: the one slot,   *)
(* the marks and the stages of the pipeline, from what a job that waits    *)
(* for the slot has (Prepared).                                            *)
(***************************************************************************)
EXTENDS EngineSwap, SessionJobs, TLAPS

(* Where a request is inside a stop; inside a start that has the lock.     *)
StopPlaces == {"stop", "wait", "join", "leave", "late"}
Holding == {"ready", "abandon", "halt"}

Places ==
  {"idle", "done", "swap", "install", "announce", "look", "again", "start"}
    \cup StopPlaces \cup Holding

CallType ==
  [at : Places, wants : {"whisper", "moonshine", "stop"},
   from : Channels \cup {Nobody}, to : Channels \cup {Nobody},
   on : Channels \cup {Nobody}, of : Threads \cup {Nobody}]

SwapTypeOK ==
  /\ live \in Channels
  /\ family \in [Channels -> {"unmade", "whisper", "moonshine"}]
  /\ engine \in [Channels -> Threads \cup {Nobody}]
  /\ locked \in [Channels -> Calls \cup {Nobody}]
  /\ said \in [Channels -> {"stopped", "starting", "running", "error"}]
  /\ thread \in [Threads -> {"unborn", "child", "binding", "bound", "serving",
                            "failed", "closing", "ended"}]
  /\ stops \subseteq Threads /\ abandoned \subseteq Threads
  /\ call \in [Calls -> CallType]
  /\ overlapped \in BOOLEAN

Made(c) == c \in Channels /\ family[c] # "unmade"

Applies(r) == UnderWay(r) /\ call[r].wants # "stop"

(* What the engine of a channel may be doing.                              *)
Doing(c) ==
  IF family[c] = "whisper" THEN {"child", "ended"}
  ELSE {"bound", "serving", "closing", "ended"}

(* A request is about channels that were made, and a stop waits for a      *)
(* thread of its channel's kind.                                           *)
CallOK(r) ==
  /\ call[r].wants = "stop" =>
       /\ call[r].at \in {"idle", "done"} \cup StopPlaces
       /\ call[r].from = Nobody /\ call[r].to = Nobody
  /\ Applies(r) => Made(call[r].from) /\ Made(call[r].to)
  /\ call[r].at \in StopPlaces =>
       /\ Made(call[r].on)
       /\ call[r].wants # "stop" => call[r].on \in {call[r].from, call[r].to}
  /\ call[r].at \in {"join", "late"} => family[call[r].on] = "moonshine"
  /\ call[r].at \in {"wait", "join", "leave", "late"} =>
       call[r].of \in Threads /\ thread[call[r].of] \in Doing(call[r].on)
  /\ call[r].at = "leave" => thread[call[r].of] = "ended"
  /\ call[r].at \in {"swap", "install"} => Swaps(r)

(* A start that has the lock waits for a thread it began; before it queues *)
(* the stop it flags the thread.                                           *)
HoldingOK(r) ==
  call[r].at \in Holding =>
    /\ family[call[r].to] = "moonshine" /\ locked[call[r].to] = r
    /\ call[r].of \in Threads
    /\ thread[call[r].of] \in {"binding", "bound", "serving", "failed", "closing", "ended"}
    /\ call[r].at = "halt" => call[r].of \in abandoned \/ thread[call[r].of] = "ended"

(* A lock is one of those starts', and no server runs under it.            *)
LockOK(c) ==
  locked[c] # Nobody =>
    /\ call[locked[c]].at \in Holding /\ call[locked[c]].to = c
    /\ ~IsRunning(c)

EngineOK(c) ==
  /\ family[c] = "unmade" => c # live /\ engine[c] = Nobody
  /\ engine[c] # Nobody => thread[engine[c]] \in Doing(c)

(* Who answers for a thread, from its birth on.  A stop queued during the  *)
(* bind is used up by it: only the flag is left then.                      *)
ThreadOK(t) ==
  /\ thread[t] = "unborn" => t \notin stops \cup abandoned
  /\ thread[t] = "child" => \E c \in Channels : engine[c] = t
  /\ thread[t] = "binding" =>
       /\ t \in stops => t \in abandoned
       /\ t \in abandoned \/ \E r \in Calls : call[r].of = t /\ call[r].at \in Holding
  /\ thread[t] = "bound" => t \in abandoned \cup stops \/ InHand(t)
  /\ thread[t] = "serving" => t \in stops \/ InHand(t)

(* A swap is before its Install, or past it; past its stop the old engine  *)
(* is down.                                                                *)
Before(r) ==
  \/ call[r].at \in {"swap", "install"}
  \/ call[r].at \in StopPlaces /\ call[r].on = call[r].from

Cleared(r) ==
  call[r].at # "swap" /\ ~(call[r].at \in {"stop", "wait"} /\ call[r].on = call[r].from)

(* A swap that overlaps no other apply knows what recorder.live is.        *)
SwapOK(r) ==
  /\ Swaps(r) => \A q \in Calls \ {r} : ~Applies(q)
  /\ ~Swaps(r) => live = call[r].to
  /\ Swaps(r) => live = IF Before(r) THEN call[r].from ELSE call[r].to
  /\ Swaps(r) /\ Cleared(r) => ~IsRunning(call[r].from)
  /\ Swaps(r) /\ call[r].at = "wait" /\ call[r].on = call[r].from =>
       engine[call[r].from] \in
         IF family[call[r].from] = "whisper" THEN {Nobody, call[r].of} ELSE {Nobody}

CallInv == \A r \in Calls : CallOK(r) /\ HoldingOK(r)
ChannelInv == \A c \in Channels : LockOK(c) /\ EngineOK(c)
ThreadInv == \A t \in Threads : ThreadOK(t)
SwapInv == ~overlapped => \A r \in Calls : Applies(r) => SwapOK(r)

SwapIInv ==
  /\ SwapTypeOK /\ CallInv /\ ChannelInv /\ ThreadInv /\ SwapInv
  /\ DownIsDown /\ OldEngineIsStopped

USE SwapAssumption
    DEF At, UnderWay, Swaps, Applies, Made, Doing, Calls, IsRunning, StopPlaces, Holding,
        Places, Before, Cleared

-----------------------------------------------------------------------------
(* A request goes on to a place, with a channel to stop and a thread to    *)
(* wait for; or it is answered; or it comes back from its stop.            *)
Goes(r, place, on, of) ==
  /\ call' \in [Calls -> CallType]
  /\ \A q \in Calls : q # r => call'[q] = call[q]
  /\ call'[r].at = place /\ call'[r].on = on /\ call'[r].of = of
  /\ call'[r].wants = call[r].wants /\ call'[r].from = call[r].from /\ call'[r].to = call[r].to

Ends(r) ==
  /\ call' \in [Calls -> CallType]
  /\ \A q \in Calls : q # r => call'[q] = call[q]
  /\ call'[r].at = "done" /\ call'[r].wants = "stop"
  /\ call'[r].from = Nobody /\ call'[r].to = Nobody

Leaves(r) ==
  IF call[r].wants = "stop" THEN Ends(r)
  ELSE Goes(r, IF call[r].on = call[r].to THEN "again" ELSE "install", call[r].on, call[r].of)

(* What StepsTo does to a request that is not answered by it, and ... *)
LEMMA StepGoes ==
  ASSUME SwapTypeOK, NEW r \in Calls, NEW place \in Places, place # "done", StepsTo(r, place)
  PROVE  Goes(r, place, call[r].on, call[r].of)
<1>1. call' = [call EXCEPT ![r] = [call[r] EXCEPT !.at = place]]
  BY DEF StepsTo
<1>2. call[r] \in CallType /\ call \in [Calls -> CallType]
  BY DEF SwapTypeOK
<1>3. [call[r] EXCEPT !.at = place] \in CallType
  BY <1>2 DEF CallType
<1>4. call'[r] = [call[r] EXCEPT !.at = place]
  BY <1>1, <1>2
<1>5. /\ call'[r].at = place /\ call'[r].on = call[r].on /\ call'[r].of = call[r].of
      /\ call'[r].wants = call[r].wants
      /\ call'[r].from = call[r].from /\ call'[r].to = call[r].to
  BY <1>2, <1>4 DEF CallType
<1>6. call' \in [Calls -> CallType]
  BY <1>1, <1>2, <1>3
<1> QED  BY <1>1, <1>2, <1>5, <1>6 DEF Goes

(* ... to one that is. *)
LEMMA StepEnds ==
  ASSUME SwapTypeOK, NEW r \in Calls, StepsTo(r, "done")
  PROVE  Ends(r)
BY DEF SwapTypeOK, StepsTo, Ends, CallType, Wanted

(* What a request sees of a step that is not its own. *)
LEMMA SwapOthers ==
  ASSUME NEW q \in Calls, SwapOK(q), call'[q] = call[q], live' = live,
         family'[call[q].from] = family[call[q].from],
         \A p \in Calls : Applies(p)' => Applies(p),
         Swaps(q) => /\ IsRunning(call[q].from)' => IsRunning(call[q].from)
                     /\ engine'[call[q].from] \in {engine[call[q].from], Nobody}
  PROVE  SwapOK(q)'
<1>1. CASE Swaps(q)
  BY <1>1 DEF SwapOK
<1>2. CASE ~Swaps(q)
  BY <1>2 DEF SwapOK
<1> QED  BY <1>1, <1>2

(* What keeps a thread answered for in a step that does not touch it. *)
LEMMA ThreadOthers ==
  ASSUME NEW t \in Threads, ThreadOK(t), thread'[t] = thread[t],
         t \in stops' <=> t \in stops, t \in abandoned' <=> t \in abandoned,
         thread[t] # "ended" => \A c \in Channels : engine[c] = t => engine'[c] = t,
         \A q \in Calls : call[q].of = t =>
           /\ call[q].at \in Holding => call'[q].of = t /\ call'[q].at \in Holding
           /\ call[q].at = "wait" => call'[q].of = t /\ call'[q].at = "wait"
  PROVE  ThreadOK(t)'
<1>1. (\E c \in Channels : engine[c] = t) /\ thread[t] # "ended" => \E c \in Channels : engine'[c] = t
  OBVIOUS
<1>2. (\E q \in Calls : call[q].of = t /\ call[q].at \in Holding)
        => \E q \in Calls : call'[q].of = t /\ call'[q].at \in Holding
  OBVIOUS
<1>3. (\E q \in Calls : call[q].of = t /\ call[q].at = "wait")
        => \E q \in Calls : call'[q].of = t /\ call'[q].at = "wait"
  OBVIOUS
<1>4. thread[t] # "ended" /\ InHand(t) => InHand(t)'
  BY <1>1, <1>2, <1>3 DEF InHand
<1> QED  BY <1>1, <1>2, <1>4 DEF ThreadOK

(* Who answers for an engine outside recorder.live still does. *)
LEMMA OldOthers ==
  ASSUME OldEngineIsStopped, ~overlapped, NEW d \in Channels, d # live, IsRunning(d),
         NEW r \in Calls, \A q \in Calls : q # r => call'[q] = call[q],
         UnderWay(r) /\ d \in {call[r].from, call[r].to} =>
           UnderWay(r)' /\ d \in {call'[r].from, call'[r].to}
  PROVE  \E q \in Calls : UnderWay(q)' /\ d \in {call'[q].from, call'[q].to}
BY DEF OldEngineIsStopped

(* The server comes up with nothing running. *)
LEMMA InitHolds == EInit => SwapIInv
<1> SUFFICES ASSUME EInit PROVE SwapIInv
  OBVIOUS
<1>0. call \in [Calls -> CallType] /\ \A r \in Calls : call[r].at = "idle" /\ call[r].from = Nobody /\ call[r].to = Nobody
  BY DEF EInit, Wanted, CallType
<1>1. SwapTypeOK
  BY <1>0 DEF EInit, SwapTypeOK
<1>2. CallInv
  BY <1>0 DEF CallInv, CallOK, HoldingOK
<1>3. ChannelInv
  BY <1>1, <1>0 DEF EInit, ChannelInv, LockOK, EngineOK
<1>4. ThreadInv
  BY <1>1, <1>0 DEF EInit, ThreadInv, ThreadOK
<1>5. SwapInv
  BY <1>0 DEF SwapInv
<1>6. DownIsDown /\ OldEngineIsStopped
  BY <1>1 DEF EInit, DownIsDown, OldEngineIsStopped
<1> QED  BY <1>1, <1>2, <1>3, <1>4, <1>5, <1>6 DEF SwapIInv

USE DEF SwapIInv, SwapTypeOK, Goes, Ends, Leaves

-----------------------------------------------------------------------------
(* The steps of a request, each as what it changes.                        *)

(* apply_live looks whether there is something to stop. *)
LEMMA Looks ==
  ASSUME SwapIInv, NEW r \in Calls, NEW c \in Channels, NEW place,
         \/ call[r].at = "swap" /\ c = call[r].from /\ place = "install"
         \/ call[r].at = "look" /\ c = call[r].to /\ place = "start",
         Goes(r, IF IsRunning(c) THEN "stop" ELSE place, c, call[r].of),
         UNCHANGED <<live, family, engine, locked, said, thread, stops, abandoned, overlapped>>
  PROVE  SwapIInv'
<1>1. SwapTypeOK'
  BY DEF CallInv, CallOK, HoldingOK
<1>2. ASSUME NEW q \in Calls PROVE CallOK(q)'
  BY DEF CallInv, CallOK, HoldingOK, ChannelInv, EngineOK
<1>3. ASSUME NEW q \in Calls PROVE HoldingOK(q)'
  BY DEF CallInv, HoldingOK, CallOK, ChannelInv, LockOK, EngineOK
<1>4. ASSUME NEW d \in Channels PROVE LockOK(d)'
  BY DEF ChannelInv, LockOK, CallInv, HoldingOK, CallOK, EngineOK
<1>5. ASSUME NEW d \in Channels PROVE EngineOK(d)'
  BY DEF ChannelInv, EngineOK, CallInv, HoldingOK, CallOK, LockOK
<1>6. ASSUME NEW t \in Threads PROVE ThreadOK(t)'
  <2>0. ThreadOK(t) /\ \A q \in Calls : q # r => call'[q] = call[q]
    BY DEF ThreadInv
  <2> QED  BY <2>0, ThreadOthers
<1>7. ASSUME ~overlapped', NEW q \in Calls, Applies(q)' PROVE SwapOK(q)'
  <2>1. CASE q = r
    <3>1. Applies(r) /\ SwapOK(r) /\ CallOK(r)
      BY <1>7, <2>1 DEF SwapInv, CallInv
    <3> QED  BY <2>1, <3>1, <1>7 DEF SwapOK, CallOK, ChannelInv, EngineOK
  <2>2. CASE q # r
    <3>1. Applies(q) /\ SwapOK(q) /\ call'[q] = call[q]
      BY <1>7, <2>2 DEF SwapInv
    <3>2. \A p \in Calls : Applies(p)' => Applies(p)
      OBVIOUS
    <3>3. call[q].from \in Channels
      BY <3>1 DEF CallInv, CallOK
    <3> QED  BY <3>1, <3>2, <3>3, SwapOthers
  <2> QED  BY <2>1, <2>2
<1>8. DownIsDown'
  BY DEF DownIsDown, CallInv, CallOK, HoldingOK, ChannelInv, EngineOK, LockOK
<1>9. ASSUME ~overlapped', NEW d \in Channels, d # live', IsRunning(d)'
      PROVE  \E q \in Calls : UnderWay(q)' /\ d \in {call'[q].from, call'[q].to}
  <2>1. d # live /\ IsRunning(d)
    BY <1>9
  <2> QED  BY <1>9, <2>1, OldOthers
<1> QED  BY <1>1, <1>2, <1>3, <1>4, <1>5, <1>6, <1>7, <1>8, <1>9
         DEF CallInv, ChannelInv, ThreadInv, SwapInv, OldEngineIsStopped

(* A stop of what recorder.live is. *)
LEMMA StopIsAsked ==
  ASSUME SwapIInv, NEW r \in Calls,
         call[r].at = "idle",
         call[r].wants = "stop",
         Goes(r, "stop", live, call[r].of),
         UNCHANGED <<live, family, engine, locked, said, thread, stops, abandoned, overlapped>>
  PROVE  SwapIInv'
<1>1. SwapTypeOK'
  BY DEF CallInv, CallOK, HoldingOK
<1>2. ASSUME NEW q \in Calls PROVE CallOK(q)'
  BY DEF CallInv, CallOK, HoldingOK, ChannelInv, EngineOK
<1>3. ASSUME NEW q \in Calls PROVE HoldingOK(q)'
  BY DEF CallInv, HoldingOK, CallOK, ChannelInv, LockOK, EngineOK
<1>4. ASSUME NEW d \in Channels PROVE LockOK(d)'
  BY DEF ChannelInv, LockOK, CallInv, HoldingOK, CallOK, EngineOK
<1>5. ASSUME NEW d \in Channels PROVE EngineOK(d)'
  BY DEF ChannelInv, EngineOK, CallInv, HoldingOK, CallOK, LockOK
<1>6. ASSUME NEW t \in Threads PROVE ThreadOK(t)'
  <2>0. ThreadOK(t) /\ \A q \in Calls : q # r => call'[q] = call[q]
    BY DEF ThreadInv
  <2> QED  BY <2>0, ThreadOthers
<1>7. ASSUME ~overlapped', NEW q \in Calls, Applies(q)' PROVE SwapOK(q)'
  <2>1. CASE q = r
    <3>1. Applies(r) /\ SwapOK(r) /\ CallOK(r)
      BY <1>7, <2>1 DEF SwapInv, CallInv
    <3> QED  BY <2>1, <3>1, <1>7 DEF SwapOK, CallOK, ChannelInv, EngineOK
  <2>2. CASE q # r
    <3>1. Applies(q) /\ SwapOK(q) /\ call'[q] = call[q]
      BY <1>7, <2>2 DEF SwapInv
    <3>2. \A p \in Calls : Applies(p)' => Applies(p)
      OBVIOUS
    <3>3. call[q].from \in Channels
      BY <3>1 DEF CallInv, CallOK
    <3> QED  BY <3>1, <3>2, <3>3, SwapOthers
  <2> QED  BY <2>1, <2>2
<1>8. DownIsDown'
  BY DEF DownIsDown, CallInv, CallOK, HoldingOK, ChannelInv, EngineOK, LockOK
<1>9. ASSUME ~overlapped', NEW d \in Channels, d # live', IsRunning(d)'
      PROVE  \E q \in Calls : UnderWay(q)' /\ d \in {call'[q].from, call'[q].to}
  <2>1. d # live /\ IsRunning(d)
    BY <1>9
  <2> QED  BY <1>9, <2>1, OldOthers
<1> QED  BY <1>1, <1>2, <1>3, <1>4, <1>5, <1>6, <1>7, <1>8, <1>9
         DEF CallInv, ChannelInv, ThreadInv, SwapInv, OldEngineIsStopped

(* The swap. It overlaps nothing, or the invariant says nothing of it. *)
LEMMA Installs ==
  ASSUME SwapIInv, NEW r \in Calls,
         call[r].at = "install",
         Goes(r, "announce", call[r].on, call[r].of),
         live' = call[r].to,
         UNCHANGED <<family, engine, locked, said, thread, stops, abandoned, overlapped>>
  PROVE  SwapIInv'
<1>1. SwapTypeOK'
  BY DEF CallInv, CallOK, HoldingOK
<1>2. ASSUME NEW q \in Calls PROVE CallOK(q)'
  BY DEF CallInv, CallOK, HoldingOK, ChannelInv, EngineOK
<1>3. ASSUME NEW q \in Calls PROVE HoldingOK(q)'
  BY DEF CallInv, HoldingOK, CallOK, ChannelInv, LockOK, EngineOK
<1>4. ASSUME NEW d \in Channels PROVE LockOK(d)'
  BY DEF ChannelInv, LockOK, CallInv, HoldingOK, CallOK, EngineOK
<1>5. ASSUME NEW d \in Channels PROVE EngineOK(d)'
  BY DEF ChannelInv, EngineOK, CallInv, HoldingOK, CallOK, LockOK
<1>6. ASSUME NEW t \in Threads PROVE ThreadOK(t)'
  <2>0. ThreadOK(t) /\ \A q \in Calls : q # r => call'[q] = call[q]
    BY DEF ThreadInv
  <2> QED  BY <2>0, ThreadOthers
<1>7. ASSUME ~overlapped', NEW q \in Calls, Applies(q)' PROVE SwapOK(q)'
  <2>1. Applies(r) /\ Swaps(r) /\ SwapOK(r) /\ CallOK(r)
    BY <1>7 DEF SwapInv, CallInv, CallOK
  <2>2. \A p \in Calls \ {r} : ~Applies(p)
    BY <2>1 DEF SwapOK
  <2>3. q = r
    BY <1>7, <2>2
  <2>4. Swaps(r)' /\ ~Before(r)' /\ call'[r].at # "wait" /\ live' = call'[r].to
    BY <2>1
  <2>5. ~IsRunning(call[r].from)'
    BY <2>1 DEF SwapOK
  <2>6. \A p \in Calls \ {r} : ~Applies(p)'
    BY <2>2
  <2> QED  BY <2>3, <2>4, <2>5, <2>6 DEF SwapOK
<1>8. DownIsDown'
  BY DEF DownIsDown, CallInv, CallOK, HoldingOK, ChannelInv, EngineOK, LockOK
<1>9. ASSUME ~overlapped', NEW d \in Channels, d # live', IsRunning(d)'
      PROVE  \E q \in Calls : UnderWay(q)' /\ d \in {call'[q].from, call'[q].to}
  <2>1. Applies(r) /\ Swaps(r) /\ SwapOK(r)
    BY <1>9 DEF SwapInv, CallInv, CallOK
  <2>2. CASE d = live
    <3>1. UnderWay(r)' /\ d = call'[r].from
      BY <2>1, <2>2 DEF SwapOK
    <3> QED  BY <3>1
  <2>3. CASE d # live
    BY <1>9, <2>3, OldOthers
  <2> QED  BY <2>2, <2>3
<1> QED  BY <1>1, <1>2, <1>3, <1>4, <1>5, <1>6, <1>7, <1>8, <1>9
         DEF CallInv, ChannelInv, ThreadInv, SwapInv, OldEngineIsStopped

(* begin_transition. *)
LEMMA Announces ==
  ASSUME SwapIInv, NEW r \in Calls, NEW p,
         \/ call[r].at = "announce" /\ p = "look"
         \/ call[r].at = "again" /\ p = "start",
         Goes(r, p, call[r].on, call[r].of),
         said' = IF family[call[r].to] = "moonshine" THEN [said EXCEPT ![call[r].to] = "starting"] ELSE said,
         UNCHANGED <<live, family, engine, locked, thread, stops, abandoned, overlapped>>
  PROVE  SwapIInv'
<1>1. SwapTypeOK'
  BY DEF CallInv, CallOK, HoldingOK
<1>2. ASSUME NEW q \in Calls PROVE CallOK(q)'
  BY DEF CallInv, CallOK, HoldingOK, ChannelInv, EngineOK
<1>3. ASSUME NEW q \in Calls PROVE HoldingOK(q)'
  BY DEF CallInv, HoldingOK, CallOK, ChannelInv, LockOK, EngineOK
<1>4. ASSUME NEW d \in Channels PROVE LockOK(d)'
  BY DEF ChannelInv, LockOK, CallInv, HoldingOK, CallOK, EngineOK
<1>5. ASSUME NEW d \in Channels PROVE EngineOK(d)'
  BY DEF ChannelInv, EngineOK, CallInv, HoldingOK, CallOK, LockOK
<1>6. ASSUME NEW t \in Threads PROVE ThreadOK(t)'
  <2>0. ThreadOK(t) /\ \A q \in Calls : q # r => call'[q] = call[q]
    BY DEF ThreadInv
  <2> QED  BY <2>0, ThreadOthers
<1>7. ASSUME ~overlapped', NEW q \in Calls, Applies(q)' PROVE SwapOK(q)'
  <2>1. CASE q = r
    <3>1. Applies(r) /\ SwapOK(r) /\ CallOK(r)
      BY <1>7, <2>1 DEF SwapInv, CallInv
    <3> QED  BY <2>1, <3>1, <1>7 DEF SwapOK, CallOK, ChannelInv, EngineOK
  <2>2. CASE q # r
    <3>1. Applies(q) /\ SwapOK(q) /\ call'[q] = call[q]
      BY <1>7, <2>2 DEF SwapInv
    <3> QED  BY <3>1, SwapOthers DEF CallInv, CallOK
  <2> QED  BY <2>1, <2>2
<1>8. DownIsDown'
  BY DEF DownIsDown, CallInv, CallOK, HoldingOK, ChannelInv, EngineOK, LockOK
<1>9. ASSUME ~overlapped', NEW d \in Channels, d # live', IsRunning(d)'
      PROVE  \E q \in Calls : UnderWay(q)' /\ d \in {call'[q].from, call'[q].to}
  <2>1. d # live /\ IsRunning(d)
    BY <1>9
  <2> QED  BY <1>9, <2>1, OldOthers
<1> QED  BY <1>1, <1>2, <1>3, <1>4, <1>5, <1>6, <1>7, <1>8, <1>9
         DEF CallInv, ChannelInv, ThreadInv, SwapInv, OldEngineIsStopped

(* A start gives up on its thread ... *)
LEMMA NeverReadyKeeps ==
  ASSUME SwapIInv, NEW r \in Calls,
         call[r].at = "ready",
         Goes(r, "abandon", call[r].on, call[r].of),
         UNCHANGED <<live, family, engine, locked, said, thread, stops, abandoned, overlapped>>
  PROVE  SwapIInv'
<1>1. SwapTypeOK'
  BY DEF CallInv, CallOK, HoldingOK
<1>2. ASSUME NEW q \in Calls PROVE CallOK(q)'
  BY DEF CallInv, CallOK, HoldingOK, ChannelInv, EngineOK
<1>3. ASSUME NEW q \in Calls PROVE HoldingOK(q)'
  BY DEF CallInv, HoldingOK, CallOK, ChannelInv, LockOK, EngineOK
<1>4. ASSUME NEW d \in Channels PROVE LockOK(d)'
  BY DEF ChannelInv, LockOK, CallInv, HoldingOK, CallOK, EngineOK
<1>5. ASSUME NEW d \in Channels PROVE EngineOK(d)'
  BY DEF ChannelInv, EngineOK, CallInv, HoldingOK, CallOK, LockOK
<1>6. ASSUME NEW t \in Threads PROVE ThreadOK(t)'
  <2>0. ThreadOK(t) /\ \A q \in Calls : q # r => call'[q] = call[q]
    BY DEF ThreadInv
  <2> QED  BY <2>0, ThreadOthers
<1>7. ASSUME ~overlapped', NEW q \in Calls, Applies(q)' PROVE SwapOK(q)'
  <2>1. CASE q = r
    <3>1. Applies(r) /\ SwapOK(r) /\ CallOK(r)
      BY <1>7, <2>1 DEF SwapInv, CallInv
    <3> QED  BY <2>1, <3>1, <1>7 DEF SwapOK, CallOK, ChannelInv, EngineOK
  <2>2. CASE q # r
    <3>1. Applies(q) /\ SwapOK(q) /\ call'[q] = call[q]
      BY <1>7, <2>2 DEF SwapInv
    <3>2. \A p \in Calls : Applies(p)' => Applies(p)
      OBVIOUS
    <3>3. call[q].from \in Channels
      BY <3>1 DEF CallInv, CallOK
    <3> QED  BY <3>1, <3>2, <3>3, SwapOthers
  <2> QED  BY <2>1, <2>2
<1>8. DownIsDown'
  BY DEF DownIsDown, CallInv, CallOK, HoldingOK, ChannelInv, EngineOK, LockOK
<1>9. ASSUME ~overlapped', NEW d \in Channels, d # live', IsRunning(d)'
      PROVE  \E q \in Calls : UnderWay(q)' /\ d \in {call'[q].from, call'[q].to}
  <2>1. d # live /\ IsRunning(d)
    BY <1>9
  <2> QED  BY <1>9, <2>1, OldOthers
<1> QED  BY <1>1, <1>2, <1>3, <1>4, <1>5, <1>6, <1>7, <1>8, <1>9
         DEF CallInv, ChannelInv, ThreadInv, SwapInv, OldEngineIsStopped

(* A stop looks whether the loop thread ended. *)
LEMMA JoinKeeps ==
  ASSUME SwapIInv, NEW r \in Calls, NEW x,
         call[r].at = "join",
         x = IF thread[call[r].of] = "ended" THEN "leave" ELSE "late",
         Goes(r, x, call[r].on, call[r].of),
         UNCHANGED <<live, family, engine, locked, said, thread, stops, abandoned, overlapped>>
  PROVE  SwapIInv'
<1>1. SwapTypeOK'
  BY DEF CallInv, CallOK, HoldingOK
<1>2. ASSUME NEW q \in Calls PROVE CallOK(q)'
  <2>1. CallOK(q) /\ (q # r => call'[q] = call[q])
    BY DEF CallInv
  <2>2. CASE q = r
    BY <2>1, <2>2 DEF CallOK
  <2>3. CASE q # r
    BY <2>1, <2>3 DEF CallOK
  <2> QED  BY <2>2, <2>3
<1>3. ASSUME NEW q \in Calls PROVE HoldingOK(q)'
  BY DEF CallInv, HoldingOK, CallOK, ChannelInv, LockOK, EngineOK
<1>4. ASSUME NEW d \in Channels PROVE LockOK(d)'
  BY DEF ChannelInv, LockOK, CallInv, HoldingOK, CallOK, EngineOK
<1>5. ASSUME NEW d \in Channels PROVE EngineOK(d)'
  BY DEF ChannelInv, EngineOK, CallInv, HoldingOK, CallOK, LockOK
<1>6. ASSUME NEW t \in Threads PROVE ThreadOK(t)'
  <2>0. ThreadOK(t) /\ \A q \in Calls : q # r => call'[q] = call[q]
    BY DEF ThreadInv
  <2> QED  BY <2>0, ThreadOthers
<1>7. ASSUME ~overlapped', NEW q \in Calls, Applies(q)' PROVE SwapOK(q)'
  <2>1. CASE q = r
    <3>1. Applies(r) /\ SwapOK(r) /\ CallOK(r)
      BY <1>7, <2>1 DEF SwapInv, CallInv
    <3>2. Swaps(r)' <=> Swaps(r)
      OBVIOUS
    <3>3. Swaps(r) => /\ Before(r)' <=> Before(r)
                      /\ ~IsRunning(call[r].from)'
      BY <3>1 DEF SwapOK
    <3>4. call'[r].at # "wait" /\ \A p \in Calls \ {r} : Applies(p)' => Applies(p)
      OBVIOUS
    <3> QED  BY <2>1, <3>1, <3>2, <3>3, <3>4 DEF SwapOK
  <2>2. CASE q # r
    <3>1. Applies(q) /\ SwapOK(q) /\ call'[q] = call[q]
      BY <1>7, <2>2 DEF SwapInv
    <3>2. \A p \in Calls : Applies(p)' => Applies(p)
      OBVIOUS
    <3>3. call[q].from \in Channels
      BY <3>1 DEF CallInv, CallOK
    <3> QED  BY <3>1, <3>2, <3>3, SwapOthers
  <2> QED  BY <2>1, <2>2
<1>8. DownIsDown'
  BY DEF DownIsDown, CallInv, CallOK, HoldingOK, ChannelInv, EngineOK, LockOK
<1>9. ASSUME ~overlapped', NEW d \in Channels, d # live', IsRunning(d)'
      PROVE  \E q \in Calls : UnderWay(q)' /\ d \in {call'[q].from, call'[q].to}
  <2>1. d # live /\ IsRunning(d)
    BY <1>9
  <2> QED  BY <1>9, <2>1, OldOthers
<1> QED  BY <1>1, <1>2, <1>3, <1>4, <1>5, <1>6, <1>7, <1>8, <1>9
         DEF CallInv, ChannelInv, ThreadInv, SwapInv, OldEngineIsStopped

(* ... flags it ... *)
LEMMA AbandonKeeps ==
  ASSUME SwapIInv, NEW r \in Calls,
         call[r].at = "abandon",
         Goes(r, "halt", call[r].on, call[r].of),
         abandoned' = abandoned \cup {call[r].of},
         UNCHANGED <<live, family, engine, locked, said, thread, stops, overlapped>>
  PROVE  SwapIInv'
<1>1. SwapTypeOK'
  BY DEF CallInv, CallOK, HoldingOK
<1>2. ASSUME NEW q \in Calls PROVE CallOK(q)'
  BY DEF CallInv, CallOK, HoldingOK, ChannelInv, EngineOK
<1>3. ASSUME NEW q \in Calls PROVE HoldingOK(q)'
  <2>1. HoldingOK(q) /\ (q # r => call'[q] = call[q])
    BY DEF CallInv
  <2>2. CASE q = r
    BY <2>1, <2>2 DEF HoldingOK
  <2>3. CASE q # r
    BY <2>1, <2>3 DEF HoldingOK, CallInv
  <2> QED  BY <2>2, <2>3
<1>4. ASSUME NEW d \in Channels PROVE LockOK(d)'
  BY DEF ChannelInv, LockOK, CallInv, HoldingOK, CallOK, EngineOK
<1>5. ASSUME NEW d \in Channels PROVE EngineOK(d)'
  BY DEF ChannelInv, EngineOK, CallInv, HoldingOK, CallOK, LockOK
<1>6. ASSUME NEW t \in Threads PROVE ThreadOK(t)'
  <2>1. ThreadOK(t)
    BY DEF ThreadInv
  <2>2. CASE t = call[r].of
    BY <2>1, <2>2 DEF CallInv, CallOK, HoldingOK, ChannelInv, EngineOK, LockOK, ThreadOK, InHand
  <2>3. CASE t # call[r].of
    <3>1. thread'[t] = thread[t] /\ (thread[t] # "ended" => \A d \in Channels : engine[d] = t => engine'[d] = t)
      BY <2>3
    <3>2. \A q \in Calls : call[q].of = t =>
           /\ call[q].at \in Holding => call'[q].of = t /\ call'[q].at \in Holding
           /\ call[q].at = "wait" => call'[q].of = t /\ call'[q].at = "wait"
      BY <2>3
    <3> QED  BY <2>1, <2>3, <3>1, <3>2, ThreadOthers
  <2> QED  BY <2>2, <2>3
<1>7. ASSUME ~overlapped', NEW q \in Calls, Applies(q)' PROVE SwapOK(q)'
  <2>1. CASE q = r
    <3>1. Applies(r) /\ SwapOK(r) /\ CallOK(r)
      BY <1>7, <2>1 DEF SwapInv, CallInv
    <3> QED  BY <2>1, <3>1, <1>7 DEF SwapOK, CallOK, ChannelInv, EngineOK
  <2>2. CASE q # r
    <3>1. Applies(q) /\ SwapOK(q) /\ call'[q] = call[q]
      BY <1>7, <2>2 DEF SwapInv
    <3> QED  BY <3>1, SwapOthers DEF CallInv, CallOK
  <2> QED  BY <2>1, <2>2
<1>8. DownIsDown'
  BY DEF DownIsDown, CallInv, CallOK, HoldingOK, ChannelInv, EngineOK, LockOK
<1>9. ASSUME ~overlapped', NEW d \in Channels, d # live', IsRunning(d)'
      PROVE  \E q \in Calls : UnderWay(q)' /\ d \in {call'[q].from, call'[q].to}
  <2>1. d # live /\ IsRunning(d)
    BY <1>9
  <2> QED  BY <1>9, <2>1, OldOthers
<1> QED  BY <1>1, <1>2, <1>3, <1>4, <1>5, <1>6, <1>7, <1>8, <1>9
         DEF CallInv, ChannelInv, ThreadInv, SwapInv, OldEngineIsStopped

(* ... and queues its stop, which frees the lock. *)
LEMMA HaltKeeps ==
  ASSUME SwapIInv, NEW r \in Calls,
         call[r].at = "halt",
         Ends(r),
         stops' = IF thread[call[r].of] = "ended" THEN stops ELSE stops \cup {call[r].of},
         said' = [said EXCEPT ![call[r].to] = "error"],
         locked' = [locked EXCEPT ![call[r].to] = Nobody],
         UNCHANGED <<live, family, engine, thread, abandoned, overlapped>>
  PROVE  SwapIInv'
<1>1. SwapTypeOK'
  BY DEF CallInv, CallOK, HoldingOK
<1>2. ASSUME NEW q \in Calls PROVE CallOK(q)'
  BY DEF CallInv, CallOK, HoldingOK, ChannelInv, EngineOK
<1>3. ASSUME NEW q \in Calls PROVE HoldingOK(q)'
  <2>1. HoldingOK(q) /\ (q # r => call'[q] = call[q])
    BY DEF CallInv
  <2>2. CASE q = r
    BY <2>1, <2>2 DEF HoldingOK
  <2>3. CASE q # r
    BY <2>1, <2>3 DEF HoldingOK, CallInv
  <2> QED  BY <2>2, <2>3
<1>4. ASSUME NEW d \in Channels PROVE LockOK(d)'
  BY DEF ChannelInv, LockOK, CallInv, HoldingOK, CallOK, EngineOK
<1>5. ASSUME NEW d \in Channels PROVE EngineOK(d)'
  BY DEF ChannelInv, EngineOK, CallInv, HoldingOK, CallOK, LockOK
<1>6. ASSUME NEW t \in Threads PROVE ThreadOK(t)'
  <2>1. ThreadOK(t)
    BY DEF ThreadInv
  <2>2. CASE t = call[r].of
    BY <2>1, <2>2 DEF CallInv, CallOK, HoldingOK, ChannelInv, EngineOK, LockOK, ThreadOK, InHand
  <2>3. CASE t # call[r].of
    <3>1. thread'[t] = thread[t] /\ (thread[t] # "ended" => \A d \in Channels : engine[d] = t => engine'[d] = t)
      BY <2>3
    <3>2. \A q \in Calls : call[q].of = t =>
           /\ call[q].at \in Holding => call'[q].of = t /\ call'[q].at \in Holding
           /\ call[q].at = "wait" => call'[q].of = t /\ call'[q].at = "wait"
      BY <2>3
    <3> QED  BY <2>1, <3>1, <3>2, ThreadOthers
  <2> QED  BY <2>2, <2>3
<1>7. ASSUME ~overlapped', NEW q \in Calls, Applies(q)' PROVE SwapOK(q)'
  <2>1. q # r /\ Applies(q) /\ SwapOK(q) /\ call'[q] = call[q]
    BY <1>7 DEF SwapInv
  <2>2. \A p \in Calls : Applies(p)' => Applies(p)
    OBVIOUS
  <2>3. call[q].from \in Channels
    BY <2>1 DEF CallInv, CallOK
  <2> QED  BY <2>1, <2>2, <2>3, SwapOthers
<1>8. DownIsDown'
  BY DEF DownIsDown, CallInv, CallOK, HoldingOK, ChannelInv, EngineOK, LockOK
<1>9. ASSUME ~overlapped', NEW d \in Channels, d # live', IsRunning(d)'
      PROVE  \E q \in Calls : UnderWay(q)' /\ d \in {call'[q].from, call'[q].to}
  <2>1. d # live /\ IsRunning(d)
    BY <1>9
  <2>2. ASSUME UnderWay(r), d \in {call[r].from, call[r].to}
        PROVE  FALSE
    <3>1. Applies(r) /\ SwapOK(r) /\ CallOK(r)
      BY <1>9, <2>2 DEF SwapInv, CallInv, CallOK
    <3> QED  BY <2>1, <2>2, <3>1 DEF SwapOK, CallOK
  <2> QED  BY <1>9, <2>1, <2>2, OldOthers
<1> QED  BY <1>1, <1>2, <1>3, <1>4, <1>5, <1>6, <1>7, <1>8, <1>9
         DEF CallInv, ChannelInv, ThreadInv, SwapInv, OldEngineIsStopped

(* A start that finds an engine, or whose child does not come up. *)
LEMMA StartLooks ==
  ASSUME SwapIInv, NEW r \in Calls,
         call[r].at = "start",
         Ends(r),
         UNCHANGED <<live, family, engine, locked, said, thread, stops, abandoned, overlapped>>
  PROVE  SwapIInv'
<1>1. SwapTypeOK'
  BY DEF CallInv, CallOK, HoldingOK
<1>2. ASSUME NEW q \in Calls PROVE CallOK(q)'
  BY DEF CallInv, CallOK, HoldingOK, ChannelInv, EngineOK
<1>3. ASSUME NEW q \in Calls PROVE HoldingOK(q)'
  BY DEF CallInv, HoldingOK, CallOK, ChannelInv, LockOK, EngineOK
<1>4. ASSUME NEW d \in Channels PROVE LockOK(d)'
  BY DEF ChannelInv, LockOK, CallInv, HoldingOK, CallOK, EngineOK
<1>5. ASSUME NEW d \in Channels PROVE EngineOK(d)'
  BY DEF ChannelInv, EngineOK, CallInv, HoldingOK, CallOK, LockOK
<1>6. ASSUME NEW t \in Threads PROVE ThreadOK(t)'
  <2>0. ThreadOK(t) /\ \A q \in Calls : q # r => call'[q] = call[q]
    BY DEF ThreadInv
  <2> QED  BY <2>0, ThreadOthers
<1>7. ASSUME ~overlapped', NEW q \in Calls, Applies(q)' PROVE SwapOK(q)'
  <2>1. q # r /\ Applies(q) /\ SwapOK(q) /\ call'[q] = call[q]
    BY <1>7 DEF SwapInv
  <2>2. \A p \in Calls : Applies(p)' => Applies(p)
    OBVIOUS
  <2>3. call[q].from \in Channels
    BY <2>1 DEF CallInv, CallOK
  <2> QED  BY <2>1, <2>2, <2>3, SwapOthers
<1>8. DownIsDown'
  BY DEF DownIsDown, CallInv, CallOK, HoldingOK, ChannelInv, EngineOK, LockOK
<1>9. ASSUME ~overlapped', NEW d \in Channels, d # live', IsRunning(d)'
      PROVE  \E q \in Calls : UnderWay(q)' /\ d \in {call'[q].from, call'[q].to}
  <2>1. d # live /\ IsRunning(d)
    BY <1>9
  <2>2. ASSUME UnderWay(r), d \in {call[r].from, call[r].to}
        PROVE  FALSE
    <3>1. Applies(r) /\ SwapOK(r) /\ CallOK(r)
      BY <1>9, <2>2 DEF SwapInv, CallInv, CallOK
    <3> QED  BY <2>1, <2>2, <3>1 DEF SwapOK, CallOK
  <2> QED  BY <1>9, <2>1, <2>2, OldOthers
<1> QED  BY <1>1, <1>2, <1>3, <1>4, <1>5, <1>6, <1>7, <1>8, <1>9
         DEF CallInv, ChannelInv, ThreadInv, SwapInv, OldEngineIsStopped

(* A child is born into its channel. *)
LEMMA ChildStarts ==
  ASSUME SwapIInv, NEW r \in Calls, NEW t \in Threads,
         call[r].at = "start",
         family[call[r].to] = "whisper",
         Ends(r),
         ~IsRunning(call[r].to),
         thread[t] = "unborn",
         engine' = [engine EXCEPT ![call[r].to] = t],
         thread' = [thread EXCEPT ![t] = "child"],
         UNCHANGED <<live, family, locked, said, stops, abandoned, overlapped>>
  PROVE  SwapIInv'
<1>1. SwapTypeOK'
  BY DEF CallInv, CallOK, HoldingOK
<1>2. ASSUME NEW q \in Calls PROVE CallOK(q)'
  <2>1. CallOK(q) /\ (q # r => call'[q] = call[q])
    BY DEF CallInv
  <2>2. CASE q = r
    BY <2>1, <2>2 DEF CallOK
  <2>3. CASE q # r
    BY <2>1, <2>3 DEF CallOK
  <2> QED  BY <2>2, <2>3
<1>3. ASSUME NEW q \in Calls PROVE HoldingOK(q)'
  <2>1. HoldingOK(q) /\ (q # r => call'[q] = call[q])
    BY DEF CallInv
  <2>2. CASE q = r
    BY <2>1, <2>2 DEF HoldingOK
  <2>3. CASE q # r
    BY <2>1, <2>3 DEF HoldingOK, CallInv
  <2> QED  BY <2>2, <2>3
<1>4. ASSUME NEW d \in Channels PROVE LockOK(d)'
  BY DEF ChannelInv, LockOK, CallInv, HoldingOK, CallOK, EngineOK
<1>5. ASSUME NEW d \in Channels PROVE EngineOK(d)'
  <2>1. \A e \in Channels : engine[e] # t
    BY DEF ChannelInv, EngineOK
  <2>2. CASE d = call[r].to
    BY <2>2 DEF ChannelInv, EngineOK, CallInv, CallOK
  <2>3. CASE d # call[r].to
    BY <2>1, <2>3 DEF ChannelInv, EngineOK
  <2> QED  BY <2>2, <2>3
<1>6. ASSUME NEW u \in Threads PROVE ThreadOK(u)'
  <2>1. ThreadOK(u)
    BY DEF ThreadInv
  <2>2. CASE u = t
    BY <2>1, <2>2 DEF CallInv, CallOK, HoldingOK, ChannelInv, EngineOK, LockOK, ThreadOK, InHand
  <2>3. CASE u # t
    <3>1. thread'[u] = thread[u] /\ (thread[u] # "ended" => \A d \in Channels : engine[d] = u => engine'[d] = u)
      BY <2>3
    <3>2. \A q \in Calls : call[q].of = u =>
           /\ call[q].at \in Holding => call'[q].of = u /\ call'[q].at \in Holding
           /\ call[q].at = "wait" => call'[q].of = u /\ call'[q].at = "wait"
      BY <2>3
    <3> QED  BY <2>1, <3>1, <3>2, ThreadOthers
  <2> QED  BY <2>2, <2>3
<1>7. ASSUME ~overlapped', NEW q \in Calls, Applies(q)' PROVE SwapOK(q)'
  <2>1. q # r /\ Applies(q) /\ SwapOK(q) /\ call'[q] = call[q]
    BY <1>7 DEF SwapInv
  <2>2. ~Swaps(q)
    BY <2>1 DEF SwapOK, CallInv, CallOK
  <2> QED  BY <2>1, <2>2, SwapOthers
<1>8. DownIsDown'
  BY DEF DownIsDown, CallInv, CallOK, HoldingOK, ChannelInv, EngineOK, LockOK
<1>9. ASSUME ~overlapped', NEW d \in Channels, d # live', IsRunning(d)'
      PROVE  \E q \in Calls : UnderWay(q)' /\ d \in {call'[q].from, call'[q].to}
  <2>1. Applies(r) /\ SwapOK(r) /\ CallOK(r)
    BY <1>9 DEF SwapInv, CallInv, CallOK
  <2>2. live = call[r].to
    BY <2>1 DEF SwapOK
  <2>3. d # live /\ IsRunning(d)
    BY <1>9, <2>2, <2>1 DEF ChannelInv, EngineOK
  <2>4. d \notin {call[r].from, call[r].to}
    BY <2>1, <2>2, <2>3 DEF SwapOK
  <2> QED  BY <1>9, <2>3, <2>4, OldOthers
<1> QED  BY <1>1, <1>2, <1>3, <1>4, <1>5, <1>6, <1>7, <1>8, <1>9
         DEF CallInv, ChannelInv, ThreadInv, SwapInv, OldEngineIsStopped

(* A stop of a channel whose child runs. *)
LEMMA StopFinds ==
  ASSUME SwapIInv, NEW r \in Calls,
         call[r].at = "stop",
         family[call[r].on] = "whisper",
         IsRunning(call[r].on),
         Goes(r, "wait", call[r].on, engine[call[r].on]),
         UNCHANGED <<live, family, engine, locked, said, thread, stops, abandoned, overlapped>>
  PROVE  SwapIInv'
<1>1. SwapTypeOK'
  BY DEF CallInv, CallOK, HoldingOK
<1>2. ASSUME NEW q \in Calls PROVE CallOK(q)'
  <2>1. CallOK(q) /\ (q # r => call'[q] = call[q])
    BY DEF CallInv
  <2>2. CASE q = r
    BY <2>1, <2>2 DEF CallOK, ChannelInv, EngineOK
  <2>3. CASE q # r
    BY <2>1, <2>3 DEF CallOK
  <2> QED  BY <2>2, <2>3
<1>3. ASSUME NEW q \in Calls PROVE HoldingOK(q)'
  BY DEF CallInv, HoldingOK, CallOK, ChannelInv, LockOK, EngineOK
<1>4. ASSUME NEW d \in Channels PROVE LockOK(d)'
  BY DEF ChannelInv, LockOK, CallInv, HoldingOK, CallOK, EngineOK
<1>5. ASSUME NEW d \in Channels PROVE EngineOK(d)'
  BY DEF ChannelInv, EngineOK, CallInv, HoldingOK, CallOK, LockOK
<1>6. ASSUME NEW t \in Threads PROVE ThreadOK(t)'
  <2>0. ThreadOK(t) /\ \A q \in Calls : q # r => call'[q] = call[q]
    BY DEF ThreadInv
  <2> QED  BY <2>0, ThreadOthers
<1>7. ASSUME ~overlapped', NEW q \in Calls, Applies(q)' PROVE SwapOK(q)'
  <2>1. CASE q = r
    <3>1. Applies(r) /\ SwapOK(r) /\ CallOK(r)
      BY <1>7, <2>1 DEF SwapInv, CallInv
    <3> QED  BY <2>1, <3>1, <1>7, SMTT(30) DEF SwapOK, CallOK
  <2>2. CASE q # r
    <3>1. Applies(q) /\ SwapOK(q) /\ call'[q] = call[q]
      BY <1>7, <2>2 DEF SwapInv
    <3>2. \A p \in Calls : Applies(p)' => Applies(p)
      OBVIOUS
    <3>3. call[q].from \in Channels
      BY <3>1 DEF CallInv, CallOK
    <3> QED  BY <3>1, <3>2, <3>3, SwapOthers
  <2> QED  BY <2>1, <2>2
<1>8. DownIsDown'
  BY DEF DownIsDown, CallInv, CallOK, HoldingOK, ChannelInv, EngineOK, LockOK
<1>9. ASSUME ~overlapped', NEW d \in Channels, d # live', IsRunning(d)'
      PROVE  \E q \in Calls : UnderWay(q)' /\ d \in {call'[q].from, call'[q].to}
  <2>1. d # live /\ IsRunning(d)
    BY <1>9
  <2> QED  BY <1>9, <2>1, OldOthers
<1> QED  BY <1>1, <1>2, <1>3, <1>4, <1>5, <1>6, <1>7, <1>8, <1>9
         DEF CallInv, ChannelInv, ThreadInv, SwapInv, OldEngineIsStopped

(* A stop of a channel without one. *)
LEMMA StopFindsNone ==
  ASSUME SwapIInv, NEW r \in Calls,
         call[r].at = "stop",
         family[call[r].on] = "whisper",
         ~IsRunning(call[r].on),
         Leaves(r),
         engine' = [engine EXCEPT ![call[r].on] = Nobody],
         UNCHANGED <<live, family, locked, said, thread, stops, abandoned, overlapped>>
  PROVE  SwapIInv'
<1>1. SwapTypeOK'
  BY DEF CallInv, CallOK, HoldingOK
<1>2. ASSUME NEW q \in Calls PROVE CallOK(q)'
  <2>1. CallOK(q) /\ (q # r => call'[q] = call[q])
    BY DEF CallInv
  <2>2. CASE q = r
    BY <2>1, <2>2 DEF CallOK
  <2>3. CASE q # r
    BY <2>1, <2>3 DEF CallOK
  <2> QED  BY <2>2, <2>3
<1>3. ASSUME NEW q \in Calls PROVE HoldingOK(q)'
  BY DEF CallInv, HoldingOK, CallOK, ChannelInv, LockOK, EngineOK
<1>4. ASSUME NEW d \in Channels PROVE LockOK(d)'
  BY DEF ChannelInv, LockOK, CallInv, HoldingOK, CallOK, EngineOK
<1>5. ASSUME NEW d \in Channels PROVE EngineOK(d)'
  BY DEF ChannelInv, EngineOK, CallInv, HoldingOK, CallOK, LockOK
<1>6. ASSUME NEW t \in Threads PROVE ThreadOK(t)'
  <2>1. ThreadOK(t) /\ \A q \in Calls : q # r => call'[q] = call[q]
    BY DEF ThreadInv
  <2>2. thread[t] # "ended" => \A c \in Channels : engine[c] = t => engine'[c] = t
    BY DEF CallInv, CallOK
  <2>3. call[r].at \notin Holding /\ call[r].at # "wait"
    OBVIOUS
  <2> QED  BY <2>1, <2>2, <2>3, ThreadOthers
<1>7. ASSUME ~overlapped', NEW q \in Calls, Applies(q)' PROVE SwapOK(q)'
  <2>1. CASE q = r
    <3>1. Applies(r) /\ SwapOK(r) /\ CallOK(r)
      BY <1>7, <2>1 DEF SwapInv, CallInv
    <3> QED  BY <2>1, <3>1, <1>7 DEF SwapOK, CallOK
  <2>2. CASE q # r
    <3>1. Applies(q) /\ SwapOK(q) /\ call'[q] = call[q]
      BY <1>7, <2>2 DEF SwapInv
    <3>2. \A p \in Calls : Applies(p)' => Applies(p)
      OBVIOUS
    <3>3. call[q].from \in Channels
      BY <3>1 DEF CallInv, CallOK
    <3> QED  BY <3>1, <3>2, <3>3, SwapOthers
  <2> QED  BY <2>1, <2>2
<1>8. DownIsDown'
  BY DEF DownIsDown, CallInv, CallOK, HoldingOK, ChannelInv, EngineOK, LockOK
<1>9. ASSUME ~overlapped', NEW d \in Channels, d # live', IsRunning(d)'
      PROVE  \E q \in Calls : UnderWay(q)' /\ d \in {call'[q].from, call'[q].to}
  <2>1. d # live /\ IsRunning(d)
    BY <1>9
  <2>2. ASSUME UnderWay(r), d \in {call[r].from, call[r].to}, call[r].wants # "stop" => Ends(r)
        PROVE  FALSE
    <3>1. Applies(r) /\ SwapOK(r) /\ CallOK(r)
      BY <1>9, <2>2 DEF SwapInv, CallInv, CallOK
    <3> QED  BY <2>1, <2>2, <3>1 DEF SwapOK, CallOK
  <2> QED  BY <1>9, <2>1, <2>2, OldOthers
<1> QED  BY <1>1, <1>2, <1>3, <1>4, <1>5, <1>6, <1>7, <1>8, <1>9
         DEF CallInv, ChannelInv, ThreadInv, SwapInv, OldEngineIsStopped

(* The child ends while its channel still names it. *)
LEMMA ChildIsKilled ==
  ASSUME SwapIInv, NEW r \in Calls,
         call[r].at = "wait",
         family[call[r].on] = "whisper",
         Goes(r, "leave", call[r].on, call[r].of),
         thread' = [thread EXCEPT ![call[r].of] = "ended"],
         UNCHANGED <<live, family, engine, locked, said, stops, abandoned, overlapped>>
  PROVE  SwapIInv'
<1>1. SwapTypeOK'
  BY DEF CallInv, CallOK, HoldingOK
<1>2. ASSUME NEW q \in Calls PROVE CallOK(q)'
  <2>1. CallOK(q) /\ (q # r => call'[q] = call[q])
    BY DEF CallInv
  <2>2. CASE q = r
    BY <2>1, <2>2 DEF CallOK
  <2>3. CASE q # r
    BY <2>1, <2>3 DEF CallOK
  <2> QED  BY <2>2, <2>3
<1>3. ASSUME NEW q \in Calls PROVE HoldingOK(q)'
  BY DEF CallInv, HoldingOK, CallOK, ChannelInv, LockOK, EngineOK
<1>4. ASSUME NEW d \in Channels PROVE LockOK(d)'
  BY DEF ChannelInv, LockOK, CallInv, HoldingOK, CallOK, EngineOK
<1>5. ASSUME NEW d \in Channels PROVE EngineOK(d)'
  BY DEF ChannelInv, EngineOK, CallInv, HoldingOK, CallOK, LockOK
<1>6. ASSUME NEW t \in Threads PROVE ThreadOK(t)'
  <2>1. ThreadOK(t)
    BY DEF ThreadInv
  <2>2. CASE t = call[r].of
    BY <2>1, <2>2 DEF CallInv, CallOK, HoldingOK, ChannelInv, EngineOK, LockOK, ThreadOK, InHand
  <2>3. CASE t # call[r].of
    <3>1. thread'[t] = thread[t] /\ (thread[t] # "ended" => \A d \in Channels : engine[d] = t => engine'[d] = t)
      BY <2>3
    <3>2. \A q \in Calls : call[q].of = t =>
           /\ call[q].at \in Holding => call'[q].of = t /\ call'[q].at \in Holding
           /\ call[q].at = "wait" => call'[q].of = t /\ call'[q].at = "wait"
      BY <2>3
    <3> QED  BY <2>1, <3>1, <3>2, ThreadOthers
  <2> QED  BY <2>2, <2>3
<1>7. ASSUME ~overlapped', NEW q \in Calls, Applies(q)' PROVE SwapOK(q)'
  <2>1. CASE q = r
    <3>1. Applies(r) /\ SwapOK(r) /\ CallOK(r)
      BY <1>7, <2>1 DEF SwapInv, CallInv
    <3> QED  BY <2>1, <3>1, <1>7 DEF SwapOK, CallOK
  <2>2. CASE q # r
    <3>1. Applies(q) /\ SwapOK(q) /\ call'[q] = call[q]
      BY <1>7, <2>2 DEF SwapInv
    <3>2. \A p \in Calls : Applies(p)' => Applies(p)
      OBVIOUS
    <3>3. call[q].from \in Channels
      BY <3>1 DEF CallInv, CallOK
    <3>4. \A d \in Channels : IsRunning(d)' => IsRunning(d)
      OBVIOUS
    <3> QED  BY <3>1, <3>2, <3>3, <3>4, SwapOthers
  <2> QED  BY <2>1, <2>2
<1>8. DownIsDown'
  BY DEF DownIsDown, CallInv, CallOK, HoldingOK, ChannelInv, EngineOK, LockOK
<1>9. ASSUME ~overlapped', NEW d \in Channels, d # live', IsRunning(d)'
      PROVE  \E q \in Calls : UnderWay(q)' /\ d \in {call'[q].from, call'[q].to}
  <2>1. d # live /\ IsRunning(d)
    BY <1>9
  <2> QED  BY <1>9, <2>1, OldOthers
<1> QED  BY <1>1, <1>2, <1>3, <1>4, <1>5, <1>6, <1>7, <1>8, <1>9
         DEF CallInv, ChannelInv, ThreadInv, SwapInv, OldEngineIsStopped

(* The channel forgets the child, unless it names another by now. *)
LEMMA StopIsOver ==
  ASSUME SwapIInv, NEW r \in Calls,
         call[r].at = "leave",
         family[call[r].on] = "whisper",
         Leaves(r),
         engine' = IF engine[call[r].on] = call[r].of THEN [engine EXCEPT ![call[r].on] = Nobody] ELSE engine,
         UNCHANGED <<live, family, locked, said, thread, stops, abandoned, overlapped>>
  PROVE  SwapIInv'
<1>1. SwapTypeOK'
  BY DEF CallInv, CallOK, HoldingOK
<1>2. ASSUME NEW q \in Calls PROVE CallOK(q)'
  BY DEF CallInv, CallOK, HoldingOK, ChannelInv, EngineOK
<1>3. ASSUME NEW q \in Calls PROVE HoldingOK(q)'
  BY DEF CallInv, HoldingOK, CallOK, ChannelInv, LockOK, EngineOK
<1>4. ASSUME NEW d \in Channels PROVE LockOK(d)'
  BY DEF ChannelInv, LockOK, CallInv, HoldingOK, CallOK, EngineOK
<1>5. ASSUME NEW d \in Channels PROVE EngineOK(d)'
  BY DEF ChannelInv, EngineOK, CallInv, HoldingOK, CallOK, LockOK
<1>6. ASSUME NEW t \in Threads PROVE ThreadOK(t)'
  <2>1. ThreadOK(t) /\ \A q \in Calls : q # r => call'[q] = call[q]
    BY DEF ThreadInv
  <2>2. thread[t] # "ended" => \A c \in Channels : engine[c] = t => engine'[c] = t
    BY DEF CallInv, CallOK
  <2>3. call[r].at \notin Holding /\ call[r].at # "wait"
    OBVIOUS
  <2> QED  BY <2>1, <2>2, <2>3, ThreadOthers
<1>7. ASSUME ~overlapped', NEW q \in Calls, Applies(q)' PROVE SwapOK(q)'
  <2>1. CASE q = r
    <3>1. Applies(r) /\ SwapOK(r) /\ CallOK(r)
      BY <1>7, <2>1 DEF SwapInv, CallInv
    <3> QED  BY <2>1, <3>1, <1>7 DEF SwapOK, CallOK
  <2>2. CASE q # r
    <3>1. Applies(q) /\ SwapOK(q) /\ call'[q] = call[q]
      BY <1>7, <2>2 DEF SwapInv
    <3>2. \A p \in Calls : Applies(p)' => Applies(p)
      OBVIOUS
    <3>3. call[q].from \in Channels
      BY <3>1 DEF CallInv, CallOK
    <3> QED  BY <3>1, <3>2, <3>3, SwapOthers
  <2> QED  BY <2>1, <2>2
<1>8. DownIsDown'
  BY DEF DownIsDown, CallInv, CallOK, HoldingOK, ChannelInv, EngineOK, LockOK
<1>9. ASSUME ~overlapped', NEW d \in Channels, d # live', IsRunning(d)'
      PROVE  \E q \in Calls : UnderWay(q)' /\ d \in {call'[q].from, call'[q].to}
  <2>1. d # live /\ IsRunning(d)
    BY <1>9
  <2>2. ASSUME UnderWay(r), d \in {call[r].from, call[r].to}, call[r].wants # "stop" => Ends(r)
        PROVE  FALSE
    <3>1. Applies(r) /\ SwapOK(r) /\ CallOK(r)
      BY <1>9, <2>2 DEF SwapInv, CallInv, CallOK
    <3> QED  BY <2>1, <2>2, <3>1 DEF SwapOK, CallOK
  <2> QED  BY <1>9, <2>1, <2>2, OldOthers
<1> QED  BY <1>1, <1>2, <1>3, <1>4, <1>5, <1>6, <1>7, <1>8, <1>9
         DEF CallInv, ChannelInv, ThreadInv, SwapInv, OldEngineIsStopped

(* A start that is refused leaves nothing behind. *)
LEMMA StartFails ==
  ASSUME SwapIInv, NEW r \in Calls,
         call[r].at = "start",
         family[call[r].to] = "moonshine",
         locked[call[r].to] = Nobody,
         ~IsRunning(call[r].to),
         Ends(r),
         said' = [said EXCEPT ![call[r].to] = "error"],
         locked' = [locked EXCEPT ![call[r].to] = Nobody],
         UNCHANGED <<live, family, engine, thread, stops, abandoned, overlapped>>
  PROVE  SwapIInv'
<1>1. SwapTypeOK'
  BY DEF CallInv, CallOK, HoldingOK
<1>2. ASSUME NEW q \in Calls PROVE CallOK(q)'
  BY DEF CallInv, CallOK, HoldingOK, ChannelInv, EngineOK
<1>3. ASSUME NEW q \in Calls PROVE HoldingOK(q)'
  <2>1. HoldingOK(q) /\ (q # r => call'[q] = call[q])
    BY DEF CallInv
  <2>2. CASE q = r
    BY <2>1, <2>2 DEF HoldingOK
  <2>3. CASE q # r
    BY <2>1, <2>3 DEF HoldingOK, CallInv
  <2> QED  BY <2>2, <2>3
<1>4. ASSUME NEW d \in Channels PROVE LockOK(d)'
  BY DEF ChannelInv, LockOK, CallInv, HoldingOK, CallOK, EngineOK
<1>5. ASSUME NEW d \in Channels PROVE EngineOK(d)'
  BY DEF ChannelInv, EngineOK, CallInv, HoldingOK, CallOK, LockOK
<1>6. ASSUME NEW t \in Threads PROVE ThreadOK(t)'
  <2>0. ThreadOK(t) /\ \A q \in Calls : q # r => call'[q] = call[q]
    BY DEF ThreadInv
  <2> QED  BY <2>0, ThreadOthers
<1>7. ASSUME ~overlapped', NEW q \in Calls, Applies(q)' PROVE SwapOK(q)'
  <2>1. q # r /\ Applies(q) /\ SwapOK(q) /\ call'[q] = call[q]
    BY <1>7 DEF SwapInv
  <2>2. \A p \in Calls : Applies(p)' => Applies(p)
    OBVIOUS
  <2>3. call[q].from \in Channels
    BY <2>1 DEF CallInv, CallOK
  <2> QED  BY <2>1, <2>2, <2>3, SwapOthers
<1>8. DownIsDown'
  BY DEF DownIsDown, CallInv, CallOK, HoldingOK, ChannelInv, EngineOK, LockOK
<1>9. ASSUME ~overlapped', NEW d \in Channels, d # live', IsRunning(d)'
      PROVE  \E q \in Calls : UnderWay(q)' /\ d \in {call'[q].from, call'[q].to}
  <2>1. d # live /\ IsRunning(d)
    BY <1>9
  <2>2. ASSUME UnderWay(r), d \in {call[r].from, call[r].to}
        PROVE  FALSE
    <3>1. Applies(r) /\ SwapOK(r) /\ CallOK(r)
      BY <1>9, <2>2 DEF SwapInv, CallInv, CallOK
    <3> QED  BY <2>1, <2>2, <3>1 DEF SwapOK, CallOK
  <2> QED  BY <1>9, <2>1, <2>2, OldOthers
<1> QED  BY <1>1, <1>2, <1>3, <1>4, <1>5, <1>6, <1>7, <1>8, <1>9
         DEF CallInv, ChannelInv, ThreadInv, SwapInv, OldEngineIsStopped

(* A loop thread begins, and its start has the lock. *)
LEMMA ServerStarts ==
  ASSUME SwapIInv, NEW r \in Calls, NEW t \in Threads,
         call[r].at = "start",
         family[call[r].to] = "moonshine",
         locked[call[r].to] = Nobody,
         ~IsRunning(call[r].to),
         thread[t] = "unborn",
         Goes(r, "ready", call[r].on, t),
         locked' = [locked EXCEPT ![call[r].to] = r],
         thread' = [thread EXCEPT ![t] = "binding"],
         UNCHANGED <<live, family, engine, said, stops, abandoned, overlapped>>
  PROVE  SwapIInv'
<1>1. SwapTypeOK'
  BY DEF CallInv, CallOK, HoldingOK
<1>2. ASSUME NEW q \in Calls PROVE CallOK(q)'
  <2>1. CallOK(q) /\ (q # r => call'[q] = call[q])
    BY DEF CallInv
  <2>2. CASE q = r
    BY <2>1, <2>2 DEF CallOK
  <2>3. CASE q # r
    BY <2>1, <2>3 DEF CallOK
  <2> QED  BY <2>2, <2>3
<1>3. ASSUME NEW q \in Calls PROVE HoldingOK(q)'
  <2>1. HoldingOK(q) /\ (q # r => call'[q] = call[q])
    BY DEF CallInv
  <2>2. CASE q = r
    BY <2>2 DEF HoldingOK, CallInv, CallOK
  <2>3. CASE q # r
    BY <2>1, <2>3 DEF HoldingOK, CallInv
  <2> QED  BY <2>2, <2>3
<1>4. ASSUME NEW d \in Channels PROVE LockOK(d)'
  BY DEF ChannelInv, LockOK, CallInv, HoldingOK, CallOK, EngineOK
<1>5. ASSUME NEW d \in Channels PROVE EngineOK(d)'
  <2>1. \A e \in Channels : engine[e] # t
    BY DEF ChannelInv, EngineOK
  <2> QED  BY <2>1 DEF ChannelInv, EngineOK
<1>6. ASSUME NEW u \in Threads PROVE ThreadOK(u)'
  <2>1. ThreadOK(u)
    BY DEF ThreadInv
  <2>2. CASE u = t
    BY <2>1, <2>2 DEF CallInv, CallOK, HoldingOK, ChannelInv, EngineOK, LockOK, ThreadOK, InHand
  <2>3. CASE u # t
    <3>1. thread'[u] = thread[u] /\ (thread[u] # "ended" => \A d \in Channels : engine[d] = u => engine'[d] = u)
      BY <2>3
    <3>2. \A q \in Calls : call[q].of = u =>
           /\ call[q].at \in Holding => call'[q].of = u /\ call'[q].at \in Holding
           /\ call[q].at = "wait" => call'[q].of = u /\ call'[q].at = "wait"
      BY <2>3
    <3> QED  BY <2>1, <3>1, <3>2, ThreadOthers
  <2> QED  BY <2>2, <2>3
<1>7. ASSUME ~overlapped', NEW q \in Calls, Applies(q)' PROVE SwapOK(q)'
  <2>1. CASE q = r
    <3>1. Applies(r) /\ SwapOK(r) /\ CallOK(r)
      BY <1>7, <2>1 DEF SwapInv, CallInv
    <3> QED  BY <2>1, <3>1, <1>7 DEF SwapOK, CallOK
  <2>2. CASE q # r
    <3>1. Applies(q) /\ SwapOK(q) /\ call'[q] = call[q]
      BY <1>7, <2>2 DEF SwapInv
    <3>2. \A p \in Calls : Applies(p)' => Applies(p)
      OBVIOUS
    <3>3. call[q].from \in Channels
      BY <3>1 DEF CallInv, CallOK
    <3> QED  BY <3>1, <3>2, <3>3, SwapOthers
  <2> QED  BY <2>1, <2>2
<1>8. DownIsDown'
  BY DEF DownIsDown, CallInv, CallOK, HoldingOK, ChannelInv, EngineOK, LockOK
<1>9. ASSUME ~overlapped', NEW d \in Channels, d # live', IsRunning(d)'
      PROVE  \E q \in Calls : UnderWay(q)' /\ d \in {call'[q].from, call'[q].to}
  <2>1. d # live /\ IsRunning(d)
    BY <1>9
  <2> QED  BY <1>9, <2>1, OldOthers
<1> QED  BY <1>1, <1>2, <1>3, <1>4, <1>5, <1>6, <1>7, <1>8, <1>9
         DEF CallInv, ChannelInv, ThreadInv, SwapInv, OldEngineIsStopped

(* The channel takes its server. Under the lock it had none. *)
LEMMA ServerIsTaken ==
  ASSUME SwapIInv, NEW r \in Calls,
         call[r].at = "ready",
         thread[call[r].of] \in {"bound", "serving"},
         Ends(r),
         engine' = [engine EXCEPT ![call[r].to] = call[r].of],
         said' = [said EXCEPT ![call[r].to] = "running"],
         locked' = [locked EXCEPT ![call[r].to] = Nobody],
         UNCHANGED <<live, family, thread, stops, abandoned, overlapped>>
  PROVE  SwapIInv'
<1>1. SwapTypeOK'
  BY DEF CallInv, CallOK, HoldingOK
<1>2. ASSUME NEW q \in Calls PROVE CallOK(q)'
  <2>1. CallOK(q) /\ (q # r => call'[q] = call[q])
    BY DEF CallInv
  <2>2. CASE q = r
    BY <2>1, <2>2 DEF CallOK
  <2>3. CASE q # r
    BY <2>1, <2>3 DEF CallOK
  <2> QED  BY <2>2, <2>3
<1>3. ASSUME NEW q \in Calls PROVE HoldingOK(q)'
  <2>1. HoldingOK(q) /\ (q # r => call'[q] = call[q])
    BY DEF CallInv
  <2>2. CASE q = r
    BY <2>1, <2>2 DEF HoldingOK
  <2>3. CASE q # r
    BY <2>1, <2>3 DEF HoldingOK, CallInv
  <2> QED  BY <2>2, <2>3
<1>4. ASSUME NEW d \in Channels PROVE LockOK(d)'
  BY DEF ChannelInv, LockOK, CallInv, HoldingOK, CallOK, EngineOK
<1>5. ASSUME NEW d \in Channels PROVE EngineOK(d)'
  BY DEF ChannelInv, EngineOK, CallInv, HoldingOK, CallOK, LockOK
<1>6. ASSUME NEW t \in Threads PROVE ThreadOK(t)'
  <2>0. ThreadOK(t) /\ \A q \in Calls : q # r => call'[q] = call[q]
    BY DEF ThreadInv
  <2>1. CASE t = call[r].of
    BY <2>0, <2>1 DEF CallInv, CallOK, HoldingOK, ChannelInv, EngineOK, LockOK, ThreadOK, InHand
  <2>2. CASE t # call[r].of
    BY <2>0, <2>2, ThreadOthers DEF CallInv, CallOK, HoldingOK, ChannelInv, EngineOK, LockOK
  <2> QED  BY <2>1, <2>2
<1>7. ASSUME ~overlapped', NEW q \in Calls, Applies(q)' PROVE SwapOK(q)'
  <2>1. q # r /\ Applies(q) /\ SwapOK(q) /\ call'[q] = call[q]
    BY <1>7 DEF SwapInv
  <2>2. ~Swaps(q)
    BY <2>1 DEF SwapOK, CallInv, CallOK
  <2> QED  BY <2>1, <2>2, SwapOthers
<1>8. DownIsDown'
  BY DEF DownIsDown, CallInv, CallOK, HoldingOK, ChannelInv, EngineOK, LockOK
<1>9. ASSUME ~overlapped', NEW d \in Channels, d # live', IsRunning(d)'
      PROVE  \E q \in Calls : UnderWay(q)' /\ d \in {call'[q].from, call'[q].to}
  <2>1. Applies(r) /\ SwapOK(r) /\ CallOK(r)
    BY <1>9 DEF SwapInv, CallInv, CallOK
  <2>2. live = call[r].to
    BY <2>1 DEF SwapOK
  <2>3. d # live /\ IsRunning(d)
    BY <1>9, <2>2
  <2>4. d \notin {call[r].from, call[r].to}
    BY <2>1, <2>2, <2>3 DEF SwapOK
  <2> QED  BY <1>9, <2>3, <2>4, OldOthers
<1> QED  BY <1>1, <1>2, <1>3, <1>4, <1>5, <1>6, <1>7, <1>8, <1>9
         DEF CallInv, ChannelInv, ThreadInv, SwapInv, OldEngineIsStopped

(* A server that could not bind is nobody's. *)
LEMMA BindFailed ==
  ASSUME SwapIInv, NEW r \in Calls,
         call[r].at = "ready",
         thread[call[r].of] \in {"failed", "ended"},
         Ends(r),
         said' = [said EXCEPT ![call[r].to] = "error"],
         locked' = [locked EXCEPT ![call[r].to] = Nobody],
         UNCHANGED <<live, family, engine, thread, stops, abandoned, overlapped>>
  PROVE  SwapIInv'
<1>1. SwapTypeOK'
  BY DEF CallInv, CallOK, HoldingOK
<1>2. ASSUME NEW q \in Calls PROVE CallOK(q)'
  BY DEF CallInv, CallOK, HoldingOK, ChannelInv, EngineOK
<1>3. ASSUME NEW q \in Calls PROVE HoldingOK(q)'
  <2>1. HoldingOK(q) /\ (q # r => call'[q] = call[q])
    BY DEF CallInv
  <2>2. CASE q = r
    BY <2>1, <2>2 DEF HoldingOK
  <2>3. CASE q # r
    BY <2>1, <2>3 DEF HoldingOK, CallInv
  <2> QED  BY <2>2, <2>3
<1>4. ASSUME NEW d \in Channels PROVE LockOK(d)'
  BY DEF ChannelInv, LockOK, CallInv, HoldingOK, CallOK, EngineOK
<1>5. ASSUME NEW d \in Channels PROVE EngineOK(d)'
  BY DEF ChannelInv, EngineOK, CallInv, HoldingOK, CallOK, LockOK
<1>6. ASSUME NEW t \in Threads PROVE ThreadOK(t)'
  <2>1. ThreadOK(t)
    BY DEF ThreadInv
  <2>2. CASE t = call[r].of
    BY <2>1, <2>2 DEF CallInv, CallOK, HoldingOK, ChannelInv, EngineOK, LockOK, ThreadOK, InHand
  <2>3. CASE t # call[r].of
    <3>1. thread'[t] = thread[t] /\ (thread[t] # "ended" => \A d \in Channels : engine[d] = t => engine'[d] = t)
      BY <2>3
    <3>2. \A q \in Calls : call[q].of = t =>
           /\ call[q].at \in Holding => call'[q].of = t /\ call'[q].at \in Holding
           /\ call[q].at = "wait" => call'[q].of = t /\ call'[q].at = "wait"
      BY <2>3
    <3> QED  BY <2>1, <3>1, <3>2, ThreadOthers
  <2> QED  BY <2>2, <2>3
<1>7. ASSUME ~overlapped', NEW q \in Calls, Applies(q)' PROVE SwapOK(q)'
  <2>1. q # r /\ Applies(q) /\ SwapOK(q) /\ call'[q] = call[q]
    BY <1>7 DEF SwapInv
  <2>2. \A p \in Calls : Applies(p)' => Applies(p)
    OBVIOUS
  <2>3. call[q].from \in Channels
    BY <2>1 DEF CallInv, CallOK
  <2> QED  BY <2>1, <2>2, <2>3, SwapOthers
<1>8. DownIsDown'
  BY DEF DownIsDown, CallInv, CallOK, HoldingOK, ChannelInv, EngineOK, LockOK
<1>9. ASSUME ~overlapped', NEW d \in Channels, d # live', IsRunning(d)'
      PROVE  \E q \in Calls : UnderWay(q)' /\ d \in {call'[q].from, call'[q].to}
  <2>1. d # live /\ IsRunning(d)
    BY <1>9
  <2>2. ASSUME UnderWay(r), d \in {call[r].from, call[r].to}
        PROVE  FALSE
    <3>1. Applies(r) /\ SwapOK(r) /\ CallOK(r)
      BY <1>9, <2>2 DEF SwapInv, CallInv, CallOK
    <3> QED  BY <2>1, <2>2, <3>1 DEF SwapOK, CallOK
  <2> QED  BY <1>9, <2>1, <2>2, OldOthers
<1> QED  BY <1>1, <1>2, <1>3, <1>4, <1>5, <1>6, <1>7, <1>8, <1>9
         DEF CallInv, ChannelInv, ThreadInv, SwapInv, OldEngineIsStopped

(* A stop of a channel without a server. *)
LEMMA NoServer ==
  ASSUME SwapIInv, NEW r \in Calls,
         call[r].at = "stop",
         family[call[r].on] = "moonshine",
         engine[call[r].on] = Nobody,
         Leaves(r),
         said' = [said EXCEPT ![call[r].on] = "stopped"],
         UNCHANGED <<live, family, engine, locked, thread, stops, abandoned, overlapped>>
  PROVE  SwapIInv'
<1>1. SwapTypeOK'
  BY DEF CallInv, CallOK, HoldingOK
<1>2. ASSUME NEW q \in Calls PROVE CallOK(q)'
  BY DEF CallInv, CallOK, HoldingOK, ChannelInv, EngineOK
<1>3. ASSUME NEW q \in Calls PROVE HoldingOK(q)'
  BY DEF CallInv, HoldingOK, CallOK, ChannelInv, LockOK, EngineOK
<1>4. ASSUME NEW d \in Channels PROVE LockOK(d)'
  BY DEF ChannelInv, LockOK, CallInv, HoldingOK, CallOK, EngineOK
<1>5. ASSUME NEW d \in Channels PROVE EngineOK(d)'
  BY DEF ChannelInv, EngineOK, CallInv, HoldingOK, CallOK, LockOK
<1>6. ASSUME NEW t \in Threads PROVE ThreadOK(t)'
  <2>0. ThreadOK(t) /\ \A q \in Calls : q # r => call'[q] = call[q]
    BY DEF ThreadInv
  <2> QED  BY <2>0, ThreadOthers
<1>7. ASSUME ~overlapped', NEW q \in Calls, Applies(q)' PROVE SwapOK(q)'
  <2>1. CASE q = r
    <3>1. Applies(r) /\ SwapOK(r) /\ CallOK(r)
      BY <1>7, <2>1 DEF SwapInv, CallInv
    <3> QED  BY <2>1, <3>1, <1>7 DEF SwapOK, CallOK, ChannelInv, EngineOK
  <2>2. CASE q # r
    <3>1. Applies(q) /\ SwapOK(q) /\ call'[q] = call[q]
      BY <1>7, <2>2 DEF SwapInv
    <3>2. call[q].from \in Channels
      BY <3>1 DEF CallInv, CallOK
    <3>3. \A p \in Calls : Applies(p)' => Applies(p)
      OBVIOUS
    <3> QED  BY <3>1, <3>2, <3>3, SwapOthers
  <2> QED  BY <2>1, <2>2
<1>8. DownIsDown'
  BY DEF DownIsDown, CallInv, CallOK, HoldingOK, ChannelInv, EngineOK, LockOK
<1>9. ASSUME ~overlapped', NEW d \in Channels, d # live', IsRunning(d)'
      PROVE  \E q \in Calls : UnderWay(q)' /\ d \in {call'[q].from, call'[q].to}
  <2>1. d # live /\ IsRunning(d)
    BY <1>9
  <2>2. ASSUME UnderWay(r), d \in {call[r].from, call[r].to}, call[r].wants # "stop" => Ends(r)
        PROVE  FALSE
    <3>1. Applies(r) /\ SwapOK(r) /\ CallOK(r)
      BY <1>9, <2>2 DEF SwapInv, CallInv, CallOK
    <3> QED  BY <2>1, <2>2, <3>1 DEF SwapOK, CallOK
  <2> QED  BY <1>9, <2>1, <2>2, OldOthers
<1> QED  BY <1>1, <1>2, <1>3, <1>4, <1>5, <1>6, <1>7, <1>8, <1>9
         DEF CallInv, ChannelInv, ThreadInv, SwapInv, OldEngineIsStopped

(* A stop takes the server out of its channel, into its own hands ... *)
LEMMA ServerIsLeft ==
  ASSUME SwapIInv, NEW r \in Calls,
         call[r].at = "stop",
         family[call[r].on] = "moonshine",
         locked[call[r].on] = Nobody,
         engine[call[r].on] # Nobody,
         Goes(r, "wait", call[r].on, engine[call[r].on]),
         engine' = [engine EXCEPT ![call[r].on] = Nobody],
         UNCHANGED <<live, family, locked, said, thread, stops, abandoned, overlapped>>
  PROVE  SwapIInv'
<1>1. SwapTypeOK'
  BY DEF CallInv, CallOK, HoldingOK
<1>2. ASSUME NEW q \in Calls PROVE CallOK(q)'
  BY DEF CallInv, CallOK, HoldingOK, ChannelInv, EngineOK
<1>3. ASSUME NEW q \in Calls PROVE HoldingOK(q)'
  <2>1. HoldingOK(q) /\ (q # r => call'[q] = call[q])
    BY DEF CallInv
  <2>2. CASE q = r
    BY <2>1, <2>2 DEF HoldingOK
  <2>3. CASE q # r
    BY <2>1, <2>3 DEF HoldingOK, CallInv
  <2> QED  BY <2>2, <2>3
<1>4. ASSUME NEW d \in Channels PROVE LockOK(d)'
  BY DEF ChannelInv, LockOK, CallInv, HoldingOK, CallOK, EngineOK
<1>5. ASSUME NEW d \in Channels PROVE EngineOK(d)'
  BY DEF ChannelInv, EngineOK, CallInv, HoldingOK, CallOK, LockOK
<1>6. ASSUME NEW t \in Threads PROVE ThreadOK(t)'
  <2>1. ThreadOK(t) /\ \A q \in Calls : q # r => call'[q] = call[q]
    BY DEF ThreadInv
  <2>2. CASE t = engine[call[r].on]
    <3>1. InHand(t)'
      BY <2>2 DEF InHand
    <3>2. thread[t] \in {"bound", "serving", "closing", "ended"}
      BY <2>2 DEF CallInv, CallOK, ChannelInv, EngineOK
    <3> QED  BY <3>1, <3>2 DEF ThreadOK
  <2>3. CASE t # engine[call[r].on]
    BY <2>1, <2>3, ThreadOthers
  <2> QED  BY <2>2, <2>3
<1>7. ASSUME ~overlapped', NEW q \in Calls, Applies(q)' PROVE SwapOK(q)'
  <2>1. CASE q = r
    <3>1. Applies(r) /\ SwapOK(r) /\ CallOK(r)
      BY <1>7, <2>1 DEF SwapInv, CallInv
    <3> QED  BY <2>1, <3>1, <1>7 DEF SwapOK, CallOK, ChannelInv, EngineOK
  <2>2. CASE q # r
    <3>1. Applies(q) /\ SwapOK(q) /\ call'[q] = call[q]
      BY <1>7, <2>2 DEF SwapInv
    <3>2. \A p \in Calls : Applies(p)' => Applies(p)
      OBVIOUS
    <3>3. call[q].from \in Channels
      BY <3>1 DEF CallInv, CallOK
    <3> QED  BY <3>1, <3>2, <3>3, SwapOthers
  <2> QED  BY <2>1, <2>2
<1>8. DownIsDown'
  BY DEF DownIsDown, CallInv, CallOK, HoldingOK, ChannelInv, EngineOK, LockOK
<1>9. ASSUME ~overlapped', NEW d \in Channels, d # live', IsRunning(d)'
      PROVE  \E q \in Calls : UnderWay(q)' /\ d \in {call'[q].from, call'[q].to}
  <2>1. d # live /\ IsRunning(d)
    BY <1>9
  <2> QED  BY <1>9, <2>1, OldOthers
<1> QED  BY <1>1, <1>2, <1>3, <1>4, <1>5, <1>6, <1>7, <1>8, <1>9
         DEF CallInv, ChannelInv, ThreadInv, SwapInv, OldEngineIsStopped

(* ... and out of these once the stop is queued. *)
LEMMA LoopIsStopped ==
  ASSUME SwapIInv, NEW r \in Calls,
         call[r].at = "wait",
         family[call[r].on] = "moonshine",
         Goes(r, "join", call[r].on, call[r].of),
         stops' = stops \cup {call[r].of},
         UNCHANGED <<live, family, engine, locked, said, thread, abandoned, overlapped>>
  PROVE  SwapIInv'
<1>1. SwapTypeOK'
  BY DEF CallInv, CallOK, HoldingOK
<1>2. ASSUME NEW q \in Calls PROVE CallOK(q)'
  <2>1. CallOK(q) /\ (q # r => call'[q] = call[q])
    BY DEF CallInv
  <2>2. CASE q = r
    BY <2>1, <2>2 DEF CallOK
  <2>3. CASE q # r
    BY <2>1, <2>3 DEF CallOK
  <2> QED  BY <2>2, <2>3
<1>3. ASSUME NEW q \in Calls PROVE HoldingOK(q)'
  <2>1. HoldingOK(q) /\ (q # r => call'[q] = call[q])
    BY DEF CallInv
  <2>2. CASE q = r
    BY <2>1, <2>2 DEF HoldingOK
  <2>3. CASE q # r
    BY <2>1, <2>3 DEF HoldingOK, CallInv
  <2> QED  BY <2>2, <2>3
<1>4. ASSUME NEW d \in Channels PROVE LockOK(d)'
  BY DEF ChannelInv, LockOK, CallInv, HoldingOK, CallOK, EngineOK
<1>5. ASSUME NEW d \in Channels PROVE EngineOK(d)'
  BY DEF ChannelInv, EngineOK, CallInv, HoldingOK, CallOK, LockOK
<1>6. ASSUME NEW t \in Threads PROVE ThreadOK(t)'
  <2>1. ThreadOK(t)
    BY DEF ThreadInv
  <2>2. CASE t = call[r].of
    BY <2>1, <2>2 DEF CallInv, CallOK, HoldingOK, ChannelInv, EngineOK, LockOK, ThreadOK, InHand
  <2>3. CASE t # call[r].of
    <3>1. thread'[t] = thread[t] /\ (thread[t] # "ended" => \A d \in Channels : engine[d] = t => engine'[d] = t)
      BY <2>3
    <3>2. \A q \in Calls : call[q].of = t =>
           /\ call[q].at \in Holding => call'[q].of = t /\ call'[q].at \in Holding
           /\ call[q].at = "wait" => call'[q].of = t /\ call'[q].at = "wait"
      BY <2>3
    <3> QED  BY <2>1, <2>3, <3>1, <3>2, ThreadOthers
  <2> QED  BY <2>2, <2>3
<1>7. ASSUME ~overlapped', NEW q \in Calls, Applies(q)' PROVE SwapOK(q)'
  <2>1. CASE q = r
    <3>1. Applies(r) /\ SwapOK(r) /\ CallOK(r)
      BY <1>7, <2>1 DEF SwapInv, CallInv
    <3> QED  BY <2>1, <3>1, <1>7 DEF SwapOK, CallOK, ChannelInv, EngineOK
  <2>2. CASE q # r
    <3>1. Applies(q) /\ SwapOK(q) /\ call'[q] = call[q]
      BY <1>7, <2>2 DEF SwapInv
    <3>2. \A p \in Calls : Applies(p)' => Applies(p)
      OBVIOUS
    <3>3. call[q].from \in Channels
      BY <3>1 DEF CallInv, CallOK
    <3> QED  BY <3>1, <3>2, <3>3, SwapOthers
  <2> QED  BY <2>1, <2>2
<1>8. DownIsDown'
  BY DEF DownIsDown, CallInv, CallOK, HoldingOK, ChannelInv, EngineOK, LockOK
<1>9. ASSUME ~overlapped', NEW d \in Channels, d # live', IsRunning(d)'
      PROVE  \E q \in Calls : UnderWay(q)' /\ d \in {call'[q].from, call'[q].to}
  <2>1. d # live /\ IsRunning(d)
    BY <1>9
  <2> QED  BY <1>9, <2>1, OldOthers
<1> QED  BY <1>1, <1>2, <1>3, <1>4, <1>5, <1>6, <1>7, <1>8, <1>9
         DEF CallInv, ChannelInv, ThreadInv, SwapInv, OldEngineIsStopped

(* A stop that comes back says so of a channel without a server only. *)
LEMMA ServerStopIsOver ==
  ASSUME SwapIInv, NEW r \in Calls, NEW x,
         call[r].at \in {"leave", "late"},
         family[call[r].on] = "moonshine",
         Leaves(r),
         x \in {"error", "stopped"},
         said' = IF engine[call[r].on] # Nobody THEN said ELSE [said EXCEPT ![call[r].on] = x],
         UNCHANGED <<live, family, engine, locked, thread, stops, abandoned, overlapped>>
  PROVE  SwapIInv'
<1>1. SwapTypeOK'
  BY DEF CallInv, CallOK, HoldingOK
<1>2. ASSUME NEW q \in Calls PROVE CallOK(q)'
  BY DEF CallInv, CallOK, HoldingOK, ChannelInv, EngineOK
<1>3. ASSUME NEW q \in Calls PROVE HoldingOK(q)'
  <2>1. HoldingOK(q) /\ (q # r => call'[q] = call[q])
    BY DEF CallInv
  <2>2. CASE q = r
    BY <2>1, <2>2 DEF HoldingOK
  <2>3. CASE q # r
    BY <2>1, <2>3 DEF HoldingOK, CallInv
  <2> QED  BY <2>2, <2>3
<1>4. ASSUME NEW d \in Channels PROVE LockOK(d)'
  BY DEF ChannelInv, LockOK, CallInv, HoldingOK, CallOK, EngineOK
<1>5. ASSUME NEW d \in Channels PROVE EngineOK(d)'
  BY DEF ChannelInv, EngineOK, CallInv, HoldingOK, CallOK, LockOK
<1>6. ASSUME NEW t \in Threads PROVE ThreadOK(t)'
  <2>0. ThreadOK(t) /\ \A q \in Calls : q # r => call'[q] = call[q]
    BY DEF ThreadInv
  <2> QED  BY <2>0, ThreadOthers
<1>7. ASSUME ~overlapped', NEW q \in Calls, Applies(q)' PROVE SwapOK(q)'
  <2>1. CASE q = r
    <3>1. Applies(r) /\ SwapOK(r) /\ CallOK(r)
      BY <1>7, <2>1 DEF SwapInv, CallInv
    <3>2. call[r].wants # "stop"
      BY <1>7, <2>1
    <3>3. CASE call[r].on = call[r].to
      <4>1. Goes(r, "again", call[r].on, call[r].of)
        BY <3>2, <3>3
      <4> QED  BY <2>1, <3>1, <3>3, <4>1 DEF SwapOK, CallOK, ChannelInv, EngineOK
    <3>4. CASE call[r].on # call[r].to
      <4>1. Goes(r, "install", call[r].on, call[r].of)
        BY <3>2, <3>4
      <4> QED  BY <2>1, <3>1, <3>4, <4>1 DEF SwapOK, CallOK, ChannelInv, EngineOK
    <3> QED  BY <3>3, <3>4
  <2>2. CASE q # r
    <3>1. Applies(q) /\ SwapOK(q) /\ call'[q] = call[q]
      BY <1>7, <2>2 DEF SwapInv
    <3> QED  BY <3>1, SwapOthers DEF CallInv, CallOK
  <2> QED  BY <2>1, <2>2
<1>8. DownIsDown'
  BY DEF DownIsDown, CallInv, CallOK, HoldingOK, ChannelInv, EngineOK, LockOK
<1>9. ASSUME ~overlapped', NEW d \in Channels, d # live', IsRunning(d)'
      PROVE  \E q \in Calls : UnderWay(q)' /\ d \in {call'[q].from, call'[q].to}
  <2>1. d # live /\ IsRunning(d)
    BY <1>9
  <2>2. ASSUME UnderWay(r), d \in {call[r].from, call[r].to}, call[r].wants # "stop" => Ends(r)
        PROVE  FALSE
    <3>1. Applies(r) /\ SwapOK(r) /\ CallOK(r)
      BY <1>9, <2>2 DEF SwapInv, CallInv, CallOK
    <3> QED  BY <2>1, <2>2, <3>1 DEF SwapOK, CallOK
  <2> QED  BY <1>9, <2>1, <2>2, OldOthers
<1> QED  BY <1>1, <1>2, <1>3, <1>4, <1>5, <1>6, <1>7, <1>8, <1>9
         DEF CallInv, ChannelInv, ThreadInv, SwapInv, OldEngineIsStopped

(* An engine that is as requested is left alone. *)
LEMMA LeftAlone ==
  ASSUME SwapIInv, NEW r \in Calls,
         call[r].at = "idle",
         Ends(r),
         UNCHANGED <<live, family, engine, locked, said, thread, stops, abandoned, overlapped>>
  PROVE  SwapIInv'
<1>1. SwapTypeOK'
  BY DEF CallInv, CallOK, HoldingOK
<1>2. ASSUME NEW q \in Calls PROVE CallOK(q)'
  BY DEF CallInv, CallOK, HoldingOK, ChannelInv, EngineOK
<1>3. ASSUME NEW q \in Calls PROVE HoldingOK(q)'
  BY DEF CallInv, HoldingOK, CallOK, ChannelInv, LockOK, EngineOK
<1>4. ASSUME NEW d \in Channels PROVE LockOK(d)'
  BY DEF ChannelInv, LockOK, CallInv, HoldingOK, CallOK, EngineOK
<1>5. ASSUME NEW d \in Channels PROVE EngineOK(d)'
  BY DEF ChannelInv, EngineOK, CallInv, HoldingOK, CallOK, LockOK
<1>6. ASSUME NEW t \in Threads PROVE ThreadOK(t)'
  <2>0. ThreadOK(t) /\ \A q \in Calls : q # r => call'[q] = call[q]
    BY DEF ThreadInv
  <2> QED  BY <2>0, ThreadOthers
<1>7. ASSUME ~overlapped', NEW q \in Calls, Applies(q)' PROVE SwapOK(q)'
  <2>1. q # r /\ Applies(q) /\ SwapOK(q) /\ call'[q] = call[q]
    BY <1>7 DEF SwapInv
  <2>2. \A p \in Calls : Applies(p)' => Applies(p)
    OBVIOUS
  <2>3. call[q].from \in Channels
    BY <2>1 DEF CallInv, CallOK
  <2> QED  BY <2>1, <2>2, <2>3, SwapOthers
<1>8. DownIsDown'
  BY DEF DownIsDown, CallInv, CallOK, HoldingOK, ChannelInv, EngineOK, LockOK
<1>9. ASSUME ~overlapped', NEW d \in Channels, d # live', IsRunning(d)'
      PROVE  \E q \in Calls : UnderWay(q)' /\ d \in {call'[q].from, call'[q].to}
  <2>1. d # live /\ IsRunning(d)
    BY <1>9
  <2>2. ASSUME UnderWay(r), d \in {call[r].from, call[r].to}
        PROVE  FALSE
    <3>1. Applies(r) /\ SwapOK(r) /\ CallOK(r)
      BY <1>9, <2>2 DEF SwapInv, CallInv, CallOK
    <3> QED  BY <2>1, <2>2, <3>1 DEF SwapOK, CallOK
  <2> QED  BY <1>9, <2>1, <2>2, OldOthers
<1> QED  BY <1>1, <1>2, <1>3, <1>4, <1>5, <1>6, <1>7, <1>8, <1>9
         DEF CallInv, ChannelInv, ThreadInv, SwapInv, OldEngineIsStopped

(* The plan. A swap that finds another apply under way is an overlap. *)
LEMMA Planned ==
  ASSUME SwapIInv, NEW r \in Calls, NEW c \in Channels,
         call[r].at = "idle",
         call[r].wants # "stop",
         family[c] = "unmade" \/ c = live,
         call' \in [Calls -> CallType],
         \A q \in Calls : q # r => call'[q] = call[q],
         call'[r].at = IF c = live THEN "announce" ELSE "swap",
         call'[r].from = live /\ call'[r].to = c,
         call'[r].wants = call[r].wants,
         family' = [family EXCEPT ![c] = call[r].wants],
         c = live => family[live] = call[r].wants,
         overlapped' = (overlapped \/ \E q \in Calls : Applies(q) /\ (c # live \/ Swaps(q))),
         UNCHANGED <<live, engine, locked, said, thread, stops, abandoned>>
  PROVE  SwapIInv'
<1>1. SwapTypeOK'
  <2>1. overlapped' \in BOOLEAN
    BY Zenon
  <2>2. family' \in [Channels -> {"unmade", "whisper", "moonshine"}]
    BY DEF CallType
  <2> QED  BY <2>1, <2>2
<1>2. ASSUME NEW q \in Calls PROVE CallOK(q)'
  <2>1. CallOK(q) /\ call[q] \in CallType /\ (q # r => call'[q] = call[q])
    BY DEF CallInv
  <2>2. family'[c] # "unmade" /\ family'[live] # "unmade" /\ \A d \in Channels : family[d] # "unmade" => family'[d] = family[d]
    BY DEF CallType, ChannelInv, EngineOK
  <2>3. CASE q = r
    BY <2>2, <2>3 DEF CallOK
  <2>4. CASE q # r
    BY <2>1, <2>2, <2>4 DEF CallOK, CallType
  <2> QED  BY <2>3, <2>4
<1>3. ASSUME NEW q \in Calls PROVE HoldingOK(q)'
  <2>1. HoldingOK(q) /\ (q # r => call'[q] = call[q])
    BY DEF CallInv
  <2>2. CASE q = r
    BY <2>1, <2>2 DEF HoldingOK
  <2>3. CASE q # r
    BY <2>1, <2>3 DEF HoldingOK, CallInv
  <2> QED  BY <2>2, <2>3
<1>4. ASSUME NEW d \in Channels PROVE LockOK(d)'
  BY DEF ChannelInv, LockOK, CallInv, HoldingOK, CallOK, EngineOK
<1>5. ASSUME NEW d \in Channels PROVE EngineOK(d)'
  BY DEF ChannelInv, EngineOK, CallInv, HoldingOK, CallOK, LockOK
<1>6. ASSUME NEW t \in Threads PROVE ThreadOK(t)'
  <2>0. ThreadOK(t) /\ \A q \in Calls : q # r => call'[q] = call[q]
    BY DEF ThreadInv
  <2> QED  BY <2>0, ThreadOthers
<1>7. ASSUME ~overlapped', NEW q \in Calls, Applies(q)' PROVE SwapOK(q)'
  <2>1. ~overlapped /\ \A p \in Calls : Applies(p) => c = live /\ ~Swaps(p)
    BY <1>7 DEF SwapInv
  <2>2. CASE q = r
    BY <2>1, <2>2 DEF SwapOK, ChannelInv, EngineOK
  <2>3. CASE q # r
    <3>1. Applies(q) /\ SwapOK(q) /\ ~Swaps(q) /\ call'[q] = call[q]
      BY <1>7, <2>1, <2>3 DEF SwapInv
    <3> QED  BY <3>1 DEF SwapOK
  <2> QED  BY <2>2, <2>3
<1>8. DownIsDown'
  BY DEF DownIsDown, CallInv, CallOK, HoldingOK, ChannelInv, EngineOK, LockOK
<1>9. ASSUME ~overlapped', NEW d \in Channels, d # live', IsRunning(d)'
      PROVE  \E q \in Calls : UnderWay(q)' /\ d \in {call'[q].from, call'[q].to}
  <2>1. d # live /\ IsRunning(d)
    BY <1>9
  <2>2. ASSUME UnderWay(r), d \in {call[r].from, call[r].to}
        PROVE  FALSE
    <3>1. Applies(r) /\ SwapOK(r) /\ CallOK(r)
      BY <1>9, <2>2 DEF SwapInv, CallInv, CallOK
    <3> QED  BY <2>1, <2>2, <3>1 DEF SwapOK, CallOK
  <2> QED  BY <1>9, <2>1, <2>2, OldOthers
<1> QED  BY <1>1, <1>2, <1>3, <1>4, <1>5, <1>6, <1>7, <1>8, <1>9
         DEF CallInv, ChannelInv, ThreadInv, SwapInv, OldEngineIsStopped

-----------------------------------------------------------------------------
(* The actions.                                                            *)

(* A step that gives a request another record. *)
LEMMA UpdateGoes ==
  ASSUME SwapTypeOK, NEW r \in Calls, NEW rec \in CallType, call' = [call EXCEPT ![r] = rec],
         rec.wants = call[r].wants, rec.from = call[r].from, rec.to = call[r].to
  PROVE  Goes(r, rec.at, rec.on, rec.of)
OBVIOUS

(* A request turns to stop a channel. *)
LEMMA StopGoes ==
  ASSUME SwapTypeOK, NEW r \in Calls, NEW x \in Places, NEW c \in Channels,
         call' = [call EXCEPT ![r].at = x, ![r].on = c]
  PROVE  Goes(r, x, c, call[r].of)
<1> DEFINE moved == [call[r] EXCEPT !.at = x]
           rec == [moved EXCEPT !.on = c]
<1>0. moved \in CallType /\ moved.at = x /\ moved.on = call[r].on /\ moved.of = call[r].of
      /\ moved.wants = call[r].wants /\ moved.from = call[r].from /\ moved.to = call[r].to
  <2>1. call[r] \in CallType
    OBVIOUS
  <2>2. moved \in CallType
    BY <2>1 DEF CallType
  <2> QED  BY <2>1, <2>2 DEF CallType
<1>1. rec \in CallType /\ rec.at = x /\ rec.on = c /\ rec.of = call[r].of
      /\ rec.wants = call[r].wants /\ rec.from = call[r].from /\ rec.to = call[r].to
  <2> HIDE DEF moved
  <2> QED  BY <1>0 DEF CallType
<1>2. call' = [call EXCEPT ![r] = rec]
  OBVIOUS
<1> QED  BY <1>1, <1>2, UpdateGoes

(* A request turns to wait for a thread. *)
LEMMA WaitGoes ==
  ASSUME SwapTypeOK, NEW r \in Calls, NEW x \in Places, NEW t \in Threads,
         call' = [call EXCEPT ![r].at = x, ![r].of = t]
  PROVE  Goes(r, x, call[r].on, t)
<1> DEFINE moved == [call[r] EXCEPT !.at = x]
           rec == [moved EXCEPT !.of = t]
<1>0. moved \in CallType /\ moved.at = x /\ moved.on = call[r].on /\ moved.of = call[r].of
      /\ moved.wants = call[r].wants /\ moved.from = call[r].from /\ moved.to = call[r].to
  <2>1. call[r] \in CallType
    OBVIOUS
  <2>2. moved \in CallType
    BY <2>1 DEF CallType
  <2> QED  BY <2>1, <2>2 DEF CallType
<1>1. rec \in CallType /\ rec.at = x /\ rec.on = call[r].on /\ rec.of = t
      /\ rec.wants = call[r].wants /\ rec.from = call[r].from /\ rec.to = call[r].to
  <2> HIDE DEF moved
  <2> QED  BY <1>0 DEF CallType
<1>2. call' = [call EXCEPT ![r] = rec]
  OBVIOUS
<1> QED  BY <1>1, <1>2, UpdateGoes

(* A step of a thread. What ends its hand-over is its own end alone. *)
LEMMA ThreadKeeps ==
  ASSUME SwapIInv, NEW t \in Threads, NEW x,
         \/ thread[t] = "child" /\ x = "ended"
         \/ thread[t] = "binding" /\ x \in {"bound", "failed"}
         \/ thread[t] = "bound" /\ x \in {"closing", "serving"}
         \/ thread[t] = "serving" /\ x = "closing"
         \/ thread[t] \in {"failed", "closing"} /\ x = "ended",
         x = "serving" => t \notin abandoned,
         thread' = [thread EXCEPT ![t] = x],
         stops' \in {stops, stops \ {t}}, abandoned' \in {abandoned, abandoned \ {t}},
         thread[t] = "bound" => stops' = stops,
         x # "ended" => abandoned' = abandoned,
         UNCHANGED <<live, family, engine, locked, said, call, overlapped>>
  PROVE  SwapIInv'
<1>1. SwapTypeOK'
  OBVIOUS
<1>2. ASSUME NEW r \in Calls PROVE CallOK(r)'
  <2>1. CallOK(r)
    BY DEF CallInv
  <2> QED  BY <2>1 DEF CallOK
<1>3. ASSUME NEW r \in Calls PROVE HoldingOK(r)'
  <2>1. HoldingOK(r)
    BY DEF CallInv
  <2> QED  BY <2>1 DEF HoldingOK
<1>4. ASSUME NEW c \in Channels PROVE LockOK(c)' /\ EngineOK(c)'
  <2>1. LockOK(c) /\ EngineOK(c)
    BY DEF ChannelInv
  <2> QED  BY <2>1 DEF LockOK, EngineOK
<1>5. ASSUME NEW u \in Threads PROVE ThreadOK(u)'
  <2>1. ThreadOK(u)
    BY DEF ThreadInv
  <2>2. CASE u # t
    BY <2>1, <2>2, ThreadOthers
  <2>3. CASE u = t
    <3>1. InHand(t)' <=> InHand(t)
      BY DEF InHand
    <3>2. (\E r \in Calls : call[r].of = t /\ call[r].at \in Holding) => InHand(t)
      BY DEF InHand
    <3> QED  BY <2>1, <2>3, <3>1, <3>2 DEF ThreadOK
  <2> QED  BY <2>2, <2>3
<1>6. ASSUME ~overlapped', NEW q \in Calls, Applies(q)' PROVE SwapOK(q)'
  <2>1. Applies(q) /\ SwapOK(q) /\ call[q].from \in Channels
    BY <1>6 DEF SwapInv, CallInv, CallOK
  <2>2. \A c \in Channels : IsRunning(c)' => IsRunning(c)
    OBVIOUS
  <2> QED  BY <2>1, <2>2, SwapOthers
<1>7. DownIsDown'
  BY DEF DownIsDown
<1>8. OldEngineIsStopped'
  BY DEF OldEngineIsStopped
<1> QED  BY <1>1, <1>2, <1>3, <1>4, <1>5, <1>6, <1>7, <1>8
         DEF CallInv, ChannelInv, ThreadInv, SwapInv

(* The plan of a request. *)
LEMMA PlanLiveKeeps ==
  ASSUME SwapIInv, NEW r \in Calls, PlanLive(r)
  PROVE  SwapIInv'
<1> DEFINE to == Target(call[r].wants)
<1>1. to \in Channels /\ (family[to] = "unmade" \/ to = live) /\ (to = live => family[live] = call[r].wants)
  BY DEF PlanLive, Target, FirstOf, CanMake, ChannelInv, EngineOK
<1>2. CASE to = live /\ IsRunning(live) /\ StepsTo(r, "done") /\ UNCHANGED <<family, overlapped>>
  BY <1>2, StepEnds, LeftAlone DEF PlanLive, ComesIn, threadVars
<1>3. CASE /\ call' = [call EXCEPT ![r].at = IF to = live THEN "announce" ELSE "swap",
                                    ![r].from = live, ![r].to = to]
           /\ family' = [family EXCEPT ![to] = call[r].wants]
           /\ overlapped' = (overlapped \/
                 \E q \in Calls : /\ UnderWay(q) /\ call[q].wants # "stop"
                                  /\ to # live \/ Swaps(q))
  <2>1. /\ call' \in [Calls -> CallType]
        /\ \A q \in Calls : q # r => call'[q] = call[q]
        /\ call'[r].at = IF to = live THEN "announce" ELSE "swap"
        /\ call'[r].from = live /\ call'[r].to = to
        /\ call'[r].wants = call[r].wants
    <3> DEFINE x == IF to = live THEN "announce" ELSE "swap"
               moved == [call[r] EXCEPT !.at = x]
               left == [moved EXCEPT !.from = live]
               rec == [left EXCEPT !.to = to]
    <3>3. call[r] \in CallType
      OBVIOUS
    <3>4. moved \in CallType /\ moved.at = x /\ moved.wants = call[r].wants
      BY <3>3 DEF CallType
    <3>5. left \in CallType /\ left.at = x /\ left.from = live /\ left.wants = call[r].wants
      <4> HIDE DEF moved
      <4> QED  BY <3>4 DEF CallType
    <3>1. rec \in CallType /\ rec.at = x /\ rec.from = live /\ rec.to = to /\ rec.wants = call[r].wants
      <4> HIDE DEF left, to
      <4> QED  BY <1>1, <3>5 DEF CallType
    <3>2. call' = [call EXCEPT ![r] = rec]
      BY <1>3
    <3> QED  BY <3>1, <3>2
  <2>2. overlapped' = (overlapped \/ \E q \in Calls : Applies(q) /\ (to # live \/ Swaps(q)))
    BY <1>3
  <2>3. call[r].at = "idle" /\ call[r].wants # "stop" /\ UNCHANGED <<live, engine, locked, said, thread, stops, abandoned>>
    BY DEF PlanLive, ComesIn, threadVars
  <2> QED  BY <1>1, <1>3, <2>1, <2>2, <2>3, Planned
<1> QED  BY <1>2, <1>3 DEF PlanLive

(* A request to stop. *)
LEMMA AskStopKeeps ==
  ASSUME SwapIInv, NEW r \in Calls, AskStop(r)
  PROVE  SwapIInv'
<1>1. Goes(r, "stop", live, call[r].of)
  BY StopGoes DEF AskStop, ComesIn
<1> QED  BY <1>1, StopIsAsked DEF AskStop, ComesIn, channelVars, threadVars

(* The two looks before a stop. *)
LEMMA LooksKeep ==
  ASSUME SwapIInv, NEW r \in Calls, LeaveOld(r) \/ LookAtTarget(r)
  PROVE  SwapIInv'
<1>1. PICK c \in Channels, place \in {"install", "start"} :
        /\ \/ call[r].at = "swap" /\ c = call[r].from /\ place = "install"
           \/ call[r].at = "look" /\ c = call[r].to /\ place = "start"
        /\ StopsOrGoes(r, c, place)
  BY DEF LeaveOld, LookAtTarget, CallInv, CallOK
<1> DEFINE x == IF IsRunning(c) THEN "stop" ELSE place
<1>0. x \in Places
  BY <1>1
<1>2. Goes(r, x, c, call[r].of)
  <2>1. call' = [call EXCEPT ![r].at = x, ![r].on = c]
    BY <1>1 DEF StopsOrGoes
  <2> HIDE DEF x
  <2> QED  BY <1>0, <2>1, StopGoes
<1>3. UNCHANGED <<live, family, engine, locked, said, thread, stops, abandoned, overlapped>>
  BY <1>1 DEF StopsOrGoes, channelVars, threadVars
<1> HIDE DEF Goes, SwapIInv, IsRunning, Places
<1> QED  BY <1>1, <1>2, <1>3, Looks

(* The swap and the announcements. *)
LEMMA ChoreographyKeeps ==
  ASSUME SwapIInv, NEW r \in Calls, Install(r) \/ Announce(r)
  PROVE  SwapIInv'
<1>1. CASE Install(r)
  <2>1. Goes(r, "announce", call[r].on, call[r].of)
    BY <1>1, StepGoes DEF Install
  <2>2. /\ call[r].at = "install" /\ live' = call[r].to
        /\ UNCHANGED <<family, engine, locked, said, thread, stops, abandoned, overlapped>>
    BY <1>1 DEF Install, threadVars
  <2> HIDE DEF Goes, SwapIInv
  <2> QED  BY <2>1, <2>2, Installs
<1>2. CASE Announce(r)
  <2>1. PICK place \in {"look", "start"} :
          /\ \/ call[r].at = "announce" /\ place = "look"
             \/ call[r].at = "again" /\ place = "start"
          /\ StepsTo(r, place)
    BY <1>2 DEF Announce
  <2>2. Goes(r, place, call[r].on, call[r].of)
    BY <2>1, StepGoes
  <2>3. /\ said' = IF family[call[r].to] = "moonshine" THEN [said EXCEPT ![call[r].to] = "starting"] ELSE said
        /\ UNCHANGED <<live, family, engine, locked, thread, stops, abandoned, overlapped>>
    BY <1>2 DEF Announce, threadVars
  <2> HIDE DEF Goes, SwapIInv
  <2> QED  BY <2>1, <2>2, <2>3, Announces
<1> QED  BY <1>1, <1>2

(* Where a request that comes back from its stop goes on. *)
LEMMA StepLeaves ==
  ASSUME SwapIInv, NEW r \in Calls, call[r].at \in StopPlaces, StepsTo(r, AfterStop(r))
  PROVE  Leaves(r)
<1>1. CASE call[r].wants = "stop"
  <2>1. AfterStop(r) = "done"
    BY <1>1 DEF AfterStop, CallInv, CallOK
  <2> QED  BY <1>1, <2>1, StepEnds
<1>2. CASE call[r].wants # "stop" /\ call[r].on = call[r].to
  BY <1>2, StepGoes DEF AfterStop
<1>3. CASE call[r].wants # "stop" /\ call[r].on # call[r].to
  BY <1>3, StepGoes DEF AfterStop
<1> QED  BY <1>1, <1>2, <1>3

(* The WhisperLiveKit side. *)
LEMMA ChildKeeps ==
  ASSUME SwapIInv, NEW r \in Calls, StartChild(r) \/ StopChild(r)
  PROVE  SwapIInv'
<1>1. CASE StartChild(r)
  <2>1. Ends(r) /\ call[r].at = "start" /\ family[call[r].to] = "whisper"
    BY <1>1, StepEnds DEF StartChild
  <2>2. CASE UNCHANGED <<engine, thread>>
    BY <1>1, <2>1, <2>2, StartLooks DEF StartChild
  <2>3. CASE ~UNCHANGED <<engine, thread>>
    <3>1. PICK t \in Threads : t = FirstOf(Threads, thread, "unborn") /\ thread[t] = "unborn"
      BY <1>1, <2>3 DEF StartChild, CanSpawn, FirstOf
    <3> QED  BY <1>1, <2>1, <2>3, <3>1, ChildStarts DEF StartChild
  <2> QED  BY <2>2, <2>3
<1>2. CASE StopChild(r)
  <2>1. CASE At(r, "stop") /\ IsRunning(call[r].on)
    <3>1. Goes(r, "wait", call[r].on, engine[call[r].on])
      <4>1. engine[call[r].on] \in Threads
        BY <1>2, <2>1 DEF StopChild, CallInv, CallOK
      <4> QED  BY <1>2, <2>1, <4>1, WaitGoes DEF StopChild
    <3> QED  BY <1>2, <2>1, <3>1, StopFinds DEF StopChild
  <2>2. CASE At(r, "stop") /\ ~IsRunning(call[r].on)
    BY <1>2, <2>2, StepLeaves, StopFindsNone DEF StopChild
  <2>3. CASE At(r, "wait")
    BY <1>2, <2>3, StepGoes, ChildIsKilled DEF StopChild
  <2>4. CASE At(r, "leave")
    BY <1>2, <2>4, StepLeaves, StopIsOver DEF StopChild
  <2> QED  BY <1>2, <2>1, <2>2, <2>3, <2>4 DEF StopChild
<1> QED  BY <1>1, <1>2

(* Moonshine's start. *)
LEMMA MoonshineStartKeeps ==
  ASSUME SwapIInv, NEW r \in Calls, MoonshineStart(r)
  PROVE  SwapIInv'
<1>1. CASE StartServer(r)
  <2>1. CASE StepsTo(r, "done") /\ UNCHANGED <<said, locked, thread>>
    BY <1>1, <2>1, StepEnds, StartLooks DEF StartServer
  <2>2. CASE ~IsRunning(call[r].to) /\ StepsTo(r, "done") /\ Fails(r) /\ UNCHANGED thread
    BY <1>1, <2>2, StepEnds, StartFails DEF StartServer, Fails, Free, Starting
  <2>3. CASE ~IsRunning(call[r].to) /\ CanSpawn /\ call'[r].at = "ready"
    <3>1. PICK t \in Threads : t = FirstOf(Threads, thread, "unborn") /\ thread[t] = "unborn"
      BY <2>3 DEF CanSpawn, FirstOf
    <3>2. /\ call' = [call EXCEPT ![r].at = "ready", ![r].of = t]
          /\ thread' = [thread EXCEPT ![t] = "binding"]
          /\ locked' = [locked EXCEPT ![call[r].to] = r]
          /\ UNCHANGED said
      BY <1>1, <2>3, <3>1, StepEnds DEF StartServer
    <3>3. Goes(r, "ready", call[r].on, t)
      BY <3>2, WaitGoes
    <3>4. /\ call[r].at = "start" /\ family[call[r].to] = "moonshine" /\ locked[call[r].to] = Nobody
          /\ UNCHANGED <<live, family, engine, said, stops, abandoned, overlapped>>
      BY <1>1, <3>2 DEF StartServer, Free, Starting
    <3>5. thread[t] = "unborn" /\ ~IsRunning(call[r].to)
      BY <2>3, <3>1
    <3> HIDE DEF Goes
    <3> QED  BY <3>2, <3>3, <3>4, <3>5, ServerStarts
  <2> QED  BY <1>1, <2>1, <2>2, <2>3 DEF StartServer, CallType
<1>2. CASE ServerIsReady(r)
  <2>1. CASE thread[call[r].of] \in {"bound", "serving"}
    BY <1>2, <2>1, StepEnds, ServerIsTaken DEF ServerIsReady, threadVars
  <2>2. CASE thread[call[r].of] \in {"failed", "ended"}
    BY <1>2, <2>2, StepEnds, BindFailed DEF ServerIsReady, threadVars, Fails
  <2> QED  BY <1>2, <2>1, <2>2 DEF ServerIsReady
<1>3. CASE NeverReady(r)
  BY <1>3, StepGoes, NeverReadyKeeps DEF NeverReady, channelVars, threadVars
<1>4. CASE Abandon(r)
  BY <1>4, StepGoes, AbandonKeeps DEF Abandon, channelVars
<1>5. CASE HaltAbandoned(r)
  BY <1>5, StepEnds, HaltKeeps DEF HaltAbandoned, Fails
<1> QED  BY <1>1, <1>2, <1>3, <1>4, <1>5 DEF MoonshineStart

(* Moonshine's stop. *)
LEMMA MoonshineStopKeeps ==
  ASSUME SwapIInv, NEW r \in Calls, MoonshineStop(r)
  PROVE  SwapIInv'
<1>1. CASE TakeServer(r)
  <2>1. CASE engine[call[r].on] = Nobody
    BY <1>1, <2>1, StepLeaves, NoServer DEF TakeServer, Stopping, threadVars
  <2>2. CASE engine[call[r].on] # Nobody
    <3>1. Goes(r, "wait", call[r].on, engine[call[r].on])
      <4>1. engine[call[r].on] \in Threads
        BY <1>1, <2>2 DEF TakeServer, CallInv, CallOK
      <4> QED  BY <1>1, <2>2, <4>1, WaitGoes DEF TakeServer
    <3> QED  BY <1>1, <2>2, <3>1, ServerIsLeft DEF TakeServer, Stopping, Free, threadVars
  <2> QED  BY <2>1, <2>2
<1>2. CASE StopLoop(r)
  <2>1. Goes(r, "join", call[r].on, call[r].of)
    BY <1>2, StepGoes DEF StopLoop
  <2> QED  BY <1>2, <2>1, LoopIsStopped DEF StopLoop, Stopping, channelVars
<1>3. CASE JoinThread(r)
  <2> DEFINE x == IF thread[call[r].of] = "ended" THEN "leave" ELSE "late"
  <2>1. Goes(r, x, call[r].on, call[r].of)
    BY <1>3, StepGoes DEF JoinThread
  <2> QED  BY <1>3, <2>1, JoinKeeps DEF JoinThread, channelVars, threadVars
<1>4. CASE LeaveServer(r)
  <2>0. PICK x \in {"error", "stopped"} : x = IF At(r, "late") THEN "error" ELSE "stopped"
    OBVIOUS
  <2>1. Leaves(r)
    BY <1>4, StepLeaves DEF LeaveServer
  <2>2. said' = IF engine[call[r].on] # Nobody THEN said ELSE [said EXCEPT ![call[r].on] = x]
    BY <1>4, <2>0 DEF LeaveServer
  <2>3. /\ call[r].at \in {"leave", "late"} /\ family[call[r].on] = "moonshine"
        /\ UNCHANGED <<live, family, engine, locked, thread, stops, abandoned, overlapped>>
    BY <1>4 DEF LeaveServer, Stopping, threadVars
  <2> HIDE DEF Leaves, SwapIInv
  <2>4. x \in {"error", "stopped"}
    BY <2>0
  <2> QED  BY <2>1, <2>2, <2>3, <2>4, ServerStopIsOver
<1> QED  BY <1>1, <1>2, <1>3, <1>4 DEF MoonshineStop

(* The threads. *)
LEMMA ThreadStepKeeps ==
  ASSUME SwapIInv, NEW t \in Threads, ChildDies(t) \/ RunLoop(t)
  PROVE  SwapIInv'
<1>1. CASE ChildDies(t)
  BY <1>1, ThreadKeeps DEF ChildDies, channelVars
<1>2. CASE Binds(t)
  BY <1>2, ThreadKeeps DEF Binds, Does, channelVars
<1>3. CASE Serves(t)
  <2> DEFINE x == IF t \in abandoned THEN "closing" ELSE "serving"
  <2>1. thread[t] = "bound" /\ thread' = [thread EXCEPT ![t] = x]
    BY <1>3 DEF Serves, Does
  <2> QED  BY <1>3, <2>1, ThreadKeeps DEF Serves, channelVars
<1>4. CASE Halts(t)
  BY <1>4, ThreadKeeps DEF Halts, Does, channelVars
<1>5. CASE Closes(t)
  BY <1>5, ThreadKeeps DEF Closes, Does, channelVars
<1> QED  BY <1>1, <1>2, <1>3, <1>4, <1>5 DEF RunLoop

(* A stuttering step. *)
LEMMA QuietKeeps == SwapIInv /\ UNCHANGED evars => SwapIInv'
<1> SUFFICES ASSUME SwapIInv, UNCHANGED evars PROVE SwapIInv'
  OBVIOUS
<1> USE DEF evars, channelVars, threadVars
<1>1. SwapTypeOK'
  OBVIOUS
<1>2. CallInv'
  BY DEF CallInv, CallOK, HoldingOK
<1>3. ChannelInv'
  BY DEF ChannelInv, LockOK, EngineOK
<1>4. ThreadInv'
  BY DEF ThreadInv, ThreadOK, InHand
<1>5. SwapInv'
  BY DEF SwapInv, SwapOK
<1>6. DownIsDown' /\ OldEngineIsStopped'
  BY DEF DownIsDown, OldEngineIsStopped
<1> QED  BY <1>1, <1>2, <1>3, <1>4, <1>5, <1>6

(* Every step keeps the invariant: requests and threads, in any order. *)
THEOREM SwapStep == SwapIInv /\ [ENext]_evars => SwapIInv'
<1> SUFFICES ASSUME SwapIInv, ENext PROVE SwapIInv'
  BY QuietKeeps
<1>1. ASSUME NEW r \in Calls, PlanLive(r) PROVE SwapIInv'
  BY <1>1, PlanLiveKeeps
<1>2. ASSUME NEW r \in Calls, AskStop(r) PROVE SwapIInv'
  BY <1>2, AskStopKeeps
<1>3. ASSUME NEW r \in Calls, ApplyLive(r) PROVE SwapIInv'
  BY <1>3, LooksKeep, ChoreographyKeeps, ChildKeeps, MoonshineStartKeeps, MoonshineStopKeeps
     DEF ApplyLive
<1>4. ASSUME NEW t \in Threads, ChildDies(t) \/ RunLoop(t) PROVE SwapIInv'
  BY <1>4, ThreadStepKeeps
<1> QED  BY <1>1, <1>2, <1>3, <1>4 DEF ENext

(* The invariant is enough: a child that runs has its channel. *)
LEMMA SwapIInvIsSound == SwapIInv => SwapIsSound
<1> SUFFICES ASSUME SwapIInv PROVE NoServerIsLost
  BY DEF SwapIsSound
<1>1. ASSUME NEW t \in Threads, thread[t] = "child" PROVE InHand(t)
  BY <1>1 DEF ThreadInv, ThreadOK, InHand
<1> QED  BY <1>1 DEF NoServerIsLost, ThreadInv, ThreadOK

(* No engine is lost in swaps between the two families, whatever requests, *)
(* deaths and late binds come between (live_control.apply_live,            *)
(* moonshine_live.start and stop).                                         *)
THEOREM SwapSound == EInit /\ [][ENext]_evars => []SwapIsSound
BY InitHolds, SwapStep, SwapIInvIsSound, PTL

-----------------------------------------------------------------------------
(* Session jobs.                                                           *)

USE DEF Follows, RemergeStored

(* A job that waits for the slot is one of the three kinds that look       *)
(* first, and a job has what its next step reads.                          *)
Prepared ==
  \A j \in Jobs :
    /\ phase[j] = "chosen" =>
         /\ kind[j] \in {"transcribe", "diarize", "summarize"}
         /\ kind[j] = "transcribe" => pick[j] # None
         /\ kind[j] = "summarize" => seen[j] # None
    /\ phase[j] = "transcribe" => pick[j] # None
    /\ phase[j] = "summarize" => seen[j] # None

(* The inductive invariant behind the types and the slot.                  *)
Inv == TypeOK /\ Prepared /\ SlotTellsTheTruth

LEMMA InitInv == Init => Inv
BY JobsAssumption
   DEF Init, Inv, TypeOK, Prepared, SlotTellsTheTruth, Working, Phases, Kinds

LEMMA StutterInv == Inv /\ UNCHANGED vars => Inv'
BY DEF vars, jobVars, fileVars, Inv, TypeOK, Prepared, SlotTellsTheTruth

LEMMA RequestInv ==
  ASSUME Inv, NEW j \in Jobs, Request(j)
  PROVE  Inv'
<1> USE JobsAssumption, NoneAssumption
    DEF Inv, TypeOK, Prepared, SlotTellsTheTruth, fileVars, Goto, Working,
        Phases, Kinds
<1>1. CASE Trigger(j)
  BY <1>1 DEF Trigger, Claim
<1>2. CASE StartStrip(j)
  BY <1>2 DEF StartStrip, Claim
<1>3. CASE StartWipe(j)
  BY <1>3 DEF StartWipe, Claim
<1>4. CASE ChooseWavs(j)
  <2>1. PICK src \in Sources :
          pick' = [pick EXCEPT ![j] = Selected(src)]
    BY <1>4 DEF ChooseWavs
  <2>2. Selected(src) \in Selection
    BY DEF Selected, Selection, WavsOf, Sources
  <2>3. Selected(src) # None
    BY <2>2
  <2> QED
    BY <1>4, <2>1, <2>2, <2>3 DEF ChooseWavs, Choose
<1>5. CASE ChooseTranscript(j)
  BY <1>5 DEF ChooseTranscript, Choose
<1>6. CASE ChooseAudio(j)
  BY <1>6 DEF ChooseAudio, Choose
<1> QED
  BY <1>1, <1>2, <1>3, <1>4, <1>5, <1>6 DEF Request

LEMMA WaitInv ==
  ASSUME Inv, NEW j \in Jobs, ClaimChosen(j) \/ Busy(j)
  PROVE  Inv'
BY JobsAssumption
   DEF Inv, TypeOK, Prepared, SlotTellsTheTruth, fileVars, Goto, Working,
       Phases, Kinds, ClaimChosen, Busy, Leave

(* The stages in which a job cuts and diarizes.                            *)
LEMMA CutInv ==
  ASSUME Inv, NEW j \in Jobs,
         Clear(j) \/ (\E c \in Regions : Cut(j, c)) \/ CutEnds(j)
         \/ RecordVoices(j) \/ DiarizeEnds(j)
  PROVE  Inv'
<1> USE JobsAssumption, NoneAssumption
    DEF Inv, TypeOK, Prepared, SlotTellsTheTruth, fileVars, Goto, Stage,
        Working, Phases, Kinds
<1>1. CASE Clear(j)
  BY <1>1 DEF Clear
<1>2. CASE \E c \in Regions : Cut(j, c)
  BY <1>2 DEF Cut
<1>3. CASE CutEnds(j)
  BY <1>3 DEF CutEnds
<1>4. CASE RecordVoices(j)
  BY <1>4 DEF RecordVoices
<1>5. CASE DiarizeEnds(j)
  BY <1>5 DEF DiarizeEnds
<1> QED
  BY <1>1, <1>2, <1>3, <1>4, <1>5

(* What a merge writes is a transcript.                                    *)
LEMMA PublishTypes ==
  ASSUME TypeOK, NEW src \in Sources,
         NEW words \in SUBSET (Originals \cup Regions), Publish(src, words)
  PROVE  clock' \in Nat /\ transcript' \in Transcript
BY DEF TypeOK, Publish, Transcript

(* The stages in which it merges and summarizes.                           *)
LEMMA MergeInv ==
  ASSUME Inv, NEW j \in Jobs,
         Remerge(j) \/ Select(j)
         \/ (\E w \in Originals \cup Regions : TranscribeOne(j, w))
         \/ Merge(j) \/ ReadTranscript(j) \/ Summarize(j)
  PROVE  Inv'
<1> USE JobsAssumption, NoneAssumption
    DEF Inv, TypeOK, Prepared, SlotTellsTheTruth, fileVars, Goto, Stage,
        Working, Phases, Kinds
<1>1. CASE Remerge(j)
  <2>1. CASE Worthwhile /\ Publish(transcript.source, WordsLeft)
    <3>1. transcript \in Transcript
      BY <2>1 DEF Worthwhile
    <3>2. transcript.source \in Sources
      BY <3>1 DEF Transcript
    <3>3. WordsLeft \in SUBSET (Originals \cup Regions)
      BY DEF WordsLeft, WavsOf
    <3> QED
      BY <1>1, <2>1, <3>2, <3>3, PublishTypes DEF Remerge
  <2>2. CASE ~Worthwhile /\ UNCHANGED <<transcript, clock>>
    BY <1>1, <2>2 DEF Remerge
  <2> QED
    BY <1>1, <2>1, <2>2 DEF Remerge
<1>2. CASE Select(j)
  <2>1. Selected("stripped") \in Selection /\ Selected("stripped") # None
    BY DEF Selected, Selection, WavsOf, Sources
  <2> QED
    BY <1>2, <2>1 DEF Select
<1>3. CASE \E w \in Originals \cup Regions : TranscribeOne(j, w)
  BY <1>3 DEF TranscribeOne, OnDisk, WavsOf, jobVars
<1>4. CASE Merge(j)
  <2>1. pick[j] \in Selection
    BY <1>4 DEF Merge
  <2>2. pick[j].source \in Sources
        /\ pick[j].wavs \in SUBSET (Originals \cup Regions)
    BY <2>1 DEF Selection
  <2> QED
    BY <1>4, <2>2, PublishTypes DEF Merge
<1>5. CASE ReadTranscript(j)
  BY <1>5 DEF ReadTranscript
<1>6. CASE Summarize(j)
  <2>1. seen[j] \in Transcript
    BY <1>6 DEF Summarize
  <2>2. [at |-> seen[j].at, text |-> Text(seen[j])] \in Summary
    BY <2>1 DEF Transcript, Summary, Text
  <2> QED
    BY <1>6, <2>2 DEF Summarize
<1> QED
  BY <1>1, <1>2, <1>3, <1>4, <1>5, <1>6

LEMMA EndInv ==
  ASSUME Inv, NEW j \in Jobs, End(j) \/ GiveUp(j) \/ Fail(j)
  PROVE  Inv'
BY JobsAssumption
   DEF Inv, TypeOK, Prepared, SlotTellsTheTruth, fileVars, Working, Phases,
       Kinds, End, GiveUp, Stuck, Fail, Release, Leave

LEMMA RestartInv == Inv /\ Restart => Inv'
BY JobsAssumption
   DEF Inv, TypeOK, Prepared, SlotTellsTheTruth, fileVars, Working, Phases,
       Kinds, Restart

LEMMA NextInv == Inv /\ [Next]_vars => Inv'
<1> SUFFICES ASSUME Inv, [Next]_vars PROVE Inv'
  OBVIOUS
<1>1. ASSUME NEW j \in Jobs, Request(j) PROVE Inv'
  BY <1>1, RequestInv
<1>2. ASSUME NEW j \in Jobs, JobStep(j) PROVE Inv'
  BY <1>2, WaitInv, CutInv, MergeInv, EndInv DEF JobStep
<1>3. ASSUME NEW j \in Jobs, Fail(j) PROVE Inv'
  BY <1>3, EndInv
<1> QED
  BY <1>1, <1>2, <1>3, RestartInv, StutterInv DEF Next

LEMMA Invariance == Spec => []Inv
BY InitInv, NextInv, PTL DEF Spec

(* Types, for any number of requests.                                      *)
THEOREM Typing == Spec => []TypeOK
BY Invariance, PTL DEF Inv

(* The slot has one holder and the polled record says "running" exactly    *)
(* while a pipeline is that holder, after any failure, refusal, restart.   *)
THEOREM SlotIsTrue == Spec => []SlotTellsTheTruth
BY Invariance, PTL DEF Inv

-----------------------------------------------------------------------------
(* A stamp is never ahead of the clock, and whoever holds the stamp of the *)
(* transcript on disk holds its text.                                      *)
Truthful(at, text) ==
  /\ at <= clock
  /\ transcript # None /\ at = transcript.at => text = Text(transcript)

Stamps ==
  /\ transcript # None => transcript.at <= clock
  /\ \A j \in Jobs : seen[j] # None => Truthful(seen[j].at, Text(seen[j]))
  /\ summary # None => Truthful(summary.at, summary.text)

LEMMA InitStamps == Init => Stamps
BY DEF Init, Stamps

(* A merge takes a stamp that nobody holds.                                *)
LEMMA PublishStamps ==
  ASSUME Inv, Stamps, NEW src \in Sources,
         NEW words \in SUBSET (Originals \cup Regions), Publish(src, words),
         UNCHANGED <<seen, summary>>
  PROVE  Stamps'
<1>1. clock \in Nat /\ clock' = clock + 1
      /\ transcript'.at = clock + 1
  BY DEF Inv, TypeOK, Publish
<1>2. ASSUME NEW j \in Jobs, seen[j] # None
      PROVE  seen[j].at \in Nat /\ seen[j].at <= clock
  <2>1. seen[j] \in Transcript
    BY <1>2 DEF Inv, TypeOK
  <2> QED
    BY <1>2, <2>1 DEF Transcript, Stamps, Truthful
<1>3. ASSUME summary # None
      PROVE  summary.at \in Nat /\ summary.at <= clock
  <2>1. summary \in Summary
    BY <1>3 DEF Inv, TypeOK
  <2> QED
    BY <1>3, <2>1 DEF Summary, Stamps, Truthful
<1> QED
  BY <1>1, <1>2, <1>3 DEF Stamps, Truthful

(* Every other step leaves the transcript and the clock.                   *)
LEMMA KeptStamps ==
  ASSUME Inv, Stamps, UNCHANGED <<transcript, clock, summary>>,
         seen' \in [Jobs -> Transcript \cup {None}],
         \A i \in Jobs : seen'[i] \in {None, seen[i], transcript}
  PROVE  Stamps'
<1>1. transcript # None => transcript.at \in Nat
  BY DEF Inv, TypeOK, Transcript
<1> QED
  BY <1>1 DEF Inv, TypeOK, Stamps, Truthful, Text

LEMMA NextStamps == Inv /\ Stamps /\ [Next]_vars => Stamps'
<1> SUFFICES ASSUME Inv, Stamps, [Next]_vars PROVE Stamps'
  OBVIOUS
<1>0. Inv'
  BY NextInv
<1>t. seen \in [Jobs -> Transcript \cup {None}]
      /\ seen' \in [Jobs -> Transcript \cup {None}]
  BY <1>0 DEF Inv, TypeOK
<1>1. ASSUME NEW j \in Jobs, Request(j) PROVE Stamps'
  <2>1. UNCHANGED <<transcript, clock, summary>>
        /\ \A i \in Jobs : seen'[i] \in {None, seen[i], transcript}
    BY <1>1, <1>t
       DEF Request, Trigger, StartStrip, StartWipe, Claim, ChooseWavs,
           ChooseTranscript, ChooseAudio, Choose, fileVars
  <2> QED
    BY <2>1, <1>t, KeptStamps
<1>2. ASSUME NEW j \in Jobs, Remerge(j) PROVE Stamps'
  <2>1. CASE Worthwhile /\ Publish(transcript.source, WordsLeft)
    <3>1. transcript \in Transcript
      BY <2>1 DEF Worthwhile, Inv, TypeOK
    <3>2. transcript.source \in Sources
      BY <3>1 DEF Transcript
    <3>3. WordsLeft \in SUBSET (Originals \cup Regions)
      BY DEF WordsLeft, WavsOf, Inv, TypeOK
    <3>4. UNCHANGED <<seen, summary>>
      BY <1>2 DEF Remerge
    <3> QED
      BY <2>1, <3>2, <3>3, <3>4, PublishStamps
  <2>2. CASE ~Worthwhile /\ UNCHANGED <<transcript, clock>>
    BY <1>2, <2>2, <1>t, KeptStamps DEF Remerge
  <2> QED
    BY <1>2, <2>1, <2>2 DEF Remerge
<1>3. ASSUME NEW j \in Jobs, Merge(j) PROVE Stamps'
  <2>1. pick[j] \in Selection
    BY <1>3 DEF Merge, Stage, Goto, Inv, TypeOK, Prepared
  <2>2. pick[j].source \in Sources
        /\ pick[j].wavs \in SUBSET (Originals \cup Regions)
    BY <2>1 DEF Selection
  <2>3. UNCHANGED <<seen, summary>>
        /\ Publish(pick[j].source, pick[j].wavs)
    BY <1>3 DEF Merge
  <2> QED
    BY <2>2, <2>3, PublishStamps
<1>4. ASSUME NEW j \in Jobs, Summarize(j) PROVE Stamps'
  <2>1. seen[j] # None
    BY <1>4 DEF Summarize, Stage, Goto, Inv, Prepared
  <2>2. summary'.at = seen[j].at /\ summary'.text = Text(seen[j])
    BY <1>4 DEF Summarize
  <2>3. UNCHANGED <<transcript, clock, seen>>
    BY <1>4 DEF Summarize
  <2> QED
    BY <2>1, <2>2, <2>3 DEF Stamps, Truthful, Text
<1>5. ASSUME NEW j \in Jobs,
             \/ ClaimChosen(j) \/ Busy(j) \/ Clear(j)
             \/ (\E c \in Regions : Cut(j, c)) \/ CutEnds(j)
             \/ RecordVoices(j) \/ DiarizeEnds(j) \/ Select(j)
             \/ (\E w \in Originals \cup Regions : TranscribeOne(j, w))
             \/ ReadTranscript(j) \/ End(j) \/ GiveUp(j) \/ Fail(j)
      PROVE  Stamps'
  <2>1. UNCHANGED <<transcript, clock, summary>>
        /\ \A i \in Jobs : seen'[i] \in {None, seen[i], transcript}
    BY <1>5, <1>t
       DEF ClaimChosen, Busy, Leave, Clear, Cut, CutEnds, RecordVoices,
           DiarizeEnds, Select, TranscribeOne, ReadTranscript, End, GiveUp,
           Fail, Release, jobVars, fileVars
  <2> QED
    BY <2>1, <1>t, KeptStamps
<1>6. CASE Restart
  BY <1>6, <1>t, KeptStamps DEF Restart, fileVars
<1>7. CASE UNCHANGED vars
  BY <1>7, <1>t, KeptStamps DEF vars, jobVars, fileVars
<1> QED
  BY <1>1, <1>2, <1>3, <1>4, <1>5, <1>6, <1>7 DEF Next, JobStep

(* A summary that was not made from the text of the merged transcript does *)
(* not carry its stamp.                                                    *)
THEOREM StampsTell == Spec => []StaleSummaryIsFlagged
<1>1. Stamps => StaleSummaryIsFlagged
  BY DEF Stamps, Truthful, StaleSummaryIsFlagged
<1> QED
  BY <1>1, InitStamps, NextStamps, Invariance, PTL DEF Spec

-----------------------------------------------------------------------------
(* How far a pipeline has come, and what its stages have left on disk.     *)
Covered ==
  /\ stripped # {}
  /\ transcript # None
  /\ transcript.source = "stripped"
  /\ transcript.words = stripped

Progress ==
  \A j \in Jobs : kind[j] = "pipeline" =>
    /\ phase[j] # "remerge"
    /\ phase[j] = "transcribe" =>
         /\ stripped # {}
         /\ pick[j].source = "stripped"
         /\ pick[j].wavs = stripped
    /\ phase[j] \in {"read", "summarize", "end"} => Covered
    /\ phase[j] = "summarize" => seen[j] = transcript
    /\ phase[j] = "end" =>
         /\ summary # None
         /\ summary.at = transcript.at
         /\ summary.text = Text(transcript)

LEMMA InitProgress == Init => Progress
BY DEF Init, Progress

(* A job's step leaves the pipelines it is none of as far as they are: one *)
(* at work holds the slot, and one that is not holds nothing.              *)
OtherIdle(j) ==
  \A i \in Jobs : i # j => phase[i] \notin Working

LEMMA WorkingAlone ==
  ASSUME Inv, NEW j \in Jobs, phase[j] \in Working
  PROVE  OtherIdle(j)
BY DEF Inv, SlotTellsTheTruth, OtherIdle

LEMMA RequestProgress ==
  ASSUME Inv, Progress, NEW j \in Jobs,
         Request(j) \/ ClaimChosen(j) \/ Busy(j)
  PROVE  Progress'
BY DEF Inv, TypeOK, Prepared, Progress, Covered, Request, Trigger,
       StartStrip, StartWipe, Claim, ChooseWavs, ChooseTranscript,
       ChooseAudio, Choose, ClaimChosen, Busy, Leave, Goto, fileVars, Text

LEMMA CutProgress ==
  ASSUME Inv, Progress, NEW j \in Jobs,
         Clear(j) \/ (\E c \in Regions : Cut(j, c)) \/ CutEnds(j)
         \/ RecordVoices(j) \/ DiarizeEnds(j)
  PROVE  Progress'
<1>1. phase[j] \in Working
  BY DEF Clear, Cut, CutEnds, RecordVoices, DiarizeEnds, Stage, Goto, Working
<1>2. OtherIdle(j)
  BY <1>1, WorkingAlone
<1> USE <1>2
    DEF Inv, TypeOK, Progress, Covered, OtherIdle, Working, Stage, Goto,
        fileVars, Text
<1>3. CASE Clear(j)
  BY <1>3 DEF Clear
<1>4. CASE \E c \in Regions : Cut(j, c)
  BY <1>4 DEF Cut
<1>5. CASE CutEnds(j)
  BY <1>5 DEF CutEnds
<1>6. CASE RecordVoices(j)
  BY <1>6 DEF RecordVoices
<1>7. CASE DiarizeEnds(j)
  BY <1>7 DEF DiarizeEnds
<1> QED
  BY <1>3, <1>4, <1>5, <1>6, <1>7

LEMMA MergeProgress ==
  ASSUME Inv, Progress, NEW j \in Jobs,
         Remerge(j) \/ Select(j)
         \/ (\E w \in Originals \cup Regions : TranscribeOne(j, w))
         \/ Merge(j) \/ ReadTranscript(j) \/ Summarize(j)
  PROVE  Progress'
<1>1. phase[j] \in Working
  BY DEF Remerge, Select, TranscribeOne, Merge, ReadTranscript, Summarize,
         Stage, Goto, Working
<1>2. OtherIdle(j)
  BY <1>1, WorkingAlone
<1>0. Inv'
  BY MergeInv
<1> USE <1>2
    DEF Inv, TypeOK, Progress, Covered, OtherIdle, Working, Stage, Goto,
        fileVars, Text
<1>3. CASE Remerge(j)
  BY <1>3 DEF Remerge
<1>4. CASE Select(j)
  BY <1>4 DEF Select, Selected, WavsOf
<1>5. CASE \E w \in Originals \cup Regions : TranscribeOne(j, w)
  BY <1>5 DEF TranscribeOne, jobVars
<1>6. CASE Merge(j)
  <2>1. pick[j] \in Selection
    BY <1>6 DEF Merge, Prepared
  <2>2. pick[j].source \in Sources
        /\ pick[j].wavs \in SUBSET (Originals \cup Regions)
    BY <2>1 DEF Selection
  <2>3. Publish(pick[j].source, pick[j].wavs)
    BY <1>6 DEF Merge
  <2>4. transcript' \in Transcript
    BY <2>2, <2>3, PublishTypes
  <2>5. transcript' # None
        /\ transcript'.source = pick[j].source
        /\ transcript'.words = pick[j].wavs
    BY <2>3, <2>4, NoneAssumption DEF Publish
  <2> QED
    BY <1>6, <2>5 DEF Merge
<1>7. CASE ReadTranscript(j)
  BY <1>7 DEF ReadTranscript
<1>8. CASE Summarize(j)
  <2>1. seen[j] \in Transcript
    BY <1>8 DEF Summarize, Prepared
  <2>2. summary' = [at |-> seen[j].at, text |-> Text(seen[j])]
    BY <1>8 DEF Summarize
  <2>3. summary' \in Summary
    BY <2>1, <2>2 DEF Transcript, Summary
  <2>4. summary' # None
    BY <2>3, NoneAssumption
  <2> QED
    BY <1>8, <2>2, <2>4 DEF Summarize
<1> QED
  BY <1>3, <1>4, <1>5, <1>6, <1>7, <1>8

LEMMA NextProgress == Inv /\ Progress /\ [Next]_vars => Progress'
<1> SUFFICES ASSUME Inv, Progress, [Next]_vars PROVE Progress'
  OBVIOUS
<1>1. ASSUME NEW j \in Jobs, End(j) \/ GiveUp(j) \/ Fail(j)
      PROVE  Progress'
  BY <1>1
     DEF Inv, TypeOK, Progress, Covered, End, GiveUp, Fail, Release, Leave,
         fileVars, Text
<1>2. CASE Restart
  BY <1>2 DEF Restart, Progress
<1>3. CASE UNCHANGED vars
  BY <1>3 DEF vars, jobVars, fileVars, Progress, Covered, Text
<1>4. ASSUME NEW j \in Jobs, Request(j) \/ JobStep(j) PROVE Progress'
  BY <1>4, <1>1, RequestProgress, CutProgress, MergeProgress DEF JobStep
<1> QED
  BY <1>1, <1>2, <1>3, <1>4 DEF Next

(* A pipeline is recorded done only over a summary of its own transcript   *)
(* of all the clips of its own strip.                                      *)
THEOREM DoneIsSummarized == Spec => DoneMeansSummarized
<1>1. Inv /\ Progress /\ [Next]_vars =>
        [\A j \in Jobs : FinishesDone(j) =>
           /\ stripped # {} /\ transcript # None /\ summary # None
           /\ transcript.source = "stripped"
           /\ transcript.words = stripped
           /\ summary.at = transcript.at
           /\ summary.text = Text(transcript)]_vars
  BY DEF Progress, Covered, FinishesDone
<1> QED
  BY <1>1, InitProgress, NextProgress, InitInv, NextInv, PTL
     DEF Spec, DoneMeansSummarized

(* A recorded success has its summary: only a pipeline at its end records  *)
(* one, and no step takes a summary away.                                  *)
Answered == record = "done" => summary # None

LEMMA NextAnswered ==
  ASSUME Inv, Progress, Answered, [Next]_vars
  PROVE  Answered'
<1>1. CASE Restart
  BY <1>1 DEF Restart, Answered
<1>2. CASE UNCHANGED vars
  BY <1>2 DEF vars, jobVars, fileVars, Answered
<1>3. ASSUME NEW j \in Jobs, End(j) PROVE Answered'
  BY <1>3 DEF Progress, Answered, End, Release, fileVars
<1>4. ASSUME NEW j \in Jobs, GiveUp(j) \/ Fail(j) PROVE Answered'
  BY <1>4 DEF Answered, GiveUp, Fail, Release, fileVars
<1>5. ASSUME NEW j \in Jobs, Request(j) PROVE Answered'
  BY <1>5 DEF Answered, Request, Trigger, StartStrip, StartWipe, Claim, ChooseWavs,
              ChooseTranscript, ChooseAudio, Choose, fileVars
<1>6. ASSUME NEW j \in Jobs, Summarize(j) PROVE Answered'
  <2>1. seen[j] \in Transcript
    BY <1>6 DEF Inv, TypeOK, Prepared, Summarize, Stage, Goto
  <2>2. summary' \in Summary
    BY <1>6, <2>1 DEF Summarize, Transcript, Summary, Text
  <2> QED
    BY <2>2, NoneAssumption DEF Answered
<1>7. ASSUME NEW j \in Jobs,
             ClaimChosen(j) \/ Busy(j) \/ Clear(j) \/ (\E c \in Regions : Cut(j, c))
             \/ CutEnds(j) \/ RecordVoices(j) \/ DiarizeEnds(j) \/ Remerge(j)
             \/ Select(j) \/ Merge(j)
             \/ (\E w \in Originals \cup Regions : TranscribeOne(j, w))
             \/ ReadTranscript(j)
      PROVE  Answered'
  BY <1>7 DEF Answered, ClaimChosen, Busy, Clear, Cut, CutEnds, RecordVoices, DiarizeEnds,
              Remerge, Select, Merge, TranscribeOne, ReadTranscript, Stage, fileVars, jobVars
<1> QED
  BY <1>1, <1>2, <1>3, <1>4, <1>5, <1>6, <1>7 DEF Next, JobStep

(* With any number of requests and restarts, a poll says "running" exactly *)
(* while a pipeline holds the slot, and "done" only with a summary.        *)
THEOREM PollIsTrue == Spec => []PollTellsTheTruth
<1>1. Init => Answered
  BY DEF Init, Answered
<1>2. Inv /\ Progress /\ Answered /\ [Next]_vars => Answered'
  BY NextAnswered
<1>3. Inv /\ Answered => PollTellsTheTruth
  BY DEF Inv, SlotTellsTheTruth, Answered, PollTellsTheTruth, Polled
<1> QED
  BY <1>1, <1>2, <1>3, InitProgress, NextProgress, InitInv, NextInv, PTL DEF Spec

(* Only merges write a transcript, and the one that ends a job's re-merge  *)
(* is its own: a re-merge that has words left to write.                    *)
LEMMA RemergesOwn ==
  ASSUME Inv, Next, NEW j \in Jobs, Remerges(j)
  PROVE  Remerge(j) \/ UNCHANGED transcript
<1>1. phase[j] = "remerge" /\ phase'[j] = "end"
  BY DEF Remerges
<1>2. ASSUME NEW i \in Jobs, Merge(i) PROVE FALSE
  BY <1>1, <1>2 DEF Inv, TypeOK, Merge, Stage, Goto
<1>3. ASSUME NEW i \in Jobs, Remerge(i) PROVE i = j
  BY <1>1, <1>3 DEF Inv, TypeOK, Remerge, Stage, Goto
<1>4. ASSUME NEW i \in Jobs, Request(i)
      PROVE  UNCHANGED transcript
  BY <1>4
     DEF Request, Trigger, StartStrip, StartWipe, Claim, ChooseWavs,
         ChooseTranscript, ChooseAudio, Choose, fileVars
<1>5. ASSUME NEW i \in Jobs, JobStep(i), ~Merge(i), ~Remerge(i)
      PROVE  UNCHANGED transcript
  BY <1>5
     DEF JobStep, ClaimChosen, Busy, Clear, Cut, CutEnds, RecordVoices,
         DiarizeEnds, Select, TranscribeOne, ReadTranscript, Summarize, End,
         GiveUp, Release, fileVars
<1>6. ASSUME NEW i \in Jobs, Fail(i) PROVE UNCHANGED transcript
  BY <1>6 DEF Fail, Release, fileVars
<1> QED
  BY <1>2, <1>3, <1>4, <1>5, <1>6 DEF Next, Restart, vars, fileVars

(* ReattributionKeepsWords: a diarize run never leaves a transcript that   *)
(* had words without any, whatever strips, wipes and failed pipelines came *)
(* between the transcript and the run (remerge_with_stored_selection).     *)
THEOREM ReattributionLeavesWords == Spec => ReattributionKeepsWords
<1>1. ASSUME Inv, [Next]_vars, NEW j \in Jobs, Remerges(j),
             transcript.words # {}
      PROVE  transcript'.words # {}
  <2>1. CASE UNCHANGED vars
    BY <1>1, <2>1 DEF vars, fileVars
  <2>2. CASE Next
    <3>1. CASE UNCHANGED transcript
      BY <1>1, <3>1
    <3>2. CASE Remerge(j) /\ Worthwhile
      <4>1. transcript'.words = WordsLeft
        BY <3>2 DEF Remerge, Publish
      <4> QED
        BY <1>1, <3>2, <4>1 DEF Worthwhile
    <3>3. CASE Remerge(j) /\ ~Worthwhile
      BY <1>1, <3>3 DEF Remerge
    <3> QED
      BY <1>1, <2>2, <3>1, <3>2, <3>3, RemergesOwn
  <2> QED
    BY <1>1, <2>1, <2>2
<1>2. Inv /\ [Next]_vars =>
        [\A j \in Jobs :
           Remerges(j) /\ transcript.words # {} => transcript'.words # {}]_vars
  BY <1>1
<1> QED
  BY <1>2, InitInv, NextInv, PTL DEF Spec, ReattributionKeepsWords

(* With any number of requests and restarts: the slot, the polled record,  *)
(* its answer and the stamp of a summary say what is so                    *)
(* (RecordsTellTheTruth).                                                  *)
THEOREM RecordsAreTrue == Spec => []RecordsTellTheTruth
BY SlotIsTrue, PollIsTrue, StampsTell, PTL DEF RecordsTellTheTruth
=============================================================================
