----------------------------- MODULE LiveProofs -----------------------------
(* The live path, for any number of its actors: a tap's relay to the       *)
(* engine (one socket, none left behind, a gate that fits), then the       *)
(* channel that owns the engine (one process at most, and no stop that     *)
(* speaks for another's child).                                            *)
EXTENDS TapRelay, LiveChannel, FiniteSetTheorems, TLAPS

Opening == {"new", "connect", "gate"}

(* The handler's attach is over before the reconnect task is ever made, so *)
(* there is one attach at a time, and it alone has a candidate.            *)
AttachInv ==
  /\ task # "none" => handler \notin Opening \cup {"drain", "closed"}
  /\ candidate # NoRelay => ws[candidate] = "unused" /\ candidate # relay
  /\ handler = "connect" \/ task = "connect" <=> candidate # NoRelay

(* A reconnect works on a tap that is bound to nothing.                    *)
ReconnectInv ==
  /\ task \in {"start", "stale", "connect"} => connected = None
  /\ task \in {"stale", "connect"} => relay = NoRelay
  /\ task = "stale" <=> stale # NoRelay
  /\ stale # NoRelay => ws[stale] # "open"

(* Who is bound has a relay, who is not has none or a dead one; there is   *)
(* nothing to be bound to before the engine's first start.                 *)
BoundInv ==
  /\ up => config # None
  /\ handler \in {"new", "connect"} => relay = NoRelay
  /\ handler = "send" => connected # None /\ left > 0
  /\ connected # None => relay # NoRelay
  /\ connected = None /\ relay # NoRelay => ws[relay] # "open"

(* The gate that is being built is built for what the tap is bound to.     *)
GateInv ==
  /\ GateFitsRelay
  /\ (handler = "gate" \/ task = "gate") /\ connected # None => connected = cfg

(* Every socket is the relay's or the stale relay's.                       *)
Accounted == \A r \in Relays : ws[r] # "unused" => r = relay \/ r = stale

RelayInv ==
  /\ RelayTypeOK /\ AttachInv /\ ReconnectInv /\ BoundInv /\ GateInv
  /\ Accounted /\ NothingLeaks

LEMMA RelayInitInv == RelayInit => RelayInv
<1> SUFFICES ASSUME RelayInit PROVE RelayInv
  OBVIOUS
<1>1. RelayTypeOK
  <2>1. 0 \in 0..MaxDrops /\ 0 \in 0..MaxBurst
    BY RelayAssumption
  <2>2. ws \in [Relays -> {"unused", "open", "broken"}]
    BY DEF RelayInit
  <2> QED
    BY <2>1, <2>2 DEF RelayInit, RelayTypeOK
<1>2. AttachInv /\ ReconnectInv /\ BoundInv /\ GateInv
  BY DEF RelayInit, AttachInv, ReconnectInv, BoundInv, GateInv, GateFitsRelay,
         Opening
<1>3. Accounted /\ NothingLeaks
  BY DEF RelayInit, Accounted, NothingLeaks
<1> QED
  BY <1>1, <1>2, <1>3 DEF RelayInv

LEMMA EngineKeeps ==
  ASSUME RelayInv, EngineStarts \/ EngineStops \/ (\E r \in Relays : SocketDrops(r))
  PROVE  RelayInv'
<1> USE RelayAssumption
    DEF RelayInv, RelayTypeOK, AttachInv, ReconnectInv, BoundInv, GateInv,
        GateFitsRelay, Accounted, NothingLeaks, Opening, attachVars
<1>1. CASE EngineStarts
  BY <1>1 DEF EngineStarts, Configs, None
<1>2. CASE EngineStops
  <2>1. RelayTypeOK'
    BY <1>2 DEF EngineStops
  <2>2. (AttachInv /\ ReconnectInv)'
    BY <1>2 DEF EngineStops
  <2>3. BoundInv'
    BY <1>2 DEF EngineStops
  <2>4. GateInv'
    BY <1>2 DEF EngineStops
  <2>5. (Accounted /\ NothingLeaks)'
    BY <1>2 DEF EngineStops
  <2> QED
    BY <2>1, <2>2, <2>3, <2>4, <2>5 DEF RelayInv
<1>3. ASSUME NEW r \in Relays, SocketDrops(r)
      PROVE  RelayInv'
  BY <1>3 DEF SocketDrops
<1> QED
  BY <1>1, <1>2, <1>3

LEMMA HandlerKeeps ==
  ASSUME RelayInv,
         Open \/ Feed \/ (\E n \in 0..MaxBurst : VadAnswers(n)) \/ Forward
         \/ Sent \/ Close \/ Cancelled \/ HandlerDrained
  PROVE  RelayInv'
<1> USE RelayAssumption
    DEF RelayInv, RelayTypeOK, AttachInv, ReconnectInv, BoundInv, GateInv,
        GateFitsRelay, Accounted, NothingLeaks, Opening, attachVars, engineVars
<1>1. CASE Open
  BY <1>1 DEF Open, BeginAttach
<1>2. CASE Feed
  BY <1>2 DEF Feed
<1>3. ASSUME NEW n \in 0..MaxBurst, VadAnswers(n)
      PROVE  RelayInv'
  BY <1>3 DEF VadAnswers
<1>4. CASE Forward
  <2>1. RelayTypeOK'
    <3>1. handler' \in {"send", "receive"} /\ left' \in 0..MaxBurst
      BY <1>4 DEF Forward
    <3>2. task' \in {"none", "start", "stale", "connect", "gate"}
      BY <1>4 DEF Forward, ScheduleReconnect
    <3>3. recent' \in BOOLEAN
      <4>1. recent' = recent \/ recent' = TRUE
        BY <1>4, ZenonT(60) DEF Forward, ScheduleReconnect
      <4> QED
        BY <4>1
    <3> QED
      BY <1>4, <3>1, <3>2, <3>3 DEF Forward
  <2>2. (AttachInv /\ ReconnectInv)'
    BY <1>4 DEF Forward, ScheduleReconnect
  <2>3. BoundInv'
    BY <1>4 DEF Forward, ScheduleReconnect
  <2>4. GateInv'
    BY <1>4 DEF Forward, ScheduleReconnect
  <2>5. (Accounted /\ NothingLeaks)'
    BY <1>4 DEF Forward, ScheduleReconnect
  <2> QED
    BY <2>1, <2>2, <2>3, <2>4, <2>5 DEF RelayInv
<1>5. CASE Sent
  <2>0. left \in Nat /\ left > 0
    BY <1>5 DEF Sent
  <2>1. RelayTypeOK'
    <3>1. left' \in 0..MaxBurst
      BY <1>5, <2>0 DEF Sent
    <3> QED
      BY <1>5, <3>1 DEF Sent, None
  <2>2. (AttachInv /\ ReconnectInv)'
    BY <1>5 DEF Sent
  <2>3. BoundInv'
    BY <1>5 DEF Sent
  <2>4. GateInv'
    BY <1>5 DEF Sent
  <2>5. (Accounted /\ NothingLeaks)'
    BY <1>5 DEF Sent
  <2> QED
    BY <2>1, <2>2, <2>3, <2>4, <2>5 DEF RelayInv
<1>6. CASE Close
  BY <1>6 DEF Close
<1>7. CASE Cancelled
  BY <1>7 DEF Cancelled
<1>8. CASE HandlerDrained
  BY <1>8 DEF HandlerDrained
<1> QED
  BY <1>1, <1>2, <1>3, <1>4, <1>5, <1>6, <1>7, <1>8

LEMMA AttachKeeps ==
  ASSUME RelayInv, OpenAttaches \/ TaskAttaches
  PROVE  RelayInv'
<1> USE RelayAssumption
    DEF RelayInv, RelayTypeOK, AttachInv, ReconnectInv, BoundInv, GateInv,
        GateFitsRelay, Accounted, NothingLeaks, Opening, attachVars, engineVars
<1>1. CASE /\ Connects
           /\ \/ handler = "connect" /\ handler' = "gate" /\ task' = task
              \/ task = "connect" /\ task' = "gate" /\ handler' = handler
  <2>a. /\ candidate \in Relays /\ ws[candidate] = "unused"
        /\ relay = NoRelay /\ stale = NoRelay
        /\ handler' # "closed"
    BY <1>1 DEF Connects, None
  <2>b. /\ relay' = candidate /\ connected' = cfg /\ cfg # None
        /\ ws' = [ws EXCEPT ![candidate] = "open"]
        /\ candidate' = NoRelay /\ stale' = stale /\ gate' = None
        /\ up' = up /\ config' = config
    BY <1>1 DEF Connects
  <2>1. RelayTypeOK'
    BY <1>1 DEF Connects
  <2>2. (AttachInv /\ ReconnectInv)'
    BY <1>1 DEF Connects
  <2>3. BoundInv'
    BY <1>1, <2>a, <2>b DEF Connects
  <2>4. GateInv'
    BY <1>1 DEF Connects
  <2>5. (Accounted /\ NothingLeaks)'
    BY <2>a, <2>b
  <2> QED
    BY <2>1, <2>2, <2>3, <2>4, <2>5 DEF RelayInv
<1>2. CASE /\ ConnectFails
           /\ \/ handler = "connect" /\ handler' = "receive" /\ task' = task
              \/ task = "connect" /\ task' = "none" /\ handler' = handler
  BY <1>2 DEF ConnectFails
<1>3. CASE /\ BuildsGate
           /\ \/ handler = "gate" /\ handler' = "receive" /\ task' = task
              \/ task = "gate" /\ task' = "none" /\ handler' = handler
  BY <1>3 DEF BuildsGate
<1> QED
  BY <1>1, <1>2, <1>3 DEF OpenAttaches, TaskAttaches

LEMMA TaskKeeps ==
  ASSUME RelayInv, ReconnectStarts \/ StaleClosed \/ BackoffPasses
  PROVE  RelayInv'
<1> USE RelayAssumption
    DEF RelayInv, RelayTypeOK, AttachInv, ReconnectInv, BoundInv, GateInv,
        GateFitsRelay, Accounted, NothingLeaks, Opening, attachVars, engineVars
<1>1. CASE ReconnectStarts
  BY <1>1 DEF ReconnectStarts, BeginAttach
<1>2. CASE StaleClosed
  BY <1>2 DEF StaleClosed, BeginAttach
<1>3. CASE BackoffPasses
  <2>1. RelayTypeOK'
    <3>1. recent' = FALSE
      BY <1>3, Zenon DEF BackoffPasses
    <3>2. recent' \in BOOLEAN
      BY <3>1
    <3> QED
      BY <1>3, <3>2 DEF BackoffPasses
  <2>2. (AttachInv /\ ReconnectInv)'
    BY <1>3 DEF BackoffPasses
  <2>3. BoundInv'
    BY <1>3 DEF BackoffPasses
  <2>4. GateInv'
    BY <1>3 DEF BackoffPasses
  <2>5. (Accounted /\ NothingLeaks)'
    BY <1>3 DEF BackoffPasses
  <2> QED
    BY <2>1, <2>2, <2>3, <2>4, <2>5 DEF RelayInv
<1> QED
  BY <1>1, <1>2, <1>3

LEMMA RelayKeeps == RelayInv /\ [RelayNext]_relayVars => RelayInv'
<1> SUFFICES ASSUME RelayInv, [RelayNext]_relayVars PROVE RelayInv'
  OBVIOUS
<1>1. CASE UNCHANGED relayVars
  BY <1>1 DEF relayVars, engineVars, attachVars, RelayInv, RelayTypeOK, AttachInv,
       ReconnectInv, BoundInv, GateInv, GateFitsRelay, Accounted, NothingLeaks
<1>2. CASE RelayNext
  BY <1>1, <1>2, EngineKeeps, HandlerKeeps, AttachKeeps, TaskKeeps
     DEF RelayNext, Closed
<1> QED
  BY <1>1, <1>2

LEMMA RelayInvariance == RelaySpec => []RelayInv
BY RelayInitInv, RelayKeeps, PTL DEF RelaySpec

-----------------------------------------------------------------------------
(* RelayTypeOK for any number of relays, engine starts and frames: what the *)
(* handler and the reconnect task leave in a TapRelay's fields is of its   *)
(* kind at every await, and a forward never counts below zero.             *)
THEOREM RelayTyping == RelaySpec => []RelayTypeOK
<1>1. RelayInv => RelayTypeOK
  BY DEF RelayInv
<1> QED
  BY <1>1, RelayInvariance, PTL

(* GateFitsRelay: a gate built for one configuration of the engine never   *)
(* filters what a relay bound to another is sent, whatever the order of    *)
(* engine restarts, failed attaches and frames (_attach and feed).         *)
THEOREM GateFits == RelaySpec => []GateFitsRelay
<1>1. RelayInv => GateFitsRelay
  BY DEF RelayInv, GateInv
<1> QED
  BY <1>1, RelayInvariance, PTL

(* NothingLeaks: once close has returned no relay has a websocket left,    *)
(* not even one that a reconnect was opening when the close began.         *)
THEOREM NoSocketLeft == RelaySpec => []NothingLeaks
<1>1. RelayInv => NothingLeaks
  BY DEF RelayInv
<1> QED
  BY <1>1, RelayInvariance, PTL

(* OneSocket: a tap has at most one open websocket to the engine, and      *)
(* every other one it has is the stale one its reconnect is closing.       *)
THEOREM OneSocketOnly == RelaySpec => []OneSocket
<1>1. ASSUME RelayInv PROVE OneSocket
  <2> DEFINE Open1 == {r \in Relays : ws[r] = "open"}
  <2>1. Accounted /\ (stale # NoRelay => ws[stale] # "open")
    BY <1>1 DEF RelayInv, ReconnectInv
  <2>2. \A r \in Open1 : r = relay
    BY <2>1, RelayAssumption DEF Accounted
  <2>3. Cardinality(Open1) <= 1
    <3>1. CASE Open1 = {}
      BY <3>1, FS_EmptySet
    <3>2. CASE Open1 # {}
      <4>1. Open1 = {relay}
        BY <3>2, <2>2
      <4> QED
        BY <4>1, FS_Singleton
    <3> QED
      BY <3>1, <3>2
  <2> QED
    BY <2>1, <2>3 DEF OneSocket, Accounted
<1> QED
  BY <1>1, RelayInvariance, PTL

(* For any number of engine starts and dropped sockets: one socket, the    *)
(* gate that fits it, and none after a close (RelayIsSound).               *)
THEOREM RelaySound == RelaySpec => []RelayIsSound
BY GateFits, NoSocketLeft, OneSocketOnly, PTL DEF RelayIsSound

-----------------------------------------------------------------------------
(* LiveChannel: any number of requests and children.                       *)

(* A stop waits for a child that was born, and goes on when it is dead: a  *)
(* child is never born twice, so it stays so.                              *)
VictimInv ==
  \A r \in Requests :
    /\ at[r] \in {"wait", "leave"} => /\ victim[r] \in Children
                                      /\ child[victim[r]] # "unborn"
    /\ at[r] = "leave" => ~Alive(victim[r])

ChannelInv == ChannelTypeOK /\ VictimInv /\ OneEngine

LEMMA ChannelInitInv == ChannelInit => ChannelInv
BY ChannelAssumption DEF ChannelInit, ChannelInv, ChannelTypeOK, VictimInv, OneEngine, Alive

(* The steps of a request that keep the children as they are.              *)
LEMMA RequestKeeps ==
  ASSUME ChannelInv, NEW r \in Requests,
         Plan(r) \/ BeginTransition(r) \/ Look(r) \/ AskStop(r) \/ StopEnters(r)
         \/ StopLeaves(r)
  PROVE  ChannelInv'
<1> USE ChannelAssumption
    DEF ChannelInv, ChannelTypeOK, VictimInv, OneEngine, Alive, Running, Goes, Stopped,
        infoVars
<1>1. CASE Plan(r)
  BY <1>1 DEF Plan
<1>2. CASE BeginTransition(r)
  BY <1>2, ZenonT(60) DEF BeginTransition
<1>3. CASE Look(r)
  BY <1>3 DEF Look
<1>4. CASE AskStop(r)
  BY <1>4 DEF AskStop
<1>5. CASE StopEnters(r)
  <2>1. ChannelTypeOK'
    BY <1>5, ZenonT(60) DEF StopEnters
  <2>2. OneEngine'
    BY <1>5 DEF StopEnters
  <2>3. VictimInv'
    <3> SUFFICES ASSUME NEW q \in Requests, at'[q] \in {"wait", "leave"}
                 PROVE  /\ victim'[q] \in Children
                        /\ child'[victim'[q]] # "unborn"
                        /\ at'[q] = "leave" => ~Alive(victim[q])'
      OBVIOUS
    <3>1. CASE q = r
      BY <1>5, <3>1 DEF StopEnters
    <3>2. CASE q # r
      BY <1>5, <3>2 DEF StopEnters
    <3> QED
      BY <3>1, <3>2
  <2> QED
    BY <2>1, <2>2, <2>3
<1>6. CASE StopLeaves(r)
  BY <1>6 DEF StopLeaves
<1> QED
  BY <1>1, <1>2, <1>3, <1>4, <1>5, <1>6

LEMMA StartKeeps ==
  ASSUME ChannelInv, NEW r \in Requests, Start(r)
  PROVE  ChannelInv'
<1> USE ChannelAssumption
    DEF ChannelInv, ChannelTypeOK, VictimInv, OneEngine, Alive, Running, Goes, infoVars
<1>1. CASE UNCHANGED <<proc, child, infoVars, pump>>
  BY <1>1 DEF Start
<1>2. CASE /\ ~Running /\ state' = "error" /\ proc' \in {proc, NoChild}
           /\ UNCHANGED <<child, pid, pump>>
  BY <1>2 DEF Start
<1>3. ASSUME NEW p \in Children, child[p] = "unborn", ~Running,
             proc' = p, pid' = p, state' = "starting",
             child' = [child EXCEPT ![p] = "alive"],
             pump' = [pump EXCEPT ![p] = "reading"]
      PROVE  ChannelInv'
  <2>1. ChannelTypeOK'
    BY <1>3 DEF Start
  <2>2. VictimInv'
    <3>1. UNCHANGED victim /\ \A q \in Requests : at'[q] \in {"wait", "leave"}
                             => at'[q] = at[q]
      BY <1>3 DEF Start
    <3>2. \A x \in Children : child[x] # "unborn" => child'[x] = child[x]
      BY <1>3
    <3> QED
      BY <3>1, <3>2
  <2>3. OneEngine'
    BY <1>3 DEF Start
  <2> QED
    BY <2>1, <2>2, <2>3
<1> QED
  BY <1>1, <1>2, <1>3 DEF Start

(* A child dies: by the stop that waits for it, or on its own.             *)
LEMMA DeathKeeps ==
  ASSUME ChannelInv,
         (\E r \in Requests : StopWaits(r)) \/ (\E p \in Children : Crashes(p))
  PROVE  ChannelInv'
<1> USE ChannelAssumption
    DEF ChannelInv, ChannelTypeOK, VictimInv, OneEngine, Alive, Goes, infoVars, requestVars
<1>1. ASSUME NEW r \in Requests, StopWaits(r)
      PROVE  ChannelInv'
  <2>1. CASE Alive(victim[r])
    <3>1. PICK rc \in {"ok", "failed"} :
            child' = [child EXCEPT ![victim[r]] = rc]
      BY <1>1, <2>1 DEF StopWaits
    <3>2. ChannelTypeOK'
      BY <1>1, <2>1, <3>1 DEF StopWaits
    <3>3. VictimInv'
      BY <1>1, <2>1, <3>1 DEF StopWaits
    <3>4. OneEngine'
      BY <1>1, <2>1, <3>1 DEF StopWaits
    <3> QED
      BY <3>2, <3>3, <3>4
  <2>2. CASE ~Alive(victim[r])
    BY <1>1, <2>2 DEF StopWaits
  <2> QED
    BY <2>1, <2>2
<1>2. ASSUME NEW p \in Children, Crashes(p)
      PROVE  ChannelInv'
  <2>1. PICK rc \in {"ok", "failed"} : child' = [child EXCEPT ![p] = rc]
    BY <1>2 DEF Crashes
  <2>2. ChannelTypeOK'
    BY <1>2, <2>1 DEF Crashes
  <2>3. VictimInv'
    BY <1>2, <2>1 DEF Crashes
  <2>4. OneEngine'
    BY <1>2, <2>1 DEF Crashes
  <2> QED
    BY <2>2, <2>3, <2>4
<1> QED
  BY <1>1, <1>2

LEMMA PumpKeeps ==
  ASSUME ChannelInv, NEW p \in Children, Speaks(p) \/ Pump(p)
  PROVE  ChannelInv'
BY ChannelAssumption
   DEF ChannelInv, ChannelTypeOK, VictimInv, OneEngine, Alive, infoVars, requestVars,
       PumpAt, Pump, Speaks, PumpReadsBanner, PumpPromotes, PumpSeesExit,
       PumpStamps

LEMMA ChannelKeeps == ChannelInv /\ [ChannelNext]_channelVars => ChannelInv'
<1> SUFFICES ASSUME ChannelInv, [ChannelNext]_channelVars PROVE ChannelInv'
  OBVIOUS
<1>1. CASE UNCHANGED channelVars
  BY <1>1 DEF channelVars, infoVars, requestVars, ChannelInv, ChannelTypeOK, VictimInv, OneEngine,
              Alive
<1>2. CASE ChannelNext
  BY <1>2, RequestKeeps, StartKeeps, DeathKeeps, PumpKeeps DEF ChannelNext, Request
<1> QED
  BY <1>1, <1>2

LEMMA ChannelInvariance == ChannelSpec => []ChannelInv
BY ChannelInitInv, ChannelKeeps, PTL DEF ChannelSpec

(* Every variable of the channel stays in its range (ChannelTypeOK).       *)
THEOREM ChannelTyping == ChannelSpec => []ChannelTypeOK
BY ChannelInvariance, PTL DEF ChannelInv

(* However many applies and stops overlap, there is one engine at most,    *)
(* the one the channel knows (OneEngine: start's refusal and stop's wait). *)
THEOREM NoOrphans == ChannelSpec => []OneEngine
BY ChannelInvariance, PTL DEF ChannelInv

LEMMA StepIsTrue ==
  ASSUME ChannelInv, [ChannelNext]_channelVars, NEW r \in Requests,
         at[r] = "leave", at'[r] # "leave", infoVars' # infoVars
  PROVE  ~Running
<1>1. ChannelNext
  BY DEF channelVars, requestVars
<1>2. StopLeaves(r)
  <2>1. PICK q \in Requests : Request(q)
    BY <1>1 DEF ChannelNext, Speaks, Crashes, Pump, PumpReadsBanner, PumpPromotes,
                PumpSeesExit, PumpStamps, requestVars
  <2>2. q = r
    BY <2>1 DEF Request, Plan, BeginTransition, Look, Start, AskStop, StopEnters,
                StopWaits, StopLeaves, Goes, ChannelInv, ChannelTypeOK
  <2> QED
    BY <2>1, <2>2 DEF Request, Plan, BeginTransition, Look, Start, AskStop,
                      StopEnters, StopWaits, Goes
<1>3. proc = victim[r]
  BY <1>2 DEF StopLeaves, infoVars
<1> QED
  BY <1>3 DEF ChannelInv, VictimInv, Running

(* A stop that finds its child replaced writes nothing: what it reports it *)
(* reports of a channel that is down (StopTellsTheTruth).                  *)
THEOREM StopsAreTrue == ChannelSpec => StopTellsTheTruth
<1>1. ChannelInv /\ [ChannelNext]_channelVars =>
        [\A r \in Requests :
           at[r] = "leave" /\ at'[r] # "leave" /\ infoVars' # infoVars
           => ~Running]_channelVars
  BY StepIsTrue
<1> QED
  BY <1>1, ChannelInvariance, PTL DEF ChannelSpec, StopTellsTheTruth
=============================================================================
