------------------------------ MODULE TapRelay ------------------------------
(***************************************************************************)
(* tap_relay.py: the live leg of one /tap connection.  The handler task    *)
(* opens it, feeds it frame after frame and closes it; a reconnect task    *)
(* replaces a dead relay behind its back while frames keep arriving; the   *)
(* caption engine stops, restarts with another configuration and drops     *)
(* sockets whenever it likes.                                              *)
(*                                                                         *)
(* Both tasks run on the event loop, so a stretch between two awaits is    *)
(* one action.  The n-th start of the engine stands for its configuration: *)
(* host, port, language and gate settings.                                 *)
(***************************************************************************)
EXTENDS Integers, FiniteSets

CONSTANTS
  Relays,     \* relay objects; one that is closed and dropped is used again
  NoRelay,
  MaxStarts,  \* bound on the starts of the engine
  MaxDrops,   \* bound on the sockets the engine drops while it runs
  MaxBurst    \* bound on the frames a gate lets through at once

ASSUME RelayAssumption ==
  /\ NoRelay \notin Relays
  /\ MaxStarts \in Nat /\ MaxDrops \in Nat /\ MaxBurst \in Nat \ {0}

None == 0
Configs == 1..MaxStarts

VARIABLES
  up, config,  \* the engine: running() and its configuration
  drops,       \* sockets it dropped so far
  ws,          \* a relay's websocket; a broken one has seen its peer go
  relay,       \* _relay
  connected,   \* _connected: the configuration the relay is bound to
  gate,        \* _gate: the configuration its gate was built for
  handler,     \* the handler task
  left,        \* frames of this feed not forwarded yet
  task,        \* _reconnect_task
  stale,       \* _reconnect: the relay it closes first
  candidate,   \* _attach: the relay it connects, and the configuration it
  cfg,         \* took at entry
  recent       \* the last attempt is less than the backoff ago

engineVars == <<up, config, drops>>
attachVars == <<candidate, cfg>>
relayVars == <<engineVars, ws, relay, connected, gate, handler, left, task,
               stale, attachVars, recent>>

RelayTypeOK ==
  /\ up \in BOOLEAN /\ config \in {None} \cup Configs
  /\ drops \in 0..MaxDrops
  /\ ws \in [Relays -> {"unused", "open", "broken"}]
  /\ relay \in Relays \cup {NoRelay}
  /\ connected \in {None} \cup Configs
  /\ gate \in {None} \cup Configs
  /\ handler \in {"new", "connect", "gate", "receive", "vad", "forward",
                  "send", "cancel", "drain", "closed"}
  /\ left \in 0..MaxBurst
  /\ task \in {"none", "start", "stale", "connect", "gate"}
  /\ stale \in Relays \cup {NoRelay}
  /\ candidate \in Relays \cup {NoRelay}
  /\ cfg \in {None} \cup Configs
  /\ recent \in BOOLEAN

RelayInit ==
  /\ up = FALSE /\ config = None /\ drops = 0
  /\ ws = [r \in Relays |-> "unused"]
  /\ relay = NoRelay /\ connected = None /\ gate = None
  /\ handler = "new" /\ left = 0
  /\ task = "none" /\ stale = NoRelay
  /\ candidate = NoRelay /\ cfg = None
  /\ recent = FALSE

-----------------------------------------------------------------------------
(* The engine and its sockets.                                             *)

EngineStarts ==
  /\ ~up /\ config < MaxStarts
  /\ up' = TRUE /\ config' = config + 1
  /\ UNCHANGED <<drops, ws, relay, connected, gate, handler, left, task,
                 stale, attachVars, recent>>

EngineStops ==
  /\ up
  /\ up' = FALSE
  /\ ws' = [r \in Relays |-> IF ws[r] = "open" THEN "broken" ELSE ws[r]]
  /\ UNCHANGED <<config, drops, relay, connected, gate, handler, left, task,
                 stale, attachVars, recent>>

SocketDrops(r) ==
  /\ drops < MaxDrops
  /\ ws[r] = "open"
  /\ ws' = [ws EXCEPT ![r] = "broken"]
  /\ drops' = drops + 1
  /\ UNCHANGED <<up, config, relay, connected, gate, handler, left, task,
                 stale, attachVars, recent>>

-----------------------------------------------------------------------------
(* _attach, for open() in the handler and for the reconnect task: it takes *)
(* the configuration, connects, publishes the relay with the gate cleared, *)
(* and builds the gate on a thread.  There is never more than one of them: *)
(* the first feed comes after open().                                      *)
BeginAttach ==
  /\ \E r \in Relays : ws[r] = "unused" /\ r # relay /\ candidate' = r
  /\ cfg' = config

Connects ==
  /\ up /\ config = cfg
  /\ ws' = [ws EXCEPT ![candidate] = "open"]
  /\ relay' = candidate
  /\ connected' = cfg
  /\ gate' = None
  /\ candidate' = NoRelay
  /\ UNCHANGED <<engineVars, left, stale, cfg, recent>>

ConnectFails ==
  /\ candidate' = NoRelay
  /\ UNCHANGED <<engineVars, ws, relay, connected, gate, left, stale, cfg,
                 recent>>

(* The factory may fail, or the configuration asks for no gate. *)
BuildsGate ==
  /\ gate' \in {None, cfg}
  /\ UNCHANGED <<engineVars, ws, relay, connected, left, stale, attachVars,
                 recent>>

-----------------------------------------------------------------------------
(* The handler task.                                                       *)

Open ==
  /\ handler = "new"
  /\ IF up
     THEN handler' = "connect" /\ BeginAttach
     ELSE handler' = "receive" /\ UNCHANGED attachVars
  /\ UNCHANGED <<engineVars, ws, relay, connected, gate, left, task, stale,
                 recent>>

OpenAttaches ==
  /\ \/ handler = "connect" /\ handler' = "gate" /\ Connects
     \/ handler = "connect" /\ handler' = "receive" /\ ConnectFails
     \/ handler = "gate" /\ handler' = "receive" /\ BuildsGate
  /\ UNCHANGED task

(* feed: the frame goes through the gate of this moment, on a thread. *)
Feed ==
  /\ handler = "receive"
  /\ IF gate # None THEN handler' = "vad" /\ left' = 0
                    ELSE handler' = "forward" /\ left' = 1
  /\ UNCHANGED <<engineVars, ws, relay, connected, gate, task, stale,
                 attachVars, recent>>

(* Any number of frames survive: a closed gate keeps them back, one that   *)
(* opens lets its pre-roll go too.                                         *)
VadAnswers(n) ==
  /\ handler = "vad"
  /\ handler' = "forward"
  /\ left' = n
  /\ UNCHANGED <<engineVars, ws, relay, connected, gate, task, stale,
                 attachVars, recent>>

(* _maybe_schedule_reconnect. *)
ScheduleReconnect ==
  IF task # "none" \/ recent
  THEN UNCHANGED <<task, recent>>
  ELSE task' = "start" /\ recent' = TRUE

(* The next surviving frame: to the relay, or into the void with a new     *)
(* attempt when the engine is there.                                       *)
Forward ==
  /\ handler = "forward"
  /\ IF left > 0 /\ connected # None
     THEN handler' = "send" /\ UNCHANGED <<left, task, recent>>
     ELSE /\ handler' = "receive"
          /\ left' = 0
          /\ IF left > 0 /\ up THEN ScheduleReconnect
                               ELSE UNCHANGED <<task, recent>>
  /\ UNCHANGED <<engineVars, ws, relay, connected, gate, stale, attachVars>>

Sent ==
  /\ handler = "send"
  /\ IF ws[relay] = "open"
     THEN handler' = "forward" /\ left' = left - 1 /\ UNCHANGED connected
     ELSE handler' = "receive" /\ left' = 0 /\ connected' = None
  /\ UNCHANGED <<engineVars, ws, relay, gate, task, stale, attachVars, recent>>

(* Mutant: close does not wait for the reconnect.                          *)
CloseWithoutCancel ==
  /\ handler = "receive"
  /\ handler' = IF relay # NoRelay THEN "drain" ELSE "closed"
  /\ UNCHANGED <<engineVars, ws, relay, connected, gate, left, task, stale,
                 attachVars, recent>>

(* close cancels a pending reconnect.  The cancellation ends it wherever   *)
(* it waits, except in the close of the stale relay, whose drain takes the *)
(* cancellation for a timeout: that attempt goes on to its end.            *)
Close ==
  /\ handler = "receive"
  /\ handler' = "cancel"
  /\ task' = IF task = "stale" THEN "stale" ELSE "none"
  /\ candidate' = NoRelay
  /\ UNCHANGED <<engineVars, ws, relay, connected, gate, left, stale, cfg,
                 recent>>

(* Mutant: a close without a relay waits for one.                          *)
CancelledPolls ==
  /\ handler = "cancel"
  /\ task = "none"
  /\ handler' = IF relay # NoRelay THEN "drain" ELSE "cancel"
  /\ UNCHANGED <<engineVars, ws, relay, connected, gate, left, task, stale,
                 attachVars, recent>>

(* ... awaits it, and closes the relay there is by then. *)
Cancelled ==
  /\ handler = "cancel"
  /\ task = "none"
  /\ handler' = IF relay # NoRelay THEN "drain" ELSE "closed"
  /\ UNCHANGED <<engineVars, ws, relay, connected, gate, left, task, stale,
                 attachVars, recent>>

HandlerDrained ==
  /\ handler = "drain"
  /\ handler' = "closed"
  /\ ws' = [ws EXCEPT ![relay] = "unused"]
  /\ UNCHANGED <<engineVars, relay, connected, gate, left, task, stale,
                 attachVars, recent>>

-----------------------------------------------------------------------------
(* The reconnect task.                                                     *)

ReconnectStarts ==
  /\ task = "start"
  /\ relay' = NoRelay
  /\ connected' = None
  /\ IF relay # NoRelay
     THEN task' = "stale" /\ stale' = relay /\ UNCHANGED attachVars
     ELSE task' = "connect" /\ BeginAttach /\ UNCHANGED stale
  /\ UNCHANGED <<engineVars, ws, gate, handler, left, recent>>

StaleClosed ==
  /\ task = "stale"
  /\ task' = "connect"
  /\ ws' = [ws EXCEPT ![stale] = "unused"]
  /\ stale' = NoRelay
  /\ BeginAttach
  /\ UNCHANGED <<engineVars, relay, connected, gate, handler, left, recent>>

TaskAttaches ==
  /\ \/ task = "connect" /\ task' = "gate" /\ Connects
     \/ task = "connect" /\ task' = "none" /\ ConnectFails
     \/ task = "gate" /\ task' = "none" /\ BuildsGate
  /\ UNCHANGED handler

BackoffPasses ==
  /\ recent
  /\ recent' = FALSE
  /\ UNCHANGED <<engineVars, ws, relay, connected, gate, handler, left, task,
                 stale, attachVars>>

-----------------------------------------------------------------------------
Closed == handler = "closed" /\ UNCHANGED relayVars

RelayNext ==
  \/ EngineStarts \/ EngineStops \/ \E r \in Relays : SocketDrops(r)
  \/ Open \/ OpenAttaches
  \/ Feed \/ (\E n \in 0..MaxBurst : VadAnswers(n)) \/ Forward \/ Sent
  \/ Close \/ Cancelled \/ HandlerDrained
  \/ ReconnectStarts \/ StaleClosed \/ TaskAttaches
  \/ BackoffPasses
  \/ Closed

(* The bridge keeps talking, the awaits return, time passes; an engine     *)
(* that keeps running accepts a connection in the end.  It need not run,   *)
(* and nobody has to close.                                                *)
RelayFairness ==
  /\ WF_relayVars(Open) /\ WF_relayVars(OpenAttaches)
  /\ WF_relayVars(Feed) /\ SF_relayVars(VadAnswers(1))
  /\ WF_relayVars(\E n \in 0..MaxBurst : VadAnswers(n))
  /\ WF_relayVars(Forward) /\ WF_relayVars(Sent)
  /\ WF_relayVars(Cancelled) /\ WF_relayVars(HandlerDrained)
  /\ WF_relayVars(ReconnectStarts) /\ WF_relayVars(StaleClosed)
  /\ WF_relayVars(TaskAttaches)
  /\ SF_relayVars(task = "connect" /\ TaskAttaches /\ Connects)
  /\ WF_relayVars(BackoffPasses)

RelaySpec == RelayInit /\ [][RelayNext]_relayVars /\ RelayFairness

-----------------------------------------------------------------------------
(* A gate built for one configuration never filters what a relay of        *)
(* another configuration is sent (_attach clears the gate before it builds *)
(* the new one).                                                           *)
GateFitsRelay == connected # None /\ gate # None => gate = connected

(* One tap has at most one live socket to the engine, and none when it is  *)
(* closed: neither a burst of frames nor a close in the middle of a        *)
(* reconnect leaves a second one behind.                                   *)
OneSocket ==
  /\ Cardinality({r \in Relays : ws[r] = "open"}) <= 1
  /\ \A r \in Relays : ws[r] # "unused" => r = relay \/ r = stale

NothingLeaks ==
  handler = "closed" => \A r \in Relays : ws[r] = "unused"

(* Whenever the engine restarts and whenever the tap closes: one socket at *)
(* most, with the gate that fits it, and in the end none.                  *)
RelayIsSound == GateFitsRelay /\ OneSocket /\ NothingLeaks

(* An engine that comes back and stays gets every open, talking tap back,  *)
(* under the configuration it runs with now.                               *)
CaptionsResume ==
  <>[](up /\ handler \notin {"cancel", "drain", "closed"})
  => <>[](connected = config /\ relay # NoRelay /\ ws[relay] = "open")

(* A close gets to its end, whatever the reconnect was doing.              *)
CloseEnds == handler = "cancel" ~> handler = "closed"

(* A relay never stays in between: captions come back to an open tap, and  *)
(* a closed one ends (_maybe_schedule_reconnect, TapRelay.close).          *)
RelaySettles == CaptionsResume /\ CloseEnds
=============================================================================
