------------------------------ MODULE TrayBridge ------------------------------
(***************************************************************************)
(* The tray bridge's Core in three layers that each use the next by a      *)
(* promise: BridgeRuntime that a set of devices comes to its end,          *)
(* TapSession that a stream's drain does, TapStream that the other side    *)
(* answers.  So each is checked while the others rest: a behaviour is of   *)
(* one layer, chosen at its start.                                         *)
(***************************************************************************)
EXTENDS TapStream, TapSession, TrayRuntime

VARIABLE layer

bridgeVars == <<layer, tvars, vars, rvars>>

BridgeInit ==
  /\ layer \in {"stream", "session", "runtime"}
  /\ layer # "session" => device = FALSE
  /\ TInit /\ Init /\ RInit

BridgeNext ==
  /\ UNCHANGED layer
  /\ \/ layer = "stream" /\ TNext /\ UNCHANGED <<vars, rvars>>
     \/ layer = "session" /\ Next /\ UNCHANGED <<tvars, rvars>>
     \/ layer = "runtime" /\ RNext /\ UNCHANGED <<tvars, vars>>

(* The pump is run, its timers fire, and a handshake or a send is answered *)
(* or seen to fail.                                                        *)
StreamFairness ==
  /\ WF_tvars(layer = "stream" /\ OwnSteps)
  /\ WF_tvars(layer = "stream" /\ BudgetEnds)
  /\ WF_tvars(layer = "stream" /\ (ConnectOk \/ ConnectFails))
  /\ WF_tvars(layer = "stream" /\ (SendOk \/ SendFails))

(* Threads run on, and a drain that was begun ends; nobody has to speak,   *)
(* mute or quit.                                                           *)
SessionFairness ==
  /\ WF_vars(layer = "session" /\ CaptureStep)
  /\ WF_vars(layer = "session" /\ VolumeStep)
  /\ WF_vars(layer = "session" /\ OwnerStep)
  /\ WF_vars(layer = "session" /\ owner = "detach" /\ Dispose)
  /\ WF_vars(layer = "session" /\ Flushed)

(* The pool runs tasks, the UI thread its posts, and caps pass; no click,  *)
(* no launch, and no device that closes.                                   *)
RuntimeFairness ==
  /\ WF_rvars(layer = "runtime" /\ \E n \in DOMAIN flows : FlowStep(n))
  /\ WF_rvars(layer = "runtime" /\ QuitGoesOn)
  /\ WF_rvars(layer = "runtime" /\ Render)

BridgeSpec ==
  BridgeInit /\ [][BridgeNext]_bridgeVars /\ StreamFairness /\ SessionFairness /\ RuntimeFairness

-----------------------------------------------------------------------------
(* What was begun ends: the drain of an utterance that was ended, the end  *)
(* of a session, a quit, whatever hangs, and the busy menu of a flow       *)
(* whose devices close (TapStream.cs, TapSession.cs, BridgeRuntime.cs).    *)
EverythingEnds == DrainEnds /\ EndComesBack /\ QuitEnds /\ MenuComesBack
=============================================================================
