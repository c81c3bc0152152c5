------------------------------- MODULE TapPath -------------------------------
(***************************************************************************)
(* What the Recorder does with a tap, in the three parts a frame of it may *)
(* reach: the WAV of its utterance, the relay that feeds the caption       *)
(* engine, and the channel that supervises that engine.  The WAV does not  *)
(* wait for captions, and of the channel the relay sees only that an       *)
(* engine runs and under which configuration, which TapRelay lets change   *)
(* at any moment.  So each is checked while the others rest: a behaviour   *)
(* is of one part, chosen at its start.                                    *)
(***************************************************************************)
EXTENDS TapFanOut, TapRelay, LiveChannel

CONSTANT MaxApplies

VARIABLE part

pathVars == <<part, fanVars, relayVars, channelVars>>

RecordingRests ==
  /\ tap = [c \in Conns |-> CHOOSE t \in Claim : TRUE]
  /\ dirs = {}

(* Requests differ in what they ask for only, so it is enough to say how   *)
(* many are applies: MaxApplies at most, and none when the channel rests.  *)
Asked(applies) ==
  kind = CHOOSE k \in [Requests -> Kinds] :
           Cardinality({r \in Requests : k[r] = "apply"}) = applies

PathInit ==
  /\ part \in {"recording", "relay", "channel"}
  /\ part # "recording" => RecordingRests
  /\ \E n \in IF part = "channel" THEN 0..MaxApplies ELSE {0} : Asked(n)
  /\ Init /\ RelayInit /\ ChannelInit

PathNext ==
  /\ UNCHANGED part
  /\ \/ part = "recording" /\ TapNext /\ UNCHANGED <<relayVars, channelVars>>
     \/ part = "relay" /\ RelayNext /\ UNCHANGED <<fanVars, channelVars>>
     \/ part = "channel" /\ ChannelNext /\ UNCHANGED <<fanVars, relayVars>>

(* A stretch of the loop runs to its await, and relay.close() returns: its *)
(* waits carry timeouts.  Nobody has to connect, to speak or to hang up.   *)
RecordingFairness ==
  \A c \in Conns :
    WF_fanVars(part = "recording" /\ TapStep(c) /\ (loop = c \/ phase[c] = "drain"))

(* The bridge keeps talking, the awaits return, time passes; an engine     *)
(* that keeps running accepts a connection in the end.                     *)
FeedingFairness ==
  /\ WF_relayVars(part = "relay" /\ Open)
  /\ WF_relayVars(part = "relay" /\ OpenAttaches)
  /\ WF_relayVars(part = "relay" /\ Feed)
  /\ SF_relayVars(part = "relay" /\ VadAnswers(1))
  /\ WF_relayVars(part = "relay" /\ \E n \in 0..MaxBurst : VadAnswers(n))
  /\ WF_relayVars(part = "relay" /\ Forward)
  /\ WF_relayVars(part = "relay" /\ Sent)
  /\ WF_relayVars(part = "relay" /\ Cancelled)
  /\ WF_relayVars(part = "relay" /\ HandlerDrained)
  /\ WF_relayVars(part = "relay" /\ ReconnectStarts)
  /\ WF_relayVars(part = "relay" /\ StaleClosed)
  /\ WF_relayVars(part = "relay" /\ TaskAttaches)
  /\ SF_relayVars(part = "relay" /\ task = "connect" /\ TaskAttaches /\ Connects)
  /\ WF_relayVars(part = "relay" /\ BackoffPasses)

(* Threads that were started run on; nobody has to make a request, and no  *)
(* child has to come up.                                                   *)
SupervisionFairness ==
  /\ \A r \in Requests :
       WF_channelVars(part = "channel" /\ at[r] # "idle" /\ Request(r))
  /\ \A p \in Children : WF_channelVars(part = "channel" /\ Pump(p))

PathSpec ==
  /\ PathInit /\ [][PathNext]_pathVars
  /\ RecordingFairness /\ FeedingFairness /\ SupervisionFairness

-----------------------------------------------------------------------------
(* What was begun ends or comes back: the close of a connection, the       *)
(* captions of an open tap and the close of a relay, the requests of a     *)
(* channel and a death it has to notice (tap_fanout.py, tap_relay.py,      *)
(* live.py).                                                               *)
PathSettles == ClosingEnds /\ RelaySettles /\ NothingHangs
=============================================================================
