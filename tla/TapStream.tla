----------------------------- MODULE TapStream -----------------------------
(***************************************************************************)
(* TapStream.cs of the tray bridge's Core: one utterance sent over /tap by *)
(* a pump that reconnects, over a ring of frames that producers fill.      *)
(*                                                                         *)
(* A producer's call and every block of the pump under _lock are one       *)
(* action; between two of them anything may happen, so the head the pump   *)
(* peeked at need not be the head it pops, and the buffer it found empty   *)
(* need not be empty when it looks whether the utterance has ended.        *)
(*                                                                         *)
(* Frames are numbered as they are captured and all have one size.  A      *)
(* connection delivers in order; when it breaks, what was in flight is     *)
(* lost, and sends may go on succeeding into the dead socket for a while.  *)
(* What the Recorder does with two overlapping connections of one          *)
(* utterance is TapFanOut's.  DisposeAsync without a drain is left out:    *)
(* nothing in TapSession calls it.                                         *)
(***************************************************************************)
EXTENDS Integers, Sequences, FiniteSets

CONSTANTS
  MaxFrames, \* bound: frames captured
  Cap,       \* MaxBufferBytes, in frames
  MaxBreaks, \* bound: connections that break
  NoFrame

ASSUME StreamAssumption == /\ MaxFrames \in Nat
                           /\ Cap \in Nat \ {0}
                           /\ MaxBreaks \in Nat
                           /\ NoFrame \notin 1..MaxFrames

VARIABLES
  captured,  \* frames enqueued
  buffer,    \* _buffer
  overflow,  \* DroppedFrames > 0
  draining,  \* _draining
  overdue,   \* _drainDeadlineTicks has passed
  pump,      \* where RunAsync is
  hand,      \* the frame StreamUntilDoneAsync sends
  connected, \* everConnected
  link,      \* the connection of the moment
  net,       \* frames on their way
  heard,     \* frames the Recorder read
  breaks,    \* connections that broke
  outcome    \* how the pump ended

producerVars == <<captured, buffer, overflow, draining>>
linkVars == <<connected, link, net, heard, breaks>>
tvars == <<producerVars, overdue, pump, hand, linkVars, outcome>>

Frames == 1..MaxFrames

(* TapSession opens a stream and enqueues its first frame at once. *)
TInit ==
  /\ captured = 0 /\ buffer = <<>>
  /\ overflow = FALSE /\ draining = FALSE /\ overdue = FALSE
  /\ pump = "connect" /\ hand = NoFrame
  /\ connected = FALSE /\ link = "none" /\ net = <<>> /\ heard = <<>>
  /\ breaks = 0 /\ outcome = "open"

Goes(from, to) == pump = from /\ pump' = to

Ends(how) == outcome' = how

----------------------------------------------------------------------------
(* The producer: TapSession, which drops its stream when it ends it. *)

Full == Len(buffer) = Cap

(* Enqueue: past the cap the oldest frame goes, sent or not. *)
Enqueue ==
  /\ captured < MaxFrames /\ ~draining
  /\ captured' = captured + 1
  /\ buffer' = Append(IF Full THEN Tail(buffer) ELSE buffer, captured + 1)
  /\ overflow' = (overflow \/ Full)
  /\ UNCHANGED <<draining, overdue, pump, hand, linkVars, outcome>>

BeginDrain ==
  /\ ~draining /\ draining' = TRUE
  /\ UNCHANGED <<captured, buffer, overflow, overdue, pump, hand, linkVars, outcome>>

BudgetEnds ==
  /\ draining /\ ~overdue /\ overdue' = TRUE
  /\ UNCHANGED <<producerVars, pump, hand, linkVars, outcome>>

----------------------------------------------------------------------------
(* The Recorder and the network between. *)

Deliver ==
  /\ link = "up" /\ net # <<>>
  /\ heard' = Append(heard, Head(net)) /\ net' = Tail(net)
  /\ UNCHANGED <<producerVars, overdue, pump, hand, connected, link, breaks, outcome>>

Break ==
  /\ link = "up" /\ breaks < MaxBreaks
  /\ link' = "broken" /\ breaks' = breaks + 1 /\ net' = <<>>
  /\ UNCHANGED <<producerVars, overdue, pump, hand, connected, heard, outcome>>

----------------------------------------------------------------------------
(* The pump. *)

ConnectOk ==
  /\ Goes("connect", "peek")
  /\ connected' = TRUE /\ link' = "up"
  /\ UNCHANGED <<producerVars, overdue, hand, net, heard, breaks, outcome>>

(* The first connect is not retried. *)
ConnectFails ==
  /\ IF connected THEN Goes("connect", "retry") /\ UNCHANGED outcome
                  ELSE Goes("connect", "done") /\ Ends("refused")
  /\ UNCHANGED <<producerVars, overdue, hand, linkVars>>

PeekOldest ==
  /\ IF buffer = <<>> THEN Goes("peek", "empty") /\ hand' = NoFrame
                      ELSE Goes("peek", "send") /\ hand' = Head(buffer)
  /\ UNCHANGED <<producerVars, overdue, linkVars, outcome>>

(* A send into a broken link may still look confirmed. *)
SendOk ==
  /\ Goes("send", "pop")
  /\ net' = IF link = "up" THEN Append(net, hand) ELSE net
  /\ UNCHANGED <<producerVars, overdue, hand, connected, link, heard, breaks, outcome>>

SendFails ==
  /\ link # "up" /\ Goes("send", "retry")
  /\ link' = "none"
  /\ UNCHANGED <<producerVars, overdue, hand, connected, net, heard, breaks, outcome>>

(* Mutant: the frame is left in the buffer after a send. *)
PopAfterTheNext ==
  /\ Goes("pop", "peek")
  /\ buffer' = IF Len(buffer) < 2 THEN <<>> ELSE buffer
  /\ UNCHANGED <<captured, overflow, draining, overdue, hand, linkVars, outcome>>

(* PopOldestAndCount: whatever is oldest by now. *)
PopOldest ==
  /\ Goes("pop", "peek")
  /\ buffer' = IF buffer = <<>> THEN buffer ELSE Tail(buffer)
  /\ UNCHANGED <<captured, overflow, draining, overdue, hand, linkVars, outcome>>

(* The buffer was empty: has the utterance ended? *)
LookForDrain ==
  /\ IF draining THEN Goes("empty", "close") ELSE Goes("empty", "wait")
  /\ UNCHANGED <<producerVars, overdue, hand, linkVars, outcome>>

(* An enqueue, the end of the utterance or the poll interval. *)
Wake ==
  /\ Goes("wait", "peek")
  /\ UNCHANGED <<producerVars, overdue, hand, linkVars, outcome>>

Close ==
  /\ Goes("close", "done") /\ Ends("drained")
  /\ UNCHANGED <<producerVars, overdue, hand, linkVars>>

(* BackoffOrGiveUpAsync up to its delay: the one look at the budget. *)
Retry ==
  /\ IF draining /\ overdue THEN Goes("retry", "done") /\ Ends("gaveUp")
                            ELSE Goes("retry", "backoff") /\ UNCHANGED outcome
  /\ UNCHANGED <<producerVars, overdue, hand, linkVars>>

BackoffEnds ==
  /\ Goes("backoff", "connect")
  /\ UNCHANGED <<producerVars, overdue, hand, linkVars, outcome>>

(* A stream that is over, with nothing left to arrive. *)
Ended ==
  /\ pump = "done" /\ UNCHANGED tvars

PumpStep == \/ ConnectOk \/ ConnectFails \/ PeekOldest \/ SendOk \/ SendFails
            \/ PopOldest \/ LookForDrain \/ Wake \/ Close \/ Retry \/ BackoffEnds

TNext == Enqueue \/ BeginDrain \/ BudgetEnds \/ Deliver \/ Break \/ PumpStep \/ Ended

(* What the scheduler and the timers see to.  A handshake and a send come  *)
(* to an end only if the other side answers or the link is seen to fail:   *)
(* nothing on this side bounds them.                                       *)
OwnSteps == PeekOldest \/ PopOldest \/ LookForDrain \/ Wake \/ Close \/ Retry \/ BackoffEnds

----------------------------------------------------------------------------
(* Properties. *)

Increases(s) == \A i \in 1..Len(s) - 1 : s[i] < s[i + 1]

(* Across breaks, retries and overflow the Recorder never reads a frame   *)
(* twice or after a later one (the same utterance_id goes on in one WAV). *)
InOrder == Increases(heard \o net)

Unsent == IF pump = "pop" THEN Tail(buffer) ELSE buffer

(* The frames of a sequence that do not follow the one before. *)
Gaps(s) == {i \in DOMAIN s : s[i] # 1 + (IF i = 1 THEN 0 ELSE s[i - 1])}

(* While the ring has not overflowed, what is missing between capture and  *)
(* the Recorder is one run of frames for each break: those in flight and   *)
(* those confirmed into the dead link after them.                          *)
OneGapPerBreak ==
  ~overflow => Cardinality(Gaps(heard \o net \o Append(Unsent, captured + 1))) <= breaks

(* What the Recorder reads is what was captured, once and in order, but    *)
(* for what each break or an overflow costs.                               *)
FramesArriveOnce == InOrder /\ OneGapPerBreak

(* DrainAndDisposeAsync comes back: an utterance that was ended ends. *)
DrainEnds == draining ~> pump = "done"

============================================================================
