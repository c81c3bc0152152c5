----------------------------- MODULE TrayProofs -----------------------------
(***************************************************************************)
(* The bridge, for any number of utterances, mutes, frames, breaks, clicks *)
(* and launches.                                                           *)
(*                                                                         *)
(* TapSession: no stream is open while the device is muted or once the     *)
(* session was disposed, and while nobody mutes the gate and the stream    *)
(* agree.  TapStream: the Recorder reads the frames of an utterance once   *)
(* and in order, with one gap to a break while the ring has not            *)
(* overflowed.  TrayRuntime: the open devices have one owner, the menu     *)
(* tells the mode once all has settled, and a meeting's pipeline is        *)
(* triggered once and followed until its outcome was shown.                *)
(***************************************************************************)
EXTENDS TapSession, TapStream, TrayRuntime, FiniteSetTheorems, SequenceTheorems, TLAPS

----------------------------------------------------------------------------
(* TapSession. *)

(* The gate opens when it was closed and goes on when it was open.         *)
Alternate(e) ==
  \A i \in 1..Len(e) - 1 : e[i] = "closed" <=> e[i + 1] = "opened"

(* Events not handled yet end with what became of the gate.                *)
EventsInv ==
  /\ Alternate(events)
  /\ events # <<>> => gate = (events[Len(events)] # "closed")
  /\ capture # "events" => events = <<>>

(* Frames come once the capture has started, and disposing is an end.      *)
Before == {"read", "seed", "start"}
Ending == {"snapshot", "drain", "detach", "take", "stop", "gone"}

OwnerInv ==
  /\ owner \in Before => /\ current = 0 /\ opened = 0
                         /\ capture = "idle" /\ ~gate
  /\ disposed => owner \in {"stop", "gone"}

(* With no mute since the start, what the seed wrote is still in force.    *)
Unflipped ==
  flips = 0 =>
    /\ volume = "idle" /\ ~pending
    /\ capture \in {"push", "events"} => ~muted

(* At most one of the events opens an utterance, and there is room for it. *)
OpensAt(e, i) == i \in 1..Len(e) /\ e[i] = "opened"
OneOpening(e) == \A i, j \in 1..Len(e) : OpensAt(e, i) /\ OpensAt(e, j) => i = j

Room ==
  /\ OneOpening(events)
  /\ \A i \in 1..Len(events) : OpensAt(events, i) => opened < MaxStreams

Inv == TypeOK /\ EventsInv /\ Room /\ OwnerInv /\ Unflipped

(* A callback's events alternate, and begin with an opening exactly when   *)
(* the gate was closed.                                                    *)
LEMMA EmitsAlternate ==
  ASSUME NEW open \in BOOLEAN, NEW e \in Emits(open)
  PROVE  /\ e \in Seq(Kinds) /\ Len(e) <= 3 /\ Alternate(e) /\ OneOpening(e)
         /\ e # <<>> => (Head(e) # "opened") = open
<1>1. CASE e = <<>>
  BY <1>1 DEF Alternate, OneOpening, OpensAt
<1>2. CASE e = <<"audio">>
  BY <1>2 DEF Alternate, OneOpening, OpensAt, Emits, Kinds
<1>3. CASE e = <<"opened">>
  BY <1>3 DEF Alternate, OneOpening, OpensAt, Emits, Kinds
<1>4. CASE e = <<"audio", "closed">>
  BY <1>4 DEF Alternate, OneOpening, OpensAt, Emits, Kinds
<1>5. CASE e = <<"opened", "audio">>
  BY <1>5 DEF Alternate, OneOpening, OpensAt, Emits, Kinds
<1>6. CASE e = <<"audio", "closed", "opened">>
  BY <1>6 DEF Alternate, OneOpening, OpensAt, Emits, Kinds
<1>7. CASE e = <<"opened", "audio", "closed">>
  BY <1>7 DEF Alternate, OneOpening, OpensAt, Emits, Kinds
<1> QED
  BY <1>1, <1>2, <1>3, <1>4, <1>5, <1>6, <1>7 DEF Emits

LEMMA InitInv == Init => Inv
<1> SUFFICES ASSUME Init PROVE Inv
  OBVIOUS
<1>1. events = <<>> /\ events \in Seq(Kinds) /\ Len(events) = 0
  BY DEF Init
<1>2. TypeOK
  <2>1. << >> \in Seq(Kinds) /\ Len(<< >>) <= 3
    OBVIOUS
  <2>2. 0 \in 0..MaxFlips /\ 0 \in 0..MaxStreams /\ 0 \in 0..0
    BY SessionAssumption
  <2> QED
    BY <2>1, <2>2 DEF Init, TypeOK
<1>3. EventsInv /\ Room
  BY <1>1 DEF EventsInv, Alternate, Room, OneOpening
<1>4. OwnerInv /\ Unflipped
  BY DEF Init, OwnerInv, Unflipped, Before
<1> QED
  BY <1>2, <1>3, <1>4 DEF Inv

LEMMA PushKeeps ==
  ASSUME Inv, Push
  PROVE  Inv'
<1>1. PICK e \in Emits(gate) :
        /\ Cardinality({i \in DOMAIN e : e[i] = "opened"}) <= MaxStreams - opened
        /\ events' = e
        /\ gate' = IF e = <<>> THEN gate ELSE e[Len(e)] # "closed"
  BY DEF Push
<1>2. /\ gate \in BOOLEAN
      /\ opened \in Nat /\ MaxStreams \in Nat /\ opened <= MaxStreams
  BY SessionAssumption DEF Inv, TypeOK
<1>3. e \in Seq(Kinds) /\ Len(e) <= 3 /\ Alternate(e) /\ OneOpening(e)
  BY <1>2, EmitsAlternate
<1>4. ASSUME NEW i \in 1..Len(e), OpensAt(e, i)
      PROVE  opened < MaxStreams
  <2> DEFINE S == {k \in DOMAIN e : e[k] = "opened"}
  <2>1. i \in S
    BY <1>3, <1>4 DEF OpensAt
  <2>2. S \in SUBSET (1..Len(e)) /\ 1 \in Int /\ Len(e) \in Int
    BY <1>3
  <2>3. IsFiniteSet(S)
    BY <2>2, FS_Interval, FS_Subset
  <2>4. Cardinality(S) \in Nat /\ Cardinality(S) # 0
    BY <2>1, <2>3, FS_CardinalityType, FS_EmptySet
  <2> QED
    BY <1>1, <1>2, <2>4
<1>5. TypeOK'
  BY <1>1, <1>3, ZenonT(60) DEF Push, CaptureGoes, Inv, TypeOK, deviceVars, streamVars,
                    ownerVars
<1>6. EventsInv'
  BY <1>1, <1>3 DEF Push, CaptureGoes, EventsInv
<1>7. Room'
  BY <1>1, <1>3, <1>4 DEF Push, Room, streamVars, OpensAt
<1>8. OwnerInv' /\ Unflipped'
  BY <1>1 DEF Push, CaptureGoes, Inv, OwnerInv, Unflipped, Before,
       deviceVars, streamVars, ownerVars
<1> QED
  BY <1>5, <1>6, <1>7, <1>8 DEF Inv

LEMMA Handled ==
  ASSUME Inv, Handle
  PROVE  /\ events # <<>> /\ events \in Seq(Kinds) /\ Len(events) \in 1..3
         /\ \/ Head(events) = "opened" /\ OpenUtterance
            \/ Head(events) = "closed" /\ CloseUtterance
            \/ Head(events) = "audio" /\ UNCHANGED streamVars
<1>1. events # <<>> /\ events \in Seq(Kinds) /\ Len(events) \in 1..3
  <2>1. events # <<>>
    BY DEF Handle
  <2>2. events \in Seq(Kinds) /\ Len(events) <= 3
    BY DEF Inv, TypeOK
  <2>3. Len(events) \in Nat \ {0}
    BY <2>1, <2>2, EmptySeq
  <2>4. \A n \in Nat \ {0} : n <= 3 => n \in 1..3
    OBVIOUS
  <2> QED
    BY <2>1, <2>2, <2>3, <2>4
<1>2. Head(events) \in {"opened", "audio", "closed"}
  BY <1>1 DEF Kinds
<1>3. CASE Head(events) = "opened"
  BY <1>1, <1>3 DEF Handle
<1>4. CASE Head(events) = "closed"
  BY <1>1, <1>4 DEF Handle
<1>5. CASE Head(events) = "audio"
  BY <1>1, <1>5 DEF Handle
<1> QED
  BY <1>1, <1>2, <1>3, <1>4, <1>5

LEMMA HandleKeeps ==
  ASSUME Inv, Handle
  PROVE  Inv'
<1>1. /\ events # <<>> /\ events \in Seq(Kinds) /\ Len(events) \in 1..3
      /\ events' = Tail(events)
  BY Handled DEF Handle
<1>2. /\ events' \in Seq(Kinds) /\ Len(events') = Len(events) - 1
      /\ \A i \in 1..Len(events') : events'[i] = events[i + 1]
      /\ Head(events) = events[1]
  BY <1>1
<1>3. opened \in 0..MaxStreams /\ current \in 0..opened /\ MaxStreams \in Nat
      /\ ended \subseteq 1..opened /\ flushed \subseteq ended
  BY SessionAssumption DEF Inv, TypeOK
<1>4. Head(events) = "opened" => opened < MaxStreams
  BY <1>1, <1>2 DEF Inv, Room, OpensAt
<1>5. /\ opened' \in 0..MaxStreams /\ current' \in 0..opened'
      /\ ended' \subseteq 1..opened' /\ flushed' = flushed
      /\ ended \subseteq ended' /\ disposed' = disposed
      /\ opened' # opened => Head(events) = "opened"
  <2>1. CASE Head(events) = "opened" /\ OpenUtterance
    <3>1. CASE UNCHANGED streamVars
      BY <1>3, <3>1 DEF streamVars
    <3>2. CASE /\ opened' = opened + 1 /\ current' = opened + 1
               /\ UNCHANGED <<ended, flushed, disposed>>
      <4>1. 1..opened \subseteq 1..opened'
        BY <1>3, <3>2
      <4> QED
        BY <1>3, <1>4, <2>1, <3>2, <4>1
    <3> QED
      BY <2>1, <3>1, <3>2 DEF OpenUtterance
  <2>2. CASE CloseUtterance
    BY <1>3, <2>2 DEF CloseUtterance, EndCurrent
  <2>3. CASE UNCHANGED streamVars
    BY <1>3, <2>3 DEF streamVars
  <2> QED
    BY <2>1, <2>2, <2>3, Handled
<1>6. TypeOK'
  BY <1>1, <1>2, <1>3, <1>5
     DEF Inv, TypeOK, Handle, deviceVars, ownerVars
<1>7. EventsInv'
  <2>1. Alternate(events')
    BY <1>1, <1>2 DEF Inv, EventsInv, Alternate
  <2>2. events' # <<>> => events'[Len(events')] = events[Len(events)]
    BY <1>1, <1>2
  <2> QED
    BY <1>1, <2>1, <2>2 DEF Inv, EventsInv, Handle
<1>8. Room'
  <2>1. OneOpening(events')
    <3> SUFFICES ASSUME NEW i \in 1..Len(events'), NEW j \in 1..Len(events'),
                        OpensAt(events', i), OpensAt(events', j)
                 PROVE  i = j
      BY DEF OneOpening
    <3>1. /\ i + 1 \in 1..Len(events) /\ j + 1 \in 1..Len(events)
          /\ OpensAt(events, i + 1) /\ OpensAt(events, j + 1)
      BY <1>1, <1>2 DEF OpensAt
    <3>2. i + 1 = j + 1
      BY <3>1 DEF Inv, Room, OneOpening
    <3> QED
      BY <3>2
  <2>2. ASSUME NEW i \in 1..Len(events'), OpensAt(events', i)
        PROVE  opened' < MaxStreams
    <3>1. i + 1 \in 1..Len(events) /\ 1 \in 1..Len(events) /\ i + 1 # 1
          /\ OpensAt(events, i + 1)
      BY <1>1, <1>2, <2>2 DEF OpensAt
    <3>2. ~OpensAt(events, 1)
      BY <3>1 DEF Inv, Room, OneOpening
    <3>3. opened' = opened
      BY <1>2, <1>5, <3>1, <3>2 DEF OpensAt
    <3> QED
      BY <3>1, <3>3 DEF Inv, Room
  <2> QED
    BY <2>1, <2>2 DEF Room
<1>9. OwnerInv' /\ Unflipped'
  BY <1>5 DEF Inv, OwnerInv, EventsInv, Unflipped, Handle, deviceVars, ownerVars
<1> QED
  BY <1>6, <1>7, <1>8, <1>9 DEF Inv

(* The other steps of the three threads.                                   *)
LEMMA CaptureKeeps ==
  ASSUME Inv, OnData \/ Resync \/ ClearPending \/ LookMuted \/ OnDataReturns
  PROVE  Inv'
<1> USE DEF Inv, TypeOK, EventsInv, Room, OwnerInv, Unflipped, Before,
            CaptureGoes, deviceVars, streamVars, ownerVars
<1>1. CASE OnData
  BY <1>1 DEF OnData
<1>2. CASE Resync
  BY <1>2 DEF Resync
<1>3. CASE ClearPending
  <2>1. TypeOK'
    BY <1>3 DEF ClearPending
  <2>2. EventsInv' /\ Room'
    BY <1>3 DEF ClearPending
  <2>3. OwnerInv' /\ Unflipped'
    BY <1>3 DEF ClearPending
  <2> QED
    BY <2>1, <2>2, <2>3
<1>4. CASE LookMuted
  BY <1>4 DEF LookMuted
<1>5. CASE OnDataReturns
  BY <1>5 DEF OnDataReturns
<1> QED
  BY <1>1, <1>2, <1>3, <1>4, <1>5

LEMMA VolumeKeeps ==
  ASSUME Inv, Flip \/ VolumeStep
  PROVE  Inv'
<1> USE SessionAssumption
    DEF Inv, TypeOK, EventsInv, Room, OwnerInv, Unflipped, Before,
        VolumeGoes, deviceVars, captureVars, streamVars, ownerVars
<1>1. CASE Flip
  BY <1>1 DEF Flip
<1>2. CASE FlagReset
  BY <1>2 DEF FlagReset
<1>3. CASE Mute
  BY <1>3 DEF Mute
<1>4. CASE CloseOnMute
  BY <1>4 DEF CloseOnMute, CloseUtterance, EndCurrent
<1>5. CASE Unmute
  <2>1. TypeOK'
    BY <1>5 DEF Unmute
  <2>2. EventsInv' /\ Room'
    BY <1>5 DEF Unmute
  <2>3. OwnerInv' /\ Unflipped'
    BY <1>5 DEF Unmute
  <2> QED
    BY <2>1, <2>2, <2>3
<1> QED
  BY <1>1, <1>2, <1>3, <1>4, <1>5 DEF VolumeStep

LEMMA OwnerKeeps ==
  ASSUME Inv, OwnerStep \/ EndMeeting \/ Dispose \/ Flushed
  PROVE  Inv'
<1> USE SessionAssumption
    DEF Inv, TypeOK, EventsInv, Room, OwnerInv, Unflipped, Before, Streams,
        OwnerGoes, deviceVars, captureVars, streamVars, ownerVars
<1>1. CASE SeedRead
  BY <1>1 DEF SeedRead
<1>2. CASE SeedWrite
  BY <1>2 DEF SeedWrite
<1>3. CASE StartCapture
  BY <1>3 DEF StartCapture
<1>4. CASE EndMeeting
  <2>1. TypeOK'
    BY <1>4 DEF EndMeeting
  <2>2. EventsInv' /\ Room'
    BY <1>4 DEF EndMeeting
  <2>3. OwnerInv' /\ Unflipped'
    BY <1>4 DEF EndMeeting
  <2> QED
    BY <2>1, <2>2, <2>3
<1>5. CASE Snapshot
  BY <1>5 DEF Snapshot, EndCurrent
<1>6. CASE DrainIsOver
  BY <1>6 DEF DrainIsOver
<1>7. CASE Dispose
  <2>1. TypeOK'
    BY <1>7 DEF Dispose
  <2>2. EventsInv' /\ Room'
    BY <1>7 DEF Dispose
  <2>3. OwnerInv' /\ Unflipped'
    BY <1>7 DEF Dispose
  <2> QED
    BY <2>1, <2>2, <2>3
<1>8. CASE TakeCurrent
  BY <1>8 DEF TakeCurrent, EndCurrent
<1>9. CASE StopAndRelease
  BY <1>9 DEF StopAndRelease
<1>10. CASE Flushed
  BY <1>10 DEF Flushed
<1> QED
  BY <1>1, <1>2, <1>3, <1>4, <1>5, <1>6, <1>7, <1>8, <1>9, <1>10
     DEF OwnerStep

LEMMA NextKeeps == Inv /\ [Next]_vars => Inv'
<1> SUFFICES ASSUME Inv, [Next]_vars PROVE Inv'
  OBVIOUS
<1>1. CASE UNCHANGED vars
  BY <1>1 DEF vars, deviceVars, captureVars, streamVars, ownerVars, Inv,
              TypeOK, EventsInv, Room, OwnerInv, Unflipped
<1>2. CASE Next
  BY <1>2, CaptureKeeps, PushKeeps, HandleKeeps, VolumeKeeps, OwnerKeeps
     DEF Next, CaptureStep
<1> QED
  BY <1>1, <1>2

LEMMA Invariance == Spec => []Inv
BY InitInv, NextKeeps, PTL DEF Spec

-----------------------------------------------------------------------------
LEMMA NextMuted ==
  Inv /\ MutedIsClosed /\ [Next]_vars => MutedIsClosed'
<1> SUFFICES ASSUME Inv, MutedIsClosed, [Next]_vars, muted', volume' # "close"
             PROVE  current' = 0
  BY DEF MutedIsClosed
<1> USE DEF MutedIsClosed, deviceVars, captureVars, streamVars, ownerVars
<1>1. CASE UNCHANGED vars
  BY <1>1 DEF vars
<1>2. CASE OnData \/ Resync \/ ClearPending \/ LookMuted \/ Push \/ OnDataReturns
  BY <1>2 DEF OnData, Resync, ClearPending, LookMuted, Push, OnDataReturns
<1>3. CASE Handle
  <2>1. muted /\ volume # "close" /\ current = 0
    BY <1>3 DEF Handle
  <2> QED
    BY <1>3, <2>1, Handled DEF OpenUtterance, CloseUtterance, EndCurrent
<1>4. CASE Flip \/ VolumeStep
  BY <1>4 DEF Flip, VolumeStep, FlagReset, Mute, CloseOnMute, Unmute,
              VolumeGoes, CloseUtterance, EndCurrent
<1>5. CASE SeedWrite
  BY <1>5 DEF SeedWrite, OwnerGoes, Inv, OwnerInv, Before
<1>6. CASE OwnerStep \/ EndMeeting \/ Dispose \/ Flushed
  BY <1>5, <1>6 DEF OwnerStep, SeedRead, StartCapture, Snapshot, DrainIsOver,
              TakeCurrent, StopAndRelease, EndMeeting, Dispose, Flushed,
              EndCurrent
<1> QED
  BY <1>1, <1>2, <1>3, <1>4, <1>6 DEF Next, CaptureStep

(* No tap is born muted (MutedIsClosed), whatever the capture thread was   *)
(* doing when the handler of the mute ran (OnMuteChanged, OpenUtterance).  *)
THEOREM MutedStaysClosed == Spec => []MutedIsClosed
<1>1. Init => MutedIsClosed
  BY DEF Init, MutedIsClosed
<1> QED
  BY <1>1, NextMuted, Invariance, PTL DEF Spec

LEMMA NextDisposed ==
  Inv /\ DisposedOpensNothing /\ [Next]_vars => DisposedOpensNothing'
<1> SUFFICES ASSUME Inv, DisposedOpensNothing, [Next]_vars, disposed'
             PROVE  current' = 0
  BY DEF DisposedOpensNothing
<1> USE DEF DisposedOpensNothing, deviceVars, captureVars, streamVars, ownerVars
<1>1. CASE UNCHANGED vars
  BY <1>1 DEF vars
<1>2. CASE OnData \/ Resync \/ ClearPending \/ LookMuted \/ Push \/ OnDataReturns
  BY <1>2 DEF OnData, Resync, ClearPending, LookMuted, Push, OnDataReturns
<1>3. CASE Handle
  BY <1>3, Handled DEF OpenUtterance, CloseUtterance, EndCurrent
<1>4. CASE Flip \/ VolumeStep
  BY <1>4 DEF Flip, VolumeStep, FlagReset, Mute, CloseOnMute, Unmute,
              CloseUtterance, EndCurrent
<1>5. CASE OwnerStep \/ EndMeeting \/ Dispose \/ Flushed
  BY <1>5 DEF OwnerStep, SeedRead, SeedWrite, StartCapture, Snapshot,
              DrainIsOver, TakeCurrent, StopAndRelease, EndMeeting, Dispose,
              Flushed, EndCurrent
<1> QED
  BY <1>1, <1>2, <1>3, <1>4, <1>5 DEF Next, CaptureStep

(* A disposed session is not resurrected (DisposedOpensNothing), not even  *)
(* by a callback that was running when DisposeAsync took the stream.       *)
THEOREM DisposedStaysEmpty == Spec => []DisposedOpensNothing
<1>1. Init => DisposedOpensNothing
  BY DEF Init, DisposedOpensNothing
<1> QED
  BY <1>1, NextDisposed, Invariance, PTL DEF Spec

(* Every variable of the session stays in its range (TypeOK): a stream is  *)
(* begun before it is ended and ended before its drain is over.            *)
THEOREM Typing == Spec => []TypeOK
BY Invariance, PTL DEF Inv

-----------------------------------------------------------------------------
(* The state StreamFollowsGate speaks of, and what it says there.          *)
Unmuted == flips = 0 /\ owner \notin Ending

Follows ==
  /\ (current # 0) = HandledGate
  /\ 1..opened \ ended \subseteq {current}

LEMMA HandleFollows ==
  ASSUME Inv, Unmuted, Follows, Handle
  PROVE  Follows'
<1>1. /\ events # <<>> /\ events \in Seq(Kinds) /\ Len(events) \in 1..3
      /\ events' = Tail(events) /\ gate' = gate /\ ~muted /\ ~disposed
      /\ opened \in Nat /\ current \in 0..opened
  BY Handled
     DEF Handle, Inv, TypeOK, OwnerInv, Unflipped, Unmuted, Ending
<1>2. /\ events' \in Seq(Kinds) /\ Len(events') = Len(events) - 1
      /\ Head(events) = events[1]
      /\ events' # <<>> => /\ Len(events) > 1
                           /\ Head(events') = events[2]
      /\ events' = <<>> => Len(events) = 1
  <2>1. /\ events' \in Seq(Kinds) /\ Len(events') = Len(events) - 1
        /\ Head(events) = events[1]
    BY <1>1
  <2>2. events' # <<>> => Len(events') \in Nat \ {0}
    BY <2>1, EmptySeq
  <2>3. ASSUME events' # <<>>
        PROVE  Head(events') = events[2]
    BY <1>1, <2>1, <2>2, <2>3
  <2>4. events' = <<>> => Len(events') = 0
    OBVIOUS
  <2> QED
    BY <1>1, <2>1, <2>2, <2>3, <2>4
<1>3. events' = <<>> => gate = (events[1] # "closed")
  BY <1>1, <1>2 DEF Inv, EventsInv
<1>4. events' # <<>> => (events[1] = "closed" <=> events[2] = "opened")
  BY <1>1, <1>2 DEF Inv, EventsInv, Alternate
<1>5. HandledGate' = (events[1] # "closed")
  BY <1>1, <1>2, <1>3, <1>4 DEF HandledGate
<1>6. CASE Head(events) = "opened" /\ OpenUtterance
  <2>1. current = 0
    BY <1>1, <1>6 DEF Follows, HandledGate
  <2>2. /\ opened' = opened + 1 /\ current' = opened + 1 /\ ended' = ended
    BY <1>1, <1>6 DEF OpenUtterance
  <2>3. 1..opened' \ ended' \subseteq {current'}
    BY <1>1, <2>1, <2>2 DEF Follows
  <2>4. events[1] # "closed"
    BY <1>2, <1>6
  <2>5. current' # 0
    BY <1>1, <2>2
  <2> QED
    BY <1>5, <2>3, <2>4, <2>5 DEF Follows
<1>7. CASE Head(events) = "closed" /\ CloseUtterance
  <2>1. current' = 0 /\ opened' = opened /\ 1..opened \ ended' \subseteq {0}
    BY <1>1, <1>7 DEF CloseUtterance, EndCurrent, Follows
  <2> QED
    BY <1>2, <1>5, <1>7, <2>1 DEF Follows
<1>8. CASE Head(events) = "audio" /\ UNCHANGED streamVars
  <2>1. HandledGate = TRUE /\ HandledGate' = TRUE
    BY <1>1, <1>2, <1>5, <1>8 DEF HandledGate
  <2> QED
    BY <1>8, <2>1 DEF Follows, streamVars
<1> QED
  BY <1>6, <1>7, <1>8, Handled

LEMMA PushFollows ==
  ASSUME Inv, Follows, Push
  PROVE  Follows'
<1>1. gate \in BOOLEAN /\ events = <<>> /\ UNCHANGED streamVars
  BY DEF Push, CaptureGoes, Inv, TypeOK, EventsInv
<1>2. PICK e \in Emits(gate) :
        events' = e /\ gate' = IF e = <<>> THEN gate ELSE e[Len(e)] # "closed"
  BY DEF Push
<1>3. e # <<>> => (Head(e) # "opened") = gate
  BY <1>1, EmitsAlternate
<1>4. HandledGate' = HandledGate
  BY <1>1, <1>2, <1>3 DEF HandledGate
<1> QED
  BY <1>1, <1>4 DEF Follows, streamVars

LEMMA NextFollows ==
  Inv /\ (Unmuted => Follows) /\ [Next]_vars => (Unmuted => Follows)'
<1> SUFFICES ASSUME Inv, Unmuted => Follows, [Next]_vars, Unmuted'
             PROVE  Follows'
  OBVIOUS
<1> USE DEF deviceVars, captureVars, streamVars, ownerVars
<1>1. CASE ~Unmuted
  BY <1>1 DEF Unmuted, Ending, Inv, TypeOK, Next, CaptureStep, VolumeStep,
       OwnerStep, vars, OnData, Resync, ClearPending, LookMuted, Push, Handle,
       OnDataReturns, Flip, FlagReset, Mute, CloseOnMute, Unmute, SeedRead,
       SeedWrite, StartCapture, Snapshot, DrainIsOver, TakeCurrent,
       StopAndRelease, EndMeeting, Dispose, Flushed, OwnerGoes
<1>2. CASE Unmuted
  <2> USE <1>2 DEF Follows, HandledGate
  <2>1. CASE UNCHANGED vars
    BY <2>1 DEF vars
  <2>2. CASE OnData \/ ClearPending \/ LookMuted \/ OnDataReturns
    BY <2>2 DEF OnData, ClearPending, LookMuted, OnDataReturns
  <2>3. CASE Resync
    BY <2>3 DEF Resync, Inv, TypeOK, Unflipped, Unmuted
  <2>4. CASE Flip \/ VolumeStep
    BY <2>4 DEF Flip, VolumeStep, FlagReset, Mute, CloseOnMute, Unmute,
                VolumeGoes, Inv, TypeOK, Unflipped, Unmuted
  <2>5. CASE SeedRead \/ SeedWrite \/ StartCapture \/ Flushed
    BY <2>5 DEF SeedRead, SeedWrite, StartCapture, Flushed
  <2>6. CASE Snapshot \/ DrainIsOver \/ TakeCurrent \/ StopAndRelease
             \/ EndMeeting \/ Dispose
    BY <2>6 DEF Snapshot, DrainIsOver, TakeCurrent, StopAndRelease,
                EndMeeting, Dispose, OwnerGoes, Unmuted, Ending
  <2> QED
    BY <2>1, <2>2, <2>3, <2>4, <2>5, <2>6, HandleFollows, PushFollows
       DEF Next, CaptureStep, OwnerStep
<1> QED
  BY <1>1, <1>2

(* While nobody mutes, the open utterance is there exactly when the gate   *)
(* is open, and no other one is left without a drain (StreamFollowsGate).  *)
THEOREM GateHasItsStream == Spec => []StreamFollowsGate
<1>1. Init => (Unmuted => Follows)
  <2> SUFFICES ASSUME Init PROVE Follows
    OBVIOUS
  <2>1. HandledGate = FALSE /\ current = 0
    BY DEF Init, HandledGate
  <2>2. 1..opened \ ended \subseteq {current}
    BY DEF Init
  <2> QED
    BY <2>1, <2>2 DEF Follows
<1>2. (Unmuted => Follows) => StreamFollowsGate
  BY DEF Unmuted, Follows, Ending, StreamFollowsGate
<1> QED
  BY <1>1, <1>2, NextFollows, Invariance, PTL DEF Spec

(* For any number of utterances and mutes: no callback leaves a stream     *)
(* open behind a mute or the end of its session (NoLateStream).            *)
THEOREM NoneLate == Spec => []NoLateStream
BY MutedStaysClosed, DisposedStaysEmpty, PTL DEF NoLateStream

----------------------------------------------------------------------------
(* TapStream. *)

(* What the Recorder has and what is on its way to it. *)
Sent == heard \o net
LastSent == IF Len(Sent) = 0 THEN 0 ELSE Sent[Len(Sent)]

(* The first frame that is not sent yet, while the ring has not overflowed. *)
FirstUnsent == captured + 1 - Len(buffer) + (IF pump = "pop" THEN 1 ELSE 0)

Reconnecting == {"connect", "retry", "backoff"}

StreamTypeOK ==
  /\ captured \in Nat /\ breaks \in Nat
  /\ buffer \in Seq(Nat) /\ heard \in Seq(Nat) /\ net \in Seq(Nat)
  /\ overflow \in BOOLEAN
  /\ link \in {"none", "up", "broken"}

(* Nothing is sent before the next connection. *)
LinkInv ==
  /\ link = "none" => pump \in Reconnecting \cup {"done"}
  /\ pump \in Reconnecting => link = "none"

(* What is sent comes before what is buffered, the frame in hand between. *)
OrderInv ==
  /\ \A i, j \in 1..Len(Sent) : i < j => Sent[i] < Sent[j]
  /\ \A i \in 1..Len(Sent) : Sent[i] <= captured
  /\ \A i, j \in 1..Len(buffer) : i < j => buffer[i] < buffer[j]
  /\ \A j \in 1..Len(buffer) : buffer[j] <= captured
  /\ pump \in {"send", "pop"} =>
       /\ hand \in Nat /\ buffer # <<>> /\ hand <= captured
       /\ \A j \in 1..Len(buffer) : hand <= buffer[j]
  /\ pump = "send" => \A i \in 1..Len(Sent) : Sent[i] < hand
  /\ pump = "pop" => \A i \in 1..Len(Sent) : Sent[i] <= hand
  /\ pump \notin {"send", "pop"} => \A i \in 1..Len(Sent), j \in 1..Len(buffer) : Sent[i] < buffer[j]

(* A ring that has not overflowed is a run of frames up to the latest. *)
RunInv ==
  ~overflow =>
    /\ Len(buffer) <= captured
    /\ \A j \in 1..Len(buffer) : buffer[j] = captured - Len(buffer) + j
    /\ pump \in {"send", "pop"} => hand = buffer[1]

(* Every gap in what was sent is of a break, and so is the one before the *)
(* frames not sent yet; a link that is broken has one to spare.           *)
GapInv ==
  ~overflow =>
    Cardinality(Gaps(Sent)) + (IF link = "broken" \/ FirstUnsent # 1 + LastSent THEN 1 ELSE 0) <= breaks

StreamInv == StreamTypeOK /\ LinkInv /\ OrderInv /\ RunInv /\ GapInv

(* The gaps of a sequence of frames are some of its places. *)
LEMMA GapsAreFinite ==
  ASSUME NEW s \in Seq(Nat)
  PROVE  /\ IsFiniteSet(Gaps(s)) /\ Cardinality(Gaps(s)) \in Nat
         /\ Gaps(s) \subseteq 1..Len(s)
<1>1. Gaps(s) \subseteq 1..Len(s)
  BY LenProperties DEF Gaps
<1>2. IsFiniteSet(1..Len(s))
  BY FS_Interval, LenProperties
<1>3. IsFiniteSet(Gaps(s))
  BY <1>1, <1>2, FS_Subset
<1> QED  BY <1>1, <1>3, FS_CardinalityType

(* Fewer gaps in fewer places. *)
LEMMA GapsAreFewer ==
  ASSUME NEW s \in Seq(Nat), NEW t \in Seq(Nat), Gaps(s) \subseteq Gaps(t)
  PROVE  Cardinality(Gaps(s)) <= Cardinality(Gaps(t))
  BY GapsAreFinite, FS_Subset

LEMMA OneMoreGap ==
  ASSUME NEW s \in Seq(Nat), NEW t \in Seq(Nat), NEW n, Gaps(s) \subseteq Gaps(t) \cup {n}
  PROVE  Cardinality(Gaps(s)) <= Cardinality(Gaps(t)) + 1
<1>1. IsFiniteSet(Gaps(t)) /\ Cardinality(Gaps(t)) \in Nat
  BY GapsAreFinite
<1>2. /\ IsFiniteSet(Gaps(t) \cup {n})
      /\ Cardinality(Gaps(t) \cup {n}) = IF n \in Gaps(t) THEN Cardinality(Gaps(t)) ELSE Cardinality(Gaps(t)) + 1
  BY <1>1, FS_AddElement
<1>3. Cardinality(Gaps(s)) <= Cardinality(Gaps(t) \cup {n}) /\ Cardinality(Gaps(s)) \in Nat
  BY <1>2, GapsAreFinite, FS_Subset
<1> QED  BY <1>1, <1>2, <1>3

(* A frame sent after another leaves a gap unless it is the next one. *)
LEMMA GapsOfAppend ==
  ASSUME NEW s \in Seq(Nat), NEW f \in Nat
  PROVE  /\ Gaps(Append(s, f)) \subseteq Gaps(s) \cup {Len(s) + 1}
         /\ f = 1 + (IF Len(s) = 0 THEN 0 ELSE s[Len(s)]) => Gaps(Append(s, f)) \subseteq Gaps(s)
<1> DEFINE t == Append(s, f)
<1>1. /\ Len(s) \in Nat /\ t \in Seq(Nat) /\ Len(t) = Len(s) + 1
      /\ \A i \in 1..Len(s) : t[i] = s[i] /\ t[Len(s) + 1] = f
      /\ DOMAIN t = 1..Len(t) /\ DOMAIN s = 1..Len(s)
      /\ t[Len(s) + 1] = f
  BY AppendProperties, LenProperties
<1> HIDE DEF t
<1>2. ASSUME NEW i \in Gaps(t), i # Len(s) + 1 PROVE i \in Gaps(s)
  <2>1. i \in 1..Len(t) /\ t[i] # 1 + (IF i = 1 THEN 0 ELSE t[i - 1])
    BY <1>1, <1>2 DEF Gaps
  <2>2. i \in 1..Len(s)
    BY <1>1, <1>2, <2>1
  <2>3. t[i] = s[i] /\ (i # 1 => i - 1 \in 1..Len(s) /\ t[i - 1] = s[i - 1])
    <3>1. i # 1 => i - 1 \in 1..Len(s)
      BY <1>1, <2>2
    <3> QED  BY <1>1, <2>2, <3>1
  <2> QED  BY <1>1, <2>1, <2>2, <2>3 DEF Gaps
<1>3. ASSUME f = 1 + (IF Len(s) = 0 THEN 0 ELSE s[Len(s)]) PROVE Len(s) + 1 \notin Gaps(t)
  <2>1. Len(s) # 0 => Len(s) \in 1..Len(s) /\ t[Len(s)] = s[Len(s)]
    BY <1>1
  <2>2. Len(s) + 1 - 1 = Len(s) /\ (Len(s) + 1 = 1 <=> Len(s) = 0)
    BY <1>1
  <2> QED  BY <1>1, <1>3, <2>1, <2>2 DEF Gaps
<1> QED  BY <1>2, <1>3 DEF t

(* A beginning has no more gaps. *)
LEMMA GapsOfPrefix ==
  ASSUME NEW s \in Seq(Nat), NEW t \in Seq(Nat), Len(s) <= Len(t), \A i \in 1..Len(s) : s[i] = t[i]
  PROVE  Gaps(s) \subseteq Gaps(t)
<1>1. Len(s) \in Nat /\ Len(t) \in Nat /\ DOMAIN s = 1..Len(s) /\ DOMAIN t = 1..Len(t)
  BY LenProperties
<1> SUFFICES ASSUME NEW i \in Gaps(s) PROVE i \in Gaps(t)
  OBVIOUS
<1>2. i \in 1..Len(s) /\ s[i] # 1 + (IF i = 1 THEN 0 ELSE s[i - 1])
  BY <1>1 DEF Gaps
<1>3. i \in 1..Len(s) /\ i \in 1..Len(t) /\ (i # 1 => i - 1 \in 1..Len(s))
  BY <1>1, <1>2
<1>4. t[i] = s[i] /\ (i # 1 => t[i - 1] = s[i - 1])
  BY <1>3
<1>5. i \in DOMAIN t /\ t[i] # 1 + (IF i = 1 THEN 0 ELSE t[i - 1])
  BY <1>1, <1>2, <1>3, <1>4
<1> QED  BY <1>5 DEF Gaps

(* The two halves of what was sent. *)
LEMMA SentIsASequence ==
  ASSUME StreamTypeOK
  PROVE  /\ Sent \in Seq(Nat) /\ Len(Sent) \in Nat /\ Len(heard) \in Nat /\ Len(heard) <= Len(Sent)
         /\ \A i \in 1..Len(Sent) : Sent[i] \in Nat
         /\ \A i \in 1..Len(heard) : Sent[i] = heard[i]
         /\ Len(buffer) \in Nat /\ \A j \in 1..Len(buffer) : buffer[j] \in Nat
<1>1. heard \in Seq(Nat) /\ net \in Seq(Nat) /\ buffer \in Seq(Nat)
  BY DEF StreamTypeOK
<1>2. Sent \in Seq(Nat) /\ Len(Sent) = Len(heard) + Len(net) /\ Len(heard) \in Nat /\ Len(net) \in Nat
  BY <1>1, ConcatProperties, LenProperties DEF Sent
<1>3. \A i \in 1..Len(heard) + Len(net) : Sent[i] = IF i <= Len(heard) THEN heard[i] ELSE net[i - Len(heard)]
  BY <1>1, ConcatProperties DEF Sent
<1>4. \A i \in 1..Len(heard) : Sent[i] = heard[i]
  BY <1>2, <1>3
<1>5. \A i \in 1..Len(Sent) : Sent[i] \in Nat
  BY <1>2, ElementOfSeq
<1>6. Len(buffer) \in Nat /\ \A j \in 1..Len(buffer) : buffer[j] \in Nat
  BY <1>1, ElementOfSeq, LenProperties
<1> QED  BY <1>2, <1>4, <1>5, <1>6

(* A step that moves neither frames nor the frame in hand. *)
LEMMA RestKeeps ==
  ASSUME StreamInv, LinkInv', UNCHANGED <<captured, buffer, overflow, hand, heard, net, breaks>>,
         pump' = pump \/ (pump \notin {"send", "pop"} /\ pump' \notin {"send", "pop"}),
         link' \in {"none", "up", "broken"}, link' = "broken" => link = "broken"
  PROVE  StreamInv'
<1>1. Sent' = Sent /\ LastSent' = LastSent /\ FirstUnsent' = FirstUnsent
  BY DEF Sent, LastSent, FirstUnsent
<1>2. StreamTypeOK'
  BY DEF StreamInv, StreamTypeOK
<1>3. OrderInv' /\ RunInv'
  BY <1>1 DEF StreamInv, OrderInv, RunInv
<1>4. GapInv'
  <2>1. Cardinality(Gaps(Sent)) \in Nat /\ breaks \in Nat
    BY SentIsASequence, GapsAreFinite DEF StreamInv, StreamTypeOK
  <2> QED  BY <1>1, <2>1 DEF StreamInv, GapInv
<1> QED  BY <1>2, <1>3, <1>4 DEF StreamInv

(* Nothing of the pump but a send or a pop moves a frame. *)
LEMMA PumpRests ==
  ASSUME StreamInv,
         BeginDrain \/ BudgetEnds \/ ConnectOk \/ ConnectFails \/ LookForDrain \/ Wake \/ Close \/ Retry
           \/ BackoffEnds \/ Ended \/ UNCHANGED tvars
  PROVE  StreamInv'
<1>1. /\ UNCHANGED <<captured, buffer, overflow, hand, heard, net, breaks>>
      /\ \/ UNCHANGED <<pump, link>>
         \/ /\ pump \notin {"send", "pop"} /\ pump' \notin {"send", "pop"}
            /\ \/ (link' = link /\ pump' \in Reconnecting /\ pump \in Reconnecting)
               \/ (link' = "up" /\ pump' = "peek")
               \/ (link' = link /\ pump' = "done")
               \/ (link' = link /\ pump \notin Reconnecting \cup {"done"} /\ pump' \notin Reconnecting)
  BY DEF BeginDrain, BudgetEnds, ConnectOk, ConnectFails, LookForDrain, Wake, Close, Retry, BackoffEnds, Ended,
         Goes, Reconnecting, producerVars, linkVars, tvars
<1>2. LinkInv' /\ link' \in {"none", "up", "broken"} /\ (link' = "broken" => link = "broken")
  BY <1>1 DEF StreamInv, StreamTypeOK, LinkInv, Reconnecting
<1> QED  BY <1>1, <1>2, RestKeeps

(* Enqueue: the latest frame follows all others; what overflows is gone. *)
LEMMA EnqueueKeeps == ASSUME StreamInv, Enqueue PROVE StreamInv'
<1>1. /\ captured' = captured + 1
      /\ buffer' = Append(IF Full THEN Tail(buffer) ELSE buffer, captured + 1)
      /\ (overflow' <=> overflow \/ Full)
      /\ UNCHANGED <<pump, hand, link, net, heard, breaks>>
  BY DEF Enqueue, linkVars
<1>2. captured \in Nat /\ buffer \in Seq(Nat) /\ Len(buffer) \in Nat /\ (Full => buffer # <<>>)
  BY StreamAssumption, LenProperties, EmptySeq DEF StreamInv, StreamTypeOK, Full
<1> DEFINE kept == IF Full THEN Tail(buffer) ELSE buffer
<1>3. /\ kept \in Seq(Nat) /\ Len(kept) \in Nat
      /\ ~Full => kept = buffer
      /\ \A i, j \in 1..Len(kept) : i < j => kept[i] < kept[j]
      /\ \A j \in 1..Len(kept) : \E k \in 1..Len(buffer) : kept[j] = buffer[k]
  <2>1. CASE Full
    <3>1. Tail(buffer) \in Seq(Nat) /\ Len(Tail(buffer)) = Len(buffer) - 1 /\ Len(buffer) \in Nat \ {0}
      BY <1>2, <2>1, HeadTailProperties, EmptySeq
    <3>2. \A i \in 1..Len(Tail(buffer)) : Tail(buffer)[i] = buffer[i + 1]
      BY <1>2, <2>1, HeadTailProperties
    <3>3. \A i, j \in 1..Len(buffer) : i < j => buffer[i] < buffer[j]
      BY DEF StreamInv, OrderInv
    <3>4. \A i \in 1..Len(Tail(buffer)) : i + 1 \in 1..Len(buffer)
      BY <3>1
    <3> QED  BY <2>1, <3>1, <3>2, <3>3, <3>4
  <2>2. CASE ~Full
    BY <1>2, <2>2 DEF StreamInv, OrderInv
  <2> QED  BY <2>1, <2>2
<1> HIDE DEF kept
<1>4. /\ buffer' \in Seq(Nat) /\ Len(buffer') = Len(kept) + 1 /\ buffer' # <<>>
      /\ \A i \in 1..Len(kept) : buffer'[i] = kept[i]
      /\ buffer'[Len(kept) + 1] = captured + 1
      /\ \A j \in 1..Len(buffer') : j \in 1..Len(kept) \/ j = Len(kept) + 1
  <2>1. buffer' = Append(kept, captured + 1) /\ captured + 1 \in Nat
    BY <1>1, <1>2 DEF kept
  <2>2. /\ buffer' \in Seq(Nat) /\ Len(buffer') = Len(kept) + 1 /\ buffer' # <<>>
        /\ \A i \in 1..Len(kept) : buffer'[i] = kept[i]
        /\ buffer'[Len(kept) + 1] = captured + 1
    BY <1>3, <2>1, AppendProperties
  <2> QED  BY <1>3, <2>2
<1>5. StreamTypeOK' /\ LinkInv' /\ Sent' = Sent /\ LastSent' = LastSent
  <2>1. Sent' = Sent
    BY <1>1 DEF Sent
  <2>2. overflow' \in BOOLEAN
    BY Zenon DEF Enqueue
  <2> QED  BY <1>1, <1>2, <1>4, <2>1, <2>2 DEF StreamInv, StreamTypeOK, LinkInv, LastSent
<1>6. OrderInv'
  <2>1. \A i \in 1..Len(Sent) : Sent[i] \in Nat /\ Sent[i] <= captured
    BY SentIsASequence DEF StreamInv, OrderInv
  <2>2. \A j \in 1..Len(kept) : kept[j] \in Nat /\ kept[j] <= captured
    BY <1>3, SentIsASequence DEF StreamInv, OrderInv
  <2>3. \A j \in 1..Len(buffer') : buffer'[j] = captured + 1 \/ \E k \in 1..Len(buffer) : buffer'[j] = buffer[k]
    BY <1>3, <1>4
  <2>4. ASSUME NEW i \in 1..Len(buffer'), NEW j \in 1..Len(buffer'), i < j PROVE buffer'[i] < buffer'[j]
    <3>1. i \in 1..Len(kept)
      BY <1>3, <1>4, <2>4
    <3>2. buffer'[i] = kept[i] /\ kept[i] \in Nat /\ kept[i] <= captured
      BY <1>4, <2>2, <3>1
    <3>3. CASE j \in 1..Len(kept)
      BY <1>3, <1>4, <2>4, <3>1, <3>2, <3>3
    <3>4. CASE j = Len(kept) + 1
      BY <1>2, <1>4, <3>2, <3>4
    <3> QED  BY <1>4, <3>3, <3>4
  <2>5. ASSUME NEW j \in 1..Len(buffer') PROVE buffer'[j] <= captured'
    <3>1. CASE j \in 1..Len(kept)
      BY <1>1, <1>2, <1>4, <2>2, <3>1
    <3>2. CASE j = Len(kept) + 1
      BY <1>1, <1>2, <1>4, <3>2
    <3> QED  BY <1>4, <3>1, <3>2
  <2>6. pump \in {"send", "pop"} => hand \in Nat /\ hand <= captured /\ \A j \in 1..Len(buffer) : hand <= buffer[j]
    BY DEF StreamInv, OrderInv
  <2>7. pump \in {"send", "pop"} => \A j \in 1..Len(buffer') : hand <= buffer'[j]
    BY <1>2, <2>3, <2>6
  <2>8. pump \notin {"send", "pop"} => \A i \in 1..Len(Sent), j \in 1..Len(buffer) : Sent[i] < buffer[j]
    BY DEF StreamInv, OrderInv
  <2>9. ASSUME pump \notin {"send", "pop"}, NEW i \in 1..Len(Sent), NEW j \in 1..Len(buffer')
        PROVE  Sent[i] < buffer'[j]
    <3>1. CASE buffer'[j] = captured + 1
      BY <1>2, <2>1, <3>1
    <3>2. CASE \E k \in 1..Len(buffer) : buffer'[j] = buffer[k]
      BY <2>8, <2>9, <3>2
    <3> QED  BY <2>3, <3>1, <3>2
  <2>10. /\ pump = "send" => \A i \in 1..Len(Sent) : Sent[i] < hand
         /\ pump = "pop" => \A i \in 1..Len(Sent) : Sent[i] <= hand
    BY DEF StreamInv, OrderInv
  <2>11. \A i, j \in 1..Len(Sent) : i < j => Sent[i] < Sent[j]
    BY DEF StreamInv, OrderInv
  <2>12. /\ captured' = captured + 1 /\ Sent' = Sent /\ pump' = pump /\ hand' = hand
         /\ \A i \in 1..Len(Sent) : Sent[i] <= captured + 1
         /\ pump \in {"send", "pop"} => hand <= captured + 1
    BY <1>1, <1>2, <1>5, <2>1, <2>6
  <2> QED
    BY <1>4, <2>4, <2>5, <2>6, <2>7, <2>9, <2>10, <2>11, <2>12 DEF OrderInv
<1>7. CASE overflow'
  BY <1>5, <1>6, <1>7 DEF StreamInv, RunInv, GapInv
<1>8. CASE ~overflow'
  <2>1. ~overflow /\ ~Full /\ kept = buffer
    BY <1>1, <1>3, <1>8
  <2>2. RunInv'
    <3>1. Len(buffer) <= captured /\ \A j \in 1..Len(buffer) : buffer[j] = captured - Len(buffer) + j
      BY <2>1 DEF StreamInv, RunInv
    <3>2. ASSUME NEW j \in 1..Len(buffer') PROVE buffer'[j] = captured' - Len(buffer') + j
      <4>1. CASE j \in 1..Len(buffer)
        BY <1>1, <1>2, <1>4, <2>1, <3>1, <4>1
      <4>2. CASE j = Len(buffer) + 1
        BY <1>1, <1>2, <1>4, <2>1, <4>2
      <4> QED  BY <1>4, <2>1, <4>1, <4>2
    <3>3. pump \in {"send", "pop"} => hand = buffer'[1]
      BY <1>2, <1>4, <2>1, EmptySeq DEF StreamInv, RunInv, OrderInv
    <3> QED  BY <1>1, <1>2, <1>4, <2>1, <3>1, <3>2, <3>3 DEF RunInv
  <2>3. FirstUnsent' = FirstUnsent
    BY <1>1, <1>2, <1>4, <2>1 DEF FirstUnsent
  <2>4. GapInv'
    BY <1>1, <1>5, <2>1, <2>3 DEF StreamInv, GapInv
  <2> QED  BY <1>5, <1>6, <2>2, <2>4 DEF StreamInv
<1> QED  BY <1>7, <1>8

(* PeekOldest takes the head in hand; nothing moves. *)
LEMMA PeekKeeps == ASSUME StreamInv, PeekOldest PROVE StreamInv'
<1>1. /\ pump = "peek" /\ UNCHANGED <<captured, buffer, overflow, link, net, heard, breaks>>
      /\ IF buffer = <<>> THEN pump' = "empty" ELSE pump' = "send" /\ hand' = Head(buffer)
  BY DEF PeekOldest, Goes, producerVars, linkVars
<1>2. Sent' = Sent /\ LastSent' = LastSent /\ FirstUnsent' = FirstUnsent
  BY <1>1 DEF Sent, LastSent, FirstUnsent
<1>3. StreamTypeOK' /\ LinkInv' /\ GapInv'
  BY <1>1, <1>2 DEF StreamInv, StreamTypeOK, LinkInv, GapInv, Reconnecting
<1>4. buffer # <<>> => Len(buffer) \in Nat \ {0} /\ Head(buffer) = buffer[1] /\ buffer[1] \in Nat
  BY EmptySeq, ElementOfSeq DEF StreamInv, StreamTypeOK
<1>5. OrderInv'
  <2>1. CASE buffer = <<>>
    BY <1>1, <1>2, <2>1 DEF StreamInv, OrderInv
  <2>2. CASE buffer # <<>>
    <3>1. \A j \in 1..Len(buffer) : buffer[j] \in Nat /\ buffer[1] <= buffer[j]
      BY <1>4, <2>2, SentIsASequence DEF StreamInv, OrderInv
    <3>2. \A i \in 1..Len(Sent) : Sent[i] < buffer[1]
      BY <1>1, <1>4, <2>2 DEF StreamInv, OrderInv
    <3>3. 1 \in 1..Len(buffer)
      BY <1>4, <2>2
    <3> QED  BY <1>1, <1>2, <1>4, <2>2, <3>1, <3>2, <3>3 DEF StreamInv, OrderInv
  <2> QED  BY <2>1, <2>2
<1>6. RunInv'
  BY <1>1, <1>4 DEF StreamInv, RunInv
<1> QED  BY <1>3, <1>5, <1>6 DEF StreamInv

(* SendOk: the frame in hand follows all that was sent, and into a link    *)
(* that is broken it goes to the gap that break has to spare.              *)
LEMMA SendKeeps == ASSUME StreamInv, SendOk PROVE StreamInv'
<1>1. /\ pump = "send" /\ pump' = "pop" /\ net' = IF link = "up" THEN Append(net, hand) ELSE net
      /\ UNCHANGED <<captured, buffer, overflow, hand, link, heard, breaks>>
  BY DEF SendOk, Goes, producerVars
<1>2. /\ hand \in Nat /\ buffer # <<>> /\ hand <= captured /\ \A j \in 1..Len(buffer) : hand <= buffer[j]
      /\ \A i \in 1..Len(Sent) : Sent[i] < hand
      /\ link # "none"
  BY <1>1 DEF StreamInv, OrderInv, LinkInv, Reconnecting
<1>3. heard \in Seq(Nat) /\ net \in Seq(Nat) /\ captured \in Nat /\ Len(buffer) \in Nat /\ breaks \in Nat
      /\ Sent \in Seq(Nat) /\ Len(Sent) \in Nat /\ Cardinality(Gaps(Sent)) \in Nat
  BY SentIsASequence, GapsAreFinite DEF StreamInv, StreamTypeOK
<1>4. FirstUnsent' = FirstUnsent + 1 /\ FirstUnsent \in Int
  BY <1>1, <1>3 DEF FirstUnsent
<1>5. net' \in Seq(Nat)
  BY <1>1, <1>2, <1>3, AppendProperties
<1>6. StreamTypeOK' /\ LinkInv' /\ RunInv'
  BY <1>1, <1>2, <1>5 DEF StreamInv, StreamTypeOK, LinkInv, RunInv, Reconnecting
<1>7. ~overflow => hand = FirstUnsent
  <2>1. Len(buffer) # 0
    BY <1>2, EmptySeq DEF StreamInv, StreamTypeOK
  <2>2. ~overflow => hand = buffer[1] /\ buffer[1] = captured - Len(buffer) + 1
    BY <1>1, <1>3, <2>1 DEF StreamInv, RunInv
  <2> QED  BY <1>1, <1>3, <2>2 DEF FirstUnsent
<1>8. CASE link = "up"
  <2>1. Sent' = Append(Sent, hand)
    <3>1. heard \o Append(net, hand) = heard \o (net \o <<hand>>)
      BY <1>2, <1>3, AppendIsConcat
    <3>2. <<hand>> \in Seq(Nat)
      BY <1>2
    <3>3. heard \o (net \o <<hand>>) = (heard \o net) \o <<hand>>
      BY <1>3, <3>2, ConcatAssociative
    <3>4. (heard \o net) \o <<hand>> = Append(heard \o net, hand)
      BY <1>2, <1>3, AppendIsConcat DEF Sent
    <3> QED  BY <1>1, <1>8, <3>1, <3>3, <3>4 DEF Sent
  <2>2. /\ Sent' \in Seq(Nat) /\ Len(Sent') = Len(Sent) + 1
        /\ \A i \in 1..Len(Sent) : Sent'[i] = Sent[i]
        /\ Sent'[Len(Sent) + 1] = hand
    BY <1>2, <1>3, <2>1, AppendProperties
  <2>3. \A i \in 1..Len(Sent) : Sent[i] \in Nat /\ Sent[i] < hand
    BY <1>2, SentIsASequence DEF StreamInv
  <2>4. \A i \in 1..Len(Sent') : i \in 1..Len(Sent) \/ i = Len(Sent) + 1
    BY <1>3, <2>2
  <2>5. ASSUME NEW i \in 1..Len(Sent'), NEW j \in 1..Len(Sent'), i < j PROVE Sent'[i] < Sent'[j]
    <3>1. i \in 1..Len(Sent)
      BY <1>3, <2>2, <2>5
    <3>2. CASE j \in 1..Len(Sent)
      BY <2>2, <2>5, <3>1, <3>2 DEF StreamInv, OrderInv
    <3>3. CASE j = Len(Sent) + 1
      BY <2>2, <2>3, <3>1, <3>3
    <3> QED  BY <2>4, <3>2, <3>3
  <2>6. ASSUME NEW i \in 1..Len(Sent') PROVE Sent'[i] <= hand
    <3>1. CASE i \in 1..Len(Sent)
      BY <1>2, <2>2, <2>3, <3>1
    <3>2. CASE i = Len(Sent) + 1
      BY <1>2, <2>2, <3>2
    <3> QED  BY <2>4, <3>1, <3>2
  <2>7. /\ \A i, j \in 1..Len(Sent') : i < j => Sent'[i] < Sent'[j]
        /\ \A i \in 1..Len(Sent') : Sent'[i] <= hand
    BY <2>5, <2>6
  <2>8. \A i \in 1..Len(Sent') : Sent'[i] \in Nat /\ Sent'[i] <= captured
    BY <1>2, <1>3, <2>2, <2>3, <2>7
  <2>9. OrderInv'
    BY <1>1, <1>2, <2>7, <2>8 DEF StreamInv, OrderInv
  <2>10. LastSent' = hand
    BY <1>3, <2>2 DEF LastSent
  <2>11. GapInv'
    <3> SUFFICES ASSUME ~overflow PROVE Cardinality(Gaps(Sent')) <= breaks
      <4>1. ASSUME ~overflow, Cardinality(Gaps(Sent')) <= breaks
            PROVE  Cardinality(Gaps(Sent')) + 0 <= breaks /\ FirstUnsent' = 1 + LastSent'
        BY <1>3, <1>4, <1>7, <2>2, <2>10, <4>1, GapsAreFinite
      <4> QED  BY <1>1, <1>8, <4>1 DEF GapInv
    <3>1. Cardinality(Gaps(Sent)) + (IF FirstUnsent # 1 + LastSent THEN 1 ELSE 0) <= breaks
      BY <1>8 DEF StreamInv, GapInv
    <3>2. CASE hand = 1 + LastSent
      <4>1. Gaps(Sent') \subseteq Gaps(Sent)
        BY <1>2, <1>3, <2>1, <3>2, GapsOfAppend DEF LastSent
      <4>2. Cardinality(Gaps(Sent')) <= Cardinality(Gaps(Sent)) /\ Cardinality(Gaps(Sent')) \in Nat
        BY <1>3, <2>2, <4>1, GapsAreFewer, GapsAreFinite
      <4> QED  BY <1>3, <1>7, <3>1, <3>2, <4>2
    <3>3. CASE hand # 1 + LastSent
      <4>1. Gaps(Sent') \subseteq Gaps(Sent) \cup {Len(Sent) + 1}
        BY <1>2, <1>3, <2>1, GapsOfAppend
      <4>2. Cardinality(Gaps(Sent')) <= Cardinality(Gaps(Sent)) + 1 /\ Cardinality(Gaps(Sent')) \in Nat
        BY <1>3, <2>2, <4>1, OneMoreGap, GapsAreFinite
      <4> QED  BY <1>3, <1>7, <3>1, <3>3, <4>2
    <3> QED  BY <3>2, <3>3
  <2> QED  BY <1>6, <2>9, <2>11 DEF StreamInv
<1>9. CASE link = "broken"
  <2>1. Sent' = Sent
    BY <1>1, <1>9 DEF Sent
  <2>2. OrderInv'
    <3>1. \A i \in 1..Len(Sent) : Sent[i] <= hand
      BY <1>2, SentIsASequence DEF StreamInv
    <3> QED  BY <1>1, <1>2, <2>1, <3>1 DEF StreamInv, OrderInv
  <2>3. GapInv'
    BY <1>1, <1>9, <2>1 DEF StreamInv, GapInv
  <2> QED  BY <1>6, <2>2, <2>3 DEF StreamInv
<1> QED  BY <1>2, <1>8, <1>9 DEF StreamInv, StreamTypeOK

(* SendFails: the frame in hand stays at the head, and the link's spare    *)
(* gap is where the next connection goes on.                               *)
LEMMA SendFailsKeeps == ASSUME StreamInv, SendFails PROVE StreamInv'
<1>1. /\ pump = "send" /\ pump' = "retry" /\ link' = "none"
      /\ UNCHANGED <<captured, buffer, overflow, hand, net, heard, breaks>>
  BY DEF SendFails, Goes, producerVars
<1>2. Sent' = Sent /\ LastSent' = LastSent /\ FirstUnsent' = FirstUnsent
  BY <1>1 DEF Sent, LastSent, FirstUnsent
<1>3. StreamTypeOK' /\ LinkInv' /\ RunInv'
  BY <1>1 DEF StreamInv, StreamTypeOK, LinkInv, RunInv, Reconnecting
<1>4. OrderInv'
  <2>1. \A i \in 1..Len(Sent), j \in 1..Len(buffer) : Sent[i] < buffer[j]
    BY <1>1, SentIsASequence DEF StreamInv, OrderInv
  <2> QED  BY <1>1, <1>2, <2>1 DEF StreamInv, OrderInv
<1>5. GapInv'
  <2>1. Cardinality(Gaps(Sent)) \in Nat /\ breaks \in Nat
    BY SentIsASequence, GapsAreFinite DEF StreamInv, StreamTypeOK
  <2> QED  BY <1>1, <1>2, <2>1 DEF StreamInv, GapInv
<1> QED  BY <1>3, <1>4, <1>5 DEF StreamInv

(* PopOldest: whatever is oldest by now was sent, or is older than what was. *)
LEMMA PopKeeps == ASSUME StreamInv, PopOldest PROVE StreamInv'
<1>1. /\ pump = "pop" /\ pump' = "peek" /\ buffer # <<>> /\ buffer' = Tail(buffer)
      /\ UNCHANGED <<captured, overflow, hand, link, net, heard, breaks>>
  BY DEF PopOldest, Goes, linkVars, StreamInv, OrderInv
<1>2. buffer \in Seq(Nat) /\ Len(buffer) \in Nat \ {0} /\ captured \in Nat
  BY <1>1, EmptySeq DEF StreamInv, StreamTypeOK
<1>3. /\ buffer' \in Seq(Nat) /\ Len(buffer') = Len(buffer) - 1
      /\ \A i \in 1..Len(buffer') : buffer'[i] = buffer[i + 1] /\ i + 1 \in 1..Len(buffer)
  BY <1>1, <1>2, HeadTailProperties
<1>4. Sent' = Sent /\ LastSent' = LastSent /\ FirstUnsent' = FirstUnsent
  <2>1. Sent' = Sent
    BY <1>1 DEF Sent
  <2>2. FirstUnsent' = FirstUnsent
    BY <1>1, <1>2, <1>3 DEF FirstUnsent
  <2> QED  BY <2>1, <2>2 DEF LastSent
<1>5. StreamTypeOK' /\ LinkInv' /\ GapInv'
  BY <1>1, <1>3, <1>4 DEF StreamInv, StreamTypeOK, LinkInv, GapInv, Reconnecting
<1>6. OrderInv'
  <2>1. /\ hand \in Nat /\ \A i \in 1..Len(Sent) : Sent[i] \in Nat /\ Sent[i] <= hand
        /\ hand <= buffer[1] /\ 1 \in 1..Len(buffer) /\ \A j \in 1..Len(buffer) : buffer[j] \in Nat
    BY <1>1, <1>2, SentIsASequence DEF StreamInv, OrderInv
  <2>2. ASSUME NEW j \in 1..Len(buffer') PROVE buffer[1] < buffer'[j]
    <3>1. buffer'[j] = buffer[j + 1] /\ j + 1 \in 1..Len(buffer)
      BY <1>3
    <3>2. 1 < j + 1
      OBVIOUS
    <3> QED  BY <2>1, <3>1, <3>2 DEF StreamInv, OrderInv
  <2>3. \A i \in 1..Len(Sent), j \in 1..Len(buffer') : Sent[i] < buffer'[j]
    BY <1>3, <2>1, <2>2
  <2>4. ASSUME NEW i \in 1..Len(buffer'), NEW j \in 1..Len(buffer'), i < j PROVE buffer'[i] < buffer'[j]
    <3>1. i + 1 \in 1..Len(buffer) /\ j + 1 \in 1..Len(buffer)
      BY <1>3
    <3>2. i + 1 < j + 1
      BY <2>4
    <3> QED  BY <1>3, <3>1, <3>2 DEF StreamInv, OrderInv
  <2>5. \A j \in 1..Len(buffer') : buffer'[j] <= captured
    BY <1>3 DEF StreamInv, OrderInv
  <2> QED  BY <1>1, <1>4, <2>3, <2>4, <2>5 DEF StreamInv, OrderInv
<1>7. RunInv'
  BY <1>1, <1>2, <1>3 DEF StreamInv, RunInv
<1> QED  BY <1>5, <1>6, <1>7 DEF StreamInv

(* The Recorder reads what was sent, in order. *)
LEMMA DeliverKeeps == ASSUME StreamInv, Deliver PROVE StreamInv'
<1>1. /\ net # <<>> /\ heard' = Append(heard, Head(net)) /\ net' = Tail(net)
      /\ UNCHANGED <<captured, buffer, overflow, hand, pump, link, breaks>>
  BY DEF Deliver, producerVars
<1>2. heard \in Seq(Nat) /\ net \in Seq(Nat)
  BY DEF StreamInv, StreamTypeOK
<1>3. /\ Head(net) \in Nat /\ Tail(net) \in Seq(Nat) /\ Head(net) = net[1] /\ Len(Tail(net)) = Len(net) - 1
      /\ \A i \in 1..Len(Tail(net)) : Tail(net)[i] = net[i + 1]
      /\ Len(net) \in Nat \ {0} /\ Len(heard) \in Nat
  BY <1>1, <1>2, HeadTailProperties, EmptySeq, LenProperties
<1>4. /\ heard' \in Seq(Nat) /\ Len(heard') = Len(heard) + 1
      /\ \A i \in 1..Len(heard) : heard'[i] = heard[i]
      /\ heard'[Len(heard) + 1] = net[1]
  BY <1>1, <1>2, <1>3, AppendProperties
<1>5. Sent' = Sent
  <2>1. /\ Sent \in Seq(Nat) /\ Len(Sent) = Len(heard) + Len(net)
        /\ \A i \in 1..Len(heard) + Len(net) : Sent[i] = IF i <= Len(heard) THEN heard[i] ELSE net[i - Len(heard)]
    BY <1>2, ConcatProperties DEF Sent
  <2>2. /\ Sent' \in Seq(Nat) /\ Len(Sent') = Len(heard') + Len(net')
        /\ \A i \in 1..Len(heard') + Len(net') : Sent'[i] = IF i <= Len(heard') THEN heard'[i] ELSE net'[i - Len(heard')]
    <3>1. heard' \in Seq(Nat) /\ net' \in Seq(Nat)
      BY <1>1, <1>3, <1>4
    <3> QED  BY <3>1, ConcatProperties DEF Sent
  <2>3. Len(Sent') = Len(Sent)
    BY <1>1, <1>3, <1>4, <2>1, <2>2
  <2>4. \A i \in 1..Len(Sent) : Sent'[i] = Sent[i]
    <3> SUFFICES ASSUME NEW i \in 1..Len(Sent) PROVE Sent'[i] = Sent[i]
      OBVIOUS
    <3>1. i \in Nat /\ i \in 1..Len(heard) + Len(net) /\ i \in 1..Len(heard') + Len(net')
      BY <1>1, <1>3, <1>4, <2>1
    <3>2. CASE i <= Len(heard)
      <4>1. i \in 1..Len(heard) /\ i <= Len(heard')
        BY <1>3, <1>4, <3>2, <3>1
      <4>2. Sent'[i] = heard'[i] /\ heard'[i] = heard[i]
        BY <1>4, <2>2, <3>1, <4>1
      <4>3. Sent[i] = heard[i]
        BY <2>1, <3>2, <3>1
      <4> QED  BY <4>2, <4>3
    <3>3. CASE i = Len(heard) + 1
      <4>1. i <= Len(heard') /\ ~(i <= Len(heard)) /\ i - Len(heard) = 1
        BY <1>3, <1>4, <3>3
      <4>2. Sent'[i] = heard'[i] /\ heard'[i] = net[1]
        BY <1>4, <2>2, <3>3, <3>1, <4>1
      <4>3. Sent[i] = net[1]
        BY <2>1, <3>1, <4>1
      <4> QED  BY <4>2, <4>3
    <3>4. CASE i > Len(heard) + 1
      <4>1. /\ i - Len(heard') \in 1..Len(Tail(net)) /\ i - Len(heard') + 1 = i - Len(heard)
            /\ ~(i <= Len(heard')) /\ ~(i <= Len(heard)) /\ i \in 1..Len(heard') + Len(net')
        BY <1>1, <1>3, <1>4, <2>1, <3>4
      <4> QED  BY <1>1, <1>3, <2>1, <2>2, <4>1
    <3> QED  BY <1>3, <2>1, <3>2, <3>3, <3>4
  <2> QED  BY <2>1, <2>2, <2>3, <2>4, SeqEqual
<1>6. StreamTypeOK' /\ LinkInv' /\ LastSent' = LastSent /\ FirstUnsent' = FirstUnsent
  BY <1>1, <1>3, <1>4, <1>5 DEF StreamInv, StreamTypeOK, LinkInv, LastSent, FirstUnsent
<1>7. OrderInv' /\ RunInv' /\ GapInv'
  BY <1>1, <1>5, <1>6 DEF StreamInv, OrderInv, RunInv, GapInv
<1> QED  BY <1>6, <1>7 DEF StreamInv

(* A break loses the end of what was sent, and has one gap to spare. *)
LEMMA BreakKeeps == ASSUME StreamInv, Break PROVE StreamInv'
<1>1. /\ link = "up" /\ link' = "broken" /\ breaks' = breaks + 1 /\ net' = <<>>
      /\ UNCHANGED <<captured, buffer, overflow, hand, pump, heard>>
  BY DEF Break, producerVars
<1>2. heard \in Seq(Nat) /\ breaks \in Nat /\ Sent \in Seq(Nat) /\ Cardinality(Gaps(Sent)) \in Nat
  BY SentIsASequence, GapsAreFinite DEF StreamInv, StreamTypeOK
<1>3. Sent' = heard
  BY <1>1, <1>2, ConcatEmptySeq DEF Sent
<1>4. Len(heard) \in Nat /\ Len(Sent) \in Nat /\ Len(heard) <= Len(Sent) /\ \A i \in 1..Len(heard) : heard[i] = Sent[i]
  BY SentIsASequence DEF StreamInv
<1>5. StreamTypeOK' /\ LinkInv' /\ RunInv'
  <2>1. net' \in Seq(Nat)
    BY <1>1, EmptySeq
  <2> QED  BY <1>1, <1>2, <2>1 DEF StreamInv, StreamTypeOK, LinkInv, RunInv
<1>6. OrderInv'
  <2>1. \A i \in 1..Len(heard) : i \in 1..Len(Sent) /\ heard[i] = Sent[i]
    BY <1>4
  <2> QED  BY <1>1, <1>3, <2>1 DEF StreamInv, OrderInv
<1>7. GapInv'
  <2>1. Cardinality(Gaps(heard)) <= Cardinality(Gaps(Sent)) /\ Cardinality(Gaps(heard)) \in Nat
    BY <1>2, <1>4, GapsOfPrefix, GapsAreFewer, GapsAreFinite
  <2> QED  BY <1>1, <1>2, <1>3, <2>1 DEF StreamInv, GapInv
<1> QED  BY <1>5, <1>6, <1>7 DEF StreamInv

(* A stream that TapSession has just opened. *)
LEMMA InitStream == TInit => StreamInv
<1> SUFFICES ASSUME TInit PROVE StreamInv
  OBVIOUS
<1>1. Sent = <<>> /\ Len(Sent) = 0 /\ Gaps(Sent) = {} /\ LastSent = 0 /\ FirstUnsent = 1
  BY DEF TInit, Sent, Gaps, LastSent, FirstUnsent
<1>2. Cardinality(Gaps(Sent)) = 0
  BY <1>1, FS_EmptySet
<1>3. StreamTypeOK /\ LinkInv
  BY EmptySeq DEF TInit, StreamTypeOK, LinkInv, Reconnecting
<1>4. OrderInv /\ RunInv /\ GapInv
  BY <1>1, <1>2 DEF TInit, OrderInv, RunInv, GapInv
<1> QED  BY <1>3, <1>4 DEF StreamInv

(* The invariant is inductive. *)
THEOREM StreamStep == StreamInv /\ [TNext]_tvars => StreamInv'
<1> SUFFICES ASSUME StreamInv, [TNext]_tvars PROVE StreamInv'
  OBVIOUS
<1>1. CASE TNext
  BY <1>1, EnqueueKeeps, PumpRests, DeliverKeeps, BreakKeeps, PeekKeeps, SendKeeps, SendFailsKeeps, PopKeeps
     DEF TNext, PumpStep
<1>2. CASE UNCHANGED tvars
  BY <1>2, PumpRests
<1> QED  BY <1>1, <1>2

(* The invariant is enough: the frames not sent yet, and the next one to be *)
(* captured, are one run, which adds a gap at its front at most.            *)
LEMMA FramesFollow == StreamInv => FramesArriveOnce
<1> SUFFICES ASSUME StreamInv PROVE FramesArriveOnce
  OBVIOUS
<1>1. Sent \in Seq(Nat) /\ Len(Sent) \in Nat /\ buffer \in Seq(Nat) /\ captured \in Nat /\ breaks \in Nat
      /\ Cardinality(Gaps(Sent)) \in Nat /\ Len(buffer) \in Nat
  BY SentIsASequence, GapsAreFinite DEF StreamInv, StreamTypeOK
<1>2. InOrder
  <2>1. InOrder <=> Increases(Sent)
    BY DEF InOrder, Sent
  <2>2. ASSUME NEW i \in 1..Len(Sent) - 1 PROVE Sent[i] < Sent[i + 1]
    <3>1. i \in 1..Len(Sent) /\ i + 1 \in 1..Len(Sent) /\ i < i + 1
      BY <1>1
    <3> QED  BY <3>1 DEF StreamInv, OrderInv
  <2> QED  BY <2>1, <2>2 DEF Increases
<1>3. OneGapPerBreak
  <2> SUFFICES ASSUME ~overflow
               PROVE  Cardinality(Gaps(heard \o net \o Append(Unsent, captured + 1))) <= breaks
    BY DEF OneGapPerBreak
  <2> DEFINE rest == Append(Unsent, captured + 1)
             all == Sent \o rest
  <2>1. pump = "pop" => buffer # <<>> /\ Len(buffer) # 0
    BY EmptySeq, <1>1 DEF StreamInv, OrderInv
  <2>2. /\ Unsent \in Seq(Nat) /\ Len(Unsent) \in Nat
        /\ Len(Unsent) = Len(buffer) - (IF pump = "pop" THEN 1 ELSE 0)
        /\ \A j \in 1..Len(Unsent) : Unsent[j] = captured - Len(Unsent) + j
    <3>1. \A j \in 1..Len(buffer) : buffer[j] = captured - Len(buffer) + j
      BY DEF StreamInv, RunInv
    <3>2. CASE pump = "pop"
      <4>1. /\ Unsent = Tail(buffer) /\ Tail(buffer) \in Seq(Nat) /\ Len(Tail(buffer)) = Len(buffer) - 1
            /\ \A j \in 1..Len(Tail(buffer)) : Tail(buffer)[j] = buffer[j + 1]
        BY <1>1, <2>1, <3>2, HeadTailProperties DEF Unsent
      <4>2. \A j \in 1..Len(Tail(buffer)) : j + 1 \in 1..Len(buffer)
        BY <1>1, <2>1, <3>2, <4>1
      <4> QED  BY <1>1, <2>1, <3>1, <3>2, <4>1, <4>2
    <3>3. CASE pump # "pop"
      BY <1>1, <3>1, <3>3 DEF Unsent
    <3> QED  BY <3>2, <3>3
  <2>3. /\ rest \in Seq(Nat) /\ Len(rest) = Len(Unsent) + 1
        /\ \A j \in 1..Len(rest) : rest[j] = FirstUnsent + j - 1
    <3>1. /\ rest \in Seq(Nat) /\ Len(rest) = Len(Unsent) + 1
          /\ \A j \in 1..Len(Unsent) : rest[j] = Unsent[j]
          /\ rest[Len(Unsent) + 1] = captured + 1
      BY <1>1, <2>2, AppendProperties
    <3>2. FirstUnsent = captured + 1 - Len(Unsent)
      BY <1>1, <2>2 DEF FirstUnsent
    <3> HIDE DEF rest
    <3>3. ASSUME NEW j \in 1..Len(rest) PROVE rest[j] = FirstUnsent + j - 1
      <4>1. CASE j \in 1..Len(Unsent)
        BY <1>1, <2>2, <3>1, <3>2, <4>1
      <4>2. CASE j = Len(Unsent) + 1
        BY <1>1, <2>2, <3>1, <3>2, <4>2
      <4> QED  BY <2>2, <3>1, <4>1, <4>2
    <3> QED  BY <3>1, <3>3
  <2>4. FirstUnsent \in Int
    BY <1>1 DEF FirstUnsent
  <2> HIDE DEF rest
  <2>5. /\ all \in Seq(Nat) /\ Len(all) = Len(Sent) + Len(rest)
        /\ \A i \in 1..Len(Sent) + Len(rest) : all[i] = IF i <= Len(Sent) THEN Sent[i] ELSE rest[i - Len(Sent)]
    BY <1>1, <2>3, ConcatProperties
  <2>6. all = heard \o net \o Append(Unsent, captured + 1)
    BY DEF Sent, rest
  <2> HIDE DEF all
  <2>7. ASSUME NEW i \in Gaps(all), i # Len(Sent) + 1 PROVE i \in Gaps(Sent)
    <3>1. i \in 1..Len(all) /\ all[i] # 1 + (IF i = 1 THEN 0 ELSE all[i - 1])
      BY <2>5, <2>7, LenProperties DEF Gaps
    <3>2. CASE i <= Len(Sent)
      <4>1. i \in 1..Len(Sent) /\ i \in 1..Len(Sent) + Len(rest)
            /\ (i # 1 => i - 1 \in 1..Len(Sent) + Len(rest) /\ i - 1 <= Len(Sent))
        BY <1>1, <2>2, <2>3, <2>5, <3>1, <3>2
      <4>2. all[i] = Sent[i] /\ (i # 1 => all[i - 1] = Sent[i - 1])
        BY <2>5, <3>2, <4>1
      <4>3. i \in DOMAIN Sent /\ Sent[i] # 1 + (IF i = 1 THEN 0 ELSE Sent[i - 1])
        BY <1>1, <3>1, <4>1, <4>2, LenProperties
      <4> QED  BY <4>3 DEF Gaps
    <3>3. CASE i > Len(Sent) + 1
      <4>1. i \in Int /\ Len(Sent) \in Nat /\ Len(rest) \in Nat /\ i <= Len(Sent) + Len(rest)
        BY <1>1, <2>2, <2>3, <2>5, <3>1
      <4>2. /\ i - Len(Sent) \in 1..Len(rest) /\ i - 1 - Len(Sent) \in 1..Len(rest) /\ i # 1
            /\ i \in 1..Len(Sent) + Len(rest) /\ i - 1 \in 1..Len(Sent) + Len(rest)
            /\ ~(i <= Len(Sent)) /\ ~(i - 1 <= Len(Sent))
        BY <3>3, <4>1
      <4>3. /\ i - Len(Sent) \in 1..Len(rest) /\ i - 1 - Len(Sent) \in 1..Len(rest) /\ i # 1
            /\ all[i] = rest[i - Len(Sent)] /\ all[i - 1] = rest[i - 1 - Len(Sent)]
        BY <2>5, <4>2
      <4>4. all[i] = FirstUnsent + (i - Len(Sent)) - 1 /\ all[i - 1] = FirstUnsent + (i - 1 - Len(Sent)) - 1
        BY <2>3, <4>3
      <4>5. all[i] = 1 + all[i - 1]
        BY <1>1, <2>4, <3>1, <4>4
      <4> QED  BY <3>1, <4>3, <4>5
    <3> QED  BY <1>1, <2>5, <2>7, <3>1, <3>2, <3>3
  <2>8. FirstUnsent = 1 + LastSent => Len(Sent) + 1 \notin Gaps(all)
    <3>1. all[Len(Sent) + 1] = FirstUnsent
      <4>1. Len(Sent) + 1 \in 1..Len(Sent) + Len(rest) /\ ~(Len(Sent) + 1 <= Len(Sent)) /\ Len(Sent) + 1 - Len(Sent) = 1
            /\ 1 \in 1..Len(rest)
        BY <1>1, <2>2, <2>3
      <4>2. all[Len(Sent) + 1] = rest[1]
        BY <2>5, <4>1
      <4>3. rest[1] = FirstUnsent + 1 - 1
        BY <2>3, <4>1
      <4> QED  BY <2>4, <4>2, <4>3
    <3>2. ASSUME Len(Sent) # 0
          PROVE  all[Len(Sent)] = Sent[Len(Sent)] /\ Len(Sent) + 1 # 1 /\ Len(Sent) + 1 - 1 = Len(Sent)
      <4>1. Len(Sent) \in 1..Len(Sent) + Len(rest) /\ Len(Sent) <= Len(Sent)
        BY <1>1, <2>2, <2>3, <3>2
      <4> QED  BY <1>1, <2>5, <3>2, <4>1
    <3>3. Len(Sent) = 0 => Len(Sent) + 1 = 1
      OBVIOUS
    <3> QED  BY <3>1, <3>2, <3>3 DEF Gaps, LastSent
  <2>9. Cardinality(Gaps(Sent)) + (IF FirstUnsent # 1 + LastSent THEN 1 ELSE 0) <= breaks
    BY <1>1 DEF StreamInv, GapInv
  <2>10. CASE FirstUnsent = 1 + LastSent
    <3>1. Gaps(all) \subseteq Gaps(Sent)
      BY <2>7, <2>8, <2>10
    <3>2. Cardinality(Gaps(all)) <= Cardinality(Gaps(Sent)) /\ Cardinality(Gaps(all)) \in Nat
      BY <1>1, <2>5, <3>1, GapsAreFewer, GapsAreFinite
    <3> QED  BY <1>1, <2>6, <2>9, <2>10, <3>2
  <2>11. CASE FirstUnsent # 1 + LastSent
    <3>1. Gaps(all) \subseteq Gaps(Sent) \cup {Len(Sent) + 1}
      BY <2>7
    <3>2. Cardinality(Gaps(all)) <= Cardinality(Gaps(Sent)) + 1 /\ Cardinality(Gaps(all)) \in Nat
      BY <1>1, <2>5, <3>1, OneMoreGap, GapsAreFinite
    <3> QED  BY <1>1, <2>6, <2>9, <2>11, <3>2
  <2> QED  BY <2>10, <2>11
<1> QED  BY <1>2, <1>3 DEF FramesArriveOnce

(* For any frames, breaks and size of the ring: what the Recorder reads is *)
(* what was captured, once and in order, but for one gap to a break while  *)
(* the ring has not overflowed.                                            *)
THEOREM FramesAlwaysArriveOnce == TInit /\ [][TNext]_tvars => []FramesArriveOnce
BY InitStream, StreamStep, FramesFollow, PTL

----------------------------------------------------------------------------
(* TrayRuntime. *)

(* What a task, a set of devices and a post can be.                        *)
FlowKinds == {"start", "connect", "disconnect", "end"}
Places ==
  {"takeover", "preflight", "publish", "show", "abandon", "drain", "trigger", "poll", "over", "escapes"}
SetStates == {"live", "draining", "closing", "drained", "faulted", "closed"}
MenuPosts == {"idle", "running", "attached"}

FlowType ==
  [kind : FlowKinds, at : Places, set : Nat, session : Nat,
   run : BOOLEAN, cancelled : BOOLEAN, blips : Nat, shown : Nat]

RuntimeTypeOK ==
  /\ process \in {"up", "crashed", "quit"} /\ clicks \in Nat
  /\ sets \in [DOMAIN sets -> SetStates]
  /\ DOMAIN sets \subseteq 1..clicks
  /\ meeting \in Nat /\ room \in Nat /\ saved \in Nat
  /\ flows \in [DOMAIN flows -> FlowType]
  /\ DOMAIN flows \subseteq 1..clicks
  /\ quit \in [at : 0..6, tasks : SUBSET Nat, set : Nat, clicks : Nat]
  /\ capped \in BOOLEAN /\ unlisted \in BOOLEAN
  /\ menu \in MenuPosts \cup {"busy"}
  /\ posts \in Seq(MenuPosts \cup {"shutdown"})
  /\ triggered \in Seq(1..clicks)

(* One task at a time: only a click begins one, and the menu that allows a  *)
(* click is shown when no task is left that has yet to say what it came to. *)
OneFlow == \A m, n \in DOMAIN flows : m = n

Menus(p) == {i \in 1..Len(p) : p[i] # "shutdown"}

Silent == \A n \in DOMAIN flows : flows[n].at = "over"

PostsInv ==
  /\ \A i, j \in Menus(posts) : i = j
  /\ Menus(posts) # {} => menu = "busy"
  /\ Menus(posts) # {} \/ menu # "busy" => Silent

(* Where a task is, and what it then has in hand.                          *)
Rooted(n) ==
  LET f == flows[n] IN
  /\ f.kind = "start" => f.at \in {"takeover", "preflight", "publish", "show", "abandon"}
  /\ f.kind = "connect" => f.at \in {"preflight", "publish", "show", "abandon"}
  /\ f.kind = "disconnect" => f.at = "drain"
  /\ f.kind = "end" => f.at \in {"drain", "trigger", "poll", "over", "escapes"}

HandInv(n) ==
  LET f == flows[n] IN
  /\ f.at # "show" => meeting = 0 /\ room = 0
  /\ f.at \in {"takeover", "drain"} => f.set \in DOMAIN sets /\ sets[f.set] \in {"draining", "drained", "faulted"}
  /\ f.at \in {"takeover", "preflight"} =>
       n \notin DOMAIN sets /\ \A i \in DOMAIN triggered : triggered[i] # n
  /\ f.at = "preflight" => Unclosed = {}
  /\ f.at = "publish" => f.set = n /\ n \in DOMAIN sets /\ sets[n] = "live"
  /\ f.at = "abandon" => f.set = n /\ n \in DOMAIN sets /\ sets[n] \in {"closing", "closed"} /\ Quitting
  /\ f.at = "show" =>
       /\ f.set = 0
       /\ ~Quitting => IF f.kind = "start" THEN meeting = n /\ room = 0 ELSE room = n /\ meeting = 0

(* An End's session.                                                       *)
SessionInv(n) ==
  LET f == flows[n] IN
  f.kind = "end" =>
    /\ f.session \in 1..clicks
    /\ f.at \in {"drain", "trigger", "poll"} => f.session \in settled \/ saved = f.session
    /\ f.at \in {"drain", "trigger"} => f.session = f.set
    /\ f.at = "trigger" => f.session \in DOMAIN sets /\ sets[f.session] = "drained"
    /\ f.at \in {"drain", "trigger", "escapes"} => \A i \in DOMAIN triggered : triggered[i] # f.session
    /\ f.at = "over" => f.session \in settled \cup dropped

FlowInv == \A n \in DOMAIN flows : Rooted(n) /\ HandInv(n) /\ SessionInv(n)

(* Every set that is open is in somebody's hands.                          *)
HeldInv ==
  /\ meeting # 0 => meeting \in DOMAIN sets /\ sets[meeting] = "live" /\ room = 0
  /\ room # 0 => room \in DOMAIN sets /\ sets[room] = "live"
  /\ \A s, t \in Unclosed : s = t
  /\ \A s \in DOMAIN sets :
       /\ sets[s] = "live" => s \in {meeting, room} \/ \E n \in DOMAIN flows : flows[n].at = "publish" /\ n = s
       /\ sets[s] = "draining" =>
            \E n \in DOMAIN flows : flows[n].at \in {"takeover", "drain"} /\ flows[n].set = s
       /\ sets[s] = "closing" =>
            \/ \E n \in DOMAIN flows : flows[n].at = "abandon" /\ n = s
            \/ quit.at \in {2, 3} /\ s = quit.set
            \/ capped /\ Quitting

(* What the quit has behind it.                                            *)
QuitInv ==
  /\ quit.at >= 2 => meeting = 0
  /\ quit.at >= 3 => room = 0
  /\ Quitting => quit.clicks <= clicks
  /\ Quitting /\ ~capped /\ clicks = quit.clicks =>
       /\ DOMAIN flows \subseteq quit.tasks
       /\ quit.at >= 2 => InFlight({"start", "connect"}) = {}
       /\ quit.at >= 5 => InFlight({"disconnect"}) = {}
       /\ quit.at >= 6 => InFlight({"end"}) = {}

(* The menu that is shown, or is about to be.                              *)
MenuInv ==
  ~Quitting =>
    /\ \A i \in 1..Len(posts) : posts[i] # "shutdown"
    /\ ~unlisted => /\ \A i \in 1..Len(posts) : posts[i] = Mode
                    /\ menu # "busy" => menu = Mode
                    /\ menu = "busy" => posts # <<>> \/ ~Silent

(* A pipeline that runs has been triggered once, and is followed.          *)
TriggerInv ==
  /\ \A i, j \in DOMAIN triggered : triggered[i] = triggered[j] => i = j
  /\ \A i \in DOMAIN triggered : triggered[i] \in DOMAIN sets => sets[triggered[i]] = "drained"
  /\ \A i \in DOMAIN triggered :
       \/ triggered[i] \in settled \cup dropped
       \/ /\ saved = triggered[i]
          /\ process = "up" =>
               \E n \in DOMAIN flows :
                 flows[n].kind = "end" /\ flows[n].at = "poll" /\ flows[n].session = saved

GoneInv ==
  process # "up" =>
    /\ DOMAIN sets = {} /\ meeting = 0 /\ room = 0 /\ DOMAIN flows = {}
    /\ quit.at = 0 /\ menu = "idle" /\ posts = <<>>

RuntimeInv ==
  /\ RuntimeTypeOK /\ OneFlow /\ PostsInv /\ FlowInv /\ HeldInv /\ QuitInv /\ MenuInv /\ TriggerInv /\ GoneInv
  /\ saved \in 0..clicks

(* What Put gives. *)
LEMMA PutFacts ==
  ASSUME NEW f, NEW x, NEW value
  PROVE  /\ DOMAIN Put(f, x, value) = DOMAIN f \cup {x}
         /\ Put(f, x, value)[x] = value
         /\ \A y \in DOMAIN f : y # x => Put(f, x, value)[y] = f[y]
  BY DEF Put

(* A new task is a task. *)
LEMMA FlowFacts ==
  ASSUME NEW kind \in FlowKinds, NEW at \in Places, NEW set \in Nat, NEW session \in Nat, NEW run \in BOOLEAN
  PROVE  /\ Flow(kind, at, set, session, run) \in FlowType
         /\ Flow(kind, at, set, session, run).kind = kind /\ Flow(kind, at, set, session, run).at = at
         /\ Flow(kind, at, set, session, run).set = set /\ Flow(kind, at, set, session, run).session = session
  BY DEF Flow, FlowType, Places, FlowKinds

(* One task at most. *)
LEMMA Alone ==
  ASSUME RuntimeInv, NEW n \in DOMAIN flows
  PROVE  DOMAIN flows = {n} /\ flows[n] \in FlowType /\ n \in 1..clicks
  BY DEF RuntimeInv, OneFlow, RuntimeTypeOK, SetStates

(* A task that goes on is where it was sent, and otherwise what it was. *)
LEMMA MovedFlow ==
  ASSUME RuntimeInv, NEW n \in DOMAIN flows, NEW at \in Places, Moves(n, at)
  PROVE  /\ DOMAIN flows' = {n} /\ flows' \in [DOMAIN flows' -> FlowType]
         /\ flows'[n].at = at /\ flows'[n].kind = flows[n].kind
         /\ flows'[n].set = flows[n].set /\ flows'[n].session = flows[n].session
<1>1. DOMAIN flows = {n} /\ flows[n] \in FlowType /\ flows \in [DOMAIN flows -> FlowType]
  BY Alone DEF RuntimeInv, RuntimeTypeOK, SetStates
<1> DEFINE g == [flows[n] EXCEPT !.at = at]
<1>2. g \in FlowType /\ g.at = at /\ g.kind = flows[n].kind /\ g.set = flows[n].set /\ g.session = flows[n].session
  BY <1>1 DEF FlowType, Places
<1>3. flows' = [flows EXCEPT ![n] = g]
  BY DEF Moves
<1> HIDE DEF g
<1> QED  BY <1>1, <1>2, <1>3

(* A task that returns was the only one. *)
LEMMA ReturnedFlow ==
  ASSUME RuntimeInv, NEW n \in DOMAIN flows, Returns(n)
  PROVE  DOMAIN flows' = {} /\ flows' \in [DOMAIN flows' -> FlowType]
<1>1. DOMAIN flows' = {}
  BY Alone DEF Returns
<1> QED  BY <1>1 DEF Returns

(* The task of a click: there was none. *)
LEMMA BegunFlow ==
  ASSUME RuntimeInv, DOMAIN flows = {}, NEW flow \in FlowType, Runs(flow), clicks' = clicks + 1
  PROVE  /\ DOMAIN flows' = {clicks + 1} /\ flows' \in [DOMAIN flows' -> FlowType]
         /\ flows'[clicks + 1] = flow
<1>1. DOMAIN flows' = {clicks + 1} /\ flows'[clicks + 1] = flow
  <2>1. flows' = Put(flows, clicks + 1, flow)
    BY DEF Runs
  <2>2. /\ DOMAIN Put(flows, clicks + 1, flow) = DOMAIN flows \cup {clicks + 1}
        /\ Put(flows, clicks + 1, flow)[clicks + 1] = flow
    BY DEF Put
  <2> QED  BY <2>1, <2>2
<1>2. flows' = [y \in DOMAIN flows' |-> flows'[y]]
  BY <1>1 DEF Runs, Put
<1> QED  BY <1>1, <1>2

(* A set that changes its state. *)
LEMMA TurnedSet ==
  ASSUME RuntimeInv, NEW s \in DOMAIN sets, NEW how \in SetStates, Turns(s, how)
  PROVE  /\ DOMAIN sets' = DOMAIN sets /\ sets' \in [DOMAIN sets' -> SetStates]
         /\ sets'[s] = how /\ \A t \in DOMAIN sets : t # s => sets'[t] = sets[t]
<1>1. sets \in [DOMAIN sets -> SetStates]
  BY DEF RuntimeInv, RuntimeTypeOK, SetStates
<1> QED  BY <1>1 DEF Turns

(* What is not said, and the menu that is not shown, tell nothing new. *)
LEMMA PostsRest ==
  ASSUME PostsInv, UNCHANGED <<posts, menu>>, Silent => Silent'
  PROVE  PostsInv'
  BY DEF PostsInv, Menus

(* Somebody who has yet to say what he came to has the menu busy. *)
LEMMA BusyMeans ==
  ASSUME RuntimeInv
  PROVE  /\ ~Silent => menu = "busy" /\ Menus(posts) = {}
         /\ menu # "busy" => Silent /\ Menus(posts) = {}
         /\ \A n \in DOMAIN flows : flows[n].at # "over" => menu = "busy" /\ Menus(posts) = {}
  BY DEF RuntimeInv, PostsInv, Silent

(* What is said is the one thing said. *)
LEMMA Said ==
  ASSUME RuntimeInv, NEW m \in MenuPosts, Menus(posts) = {}, Posts(m), menu' = "busy", Silent'
  PROVE  /\ PostsInv' /\ posts' \in Seq(MenuPosts \cup {"shutdown"}) /\ posts' # <<>>
         /\ ~Quitting => \A i \in 1..Len(posts') : posts'[i] = m /\ posts'[i] # "shutdown"
<1>1. posts \in Seq(MenuPosts \cup {"shutdown"}) /\ Len(posts) \in Nat
  BY LenProperties DEF RuntimeInv, RuntimeTypeOK, SetStates
<1>2. /\ posts' \in Seq(MenuPosts \cup {"shutdown"}) /\ Len(posts') = Len(posts) + 1
      /\ \A i \in 1..Len(posts) : posts'[i] = posts[i]
      /\ posts'[Len(posts) + 1] = m
  BY <1>1, AppendProperties DEF Posts
<1>3. \A i \in 1..Len(posts') : i \in 1..Len(posts) \/ i = Len(posts) + 1
  BY <1>1, <1>2
<1>4. \A i \in 1..Len(posts') : posts'[i] # "shutdown" => i = Len(posts) + 1
  BY <1>1, <1>2, <1>3 DEF Menus
<1>5. PostsInv'
  BY <1>4 DEF PostsInv, Menus
<1>6. posts' # <<>>
  <2>1. Len(posts') # 0
    BY <1>1, <1>2
  <2> QED  BY <2>1
<1>7. ASSUME ~Quitting PROVE \A i \in 1..Len(posts') : posts'[i] = m /\ posts'[i] # "shutdown"
  <2>1. Len(posts) = 0
    <3>1. \A i \in 1..Len(posts) : posts[i] # "shutdown"
      BY <1>7 DEF RuntimeInv, MenuInv
    <3>2. 1 \notin 1..Len(posts)
      BY <3>1 DEF Menus
    <3> QED  BY <1>1, <3>2
  <2>2. \A i \in 1..Len(posts') : i = Len(posts) + 1
    BY <1>2, <2>1
  <2>3. m # "shutdown"
    BY DEF MenuPosts
  <2> QED  BY <1>2, <2>2, <2>3
<1> QED  BY <1>2, <1>5, <1>7, <1>6

-----------------------------------------------------------------------------
(* Tasks that return.                                                      *)

(* A task that has nothing in hand any more returns; if nobody has quit it *)
(* says, or has said, what the mode is.                                    *)
LEMMA ReturnKeeps ==
  ASSUME RuntimeInv, NEW n \in DOMAIN flows, Returns(n),
         UNCHANGED <<process, launches, clicks, sets, meeting, room, quit, capped, menu, unlisted,
                     triggered, settled, dropped>>,
         \/ UNCHANGED saved
         \/ saved' = 0 /\ flows[n].at \in {"over", "escapes"},
         flows[n].at \notin {"publish", "poll", "trigger"},
         flows[n].at \in {"takeover", "drain"} => sets[flows[n].set] # "draining",
         flows[n].at = "abandon" => sets[n] # "closing",
         \/ UNCHANGED posts /\ (Quitting \/ flows[n].at = "over")
         \/ \E m \in MenuPosts : Posts(m) /\ flows[n].at # "over" /\ (~Quitting => m = Mode)
  PROVE  RuntimeInv'
<1>1. DOMAIN flows' = {} /\ flows' \in [DOMAIN flows' -> FlowType] /\ DOMAIN flows = {n}
  BY ReturnedFlow, Alone
<1>2. Silent' /\ OneFlow' /\ FlowInv' /\ Mode' = Mode
  BY <1>1 DEF Silent, OneFlow, FlowInv, Mode
<1>3. /\ PostsInv' /\ posts' \in Seq(MenuPosts \cup {"shutdown"})
      /\ ~Quitting /\ flows[n].at # "over" => \A i \in 1..Len(posts') : posts'[i] = Mode /\ posts'[i] # "shutdown"
      /\ ~Quitting /\ flows[n].at # "over" => posts' # <<>> /\ menu = "busy"
      /\ ~Quitting /\ flows[n].at = "over" => posts' = posts
  <2>1. CASE UNCHANGED posts /\ (Quitting \/ flows[n].at = "over")
    <3>1. PostsInv'
      BY <1>2, <2>1, PostsRest DEF RuntimeInv
    <3> QED  BY <2>1, <3>1 DEF RuntimeInv, RuntimeTypeOK, SetStates
  <2>2. CASE \E m \in MenuPosts : Posts(m) /\ flows[n].at # "over" /\ (~Quitting => m = Mode)
    <3> PICK m \in MenuPosts : Posts(m) /\ flows[n].at # "over" /\ (~Quitting => m = Mode)
      BY <2>2
    <3>1. Menus(posts) = {} /\ menu' = "busy"
      BY BusyMeans
    <3> QED  BY <1>2, <3>1, Said
  <2> QED  BY <2>1, <2>2
<1>4. RuntimeTypeOK' /\ (saved \in 0..clicks)'
  BY <1>1, <1>3 DEF RuntimeInv, RuntimeTypeOK, SetStates
<1>5. HeldInv'
  BY <1>1 DEF RuntimeInv, HeldInv, FlowInv, HandInv, Unclosed, Quitting
<1>6. QuitInv'
  BY <1>1 DEF RuntimeInv, QuitInv, InFlight, Quitting
<1>7. MenuInv'
  <2>1. CASE flows[n].at = "over"
    BY <1>1, <1>2, <1>3, <2>1 DEF RuntimeInv, MenuInv, Quitting, Silent
  <2>2. CASE flows[n].at # "over"
    BY <1>2, <1>3, <2>2 DEF MenuInv, Quitting
  <2> QED  BY <2>1, <2>2
<1>8. TriggerInv'
  <2>1. \A i \in DOMAIN triggered : triggered[i] \in settled \cup dropped \/ process # "up"
    BY <1>1 DEF RuntimeInv, TriggerInv
  <2>2. process = "up"
    BY DEF RuntimeInv, GoneInv
  <2> QED  BY <2>1, <2>2 DEF RuntimeInv, TriggerInv
<1>9. GoneInv'
  BY DEF RuntimeInv, GoneInv
<1> QED  BY <1>2, <1>3, <1>4, <1>5, <1>6, <1>7, <1>8, <1>9 DEF RuntimeInv

(* ShowLive: the menu of the mode it published. *)
LEMMA ShowLiveKeeps == ASSUME RuntimeInv, NEW n \in DOMAIN flows, ShowLive(n) PROVE RuntimeInv'
<1>1. /\ flows[n].kind \in {"start", "connect"} /\ flows[n].at = "show"
      /\ Returns(n) /\ Posts(IF flows[n].kind = "start" THEN "running" ELSE "attached")
      /\ UNCHANGED <<process, launches, clicks, sets, meeting, room, quit, capped, menu, unlisted,
                     saved, triggered, settled, dropped>>
  BY DEF ShowLive, Continues, InFlight, diskVars
<1>2. n \in 1..clicks /\ HandInv(n)
  BY Alone DEF RuntimeInv, FlowInv
<1>3. ~Quitting => (IF flows[n].kind = "start" THEN "running" ELSE "attached") = Mode
  BY <1>1, <1>2 DEF HandInv, Mode
<1>4. (IF flows[n].kind = "start" THEN "running" ELSE "attached") \in MenuPosts
  BY DEF MenuPosts
<1> QED  BY <1>1, <1>3, <1>4, ReturnKeeps

(* Abandoned: only a quit has devices abandoned. *)
LEMMA AbandonedKeeps == ASSUME RuntimeInv, NEW n \in DOMAIN flows, Abandoned(n) PROVE RuntimeInv'
<1>1. /\ flows[n].at = "abandon" /\ sets[n] = "closed" /\ Returns(n)
      /\ UNCHANGED <<process, launches, clicks, sets, meeting, room, quit, capped, menu, unlisted, posts,
                     saved, triggered, settled, dropped>>
  BY DEF Abandoned, Continues, InFlight, diskVars
<1>2. Quitting
  BY <1>1 DEF RuntimeInv, FlowInv, HandInv
<1> QED  BY <1>1, <1>2, ReturnKeeps

(* Disconnected: nothing is attached any more. *)
LEMMA DisconnectedKeeps == ASSUME RuntimeInv, NEW n \in DOMAIN flows, Disconnected(n) PROVE RuntimeInv'
<1>1. /\ flows[n].at = "drain" /\ sets[flows[n].set] \in {"drained", "faulted"} /\ Returns(n)
      /\ IF Quitting THEN UNCHANGED posts ELSE Posts("idle")
      /\ UNCHANGED <<process, launches, clicks, sets, meeting, room, quit, capped, menu, unlisted,
                     saved, triggered, settled, dropped>>
  BY DEF Disconnected, Continues, InFlight, diskVars
<1>2. Mode = "idle" /\ "idle" \in MenuPosts
  BY <1>1 DEF RuntimeInv, FlowInv, HandInv, Mode, MenuPosts
<1> QED  BY <1>1, <1>2, ReturnKeeps

(* Forget: the last of an End. *)
LEMMA ForgetKeeps == ASSUME RuntimeInv, NEW n \in DOMAIN flows, Forget(n) PROVE RuntimeInv'
<1>1. /\ flows[n].at \in {"over", "escapes"} /\ Returns(n) /\ saved' \in {0, saved}
      /\ IF flows[n].at = "escapes" THEN Posts("idle") ELSE UNCHANGED posts
      /\ UNCHANGED <<process, launches, clicks, sets, meeting, room, quit, capped, menu, unlisted,
                     triggered, settled, dropped>>
  BY DEF Forget, InFlight
<1>2. Mode = "idle" /\ "idle" \in MenuPosts
  BY <1>1 DEF RuntimeInv, FlowInv, HandInv, Mode, MenuPosts
<1> QED  BY <1>1, <1>2, ReturnKeeps

-----------------------------------------------------------------------------
(* Tasks that go on.                                                       *)

(* While a task has yet to say what it came to, nothing is shown. *)
LEMMA WorksOn ==
  ASSUME RuntimeInv, NEW n \in DOMAIN flows, flows[n].at # "over",
         UNCHANGED <<posts, menu, quit, unlisted>>, ~Silent'
  PROVE  PostsInv' /\ MenuInv'
<1>1. menu = "busy" /\ Menus(posts) = {} /\ ~Silent
  BY BusyMeans DEF Silent
<1>2. PostsInv'
  BY <1>1, PostsRest DEF RuntimeInv
<1>3. MenuInv'
  BY <1>1 DEF RuntimeInv, MenuInv, Menus, Quitting
<1> QED  BY <1>2, <1>3

(* A takeover or an opening of devices has no pipeline to follow. *)
LEMMA NoneFollowed ==
  ASSUME RuntimeInv, NEW n \in DOMAIN flows, flows[n].at # "poll"
  PROVE  /\ \A i \in DOMAIN triggered : triggered[i] \in settled \cup dropped
         /\ process = "up"
<1>1. process = "up" /\ DOMAIN flows = {n}
  BY Alone DEF RuntimeInv, GoneInv
<1> QED  BY <1>1 DEF RuntimeInv, TriggerInv

(* TakenOver: what is taken over has drained, so nothing is open. *)
LEMMA TakenOverKeeps == ASSUME RuntimeInv, NEW n \in DOMAIN flows, TakenOver(n) PROVE RuntimeInv'
<1>1. /\ flows[n].kind = "start" /\ flows[n].at = "takeover"
      /\ UNCHANGED <<process, launches, clicks, sets, meeting, room, quit, capped, menu, unlisted,
                     saved, triggered, settled, dropped>>
      /\ \/ sets[flows[n].set] = "faulted" /\ Returns(n) /\ Posts("idle")
         \/ sets[flows[n].set] = "drained" /\ Quitting /\ Returns(n) /\ UNCHANGED posts
         \/ sets[flows[n].set] = "drained" /\ ~Quitting /\ Moves(n, "preflight") /\ UNCHANGED posts
  BY DEF TakenOver, Continues, InFlight, diskVars
<1>2. HandInv(n) /\ Rooted(n) /\ meeting = 0 /\ room = 0 /\ Mode = "idle" /\ "idle" \in MenuPosts
  BY <1>1 DEF RuntimeInv, FlowInv, HandInv, Mode, MenuPosts
<1>3. CASE sets[flows[n].set] = "faulted" /\ Returns(n) /\ Posts("idle")
  BY <1>1, <1>2, <1>3, ReturnKeeps
<1>4. CASE sets[flows[n].set] = "drained" /\ Quitting /\ Returns(n) /\ UNCHANGED posts
  BY <1>1, <1>4, ReturnKeeps
<1>5. CASE sets[flows[n].set] = "drained" /\ ~Quitting /\ Moves(n, "preflight") /\ UNCHANGED posts
  <2>1. /\ DOMAIN flows' = {n} /\ flows' \in [DOMAIN flows' -> FlowType] /\ DOMAIN flows = {n}
        /\ flows'[n].at = "preflight" /\ flows'[n].kind = "start"
        /\ flows'[n].set = flows[n].set
    BY <1>1, <1>5, MovedFlow, Alone DEF Places
  <2>2. Unclosed = {}
    <3>1. ASSUME NEW s \in DOMAIN sets PROVE sets[s] \notin {"live", "draining", "closing"}
      <4>1. sets[s] # "live"
        BY <1>1, <1>2, <2>1 DEF RuntimeInv, HeldInv, RuntimeTypeOK, SetStates
      <4>2. sets[s] # "draining"
        BY <1>5, <2>1 DEF RuntimeInv, HeldInv
      <4>3. sets[s] # "closing"
        BY <1>1, <1>5, <2>1 DEF RuntimeInv, HeldInv, Quitting
      <4> QED  BY <4>1, <4>2, <4>3
    <3> QED  BY <3>1 DEF Unclosed
  <2>3. PostsInv' /\ MenuInv'
    <3>1. ~Silent'
      BY <2>1 DEF Silent
    <3> QED  BY <1>1, <1>5, <3>1, WorksOn
  <2>4. RuntimeTypeOK' /\ OneFlow' /\ (saved \in 0..clicks)'
    BY <1>1, <1>5, <2>1 DEF RuntimeInv, RuntimeTypeOK, SetStates, OneFlow
  <2>5. FlowInv'
    <3>1. Rooted(n)'
      BY <2>1 DEF Rooted
    <3>2. HandInv(n)'
      BY <1>1, <1>2, <2>1, <2>2 DEF HandInv, Unclosed
    <3>3. SessionInv(n)'
      BY <2>1 DEF SessionInv
    <3> QED  BY <2>1, <3>1, <3>2, <3>3 DEF FlowInv
  <2>6. HeldInv'
    BY <1>1, <1>2, <1>5, <2>1, <2>2 DEF RuntimeInv, HeldInv, Unclosed
  <2>7. QuitInv' /\ GoneInv'
    BY <1>1, <1>5, NoneFollowed DEF RuntimeInv, QuitInv, GoneInv, Quitting
  <2>8. TriggerInv'
    BY <1>1, NoneFollowed DEF RuntimeInv, TriggerInv
  <2> QED  BY <2>3, <2>4, <2>5, <2>6, <2>7, <2>8 DEF RuntimeInv
<1> QED  BY <1>1, <1>3, <1>4, <1>5

(* DevicesOpen: a set of this task's own is the only one open. *)
LEMMA DevicesOpenKeeps == ASSUME RuntimeInv, NEW n \in DOMAIN flows, DevicesOpen(n) PROVE RuntimeInv'
<1>1. /\ flows[n].kind \in {"start", "connect"} /\ flows[n].at = "preflight"
      /\ UNCHANGED <<process, launches, clicks, meeting, room, quit, capped, menu, unlisted,
                     saved, triggered, settled, dropped>>
      /\ \/ /\ flows' = [flows EXCEPT ![n].at = "publish", ![n].set = n]
            /\ sets' = Put(sets, n, "live") /\ UNCHANGED posts
         \/ Returns(n) /\ Posts("idle") /\ UNCHANGED sets
  BY DEF DevicesOpen, Continues, InFlight, diskVars
<1>2. HandInv(n) /\ meeting = 0 /\ room = 0 /\ Unclosed = {} /\ Mode = "idle" /\ "idle" \in MenuPosts
  BY <1>1 DEF RuntimeInv, FlowInv, HandInv, Mode, MenuPosts
<1>3. CASE Returns(n) /\ Posts("idle") /\ UNCHANGED sets
  BY <1>1, <1>2, <1>3, ReturnKeeps
<1>4. CASE /\ flows' = [flows EXCEPT ![n].at = "publish", ![n].set = n]
           /\ sets' = Put(sets, n, "live") /\ UNCHANGED posts
  <2>1. DOMAIN flows = {n} /\ flows[n] \in FlowType /\ n \in 1..clicks /\ clicks \in Nat
        /\ flows \in [DOMAIN flows -> FlowType] /\ sets \in [DOMAIN sets -> SetStates]
    BY Alone DEF RuntimeInv, RuntimeTypeOK, SetStates
  <2>2. /\ DOMAIN flows' = {n} /\ flows' \in [DOMAIN flows' -> FlowType]
        /\ flows'[n].at = "publish" /\ flows'[n].kind = flows[n].kind /\ flows'[n].set = n
    <3> DEFINE g == [flows[n] EXCEPT !.at = "publish"]
               h == [g EXCEPT !.set = n]
    <3>1. g \in FlowType /\ g.at = "publish" /\ g.kind = flows[n].kind
      BY <2>1 DEF FlowType, Places
    <3> HIDE DEF g
    <3>2. h \in FlowType /\ h.at = "publish" /\ h.kind = flows[n].kind /\ h.set = n
      BY <2>1, <3>1 DEF FlowType, Places
    <3>3. flows' = [flows EXCEPT ![n] = h]
      BY <1>4, <2>1 DEF g
    <3> HIDE DEF h
    <3> QED  BY <2>1, <3>2, <3>3
  <2>3. /\ DOMAIN sets' = DOMAIN sets \cup {n} /\ sets'[n] = "live"
        /\ \A s \in DOMAIN sets : s # n => sets'[s] = sets[s]
        /\ sets' \in [DOMAIN sets' -> SetStates]
    BY <1>4, <2>1 DEF Put, SetStates
  <2>4. Unclosed' = {n}
    BY <1>2, <2>3 DEF Unclosed
  <2>5. PostsInv' /\ MenuInv'
    <3>1. ~Silent'
      BY <2>2 DEF Silent
    <3> QED  BY <1>1, <1>4, <3>1, WorksOn
  <2>6. RuntimeTypeOK' /\ OneFlow' /\ (saved \in 0..clicks)'
    BY <1>1, <1>4, <2>1, <2>2, <2>3 DEF RuntimeInv, RuntimeTypeOK, OneFlow, SetStates
  <2>7. FlowInv'
    <3>1. Rooted(n)'
      BY <1>1, <2>2 DEF Rooted
    <3>2. HandInv(n)'
      BY <1>1, <1>2, <2>2, <2>3 DEF HandInv
    <3>3. SessionInv(n)'
      BY <1>1, <2>2 DEF SessionInv
    <3> QED  BY <2>2, <3>1, <3>2, <3>3 DEF FlowInv
  <2>8. HeldInv'
    <3>1. ASSUME NEW s \in DOMAIN sets' PROVE s = n \/ sets'[s] \notin {"live", "draining", "closing"}
      BY <2>4 DEF Unclosed
    <3> QED  BY <1>1, <1>2, <2>2, <2>3, <2>4, <3>1 DEF HeldInv
  <2>9. QuitInv' /\ GoneInv'
    <3>1. \A kinds : InFlight(kinds)' = InFlight(kinds)
      BY <2>1, <2>2 DEF InFlight
    <3> QED  BY <1>1, <2>1, <2>2, <3>1, NoneFollowed DEF RuntimeInv, QuitInv, GoneInv, Quitting
  <2>10. TriggerInv'
    <3>1. \A i \in DOMAIN triggered : triggered[i] # n
      BY <1>1, <1>2 DEF HandInv
    <3> QED  BY <1>1, <2>3, <3>1, NoneFollowed DEF RuntimeInv, TriggerInv
  <2> QED  BY <2>5, <2>6, <2>7, <2>8, <2>9, <2>10 DEF RuntimeInv
<1> QED  BY <1>1, <1>3, <1>4

(* Publish: the set is the meeting's or the room's, or the quit's to close. *)
LEMMA PublishKeeps == ASSUME RuntimeInv, NEW n \in DOMAIN flows, Publish(n) PROVE RuntimeInv'
<1>1. /\ flows[n].kind \in {"start", "connect"} /\ flows[n].at = "publish"
      /\ UNCHANGED <<process, launches, clicks, quit, capped, menu, unlisted, posts,
                     saved, triggered, settled, dropped>>
      /\ \/ ~Quitting /\ Published(n)
         \/ Quitting /\ Moves(n, "abandon") /\ Turns(n, "closing") /\ UNCHANGED <<meeting, room>>
  BY DEF Publish, Continues, InFlight, diskVars
<1>2. HandInv(n) /\ meeting = 0 /\ room = 0 /\ n \in DOMAIN sets /\ sets[n] = "live" /\ n \in Unclosed
  BY <1>1 DEF RuntimeInv, FlowInv, HandInv, Unclosed
<1>3. DOMAIN flows = {n} /\ flows[n] \in FlowType /\ n \in 1..clicks /\ clicks \in Nat
      /\ flows \in [DOMAIN flows -> FlowType]
  BY Alone DEF RuntimeInv, RuntimeTypeOK, SetStates
<1>4. \A s \in DOMAIN sets : s = n \/ sets[s] \notin {"live", "draining", "closing"}
  BY <1>2 DEF RuntimeInv, HeldInv, Unclosed
<1>5. CASE ~Quitting /\ Published(n)
  <2>1. /\ DOMAIN flows' = {n} /\ flows' \in [DOMAIN flows' -> FlowType]
        /\ flows'[n].at = "show" /\ flows'[n].kind = flows[n].kind /\ flows'[n].set = 0
    <3> DEFINE g == [flows[n] EXCEPT !.at = "show"]
               h == [g EXCEPT !.set = 0]
    <3>1. g \in FlowType /\ g.at = "show" /\ g.kind = flows[n].kind
      BY <1>3 DEF FlowType, Places
    <3> HIDE DEF g
    <3>2. h \in FlowType /\ h.at = "show" /\ h.kind = flows[n].kind /\ h.set = 0
      BY <3>1 DEF FlowType, Places
    <3>3. flows' = [flows EXCEPT ![n] = h]
      BY <1>3, <1>5 DEF g, Published
    <3> HIDE DEF h
    <3> QED  BY <1>3, <3>2, <3>3
  <2>2. /\ meeting' = (IF flows[n].kind = "start" THEN n ELSE 0)
        /\ room' = (IF flows[n].kind = "connect" THEN n ELSE 0)
        /\ UNCHANGED sets
    BY <1>2, <1>5 DEF Published
  <2>3. PostsInv' /\ MenuInv'
    <3>1. ~Silent'
      BY <2>1 DEF Silent
    <3> QED  BY <1>1, <3>1, WorksOn
  <2>4. RuntimeTypeOK' /\ OneFlow' /\ (saved \in 0..clicks)'
    BY <1>1, <1>3, <2>1, <2>2 DEF RuntimeInv, RuntimeTypeOK, SetStates, OneFlow
  <2>5. FlowInv'
    <3>1. Rooted(n)'
      BY <1>1, <2>1 DEF Rooted
    <3>2. HandInv(n)'
      BY <1>1, <2>1, <2>2 DEF HandInv
    <3>3. SessionInv(n)'
      BY <1>1, <2>1 DEF SessionInv
    <3> QED  BY <2>1, <3>1, <3>2, <3>3 DEF FlowInv
  <2>6. HeldInv'
    BY <1>1, <1>2, <1>3, <1>4, <2>1, <2>2 DEF HeldInv, Unclosed
  <2>7. QuitInv' /\ GoneInv' /\ TriggerInv'
    BY <1>1, <1>5, <2>2, NoneFollowed DEF RuntimeInv, QuitInv, GoneInv, TriggerInv, Quitting
  <2> QED  BY <2>3, <2>4, <2>5, <2>6, <2>7 DEF RuntimeInv
<1>6. CASE Quitting /\ Moves(n, "abandon") /\ Turns(n, "closing") /\ UNCHANGED <<meeting, room>>
  <2>1. /\ DOMAIN flows' = {n} /\ flows' \in [DOMAIN flows' -> FlowType]
        /\ flows'[n].at = "abandon" /\ flows'[n].kind = flows[n].kind /\ flows'[n].set = n
    BY <1>1, <1>2, <1>6, MovedFlow DEF Places, HandInv
  <2>2. /\ DOMAIN sets' = DOMAIN sets /\ sets'[n] = "closing"
        /\ \A s \in DOMAIN sets : s # n => sets'[s] = sets[s]
        /\ sets' \in [DOMAIN sets' -> SetStates]
    BY <1>2, <1>6, TurnedSet DEF SetStates
  <2>3. PostsInv' /\ MenuInv'
    <3>1. ~Silent'
      BY <2>1 DEF Silent
    <3> QED  BY <1>1, <3>1, WorksOn
  <2>4. RuntimeTypeOK' /\ OneFlow' /\ (saved \in 0..clicks)'
    BY <1>1, <1>3, <1>6, <2>1, <2>2 DEF RuntimeInv, RuntimeTypeOK, OneFlow, SetStates
  <2>5. FlowInv'
    <3>1. Rooted(n)'
      BY <1>1, <2>1 DEF Rooted
    <3>2. HandInv(n)'
      BY <1>1, <1>2, <1>6, <2>1, <2>2 DEF HandInv, Quitting
    <3>3. SessionInv(n)'
      BY <1>1, <2>1 DEF SessionInv
    <3> QED  BY <2>1, <3>1, <3>2, <3>3 DEF FlowInv
  <2>6. HeldInv'
    BY <1>1, <1>2, <1>4, <1>6, <2>1, <2>2 DEF HeldInv, Unclosed
  <2>7. QuitInv' /\ GoneInv'
    <3>1. \A kinds : InFlight(kinds)' = InFlight(kinds)
      BY <1>3, <2>1 DEF InFlight
    <3> QED  BY <1>1, <1>3, <1>6, <2>1, <3>1, NoneFollowed DEF RuntimeInv, QuitInv, GoneInv, Quitting
  <2>8. TriggerInv'
    BY <1>1, <1>2, <2>2, NoneFollowed DEF RuntimeInv, TriggerInv
  <2> QED  BY <2>3, <2>4, <2>5, <2>6, <2>7, <2>8 DEF RuntimeInv
<1> QED  BY <1>1, <1>5, <1>6

-----------------------------------------------------------------------------
(* An End.                                                                 *)

(* One step of an End: it goes on without a word; or it is over, says so,  *)
(* and its session is settled or dropped.                                  *)
LEMMA EndMoves ==
  ASSUME RuntimeInv, NEW n \in DOMAIN flows, NEW at \in {"escapes", "over", "trigger", "poll"},
         flows[n].kind = "end", flows[n].at \in {"drain", "trigger", "poll"},
         DOMAIN flows' = {n}, flows' \in [DOMAIN flows' -> FlowType],
         flows'[n].at = at, flows'[n].kind = "end",
         flows'[n].set = flows[n].set, flows'[n].session = flows[n].session,
         UNCHANGED <<process, launches, clicks, sets, meeting, room, quit, capped, menu, unlisted, saved>>,
         IF at = "over"
           THEN /\ Posts("idle") /\ settled \subseteq settled' /\ dropped \subseteq dropped'
                /\ flows[n].session \in settled' \cup dropped'
           ELSE UNCHANGED <<posts, settled, dropped>>,
         \/ triggered' = triggered /\ (flows[n].at = "poll" => at \in {"poll", "over"})
         \/ /\ flows[n].at = "trigger" /\ at \in {"poll", "over"}
            /\ triggered' = Append(triggered, flows[n].session),
         at = "trigger" => flows[n].at = "drain" /\ sets[flows[n].set] = "drained",
         at = "poll" => flows[n].at \in {"trigger", "poll"},
         at = "escapes" => flows[n].at = "drain",
         flows[n].at = "drain" => sets[flows[n].set] # "draining"
  PROVE  RuntimeInv'
<1>1. DOMAIN flows = {n} /\ n \in 1..clicks /\ process = "up" /\ clicks \in Nat
  BY Alone DEF RuntimeInv, RuntimeTypeOK, SetStates, GoneInv
<1>2. Rooted(n) /\ HandInv(n) /\ SessionInv(n) /\ meeting = 0 /\ room = 0 /\ Mode = "idle" /\ "idle" \in MenuPosts
  BY DEF RuntimeInv, FlowInv, HandInv, Mode, MenuPosts
<1>3. /\ triggered \in Seq(1..clicks) /\ flows[n].session \in 1..clicks /\ Len(triggered) \in Nat
      /\ DOMAIN triggered = 1..Len(triggered)
  BY <1>2, LenProperties DEF RuntimeInv, RuntimeTypeOK, SetStates, SessionInv
<1>4. /\ triggered' \in Seq(1..clicks)
      /\ \A i \in DOMAIN triggered' :
           \/ i \in DOMAIN triggered /\ triggered'[i] = triggered[i]
           \/ triggered' # triggered /\ i = Len(triggered) + 1 /\ triggered'[i] = flows[n].session
  <2>1. CASE triggered' = triggered
    BY <1>3, <2>1
  <2>2. CASE triggered' = Append(triggered, flows[n].session)
    <3> PICK e \in 1..clicks : e = flows[n].session
      BY <1>3
    <3>1. triggered' = Append(triggered, e)
      BY <2>2
    <3>2. /\ triggered' \in Seq(1..clicks) /\ Len(triggered') = Len(triggered) + 1
          /\ \A i \in 1..Len(triggered) : triggered'[i] = triggered[i]
          /\ triggered'[Len(triggered) + 1] = e
      BY ONLY <1>3, <3>1, AppendProperties
    <3>3. /\ triggered' \in Seq(1..clicks) /\ Len(triggered') = Len(triggered) + 1
          /\ \A i \in 1..Len(triggered) : triggered'[i] = triggered[i]
          /\ triggered'[Len(triggered) + 1] = flows[n].session
      BY <3>2
    <3>4. triggered' # triggered
      BY <1>3, <3>3
    <3>5. DOMAIN triggered' = 1..Len(triggered')
      BY <3>3, LenProperties
    <3>6. \A i \in 1..Len(triggered') : i \in 1..Len(triggered) \/ i = Len(triggered) + 1
      BY <1>3, <3>3
    <3> QED  BY <1>3, <3>3, <3>6, <3>4, <3>5
  <2> QED  BY <2>1, <2>2
<1>5. /\ PostsInv' /\ MenuInv' /\ posts' \in Seq(MenuPosts \cup {"shutdown"})
  <2>1. CASE at = "over"
    <3>1. menu' = "busy" /\ Menus(posts) = {} /\ Silent' /\ Posts("idle") /\ Mode' = "idle"
      BY <1>1, <1>2, <2>1, BusyMeans DEF Silent, Mode
    <3>2. /\ PostsInv' /\ posts' \in Seq(MenuPosts \cup {"shutdown"}) /\ posts' # <<>>
          /\ ~Quitting => \A i \in 1..Len(posts') : posts'[i] = "idle" /\ posts'[i] # "shutdown"
      BY <1>2, <3>1, Said
    <3> QED  BY <3>1, <3>2 DEF MenuInv, Quitting
  <2>2. CASE at # "over"
    <3>1. ~Silent'
      BY <2>2 DEF Silent
    <3> QED  BY <2>2, <3>1, WorksOn DEF RuntimeInv, RuntimeTypeOK, SetStates
  <2> QED  BY <2>1, <2>2
<1>6. RuntimeTypeOK' /\ OneFlow' /\ (saved \in 0..clicks)'
  BY <1>1, <1>4, <1>5 DEF RuntimeInv, RuntimeTypeOK, SetStates, OneFlow
<1>7. FlowInv'
  <2>1. Rooted(n)'
    BY DEF Rooted
  <2>2. HandInv(n)'
    BY <1>2 DEF HandInv
  <2>3. SessionInv(n)'
    <3>1. ASSUME at \in {"trigger", "escapes"} PROVE triggered' = triggered /\ flows[n].at = "drain"
      BY <3>1
    <3> QED  BY <1>2, <3>1 DEF SessionInv, HandInv
  <2> QED  BY <2>1, <2>2, <2>3 DEF FlowInv
<1>8. HeldInv'
  <2>1. ASSUME NEW s \in DOMAIN sets
        PROVE  /\ sets[s] # "live" /\ sets[s] # "draining"
               /\ sets[s] = "closing" => (quit.at \in {2, 3} /\ s = quit.set) \/ (capped /\ Quitting)
    <3>1. sets[s] # "live"
      BY <1>1, <1>2 DEF RuntimeInv, HeldInv, RuntimeTypeOK, SetStates
    <3>2. sets[s] # "draining"
      BY <1>1 DEF RuntimeInv, HeldInv
    <3>3. sets[s] = "closing" => (quit.at \in {2, 3} /\ s = quit.set) \/ (capped /\ Quitting)
      BY <1>1 DEF RuntimeInv, HeldInv
    <3> QED  BY <3>1, <3>2, <3>3
  <2>2. \A s, t \in Unclosed : s = t
    BY DEF RuntimeInv, HeldInv
  <2> QED  BY <1>2, <2>1, <2>2 DEF HeldInv, Unclosed, Quitting
<1>9. QuitInv' /\ GoneInv'
  <2>1. \A kinds : InFlight(kinds)' = InFlight(kinds)
    BY <1>1 DEF InFlight
  <2> QED  BY <1>1, <2>1 DEF RuntimeInv, QuitInv, GoneInv, Quitting
<1>10. TriggerInv'
  <2>1. \A i \in DOMAIN triggered : triggered[i] = flows[n].session => flows[n].at = "poll"
    BY <1>2 DEF SessionInv
  <2>2. ASSUME NEW i \in DOMAIN triggered', NEW j \in DOMAIN triggered', triggered'[i] = triggered'[j]
        PROVE  i = j
    <3>1. triggered' # triggered => flows[n].at = "trigger"
      OBVIOUS
    <3> QED  BY <1>4, <2>1, <2>2, <3>1 DEF RuntimeInv, TriggerInv
  <2>3. ASSUME NEW i \in DOMAIN triggered', triggered'[i] \in DOMAIN sets PROVE sets[triggered'[i]] = "drained"
    BY <1>2, <1>4, <2>3 DEF RuntimeInv, TriggerInv, SessionInv
  <2>4. ASSUME NEW i \in DOMAIN triggered'
        PROVE  \/ triggered'[i] \in settled' \cup dropped'
               \/ saved = triggered'[i] /\ at = "poll" /\ flows[n].session = saved
    <3>1. settled \subseteq settled' /\ dropped \subseteq dropped'
      OBVIOUS
    <3>2. CASE i \in DOMAIN triggered /\ triggered'[i] = triggered[i]
      <4>1. \/ triggered[i] \in settled \cup dropped
            \/ saved = triggered[i] /\ flows[n].at = "poll" /\ flows[n].session = saved
        BY <1>1, <3>2 DEF RuntimeInv, TriggerInv
      <4> QED  BY <3>1, <3>2, <4>1
    <3>3. CASE triggered' # triggered /\ triggered'[i] = flows[n].session
      <4>1. flows[n].session \in settled \/ saved = flows[n].session
        BY <1>2, <3>3 DEF SessionInv
      <4> QED  BY <3>1, <3>3, <4>1
    <3> QED  BY <1>4, <3>2, <3>3
  <2> QED  BY <2>2, <2>3, <2>4 DEF TriggerInv
<1> QED  BY <1>5, <1>6, <1>7, <1>8, <1>9, <1>10 DEF RuntimeInv

(* An End that is told of, or cut off. *)
LEMMA EndIsOver ==
  ASSUME RuntimeInv, NEW n \in DOMAIN flows
  PROVE  /\ Tells(n) => /\ Posts("idle") /\ settled \subseteq settled' /\ flows[n].session \in settled'
                        /\ Moves(n, "over")
         /\ CutOff(n) => /\ Posts("idle") /\ dropped \subseteq dropped' /\ flows[n].session \in dropped'
                         /\ Moves(n, "over")
  BY DEF Tells, CutOff

(* EndDrained: what was drained is triggered next; a drain that failed is not. *)
LEMMA EndDrainedKeeps == ASSUME RuntimeInv, NEW n \in DOMAIN flows, EndDrained(n) PROVE RuntimeInv'
<1>1. /\ flows[n].kind = "end" /\ flows[n].at = "drain"
      /\ UNCHANGED <<process, launches, clicks, sets, meeting, room, quit, capped, menu, unlisted,
                     saved, triggered>>
      /\ \/ sets[flows[n].set] = "faulted" /\ Moves(n, "escapes") /\ UNCHANGED <<posts, settled, dropped>>
         \/ sets[flows[n].set] = "drained" /\ Tells(n) /\ UNCHANGED dropped
         \/ sets[flows[n].set] = "drained" /\ CutOff(n) /\ UNCHANGED settled
         \/ sets[flows[n].set] = "drained" /\ Moves(n, "trigger") /\ UNCHANGED <<posts, settled, dropped>>
  BY DEF EndDrained, Continues, InFlight
<1>2. PICK at \in {"escapes", "over", "trigger"} : 
        /\ Moves(n, at)
        /\ IF at = "over"
             THEN /\ Posts("idle") /\ settled \subseteq settled' /\ dropped \subseteq dropped'
                  /\ flows[n].session \in settled' \cup dropped'
             ELSE UNCHANGED <<posts, settled, dropped>>
        /\ at = "trigger" => sets[flows[n].set] = "drained"
        /\ sets[flows[n].set] # "draining"
  BY <1>1, EndIsOver
<1>3. /\ DOMAIN flows' = {n} /\ flows' \in [DOMAIN flows' -> FlowType]
      /\ flows'[n].at = at /\ flows'[n].kind = "end"
      /\ flows'[n].set = flows[n].set /\ flows'[n].session = flows[n].session
  BY <1>1, <1>2, MovedFlow DEF Places
<1> QED  BY <1>1, <1>2, <1>3, EndMoves

(* TriggerEnds: accepted, busy, failed or cut off. *)
LEMMA TriggerEndsKeeps == ASSUME RuntimeInv, NEW n \in DOMAIN flows, TriggerEnds(n) PROVE RuntimeInv'
<1>1. /\ flows[n].kind = "end" /\ flows[n].at = "trigger"
      /\ UNCHANGED <<process, launches, clicks, sets, meeting, room, quit, capped, menu, unlisted, saved>>
      /\ triggered' = triggered \/ triggered' = Append(triggered, flows[n].session)
      /\ \/ Moves(n, "poll") /\ UNCHANGED <<posts, settled, dropped>>
         \/ Tells(n) /\ UNCHANGED dropped
         \/ CutOff(n) /\ UNCHANGED settled
  BY DEF TriggerEnds, Continues, InFlight
<1>2. PICK at \in {"over", "poll"} :
        /\ Moves(n, at)
        /\ IF at = "over"
             THEN /\ Posts("idle") /\ settled \subseteq settled' /\ dropped \subseteq dropped'
                  /\ flows[n].session \in settled' \cup dropped'
             ELSE UNCHANGED <<posts, settled, dropped>>
  BY <1>1, EndIsOver
<1>3. /\ DOMAIN flows' = {n} /\ flows' \in [DOMAIN flows' -> FlowType]
      /\ flows'[n].at = at /\ flows'[n].kind = "end"
      /\ flows'[n].set = flows[n].set /\ flows'[n].session = flows[n].session
  BY <1>1, <1>2, MovedFlow DEF Places
<1> QED  BY <1>1, <1>2, <1>3, EndMoves

(* Poll: the pipeline runs on, or the polls end. *)
LEMMA PollKeeps == ASSUME RuntimeInv, NEW n \in DOMAIN flows, Poll(n) PROVE RuntimeInv'
<1>1. /\ flows[n].kind = "end" /\ flows[n].at = "poll"
      /\ UNCHANGED <<process, launches, clicks, sets, meeting, room, quit, capped, menu, unlisted, saved, triggered>>
      /\ \/ /\ flows' = [flows EXCEPT ![n].shown = @ + 1, ![n].blips = 0]
            /\ UNCHANGED <<posts, settled, dropped>>
         \/ Tells(n) /\ UNCHANGED dropped
         \/ /\ flows' = [flows EXCEPT ![n].blips = @ + 1]
            /\ UNCHANGED <<posts, settled, dropped>>
         \/ CutOff(n) /\ UNCHANGED settled
  BY DEF Poll, Continues, InFlight
<1>2. DOMAIN flows = {n} /\ flows[n] \in FlowType /\ flows \in [DOMAIN flows -> FlowType]
  BY Alone DEF RuntimeInv, RuntimeTypeOK, SetStates
<1>3. CASE /\ flows' = [flows EXCEPT ![n].shown = @ + 1, ![n].blips = 0]
           /\ UNCHANGED <<posts, settled, dropped>>
  <2> DEFINE g == [flows[n] EXCEPT !.shown = @ + 1]
             h == [g EXCEPT !.blips = 0]
  <2>1. g \in FlowType /\ g.at = "poll" /\ g.kind = "end" /\ g.set = flows[n].set /\ g.session = flows[n].session
    BY <1>1, <1>2 DEF FlowType, Places
  <2> HIDE DEF g
  <2>2. h \in FlowType /\ h.at = "poll" /\ h.kind = "end" /\ h.set = flows[n].set /\ h.session = flows[n].session
    BY <2>1 DEF FlowType, Places
  <2>3. flows' = [flows EXCEPT ![n] = h]
    BY <1>2, <1>3 DEF g
  <2> HIDE DEF h
  <2>4. /\ DOMAIN flows' = {n} /\ flows' \in [DOMAIN flows' -> FlowType]
        /\ flows'[n].at = "poll" /\ flows'[n].kind = "end"
        /\ flows'[n].set = flows[n].set /\ flows'[n].session = flows[n].session
    BY <1>2, <2>2, <2>3
  <2> QED  BY <1>1, <1>3, <2>4, EndMoves
<1>4. CASE /\ flows' = [flows EXCEPT ![n].blips = @ + 1]
           /\ UNCHANGED <<posts, settled, dropped>>
  <2> DEFINE g == [flows[n] EXCEPT !.blips = @ + 1]
  <2>1. g \in FlowType /\ g.at = "poll" /\ g.kind = "end" /\ g.set = flows[n].set /\ g.session = flows[n].session
    BY <1>1, <1>2 DEF FlowType, Places
  <2>2. flows' = [flows EXCEPT ![n] = g]
    BY <1>2, <1>4
  <2> HIDE DEF g
  <2>3. /\ DOMAIN flows' = {n} /\ flows' \in [DOMAIN flows' -> FlowType]
        /\ flows'[n].at = "poll" /\ flows'[n].kind = "end"
        /\ flows'[n].set = flows[n].set /\ flows'[n].session = flows[n].session
    BY <1>2, <2>1, <2>2
  <2> QED  BY <1>1, <1>4, <2>3, EndMoves
<1>5. CASE (Tells(n) /\ UNCHANGED dropped) \/ (CutOff(n) /\ UNCHANGED settled)
  <2>1. /\ Moves(n, "over") /\ Posts("idle") /\ settled \subseteq settled' /\ dropped \subseteq dropped'
        /\ flows[n].session \in settled' \cup dropped'
    BY <1>5, EndIsOver
  <2>2. /\ DOMAIN flows' = {n} /\ flows' \in [DOMAIN flows' -> FlowType]
        /\ flows'[n].at = "over" /\ flows'[n].kind = "end"
        /\ flows'[n].set = flows[n].set /\ flows'[n].session = flows[n].session
    BY <1>1, <2>1, MovedFlow DEF Places
  <2> QED  BY <1>1, <2>1, <2>2, EndMoves
<1> QED  BY <1>1, <1>3, <1>4, <1>5

-----------------------------------------------------------------------------
(* Clicks.                                                                 *)

(* A click finds nothing to be said, and what the menu says is so.         *)
LEMMA Clicked ==
  ASSUME RuntimeInv, Clicks, menu # "busy"
  PROVE  /\ process = "up" /\ clicks \in Nat /\ clicks' = clicks + 1 /\ menu' = "busy"
         /\ UNCHANGED <<process, launches, quit, capped>>
         /\ Silent /\ Menus(posts) = {}
  BY BusyMeans DEF Clicks, RuntimeInv, RuntimeTypeOK, SetStates

(* Nothing is open that nobody has. *)
LEMMA NobodysIsClosed ==
  ASSUME RuntimeInv, DOMAIN flows = {}, ~Quitting
  PROVE  \A s \in DOMAIN sets : s \in {meeting, room} \/ sets[s] \notin {"live", "draining", "closing"}
  BY DEF RuntimeInv, HeldInv, Quitting

(* With no End, all that was triggered came to something. *)
LEMMA NoneToFollow ==
  ASSUME RuntimeInv, process = "up", \A n \in DOMAIN flows : flows[n].at # "poll"
  PROVE  \A i \in DOMAIN triggered : triggered[i] \in settled \cup dropped
  BY DEF RuntimeInv, TriggerInv

(* What was triggered is none of the clicks to come. *)
LEMMA TriggeredBefore ==
  ASSUME RuntimeInv
  PROVE  /\ \A i \in DOMAIN triggered : triggered[i] \in 1..clicks
         /\ triggered \in Seq(1..(clicks + 1)) /\ clicks \in Nat
<1>1. triggered \in Seq(1..clicks) /\ clicks \in Nat
  BY DEF RuntimeInv, RuntimeTypeOK, SetStates
<1>2. \A i \in DOMAIN triggered : triggered[i] \in 1..clicks
  BY <1>1, ElementOfSeq, LenProperties
<1>3. triggered \in [1..Len(triggered) -> 1..(clicks + 1)]
  BY <1>1, <1>2, LenProperties
<1> QED  BY <1>1, <1>2, <1>3, SeqDef, LenProperties

(* The rest of a click: the bounds it moves. *)
LEMMA ClickMoves ==
  ASSUME RuntimeInv, Clicks, menu # "busy",
         DOMAIN flows = {}, DOMAIN flows' \subseteq {clicks + 1}, flows' \in [DOMAIN flows' -> FlowType],
         DOMAIN sets' = DOMAIN sets, sets' \in [DOMAIN sets' -> SetStates],
         meeting' \in Nat, room' \in Nat, unlisted' \in BOOLEAN, saved' \in 0..(clicks + 1),
         posts' \in Seq(MenuPosts \cup {"shutdown"}), UNCHANGED triggered,
         meeting' \in {meeting, 0}, room' \in {room, 0}
  PROVE  RuntimeTypeOK' /\ OneFlow' /\ QuitInv' /\ GoneInv' /\ (saved \in 0..clicks)'
<1>1. /\ process = "up" /\ clicks \in Nat /\ clicks' = clicks + 1 /\ menu' = "busy"
      /\ UNCHANGED <<process, launches, quit, capped>>
  BY Clicked
<1>2. RuntimeTypeOK' /\ (saved \in 0..clicks)'
  <2>1. DOMAIN sets \subseteq 1..clicks /\ 1..clicks \subseteq 1..(clicks + 1) /\ clicks + 1 \in 1..(clicks + 1)
    BY <1>1 DEF RuntimeInv, RuntimeTypeOK, SetStates
  <2> QED  BY <1>1, <2>1, TriggeredBefore DEF RuntimeInv, RuntimeTypeOK, SetStates
<1>3. OneFlow' /\ GoneInv'
  BY <1>1 DEF OneFlow, GoneInv
<1>4. QuitInv'
  <2>1. Quitting => quit.clicks <= clicks /\ quit.clicks \in Nat
    BY DEF RuntimeInv, QuitInv, RuntimeTypeOK, SetStates
  <2>2. (quit.at >= 2 => meeting' = 0) /\ (quit.at >= 3 => room' = 0)
    BY DEF RuntimeInv, QuitInv
  <2> QED  BY <1>1, <2>1, <2>2 DEF QuitInv, Quitting
<1> QED  BY <1>2, <1>3, <1>4

(* What is live is given to a task of its own to drain: it is all that was *)
(* open, and nobody else was at work. *)
LEMMA DrainBegins ==
  ASSUME RuntimeInv, Clicks, menu # "busy", NEW flow \in FlowType, flow.set # 0, flow.set \in {meeting, room},
         \/ flow.kind = "start" /\ flow.at = "takeover"
         \/ flow.kind = "disconnect" /\ flow.at = "drain"
         \/ /\ flow.kind = "end" /\ flow.at = "drain" /\ flow.session = flow.set
            /\ flow.session \in settled' \/ saved' = flow.session,
         Runs(flow), Turns(flow.set, "draining"), meeting' = 0, room' = 0,
         UNCHANGED <<posts, unlisted, triggered, dropped>>,
         settled \subseteq settled', saved' \in {saved, flow.set}
  PROVE  RuntimeInv'
<1>1. /\ process = "up" /\ clicks \in Nat /\ clicks' = clicks + 1 /\ menu' = "busy"
      /\ UNCHANGED <<process, launches, quit, capped>>
      /\ Silent /\ Menus(posts) = {}
  BY Clicked
<1> PICK s \in Nat : s = flow.set
  BY DEF FlowType, Places
<1>2. s # 0 /\ s \in {meeting, room} /\ s \in DOMAIN sets /\ sets[s] = "live" /\ s \in 1..clicks
      /\ sets \in [DOMAIN sets -> SetStates]
  <2>1. s # 0 /\ s \in {meeting, room}
    OBVIOUS
  <2>2. s \in DOMAIN sets /\ sets[s] = "live"
    BY <2>1 DEF RuntimeInv, HeldInv
  <2> QED  BY <2>1, <2>2 DEF RuntimeInv, RuntimeTypeOK, SetStates
<1>3. DOMAIN flows = {}
  <2>1. ASSUME NEW m \in DOMAIN flows PROVE FALSE
    <3>1. flows[m].at = "over" /\ HandInv(m)
      BY <1>1 DEF Silent, RuntimeInv, FlowInv
    <3> QED  BY <1>2, <3>1 DEF HandInv
  <2> QED  BY <2>1
<1>4. \A t \in DOMAIN sets : t = s \/ sets[t] \notin {"live", "draining", "closing"}
  BY <1>2 DEF RuntimeInv, HeldInv, Unclosed
<1>5. \A i \in DOMAIN triggered : triggered[i] \in settled \cup dropped
  BY <1>1, <1>3, NoneToFollow
<1>6. \A i \in DOMAIN triggered : triggered[i] # s
  BY <1>2 DEF RuntimeInv, TriggerInv
<1>7. /\ DOMAIN flows' = {clicks + 1} /\ flows' \in [DOMAIN flows' -> FlowType] /\ flows'[clicks + 1] = flow
  BY <1>1, <1>3, BegunFlow
<1>8. /\ DOMAIN sets' = DOMAIN sets /\ sets' \in [DOMAIN sets' -> SetStates]
      /\ sets'[s] = "draining" /\ \A t \in DOMAIN sets : t # s => sets'[t] = sets[t]
  BY <1>2, TurnedSet DEF SetStates
<1>9. RuntimeTypeOK' /\ OneFlow' /\ QuitInv' /\ GoneInv' /\ (saved \in 0..clicks)'
  <2>1. saved' \in 0..(clicks + 1) /\ posts' \in Seq(MenuPosts \cup {"shutdown"}) /\ unlisted' \in BOOLEAN
    BY <1>1, <1>2 DEF RuntimeInv, RuntimeTypeOK, SetStates
  <2> QED  BY <1>3, <1>7, <1>8, <2>1, ClickMoves
<1>10. FlowInv'
  <2> PICK n \in Nat : n = clicks + 1
    BY <1>1
  <2>1. DOMAIN flows' = {n} /\ flows'[n] = flow /\ clicks' = n
    BY <1>1, <1>7
  <2>2. Rooted(n)'
    BY <2>1 DEF Rooted
  <2>3. HandInv(n)'
    <3>1. n \notin DOMAIN sets' /\ \A i \in DOMAIN triggered' : triggered'[i] # n
      <4>1. DOMAIN sets \subseteq 1..clicks /\ n \notin 1..clicks
        BY <1>1 DEF RuntimeInv, RuntimeTypeOK, SetStates
      <4> QED  BY <1>8, <4>1, TriggeredBefore
    <3> QED  BY <1>2, <1>8, <2>1, <3>1 DEF HandInv
  <2>4. SessionInv(n)'
    <3>1. s \in 1..n
      BY <1>1, <1>2
    <3> QED  BY <1>6, <2>1, <3>1 DEF SessionInv
  <2> QED  BY <2>1, <2>2, <2>3, <2>4 DEF FlowInv
<1>11. HeldInv'
  <2>1. \A t \in DOMAIN sets' : t = s \/ sets'[t] \notin {"live", "draining", "closing"}
    BY <1>4, <1>8
  <2> QED  BY <1>2, <1>7, <1>8, <2>1 DEF HeldInv, Unclosed
<1>12. PostsInv' /\ MenuInv'
  <2>1. ~Silent' /\ Menus(posts)' = {}
    BY <1>1, <1>7 DEF Silent, Menus
  <2>2. ~Quitting => \A i \in 1..Len(posts) : posts[i] # "shutdown"
    BY DEF RuntimeInv, MenuInv
  <2> QED  BY <1>1, <2>1, <2>2 DEF PostsInv, MenuInv, Menus, Quitting
<1>13. TriggerInv'
  BY <1>1, <1>5, <1>6, <1>8 DEF RuntimeInv, TriggerInv
<1> QED  BY <1>9, <1>10, <1>11, <1>12, <1>13 DEF RuntimeInv

(* Start and Connect. *)
LEMMA OpensKeeps ==
  ASSUME RuntimeInv, NEW kind \in {"start", "connect"}, menu # "busy",
         kind = "connect" => room = 0, Opens(kind)
  PROVE  RuntimeInv'
<1>1. /\ process = "up" /\ clicks \in Nat /\ clicks' = clicks + 1 /\ menu' = "busy" /\ Clicks
      /\ UNCHANGED <<process, launches, quit, capped, meeting, saved, triggered, settled, dropped>>
      /\ Silent /\ Menus(posts) = {}
  BY Clicked DEF Opens, diskVars
<1>2. DOMAIN flows = {} /\ meeting = 0 /\ ~Quitting
  BY DEF Opens, FlowInFlight, InFlight, RuntimeInv, RuntimeTypeOK, SetStates, FlowType, Places, FlowKinds
<1>3. \A s \in DOMAIN sets : s = room \/ sets[s] \notin {"live", "draining", "closing"}
  <2>1. \A s \in DOMAIN sets : s # 0
    BY DEF RuntimeInv, RuntimeTypeOK, SetStates
  <2> QED  BY <1>2, <2>1, NobodysIsClosed
<1>4. \A i \in DOMAIN triggered : triggered[i] \in settled \cup dropped
  BY <1>1, <1>2, NoneToFollow
<1>5. /\ flows \in [DOMAIN flows -> FlowType] /\ sets \in [DOMAIN sets -> SetStates] /\ room \in Nat /\ meeting \in Nat
      /\ posts \in Seq(MenuPosts \cup {"shutdown"}) /\ saved \in 0..(clicks + 1) /\ unlisted \in BOOLEAN
      /\ DOMAIN sets \subseteq 1..clicks
  BY <1>1 DEF RuntimeInv, RuntimeTypeOK, SetStates
<1>6. Posts("idle") \/ Posts(Refused) \/ UNCHANGED posts
  BY DEF Opens
<1>7. CASE \E m \in MenuPosts : /\ Posts(m) /\ UNCHANGED <<sets, room, flows>> /\ unlisted' \in BOOLEAN
                                /\ ~unlisted' => m = Mode
  <2> PICK m \in MenuPosts : /\ Posts(m) /\ UNCHANGED <<sets, room, flows>> /\ unlisted' \in BOOLEAN
                             /\ ~unlisted' => m = Mode
    BY <1>7
  <2>1. Silent' /\ Mode' = Mode
    BY <1>1, <1>2 DEF Silent, Mode
  <2>2. /\ PostsInv' /\ posts' \in Seq(MenuPosts \cup {"shutdown"}) /\ posts' # <<>>
        /\ \A i \in 1..Len(posts') : posts'[i] = m /\ posts'[i] # "shutdown"
    BY <1>1, <1>2, <2>1, Said
  <2>3. RuntimeTypeOK' /\ OneFlow' /\ QuitInv' /\ GoneInv' /\ (saved \in 0..clicks)'
    <3>1. DOMAIN flows' \subseteq {clicks + 1} /\ flows' \in [DOMAIN flows' -> FlowType]
      BY <1>2, <1>5
    <3>2. DOMAIN sets' = DOMAIN sets /\ sets' \in [DOMAIN sets' -> SetStates]
      BY <1>5
    <3> QED  BY <1>1, <1>2, <1>5, <2>2, <3>1, <3>2, ClickMoves
  <2>4. MenuInv'
    BY <1>1, <2>1, <2>2 DEF MenuInv
  <2>5. FlowInv' /\ HeldInv'
    BY <1>1, <1>2 DEF FlowInv, RuntimeInv, HeldInv, Unclosed, Quitting
  <2>6. TriggerInv'
    BY <1>1, <1>4 DEF RuntimeInv, TriggerInv
  <2> QED  BY <2>2, <2>3, <2>4, <2>5, <2>6 DEF RuntimeInv
<1>8. CASE /\ room = 0 /\ Runs(Flow(kind, "preflight", 0, 0, FALSE))
           /\ UNCHANGED <<sets, room, posts, unlisted>>
  <2>1. /\ Flow(kind, "preflight", 0, 0, FALSE) \in FlowType
        /\ Flow(kind, "preflight", 0, 0, FALSE).kind = kind /\ Flow(kind, "preflight", 0, 0, FALSE).at = "preflight"
    BY DEF Flow, FlowType, Places, FlowKinds
  <2>2. /\ DOMAIN flows' = {clicks + 1} /\ flows' \in [DOMAIN flows' -> FlowType]
        /\ flows'[clicks + 1].kind = kind /\ flows'[clicks + 1].at = "preflight"
    BY <1>1, <1>2, <1>8, <2>1, BegunFlow
  <2>3. RuntimeTypeOK' /\ OneFlow' /\ QuitInv' /\ GoneInv' /\ (saved \in 0..clicks)'
    <3>1. DOMAIN sets' = DOMAIN sets /\ sets' \in [DOMAIN sets' -> SetStates]
      BY <1>5, <1>8
    <3> QED  BY <1>1, <1>2, <1>5, <1>8, <2>2, <3>1, ClickMoves
  <2>4. Unclosed' = {}
    <3>1. \A s \in DOMAIN sets : s # 0
      BY <1>5
    <3> QED  BY <1>3, <1>8, <3>1 DEF Unclosed
  <2>5. FlowInv'
    <3> PICK n \in Nat : n = clicks + 1
      BY <1>1
    <3>1. DOMAIN flows' = {n}
      BY <2>2
    <3>2. Rooted(n)' /\ SessionInv(n)'
      BY <2>2 DEF Rooted, SessionInv
    <3>3. HandInv(n)'
      <4>1. n \notin DOMAIN sets /\ \A i \in DOMAIN triggered : triggered[i] # n
        BY <1>5, TriggeredBefore
      <4> QED  BY <1>1, <1>2, <1>8, <2>2, <2>4, <4>1 DEF HandInv
    <3> QED  BY <3>1, <3>2, <3>3 DEF FlowInv
  <2>6. HeldInv'
    <3>1. \A s \in DOMAIN sets' : sets'[s] \notin {"live", "draining", "closing"}
      BY <2>4 DEF Unclosed
    <3> QED  BY <1>1, <1>2, <1>8, <2>4, <3>1 DEF HeldInv
  <2>7. PostsInv' /\ MenuInv'
    <3>1. ~Silent' /\ \A i \in 1..Len(posts) : posts[i] # "shutdown"
      BY <1>2, <2>2 DEF Silent, RuntimeInv, MenuInv
    <3> QED  BY <1>1, <1>8, <3>1 DEF PostsInv, MenuInv, Menus
  <2>8. TriggerInv'
    BY <1>1, <1>4, <1>8 DEF RuntimeInv, TriggerInv
  <2> QED  BY <2>3, <2>5, <2>6, <2>7, <2>8 DEF RuntimeInv
<1>9. CASE /\ room # 0 /\ room' = 0 /\ Turns(room, "draining") /\ Runs(Flow(kind, "takeover", room, 0, FALSE))
           /\ UNCHANGED <<posts, unlisted>>
  <2>1. /\ Flow(kind, "takeover", room, 0, FALSE) \in FlowType /\ kind = "start"
        /\ Flow(kind, "takeover", room, 0, FALSE).kind = kind /\ Flow(kind, "takeover", room, 0, FALSE).at = "takeover"
        /\ Flow(kind, "takeover", room, 0, FALSE).set = room
    BY <1>5, <1>9 DEF Flow, FlowType, Places, FlowKinds
  <2> QED  BY <1>1, <1>2, <1>9, <2>1, DrainBegins
<1>10. ASSUME UNCHANGED <<sets, room, flows>>,
              \/ Posts("idle") /\ unlisted' = (unlisted \/ room # 0)
              \/ Posts(Refused) /\ UNCHANGED unlisted
       PROVE  \E m \in MenuPosts : /\ Posts(m) /\ UNCHANGED <<sets, room, flows>> /\ unlisted' \in BOOLEAN
                                   /\ ~unlisted' => m = Mode
  <2>1. Refused = Mode /\ Refused \in MenuPosts /\ "idle" \in MenuPosts
    BY <1>2 DEF Refused, Mode, MenuPosts
  <2>2. unlisted' \in BOOLEAN
    BY <1>5, <1>10, Zenon
  <2>3. CASE Posts("idle") /\ unlisted' = (unlisted \/ room # 0)
    <3>1. ~unlisted' => room = 0
      BY <2>3, Zenon
    <3>2. ~unlisted' => "idle" = Mode
      BY <1>2, <3>1 DEF Mode
    <3> QED  BY <1>10, <2>1, <2>2, <2>3, <3>2
  <2>4. CASE Posts(Refused) /\ UNCHANGED unlisted
    BY <1>10, <2>1, <2>2, <2>4
  <2> QED  BY <1>10, <2>3, <2>4
<1> QED  BY <1>7, <1>8, <1>9, <1>10 DEF Opens


(* Disconnect: what was attached drains. *)
LEMMA DisconnectKeeps == ASSUME RuntimeInv, Disconnect PROVE RuntimeInv'
<1>1. /\ Clicks /\ menu # "busy" /\ room # 0 /\ room' = 0 /\ Turns(room, "draining")
      /\ Runs(Flow("disconnect", "drain", room, 0, FALSE))
      /\ UNCHANGED <<meeting, posts, unlisted, saved, triggered, settled, dropped>>
  BY DEF Disconnect, diskVars
<1>2. meeting = 0 /\ room \in Nat
  BY <1>1 DEF RuntimeInv, HeldInv, RuntimeTypeOK, SetStates
<1>3. /\ Flow("disconnect", "drain", room, 0, FALSE) \in FlowType
      /\ Flow("disconnect", "drain", room, 0, FALSE).kind = "disconnect"
      /\ Flow("disconnect", "drain", room, 0, FALSE).at = "drain"
      /\ Flow("disconnect", "drain", room, 0, FALSE).set = room
  BY <1>2 DEF Flow, FlowType, Places, FlowKinds
<1> QED  BY <1>1, <1>2, <1>3, DrainBegins

(* End: the meeting drains; its session is saved, or is not to be followed. *)
LEMMA EndKeeps == ASSUME RuntimeInv, End PROVE RuntimeInv'
<1> PICK run \in BOOLEAN, kept \in BOOLEAN :
      /\ Runs(Flow("end", "drain", meeting, meeting, run))
      /\ saved' = (IF kept THEN meeting ELSE saved)
      /\ settled' = (IF kept THEN settled ELSE settled \cup {meeting})
  BY DEF End
<1>1. /\ Clicks /\ menu # "busy" /\ meeting # 0 /\ meeting' = 0 /\ Turns(meeting, "draining")
      /\ UNCHANGED <<room, posts, unlisted, triggered, dropped>>
  BY DEF End
<1>2. room = 0 /\ meeting \in Nat
  BY <1>1 DEF RuntimeInv, HeldInv, RuntimeTypeOK, SetStates
<1>3. /\ Flow("end", "drain", meeting, meeting, run) \in FlowType
      /\ Flow("end", "drain", meeting, meeting, run).kind = "end"
      /\ Flow("end", "drain", meeting, meeting, run).at = "drain"
      /\ Flow("end", "drain", meeting, meeting, run).set = meeting
      /\ Flow("end", "drain", meeting, meeting, run).session = meeting
  BY <1>2 DEF Flow, FlowType, Places, FlowKinds
<1>4. saved' \in {saved, meeting} /\ settled \subseteq settled' /\ (meeting \in settled' \/ saved' = meeting)
  OBVIOUS
<1> QED  BY <1>1, <1>2, <1>3, <1>4, DrainBegins

-----------------------------------------------------------------------------
(* The quit.                                                               *)

(* The stages, by number, and what each would wait for. *)
LEMMA StageFacts ==
  ASSUME NEW tasks
  PROVE  /\ DOMAIN Stages = 1..6 /\ Len(Stages) = 6
         /\ Stages[1] = "settle" /\ Stages[2] = "meeting" /\ Stages[3] = "room"
         /\ Stages[4] = "disconnect" /\ Stages[5] = "end" /\ Stages[6] = "shutdown"
         /\ Waits(Stages[1], tasks) <=> tasks \cap InFlight({"start", "connect"}) # {}
         /\ Waits(Stages[2], tasks) <=> meeting # 0
         /\ Waits(Stages[3], tasks) <=> room # 0
         /\ Waits(Stages[4], tasks) <=> tasks \cap InFlight({"disconnect"}) # {}
         /\ Waits(Stages[5], tasks) <=> tasks \cap InFlight({"end"}) # {}
         /\ Waits(Stages[6], tasks)
<1>1. /\ DOMAIN Stages = 1..6 /\ Len(Stages) = 6
      /\ Stages[1] = "settle" /\ Stages[2] = "meeting" /\ Stages[3] = "room"
      /\ Stages[4] = "disconnect" /\ Stages[5] = "end" /\ Stages[6] = "shutdown"
  BY DEF Stages
<1>2. /\ Waits("settle", tasks) <=> tasks \cap InFlight({"start", "connect"}) # {}
      /\ Waits("meeting", tasks) <=> meeting # 0
      /\ Waits("room", tasks) <=> room # 0
      /\ Waits("disconnect", tasks) <=> tasks \cap InFlight({"disconnect"}) # {}
      /\ Waits("end", tasks) <=> tasks \cap InFlight({"end"}) # {}
      /\ Waits("shutdown", tasks)
  BY DEF Waits
<1> QED  BY <1>1, <1>2

(* It goes on to a later stage; there was nothing to wait for in between. *)
LEMMA GoesOnFacts ==
  ASSUME NEW tasks, quit.at \in 0..5, GoesOn(tasks)
  PROVE  /\ quit'.at \in 1..6 /\ quit'.at > quit.at /\ Waits(Stages[quit'.at], tasks)
         /\ \A k \in 1..6 : quit.at < k /\ k < quit'.at => ~Waits(Stages[k], tasks)
         /\ quit' = [at |-> quit'.at, tasks |-> tasks,
                     set |-> IF quit'.at = 2 THEN meeting ELSE IF quit'.at = 3 THEN room ELSE 0,
                     clicks |-> IF Quitting THEN quit.clicks ELSE clicks]
         /\ meeting' = (IF quit'.at = 2 THEN 0 ELSE meeting)
         /\ room' = (IF quit'.at = 3 THEN 0 ELSE room)
         /\ IF quit'.set # 0 THEN Turns(quit'.set, "closing") ELSE UNCHANGED sets
         /\ IF quit'.at = 6 THEN Posts("shutdown") ELSE UNCHANGED posts
<1> DEFINE First(j) == /\ j > quit.at /\ Waits(Stages[j], tasks)
                      /\ \A k \in 1..6 : quit.at < k /\ k < j => ~Waits(Stages[k], tasks)
           i == CHOOSE j \in 1..6 : First(j)
           taken == IF i = 2 THEN meeting ELSE IF i = 3 THEN room ELSE 0
<1>1. i \in 1..6 /\ First(i)
  <2>1. \E j \in 1..6 : First(j)
    <3> DEFINE W(j) == Waits(Stages[j], tasks)
    <3>1. W(6)
      BY StageFacts
    <3> HIDE DEF W
    <3>2. \E j \in 1..6 : j > quit.at /\ W(j) /\ \A k \in 1..6 : quit.at < k /\ k < j => ~W(k)
      <4>1. CASE quit.at < 1 /\ W(1)
        BY <4>1
      <4>2. CASE quit.at < 2 /\ W(2) /\ ~(quit.at < 1 /\ W(1))
        BY <4>2
      <4>3. CASE quit.at < 3 /\ W(3) /\ \A k \in 1..2 : ~(quit.at < k /\ W(k))
        BY <4>3
      <4>4. CASE quit.at < 4 /\ W(4) /\ \A k \in 1..3 : ~(quit.at < k /\ W(k))
        BY <4>4
      <4>5. CASE quit.at < 5 /\ W(5) /\ \A k \in 1..4 : ~(quit.at < k /\ W(k))
        BY <4>5
      <4>6. CASE \A k \in 1..5 : ~(quit.at < k /\ W(k))
        BY <3>1, <4>6
      <4> QED  BY <4>1, <4>2, <4>3, <4>4, <4>5, <4>6
    <3> QED  BY <3>2 DEF W
  <2> HIDE DEF First
  <2> QED  BY <2>1
<1>2. DOMAIN Stages = 1..6 /\ (Stages[i] = "meeting" <=> i = 2) /\ (Stages[i] = "room" <=> i = 3)
      /\ (Stages[i] = "shutdown" <=> i = 6)
  <2> HIDE DEF i
  <2> QED  BY <1>1, StageFacts
<1>3. /\ quit' = [at |-> i, tasks |-> tasks, set |-> taken, clicks |-> IF Quitting THEN quit.clicks ELSE clicks]
      /\ meeting' = (IF i = 2 THEN 0 ELSE meeting)
      /\ room' = (IF i = 3 THEN 0 ELSE room)
      /\ IF taken # 0 THEN Turns(taken, "closing") ELSE UNCHANGED sets
      /\ IF i = 6 THEN Posts("shutdown") ELSE UNCHANGED posts
  <2>1. i = CHOOSE j \in DOMAIN Stages : First(j)
    BY <1>2
  <2>2. \A j : First(j) <=> /\ j > quit.at /\ Waits(Stages[j], tasks)
                          /\ \A k \in DOMAIN Stages : quit.at < k /\ k < j => ~Waits(Stages[k], tasks)
    BY <1>2
  <2> QED  BY <1>2, <2>1 DEF GoesOn, GoesThrough
<1> HIDE DEF i
<1>4. quit'.at = i /\ quit'.set = taken
  BY <1>3
<1> QED  BY <1>1, <1>3, <1>4

(* A quit takes what is live to close it: the rest is as it was. *)
LEMMA QuitTakes ==
  ASSUME RuntimeInv, quit.at \in 0..5, NEW tasks, GoesOn(tasks)
  PROVE  /\ meeting' \in {meeting, 0} /\ room' \in {room, 0}
         /\ DOMAIN sets' = DOMAIN sets /\ sets' \in [DOMAIN sets' -> SetStates]
         /\ \A s \in DOMAIN sets :
              \/ sets'[s] = sets[s] /\ (s \in {meeting, room} => s \in {meeting', room'} \/ sets[s] # "live")
              \/ /\ s # 0 /\ s \in {meeting, room} /\ sets[s] = "live" /\ sets'[s] = "closing"
                 /\ quit'.at \in {2, 3} /\ quit'.set = s
         /\ meeting' # 0 => meeting' \in DOMAIN sets /\ sets'[meeting'] = "live"
         /\ room' # 0 => room' \in DOMAIN sets /\ sets'[room'] = "live"
         /\ quit'.at >= 2 => meeting' = 0
         /\ quit'.at >= 3 => room' = 0
<1>1. /\ quit'.at \in 1..6 /\ quit'.at > quit.at /\ Waits(Stages[quit'.at], tasks)
      /\ \A k \in 1..6 : quit.at < k /\ k < quit'.at => ~Waits(Stages[k], tasks)
      /\ quit' = [at |-> quit'.at, tasks |-> tasks,
                  set |-> IF quit'.at = 2 THEN meeting ELSE IF quit'.at = 3 THEN room ELSE 0,
                  clicks |-> IF Quitting THEN quit.clicks ELSE clicks]
      /\ meeting' = (IF quit'.at = 2 THEN 0 ELSE meeting)
      /\ room' = (IF quit'.at = 3 THEN 0 ELSE room)
      /\ IF quit'.set # 0 THEN Turns(quit'.set, "closing") ELSE UNCHANGED sets
  BY GoesOnFacts
<1>2. quit'.set = (IF quit'.at = 2 THEN meeting ELSE IF quit'.at = 3 THEN room ELSE 0)
  BY <1>1
<1>3. /\ meeting # 0 => meeting \in DOMAIN sets /\ sets[meeting] = "live" /\ room = 0
      /\ room # 0 => room \in DOMAIN sets /\ sets[room] = "live"
      /\ sets \in [DOMAIN sets -> SetStates] /\ \A s \in DOMAIN sets : s # 0
  BY DEF RuntimeInv, HeldInv, RuntimeTypeOK, SetStates
<1>4. /\ quit.at >= 2 => meeting = 0
      /\ quit.at >= 3 => room = 0
  BY DEF RuntimeInv, QuitInv
<1>5. (quit'.at >= 2 => meeting' = 0) /\ (quit'.at >= 3 => room' = 0)
  <2>1. quit'.at > 2 /\ quit.at < 2 => meeting = 0
    BY <1>1, StageFacts
  <2>2. quit'.at > 3 /\ quit.at < 3 => room = 0
    BY <1>1, StageFacts
  <2> QED  BY <1>1, <1>4, <2>1, <2>2
<1>6. CASE quit'.set = 0
  BY <1>1, <1>2, <1>3, <1>5, <1>6
<1>7. CASE quit'.set # 0
  <2>1. /\ quit'.set \in DOMAIN sets /\ sets[quit'.set] = "live" /\ Turns(quit'.set, "closing")
        /\ quit'.at \in {2, 3} /\ quit'.set \in {meeting, room}
    BY <1>1, <1>2, <1>3, <1>7
  <2>2. /\ DOMAIN sets' = DOMAIN sets /\ sets' \in [DOMAIN sets' -> SetStates]
        /\ sets'[quit'.set] = "closing" /\ \A t \in DOMAIN sets : t # quit'.set => sets'[t] = sets[t]
    <3> DEFINE s == quit'.set
    <3>1. s \in DOMAIN sets /\ Turns(s, "closing")
      BY <2>1
    <3> HIDE DEF s
    <3>2. /\ DOMAIN sets' = DOMAIN sets /\ sets' \in [DOMAIN sets' -> SetStates]
          /\ sets'[s] = "closing" /\ \A t \in DOMAIN sets : t # s => sets'[t] = sets[t]
      BY <3>1, TurnedSet DEF SetStates
    <3> QED  BY <3>2 DEF s
  <2>3. meeting' # 0 => meeting' # quit'.set
    BY <1>1, <1>2, <1>3, <1>7
  <2>4. room' # 0 => room' # quit'.set
    BY <1>1, <1>2, <1>3, <1>7
  <2>5. \A s \in {meeting, room} : s # quit'.set /\ s # 0 => s \in {meeting', room'}
    BY <1>1, <1>2
  <2> QED  BY <1>1, <1>3, <1>5, <2>1, <2>2, <2>3, <2>4, <2>5
<1> QED  BY <1>6, <1>7

(* A quit that begins or goes on keeps the invariant: it has what it looked *)
(* for behind it, unless it ran into a cap. *)
LEMMA QuitMoves ==
  ASSUME RuntimeInv, quit.at \in 0..5, NEW tasks \in SUBSET Nat, GoesOn(tasks),
         DOMAIN flows' = DOMAIN flows, flows' \in [DOMAIN flows' -> FlowType],
         \A n \in DOMAIN flows : /\ flows'[n].at = flows[n].at /\ flows'[n].kind = flows[n].kind
                                 /\ flows'[n].set = flows[n].set /\ flows'[n].session = flows[n].session,
         UNCHANGED <<process, clicks, unlisted, saved, triggered, settled, dropped>>,
         process = "up", menu' \in {menu, "busy"}, capped' \in BOOLEAN,
         \/ ~Quitting /\ tasks = DOMAIN flows
         \/ Quitting /\ tasks = quit.tasks /\ (~capped' => ~capped /\ Waited)
  PROVE  RuntimeInv'
<1>1. /\ quit'.at \in 1..6 /\ quit'.at > quit.at
      /\ \A k \in 1..6 : quit.at < k /\ k < quit'.at => ~Waits(Stages[k], tasks)
      /\ quit' = [at |-> quit'.at, tasks |-> tasks,
                  set |-> IF quit'.at = 2 THEN meeting ELSE IF quit'.at = 3 THEN room ELSE 0,
                  clicks |-> IF Quitting THEN quit.clicks ELSE clicks]
      /\ IF quit'.at = 6 THEN Posts("shutdown") ELSE UNCHANGED posts
  BY GoesOnFacts
<1>2. /\ meeting' \in {meeting, 0} /\ room' \in {room, 0}
      /\ DOMAIN sets' = DOMAIN sets /\ sets' \in [DOMAIN sets' -> SetStates]
      /\ \A s \in DOMAIN sets :
           \/ sets'[s] = sets[s] /\ (s \in {meeting, room} => s \in {meeting', room'} \/ sets[s] # "live")
           \/ /\ s # 0 /\ s \in {meeting, room} /\ sets[s] = "live" /\ sets'[s] = "closing"
              /\ quit'.at \in {2, 3} /\ quit'.set = s
      /\ meeting' # 0 => meeting' \in DOMAIN sets /\ sets'[meeting'] = "live"
      /\ room' # 0 => room' \in DOMAIN sets /\ sets'[room'] = "live"
      /\ quit'.at >= 2 => meeting' = 0
      /\ quit'.at >= 3 => room' = 0
  BY QuitTakes
<1>3. Quitting' /\ clicks \in Nat /\ meeting \in Nat /\ room \in Nat
  BY <1>1 DEF Quitting, RuntimeInv, RuntimeTypeOK, SetStates
<1>4. /\ quit'.tasks = tasks /\ quit'.clicks = (IF Quitting THEN quit.clicks ELSE clicks)
      /\ quit.clicks \in Nat /\ quit' \in [at : 0..6, tasks : SUBSET Nat, set : Nat, clicks : Nat]
  <2>1. quit.clicks \in Nat
    BY DEF RuntimeInv, RuntimeTypeOK, SetStates
  <2>2. (IF quit'.at = 2 THEN meeting ELSE IF quit'.at = 3 THEN room ELSE 0) \in Nat
        /\ (IF Quitting THEN quit.clicks ELSE clicks) \in Nat
    BY <1>3, <2>1
  <2>3. PICK set \in Nat, c \in Nat, a \in 1..6 :
           quit' = [at |-> a, tasks |-> tasks, set |-> set, clicks |-> c]
           /\ c = (IF Quitting THEN quit.clicks ELSE clicks)
    BY <1>1, <2>2
  <2> QED  BY <2>1, <2>3
<1>5. posts' \in Seq(MenuPosts \cup {"shutdown"}) /\ Menus(posts') = Menus(posts)
  <2>1. posts \in Seq(MenuPosts \cup {"shutdown"}) /\ Len(posts) \in Nat
    BY LenProperties DEF RuntimeInv, RuntimeTypeOK, SetStates
  <2>2. CASE Posts("shutdown")
    <3>1. /\ posts' \in Seq(MenuPosts \cup {"shutdown"}) /\ Len(posts') = Len(posts) + 1
          /\ \A i \in 1..Len(posts) : posts'[i] = posts[i]
          /\ posts'[Len(posts) + 1] = "shutdown"
      BY <2>1, <2>2, AppendProperties DEF Posts
    <3>2. \A i \in 1..Len(posts') : i \in 1..Len(posts) \/ i = Len(posts) + 1
      BY <2>1, <3>1
    <3> QED  BY <2>1, <3>1, <3>2 DEF Menus
  <2> QED  BY <1>1, <2>1, <2>2
<1>6. RuntimeTypeOK' /\ OneFlow' /\ (saved \in 0..clicks)'
  BY <1>2, <1>3, <1>4, <1>5 DEF RuntimeInv, RuntimeTypeOK, OneFlow, SetStates
<1>7. PostsInv'
  <2>1. Silent' <=> Silent
    BY DEF Silent
  <2>2. Menus(posts)' = Menus(posts)
    BY <1>5 DEF Menus
  <2>3. \A i, j \in Menus(posts') : i = j
    BY <1>5 DEF RuntimeInv, PostsInv
  <2> QED  BY <2>1, <2>2, <2>3 DEF RuntimeInv, PostsInv
<1>8. FlowInv'
  <2> SUFFICES ASSUME NEW n \in DOMAIN flows PROVE Rooted(n)' /\ HandInv(n)' /\ SessionInv(n)'
    BY DEF FlowInv
  <2>1. Rooted(n) /\ HandInv(n) /\ SessionInv(n)
    BY DEF RuntimeInv, FlowInv
  <2>2. ASSUME flows[n].at # "show" PROVE sets' = sets /\ meeting' = 0 /\ room' = 0
    <3>1. meeting = 0 /\ room = 0
      BY <2>1, <2>2 DEF HandInv
    <3>2. \A s \in DOMAIN sets : sets'[s] = sets[s]
      BY <1>2, <3>1
    <3>3. sets \in [DOMAIN sets -> SetStates]
      BY DEF RuntimeInv, RuntimeTypeOK, SetStates
    <3> QED  BY <1>2, <3>1, <3>2, <3>3
  <2>3. Rooted(n)'
    BY <2>1 DEF Rooted
  <2>4. HandInv(n)'
    <3>1. CASE flows[n].at = "show"
      BY <1>3, <2>1, <3>1 DEF HandInv
    <3>2. CASE flows[n].at # "show"
      BY <1>3, <2>1, <2>2, <3>2 DEF HandInv, Unclosed
    <3> QED  BY <3>1, <3>2
  <2>5. SessionInv(n)'
    BY <2>1, <2>2 DEF SessionInv
  <2> QED  BY <2>3, <2>4, <2>5
<1>9. HeldInv'
  <2>1. (meeting # 0 => room = 0)' /\ \A s, t \in Unclosed' : s = t
    <3>1. Unclosed' \subseteq Unclosed
      BY <1>2 DEF Unclosed
    <3> QED  BY <1>2, <3>1 DEF RuntimeInv, HeldInv
  <2>2. ASSUME NEW s \in DOMAIN sets, sets'[s] = "live"
        PROVE  s \in {meeting', room'} \/ \E n \in DOMAIN flows : flows[n].at = "publish" /\ n = s
    BY <1>2, <2>2 DEF RuntimeInv, HeldInv
  <2>3. ASSUME NEW s \in DOMAIN sets, sets'[s] = "draining"
        PROVE  \E n \in DOMAIN flows : flows[n].at \in {"takeover", "drain"} /\ flows[n].set = s
    <3>1. sets[s] = "draining"
      BY <1>2, <2>3
    <3> QED  BY <3>1 DEF RuntimeInv, HeldInv
  <2>4. ASSUME NEW s \in DOMAIN sets, sets'[s] = "closing"
        PROVE  \/ \E n \in DOMAIN flows : flows[n].at = "abandon" /\ n = s
               \/ quit'.at \in {2, 3} /\ s = quit'.set
               \/ capped'
    <3>1. CASE sets[s] = "closing"
      <4>1. \/ \E n \in DOMAIN flows : flows[n].at = "abandon" /\ n = s
            \/ quit.at \in {2, 3} /\ s = quit.set
            \/ capped /\ Quitting
        BY <3>1 DEF RuntimeInv, HeldInv
      <4>2. ASSUME quit.at \in {2, 3}, s = quit.set PROVE ~Waited
        <5>1. Stages[quit.at] \in {"meeting", "room"}
          BY <4>2, StageFacts
        <5> QED  BY <3>1, <4>2, <5>1 DEF Waited
      <4>3. quit.at \in {2, 3} => Quitting
        BY DEF Quitting
      <4> QED  BY <4>1, <4>2, <4>3
    <3>2. CASE sets[s] # "closing"
      BY <1>2, <2>4, <3>2
    <3> QED  BY <3>1, <3>2
  <2> QED  BY <1>2, <1>3, <2>1, <2>2, <2>3, <2>4 DEF HeldInv
<1>10. QuitInv'
  <2>1. (quit'.at >= 2 => meeting' = 0) /\ (quit'.at >= 3 => room' = 0) /\ quit'.clicks <= clicks
    BY <1>2, <1>3, <1>4 DEF RuntimeInv, QuitInv
  <2>2. \A kinds : InFlight(kinds)' = InFlight(kinds)
    BY DEF InFlight
  <2>3. ASSUME ~capped', clicks = quit'.clicks
        PROVE  /\ DOMAIN flows \subseteq tasks
               /\ quit'.at >= 2 => InFlight({"start", "connect"}) = {}
               /\ quit'.at >= 5 => InFlight({"disconnect"}) = {}
               /\ quit'.at >= 6 => InFlight({"end"}) = {}
    <3>1. DOMAIN flows \subseteq tasks
      BY <1>4, <2>3 DEF RuntimeInv, QuitInv
    <3>2. \A kinds : InFlight(kinds) \subseteq tasks
      BY <3>1 DEF InFlight
    <3>3. Quitting => /\ quit.at >= 2 => InFlight({"start", "connect"}) = {}
                      /\ quit.at >= 5 => InFlight({"disconnect"}) = {}
      BY <1>4, <2>3 DEF RuntimeInv, QuitInv
    <3>4. ASSUME NEW k \in {1, 4, 5}, k < quit'.at, k >= quit.at \/ ~Quitting PROVE ~Waits(Stages[k], tasks)
      <4>1. CASE quit.at < k
        BY <1>1, <3>4, <4>1
      <4>2. CASE quit.at = k
        <5>1. Quitting /\ tasks = quit.tasks /\ Waited
          BY <2>3, <4>2 DEF Quitting
        <5>2. Stages[quit.at] \notin {"meeting", "room"}
          BY <4>2, StageFacts
        <5> QED  BY <4>2, <5>1, <5>2 DEF Waited
      <4> QED  BY <3>4, <4>1, <4>2 DEF Quitting
    <3>5. quit'.at >= 2 => InFlight({"start", "connect"}) = {}
      <4>1. quit'.at >= 2 /\ quit.at <= 1 => ~Waits(Stages[1], tasks)
        BY <1>1, <3>4
      <4> QED  BY <3>2, <3>3, <4>1, StageFacts DEF Quitting
    <3>6. quit'.at >= 5 => InFlight({"disconnect"}) = {}
      <4>1. quit'.at >= 5 /\ quit.at <= 4 => ~Waits(Stages[4], tasks)
        BY <1>1, <3>4
      <4> QED  BY <3>2, <3>3, <4>1, StageFacts DEF Quitting
    <3>7. quit'.at >= 6 => InFlight({"end"}) = {}
      <4>1. quit'.at >= 6 /\ quit.at <= 5 => ~Waits(Stages[5], tasks)
        BY <1>1, <3>4
      <4> QED  BY <3>2, <4>1, StageFacts
    <3> QED  BY <3>1, <3>5, <3>6, <3>7
  <2> QED  BY <1>4, <2>1, <2>2, <2>3 DEF QuitInv
<1>11. MenuInv' /\ GoneInv'
  BY <1>3 DEF MenuInv, GoneInv
<1>12. TriggerInv'
  <2>1. \A i \in DOMAIN triggered : triggered[i] \in DOMAIN sets => sets'[triggered[i]] = "drained"
    BY <1>2 DEF RuntimeInv, TriggerInv
  <2>2. \A i \in DOMAIN triggered :
           \/ triggered[i] \in settled \cup dropped
           \/ /\ saved = triggered[i]
              /\ \E n \in DOMAIN flows :
                   flows[n].kind = "end" /\ flows[n].at = "poll" /\ flows[n].session = saved
    BY DEF RuntimeInv, TriggerInv
  <2> QED  BY <1>2, <2>1, <2>2 DEF RuntimeInv, TriggerInv
<1> QED  BY <1>6, <1>7, <1>8, <1>9, <1>10, <1>11, <1>12 DEF RuntimeInv

(* Quit: what is in flight is the quit's to wait for. *)
LEMMA QuitKeeps == ASSUME RuntimeInv, Quit PROVE RuntimeInv'
<1>1. /\ process = "up" /\ ~Quitting /\ menu' = "busy" /\ GoesOn(DOMAIN flows)
      /\ flows' = [n \in DOMAIN flows |-> [flows[n] EXCEPT !.cancelled = flows[n].kind = "end"]]
      /\ UNCHANGED <<process, clicks, capped, unlisted, saved, triggered, settled, dropped>>
  BY DEF Quit, diskVars
<1>2. flows \in [DOMAIN flows -> FlowType] /\ DOMAIN flows \subseteq 1..clicks /\ capped \in BOOLEAN /\ clicks \in Nat
  BY DEF RuntimeInv, RuntimeTypeOK, SetStates
<1>3. ASSUME NEW n \in DOMAIN flows
      PROVE  /\ flows'[n] \in FlowType
             /\ flows'[n].at = flows[n].at /\ flows'[n].kind = flows[n].kind
             /\ flows'[n].set = flows[n].set /\ flows'[n].session = flows[n].session
  <2> PICK f \in FlowType : f = flows[n]
    BY <1>2
  <2> DEFINE g == [f EXCEPT !.cancelled = f.kind = "end"]
  <2>1. g \in FlowType /\ g.at = f.at /\ g.kind = f.kind /\ g.set = f.set /\ g.session = f.session
    BY DEF FlowType, Places
  <2>2. flows'[n] = g
    BY <1>1
  <2> HIDE DEF g
  <2> QED  BY <2>1, <2>2
<1>4. DOMAIN flows' = DOMAIN flows /\ flows' \in [DOMAIN flows' -> FlowType]
  BY <1>1, <1>2, <1>3
<1>5. quit.at \in 0..5 /\ DOMAIN flows \in SUBSET Nat
  BY <1>1, <1>2 DEF Quitting
<1>6. capped' \in BOOLEAN
  BY <1>1, <1>2, Zenon
<1> QED  BY <1>1, <1>3, <1>4, <1>5, <1>6, QuitMoves

(* QuitGoesOn: what it waited for is over, or it ran into its cap. *)
LEMMA QuitGoesOnKeeps == ASSUME RuntimeInv, QuitGoesOn PROVE RuntimeInv'
<1>1. /\ quit.at \in 1..5 /\ GoesOn(quit.tasks) /\ capped' = (capped \/ ~Waited)
      /\ UNCHANGED <<process, clicks, flows, menu, unlisted, saved, triggered, settled, dropped>>
  <2>1. quit.at \in 1..5
    <3>1. Len(Stages) = 6
      BY DEF Stages
    <3> QED  BY <3>1 DEF QuitGoesOn
  <2>2. capped' = (capped \/ ~Waited) /\ GoesOn(quit.tasks)
    BY Zenon DEF QuitGoesOn
  <2> QED  BY <2>1, <2>2 DEF QuitGoesOn, diskVars
<1>2. /\ flows \in [DOMAIN flows -> FlowType] /\ capped \in BOOLEAN /\ quit.tasks \in SUBSET Nat
      /\ Quitting /\ process = "up"
  BY <1>1 DEF RuntimeInv, RuntimeTypeOK, SetStates, Quitting, GoneInv
<1>3. capped' \in BOOLEAN /\ (~capped' => ~capped /\ Waited)
  <2>1. capped' = (capped \/ ~Waited)
    BY <1>1
  <2> QED  BY <2>1, Zenon
<1> QED  BY <1>1, <1>2, <1>3, QuitMoves

-----------------------------------------------------------------------------
(* The sets, the menu, the process.                                        *)

(* SetCloses: nothing opens. *)
LEMMA SetClosesKeeps == ASSUME RuntimeInv, NEW s \in DOMAIN sets, SetCloses(s) PROVE RuntimeInv'
<1> PICK how \in {"drained", "faulted", "closed"} :
      Turns(s, how) /\ (IF how = "closed" THEN sets[s] = "closing" ELSE sets[s] = "draining")
  BY DEF SetCloses
<1>1. UNCHANGED <<process, clicks, meeting, room, flows, quit, capped, menu, posts, unlisted,
                  saved, triggered, settled, dropped>>
  BY DEF SetCloses, diskVars
<1>2. /\ DOMAIN sets' = DOMAIN sets /\ sets' \in [DOMAIN sets' -> SetStates]
      /\ sets'[s] = how /\ \A t \in DOMAIN sets : t # s => sets'[t] = sets[t]
  BY TurnedSet DEF SetStates
<1>3. RuntimeTypeOK' /\ OneFlow' /\ PostsInv' /\ QuitInv' /\ MenuInv' /\ GoneInv' /\ (saved \in 0..clicks)'
  <2>1. RuntimeTypeOK' /\ (saved \in 0..clicks)'
    BY <1>1, <1>2 DEF RuntimeInv, RuntimeTypeOK, SetStates
  <2>2. OneFlow' /\ PostsInv' /\ GoneInv'
    BY <1>1, <1>2 DEF RuntimeInv, OneFlow, PostsInv, Silent, Menus, GoneInv
  <2>3. QuitInv' /\ MenuInv'
    BY <1>1 DEF RuntimeInv, QuitInv, InFlight, Quitting, MenuInv, Mode, Silent
  <2> QED  BY <2>1, <2>2, <2>3
<1>4. Unclosed' \subseteq Unclosed
  BY <1>2 DEF Unclosed
<1>5. FlowInv'
  <2> SUFFICES ASSUME NEW n \in DOMAIN flows PROVE Rooted(n)' /\ HandInv(n)' /\ SessionInv(n)'
    BY <1>1 DEF FlowInv
  <2>1. Rooted(n) /\ HandInv(n) /\ SessionInv(n)
    BY DEF RuntimeInv, FlowInv
  <2>2. HandInv(n)'
    BY <1>1, <1>2, <1>4, <2>1 DEF HandInv, Quitting
  <2> QED  BY <1>1, <1>2, <2>1, <2>2 DEF Rooted, SessionInv
<1>6. HeldInv'
  <2>1. /\ meeting # 0 => meeting \in DOMAIN sets' /\ sets'[meeting] = "live" /\ room = 0
        /\ room # 0 => room \in DOMAIN sets' /\ sets'[room] = "live"
        /\ \A t, u \in Unclosed' : t = u
    BY <1>2, <1>4 DEF RuntimeInv, HeldInv
  <2>2. \A t \in DOMAIN sets : sets'[t] \in {"live", "draining", "closing"} => sets'[t] = sets[t]
    BY <1>2
  <2> QED  BY <1>1, <1>2, <2>1, <2>2 DEF RuntimeInv, HeldInv, Quitting
<1>7. TriggerInv'
  BY <1>1, <1>2 DEF RuntimeInv, TriggerInv
<1> QED  BY <1>3, <1>5, <1>6, <1>7 DEF RuntimeInv

(* The process ends: what was triggered is still in the state file, or came *)
(* to something. *)
LEMMA ExitsKeeps == ASSUME RuntimeInv, NEW how \in {"quit", "crashed"}, Exits(how) PROVE RuntimeInv'
<1>1. /\ process' = how /\ sets' = <<>> /\ meeting' = 0 /\ room' = 0 /\ flows' = <<>>
      /\ quit' = NoQuit /\ capped' = FALSE /\ menu' = "idle" /\ posts' = <<>> /\ unlisted' = FALSE
      /\ UNCHANGED <<clicks, saved, triggered, settled, dropped>>
  BY DEF Exits, diskVars
<1>2. DOMAIN sets' = {} /\ DOMAIN flows' = {} /\ Len(posts') = 0 /\ quit'.at = 0 /\ ~Quitting'
  BY <1>1 DEF NoQuit, Quitting
<1>3. RuntimeTypeOK' /\ (saved \in 0..clicks)'
  <2>1. quit' \in [at : 0..6, tasks : SUBSET Nat, set : Nat, clicks : Nat]
    BY <1>1 DEF NoQuit
  <2>2. sets' \in [DOMAIN sets' -> SetStates] /\ flows' \in [DOMAIN flows' -> FlowType]
    BY <1>1, <1>2
  <2>3. posts' \in Seq(MenuPosts \cup {"shutdown"}) /\ menu' \in MenuPosts
    BY <1>1, EmptySeq DEF MenuPosts
  <2>4. capped' \in BOOLEAN /\ unlisted' \in BOOLEAN
    BY <1>1, Zenon
  <2>5. DOMAIN sets' \subseteq 1..clicks /\ DOMAIN flows' \subseteq 1..clicks
    BY <1>2
  <2>6. process' \in {"up", "crashed", "quit"} /\ meeting' \in Nat /\ room' \in Nat
    BY <1>1
  <2> QED  BY <1>1, <2>1, <2>2, <2>3, <2>4, <2>5, <2>6 DEF RuntimeInv, RuntimeTypeOK, SetStates
<1>4. OneFlow' /\ PostsInv' /\ FlowInv'
  BY <1>2 DEF OneFlow, PostsInv, Menus, FlowInv, Silent
<1>5. HeldInv' /\ QuitInv' /\ GoneInv'
  BY <1>1, <1>2 DEF HeldInv, QuitInv, GoneInv, Unclosed
<1>6. MenuInv'
  BY <1>1, <1>2 DEF MenuInv, Mode
<1>7. TriggerInv'
  BY <1>1, <1>2 DEF RuntimeInv, TriggerInv
<1> QED  BY <1>3, <1>4, <1>5, <1>6, <1>7 DEF RuntimeInv

(* Render: what is shown is what there was to say. *)
LEMMA RenderKeeps == ASSUME RuntimeInv, Render PROVE RuntimeInv'
<1>1. CASE Exits("quit")
  BY <1>1, ExitsKeeps
<1>2. CASE /\ posts # <<>> /\ Head(posts) # "shutdown" /\ menu' = Head(posts) /\ posts' = Tail(posts)
           /\ UNCHANGED <<process, launches, clicks, ownVars, quit, capped, unlisted, diskVars>>
  <2>1. UNCHANGED <<process, clicks, sets, meeting, room, flows, quit, capped, unlisted,
                    saved, triggered, settled, dropped>>
    BY <1>2 DEF ownVars, diskVars
  <2>2. /\ posts \in Seq(MenuPosts \cup {"shutdown"}) /\ Len(posts) \in Nat \ {0}
        /\ menu' = posts[1] /\ posts[1] \in MenuPosts
        /\ posts' \in Seq(MenuPosts \cup {"shutdown"}) /\ Len(posts') = Len(posts) - 1
        /\ \A i \in 1..Len(posts') : posts'[i] = posts[i + 1]
    BY <1>2, HeadTailProperties, EmptySeq, LenProperties, ElementOfSeq DEF RuntimeInv, RuntimeTypeOK, SetStates
  <2>3. 1 \in Menus(posts)
    BY <2>2 DEF Menus, MenuPosts
  <2>4. Menus(posts') = {} /\ Silent' /\ "busy" \notin MenuPosts
    <3>1. \A i \in Menus(posts) : i = 1
      BY <2>3 DEF RuntimeInv, PostsInv
    <3>2. \A i \in 1..Len(posts') : i + 1 \in 1..Len(posts) /\ i + 1 # 1
      BY <2>2
    <3>3. Menus(posts') = {}
      BY <2>2, <3>1, <3>2 DEF Menus
    <3>4. Silent
      BY <2>3 DEF RuntimeInv, PostsInv
    <3> QED  BY <2>1, <3>3, <3>4 DEF Silent, MenuPosts
  <2>5. PostsInv'
    BY <2>4 DEF PostsInv, Menus
  <2>6. MenuInv'
    <3>1. ASSUME ~Quitting PROVE \A i \in 1..Len(posts') : posts'[i] # "shutdown"
      BY <2>2, <3>1 DEF RuntimeInv, MenuInv
    <3>2. Mode' = Mode /\ (Quitting' <=> Quitting)
      BY <2>1 DEF Mode, Quitting
    <3>3. ASSUME ~Quitting, ~unlisted PROVE menu' = Mode /\ \A i \in 1..Len(posts') : posts'[i] = Mode
      BY <2>2, <3>3 DEF RuntimeInv, MenuInv
    <3>4. menu' # "busy"
      BY <2>2, <2>4
    <3> QED  BY <2>1, <3>1, <3>2, <3>3, <3>4 DEF MenuInv
  <2>7. RuntimeTypeOK' /\ OneFlow' /\ (saved \in 0..clicks)'
    BY <2>1, <2>2 DEF RuntimeInv, RuntimeTypeOK, SetStates, OneFlow
  <2>8. FlowInv' /\ HeldInv' /\ QuitInv' /\ TriggerInv'
    <3>1. \A n : Rooted(n)' = Rooted(n) /\ HandInv(n)' = HandInv(n) /\ SessionInv(n)' = SessionInv(n)
      BY <2>1 DEF Rooted, HandInv, SessionInv, Unclosed, Quitting
    <3>2. FlowInv'
      BY <2>1, <3>1 DEF RuntimeInv, FlowInv
    <3>3. HeldInv'
      BY <2>1 DEF RuntimeInv, HeldInv, Unclosed, Quitting
    <3>4. QuitInv' /\ TriggerInv'
      BY <2>1 DEF RuntimeInv, QuitInv, TriggerInv, Quitting, InFlight
    <3> QED  BY <3>2, <3>3, <3>4
  <2>9. GoneInv'
    BY <1>2, <2>1 DEF RuntimeInv, GoneInv
  <2> QED  BY <2>5, <2>6, <2>7, <2>8, <2>9 DEF RuntimeInv
<1> QED  BY <1>1, <1>2 DEF Render

(* Startup: a saved session is followed again. *)
LEMMA StartupKeeps == ASSUME RuntimeInv, Startup PROVE RuntimeInv'
<1>1. /\ process # "up" /\ process' = "up"
      /\ UNCHANGED <<sets, meeting, room, quit, capped, posts, unlisted, saved, triggered, settled, dropped>>
      /\ \/ saved = 0 /\ UNCHANGED <<clicks, flows, menu>>
         \/ saved # 0 /\ clicks' = clicks + 1 /\ menu' = "busy" /\ Runs(Flow("end", "poll", 0, saved, TRUE))
  BY DEF Startup, diskVars
<1>2. /\ DOMAIN sets = {} /\ meeting = 0 /\ room = 0 /\ DOMAIN flows = {}
      /\ quit.at = 0 /\ menu = "idle" /\ posts = <<>> /\ ~Quitting' /\ clicks \in Nat /\ saved \in 0..clicks
      /\ saved \in Nat /\ Len(posts) = 0
  BY <1>1 DEF RuntimeInv, GoneInv, Quitting, RuntimeTypeOK, SetStates
<1>3. HeldInv' /\ QuitInv' /\ GoneInv'
  BY <1>1, <1>2 DEF HeldInv, QuitInv, GoneInv, Unclosed, Quitting
<1>4. CASE saved = 0 /\ UNCHANGED <<clicks, flows, menu>>
  <2>1. RuntimeTypeOK' /\ OneFlow' /\ (saved \in 0..clicks)'
    BY <1>1, <1>2, <1>4 DEF RuntimeInv, RuntimeTypeOK, SetStates, OneFlow
  <2>2. PostsInv' /\ MenuInv' /\ FlowInv'
    BY <1>1, <1>2, <1>4 DEF PostsInv, Menus, Silent, MenuInv, Mode, FlowInv
  <2>3. TriggerInv'
    <3>1. \A i \in DOMAIN triggered : triggered[i] # 0
      BY TriggeredBefore
    <3> QED  BY <1>1, <1>2, <1>4, <3>1 DEF RuntimeInv, TriggerInv
  <2> QED  BY <1>3, <2>1, <2>2, <2>3 DEF RuntimeInv
<1>5. CASE saved # 0 /\ clicks' = clicks + 1 /\ menu' = "busy" /\ Runs(Flow("end", "poll", 0, saved, TRUE))
  <2>1. /\ Flow("end", "poll", 0, saved, TRUE) \in FlowType /\ Flow("end", "poll", 0, saved, TRUE).kind = "end"
        /\ Flow("end", "poll", 0, saved, TRUE).at = "poll" /\ Flow("end", "poll", 0, saved, TRUE).session = saved
    BY <1>2 DEF Flow, FlowType, Places, FlowKinds
  <2> PICK n \in Nat : n = clicks + 1
    BY <1>2
  <2>2. /\ DOMAIN flows' = {n} /\ flows' \in [DOMAIN flows' -> FlowType]
        /\ flows'[n].kind = "end" /\ flows'[n].at = "poll" /\ flows'[n].session = saved
    BY <1>2, <1>5, <2>1, BegunFlow
  <2>3. RuntimeTypeOK' /\ OneFlow' /\ (saved \in 0..clicks)'
    <3>1. n \in 1..clicks' /\ saved \in 0..clicks' /\ clicks' \in Nat
      BY <1>2, <1>5
    <3> QED  BY <1>1, <1>2, <1>5, <2>2, <3>1, TriggeredBefore DEF RuntimeInv, RuntimeTypeOK, SetStates, OneFlow
  <2>4. PostsInv' /\ MenuInv'
    BY <1>1, <1>2, <1>5, <2>2 DEF PostsInv, Menus, Silent, MenuInv
  <2>5. FlowInv'
    <3>1. Rooted(n)' /\ HandInv(n)'
      BY <1>1, <1>2, <2>2 DEF Rooted, HandInv
    <3>2. SessionInv(n)'
      <4>1. saved \in 1..clicks'
        BY <1>2, <1>5
      <4> QED  BY <1>1, <2>2, <4>1 DEF SessionInv
    <3> QED  BY <2>2, <3>1, <3>2 DEF FlowInv
  <2>6. TriggerInv'
    BY <1>1, <1>2, <2>2 DEF RuntimeInv, TriggerInv
  <2> QED  BY <1>3, <2>3, <2>4, <2>5, <2>6 DEF RuntimeInv
<1> QED  BY <1>1, <1>4, <1>5

-----------------------------------------------------------------------------
(* RuntimeInv holds, and what it says of the devices, the menu and the     *)
(* pipelines with it.                                                      *)

(* The runtime starts with nothing open and nothing to follow. *)
LEMMA RuntimeInit == ASSUME RInit PROVE RuntimeInv
<1>1. /\ process = "up" /\ clicks = 0 /\ sets = <<>> /\ meeting = 0 /\ room = 0 /\ flows = <<>>
      /\ quit = NoQuit /\ capped = FALSE /\ menu = "idle" /\ posts = <<>> /\ unlisted = FALSE
      /\ saved = 0 /\ triggered = <<>> /\ settled = {} /\ dropped = {}
  BY DEF RInit
<1>2. DOMAIN sets = {} /\ DOMAIN flows = {} /\ Len(posts) = 0 /\ quit.at = 0 /\ ~Quitting /\ DOMAIN triggered = {}
  BY <1>1 DEF NoQuit, Quitting
<1>3. RuntimeTypeOK /\ saved \in 0..clicks
  <2>1. quit \in [at : 0..6, tasks : SUBSET Nat, set : Nat, clicks : Nat]
    BY <1>1 DEF NoQuit
  <2>2. sets \in [DOMAIN sets -> SetStates] /\ flows \in [DOMAIN flows -> FlowType]
    BY <1>1, <1>2
  <2>3. posts \in Seq(MenuPosts \cup {"shutdown"}) /\ menu \in MenuPosts
    BY <1>1, EmptySeq DEF MenuPosts
  <2>4. capped \in BOOLEAN /\ unlisted \in BOOLEAN
    BY <1>1, Zenon
  <2>5. triggered \in Seq(1..clicks)
    BY <1>1, EmptySeq
  <2> QED  BY <1>1, <1>2, <2>1, <2>2, <2>3, <2>4, <2>5 DEF RuntimeTypeOK, SetStates
<1>4. OneFlow /\ PostsInv /\ FlowInv
  BY <1>2 DEF OneFlow, PostsInv, Menus, FlowInv, Silent
<1>5. HeldInv /\ QuitInv /\ GoneInv
  BY <1>1, <1>2 DEF HeldInv, QuitInv, GoneInv, Unclosed
<1>6. MenuInv
  BY <1>1, <1>2 DEF MenuInv, Mode
<1>7. TriggerInv
  BY <1>2 DEF TriggerInv
<1> QED  BY <1>3, <1>4, <1>5, <1>6, <1>7 DEF RuntimeInv

(* Whatever the runtime does keeps its invariant. *)
LEMMA RuntimeStep == ASSUME RuntimeInv, [RNext]_rvars PROVE RuntimeInv'
<1>1. CASE Start \/ Connect
  <2>1. CASE Start
    <3>1. menu # "busy" /\ Opens("start")
      BY <2>1 DEF Start
    <3> QED  BY <3>1, OpensKeeps
  <2>2. CASE Connect
    <3>1. menu # "busy" /\ room = 0 /\ Opens("connect")
      BY <2>2 DEF Connect
    <3> QED  BY <3>1, OpensKeeps
  <2> QED  BY <1>1, <2>1, <2>2
<1>2. CASE Disconnect \/ End \/ Quit \/ QuitGoesOn
  BY <1>2, DisconnectKeeps, EndKeeps, QuitKeeps, QuitGoesOnKeeps
<1>3. CASE \E n \in DOMAIN flows : FlowStep(n)
  <2> PICK n \in DOMAIN flows : FlowStep(n)
    BY <1>3
  <2> QED  BY TakenOverKeeps, DevicesOpenKeeps, PublishKeeps, ShowLiveKeeps, AbandonedKeeps, DisconnectedKeeps,
              EndDrainedKeeps, TriggerEndsKeeps, PollKeeps, ForgetKeeps DEF FlowStep
<1>4. CASE \E s \in DOMAIN sets : SetCloses(s)
  BY <1>4, SetClosesKeeps
<1>5. CASE Render \/ Crash \/ Startup
  BY <1>5, RenderKeeps, ExitsKeeps, StartupKeeps DEF Crash
<1>6. CASE UNCHANGED rvars
  BY <1>6 DEF rvars, ownVars, diskVars, RuntimeInv, RuntimeTypeOK, SetStates, OneFlow, PostsInv, Menus, Silent, FlowInv,
     Rooted, HandInv, SessionInv, HeldInv, QuitInv, MenuInv, TriggerInv, GoneInv, Unclosed, Quitting, InFlight, Mode
<1> QED  BY <1>1, <1>2, <1>3, <1>4, <1>5, <1>6 DEF RNext

(* The open devices are in one hand, and none are left when the shell goes. *)
LEMMA DevicesFollow == ASSUME RuntimeInv PROVE DevicesAreReleased
<1>1. /\ meeting # 0 => room = 0
      /\ \A s, t \in Unclosed : s = t
      /\ \A s \in DOMAIN sets : s # 0
  BY DEF RuntimeInv, HeldInv, RuntimeTypeOK, SetStates
<1>2. Cardinality(Unclosed) <= 1
  <2>1. CASE Unclosed = {}
    BY <2>1, FS_EmptySet
  <2>2. CASE Unclosed # {}
    <3> PICK s \in Unclosed : Unclosed = {s}
      BY <1>1, <2>2
    <3>1. Cardinality({s}) = 1
      BY FS_Singleton
    <3> QED  BY <3>1
  <2> QED  BY <2>1, <2>2
<1>3. ASSUME NEW s \in Unclosed, sets[s] # "closing" PROVE Owners(s) = 1
  <2> DEFINE Having == {n \in DOMAIN flows : flows[n].set = s}
  <2>1. s \in DOMAIN sets /\ s # 0 /\ sets[s] \in {"live", "draining"}
    BY <1>1, <1>3 DEF Unclosed
  <2>2. CASE s \in {meeting, room}
    <3>1. ASSUME NEW n \in DOMAIN flows PROVE flows[n].set # s
      <4>1. HandInv(n)
        BY DEF RuntimeInv, FlowInv
      <4> QED  BY <2>1, <2>2, <4>1 DEF HandInv
    <3>2. Cardinality(Having) = 0
      BY <3>1, FS_EmptySet
    <3>3. (s = meeting /\ s # room) \/ (s # meeting /\ s = room)
      BY <1>1, <2>1, <2>2
    <3> QED  BY <3>2, <3>3 DEF Owners
  <2>3. CASE s \notin {meeting, room}
    <3> PICK n \in DOMAIN flows : flows[n].set = s
      <4>1. \/ \E n \in DOMAIN flows : flows[n].at = "publish" /\ n = s
            \/ \E n \in DOMAIN flows : flows[n].at \in {"takeover", "drain"} /\ flows[n].set = s
        BY <2>1, <2>3 DEF RuntimeInv, HeldInv
      <4>2. \A n \in DOMAIN flows : flows[n].at = "publish" => flows[n].set = n
        BY DEF RuntimeInv, FlowInv, HandInv
      <4> QED  BY <4>1, <4>2
    <3>1. Having = {n}
      BY Alone
    <3>2. Cardinality(Having) = 1
      BY <3>1, FS_Singleton
    <3> QED  BY <2>3, <3>2 DEF Owners
  <2> QED  BY <2>2, <2>3
<1>4. quit.at > 3 => meeting = 0 /\ room = 0
  <2>1. quit.at \in 0..6
    BY DEF RuntimeInv, RuntimeTypeOK, SetStates
  <2> QED  BY <2>1 DEF RuntimeInv, QuitInv
<1>5. ShutdownIsLast
  <2> SUFFICES ASSUME quit.at = 6, ~capped, clicks = quit.clicks PROVE Unclosed = {}
    BY DEF ShutdownIsLast, Stages
  <2>1. /\ InFlight({"start", "connect"}) = {} /\ InFlight({"disconnect"}) = {} /\ InFlight({"end"}) = {}
        /\ meeting = 0 /\ room = 0
    BY DEF RuntimeInv, QuitInv, Quitting
  <2>2. DOMAIN flows = {}
    <3>1. \A n \in DOMAIN flows : flows[n].kind \in FlowKinds
      BY DEF RuntimeInv, RuntimeTypeOK, SetStates, FlowType, Places
    <3> QED  BY <2>1, <3>1 DEF InFlight, FlowKinds
  <2>3. \A s \in DOMAIN sets : sets[s] \notin {"live", "draining", "closing"}
    BY <1>1, <2>1, <2>2 DEF RuntimeInv, HeldInv
  <2> QED  BY <2>3 DEF Unclosed
<1> QED  BY <1>2, <1>3, <1>4, <1>5 DEF DevicesAreReleased, DevicesHaveOneOwner

(* Once everything has settled, the menu is that of the mode. *)
LEMMA MenuFollows == ASSUME RuntimeInv PROVE MenuTellsMode
<1> SUFFICES ASSUME DOMAIN flows = {}, posts = <<>>, ~Quitting, ~unlisted PROVE menu = Mode
  BY DEF MenuTellsMode, Quiet
<1>1. Silent
  BY DEF Silent
<1> QED  BY <1>1 DEF RuntimeInv, MenuInv

(* Triggered once, when all its taps have drained, and then followed. *)
LEMMA TriggersFollow == ASSUME RuntimeInv PROVE MeetingRunsOnce
  BY DEF RuntimeInv, TriggerInv, MeetingRunsOnce

(* RuntimeInv is an invariant of the runtime (BridgeRuntime.cs). *)
THEOREM RuntimeHolds == RSpec => []RuntimeInv
  BY RuntimeInit, RuntimeStep, PTL DEF RSpec

(* Whatever clicks, answers, crashes and a quit overtake one another, the  *)
(* open devices have one owner, who will close them, and are closed before *)
(* the shell is let go (FlowInFlightLocked, TakeMeeting, RunTapsAsync,     *)
(* QuitAsync).                                                             *)
THEOREM DevicesAlwaysReleased == RSpec => []DevicesAreReleased
  BY RuntimeHolds, DevicesFollow, PTL

(* Whenever nothing is in flight, the menu offers what the runtime can do  *)
(* (the posts of RunTapsAsync, DescribeVerdict, RunPipelineFlowAsync).     *)
THEOREM MenuAlwaysTells == RSpec => []MenuTellsMode
  BY RuntimeHolds, MenuFollows, PTL

(* A meeting's pipeline is triggered once, over any number of crashes and  *)
(* launches, and its session stays in the state file until its outcome was *)
(* shown (EndAsync, RunPipelineFlowAsync, ResumeAsync).                    *)
THEOREM MeetingAlwaysRunsOnce == RSpec => []MeetingRunsOnce
  BY RuntimeHolds, TriggersFollow, PTL
============================================================================
