------------------------------- MODULE Captions -------------------------------
(***************************************************************************)
(* The live captions of one utterance: a tap's frames pass the speech gate *)
(* (SpeechGate), travel over a socket to the engine's /asr, whose answers  *)
(* come back over it and are read by the relay's consumer task (LineRelay) *)
(* while the tap goes on; when the utterance ends the relay asks for the   *)
(* engine's last answer, waits for it for a while, and says what is left.  *)
(* The engine is the in-process one (moonshine_live.py, MoonshineWindow)   *)
(* or whisperlivekit, modelled from what the relay relies on.              *)
(*                                                                         *)
(* A frame is a number, and the audio of one word.  The in-process engine  *)
(* hears frame f as word <<f, TRUE>>, or misheard as <<f, FALSE>>.         *)
(***************************************************************************)
EXTENDS SpeechGate, MoonshineWindow, LineRelay, FiniteSets

CONSTANTS
  Gates,      \* the knobs a gate may be built with
  Engines,    \* the engines a behaviour may run on
  MaxFrames,  \* frames of the tap
  Unsteady,   \* may a re-decode spell the first word of a window otherwise
  MaxLines,   \* lines and words of a line of a whisperlivekit session
  MaxWords

ASSUME CaptionsAssumption ==
  /\ Gates \subseteq Knobs
  /\ Engines \subseteq {"moonshine", "whisperlivekit"}
  /\ MaxFrames \in Nat /\ Unsteady \in BOOLEAN /\ MaxLines \in Nat /\ MaxWords \in Nat
  /\ Keys = 0 .. MaxLines - 1 /\ MaxLines > 0

VARIABLES
  engine,    \* which engine answers
  fed,       \* frames the tap has fed
  gate,      \* the tap's speech gate
  sent,      \* frames that left the gate, in order
  begun,     \* the frame that closed the gate last, and the one of the last start
  link,      \* the socket: "up" | "down"
  audio,     \* frames, then perhaps the end-of-audio marker, on their way to the engine
  answers,   \* answers on their way to the relay
  window,    \* the in-process engine's window
  lines,     \* whisperlivekit's lines
  served,    \* has the engine given its last answer
  relay,     \* the relay's memory
  consumer,  \* its consumer task: "reading" | "done" | "cancelled"
  phase      \* "open" | "closing" | "closed"

vars == <<engine, fed, gate, sent, begun, link, audio, answers, window, lines, served,
          relay, consumer, phase>>
engineVars == <<window, lines, served>>

EndOfAudio == 0

(* A line's words, and what the lines of the session say.                  *)
Line(key, words) == [key |-> key, text |-> words]
Texts(ls) == FoldLeft(LAMBDA said, line : said \o line.text, <<>>, ls)
WindowLines == IF window.line THEN <<Line(0, window.words)>> ELSE <<>>
SessionLines == IF engine = "moonshine" THEN WindowLines ELSE lines

Init ==
  /\ engine \in Engines
  /\ gate \in {FreshGate(knobs) : knobs \in Gates}
  /\ fed = 0 /\ sent = <<>> /\ begun = [closed |-> 0, start |-> 0]
  /\ link = "up" /\ audio = <<>> /\ answers = <<>>
  /\ window = FreshWindow /\ lines = <<>> /\ served = FALSE
  /\ relay = FreshRelay /\ consumer = "reading" /\ phase = "open"

-----------------------------------------------------------------------------
(* The tap's receive loop.                                                 *)

(* A frame through the gate, and what comes out through WlKRelay.send: a   *)
(* socket that is gone takes nothing.                                      *)
FeedFrame(loud) ==
  /\ phase = "open" /\ fed < MaxFrames
  /\ RunsDetector(gate) \/ loud = "quiet"   \* else nobody listens
  /\ LET frame == fed + 1
         step == Feed(gate, frame, loud)
     IN  /\ fed' = frame
         /\ gate' = step.gate
         /\ sent' = sent \o step.out
         /\ begun' = [closed |-> IF gate.open /\ ~step.gate.open THEN frame ELSE begun.closed,
                      start |-> IF step.gate.vad.triggered /\ ~gate.vad.triggered
                                THEN frame ELSE begun.start]
         /\ audio' = IF link = "up" THEN audio \o step.out ELSE audio
  /\ UNCHANGED <<engine, link, answers, engineVars, relay, consumer, phase>>

(* close(): end-of-audio before anything else.                             *)
StartClose ==
  /\ phase = "open"
  /\ phase' = "closing"
  /\ audio' = IF link = "up" THEN Append(audio, EndOfAudio) ELSE audio
  /\ UNCHANGED <<engine, fed, gate, sent, begun, link, answers, engineVars, relay, consumer>>

(* The drain ran out of time: the consumer is cancelled.                   *)
DrainTimeout ==
  /\ phase = "closing" /\ consumer = "reading"
  /\ consumer' = "cancelled"
  /\ UNCHANGED <<engine, fed, gate, sent, begun, link, audio, answers, engineVars, relay, phase>>

FinishClose ==
  /\ phase = "closing" /\ consumer # "reading"
  /\ relay' = FlushTail(relay)
  /\ phase' = "closed" /\ link' = "down" /\ audio' = <<>> /\ answers' = <<>>
  /\ UNCHANGED <<engine, fed, gate, sent, begun, engineVars, consumer>>

-----------------------------------------------------------------------------
(* The socket.                                                             *)

(* It breaks, with the end of what is under way in either direction lost.  *)
LinkBreaks ==
  /\ link = "up" /\ phase # "closed"
  /\ link' = "down"
  /\ \E kept \in 0 .. Len(answers) : answers' = SubSeq(answers, 1, kept)
  /\ audio' = <<>>
  /\ UNCHANGED <<engine, fed, gate, sent, begun, engineVars, relay, consumer, phase>>

(* The consumer reads one answer; the last one ends it.                    *)
ReadAnswer ==
  /\ consumer = "reading" /\ answers # <<>>
  /\ relay' = Hear(relay, Head(answers))
  /\ consumer' = IF Head(answers).final THEN "done" ELSE consumer
  /\ answers' = Tail(answers)
  /\ UNCHANGED <<engine, fed, gate, sent, begun, link, audio, engineVars, phase>>

(* ConnectionClosed, once what had arrived is read.                        *)
ConsumerEnds ==
  /\ consumer = "reading" /\ answers = <<>> /\ link = "down"
  /\ consumer' = "cancelled"
  /\ UNCHANGED <<engine, fed, gate, sent, begun, link, audio, answers, engineVars, relay, phase>>

-----------------------------------------------------------------------------
(* The in-process /asr server: one handler and one window per connection.  *)

(* What a decode may hear: the newest word may be misheard, to be revised  *)
(* by the next decode; an unsteady engine also revises the first word of   *)
(* its window.                                                             *)
Misheard(buffer) ==
  {slips \in SUBSET DOMAIN buffer :
     \A i \in slips : i = Len(buffer) \/ (Unsteady /\ i = 1)}
Decode(buffer, slips) == [i \in DOMAIN buffer |-> <<buffer[i], i \notin slips>>]

Answer(w, final) ==
  [lines |-> <<IF w.line THEN <<Line(0, w.words)>> ELSE <<>> >>,
   buffer |-> <<w.volatile>>, final |-> final]

(* One message of the handler's loop: a frame, decoded when it is time, or *)
(* the marker, which the last answer follows.                              *)
Serve ==
  /\ engine = "moonshine" /\ link = "up" /\ audio # <<>> /\ ~served
  /\ audio' = Tail(audio)
  /\ LET heard == IF Head(audio) = EndOfAudio THEN window ELSE FeedPcm(window, Head(audio))
     IN  \E slips \in Misheard(heard.buffer) :
           LET words == Decode(heard.buffer, slips)
           IN  IF Head(audio) = EndOfAudio
               THEN /\ window' = CloseWindow(heard, words)
                    /\ served' = TRUE
                    /\ answers' = Append(answers, Answer(window', TRUE))
               ELSE IF RefreshDue(heard)
               THEN /\ window' = Refresh(heard, words)
                    /\ answers' = Append(answers, Answer(window', FALSE))
                    /\ UNCHANGED served
               ELSE /\ slips = {}
                    /\ window' = heard
                    /\ UNCHANGED <<answers, served>>
  /\ UNCHANGED <<engine, fed, gate, sent, begun, link, lines, relay, consumer, phase>>

(* The peer vanished without the marker: the last decode has nobody to be  *)
(* sent to, and may be abandoned.                                          *)
ServeAbruptEnd ==
  /\ engine = "moonshine" /\ link = "down" /\ ~served
  /\ served' = TRUE
  /\ \/ window' = CloseWindow(window, Decode(window.buffer, {}))
     \/ UNCHANGED window
  /\ UNCHANGED <<engine, fed, gate, sent, begun, link, audio, answers, lines, relay, consumer, phase>>

-----------------------------------------------------------------------------
(* whisperlivekit: lines only ever grow at their end, and so does the last *)
(* of them (external).                                                     *)

WlkWord(ls) == [ls EXCEPT ![Len(ls)].text = Append(@, Len(ls[Len(ls)].text) + 1)]
Grown(ls) ==
  {ls} \cup (IF Len(ls) < MaxLines THEN {Append(ls, Line(Len(ls), <<>>))} ELSE {})
       \cup (IF ls # <<>> /\ Len(Last(ls).text) < MaxWords THEN {WlkWord(ls)} ELSE {})

WlkAnswers ==
  /\ engine = "whisperlivekit" /\ link = "up" /\ audio # <<>> /\ ~served
  /\ audio' = Tail(audio)
  /\ lines' \in Grown(lines)
  /\ IF Head(audio) = EndOfAudio
     THEN /\ served' = TRUE
          /\ answers' = answers \o
               << [lines |-> <<lines'>>, buffer |-> << <<>> >>, final |-> FALSE],
                  [lines |-> <<>>, buffer |-> <<>>, final |-> TRUE] >>
     ELSE /\ UNCHANGED served
          /\ \E inFlight \in {<<>>, <<9>>} :
               answers' = Append(answers, [lines |-> <<lines'>>, buffer |-> <<inFlight>>, final |-> FALSE])
  /\ UNCHANGED <<engine, fed, gate, sent, begun, link, window, relay, consumer, phase>>

Done == phase = "closed" /\ UNCHANGED vars

Next ==
  \/ \E loud \in Loudness : FeedFrame(loud)
  \/ StartClose \/ DrainTimeout \/ FinishClose
  \/ LinkBreaks \/ ReadAnswer \/ ConsumerEnds
  \/ Serve \/ ServeAbruptEnd \/ WlkAnswers
  \/ Done

Spec == Init /\ [][Next]_vars

-----------------------------------------------------------------------------
Increasing(s) == \A i \in 1 .. Len(s) - 1 : s[i] < s[i + 1]

(* Every frame leaves the gate at most once and in order, and an open gate *)
(* has let through all of the utterance: what followed the frame that      *)
(* closed it last, from preRoll frames before the start (SpeechGate.feed). *)
GateMissesNothing ==
  /\ Increasing(sent)
  /\ gate.open =>
       \A f \in 1 .. fed :
         f > begun.closed /\ f >= begun.start - gate.knobs.preRoll => \E i \in DOMAIN sent : sent[i] = f

(* What the relay has said is a beginning of what the lines it was shown   *)
(* say, each word once, and in their order (_consider_emit_line); once     *)
(* closed it is all of that, then the words in flight (_flush_tail).       *)
SaidOnce ==
  /\ phase # "closed" => IsPrefix(relay.settled, Texts(relay.lines))
  /\ phase = "closed" => IsPrefix(Texts(relay.lines), relay.settled)

(* Every frame the in-process engine was sent is a word of the captions of *)
(* an utterance whose last answer was read: stitching a new window to the  *)
(* last one may say a word twice and never drops one                       *)
(* (_strip_overlap_prefix, MoonshineWindow.close).                         *)
NoWordDropped ==
  phase = "closed" /\ consumer = "done" /\ engine = "moonshine" =>
    \A i \in DOMAIN sent : \E j \in DOMAIN relay.settled : relay.settled[j][1] = sent[i]

(* Such an utterance is captioned whole: every line of the session, and no *)
(* word in flight after them (WlKRelay.close).                             *)
CleanEndDeliversAll ==
  /\ phase = "closed" /\ consumer = "done" => relay.settled = Texts(SessionLines)
  /\ NoWordDropped

(* From the microphone to the caption: the gate passes all speech once,    *)
(* each word is said once, and a clean end says all of them.               *)
CaptionsAreWhole == GateMissesNothing /\ SaidOnce /\ CleanEndDeliversAll

(* The committed words of the in-process engine's line are never taken     *)
(* back, whatever a later decode hears (_commit_words).                    *)
NothingRetracted == [][IsPrefix(window.words, window'.words)]_vars

=============================================================================
