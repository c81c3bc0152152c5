--------------------------- MODULE CaptionsProofs ---------------------------
(***************************************************************************)
(* The live captions of one utterance, from the microphone to the caption. *)
(* GateInv: what the gate holds back is a stretch of the tap that ends     *)
(*   with the last frame, so that what it lets go misses nothing.          *)
(* WindowInv: the buffer of a window is as long as its audio.              *)
(* RelayInv: the lines the relay has, those of each answer on its way and  *)
(*   those of the session are each the next one's beginning, and the relay *)
(*   has said all but the end of its own.                                  *)
(* WholeInv: the committed words of the window say all it has decoded but  *)
(*   the words two decodes have not agreed on, and the rest of what was    *)
(*   sent is on its way.                                                   *)
(***************************************************************************)
EXTENDS Captions, SequenceTheorems, WellFoundedInduction, TLAPS

(* Induction: what holds of 0 and passes to the next number holds of all. *)
LEMMA NatInd ==
  ASSUME NEW S, 0 \in S, \A n \in Nat : n \in S => n + 1 \in S
  PROVE  Nat \subseteq S
<1> SUFFICES ASSUME Nat \ S # {} PROVE FALSE
  OBVIOUS
<1>1. IsWellFoundedOn(OpToRel(<, Nat), Nat)
  BY NatLessThanWellFounded
<1>2. PICK x \in Nat \ S : \A y \in Nat \ S : ~(<<y, x>> \in OpToRel(<, Nat))
  BY <1>1, WFMin
<1>3. x # 0 /\ x - 1 \in Nat
  OBVIOUS
<1>4. CASE x - 1 \in S
  <2>1. (x - 1) + 1 \in S
    BY <1>3, <1>4
  <2> QED BY <2>1
<1>5. CASE x - 1 \notin S
  <2>1. /\ <<x - 1, x>> \in Nat \X Nat /\ <<x - 1, x>>[1] = x - 1 /\ <<x - 1, x>>[2] = x
        /\ x - 1 < x
    BY <1>3
  <2>2. <<x - 1, x>> \in OpToRel(<, Nat)
    BY <2>1 DEF OpToRel
  <2> QED BY <1>2, <1>3, <1>5, <2>2
<1> QED BY <1>4, <1>5

LEMMA MaxUpTo ==
  ASSUME NEW k \in Nat, NEW s \in SUBSET (1..(k + 1)), k + 1 \in s
  PROVE  Max(s) = k + 1
<1>1. \A y \in s : k + 1 >= y
  OBVIOUS
<1>2. \A x \in s : (\A y \in s : x >= y) => x = k + 1
  OBVIOUS
<1> QED BY <1>1, <1>2 DEF Max

(* The first k numbers, and the last of them. *)
LEMMA UpTo ==
  ASSUME NEW n \in Nat, NEW k \in 1..n
  PROVE  /\ 1..k \in SUBSET (1..n) /\ 1..k # {} /\ Max(1..k) = k
         /\ (1..k) \ {k} = 1..(k - 1) /\ k - 1 \in 0..n
<1>1. k \in Nat /\ 1 \in 1..k /\ k - 1 \in Nat /\ k - 1 \in 0..n
  OBVIOUS
<1>2. 1..k \in SUBSET (1..((k - 1) + 1)) /\ (k - 1) + 1 \in 1..k /\ (k - 1) + 1 = k
  BY <1>1
<1>3. Max(1..k) = k
  BY <1>1, <1>2, MaxUpTo
<1>4. \A i \in 1..k : i \in 1..n /\ (i # k => i \in 1..(k - 1))
  BY <1>1
<1>5. \A i \in 1..(k - 1) : i \in 1..k /\ i # k
  BY <1>1
<1> QED BY <1>1, <1>3, <1>4, <1>5

(***************************************************************************)
(* The gate.  What is said of it is said of the numbers of the frames: the *)
(* ring, and the frames of a candidate, are stretches of the utterance.    *)
(***************************************************************************)
Rises(t) == \A i, j \in 1..Len(t) : i < j => t[i] < t[j]

Has(t, f) == \E i \in 1..Len(t) : t[i] = f

(* t is the frames from a to b.                                            *)
Runs(t, a, b) ==
  t \in Seq(Nat) /\ Len(t) = b - a + 1 /\ \A i \in 1..Len(t) : t[i] = a + i - 1

GateType ==
  [knobs : Knobs, open : BOOLEAN, ring : Seq(Nat), samples : Nat, pending : Seq(Nat),
   vad : [triggered : BOOLEAN, quiet : Nat]]

(* The first frame of the ring of a gate that closed at frame c and waits  *)
(* at frame f.                                                             *)
Lead(g, f, c) == f - MinOf(g.knobs.preRoll, f - c) + 1

Reaches(g, n, s, c, b) ==
  \A f \in 1..n : f > c /\ f >= b - g.knobs.preRoll => Has(s, f)

(* The gate g after n frames, s of which it let through; it closed last at *)
(* frame c, and its last speech started at b.                              *)
GateAt(g, n, s, c, b) ==
  /\ n \in Nat /\ c \in 0..n /\ b \in 0..n /\ g \in GateType
  /\ s \in Seq(Nat) /\ Rises(s) /\ \A i \in 1..Len(s) : s[i] \in 1..n
  /\ g.vad.triggered <=> g.open \/ g.pending # <<>>
  /\ g.open => g.pending = <<>> /\ g.ring = <<>> /\ Reaches(g, n, s, c, b)
  /\ ~g.open => \A i \in 1..Len(s) : s[i] <= c
  /\ ~g.open /\ g.pending = <<>> => Runs(g.ring, Lead(g, n, c), n)
  /\ g.pending # <<>> => c < b /\ Runs(g.pending, b, n) /\ Runs(g.ring, Lead(g, b - 1, c), b - 1)

LEMMA RunsNone ==
  ASSUME NEW a \in Int
  PROVE  Runs(<<>>, a, a - 1)
BY DEF Runs

LEMMA RunsOne ==
  ASSUME NEW n \in Nat
  PROVE  Runs(<<n>>, n, n)
<1>1. <<n>> \in Seq(Nat) /\ Len(<<n>>) = 1 /\ <<n>>[1] = n
  OBVIOUS
<1> QED BY <1>1 DEF Runs

LEMMA ConcatIs ==
  ASSUME NEW S, NEW s \in Seq(S), NEW t \in Seq(S)
  PROVE  /\ s \o t \in Seq(S) /\ Len(s \o t) = Len(s) + Len(t) /\ Len(s) \in Nat /\ Len(t) \in Nat
         /\ \A i \in 1..Len(s) : i \in 1..Len(s \o t) /\ (s \o t)[i] = s[i]
         /\ \A i \in 1..Len(s \o t) :
              i > Len(s) => i - Len(s) \in 1..Len(t) /\ (s \o t)[i] = t[i - Len(s)]
<1>1. s \o t \in Seq(S) /\ Len(s \o t) = Len(s) + Len(t) /\ Len(s) \in Nat /\ Len(t) \in Nat
  OBVIOUS
<1>2. ASSUME NEW i \in 1..Len(s)
      PROVE  i \in 1..Len(s \o t) /\ (s \o t)[i] = s[i]
  <2>1. i \in 1..(Len(s) + Len(t))
    BY <1>1
  <2> QED BY <1>1, <2>1
<1>3. ASSUME NEW i \in 1..Len(s \o t), i > Len(s)
      PROVE  i - Len(s) \in 1..Len(t) /\ (s \o t)[i] = t[i - Len(s)]
  <2>1. i \in 1..(Len(s) + Len(t)) /\ i - Len(s) \in 1..Len(t) /\ ~(i <= Len(s))
    BY <1>1, <1>3
  <2> QED BY <2>1
<1> QED BY <1>1, <1>2, <1>3

LEMMA RunsOn ==
  ASSUME NEW s, NEW t, NEW a \in Int, NEW b \in Int, NEW c \in Int, Runs(s, a, b), Runs(t, b + 1, c)
  PROVE  Runs(s \o t, a, c)
<1>1. s \in Seq(Nat) /\ t \in Seq(Nat)
  BY DEF Runs
<1>2. s \o t \in Seq(Nat) /\ Len(s \o t) = Len(s) + Len(t)
  BY <1>1
<1>3. ASSUME NEW i \in 1..Len(s \o t) PROVE (s \o t)[i] = a + i - 1
  <2>1. CASE i <= Len(s)
    <3>1. i \in 1..Len(s) /\ (s \o t)[i] = s[i]
      BY <1>1, <1>2, <2>1
    <3> QED BY <3>1 DEF Runs
  <2>2. CASE i > Len(s)
    <3>1. i - Len(s) \in 1..Len(t) /\ (s \o t)[i] = t[i - Len(s)]
      BY <1>1, <1>2, <2>2
    <3> QED BY <3>1, <1>1 DEF Runs
  <2> QED BY <2>1, <2>2, <1>1, <1>2
<1> QED BY <1>1, <1>2, <1>3 DEF Runs

LEMMA RunsAppend ==
  ASSUME NEW s, NEW a \in Int, NEW b \in Nat, Runs(s, a, b)
  PROVE  Runs(Append(s, b + 1), a, b + 1)
<1>1. s \in Seq(Nat) /\ b + 1 \in Nat
  BY DEF Runs
<1>2. Append(s, b + 1) \in Seq(Nat) /\ Len(Append(s, b + 1)) = Len(s) + 1
  BY <1>1
<1>3. ASSUME NEW i \in 1..(Len(s) + 1) PROVE Append(s, b + 1)[i] = a + i - 1
  <2>1. CASE i <= Len(s)
    BY <1>1, <2>1 DEF Runs
  <2>2. CASE i = Len(s) + 1
    BY <1>1, <2>2 DEF Runs
  <2> QED BY <2>1, <2>2, <1>1
<1> QED BY <1>2, <1>3, <1>1 DEF Runs

LEMMA RunsEnd ==
  ASSUME NEW s, NEW a \in Int, NEW b \in Int, Runs(s, a, b), NEW d \in 0..Len(s)
  PROVE  Runs(SubSeq(s, 1 + d, Len(s)), a + d, b)
<1>1. s \in Seq(Nat) /\ d \in Nat /\ Len(s) \in Nat
  BY DEF Runs
<1> DEFINE t == SubSeq(s, 1 + d, Len(s))
<1>2. t \in Seq(Nat) /\ Len(t) = Len(s) - d
  BY <1>1
<1>3. ASSUME NEW i \in 1..Len(t) PROVE t[i] = a + d + i - 1
  <2>1. t[i] = s[(1 + d) + i - 1] /\ (1 + d) + i - 1 = d + i /\ d + i \in 1..Len(s)
    BY <1>1, <1>2
  <2> QED BY <2>1, <1>1 DEF Runs
<1> QED BY <1>1, <1>2, <1>3 DEF Runs

(* The ring after more frames: the last preRoll of those since the gate    *)
(* closed (SpeechGate.feed's deque).                                       *)
LEMMA ParkedRuns ==
  ASSUME NEW g \in GateType, NEW f \in Nat, NEW c \in 0..f, NEW n \in Nat, f <= n, NEW t,
         Runs(g.ring, Lead(g, f, c), f), Runs(t, f + 1, n)
  PROVE  /\ Parked(g, t) \in GateType
         /\ Runs(Parked(g, t).ring, Lead(g, n, c), n)
         /\ Parked(g, t).knobs = g.knobs /\ Parked(g, t).open = g.open
         /\ Parked(g, t).vad = g.vad /\ Parked(g, t).pending = g.pending
<1> DEFINE p == g.knobs.preRoll
           all == g.ring \o t
           drop == IF Len(all) - p > 0 THEN Len(all) - p ELSE 0
           a == Lead(g, f, c)
           ring == SubSeq(all, 1 + drop, Len(all))
<1>1. p \in Nat /\ g.ring \in Seq(Nat)
  BY DEF GateType, Knobs
<1>2. a \in Int /\ a = f - MinOf(p, f - c) + 1
  BY <1>1 DEF Lead, MinOf
<1>3. Runs(all, a, n)
  BY <1>2, RunsOn
<1>4. all \in Seq(Nat) /\ Len(all) = n - a + 1 /\ Len(all) \in Nat
  BY <1>3, <1>2, SMTT(30) DEF Runs
<1>5. drop \in 0..Len(all) /\ a + drop = Lead(g, n, c)
  <2>1. PICK m : m = MinOf(p, f - c)
    OBVIOUS
  <2>2. m <= p /\ m <= f - c /\ (m = p \/ m = f - c) /\ m \in Nat
    BY <1>1, <2>1 DEF MinOf
  <2>3. Len(all) = n - f + m /\ a = f - m + 1
    BY <1>2, <1>4, <2>1, <2>2, SMTT(30)
  <2>4. Lead(g, n, c) = n - (IF p <= n - c THEN p ELSE n - c) + 1
    BY DEF Lead, MinOf
  <2>5. PICK r \in Nat, len \in Nat : r = p /\ len = Len(all)
    BY <1>1, <1>4
  <2>6. PICK lead : lead = Lead(g, n, c)
    OBVIOUS
  <2>7. PICK from \in Int : from = a
    BY <1>2
  <2>8. drop = (IF len - r > 0 THEN len - r ELSE 0)
    BY <2>5
  <2>9. /\ lead = n - (IF r <= n - c THEN r ELSE n - c) + 1 /\ from = f - m + 1
        /\ len = n - f + m /\ m <= r /\ m <= f - c /\ (m = r \/ m = f - c)
    BY <2>2, <2>3, <2>4, <2>5, <2>6, <2>7
  <2> HIDE DEF all, drop, a
  <2> QED BY <2>2, <2>5, <2>6, <2>7, <2>8, <2>9
<1>6. Runs(ring, Lead(g, n, c), n)
  <2> HIDE DEF all, drop, a
  <2>1. Runs(ring, a + drop, n)
    BY <1>2, <1>3, <1>5, RunsEnd
  <2> QED BY <2>1, <1>5
<1>7. Parked(g, t) = [g EXCEPT !.ring = ring]
  BY DEF Parked
<1>8. ring \in Seq(Nat)
  BY <1>6 DEF Runs
<1> QED BY <1>6, <1>7, <1>8 DEF GateType

(* The detector: what a window may do to it, and to nothing else.          *)
LEMMA SampledIs ==
  ASSUME NEW g \in GateType, NEW loud
  PROVE  LET new == Sampled(g, loud).gate
             event == Sampled(g, loud).event
         IN  /\ new \in GateType /\ new.knobs = g.knobs /\ new.open = g.open
             /\ new.ring = g.ring /\ new.pending = g.pending
             /\ event \in {"start", "end", "none"}
             /\ event = "start" => ~g.vad.triggered /\ new.vad.triggered
             /\ event = "end" => g.vad.triggered /\ ~new.vad.triggered
             /\ event = "none" => new.vad.triggered = g.vad.triggered
<1>1. CASE ~RunsDetector(g)
  <2>1. Sampled(g, loud) = [gate |-> [g EXCEPT !.samples = @ + FrameUnits], event |-> "none"]
    BY <1>1 DEF Sampled
  <2>2. [g EXCEPT !.samples = @ + FrameUnits] \in GateType
    <3>1. g.samples + FrameUnits \in Nat
      BY DEF GateType, FrameUnits
    <3> QED BY <3>1 DEF GateType
  <2>3. PICK new : new = [g EXCEPT !.samples = @ + FrameUnits]
    OBVIOUS
  <2>4. /\ new \in GateType /\ new.knobs = g.knobs /\ new.open = g.open /\ new.ring = g.ring
        /\ new.pending = g.pending /\ new.vad = g.vad
    BY <2>2, <2>3 DEF GateType
  <2>5. Sampled(g, loud).gate = new /\ Sampled(g, loud).event = "none"
    BY <2>1, <2>3
  <2> QED BY <2>4, <2>5
<1>2. CASE RunsDetector(g)
  <2> DEFINE step == VadStep(g.vad, g.knobs.hangover, loud)
  <2>1. g.vad \in [triggered : BOOLEAN, quiet : Nat] /\ g.samples \in Nat
    BY DEF GateType
  <2>2. /\ step.vad \in [triggered : BOOLEAN, quiet : Nat]
        /\ step.event \in {"start", "end", "none"}
        /\ step.event = "start" => ~g.vad.triggered /\ step.vad.triggered
        /\ step.event = "end" => g.vad.triggered /\ ~step.vad.triggered
        /\ step.event = "none" => step.vad.triggered = g.vad.triggered
    <3>1. PICK vad \in [triggered : BOOLEAN, quiet : Nat] : vad = g.vad
      BY <2>1
    <3>2. PICK hang : hang = g.knobs.hangover
      OBVIOUS
    <3>3. PICK quiet \in Nat : quiet = IF loud = "speech" THEN 0
               ELSE IF vad.quiet > 0 \/ (loud = "quiet" /\ vad.triggered) THEN vad.quiet + 1
               ELSE 0
      OBVIOUS
    <3>4. step = IF loud = "speech" /\ ~vad.triggered
      THEN [vad |-> [triggered |-> TRUE, quiet |-> 0], event |-> "start"]
      ELSE IF loud = "quiet" /\ vad.triggered /\ quiet - 1 >= hang
      THEN [vad |-> FreshVad, event |-> "end"]
      ELSE [vad |-> [vad EXCEPT !.quiet = quiet], event |-> "none"]
      BY <3>1, <3>2, <3>3 DEF VadStep
    <3>5. [vad EXCEPT !.quiet = quiet] \in [triggered : BOOLEAN, quiet : Nat] /\ [vad EXCEPT !.quiet = quiet].triggered = vad.triggered
      OBVIOUS
    <3> HIDE DEF step
    <3> QED BY <3>1, <3>4, <3>5 DEF FreshVad
  <2>3. Sampled(g, loud) =
          [gate |-> [g EXCEPT !.samples = @ + FrameUnits - WindowUnits, !.vad = step.vad],
           event |-> step.event]
    BY <1>2 DEF Sampled
  <2>4. g.samples + FrameUnits - WindowUnits \in Nat
    BY <1>2, <2>1 DEF RunsDetector, FrameUnits, WindowUnits
  <2> HIDE DEF step
  <2>5. PICK new : new = [g EXCEPT !.samples = @ + FrameUnits - WindowUnits, !.vad = step.vad]
    OBVIOUS
  <2>6. /\ new \in GateType /\ new.knobs = g.knobs /\ new.open = g.open /\ new.ring = g.ring
        /\ new.pending = g.pending /\ new.vad = step.vad
    BY <2>2, <2>4, <2>5 DEF GateType
  <2>7. Sampled(g, loud).gate = new /\ Sampled(g, loud).event = step.event
    BY <2>3, <2>5
  <2> QED BY <2>2, <2>6, <2>7
<1> QED BY <1>1, <1>2

(* What leaves the gate after what left it before.                         *)
LEMMA LetThrough ==
  ASSUME NEW s \in Seq(Nat), NEW n \in Nat, NEW m \in Nat, NEW a \in Nat, n <= m, 1 <= a, a <= m + 1,
         Rises(s), \A i \in 1..Len(s) : s[i] \in 1..n /\ s[i] < a, NEW out, Runs(out, a, m)
  PROVE  /\ s \o out \in Seq(Nat) /\ Rises(s \o out)
         /\ \A i \in 1..Len(s \o out) : (s \o out)[i] \in 1..m
         /\ \A f \in a..m : Has(s \o out, f)
         /\ \A i \in 1..Len(s) : i \in 1..Len(s \o out) /\ (s \o out)[i] = s[i]
<1>1. out \in Seq(Nat) /\ Len(out) = m - a + 1 /\ \A i \in 1..Len(out) : out[i] = a + i - 1
  BY DEF Runs
<1> DEFINE t == s \o out
<1>2. t \in Seq(Nat) /\ Len(t) = Len(s) + Len(out) /\ Len(s) \in Nat /\ Len(out) \in Nat
  <2>1. out \in Seq(Nat)
    BY <1>1
  <2> QED BY <2>1, ConcatIs
<1>3. \A i \in 1..Len(s) : i \in 1..Len(t) /\ t[i] = s[i]
  BY <1>1, ConcatIs
<1>4. \A i \in 1..Len(t) : i > Len(s) => i - Len(s) \in 1..Len(out) /\ t[i] = out[i - Len(s)]
  BY <1>1, ConcatIs
<1> HIDE DEF t
<1>5. ASSUME NEW i \in 1..Len(t), i > Len(s)
      PROVE  /\ t[i] = a + (i - Len(s)) - 1 /\ t[i] \in Nat /\ a <= t[i] /\ t[i] <= m
  <2>1. PICK j \in 1..Len(out) : j = i - Len(s)
    BY <1>4, <1>5
  <2>2. t[i] = out[j] /\ out[j] = a + j - 1
    BY <1>1, <1>4, <1>5, <2>1
  <2> QED BY <1>1, <2>1, <2>2, SMTT(30)
<1>6. \A i \in 1..Len(t) : t[i] \in 1..m
  <2> TAKE i \in 1..Len(t)
  <2>1. CASE i <= Len(s)
    <3>1. i \in 1..Len(s)
      BY <1>2, <2>1
    <3> QED BY <1>3, <3>1
  <2>2. CASE i > Len(s)
    BY <1>5, <2>2
  <2> QED BY <2>1, <2>2, <1>2
<1>7. Rises(t)
  <2> SUFFICES ASSUME NEW i \in 1..Len(t), NEW j \in 1..Len(t), i < j PROVE t[i] < t[j]
    BY DEF Rises
  <2>1. CASE j <= Len(s)
    <3>1. i \in 1..Len(s) /\ j \in 1..Len(s)
      BY <1>2, <2>1
    <3> QED BY <1>3, <3>1 DEF Rises
  <2>2. CASE i > Len(s)
    <3>1. i > Len(s) /\ j > Len(s)
      BY <1>2, <2>2
    <3>2. t[i] = a + (i - Len(s)) - 1 /\ t[j] = a + (j - Len(s)) - 1
      BY <3>1, <1>5
    <3> QED BY <1>2, <3>2
  <2>3. CASE i <= Len(s) /\ j > Len(s)
    <3>1. i \in 1..Len(s) /\ t[i] = s[i] /\ s[i] < a /\ t[j] = a + (j - Len(s)) - 1
      BY <1>2, <1>3, <1>5, <2>3, SMTT(30)
    <3>2. PICK u \in Nat : u = s[i]
      BY <3>1
    <3>3. PICK v \in Nat : v = t[j] /\ a <= v
      BY <2>3, <1>5
    <3>4. t[i] = u /\ u < a
      BY <3>1, <3>2
    <3> QED BY <3>3, <3>4
  <2> QED BY <2>1, <2>2, <2>3, <1>2, SMTT(30)
<1>8. ASSUME NEW f \in a..m PROVE Has(t, f)
  <2>1. Len(s) + (f - a + 1) \in 1..Len(t) /\ Len(s) + (f - a + 1) > Len(s)
    BY <1>1, <1>2
  <2>2. t[Len(s) + (f - a + 1)] = f
    BY <1>2, <1>5, <2>1
  <2> QED BY <2>1, <2>2 DEF Has
<1> QED BY <1>2, <1>3, <1>6, <1>7, <1>8 DEF t

(* The step of the gate that a frame is: its verdict known, h is the gate  *)
(* with the detector after it.                                             *)
Verdict(g, h, event) ==
  /\ h \in GateType /\ h.knobs = g.knobs /\ h.open = g.open /\ h.ring = g.ring /\ h.pending = g.pending
  /\ event = "start" => ~g.vad.triggered /\ h.vad.triggered
  /\ event = "end" => g.vad.triggered /\ ~h.vad.triggered
  /\ event = "none" => h.vad.triggered = g.vad.triggered

(* When the gate closes, and when the detector heard a start.              *)
Closed(g, new, n, c) == IF g.open /\ ~new.open THEN n ELSE c
Begun(g, new, n, b) == IF new.vad.triggered /\ ~g.vad.triggered THEN n ELSE b

FedTo(g, step, n, s, c, b) ==
  GateAt(step.gate, n + 1, s \o step.out, Closed(g, step.gate, n + 1, c), Begun(g, step.gate, n + 1, b))

LEMMA FedIs ==
  ASSUME NEW g, NEW step, NEW n, NEW s, NEW c, NEW b, NEW new, NEW out, step = [gate |-> new, out |-> out],
         NEW t, t = s \o out, NEW d, Closed(g, new, n + 1, c) = d, NEW e, Begun(g, new, n + 1, b) = e,
         GateAt(new, n + 1, t, d, e)
  PROVE  FedTo(g, step, n, s, c, b)
<1>1. step.gate = new /\ step.out = out
  OBVIOUS
<1> QED BY <1>1 DEF FedTo

LEMMA HoldsIt ==
  ASSUME NEW s \in Seq(Nat)
  PROVE  s \o <<>> = s
OBVIOUS

LEMMA LeadIs ==
  ASSUME NEW g \in GateType, NEW f \in Nat, NEW c \in 0..f
  PROVE  /\ Lead(g, f, c) \in Nat /\ Lead(g, f, c) > c /\ Lead(g, f, c) <= f + 1
         /\ \A x \in Nat : x > c /\ x >= f + 1 - g.knobs.preRoll => x >= Lead(g, f, c)
<1>1. PICK p \in Nat : p = g.knobs.preRoll
  BY DEF GateType, Knobs
<1>2. Lead(g, f, c) = f - (IF p <= f - c THEN p ELSE f - c) + 1
  BY <1>1 DEF Lead, MinOf
<1> QED BY <1>1, <1>2

LEMMA StartKeeps ==
  ASSUME NEW g, NEW n, NEW s, NEW c, NEW b, GateAt(g, n, s, c, b), NEW h, Verdict(g, h, "start")
  PROVE  FedTo(g, OnStart(h, n + 1), n, s, c, b)
<1>1. /\ n \in Nat /\ c \in 0..n /\ b \in 0..n /\ g \in GateType /\ s \in Seq(Nat)
      /\ Rises(s) /\ \A i \in 1..Len(s) : s[i] \in 1..n
      /\ ~g.open /\ g.pending = <<>> /\ \A i \in 1..Len(s) : s[i] <= c
      /\ Runs(g.ring, Lead(g, n, c), n)
  BY DEF GateAt, Verdict
<1>2. /\ h \in GateType /\ h.knobs = g.knobs /\ h.open = FALSE /\ h.ring = g.ring /\ h.pending = <<>>
      /\ h.vad.triggered = TRUE /\ g.vad.triggered = FALSE
  BY <1>1 DEF Verdict, GateType
<1>3. PICK lead \in Nat : lead = Lead(g, n, c)
  BY <1>1, LeadIs
<1>4. lead > c /\ lead <= n + 1 /\ \A x \in Nat : x > c /\ x >= n + 1 - g.knobs.preRoll => x >= lead
  BY <1>1, <1>3, LeadIs
<1>5. Runs(<<n + 1>>, n + 1, n + 1)
  BY <1>1, RunsOne
<1>6. CASE h.knobs.minSpeech = 0
  <2> DEFINE out == h.ring \o <<n + 1>>
  <2>1. Runs(out, lead, n + 1)
    BY <1>1, <1>2, <1>3, <1>5, RunsOn
  <2>2. PICK new : new = [h EXCEPT !.open = TRUE, !.ring = <<>>, !.pending = <<>>]
    OBVIOUS
  <2>3. /\ new \in GateType /\ new.open = TRUE /\ new.ring = <<>> /\ new.pending = <<>>
        /\ new.knobs = g.knobs /\ new.vad.triggered = TRUE
    BY <1>2, <2>2 DEF GateType
  <2>4. OnStart(h, n + 1) = [gate |-> new, out |-> out]
    BY <1>6, <2>2 DEF OnStart, Release
  <2>5. PICK t : t = s \o out
    OBVIOUS
  <2>6. \A i \in 1..Len(s) : s[i] \in 1..n /\ s[i] < lead
    BY <1>1, <1>4
  <2>7. /\ t \in Seq(Nat) /\ Rises(t) /\ \A i \in 1..Len(t) : t[i] \in 1..(n + 1)
        /\ \A f \in lead..(n + 1) : Has(t, f)
    <3> HIDE DEF out
    <3>1. n + 1 \in Nat /\ n <= n + 1 /\ 1 <= lead /\ lead <= (n + 1) + 1
      BY <1>1, <1>4
    <3>2. PICK m \in Nat : m = n + 1 /\ n <= m /\ lead <= m + 1 /\ Runs(out, lead, m)
      BY <2>1, <3>1
    <3>3. /\ s \o out \in Seq(Nat) /\ Rises(s \o out)
          /\ \A i \in 1..Len(s \o out) : (s \o out)[i] \in 1..m
          /\ \A f \in lead..m : Has(s \o out, f)
      <4>1. \A i \in 1..Len(s) : s[i] \in 1..n /\ s[i] < lead
        BY <2>6
      <4>2. s \in Seq(Nat) /\ n \in Nat /\ m \in Nat /\ lead \in Nat /\ Rises(s)
        BY <1>1
      <4>3. n <= m /\ 1 <= lead /\ lead <= m + 1 /\ Runs(out, lead, m)
        BY <3>1, <3>2
      <4>4. s \o out \in Seq(Nat) /\ Rises(s \o out)
        BY <4>1, <4>2, <4>3, LetThrough
      <4>5. \A i \in 1..Len(s \o out) : (s \o out)[i] \in 1..m
        BY <4>1, <4>2, <4>3, LetThrough
      <4>6. \A f \in lead..m : Has(s \o out, f)
        BY <4>1, <4>2, <4>3, LetThrough
      <4> QED BY <4>4, <4>5, <4>6
    <3> QED BY <2>5, <3>2, <3>3
  <2>8. Reaches(new, n + 1, t, c, n + 1)
    <3> SUFFICES ASSUME NEW f \in 1..(n + 1), f > c, f >= (n + 1) - g.knobs.preRoll
                 PROVE  Has(t, f)
      BY <2>3 DEF Reaches
    <3>1. f >= lead
      <4>1. PICK p \in Nat : p = g.knobs.preRoll
        BY <1>1 DEF GateType, Knobs
      <4>2. f \in Nat /\ f > c /\ f >= n + 1 - p
        BY <1>1, <4>1, SMTT(30)
      <4> QED BY <1>4, <4>1, <4>2
    <3>2. f \in lead..(n + 1)
      BY <1>1, <3>1
    <3> QED BY <2>7, <3>2
  <2>9. GateAt(new, n + 1, t, c, n + 1)
    BY <1>1, <2>3, <2>7, <2>8 DEF GateAt
  <2>10. Closed(g, new, n + 1, c) = c /\ Begun(g, new, n + 1, b) = n + 1
    BY <1>1, <1>2, <2>3 DEF Closed, Begun
  <2> QED BY <2>4, <2>5, <2>9, <2>10, FedIs
<1>7. CASE h.knobs.minSpeech # 0
  <2>1. PICK new : new = [h EXCEPT !.pending = <<n + 1>>]
    OBVIOUS
  <2>2. /\ new \in GateType /\ new.open = FALSE /\ new.ring = g.ring /\ new.pending = <<n + 1>>
        /\ new.knobs = g.knobs /\ new.vad.triggered = TRUE
    <3>1. <<n + 1>> \in Seq(Nat)
      BY <1>1
    <3> QED BY <1>2, <2>1, <3>1 DEF GateType
  <2>3. OnStart(h, n + 1) = [gate |-> new, out |-> <<>>] /\ s \o <<>> = s
    BY <1>1, <1>7, <2>1, HoldsIt DEF OnStart, Held
  <2>4. Runs(new.ring, Lead(new, (n + 1) - 1, c), (n + 1) - 1)
    <3>1. (n + 1) - 1 = n
      BY <1>1
    <3>2. Lead(new, n, c) = Lead(g, n, c)
      BY <2>2 DEF Lead
    <3> QED BY <1>1, <2>2, <3>1, <3>2
  <2>5. GateAt(new, n + 1, s, c, n + 1)
    <3>1. new.pending # <<>> /\ c < n + 1 /\ n + 1 \in Nat /\ c \in 0..(n + 1) /\ n + 1 \in 0..(n + 1)
      BY <1>1, <2>2
    <3>2. \A i \in 1..Len(s) : s[i] \in 1..(n + 1)
      BY <1>1
    <3> QED BY <1>1, <1>5, <2>2, <2>4, <3>1, <3>2 DEF GateAt
  <2>6. Closed(g, new, n + 1, c) = c /\ Begun(g, new, n + 1, b) = n + 1
    BY <1>1, <1>2, <2>2 DEF Closed, Begun
  <2> QED BY <2>3, <2>5, <2>6, FedIs
<1> QED BY <1>6, <1>7

LEMMA EndKeeps ==
  ASSUME NEW g, NEW n, NEW s, NEW c, NEW b, GateAt(g, n, s, c, b), NEW h, Verdict(g, h, "end")
  PROVE  FedTo(g, OnEnd(h, n + 1), n, s, c, b)
<1>1. /\ n \in Nat /\ c \in 0..n /\ b \in 0..n /\ g \in GateType /\ s \in Seq(Nat)
      /\ Rises(s) /\ \A i \in 1..Len(s) : s[i] \in 1..n
      /\ g.open \/ g.pending # <<>>
  BY DEF GateAt, Verdict
<1>2. /\ h \in GateType /\ h.knobs = g.knobs /\ h.open = g.open /\ h.ring = g.ring /\ h.pending = g.pending
      /\ h.vad.triggered = FALSE /\ g.vad.triggered = TRUE
  BY <1>1 DEF Verdict, GateType
<1>3. \A i \in 1..Len(s) : s[i] \in 1..(n + 1) /\ s[i] <= n + 1
  BY <1>1
<1>4. s \o <<>> = s
  BY <1>1, HoldsIt
<1>5. n + 1 \in Nat /\ c \in 0..(n + 1) /\ b \in 0..(n + 1) /\ n + 1 \in 0..(n + 1)
  BY <1>1
<1>6. CASE g.pending # <<>>
  <2>1. /\ ~g.open /\ c < b /\ Runs(g.pending, b, n) /\ Runs(g.ring, Lead(g, b - 1, c), b - 1)
        /\ \A i \in 1..Len(s) : s[i] <= c
    BY <1>6 DEF GateAt
  <2>2. PICK t : t = Append(g.pending, n + 1)
    OBVIOUS
  <2>3. Runs(t, (b - 1) + 1, n + 1)
    <3>1. (b - 1) + 1 = b
      BY <1>1
    <3> QED BY <1>1, <2>1, <2>2, <3>1, RunsAppend
  <2>4. Lead(h, b - 1, c) = Lead(g, b - 1, c)
    BY <1>2 DEF Lead
  <2>5. PICK parked : parked = Parked(h, t)
    OBVIOUS
  <2>6. /\ parked \in GateType /\ Runs(parked.ring, Lead(h, n + 1, c), n + 1)
        /\ parked.knobs = g.knobs /\ parked.open = g.open /\ parked.vad = h.vad
    <3>1. b - 1 \in Nat /\ c \in 0..(b - 1) /\ b - 1 <= n + 1
      BY <1>1, <2>1
    <3> QED BY <1>2, <1>5, <2>1, <2>3, <2>4, <2>5, <3>1, ParkedRuns
  <2>7. PICK new : new = [parked EXCEPT !.pending = <<>>]
    OBVIOUS
  <2>8. /\ new \in GateType /\ new.open = FALSE /\ new.pending = <<>> /\ new.ring = parked.ring
        /\ new.knobs = g.knobs /\ new.vad.triggered = FALSE
    <3>1. parked \in GateType /\ <<>> \in Seq(Nat)
      BY <2>6
    <3>2. /\ new \in GateType /\ new.open = parked.open /\ new.pending = <<>> /\ new.ring = parked.ring
          /\ new.knobs = parked.knobs /\ new.vad = parked.vad
      BY <2>7, <3>1 DEF GateType
    <3> QED BY <1>2, <2>1, <2>6, <3>2 DEF GateType
  <2>9. OnEnd(h, n + 1) = [gate |-> new, out |-> <<>>]
    BY <1>2, <1>6, <2>2, <2>5, <2>7 DEF OnEnd, Held
  <2>10. Runs(new.ring, Lead(new, n + 1, c), n + 1)
    <3>1. Lead(new, n + 1, c) = Lead(h, n + 1, c)
      BY <1>2, <2>8 DEF Lead
    <3> QED BY <2>6, <2>8, <3>1
  <2>11. GateAt(new, n + 1, s, c, b)
    BY <1>1, <1>3, <1>5, <2>1, <2>8, <2>10 DEF GateAt
  <2>12. Closed(g, new, n + 1, c) = c /\ Begun(g, new, n + 1, b) = b
    BY <2>1, <2>8 DEF Closed, Begun
  <2> QED BY <1>4, <2>9, <2>11, <2>12, FedIs
<1>7. CASE g.pending = <<>>
  <2>1. g.open /\ g.ring = <<>>
    BY <1>1, <1>7 DEF GateAt
  <2>2. PICK new : new = [h EXCEPT !.open = FALSE]
    OBVIOUS
  <2>3. /\ new \in GateType /\ new.open = FALSE /\ new.pending = <<>> /\ new.ring = <<>>
        /\ new.knobs = g.knobs /\ new.vad.triggered = FALSE
    BY <1>2, <1>7, <2>1, <2>2 DEF GateType
  <2>4. OnEnd(h, n + 1) = [gate |-> new, out |-> <<>>]
    BY <1>2, <1>7, <2>1, <2>2 DEF OnEnd, Held
  <2>5. Runs(new.ring, Lead(new, n + 1, n + 1), n + 1)
    <3>1. PICK p \in Nat : p = new.knobs.preRoll
      BY <2>3 DEF GateType, Knobs
    <3>2. Lead(new, n + 1, n + 1) = (n + 1) - (IF p <= (n + 1) - (n + 1) THEN p ELSE (n + 1) - (n + 1)) + 1
      BY <3>1 DEF Lead, MinOf
    <3>3. Lead(new, n + 1, n + 1) = n + 2 /\ n + 2 \in Int /\ (n + 2) - 1 = n + 1
      BY <1>1, <3>1, <3>2
    <3> QED BY <2>3, <3>3, RunsNone
  <2>6. GateAt(new, n + 1, s, n + 1, b)
    BY <1>1, <1>3, <1>5, <2>3, <2>5 DEF GateAt
  <2>7. Closed(g, new, n + 1, c) = n + 1 /\ Begun(g, new, n + 1, b) = b
    BY <2>1, <2>3 DEF Closed, Begun
  <2> QED BY <1>4, <2>4, <2>6, <2>7, FedIs
<1> QED BY <1>6, <1>7

LEMMA NothingKeeps ==
  ASSUME NEW g, NEW n, NEW s, NEW c, NEW b, GateAt(g, n, s, c, b), NEW h, Verdict(g, h, "none")
  PROVE  FedTo(g, OnNothing(h, n + 1), n, s, c, b)
<1>1. /\ n \in Nat /\ c \in 0..n /\ b \in 0..n /\ g \in GateType /\ s \in Seq(Nat)
      /\ Rises(s) /\ \A i \in 1..Len(s) : s[i] \in 1..n
      /\ g.vad.triggered <=> g.open \/ g.pending # <<>>
  BY DEF GateAt
<1>2. /\ h \in GateType /\ h.knobs = g.knobs /\ h.open = g.open /\ h.ring = g.ring /\ h.pending = g.pending
      /\ h.vad.triggered = g.vad.triggered
  BY DEF Verdict
<1>3. \A i \in 1..Len(s) : s[i] \in 1..(n + 1)
  BY <1>1
<1>4. s \o <<>> = s
  BY <1>1, HoldsIt
<1>5. n + 1 \in Nat /\ c \in 0..(n + 1) /\ b \in 0..(n + 1) /\ n <= n + 1
  BY <1>1
<1>6. Runs(<<n + 1>>, n + 1, n + 1)
  BY <1>1, RunsOne
<1>7. CASE g.open
  <2>1. g.pending = <<>> /\ g.ring = <<>> /\ Reaches(g, n, s, c, b)
    BY <1>7 DEF GateAt
  <2>2. OnNothing(h, n + 1) = [gate |-> h, out |-> <<n + 1>>]
    BY <1>2, <1>7 DEF OnNothing
  <2>3. PICK t : t = s \o <<n + 1>>
    OBVIOUS
  <2>4. /\ t \in Seq(Nat) /\ Rises(t) /\ \A i \in 1..Len(t) : t[i] \in 1..(n + 1)
        /\ \A f \in (n + 1)..(n + 1) : Has(t, f)
        /\ \A i \in 1..Len(s) : i \in 1..Len(t) /\ t[i] = s[i]
    <3>1. PICK m \in Nat : m = n + 1
      BY <1>1
    <3>2. n <= m /\ 1 <= m /\ m <= m + 1 /\ Runs(<<m>>, m, m)
      BY <1>1, <1>6, <3>1
    <3>3. \A i \in 1..Len(s) : s[i] \in 1..n /\ s[i] < m
      BY <1>1, <3>1
    <3>4. n \in Nat /\ s \in Seq(Nat) /\ Rises(s)
      BY <1>1
    <3>5. t = s \o <<m>>
      BY <2>3, <3>1
    <3>6. t \in Seq(Nat) /\ Rises(t)
      BY <3>2, <3>3, <3>4, <3>5, LetThrough
    <3>7. \A i \in 1..Len(t) : t[i] \in 1..m
      BY <3>2, <3>3, <3>4, <3>5, LetThrough
    <3>8. \A f \in m..m : Has(t, f)
      BY <3>2, <3>3, <3>4, <3>5, LetThrough
    <3>9. \A i \in 1..Len(s) : i \in 1..Len(t) /\ t[i] = s[i]
      BY <3>2, <3>3, <3>4, <3>5, LetThrough
    <3> QED BY <3>1, <3>6, <3>7, <3>8, <3>9
  <2>5. Reaches(h, n + 1, t, c, b)
    <3> SUFFICES ASSUME NEW f \in 1..(n + 1), f > c, f >= b - g.knobs.preRoll
                 PROVE  Has(t, f)
      BY <1>2 DEF Reaches
    <3>1. CASE f = n + 1
      <4>1. f \in (n + 1)..(n + 1)
        BY <1>1, <3>1
      <4> QED BY <2>4, <4>1
    <3>2. CASE f # n + 1
      <4>1. f \in 1..n
        BY <1>1, <3>2
      <4>2. PICK i \in 1..Len(s) : s[i] = f
        BY <2>1, <4>1 DEF Reaches, Has
      <4>3. i \in 1..Len(t) /\ t[i] = f
        BY <2>4, <4>2
      <4> QED BY <4>3 DEF Has
    <3> QED BY <3>1, <3>2
  <2>6. GateAt(h, n + 1, t, c, b)
    BY <1>1, <1>2, <1>5, <1>7, <2>1, <2>4, <2>5 DEF GateAt
  <2>7. Closed(g, h, n + 1, c) = c /\ Begun(g, h, n + 1, b) = b
    BY <1>2 DEF Closed, Begun
  <2> QED BY <2>2, <2>3, <2>6, <2>7, FedIs
<1>8. CASE ~g.open /\ g.pending # <<>>
  <2>1. /\ c < b /\ Runs(g.pending, b, n) /\ Runs(g.ring, Lead(g, b - 1, c), b - 1)
        /\ \A i \in 1..Len(s) : s[i] <= c
    BY <1>8 DEF GateAt
  <2>2. PICK held : held = Append(g.pending, n + 1)
    OBVIOUS
  <2>3. Runs(held, b, n + 1)
    BY <1>1, <2>1, <2>2, RunsAppend
  <2>4. CASE Len(h.pending) + 1 >= h.knobs.minSpeech
    <3>1. PICK lead \in Nat : lead = Lead(g, b - 1, c)
      BY <1>1, <2>1, LeadIs
    <3>2. /\ lead > c /\ lead <= b
          /\ \A x \in Nat : x > c /\ x >= b - g.knobs.preRoll => x >= lead
      <4>1. b - 1 \in Nat /\ c \in 0..(b - 1) /\ (b - 1) + 1 = b
        BY <1>1, <2>1
      <4>2. PICK f \in Nat : f = b - 1 /\ f + 1 = b
        BY <4>1
      <4>3. lead = Lead(g, f, c) /\ c \in 0..f
        BY <3>1, <4>1, <4>2
      <4>4. lead > c /\ lead <= f + 1 /\ \A x \in Nat : x > c /\ x >= f + 1 - g.knobs.preRoll => x >= lead
        BY <1>1, <4>3, LeadIs
      <4>5. f + 1 = b
        BY <4>2
      <4>6. lead <= b /\ \A x \in Nat : x > c /\ x >= b - g.knobs.preRoll => x >= lead
        <5>1. PICK p \in Nat : p = g.knobs.preRoll
          BY <1>1 DEF GateType, Knobs
        <5>2. lead <= f + 1 /\ \A x \in Nat : x > c /\ x >= f + 1 - p => x >= lead
          BY <4>4, <5>1
        <5> QED BY <1>1, <4>2, <5>1, <5>2
      <4> QED BY <4>4, <4>6
    <3>3. PICK out : out = h.ring \o held
      OBVIOUS
    <3>4. Runs(out, lead, n + 1)
      <4>1. b - 1 \in Int /\ (b - 1) + 1 = b /\ n + 1 \in Int /\ lead \in Int
        BY <1>1
      <4>2. Runs(h.ring, lead, b - 1) /\ Runs(held, (b - 1) + 1, n + 1)
        BY <1>2, <2>1, <2>3, <3>1, <4>1
      <4> QED BY <3>3, <4>1, <4>2, RunsOn
    <3>5. PICK t : t = s \o out
      OBVIOUS
    <3>6. /\ t \in Seq(Nat) /\ Rises(t) /\ \A i \in 1..Len(t) : t[i] \in 1..(n + 1)
          /\ \A f \in lead..(n + 1) : Has(t, f)
      <4>1. PICK m \in Nat : m = n + 1
        BY <1>1
      <4>2. n <= m /\ 1 <= lead /\ lead <= m + 1 /\ Runs(out, lead, m)
        BY <1>1, <3>2, <3>4, <4>1
      <4>3. \A i \in 1..Len(s) : s[i] \in 1..n /\ s[i] < lead
        BY <1>1, <2>1, <3>2
      <4>4. n \in Nat /\ s \in Seq(Nat) /\ Rises(s)
        BY <1>1
      <4>5. t \in Seq(Nat) /\ Rises(t)
        BY <4>2, <4>3, <4>4, <3>5, LetThrough
      <4>6. \A i \in 1..Len(t) : t[i] \in 1..m
        BY <4>2, <4>3, <4>4, <3>5, LetThrough
      <4>7. \A f \in lead..m : Has(t, f)
        BY <4>2, <4>3, <4>4, <3>5, LetThrough
      <4> QED BY <4>1, <4>5, <4>6, <4>7
    <3>7. PICK new : new = [h EXCEPT !.open = TRUE, !.ring = <<>>, !.pending = <<>>]
      OBVIOUS
    <3>8. /\ new \in GateType /\ new.open = TRUE /\ new.ring = <<>> /\ new.pending = <<>>
          /\ new.knobs = g.knobs /\ new.vad = h.vad
      <4>1. h \in GateType /\ <<>> \in Seq(Nat)
        BY <1>2
      <4>2. /\ new \in GateType /\ new.open = TRUE /\ new.ring = <<>> /\ new.pending = <<>>
            /\ new.knobs = h.knobs /\ new.vad = h.vad
        BY <3>7, <4>1 DEF GateType
      <4> QED BY <1>2, <4>2
    <3>9. OnNothing(h, n + 1) = [gate |-> new, out |-> out]
      <4>1. h.open = FALSE /\ h.pending # <<>> /\ Append(h.pending, n + 1) = held
        BY <1>2, <1>8, <2>2
      <4> QED BY <2>4, <3>3, <3>7, <4>1 DEF OnNothing, Release
    <3>10. Reaches(new, n + 1, t, c, b)
      <4> SUFFICES ASSUME NEW f \in 1..(n + 1), f > c, f >= b - g.knobs.preRoll
                   PROVE  Has(t, f)
        BY <3>8 DEF Reaches
      <4>1. f \in Nat
        OBVIOUS
      <4>2. f >= lead
        BY <3>2, <4>1
      <4>3. f \in lead..(n + 1)
        BY <1>1, <4>1, <4>2
      <4> QED BY <3>6, <4>3
    <3>11. new.vad.triggered
      BY <1>1, <1>2, <1>8, <3>8
    <3>12. GateAt(new, n + 1, t, c, b)
      BY <1>5, <3>6, <3>8, <3>10, <3>11 DEF GateAt
    <3>13. Closed(g, new, n + 1, c) = c /\ Begun(g, new, n + 1, b) = b
      BY <1>2, <1>8, <3>8 DEF Closed, Begun
    <3> QED BY <3>5, <3>9, <3>12, <3>13, FedIs
  <2>5. CASE ~(Len(h.pending) + 1 >= h.knobs.minSpeech)
    <3>1. PICK new : new = [h EXCEPT !.pending = held]
      OBVIOUS
    <3>2. held \in Seq(Nat) /\ held # <<>>
      <4>1. held \in Seq(Nat) /\ Len(held) = (n + 1) - b + 1
        BY <2>3 DEF Runs
      <4> QED BY <4>1, <1>1
    <3>3. /\ new \in GateType /\ new.open = FALSE /\ new.ring = g.ring /\ new.pending = held
          /\ new.knobs = g.knobs /\ new.vad = h.vad
      BY <1>2, <1>8, <3>1, <3>2 DEF GateType
    <3>4. OnNothing(h, n + 1) = [gate |-> new, out |-> <<>>]
      <4>1. h.open = FALSE /\ h.pending # <<>> /\ Append(h.pending, n + 1) = held
        BY <1>2, <1>8, <2>2
      <4>2. [h EXCEPT !.pending = Append(@, n + 1)] = new
        BY <3>1, <4>1
      <4> QED BY <2>5, <4>1, <4>2 DEF OnNothing, Held
    <3>5. Runs(new.ring, Lead(new, b - 1, c), b - 1)
      BY <2>1, <3>3 DEF Lead
    <3>6. new.vad.triggered
      BY <1>1, <1>2, <1>8, <3>3
    <3>7. GateAt(new, n + 1, s, c, b)
      BY <1>1, <1>3, <1>5, <2>1, <2>3, <3>2, <3>3, <3>5, <3>6 DEF GateAt
    <3>8. Closed(g, new, n + 1, c) = c /\ Begun(g, new, n + 1, b) = b
      BY <1>2, <1>8, <3>3 DEF Closed, Begun
    <3> QED BY <1>4, <3>4, <3>7, <3>8, FedIs
  <2> QED BY <2>4, <2>5
<1>9. CASE ~g.open /\ g.pending = <<>>
  <2>1. Runs(g.ring, Lead(g, n, c), n) /\ \A i \in 1..Len(s) : s[i] <= c
    BY <1>9 DEF GateAt
  <2>2. PICK new : new = Parked(h, <<n + 1>>)
    OBVIOUS
  <2>3. /\ new \in GateType /\ Runs(new.ring, Lead(h, n + 1, c), n + 1)
        /\ new.knobs = g.knobs /\ new.open = g.open /\ new.vad = h.vad /\ new.pending = <<>>
    <3>1. Lead(h, n, c) = Lead(g, n, c)
      BY <1>2 DEF Lead
    <3>2. Runs(h.ring, Lead(h, n, c), n)
      BY <1>2, <2>1, <3>1
    <3> QED BY <1>1, <1>2, <1>5, <1>6, <1>9, <2>2, <3>2, ParkedRuns
  <2>4. OnNothing(h, n + 1) = [gate |-> new, out |-> <<>>]
    BY <1>2, <1>9, <2>2 DEF OnNothing, Held
  <2>5. Runs(new.ring, Lead(new, n + 1, c), n + 1)
    <3>1. Lead(new, n + 1, c) = Lead(h, n + 1, c)
      BY <1>2, <2>3 DEF Lead
    <3> QED BY <2>3, <3>1
  <2>6. ~new.vad.triggered
    BY <1>1, <1>2, <1>9, <2>3
  <2>7. GateAt(new, n + 1, s, c, b)
    BY <1>1, <1>3, <1>5, <1>9, <2>1, <2>3, <2>5, <2>6 DEF GateAt
  <2>8. Closed(g, new, n + 1, c) = c /\ Begun(g, new, n + 1, b) = b
    BY <1>2, <1>9, <2>3 DEF Closed, Begun
  <2> QED BY <1>4, <2>4, <2>7, <2>8, FedIs
<1> QED BY <1>7, <1>8, <1>9

LEMMA FeedKeeps ==
  ASSUME NEW g, NEW n, NEW s, NEW c, NEW b, GateAt(g, n, s, c, b), NEW loud
  PROVE  FedTo(g, Feed(g, n + 1, loud), n, s, c, b)
<1>1. PICK h, event : h = Sampled(g, loud).gate /\ event = Sampled(g, loud).event
  OBVIOUS
<1>2. g \in GateType /\ (g.vad.triggered <=> g.open \/ g.pending # <<>>)
  BY DEF GateAt
<1>3. Verdict(g, h, event) /\ event \in {"start", "end", "none"}
  BY <1>1, <1>2, SampledIs DEF Verdict
<1>4. CASE event = "start"
  <2>1. ~g.open /\ g.pending = <<>>
    BY <1>2, <1>3, <1>4 DEF Verdict
  <2>2. Feed(g, n + 1, loud) = OnStart(h, n + 1)
    BY <1>1, <1>4, <2>1 DEF Feed
  <2> QED BY <1>3, <1>4, <2>2, StartKeeps
<1>5. CASE event = "end"
  <2>1. Feed(g, n + 1, loud) = OnEnd(h, n + 1)
    BY <1>1, <1>5 DEF Feed
  <2> QED BY <1>3, <1>5, <2>1, EndKeeps
<1>6. CASE event = "none"
  <2>1. Feed(g, n + 1, loud) = OnNothing(h, n + 1)
    BY <1>1, <1>6 DEF Feed
  <2> QED BY <1>3, <1>6, <2>1, NothingKeeps
<1> QED BY <1>3, <1>4, <1>5, <1>6

GateInv == begun \in [closed : Nat, start : Nat] /\ GateAt(gate, fed, sent, begun.closed, begun.start)

LEMMA InitGate == Init => GateInv
<1> SUFFICES ASSUME Init PROVE GateInv
  OBVIOUS
<1>1. PICK knobs \in Gates : gate = FreshGate(knobs)
  BY DEF Init
<1>2. knobs \in Knobs
  BY CaptionsAssumption
<1>3. /\ gate \in GateType /\ gate.open = FALSE /\ gate.ring = <<>> /\ gate.pending = <<>>
      /\ gate.vad.triggered = FALSE /\ gate.knobs = knobs
  BY <1>1, <1>2 DEF FreshGate, FreshVad, GateType
<1>4. fed = 0 /\ sent = <<>> /\ begun = [closed |-> 0, start |-> 0]
  BY DEF Init
<1>5. begun.closed = 0 /\ begun.start = 0
  BY <1>4
<1>6. Runs(<<>>, Lead(gate, 0, 0), 0)
  <2>1. PICK p \in Nat : p = gate.knobs.preRoll
    BY <1>2, <1>3 DEF Knobs
  <2>2. Lead(gate, 0, 0) = 0 - (IF p <= 0 - 0 THEN p ELSE 0 - 0) + 1
    BY <2>1 DEF Lead, MinOf
  <2>3. Lead(gate, 0, 0) = 1 /\ 1 - 1 = 0
    BY <2>1, <2>2
  <2>4. Runs(<<>>, 1, 1 - 1)
    BY RunsNone
  <2> QED BY <2>3, <2>4
<1>7. GateAt(gate, 0, <<>>, 0, 0)
  BY <1>3, <1>6 DEF GateAt, Rises
<1> QED BY <1>4, <1>5, <1>7 DEF GateInv

LEMMA StepGate == GateInv /\ [Next]_vars => GateInv'
<1> SUFFICES ASSUME GateInv, [Next]_vars PROVE GateInv'
  OBVIOUS
<1>1. CASE UNCHANGED <<gate, fed, sent, begun>>
  BY <1>1 DEF GateInv
<1>2. ASSUME NEW loud \in Loudness, FeedFrame(loud) PROVE GateInv'
  <2>1. PICK step : step = Feed(gate, fed + 1, loud)
    OBVIOUS
  <2>2. FedTo(gate, step, fed, sent, begun.closed, begun.start)
    BY <2>1, FeedKeeps DEF GateInv
  <2>3. /\ fed' = fed + 1 /\ gate' = step.gate /\ sent' = sent \o step.out
        /\ begun' = [closed |-> IF gate.open /\ ~step.gate.open THEN fed + 1 ELSE begun.closed,
                     start |-> IF step.gate.vad.triggered /\ ~gate.vad.triggered THEN fed + 1 ELSE begun.start]
    BY <1>2, <2>1 DEF FeedFrame
  <2>4. /\ begun'.closed = Closed(gate, step.gate, fed + 1, begun.closed)
        /\ begun'.start = Begun(gate, step.gate, fed + 1, begun.start)
    BY <2>3 DEF Closed, Begun
  <2>5. GateAt(gate', fed', sent', begun'.closed, begun'.start)
    BY <2>2, <2>3, <2>4 DEF FedTo
  <2>6. begun' \in [closed : Nat, start : Nat]
    <3>1. fed + 1 \in Nat
      BY DEF GateInv, GateAt
    <3> QED BY <2>3, <3>1 DEF GateInv
  <2> QED BY <2>5, <2>6 DEF GateInv
<1> QED BY <1>1, <1>2 DEF Next, vars, StartClose, DrainTimeout, FinishClose, LinkBreaks, ReadAnswer,
          ConsumerEnds, Serve, ServeAbruptEnd, WlkAnswers, Done

LEMMA GateFollows == GateInv => GateMissesNothing
<1> SUFFICES ASSUME GateInv PROVE GateMissesNothing
  OBVIOUS
<1>1. /\ sent \in Seq(Nat) /\ Rises(sent) /\ Len(sent) \in Nat
      /\ gate.open => Reaches(gate, fed, sent, begun.closed, begun.start)
  BY DEF GateInv, GateAt
<1>2. Increasing(sent)
  <2> SUFFICES ASSUME NEW i \in 1 .. Len(sent) - 1 PROVE sent[i] < sent[i + 1]
    BY DEF Increasing
  <2>1. i \in 1..Len(sent) /\ i + 1 \in 1..Len(sent) /\ i < i + 1
    BY <1>1
  <2> QED BY <1>1, <2>1 DEF Rises
<1>3. DOMAIN sent = 1..Len(sent)
  BY <1>1
<1> QED BY <1>1, <1>2, <1>3 DEF GateMissesNothing, Reaches, Has

(* GateMissesNothing: every frame leaves the gate at most once and in      *)
(* order, and an open gate has let through all of the utterance, the       *)
(* pre-roll included (SpeechGate.feed).                                    *)
THEOREM GateLetsAllThrough == Spec => []GateMissesNothing
BY InitGate, StepGate, GateFollows, PTL DEF Spec

(***************************************************************************)
(* The window.  s is all that was sent to the engine: the buffer is the    *)
(* end of what the engine has had of it.                                   *)
(***************************************************************************)
Word == Nat \X BOOLEAN

WindowType ==
  [buffer : Seq(Nat), elapsed : Nat, refreshedAt : Nat, start : Nat, line : BOOLEAN,
   words : Seq(Word), count : Nat, last : Seq(Word), stitch : Seq(Word), volatile : Seq(Word)]

(* A set of numbers with a bound has a largest.                            *)
LEMMA LargestOf ==
  ASSUME NEW n \in Nat, NEW S \in SUBSET (0..n), S # {}
  PROVE  \E k \in S : \A j \in S : j <= k
<1> DEFINE N == {m \in Nat : \A T \in SUBSET (0..m) : T # {} => \E k \in T : \A j \in T : j <= k}
<1>1. 0 \in N
  <2>1. ASSUME NEW T \in SUBSET (0..0), T # {} PROVE \E k \in T : \A j \in T : j <= k
    <3>0. \A j \in T : j = 0
      OBVIOUS
    <3>1. 0 \in T /\ \A j \in T : j = 0
      BY <2>1, <3>0
    <3> QED BY <3>1
  <2> QED BY <2>1
<1>2. ASSUME NEW m \in Nat, m \in N PROVE m + 1 \in N
  <2>1. ASSUME NEW T \in SUBSET (0..(m + 1)), T # {} PROVE \E k \in T : \A j \in T : j <= k
    <3>1. CASE m + 1 \in T
      <4>1. \A j \in T : j <= m + 1
        OBVIOUS
      <4> QED BY <3>1, <4>1
    <3>2. CASE m + 1 \notin T
      <4>1. T \in SUBSET (0..m)
        BY <3>2
      <4> QED BY <1>2, <2>1, <4>1
    <3> QED BY <3>1, <3>2
  <2>2. m + 1 \in Nat
    OBVIOUS
  <2> QED BY <2>1, <2>2
<1>3. n \in N
  <2> HIDE DEF N
  <2> QED BY <1>1, <1>2, NatInd
<1> QED BY <1>3

LEMMA FromIs ==
  ASSUME NEW S, NEW s \in Seq(S), NEW k \in Nat
  PROVE  /\ From(s, k) \in Seq(S)
         /\ Len(From(s, k)) = IF k <= Len(s) THEN Len(s) - k ELSE 0
         /\ \A i \in 1..Len(From(s, k)) : i + k \in 1..Len(s) /\ From(s, k)[i] = s[i + k]
BY DEF From

(* The words a decode is cut by: the longest prefix that ends the window   *)
(* before.                                                                 *)
LEMMA StripIs ==
  ASSUME NEW S, NEW words \in Seq(S), NEW stitch \in Seq(S)
  PROVE  \E k \in 0 .. MinOf(Len(words), Len(stitch)) :
           /\ SubSeq(words, 1, k) = Tail2(stitch, k)
           /\ \A j \in 0 .. MinOf(Len(words), Len(stitch)) : SubSeq(words, 1, j) = Tail2(stitch, j) => j <= k
           /\ StripOverlapPrefix(words, stitch) = From(words, k)
<1> DEFINE m == MinOf(Len(words), Len(stitch))
           matching == {k \in 0 .. m : SubSeq(words, 1, k) = Tail2(stitch, k)}
           top == CHOOSE k \in matching : \A j \in matching : j <= k
<1>1. Len(words) \in Nat /\ Len(stitch) \in Nat /\ m \in Nat
  BY DEF MinOf
<1>2. 0 \in matching
  <2>1. SubSeq(words, 1, 0) = <<>> /\ Tail2(stitch, 0) = <<>>
    BY <1>1 DEF Tail2
  <2>2. 0 \in 0..m
    BY <1>1
  <2> QED BY <2>1, <2>2, Zenon
<1>3. \E k \in matching : \A j \in matching : j <= k
  <2>1. matching \in SUBSET (0..m) /\ matching # {}
    BY <1>2
  <2> HIDE DEF matching, m
  <2> QED BY <1>1, <2>1, LargestOf
<1>4. top \in matching /\ \A j \in matching : j <= top
  <2> HIDE DEF matching
  <2> QED BY <1>3
<1>5. StripOverlapPrefix(words, stitch) = From(words, top)
  BY DEF StripOverlapPrefix
<1> HIDE DEF top
<1> QED BY <1>4, <1>5

LEMMA StripType ==
  ASSUME NEW words \in Seq(Word), NEW stitch \in Seq(Word)
  PROVE  StripOverlapPrefix(words, stitch) \in Seq(Word)
<1>1. Len(words) \in Nat /\ Len(stitch) \in Nat
  OBVIOUS
<1>2. PICK k \in 0 .. MinOf(Len(words), Len(stitch)) : StripOverlapPrefix(words, stitch) = From(words, k)
  BY StripIs
<1>3. k \in Nat
  BY <1>1 DEF MinOf
<1> QED BY <1>2, <1>3, FromIs

(* How far two decodes agree.                                              *)
LEMMA CommonIs ==
  ASSUME NEW a \in Seq(Word), NEW b \in Seq(Word)
  PROVE  CommonPrefixLen(a, b) \in 0..Len(b)
<1> DEFINE m == MinOf(Len(a), Len(b))
           agree == {k \in 0 .. m : SubSeq(a, 1, k) = SubSeq(b, 1, k)}
           top == CHOOSE k \in agree : \A j \in agree : j <= k
<1>1. Len(a) \in Nat /\ Len(b) \in Nat /\ m \in Nat /\ m <= Len(b)
  BY DEF MinOf
<1>2. 0 \in agree
  <2>1. SubSeq(a, 1, 0) = <<>> /\ SubSeq(b, 1, 0) = <<>>
    BY <1>1
  <2> QED BY <1>1, <2>1
<1>3. \E k \in agree : \A j \in agree : j <= k
  <2>1. agree \in SUBSET (0..m) /\ agree # {}
    BY <1>2
  <2>2. m \in Nat
    BY <1>1
  <2> HIDE DEF agree, m
  <2> QED BY <2>1, <2>2, LargestOf
<1>4. top \in agree
  <2> HIDE DEF agree
  <2> QED BY <1>3
<1>5. CommonPrefixLen(a, b) = top
  BY DEF CommonPrefixLen
<1>6. top \in 0..m
  BY <1>4
<1> HIDE DEF top, m
<1> QED BY <1>1, <1>5, <1>6

LEMMA PrefixOf ==
  ASSUME NEW S, NEW s \in Seq(S), NEW t \in Seq(S)
  PROVE  IsPrefix(s, s \o t) /\ IsPrefix(s, s)
BY DEF IsPrefix

LEMMA PrefixOn ==
  ASSUME NEW S, NEW s \in Seq(S), NEW t \in Seq(S), NEW u \in Seq(S), IsPrefix(s, t), IsPrefix(t, u)
  PROVE  IsPrefix(s, u)
<1>1. Len(s) \in Nat /\ Len(t) \in Nat /\ Len(u) \in Nat /\ Len(s) <= Len(t) /\ Len(t) <= Len(u)
  BY DEF IsPrefix
<1>2. \A i \in 1..Len(s) : s[i] = t[i]
  <2>1. SubSeq(s, 1, Len(s)) = SubSeq(t, 1, Len(s))
    BY DEF IsPrefix
  <2>2. \A i \in 1..Len(s) : SubSeq(s, 1, Len(s))[i] = s[i] /\ SubSeq(t, 1, Len(s))[i] = t[i]
    BY <1>1
  <2> QED BY <2>1, <2>2
<1>3. \A i \in 1..Len(t) : t[i] = u[i]
  <2>1. SubSeq(t, 1, Len(t)) = SubSeq(u, 1, Len(t))
    BY DEF IsPrefix
  <2>2. \A i \in 1..Len(t) : SubSeq(t, 1, Len(t))[i] = t[i] /\ SubSeq(u, 1, Len(t))[i] = u[i]
    BY <1>1
  <2> QED BY <2>1, <2>2
<1>4. \A i \in 1..Len(s) : s[i] = u[i]
  BY <1>1, <1>2, <1>3
<1>5. SubSeq(s, 1, Len(s)) = SubSeq(u, 1, Len(s))
  BY <1>1, <1>4
<1> QED BY <1>1, <1>5 DEF IsPrefix

(* What each operation makes of a window.                                  *)
LEMMA FeedPcmIs ==
  ASSUME NEW w \in WindowType, NEW f \in Nat
  PROVE  LET new == FeedPcm(w, f)
         IN  /\ new \in WindowType /\ new.buffer = Append(w.buffer, f) /\ new.elapsed = w.elapsed + 1
             /\ new.refreshedAt = w.refreshedAt /\ new.start = w.start /\ new.line = w.line
             /\ new.words = w.words /\ new.count = w.count /\ new.last = w.last
             /\ new.stitch = w.stitch /\ new.volatile = w.volatile
<1>1. PICK new : new = [w EXCEPT !.buffer = Append(@, f), !.elapsed = @ + 1]
  OBVIOUS
<1>2. Append(w.buffer, f) \in Seq(Nat) /\ w.elapsed + 1 \in Nat
  BY DEF WindowType
<1>3. FeedPcm(w, f) = new
  BY <1>1 DEF FeedPcm
<1> QED BY <1>1, <1>2, <1>3, ZenonT(30) DEF WindowType

LEMMA CommitWordsIs ==
  ASSUME NEW w \in WindowType, NEW words \in Seq(Word)
  PROVE  LET new == CommitWords(w, words)
         IN  /\ new \in WindowType /\ new.words = w.words \o From(words, w.count)
             /\ new.count = w.count + Len(From(words, w.count))
             /\ new.buffer = w.buffer /\ new.elapsed = w.elapsed /\ new.refreshedAt = w.refreshedAt
             /\ new.start = w.start /\ new.line = w.line /\ new.last = w.last
             /\ new.stitch = w.stitch /\ new.volatile = w.volatile
<1>1. PICK more : more = From(words, w.count)
  OBVIOUS
<1>2. w.count \in Nat /\ w.words \in Seq(Word)
  BY DEF WindowType
<1>3. more \in Seq(Word) /\ Len(more) \in Nat
  BY <1>1, <1>2, FromIs
<1>4. PICK new : new = [w EXCEPT !.words = @ \o more, !.count = @ + Len(more)]
  OBVIOUS
<1>5. w.words \o more \in Seq(Word) /\ w.count + Len(more) \in Nat
  BY <1>2, <1>3
<1>6. CommitWords(w, words) = new
  BY <1>1, <1>4 DEF CommitWords
<1>7. /\ new \in WindowType /\ new.words = w.words \o more
      /\ new.count = w.count + Len(more)
      /\ new.buffer = w.buffer /\ new.elapsed = w.elapsed /\ new.refreshedAt = w.refreshedAt
      /\ new.start = w.start /\ new.line = w.line /\ new.last = w.last
      /\ new.stitch = w.stitch /\ new.volatile = w.volatile
  BY <1>4, <1>5 DEF WindowType
<1> QED BY <1>1, <1>6, <1>7

(* The words w has committed are those of old, then perhaps more.          *)
LEMMA CommitsMore ==
  ASSUME NEW w \in WindowType, NEW words \in Seq(Word)
  PROVE  IsPrefix(w.words, CommitWords(w, words).words)
<1>1. w.words \in Seq(Word) /\ w.count \in Nat
  BY DEF WindowType
<1>2. From(words, w.count) \in Seq(Word)
  BY <1>1, FromIs
<1>3. CommitWords(w, words).words = w.words \o From(words, w.count)
  BY CommitWordsIs
<1> QED BY <1>1, <1>2, <1>3, PrefixOf

LEMMA RollOverIs ==
  ASSUME NEW w \in WindowType, NEW raw \in Seq(Word), NEW words \in Seq(Word),
         Len(w.buffer) = w.elapsed - w.start, w.start <= w.elapsed
  PROVE  LET new == RollOver(w, raw, words)
             keep == MinOf(Overlap, w.elapsed - w.start)
         IN  /\ new \in WindowType /\ new.words = CommitWords(w, words).words
             /\ new.buffer = Tail2(w.buffer, keep) /\ new.start = w.elapsed - keep
             /\ new.stitch = raw /\ new.count = 0 /\ new.last = <<>> /\ new.volatile = <<>>
             /\ new.elapsed = w.elapsed /\ new.refreshedAt = w.refreshedAt /\ new.line = w.line
<1>1. PICK keep : keep = MinOf(Overlap, w.elapsed - w.start)
  OBVIOUS
<1>2. /\ w.elapsed \in Nat /\ w.start \in Nat /\ w.buffer \in Seq(Nat)
      /\ keep \in Nat /\ keep <= w.elapsed - w.start /\ w.elapsed - keep \in Nat
  BY <1>1, WindowAssumption, SMTT(30) DEF WindowType, MinOf
<1>3. Tail2(w.buffer, keep) \in Seq(Nat)
  <2>1. PICK n \in Nat : n = Len(w.buffer) /\ keep <= n
    BY <1>2
  <2>2. Tail2(w.buffer, keep) = SubSeq(w.buffer, n - keep + 1, n)
    BY <2>1 DEF Tail2
  <2>3. keep \in Nat /\ w.buffer \in Seq(Nat)
    BY <1>2
  <2>4. n - keep + 1 \in 1..(n + 1)
    BY ONLY <2>1, <2>3, n \in Nat
  <2>5. SubSeq(w.buffer, n - keep + 1, n) \in Seq(Nat)
    <3>1. w.buffer \in Seq(Nat) /\ n = Len(w.buffer)
      BY <2>1, <2>3
    <3>2. PICK a \in 1..(n + 1) : a = n - keep + 1
      BY <2>4
    <3>3. SubSeq(w.buffer, a, n) \in Seq(Nat)
      BY ONLY <3>1, a \in 1..(n + 1), n \in Nat
    <3> QED BY <3>2, <3>3
  <2> QED BY <2>2, <2>5
<1>4. PICK mid : mid = CommitWords(w, words)
  OBVIOUS
<1>5. /\ mid \in WindowType /\ mid.buffer = w.buffer /\ mid.elapsed = w.elapsed
      /\ mid.refreshedAt = w.refreshedAt /\ mid.line = w.line
  BY <1>4, CommitWordsIs
<1>6. PICK new : new = [mid EXCEPT !.stitch = raw, !.buffer = Tail2(@, keep), !.start = w.elapsed - keep,
                                   !.count = 0, !.last = <<>>, !.volatile = <<>>]
  OBVIOUS
<1>7. RollOver(w, raw, words) = new
  BY <1>1, <1>4, <1>6 DEF RollOver
<1>8. /\ new \in WindowType /\ new.words = mid.words
      /\ new.buffer = Tail2(mid.buffer, keep) /\ new.start = w.elapsed - keep
      /\ new.stitch = raw /\ new.count = 0 /\ new.last = <<>> /\ new.volatile = <<>>
      /\ new.elapsed = mid.elapsed /\ new.refreshedAt = mid.refreshedAt /\ new.line = mid.line
  <2>1. <<>> \in Seq(Word) /\ Tail2(mid.buffer, keep) \in Seq(Nat)
    BY <1>3, <1>5
  <2> QED BY <1>2, <1>5, <1>6, <2>1 DEF WindowType
<1> QED BY <1>1, <1>4, <1>5, <1>7, <1>8

LEMMA AgreeIs ==
  ASSUME NEW w \in WindowType, NEW words \in Seq(Word)
  PROVE  LET new == Agree(w, words)
             agreed == CommonPrefixLen(w.last, words)
         IN  /\ new \in WindowType /\ new.last = words
             /\ IF w.last # <<>> /\ agreed > w.count
                THEN /\ new.words = CommitWords(w, SubSeq(words, 1, agreed)).words
                     /\ new.count = CommitWords(w, SubSeq(words, 1, agreed)).count
                ELSE new.words = w.words /\ new.count = w.count
             /\ new.buffer = w.buffer /\ new.elapsed = w.elapsed /\ new.refreshedAt = w.refreshedAt
             /\ new.start = w.start /\ new.line = w.line /\ new.stitch = w.stitch
<1>1. PICK agreed : agreed = CommonPrefixLen(w.last, words)
  OBVIOUS
<1>2. agreed \in 0..Len(words)
  BY <1>1, CommonIs DEF WindowType
<1>3. SubSeq(words, 1, agreed) \in Seq(Word)
  BY <1>2
<1>4. PICK now : now = IF w.last # <<>> /\ agreed > w.count
                       THEN CommitWords(w, SubSeq(words, 1, agreed)) ELSE w
  OBVIOUS
<1>5. /\ now \in WindowType /\ now.buffer = w.buffer /\ now.elapsed = w.elapsed
      /\ now.refreshedAt = w.refreshedAt /\ now.start = w.start /\ now.line = w.line /\ now.stitch = w.stitch
  <2>1. CASE w.last # <<>> /\ agreed > w.count
    <3>1. now = CommitWords(w, SubSeq(words, 1, agreed))
      BY <1>4, <2>1
    <3> QED BY <1>3, <3>1, CommitWordsIs
  <2>2. CASE ~(w.last # <<>> /\ agreed > w.count)
    BY <1>4, <2>2
  <2> QED BY <2>1, <2>2
<1>6. PICK new : new = [now EXCEPT !.volatile = From(words, now.count), !.last = words]
  OBVIOUS
<1>7. Agree(w, words) = new
  BY <1>1, <1>4, <1>6 DEF Agree
<1>8. From(words, now.count) \in Seq(Word)
  <2>1. now.count \in Nat
    BY <1>5 DEF WindowType
  <2> QED BY <2>1, FromIs
<1>9. /\ new \in WindowType /\ new.last = words /\ new.words = now.words /\ new.count = now.count
      /\ new.buffer = now.buffer /\ new.elapsed = now.elapsed /\ new.refreshedAt = now.refreshedAt
      /\ new.start = now.start /\ new.line = now.line /\ new.stitch = now.stitch
  BY <1>5, <1>6, <1>8 DEF WindowType
<1> QED BY <1>1, <1>4, <1>5, <1>7, <1>9

(* The buffer is the audio since the window's start.                       *)
Sized(w) == w.start <= w.refreshedAt /\ w.refreshedAt <= w.elapsed /\ Len(w.buffer) = w.elapsed - w.start

LEMMA RefreshKeeps ==
  ASSUME NEW w \in WindowType, NEW raw \in Seq(Word), Sized(w)
  PROVE  LET new == Refresh(w, raw)
         IN  new \in WindowType /\ Sized(new) /\ IsPrefix(w.words, new.words) /\ new.line = TRUE
             /\ new.elapsed = w.elapsed /\ new.refreshedAt = w.elapsed
<1>1. PICK words : words = StripOverlapPrefix(raw, w.stitch)
  OBVIOUS
<1>2. words \in Seq(Word)
  BY <1>1, StripType DEF WindowType
<1>3. PICK now : now = [w EXCEPT !.refreshedAt = w.elapsed, !.line = TRUE]
  OBVIOUS
<1>4. /\ now \in WindowType /\ now.buffer = w.buffer /\ now.elapsed = w.elapsed
      /\ now.refreshedAt = w.elapsed /\ now.start = w.start /\ now.line = TRUE
      /\ now.words = w.words /\ now.count = w.count /\ now.last = w.last /\ now.stitch = w.stitch
  BY <1>3 DEF WindowType
<1>5. w.start \in Nat /\ w.elapsed \in Nat /\ w.refreshedAt \in Nat /\ w.buffer \in Seq(Nat) /\ w.words \in Seq(Word)
  BY DEF WindowType
<1>6. Len(now.buffer) = now.elapsed - now.start /\ now.start <= now.elapsed
  BY <1>4, <1>5 DEF Sized
<1>7. CASE w.elapsed - w.start > Chunk
  <2>1. PICK new : new = RollOver(now, raw, words)
    OBVIOUS
  <2>2. Refresh(w, raw) = new
    BY <1>1, <1>3, <1>7, <2>1 DEF Refresh
  <2>3. PICK keep : keep = MinOf(Overlap, now.elapsed - now.start)
    OBVIOUS
  <2>4. keep \in Nat /\ keep <= w.elapsed - w.start
    BY <1>4, <1>5, <1>6, <2>3, WindowAssumption DEF MinOf
  <2>5. /\ new \in WindowType /\ new.words = CommitWords(now, words).words
        /\ new.buffer = Tail2(now.buffer, keep) /\ new.start = now.elapsed - keep
        /\ new.elapsed = now.elapsed /\ new.refreshedAt = now.refreshedAt /\ new.line = now.line
    BY <1>2, <1>4, <1>6, <2>1, <2>3, RollOverIs
  <2>6. Len(new.buffer) = keep
    <3>1. Tail2(w.buffer, keep) = SubSeq(w.buffer, Len(w.buffer) - keep + 1, Len(w.buffer))
      BY DEF Tail2
    <3>2. Len(w.buffer) \in Nat /\ keep <= Len(w.buffer)
      BY <1>4, <1>5, <1>6, <2>4
    <3>3. Len(SubSeq(w.buffer, Len(w.buffer) - keep + 1, Len(w.buffer))) = keep
      BY <1>5, <2>4, <3>2
    <3> QED BY <1>4, <2>5, <3>1, <3>3
  <2>7. Sized(new)
    BY <1>4, <1>5, <2>4, <2>5, <2>6 DEF Sized
  <2>8. IsPrefix(w.words, new.words)
    BY <1>2, <1>4, <2>5, CommitsMore
  <2> QED BY <1>4, <2>2, <2>5, <2>7, <2>8
<1>8. CASE ~(w.elapsed - w.start > Chunk)
  <2>1. PICK new : new = Agree(now, words)
    OBVIOUS
  <2>2. Refresh(w, raw) = new
    BY <1>1, <1>3, <1>8, <2>1 DEF Refresh
  <2>3. PICK agreed : agreed = CommonPrefixLen(now.last, words)
    OBVIOUS
  <2>4. /\ new \in WindowType
        /\ IF now.last # <<>> /\ agreed > now.count
           THEN new.words = CommitWords(now, SubSeq(words, 1, agreed)).words
           ELSE new.words = now.words
        /\ new.buffer = now.buffer /\ new.elapsed = now.elapsed /\ new.refreshedAt = now.refreshedAt
        /\ new.start = now.start /\ new.line = now.line
    BY <1>2, <1>4, <2>1, <2>3, AgreeIs
  <2>5. SubSeq(words, 1, agreed) \in Seq(Word)
    <3>1. agreed \in 0..Len(words)
      BY <1>2, <1>4, <2>3, CommonIs DEF WindowType
    <3> QED BY <1>2, <3>1
  <2>6. IsPrefix(w.words, new.words)
    BY <1>4, <1>5, <2>4, <2>5, CommitsMore, PrefixOf
  <2>7. Sized(new)
    BY <1>4, <1>5, <2>4 DEF Sized
  <2> QED BY <1>4, <2>2, <2>4, <2>6, <2>7
<1> QED BY <1>7, <1>8

LEMMA CommitVolatileKeeps ==
  ASSUME NEW w \in WindowType
  PROVE  LET new == CommitVolatile(w)
         IN  /\ new \in WindowType /\ IsPrefix(w.words, new.words) /\ new.line = w.line
             /\ new.volatile = <<>> /\ new.elapsed = w.elapsed /\ new.refreshedAt = w.refreshedAt
             /\ new.start = w.start /\ new.buffer = w.buffer
             /\ IF w.count < Len(w.last) THEN new.words = w.words \o From(w.last, w.count)
                ELSE new.words = w.words
<1>1. PICK mid : mid = IF w.count < Len(w.last) THEN CommitWords(w, w.last) ELSE w
  OBVIOUS
<1>2. w.words \in Seq(Word) /\ w.last \in Seq(Word) /\ w.count \in Nat /\ From(w.last, w.count) \in Seq(Word)
  BY FromIs DEF WindowType
<1>3. /\ mid \in WindowType /\ mid.line = w.line /\ mid.elapsed = w.elapsed
      /\ mid.refreshedAt = w.refreshedAt /\ mid.start = w.start /\ mid.buffer = w.buffer
      /\ IF w.count < Len(w.last) THEN mid.words = w.words \o From(w.last, w.count) ELSE mid.words = w.words
  <2>1. CASE w.count < Len(w.last)
    <3>1. mid = CommitWords(w, w.last)
      BY <1>1, <2>1
    <3> QED BY <1>2, <2>1, <3>1, CommitWordsIs
  <2>2. CASE ~(w.count < Len(w.last))
    BY <1>1, <2>2
  <2> QED BY <2>1, <2>2
<1>4. PICK new : new = [mid EXCEPT !.volatile = <<>>]
  OBVIOUS
<1>5. /\ new \in WindowType /\ new.line = mid.line /\ new.volatile = <<>> /\ new.elapsed = mid.elapsed
      /\ new.words = mid.words /\ new.refreshedAt = mid.refreshedAt /\ new.start = mid.start
      /\ new.buffer = mid.buffer
  <2>1. mid \in WindowType /\ <<>> \in Seq(Word)
    BY <1>3
  <2> QED BY <1>4, <2>1 DEF WindowType
<1>6. CommitVolatile(w) = new
  BY <1>1, <1>4 DEF CommitVolatile
<1>7. IsPrefix(w.words, new.words)
  BY <1>2, <1>3, <1>5, PrefixOf
<1> QED BY <1>3, <1>5, <1>6, <1>7

LEMMA CloseKeeps ==
  ASSUME NEW w \in WindowType, NEW raw \in Seq(Word), Sized(w)
  PROVE  LET new == CloseWindow(w, raw)
         IN  /\ new \in WindowType /\ Sized(new) /\ IsPrefix(w.words, new.words) /\ new.elapsed = w.elapsed
             /\ w.line \/ w.elapsed > w.refreshedAt => new.line
             /\ IF w.elapsed = 0 /\ ~w.line THEN new = w ELSE new.volatile = <<>>
<1>1. CASE w.elapsed = 0 /\ ~w.line
  <2>1. CloseWindow(w, raw) = w
    BY <1>1 DEF CloseWindow
  <2>2. IsPrefix(w.words, w.words)
    BY PrefixOf DEF WindowType
  <2>3. ~(w.elapsed > w.refreshedAt)
    BY <1>1 DEF WindowType
  <2> QED BY <1>1, <2>1, <2>2, <2>3
<1>2. CASE ~(w.elapsed = 0 /\ ~w.line)
  <2>1. PICK mid : mid = IF w.elapsed > w.refreshedAt THEN Refresh(w, raw) ELSE w
    OBVIOUS
  <2>2. CloseWindow(w, raw) = CommitVolatile(mid)
    BY <1>2, <2>1 DEF CloseWindow
  <2>3. /\ mid \in WindowType /\ Sized(mid) /\ IsPrefix(w.words, mid.words) /\ mid.elapsed = w.elapsed
        /\ (w.line \/ w.elapsed > w.refreshedAt => mid.line)
    <3>1. CASE w.elapsed > w.refreshedAt
      BY <2>1, <3>1, RefreshKeeps
    <3>2. CASE ~(w.elapsed > w.refreshedAt)
      BY <2>1, <3>2, PrefixOf DEF WindowType
    <3> QED BY <3>1, <3>2
  <2>4. PICK new : new = CommitVolatile(mid)
    OBVIOUS
  <2>5. /\ new \in WindowType /\ IsPrefix(mid.words, new.words) /\ new.line = mid.line
        /\ new.volatile = <<>> /\ new.elapsed = mid.elapsed /\ new.refreshedAt = mid.refreshedAt
        /\ new.start = mid.start /\ new.buffer = mid.buffer
    BY <2>3, <2>4, CommitVolatileKeeps
  <2>6. w.words \in Seq(Word) /\ mid.words \in Seq(Word) /\ new.words \in Seq(Word)
    BY <2>3, <2>5 DEF WindowType
  <2>7. IsPrefix(w.words, new.words)
    BY <2>3, <2>5, <2>6, PrefixOn
  <2>8. Sized(new)
    BY <2>3, <2>5 DEF Sized
  <2> QED BY <1>2, <2>2, <2>3, <2>4, <2>5, <2>7, <2>8
<1> QED BY <1>1, <1>2

LEMMA DecodeIs ==
  ASSUME NEW buffer \in Seq(Nat), NEW slips
  PROVE  /\ Decode(buffer, slips) \in Seq(Word) /\ Len(Decode(buffer, slips)) = Len(buffer)
         /\ \A i \in 1..Len(buffer) : Decode(buffer, slips)[i] = <<buffer[i], i \notin slips>>
<1>1. Len(buffer) \in Nat /\ DOMAIN buffer = 1..Len(buffer)
  OBVIOUS
<1>2. Decode(buffer, slips) = [i \in 1..Len(buffer) |-> <<buffer[i], i \notin slips>>]
  BY <1>1 DEF Decode
<1>3. ASSUME NEW i \in 1..Len(buffer) PROVE <<buffer[i], i \notin slips>> \in Word
  <2>1. buffer[i] \in Nat /\ (i \notin slips) \in BOOLEAN
    OBVIOUS
  <2> QED BY <2>1 DEF Word
<1> QED BY <1>1, <1>2, <1>3

(* The audio of a frame, as it leaves the gate.                            *)
LEMMA OutType ==
  ASSUME NEW g \in GateType, NEW n \in Nat, NEW loud
  PROVE  Feed(g, n, loud).out \in Seq(Nat)
<1>1. PICK h : h = Sampled(g, loud).gate /\ h \in GateType
  BY SampledIs
<1>2. h.ring \in Seq(Nat) /\ h.pending \in Seq(Nat)
  BY <1>1 DEF GateType
<1>3. <<n>> \in Seq(Nat) /\ Append(h.pending, n) \in Seq(Nat)
  BY <1>2
<1>4. h.ring \o <<n>> \in Seq(Nat) /\ h.ring \o Append(h.pending, n) \in Seq(Nat)
  BY <1>2, <1>3
<1>5. OnStart(h, n).out \in Seq(Nat)
  BY <1>4 DEF OnStart, Release, Held
<1>6. OnEnd(h, n).out \in Seq(Nat)
  BY DEF OnEnd, Held
<1>7. OnNothing(h, n).out \in Seq(Nat)
  BY <1>3, <1>4 DEF OnNothing, Release, Held
<1>8. Feed(g, n, loud) \in {OnStart(h, n), OnEnd(h, n), OnNothing(h, n)}
  BY <1>1 DEF Feed
<1> QED BY <1>5, <1>6, <1>7, <1>8

(* A window without a line has not been decoded.                           *)
Blank(w) == ~w.line => w.words = <<>> /\ w.volatile = <<>> /\ w.refreshedAt = 0

WindowInv == window \in WindowType /\ Sized(window) /\ Blank(window) /\ audio \in Seq(Nat)

LEMMA InitWindow == Init => WindowInv
<1> SUFFICES ASSUME Init PROVE WindowInv
  OBVIOUS
<1>1. window = FreshWindow /\ audio = <<>>
  BY DEF Init
<1>2. FreshWindow \in WindowType
  <2>1. <<>> \in Seq(Nat) /\ <<>> \in Seq(Word)
    OBVIOUS
  <2> QED BY <2>1 DEF FreshWindow, WindowType
<1>3. Sized(FreshWindow) /\ Blank(FreshWindow)
  BY DEF FreshWindow, Sized, Blank
<1> QED BY <1>1, <1>2, <1>3 DEF WindowInv

LEMMA FedSized ==
  ASSUME NEW w \in WindowType, NEW f \in Nat, Sized(w), Blank(w)
  PROVE  FeedPcm(w, f) \in WindowType /\ Sized(FeedPcm(w, f)) /\ Blank(FeedPcm(w, f))
<1>1. PICK new : new = FeedPcm(w, f)
  OBVIOUS
<1>2. /\ new \in WindowType /\ new.buffer = Append(w.buffer, f) /\ new.elapsed = w.elapsed + 1
      /\ new.refreshedAt = w.refreshedAt /\ new.start = w.start /\ new.line = w.line
      /\ new.words = w.words /\ new.volatile = w.volatile
  BY <1>1, FeedPcmIs
<1>3. w.buffer \in Seq(Nat) /\ w.elapsed \in Nat /\ w.refreshedAt \in Nat /\ w.start \in Nat
  BY DEF WindowType
<1>4. Len(Append(w.buffer, f)) = Len(w.buffer) + 1
  BY <1>3
<1>5. Sized(new) /\ Blank(new)
  BY <1>2, <1>3, <1>4 DEF Sized, Blank
<1> QED BY <1>1, <1>2, <1>5

(* What one message does to the window, whatever the engine hears.         *)
LEMMA ServeIs ==
  ASSUME WindowInv, Serve
  PROVE  /\ window' \in WindowType /\ Sized(window') /\ Blank(window')
         /\ IsPrefix(window.words, window'.words) /\ (window.line => window'.line)
         /\ (served' => window'.volatile = <<>>)
<1>1. window \in WindowType /\ Sized(window) /\ Blank(window) /\ audio \in Seq(Nat) /\ audio # <<>>
  BY DEF WindowInv, Serve
<1>2. Head(audio) \in Nat
  BY <1>1
<1>3. PICK heard : heard = IF Head(audio) = EndOfAudio THEN window ELSE FeedPcm(window, Head(audio))
  OBVIOUS
<1>4. heard \in WindowType /\ Sized(heard) /\ Blank(heard) /\ heard.words = window.words /\ heard.line = window.line
  BY <1>1, <1>2, <1>3, FedSized, FeedPcmIs
<1>5. PICK slips \in Misheard(heard.buffer) :
        LET words == Decode(heard.buffer, slips)
        IN  IF Head(audio) = EndOfAudio
            THEN window' = CloseWindow(heard, words) /\ served' = TRUE
            ELSE IF RefreshDue(heard) THEN window' = Refresh(heard, words) /\ ~served'
            ELSE window' = heard /\ ~served'
  BY <1>3 DEF Serve
<1>6. PICK words : words = Decode(heard.buffer, slips)
  OBVIOUS
<1>7. words \in Seq(Word)
  BY <1>4, <1>6, DecodeIs DEF WindowType
<1>8. IsPrefix(window.words, window.words)
  BY <1>1, PrefixOf DEF WindowType
<1>9. CASE Head(audio) = EndOfAudio
  <2>1. window' = CloseWindow(heard, words) /\ served' = TRUE
    BY <1>5, <1>6, <1>9
  <2>2. PICK new : new = CloseWindow(heard, words)
    OBVIOUS
  <2>3. /\ new \in WindowType /\ Sized(new) /\ IsPrefix(heard.words, new.words)
        /\ heard.line \/ heard.elapsed > heard.refreshedAt => new.line
        /\ IF heard.elapsed = 0 /\ ~heard.line THEN new = heard ELSE new.volatile = <<>>
    BY <1>4, <1>7, <2>2, CloseKeeps
  <2>4. heard.elapsed \in Nat /\ heard.refreshedAt \in Nat
    BY <1>4 DEF WindowType
  <2>6. window.line => new.line
    BY <1>4, <2>3
  <2>7. new.volatile = <<>>
    BY <1>4, <2>3 DEF Blank
  <2>5. Blank(new)
    <3>1. CASE heard.elapsed = 0 /\ ~heard.line
      BY <1>4, <2>3, <3>1
    <3>2. CASE heard.line \/ heard.elapsed # 0
      <4>1. new.line
        BY <1>4, <2>3, <2>4, <3>2 DEF Blank
      <4> QED BY <4>1 DEF Blank
    <3> QED BY <3>1, <3>2
  <2> QED BY <1>1, <1>4, <2>1, <2>2, <2>3, <2>5, <2>6, <2>7
<1>10. CASE Head(audio) # EndOfAudio /\ RefreshDue(heard)
  <2>1. window' = Refresh(heard, words) /\ ~served'
    BY <1>5, <1>6, <1>10
  <2>2. PICK new : new = Refresh(heard, words)
    OBVIOUS
  <2>3. new \in WindowType /\ Sized(new) /\ IsPrefix(heard.words, new.words) /\ new.line = TRUE
    BY <1>4, <1>7, <2>2, RefreshKeeps
  <2>4. Blank(new)
    BY <2>3 DEF Blank
  <2> QED BY <1>1, <1>4, <2>1, <2>2, <2>3, <2>4
<1>11. CASE Head(audio) # EndOfAudio /\ ~RefreshDue(heard)
  BY <1>1, <1>4, <1>5, <1>8, <1>11
<1> QED BY <1>9, <1>10, <1>11

LEMMA AbruptIs ==
  ASSUME WindowInv, ServeAbruptEnd
  PROVE  /\ window' \in WindowType /\ Sized(window') /\ Blank(window')
         /\ IsPrefix(window.words, window'.words) /\ (window.line => window'.line)
<1>1. window \in WindowType /\ Sized(window) /\ Blank(window)
  BY DEF WindowInv
<1>2. IsPrefix(window.words, window.words)
  BY <1>1, PrefixOf DEF WindowType
<1>3. PICK words : words = Decode(window.buffer, {})
  OBVIOUS
<1>4. words \in Seq(Word)
  BY <1>1, <1>3, DecodeIs DEF WindowType
<1>5. CASE window' = CloseWindow(window, words)
  <2>1. PICK new : new = CloseWindow(window, words)
    OBVIOUS
  <2>2. /\ new \in WindowType /\ Sized(new) /\ IsPrefix(window.words, new.words)
        /\ window.line \/ window.elapsed > window.refreshedAt => new.line
        /\ IF window.elapsed = 0 /\ ~window.line THEN new = window ELSE new.volatile = <<>>
    BY <1>1, <1>4, <2>1, CloseKeeps
  <2>3. window.elapsed \in Nat /\ window.refreshedAt \in Nat
    BY <1>1 DEF WindowType
  <2>4. Blank(new)
    <3>1. CASE window.elapsed = 0 /\ ~window.line
      BY <1>1, <2>2, <3>1
    <3>2. CASE window.line \/ window.elapsed # 0
      <4>1. new.line
        BY <1>1, <2>2, <2>3, <3>2 DEF Blank
      <4> QED BY <4>1 DEF Blank
    <3> QED BY <3>1, <3>2
  <2>5. window.line => new.line
    BY <2>2
  <2> QED BY <1>5, <2>1, <2>2, <2>4, <2>5
<1>6. CASE window' = window
  BY <1>1, <1>2, <1>6
<1> QED BY <1>3, <1>5, <1>6 DEF ServeAbruptEnd

LEMMA StepWindow == GateInv /\ WindowInv /\ [Next]_vars => WindowInv' /\ IsPrefix(window.words, window'.words)
<1> SUFFICES ASSUME GateInv, WindowInv, [Next]_vars
             PROVE  WindowInv' /\ IsPrefix(window.words, window'.words)
  OBVIOUS
<1>1. window \in WindowType /\ Sized(window) /\ Blank(window) /\ audio \in Seq(Nat)
  BY DEF WindowInv
<1>2. IsPrefix(window.words, window.words)
  BY <1>1, PrefixOf DEF WindowType
<1>3. CASE window' = window /\ audio' \in Seq(Nat)
  BY <1>1, <1>2, <1>3 DEF WindowInv
<1>4. ASSUME NEW loud \in Loudness, FeedFrame(loud) PROVE window' = window /\ audio' \in Seq(Nat)
  <2>1. PICK out : out = Feed(gate, fed + 1, loud).out
    OBVIOUS
  <2>2. out \in Seq(Nat)
    BY <2>1, OutType DEF GateInv, GateAt
  <2>3. audio' = (IF link = "up" THEN audio \o out ELSE audio) /\ window' = window
    BY <1>4, <2>1 DEF FeedFrame, engineVars
  <2>4. audio \o out \in Seq(Nat)
    BY <1>1, <2>2
  <2> QED BY <1>1, <2>3, <2>4
<1>5. CASE StartClose
  <2>1. EndOfAudio \in Nat
    BY DEF EndOfAudio
  <2>2. Append(audio, EndOfAudio) \in Seq(Nat)
    BY <1>1, <2>1
  <2> QED BY <1>1, <1>3, <1>5, <2>2 DEF StartClose, engineVars
<1>6. CASE FinishClose \/ LinkBreaks
  <2>1. window' = window /\ audio' = <<>>
    BY <1>6 DEF FinishClose, LinkBreaks, engineVars
  <2> QED BY <1>3, <2>1
<1>7. CASE WlkAnswers
  <2>1. window' = window /\ audio' = Tail(audio) /\ audio # <<>>
    BY <1>7 DEF WlkAnswers
  <2>2. Tail(audio) \in Seq(Nat)
    BY <1>1, <2>1
  <2> QED BY <1>3, <2>1, <2>2
<1>8. CASE Serve
  <2>1. audio' = Tail(audio) /\ audio # <<>>
    BY <1>8 DEF Serve
  <2>2. Tail(audio) \in Seq(Nat)
    BY <1>1, <2>1
  <2> QED BY <1>8, <2>1, <2>2, ServeIs DEF WindowInv
<1>9. CASE ServeAbruptEnd
  BY <1>1, <1>9, AbruptIs DEF WindowInv, ServeAbruptEnd
<1>10. CASE DrainTimeout \/ ReadAnswer \/ ConsumerEnds \/ Done \/ UNCHANGED vars
  <2>1. window' = window /\ audio' = audio
    BY <1>10 DEF DrainTimeout, ReadAnswer, ConsumerEnds, Done, vars, engineVars
  <2> QED BY <1>1, <1>3, <2>1
<1> QED BY <1>3, <1>4, <1>5, <1>6, <1>7, <1>8, <1>9, <1>10 DEF Next

(* NothingRetracted: the committed words of the in-process engine's line   *)
(* are never taken back, whatever a later decode hears (_commit_words).    *)
THEOREM CommittedStays == Spec => NothingRetracted
<1>1. GateInv /\ WindowInv /\ [Next]_vars => [IsPrefix(window.words, window'.words)]_vars
  BY StepWindow
<1> QED BY <1>1, InitGate, StepGate, InitWindow, StepWindow, PTL DEF Spec, NothingRetracted

(***************************************************************************)
(* What the window keeps of the audio, when a decode mishears the newest   *)
(* word at most.                                                           *)
(***************************************************************************)
Spells(words, f) == \E j \in 1..Len(words) : words[j][1] = f
SpellsTo(words, s, k) == \A i \in 1..k : Spells(words, s[i])

(* The words are those of the frames of s after the first so many.         *)
Hears(words, s, from) ==
  /\ from + Len(words) <= Len(s)
  /\ \A i \in 1..Len(words) : words[i][1] = s[from + i] /\ (i < Len(words) => words[i][2] = TRUE)

(* b: where the window before ended; strip: how many words of a decode the *)
(* line has from it.                                                       *)
WindowAt(w, s, b, strip) ==
  /\ b \in Nat /\ strip \in Nat /\ w.start <= b /\ b <= w.refreshedAt /\ w.elapsed <= Len(s)
  /\ \A i \in 1..Len(w.buffer) : w.buffer[i] = s[w.start + i]
  /\ w.stitch = <<>> => b = 0 /\ strip = 0
  /\ w.stitch # <<>> =>
       /\ b - w.start <= Len(w.stitch) /\ Len(w.stitch) <= b /\ Hears(w.stitch, s, b - Len(w.stitch))
       /\ strip = IF w.stitch[Len(w.stitch)][2] THEN b - w.start ELSE 0
  /\ w.last = <<>> => w.refreshedAt = b
  /\ w.last # <<>> => w.start + strip + Len(w.last) = w.refreshedAt /\ Hears(w.last, s, w.start + strip)
  /\ w.count <= Len(w.last)
  /\ SpellsTo(w.words, s, b) /\ SpellsTo(w.words, s, w.start + strip + w.count)

LEMMA SpellsMore ==
  ASSUME NEW words \in Seq(Word), NEW more \in Seq(Word), NEW s, NEW k \in Nat, SpellsTo(words, s, k)
  PROVE  SpellsTo(words \o more, s, k)
<1> SUFFICES ASSUME NEW i \in 1..k PROVE Spells(words \o more, s[i])
  BY DEF SpellsTo
<1>1. PICK j \in 1..Len(words) : words[j][1] = s[i]
  BY DEF SpellsTo, Spells
<1>2. j \in 1..Len(words \o more) /\ (words \o more)[j] = words[j]
  BY ConcatIs
<1> QED BY <1>1, <1>2 DEF Spells

(* The words after those are those of the frames after those.              *)
LEMMA SpellsOn ==
  ASSUME NEW words \in Seq(Word), NEW more \in Seq(Word), NEW s, NEW k \in Nat, SpellsTo(words, s, k),
         \A i \in 1..Len(more) : more[i][1] = s[k + i]
  PROVE  SpellsTo(words \o more, s, k + Len(more))
<1>1. Len(words) \in Nat /\ Len(more) \in Nat /\ Len(words \o more) = Len(words) + Len(more)
  BY ConcatIs
<1> SUFFICES ASSUME NEW i \in 1..(k + Len(more)) PROVE Spells(words \o more, s[i])
  BY DEF SpellsTo
<1>2. CASE i <= k
  <2>1. i \in 1..k
    BY <1>1, <1>2
  <2> QED BY <2>1, SpellsMore DEF SpellsTo
<1>3. CASE i > k
  <2>1. i - k \in 1..Len(more) /\ k + (i - k) = i
    BY <1>1, <1>3
  <2>2. /\ Len(words) + (i - k) \in 1..Len(words \o more) /\ Len(words) + (i - k) > Len(words)
        /\ (Len(words) + (i - k)) - Len(words) = i - k
    BY <1>1, <2>1
  <2>3. (words \o more)[Len(words) + (i - k)] = more[i - k]
    BY <2>2, ConcatIs
  <2>4. (words \o more)[Len(words) + (i - k)][1] = s[i]
    BY <2>1, <2>3
  <2> QED BY <2>2, <2>4 DEF Spells
<1> QED BY <1>1, <1>2, <1>3

LEMMA SpellsLess ==
  ASSUME NEW words, NEW s, NEW k \in Nat, NEW j \in Nat, j <= k, SpellsTo(words, s, k)
  PROVE  SpellsTo(words, s, j)
<1>1. \A i \in 1..j : i \in 1..k
  OBVIOUS
<1> QED BY <1>1 DEF SpellsTo

(* A frame more.                                                           *)
LEMMA FedAt ==
  ASSUME NEW w \in WindowType, Sized(w), NEW s \in Seq(Nat), NEW b, NEW strip, WindowAt(w, s, b, strip),
         w.elapsed < Len(s), NEW f \in Nat, f = s[w.elapsed + 1]
  PROVE  WindowAt(FeedPcm(w, f), s, b, strip)
<1>1. PICK new : new = FeedPcm(w, f)
  OBVIOUS
<1>2. /\ new \in WindowType /\ new.buffer = Append(w.buffer, f) /\ new.elapsed = w.elapsed + 1
      /\ new.refreshedAt = w.refreshedAt /\ new.start = w.start
      /\ new.words = w.words /\ new.count = w.count /\ new.last = w.last /\ new.stitch = w.stitch
  BY <1>1, FeedPcmIs
<1>3. w.buffer \in Seq(Nat) /\ w.elapsed \in Nat /\ w.start \in Nat /\ Len(s) \in Nat /\ Len(w.buffer) = w.elapsed - w.start
  BY DEF WindowType, Sized
<1>4. ASSUME NEW i \in 1..Len(new.buffer) PROVE new.buffer[i] = s[new.start + i]
  <2>1. CASE i <= Len(w.buffer)
    <3>1. i \in 1..Len(w.buffer) /\ new.buffer[i] = w.buffer[i]
      BY <1>2, <1>3, <2>1
    <3> QED BY <1>2, <3>1 DEF WindowAt
  <2>2. CASE i > Len(w.buffer)
    <3>1. i = Len(w.buffer) + 1 /\ new.buffer[i] = f
      BY <1>2, <1>3, <2>2
    <3>2. w.start + i = w.elapsed + 1
      BY <1>3, <3>1, SMTT(30)
    <3> QED BY <1>2, <3>1, <3>2
  <2> QED BY <2>1, <2>2, <1>2, <1>3, SMTT(30)
<1>5. new.elapsed <= Len(s)
  BY <1>2, <1>3
<1>6. WindowAt(new, s, b, strip)
  BY <1>2, <1>4, <1>5 DEF WindowAt
<1> QED BY <1>1, <1>6

(* More was sent.                                                          *)
LEMMA SentMore ==
  ASSUME NEW w \in WindowType, Sized(w), NEW s \in Seq(Nat), NEW t \in Seq(Nat), Len(s) <= Len(t),
         \A i \in 1..Len(s) : t[i] = s[i], NEW b, NEW strip, WindowAt(w, s, b, strip)
  PROVE  WindowAt(w, t, b, strip)
<1>1. /\ Len(s) \in Nat /\ Len(t) \in Nat /\ w.elapsed \in Nat /\ w.start \in Nat /\ w.refreshedAt \in Nat
      /\ w.count \in Nat /\ w.last \in Seq(Word) /\ w.stitch \in Seq(Word) /\ Len(w.last) \in Nat /\ Len(w.stitch) \in Nat
  BY DEF WindowType
<1>2. /\ b \in Nat /\ strip \in Nat /\ w.start <= b /\ b <= w.refreshedAt /\ w.elapsed <= Len(s)
      /\ w.refreshedAt <= w.elapsed /\ Len(w.buffer) = w.elapsed - w.start /\ w.count <= Len(w.last)
  BY DEF WindowAt, Sized
<1>3. ASSUME NEW words \in Seq(Word), NEW from \in Nat, Hears(words, s, from) PROVE Hears(words, t, from)
  <2>1. Len(words) \in Nat /\ from + Len(words) <= Len(s)
    BY <1>3 DEF Hears
  <2>2. \A i \in 1..Len(words) : from + i \in 1..Len(s)
    BY <1>1, <2>1
  <2>3. \A i \in 1..Len(words) : t[from + i] = s[from + i]
    BY <2>2
  <2>4. from + Len(words) <= Len(t)
    BY <1>1, <2>1
  <2> QED BY <1>3, <2>3, <2>4 DEF Hears
<1>4. ASSUME NEW k \in Nat, k <= Len(s), SpellsTo(w.words, s, k) PROVE SpellsTo(w.words, t, k)
  <2>1. \A i \in 1..k : i \in 1..Len(s)
    BY <1>1, <1>4
  <2> QED BY <1>4, <2>1 DEF SpellsTo
<1>5. SpellsTo(w.words, t, b)
  BY <1>1, <1>2, <1>4, SMTT(30) DEF WindowAt
<1>6. SpellsTo(w.words, t, w.start + strip + w.count)
  <2>1. w.start + strip <= b
    <3>1. w.stitch # <<>> => strip <= b - w.start
      BY <1>1, <1>2 DEF WindowAt
    <3>2. w.stitch = <<>> => strip = 0
      BY DEF WindowAt
    <3> QED BY <1>1, <1>2, <3>1, <3>2
  <2>2. w.start + strip + w.count <= w.refreshedAt
    <3>1. CASE w.last = <<>>
      BY <1>1, <1>2, <2>1, <3>1
    <3>2. CASE w.last # <<>>
      <4>1. w.start + strip + Len(w.last) = w.refreshedAt
        BY <3>2 DEF WindowAt
      <4> QED BY <1>1, <1>2, <4>1, SMTT(30)
    <3> QED BY <3>1, <3>2
  <2>3. w.start + strip + w.count \in Nat /\ w.start + strip + w.count <= Len(s)
    <3>1. PICK k \in Nat : k = w.start + strip + w.count
      BY <1>1, <1>2
    <3>2. k <= w.refreshedAt /\ w.refreshedAt <= w.elapsed /\ w.elapsed <= Len(s)
      BY <1>2, <2>2, <3>1
    <3>3. k <= Len(s)
      BY <1>1, <3>2
    <3> QED BY <3>1, <3>3
  <2> QED BY <1>4, <2>3 DEF WindowAt
<1>7. \A i \in 1..Len(w.buffer) : w.buffer[i] = t[w.start + i]
  <2>1. ASSUME NEW i \in 1..Len(w.buffer) PROVE w.start + i \in 1..Len(s)
    <3>1. i \in 1..(w.elapsed - w.start)
      BY <1>2
    <3>2. i \in Nat /\ 1 <= i /\ w.start + i <= w.elapsed
      BY <1>1, <3>1
    <3>3. PICK k \in Nat : k = w.start + i /\ 1 <= k /\ k <= w.elapsed
      BY <1>1, <3>2
    <3>4. k <= Len(s)
      BY <1>1, <1>2, <3>3
    <3>5. k \in 1..Len(s)
      BY <1>1, <3>3, <3>4
    <3> QED BY <3>3, <3>5
  <2> QED BY <2>1 DEF WindowAt
<1>8. w.stitch # <<>> => Hears(w.stitch, t, b - Len(w.stitch))
  <2> SUFFICES ASSUME w.stitch # <<>> PROVE Hears(w.stitch, t, b - Len(w.stitch))
    OBVIOUS
  <2>1. Hears(w.stitch, s, b - Len(w.stitch)) /\ Len(w.stitch) <= b
    BY DEF WindowAt
  <2>2. b - Len(w.stitch) \in Nat
    BY <1>1, <1>2, <2>1
  <2> QED BY <1>1, <1>3, <2>1, <2>2
<1>9. w.last # <<>> => Hears(w.last, t, w.start + strip)
  <2>1. w.start + strip \in Nat
    BY <1>1, <1>2
  <2> QED BY <1>1, <1>3, <2>1 DEF WindowAt
<1>10. w.elapsed <= Len(t)
  BY <1>1, <1>2
<1> QED BY <1>5, <1>6, <1>7, <1>8, <1>9, <1>10 DEF WindowAt

LEMMA SameWord ==
  ASSUME NEW p \in Word, NEW q \in Word, p[1] = q[1], p[2] = q[2]
  PROVE  p = q
<1>1. p = <<p[1], p[2]>> /\ q = <<q[1], q[2]>>
  BY DEF Word
<1> QED BY <1>1

(* _strip_overlap_prefix: of a decode of a window whose audio overlaps the *)
(* window before, exactly the words of the overlap are dropped, or none    *)
(* when the window before misheard its last word.                          *)
LEMMA StripAt ==
  ASSUME NEW w \in WindowType, Sized(w), NEW s \in Seq(Nat), Rises(s), NEW b, NEW strip,
         WindowAt(w, s, b, strip), NEW raw \in Seq(Word), Len(raw) = w.elapsed - w.start,
         w.elapsed > w.refreshedAt, Hears(raw, s, w.start)
  PROVE  /\ w.start + strip <= b /\ strip < Len(raw)
         /\ StripOverlapPrefix(raw, w.stitch) = From(raw, strip)
<1>1. /\ w.start \in Nat /\ w.elapsed \in Nat /\ w.refreshedAt \in Nat /\ b \in Nat /\ strip \in Nat
      /\ w.start <= b /\ b <= w.refreshedAt /\ w.elapsed <= Len(s) /\ Len(s) \in Nat
  BY DEF WindowType, WindowAt
<1>2. PICK d \in Nat : d = b - w.start
  BY <1>1
<1>3. PICK n \in Nat : n = Len(raw) /\ d < n
  BY <1>1, <1>2
<1>4. PICK stitch : stitch = w.stitch
  OBVIOUS
<1>5. stitch \in Seq(Word)
  BY <1>4 DEF WindowType
<1>6. PICK len \in Nat : len = Len(stitch)
  BY <1>5
<1>7. PICK m \in Nat : m = MinOf(Len(raw), Len(stitch)) /\ m <= n /\ m <= len /\ (d <= len => d <= m)
  BY <1>3, <1>6 DEF MinOf
<1>8. PICK k \in 0..m :
        /\ SubSeq(raw, 1, k) = Tail2(stitch, k)
        /\ \A j \in 0..m : SubSeq(raw, 1, j) = Tail2(stitch, j) => j <= k
        /\ StripOverlapPrefix(raw, stitch) = From(raw, k)
  BY <1>5, <1>7, StripIs
<1>9. CASE stitch = <<>>
  <2>1. len = 0 /\ strip = 0
    BY <1>4, <1>6, <1>9 DEF WindowAt
  <2>2. k = 0
    BY <1>7, <2>1
  <2> QED BY <1>1, <1>2, <1>3, <1>4, <1>8, <2>1, <2>2
<1>10. CASE stitch # <<>>
  <2>1. /\ d <= len /\ len <= b /\ len >= 1 /\ Hears(stitch, s, b - len)
        /\ strip = IF stitch[len][2] THEN d ELSE 0
    BY <1>2, <1>4, <1>5, <1>6, <1>10 DEF WindowAt
  <2>2. \A i \in 1..n : raw[i] \in Word /\ raw[i][1] = s[w.start + i] /\ (i < n => raw[i][2] = TRUE)
    BY <1>3 DEF Hears
  <2>3. \A i \in 1..len : /\ stitch[i] \in Word /\ stitch[i][1] = s[(b - len) + i]
                          /\ i < len => stitch[i][2] = TRUE
    BY <1>5, <1>6, <2>1 DEF Hears
  <2>4. ASSUME NEW j \in 1..m, SubSeq(raw, 1, j) = Tail2(stitch, j)
        PROVE  j = d /\ stitch[len][2] = TRUE
    <3>1. j \in 1..n /\ j \in 1..len
      BY <1>7
    <3>2. SubSeq(raw, 1, j)[j] = raw[j]
      BY <1>3, <3>1
    <3>3. Tail2(stitch, j)[j] = stitch[len]
      <4>1. Tail2(stitch, j) = SubSeq(stitch, len - j + 1, len)
        BY <1>6 DEF Tail2
      <4>2. SubSeq(stitch, len - j + 1, len)[j] = stitch[(len - j + 1) + j - 1]
        BY <1>5, <1>6, <3>1
      <4>3. (len - j + 1) + j - 1 = len
        BY <1>6, <3>1
      <4> QED BY <4>1, <4>2, <4>3
    <3>4. raw[j] = stitch[len]
      BY <2>4, <3>2, <3>3
    <3>5. len \in 1..len /\ (b - len) + len = b
      BY <1>1, <1>6, <2>1
    <3>6. s[w.start + j] = s[b]
      BY <2>2, <2>3, <3>1, <3>4, <3>5
    <3>7. w.start + j \in 1..Len(s) /\ b \in 1..Len(s)
      <4>1. j >= 1 /\ j <= w.elapsed - w.start /\ w.start + j <= w.elapsed
        BY <1>1, <1>3, <3>1
      <4>2. b >= 1 /\ b <= w.elapsed
        BY <1>1, <1>6, <2>1, w.refreshedAt <= w.elapsed DEF Sized
      <4>3. PICK x \in Nat : x = w.start + j /\ 1 <= x /\ x <= w.elapsed
        BY <1>1, <4>1
      <4>4. x <= Len(s) /\ b <= Len(s)
        BY <1>1, <4>2, <4>3, SMTT(30)
      <4> QED BY <1>1, <4>2, <4>3, <4>4
    <3>8. w.start + j = b
      <4>1. PICK x \in 1..Len(s), y \in 1..Len(s) : x = w.start + j /\ y = b
        BY <3>7
      <4>2. s[x] = s[y] /\ s[x] \in Nat
        BY <3>6, <4>1
      <4>3. ~(x < y) /\ ~(y < x)
        BY <4>2 DEF Rises
      <4> QED BY <1>1, <4>1, <4>3
    <3>9. j = d
      BY <1>1, <1>2, <3>1, <3>8
    <3>10. raw[j][2] = TRUE
      BY <1>3, <2>2, <3>1, <3>9
    <3> QED BY <3>4, <3>9, <3>10
  <2>5. CASE stitch[len][2]
    <3>1. strip = d
      BY <2>1, <2>5
    <3>2. \A i \in 1..d : raw[i] = stitch[(len - d) + i]
      <4> SUFFICES ASSUME NEW i \in 1..d PROVE raw[i] = stitch[(len - d) + i]
        OBVIOUS
      <4>1. i \in 1..n /\ i < n /\ (len - d) + i \in 1..len /\ (b - len) + ((len - d) + i) = w.start + i
        <5>1. i \in Nat /\ 1 <= i /\ i <= d
          BY <1>2
        <5>2. i < n /\ i \in 1..n
          BY <1>3, <5>1
        <5>3. (len - d) + i \in 1..len
          BY <1>2, <1>6, <2>1, <5>1
        <5>4. (b - len) + ((len - d) + i) = b - d + i /\ b - d = w.start
          <6>1. b \in Int /\ len \in Int /\ d \in Int /\ i \in Int /\ w.start \in Int /\ d = b - w.start
            BY <1>1, <1>2, <1>6, <5>1
          <6> QED BY ONLY <6>1
        <5> QED BY <5>2, <5>3, <5>4
      <4>2. PICK q \in 1..len : q = (len - d) + i
        BY <4>1
      <4>3. raw[i] \in Word /\ raw[i][1] = s[w.start + i] /\ raw[i][2] = TRUE
        BY <2>2, <4>1
      <4>4. stitch[q] \in Word /\ stitch[q][1] = s[w.start + i]
        BY <2>3, <4>1, <4>2
      <4>5. stitch[q][2] = TRUE
        <5>1. CASE q < len
          BY <2>3, <5>1
        <5>2. CASE q = len
          BY <2>5, <4>4, <5>2 DEF Word
        <5>3. q < len \/ q = len
          BY <1>6
        <5> QED BY <5>1, <5>2, <5>3
      <4>6. raw[i] = stitch[q]
        BY <4>3, <4>4, <4>5, SameWord
      <4> QED BY <4>2, <4>6
    <3>3. SubSeq(raw, 1, d) = Tail2(stitch, d)
      <4>1. Tail2(stitch, d) = SubSeq(stitch, len - d + 1, len)
        BY <1>6 DEF Tail2
      <4>2. SubSeq(raw, 1, d) \in Seq(Word) /\ Len(SubSeq(raw, 1, d)) = d
        BY <1>3
      <4>3. len - d + 1 \in 1..(len + 1)
        BY <1>6, <2>1
      <4>4. SubSeq(stitch, len - d + 1, len) \in Seq(Word) /\ Len(SubSeq(stitch, len - d + 1, len)) = d
        BY <1>5, <1>6, <4>3
      <4>5. ASSUME NEW i \in 1..d PROVE SubSeq(raw, 1, d)[i] = SubSeq(stitch, len - d + 1, len)[i]
        <5>1. SubSeq(raw, 1, d)[i] = raw[i]
          BY <1>3
        <5>2. SubSeq(stitch, len - d + 1, len)[i] = stitch[(len - d + 1) + i - 1]
          BY <1>5, <1>6, <4>3
        <5>3. (len - d + 1) + i - 1 = (len - d) + i
          BY <1>6
        <5> QED BY <3>2, <5>1, <5>2, <5>3
      <4>6. SubSeq(raw, 1, d) = SubSeq(stitch, len - d + 1, len)
        BY <4>2, <4>4, <4>5, SeqEqual
      <4> QED BY <4>1, <4>6
    <3>4. d \in 0..m
      BY <1>7, <2>1
    <3>5. d <= k
      BY <1>8, <3>3, <3>4
    <3>6. k = d
      <4>1. CASE k = 0
        BY <3>5, <4>1
      <4>2. CASE k # 0
        <5>1. k \in 1..m
          BY <1>7, <4>2
        <5> QED BY <1>8, <2>4, <5>1
      <4> QED BY <4>1, <4>2
    <3> QED BY <1>1, <1>2, <1>3, <1>4, <1>8, <3>1, <3>6
  <2>6. CASE ~stitch[len][2]
    <3>1. strip = 0
      BY <2>1, <2>6
    <3>2. k = 0
      <4>1. CASE k # 0
        <5>1. k \in 1..m
          BY <1>7, <4>1
        <5>2. stitch[len][2] = TRUE
          BY <1>8, <2>4, <5>1
        <5> QED BY <2>6, <5>2
      <4> QED BY <4>1
    <3> QED BY <1>1, <1>2, <1>3, <1>4, <1>8, <3>1, <3>2
  <2> QED BY <2>5, <2>6
<1> QED BY <1>9, <1>10

LEMMA CommitAt ==
  ASSUME NEW w \in WindowType, NEW words \in Seq(Word), NEW s, NEW base \in Nat, NEW b \in Nat,
         SpellsTo(w.words, s, b), SpellsTo(w.words, s, base + w.count), w.count <= Len(words),
         \A i \in 1..Len(words) : words[i][1] = s[base + i]
  PROVE  LET new == CommitWords(w, words)
         IN  /\ SpellsTo(new.words, s, b) /\ SpellsTo(new.words, s, base + Len(words))
             /\ new.count = Len(words)
<1>1. PICK c \in Nat, n \in Nat : c = w.count /\ n = Len(words) /\ c <= n
  BY DEF WindowType
<1>2. PICK more : more = From(words, c)
  OBVIOUS
<1>3. /\ more \in Seq(Word) /\ Len(more) = n - c
      /\ \A i \in 1..Len(more) : i + c \in 1..n /\ more[i] = words[i + c]
  BY <1>1, <1>2, FromIs
<1>4. w.words \in Seq(Word)
  BY DEF WindowType
<1>5. PICK new : new = CommitWords(w, words)
  OBVIOUS
<1>6. new.words = w.words \o more /\ new.count = c + (n - c)
  <2>1. /\ CommitWords(w, words).words = w.words \o From(words, w.count)
        /\ CommitWords(w, words).count = w.count + Len(From(words, w.count))
    BY CommitWordsIs
  <2>2. Len(more) = n - c /\ From(words, w.count) = more /\ w.count = c
    BY <1>1, <1>2, <1>3
  <2> QED BY <1>5, <2>1, <2>2
<1>7. SpellsTo(new.words, s, b)
  BY <1>3, <1>4, <1>6, SpellsMore
<1>8. \A i \in 1..Len(more) : more[i][1] = s[(base + c) + i]
  <2> TAKE i \in 1..Len(more)
  <2>1. i + c \in 1..n /\ more[i] = words[i + c]
    BY <1>3
  <2>2. more[i][1] = s[base + (i + c)]
    BY <1>1, <2>1
  <2>3. base + (i + c) = (base + c) + i
    BY <1>1, <1>3
  <2> QED BY <2>2, <2>3
<1>9. SpellsTo(w.words \o more, s, (base + c) + Len(more))
  <2>1. base + c \in Nat /\ SpellsTo(w.words, s, base + c)
    BY <1>1
  <2> QED BY <1>3, <1>4, <1>8, <2>1, SpellsOn
<1>10. (base + c) + Len(more) = base + n /\ c + (n - c) = n
  <2>1. Len(more) = n - c /\ n \in Nat /\ c \in Nat /\ base \in Nat
    BY <1>1, <1>3
  <2> QED BY ONLY <2>1
<1> QED BY <1>1, <1>5, <1>6, <1>7, <1>9, <1>10

(* _refresh keeps it.                                                      *)
LEMMA RefreshAt ==
  ASSUME NEW w \in WindowType, Sized(w), NEW s \in Seq(Nat), Rises(s), NEW b, NEW strip,
         WindowAt(w, s, b, strip), NEW raw \in Seq(Word), Len(raw) = w.elapsed - w.start,
         w.elapsed > w.refreshedAt, Hears(raw, s, w.start)
  PROVE  \E b2, strip2 : WindowAt(Refresh(w, raw), s, b2, strip2)
<1>1. /\ w.start \in Nat /\ w.elapsed \in Nat /\ w.refreshedAt \in Nat /\ w.count \in Nat
      /\ w.last \in Seq(Word) /\ Len(w.last) \in Nat /\ Len(s) \in Nat /\ w.buffer \in Seq(Nat)
  BY DEF WindowType
<1>2. /\ b \in Nat /\ strip \in Nat /\ w.start <= b /\ b <= w.refreshedAt /\ w.elapsed <= Len(s)
      /\ w.count <= Len(w.last) /\ Len(w.buffer) = w.elapsed - w.start
  BY DEF WindowAt, Sized
<1>3. PICK words : words = StripOverlapPrefix(raw, w.stitch)
  OBVIOUS
<1>4. w.start + strip <= b /\ strip < Len(raw) /\ words = From(raw, strip)
  BY <1>3, StripAt
<1>5. PICK n \in Nat : n = w.elapsed - w.start - strip /\ n > 0
  BY <1>1, <1>2, <1>4
<1>6. /\ words \in Seq(Word) /\ Len(words) = n
      /\ \A i \in 1..n : i + strip \in 1..Len(raw) /\ words[i] = raw[i + strip]
  <2>1. /\ From(raw, strip) \in Seq(Word)
        /\ Len(From(raw, strip)) = IF strip <= Len(raw) THEN Len(raw) - strip ELSE 0
        /\ \A i \in 1..Len(From(raw, strip)) : i + strip \in 1..Len(raw) /\ From(raw, strip)[i] = raw[i + strip]
    BY <1>2, FromIs
  <2>2. Len(words) = n
    BY <1>1, <1>2, <1>4, <1>5, <2>1
  <2> QED BY <1>4, <2>1, <2>2
<1>7. PICK base \in Nat : base = w.start + strip /\ base + n = w.elapsed /\ base <= b
  BY <1>1, <1>2, <1>4, <1>5, SMTT(30)
<1>8. \A i \in 1..n : words[i][1] = s[base + i] /\ (i < n => words[i][2] = TRUE)
  <2> TAKE i \in 1..n
  <2>1. i + strip \in 1..Len(raw) /\ words[i] = raw[i + strip]
    BY <1>6
  <2>2. words[i][1] = s[w.start + (i + strip)]
    BY <2>1 DEF Hears
  <2>3. w.start + (i + strip) = base + i
    BY <1>1, <1>2, <1>7, SMTT(30)
  <2>4. i < n => i + strip < Len(raw)
    BY <1>1, <1>2, <1>5
  <2> QED BY <2>1, <2>2, <2>3, <2>4 DEF Hears
<1>9. Hears(words, s, base)
  BY <1>1, <1>2, <1>6, <1>7, <1>8 DEF Hears
<1>10. PICK now : now = [w EXCEPT !.refreshedAt = w.elapsed, !.line = TRUE]
  OBVIOUS
<1>11. /\ now \in WindowType /\ now.buffer = w.buffer /\ now.elapsed = w.elapsed
       /\ now.refreshedAt = w.elapsed /\ now.start = w.start /\ now.words = w.words
       /\ now.count = w.count /\ now.last = w.last /\ now.stitch = w.stitch
  BY <1>10 DEF WindowType
<1>12. SpellsTo(now.words, s, b) /\ SpellsTo(now.words, s, base + now.count)
  <2>1. SpellsTo(w.words, s, b) /\ SpellsTo(w.words, s, w.start + strip + w.count)
    BY DEF WindowAt
  <2> QED BY <1>7, <1>11, <2>1
<1>13. now.count <= Len(words)
  <2>1. CASE w.last = <<>>
    BY <1>1, <1>2, <1>5, <1>6, <1>11, <2>1
  <2>2. CASE w.last # <<>>
    <3>1. base + Len(w.last) = w.refreshedAt
      BY <1>7, <2>2 DEF WindowAt
    <3>2. Len(w.last) < n
      BY <1>1, <1>7, <3>1
    <3> QED BY <1>1, <1>2, <1>6, <1>11, <3>2
  <2> QED BY <2>1, <2>2
<1>14. CASE w.elapsed - w.start > Chunk
  <2>1. PICK new : new = RollOver(now, raw, words)
    OBVIOUS
  <2>2. Refresh(w, raw) = new
    BY <1>3, <1>10, <1>14, <2>1 DEF Refresh
  <2>3. PICK keep \in Nat : keep = MinOf(Overlap, now.elapsed - now.start) /\ keep <= w.elapsed - w.start
    BY <1>1, <1>2, <1>11, WindowAssumption, SMTT(30) DEF MinOf
  <2>4. /\ new \in WindowType /\ new.words = CommitWords(now, words).words
        /\ new.buffer = Tail2(w.buffer, keep) /\ new.start = w.elapsed - keep
        /\ new.stitch = raw /\ new.count = 0 /\ new.last = <<>>
        /\ new.elapsed = w.elapsed /\ new.refreshedAt = w.elapsed
    <3>1. Len(now.buffer) = now.elapsed - now.start /\ now.start <= now.elapsed
      BY <1>1, <1>2, <1>11
    <3> QED BY <1>6, <1>11, <2>1, <2>3, <3>1, RollOverIs
  <2>5. SpellsTo(new.words, s, w.elapsed)
    <3>1. \A i \in 1..Len(words) : words[i][1] = s[base + i]
      BY <1>6, <1>8
    <3>2. SpellsTo(CommitWords(now, words).words, s, base + Len(words))
      BY <1>2, <1>6, <1>11, <1>12, <1>13, <3>1, CommitAt
    <3> QED BY <1>6, <1>7, <2>4, <3>2
  <2>6. PICK e \in Nat : e = w.elapsed
    BY <1>1
  <2>7. PICK strip2 \in Nat : strip2 = IF raw[Len(raw)][2] THEN e - new.start ELSE 0
    BY <1>1, <2>3, <2>4, <2>6
  <2>8. new.start <= e /\ e - new.start = keep /\ strip2 <= keep /\ new.start + strip2 <= e
    <3>1. PICK from \in Nat : from = new.start /\ from = e - keep /\ keep <= e
      BY <1>1, <2>3, <2>4, <2>6, SMTT(30)
    <3>2. strip2 = 0 \/ strip2 = e - from
      BY <2>7, <3>1
    <3>3. from <= e /\ e - from = keep /\ strip2 <= keep /\ from + strip2 <= e
      BY <3>1, <3>2
    <3> QED BY <3>1, <3>3
  <2>9. \A i \in 1..Len(new.buffer) : new.buffer[i] = s[new.start + i]
    <3>1. PICK m \in Nat : m = Len(w.buffer) /\ m = w.elapsed - w.start /\ keep <= m
      BY <1>1, <1>2, <2>3
    <3>2. m - keep + 1 \in 1..(m + 1)
      BY <3>1
    <3>3. new.buffer = SubSeq(w.buffer, m - keep + 1, m)
      BY <2>4, <3>1 DEF Tail2
    <3>4. PICK a \in 1..(m + 1) : a = m - keep + 1 /\ m - a + 1 = keep
      BY <3>1, <3>2
    <3>5. /\ Len(SubSeq(w.buffer, a, m)) = keep
          /\ \A i \in 1..keep : SubSeq(w.buffer, a, m)[i] = w.buffer[a + i - 1]
      <4>1. w.buffer \in Seq(Nat) /\ m = Len(w.buffer) /\ m - a + 1 = keep
        BY <1>1, <3>1, <3>4
      <4> QED BY <4>1
    <3>6. Len(new.buffer) = keep
      BY <3>3, <3>4, <3>5
    <3> SUFFICES ASSUME NEW i \in 1..keep PROVE new.buffer[i] = s[new.start + i]
      BY <3>6
    <3>7. PICK j \in 1..m : j = a + i - 1
      <4>1. a \in 1..(m + 1) /\ m \in Nat /\ keep \in Nat /\ m - a + 1 = keep /\ i \in 1..keep
        BY <3>4
      <4>2. a + i - 1 \in 1..m
        BY ONLY <4>1
      <4> QED BY <4>2
    <3>8. new.buffer[i] = w.buffer[j]
      BY <3>3, <3>4, <3>5, <3>7
    <3>9. w.start + j = new.start + i
      <4>1. PICK from \in Nat, to \in Nat : from = w.start /\ to = w.elapsed /\ m = to - from
        BY <1>1, <3>1
      <4>2. new.start = to - keep /\ j = m - keep + i
        BY <2>4, <3>4, <3>7, <4>1, SMTT(30)
      <4>3. from + (m - keep + i) = (to - keep) + i
        <5>1. from \in Int /\ to \in Int /\ m = to - from /\ keep \in Int /\ i \in Int
          BY <4>1
        <5> QED BY ONLY <5>1
      <4> QED BY <4>1, <4>2, <4>3
    <3>10. w.buffer[j] = s[w.start + j]
      BY <3>1 DEF WindowAt
    <3> QED BY <3>8, <3>9, <3>10
  <2>10. raw # <<>> /\ Len(raw) <= e /\ e - Len(raw) = w.start /\ keep <= Len(raw)
    BY <1>1, <1>2, <1>4, <2>3, <2>6, SMTT(30)
  <2>11. SpellsTo(new.words, s, new.start + strip2 + new.count)
    <3>1. new.start + strip2 + new.count \in Nat /\ new.start + strip2 + new.count <= e
      <4>1. PICK from \in Nat : from = new.start
        BY <2>4 DEF WindowType
      <4>2. from + strip2 <= e
        BY <2>8, <4>1
      <4>3. from + strip2 + 0 \in Nat /\ from + strip2 + 0 <= e
        BY <4>2
      <4> QED BY <2>4, <4>1, <4>3
    <3> QED BY <2>5, <2>6, <3>1, SpellsLess
  <2>12. WindowAt(new, s, e, strip2)
    <3>1. Len(<<>>) = 0 /\ new.elapsed <= Len(s) /\ e <= new.refreshedAt /\ new.refreshedAt = e
      BY <1>1, <1>2, <2>4, <2>6
    <3>2. new.count <= Len(new.last)
      BY <2>4, <3>1
    <3>3. Hears(new.stitch, s, e - Len(new.stitch)) /\ new.stitch # <<>>
      BY <2>4, <2>10
    <3>4. e - new.start <= Len(new.stitch) /\ Len(new.stitch) <= e
      BY <2>4, <2>8, <2>10
    <3>5. strip2 = IF new.stitch[Len(new.stitch)][2] THEN e - new.start ELSE 0
      BY <2>4, <2>7
    <3>6. SpellsTo(new.words, s, e)
      BY <2>5, <2>6
    <3> QED BY <2>4, <2>8, <2>9, <2>11, <3>1, <3>2, <3>3, <3>4, <3>5, <3>6 DEF WindowAt
  <2> QED BY <2>2, <2>12
<1>15. CASE ~(w.elapsed - w.start > Chunk)
  <2>1. PICK new : new = Agree(now, words)
    OBVIOUS
  <2>2. Refresh(w, raw) = new
    BY <1>3, <1>10, <1>15, <2>1 DEF Refresh
  <2>3. PICK agreed : agreed = CommonPrefixLen(now.last, words)
    OBVIOUS
  <2>4. agreed \in 0..n
    BY <1>6, <1>11, <2>3, CommonIs DEF WindowType
  <2>5. PICK common : common = SubSeq(words, 1, agreed)
    OBVIOUS
  <2>6. common \in Seq(Word) /\ Len(common) = agreed /\ \A i \in 1..agreed : common[i] = words[i]
    BY <1>6, <2>4, <2>5
  <2>7. /\ new \in WindowType /\ new.last = words
        /\ IF now.last # <<>> /\ agreed > now.count
           THEN new.words = CommitWords(now, common).words /\ new.count = CommitWords(now, common).count
           ELSE new.words = now.words /\ new.count = now.count
        /\ new.buffer = w.buffer /\ new.elapsed = w.elapsed /\ new.refreshedAt = w.elapsed
        /\ new.start = w.start /\ new.stitch = w.stitch
    BY <1>6, <1>11, <2>1, <2>3, <2>5, AgreeIs
  <2>8. /\ SpellsTo(new.words, s, b) /\ SpellsTo(new.words, s, base + new.count)
        /\ new.count <= n
    <3>1. CASE now.last # <<>> /\ agreed > now.count
      <4>1. \A i \in 1..Len(common) : common[i][1] = s[base + i]
        BY <1>8, <2>4, <2>6
      <4>2. now.count <= Len(common)
        BY <1>1, <1>11, <2>4, <2>6, <3>1
      <4>3. /\ SpellsTo(CommitWords(now, common).words, s, b)
            /\ SpellsTo(CommitWords(now, common).words, s, base + Len(common))
            /\ CommitWords(now, common).count = Len(common)
        BY <1>2, <1>11, <1>12, <2>6, <4>1, <4>2, CommitAt
      <4> QED BY <2>4, <2>6, <2>7, <3>1, <4>3
    <3>2. CASE ~(now.last # <<>> /\ agreed > now.count)
      BY <1>6, <1>12, <1>13, <2>7, <3>2
    <3> QED BY <3>1, <3>2
  <2>9. new.start + strip + Len(new.last) = new.refreshedAt /\ Hears(new.last, s, new.start + strip)
    BY <1>6, <1>7, <1>9, <2>7
  <2>10. new.last # <<>> /\ new.count <= Len(new.last)
    BY <1>5, <1>6, <2>7, <2>8
  <2>11. b <= new.refreshedAt
    BY <1>1, <1>2, <2>7
  <2>12. SpellsTo(new.words, s, new.start + strip + new.count)
    BY <1>7, <2>7, <2>8
  <2>13. \A i \in 1..Len(new.buffer) : new.buffer[i] = s[new.start + i]
    BY <2>7 DEF WindowAt
  <2>14. WindowAt(new, s, b, strip)
    BY <1>2, <2>7, <2>8, <2>9, <2>10, <2>11, <2>12, <2>13 DEF WindowAt
  <2> QED BY <2>2, <2>14
<1> QED BY <1>14, <1>15

(* What close commits is all of it.                                        *)
LEMMA VolatileAt ==
  ASSUME NEW w \in WindowType, NEW s, NEW b, NEW strip, WindowAt(w, s, b, strip), w.refreshedAt = w.elapsed
  PROVE  SpellsTo(CommitVolatile(w).words, s, w.elapsed)
<1>1. /\ w.start \in Nat /\ w.elapsed \in Nat /\ w.count \in Nat /\ w.words \in Seq(Word)
      /\ w.last \in Seq(Word) /\ Len(w.last) \in Nat
  BY DEF WindowType
<1>2. /\ b \in Nat /\ strip \in Nat /\ w.count <= Len(w.last)
      /\ SpellsTo(w.words, s, b) /\ SpellsTo(w.words, s, w.start + strip + w.count)
  BY DEF WindowAt
<1>3. IF w.count < Len(w.last) THEN CommitVolatile(w).words = w.words \o From(w.last, w.count)
      ELSE CommitVolatile(w).words = w.words
  BY CommitVolatileKeeps
<1>4. CASE w.last = <<>>
  <2>1. b = w.elapsed
    BY <1>4 DEF WindowAt
  <2>2. CommitVolatile(w).words = w.words
    <3>1. Len(w.last) = 0
      BY <1>4
    <3>2. ~(w.count < Len(w.last))
      BY <1>1, <3>1
    <3> QED BY <1>3, <3>2
  <2> QED BY <1>2, <2>1, <2>2
<1>5. CASE w.last # <<>>
  <2>1. PICK base \in Nat : base = w.start + strip
    BY <1>1, <1>2
  <2>2. base + Len(w.last) = w.elapsed /\ Hears(w.last, s, base)
    BY <1>5, <2>1 DEF WindowAt
  <2>3. CASE w.count < Len(w.last)
    <3>1. CommitWords(w, w.last).words = w.words \o From(w.last, w.count)
      BY <1>1, CommitWordsIs
    <3>2. \A i \in 1..Len(w.last) : w.last[i][1] = s[base + i]
      BY <2>2 DEF Hears
    <3>3. SpellsTo(w.words, s, base + w.count)
      BY <1>2, <2>1
    <3>4. SpellsTo(CommitWords(w, w.last).words, s, base + Len(w.last))
      BY <1>1, <1>2, <3>2, <3>3, CommitAt
    <3> QED BY <1>3, <2>2, <2>3, <3>1, <3>4
  <2>4. CASE ~(w.count < Len(w.last))
    <3>1. w.count = Len(w.last)
      BY <1>1, <1>2, <2>4
    <3> QED BY <1>2, <1>3, <2>1, <2>2, <2>4, <3>1
  <2> QED BY <2>3, <2>4
<1> QED BY <1>4, <1>5

(* MoonshineWindow.close: every frame the window had is a word of the line.*)
LEMMA CloseAt ==
  ASSUME NEW w \in WindowType, Sized(w), NEW s \in Seq(Nat), Rises(s), NEW b, NEW strip,
         WindowAt(w, s, b, strip), NEW raw \in Seq(Word), Len(raw) = w.elapsed - w.start, Hears(raw, s, w.start)
  PROVE  SpellsTo(CloseWindow(w, raw).words, s, w.elapsed)
<1>1. w.elapsed \in Nat /\ w.refreshedAt \in Nat /\ w.refreshedAt <= w.elapsed
  BY DEF WindowType, Sized
<1>2. CASE w.elapsed = 0 /\ ~w.line
  <2>1. 1..w.elapsed = {}
    BY <1>2
  <2> QED BY <2>1 DEF SpellsTo
<1>3. CASE ~(w.elapsed = 0 /\ ~w.line) /\ w.elapsed > w.refreshedAt
  <2>1. PICK mid : mid = Refresh(w, raw)
    OBVIOUS
  <2>2. mid \in WindowType /\ mid.elapsed = w.elapsed /\ mid.refreshedAt = w.elapsed
    BY <2>1, RefreshKeeps
  <2>3. PICK b2, strip2 : WindowAt(mid, s, b2, strip2)
    BY <1>3, <2>1, RefreshAt
  <2>4. CloseWindow(w, raw) = CommitVolatile(mid)
    BY <1>3, <2>1 DEF CloseWindow
  <2> QED BY <2>2, <2>3, <2>4, VolatileAt
<1>4. CASE ~(w.elapsed = 0 /\ ~w.line) /\ ~(w.elapsed > w.refreshedAt)
  <2>1. CloseWindow(w, raw) = CommitVolatile(w) /\ w.refreshedAt = w.elapsed
    BY <1>1, <1>4 DEF CloseWindow
  <2> QED BY <2>1, VolatileAt
<1> QED BY <1>2, <1>3, <1>4

(***************************************************************************)
(* The relay.  The two folds it is written with, then what it has said.    *)
(***************************************************************************)
(* The fold of Texts, as what it has after each line.  *)
LEMMA TextsIs ==
  ASSUME NEW s, Len(s) \in Nat, DOMAIN s = 1..Len(s)
  PROVE  \E f : /\ f = [k \in 0..Len(s) |-> IF k = 0 THEN <<>> ELSE f[k - 1] \o s[k].text]
                /\ Texts(s) = f[Len(s)]
<1> DEFINE Def(g, D) == [d \in D |-> IF d = {} THEN <<>>
                                     ELSE LET x == Max(d) IN g[d \ {x}] \o s[x].text]
           N == {k \in Nat : \E g : g = Def(g, SUBSET (1..k))}
<1>1. 0 \in N
  <2>1. SUBSET (1..0) = {{}}
    OBVIOUS
  <2>2. PICK g : g = [d \in {{}} |-> <<>>]
    OBVIOUS
  <2>3. g = Def(g, SUBSET (1..0))
    BY <2>1, <2>2
  <2> QED BY <2>3
<1>2. ASSUME NEW k \in Nat, k \in N PROVE k + 1 \in N
  <2>1. PICK g : g = Def(g, SUBSET (1..k))
    BY <1>2
  <2>2. PICK h : h = [d \in SUBSET (1..(k + 1)) |->
                       IF d \in SUBSET (1..k) THEN g[d] ELSE g[d \ {k + 1}] \o s[k + 1].text]
    OBVIOUS
  <2>3. \A d \in SUBSET (1..k) : d \in SUBSET (1..(k + 1)) /\ h[d] = g[d]
    BY <2>2
  <2>4. ASSUME NEW d \in SUBSET (1..(k + 1))
        PROVE  h[d] = IF d = {} THEN <<>> ELSE h[d \ {Max(d)}] \o s[Max(d)].text
    <3>1. CASE k + 1 \in d
      <4>1. Max(d) = k + 1
        BY <3>1, MaxUpTo
      <4>2. d \ {k + 1} \in SUBSET (1..k) /\ d \notin SUBSET (1..k) /\ d # {}
        BY <3>1
      <4> QED BY <2>2, <2>3, <4>1, <4>2
    <3>2. CASE k + 1 \notin d
      <4>1. d \in SUBSET (1..k)
        BY <3>2
      <4>2. d # {} => d \ {Max(d)} \in SUBSET (1..k)
        BY <4>1
      <4>3. g[d] = IF d = {} THEN <<>> ELSE g[d \ {Max(d)}] \o s[Max(d)].text
        BY <2>1, <4>1
      <4> QED BY <2>3, <4>1, <4>2, <4>3
    <3> QED BY <3>1, <3>2, SMTT(30)
  <2>5. h = Def(h, SUBSET (1..(k + 1)))
    BY <2>2, <2>4, ZenonT(30)
  <2>6. k + 1 \in Nat
    OBVIOUS
  <2> HIDE DEF Def
  <2> QED BY <2>5, <2>6
<1>3. Len(s) \in N
  <2> HIDE DEF N
  <2> QED BY <1>1, <1>2, NatInd
<1>4. PICK iter : iter = Def(iter, SUBSET (1..Len(s))) /\ Texts(s) = iter[1..Len(s)]
  <2> DEFINE it == CHOOSE g : g = Def(g, SUBSET (1..Len(s)))
  <2>1. it = Def(it, SUBSET (1..Len(s)))
    BY <1>3, ZenonT(30)
  <2>2. Texts(s) = it[1..Len(s)]
    BY DEF Texts, FoldLeft, MapThenFoldSet
  <2> QED BY <2>1, <2>2, ZenonT(30)
<1>5. PICK f : f = [k \in 0..Len(s) |-> iter[1..k]]
  OBVIOUS
<1>6. ASSUME NEW k \in 0..Len(s)
      PROVE  f[k] = IF k = 0 THEN <<>> ELSE f[k - 1] \o s[k].text
  <2>1. CASE k = 0
    BY <1>4, <1>5, <2>1
  <2>2. CASE k # 0
    <3>1. PICK d : d = 1..k
      OBVIOUS
    <3>2. d \in SUBSET (1..Len(s)) /\ d # {} /\ Max(d) = k /\ d \ {k} = 1..(k - 1) /\ k - 1 \in 0..Len(s)
      BY <2>2, <3>1, UpTo
    <3>3. iter[d] = iter[d \ {k}] \o s[k].text
      BY <1>4, <3>2
    <3> QED BY <1>5, <2>2, <3>1, <3>2, <3>3
  <2> QED BY <2>1, <2>2
<1>7. f = [k \in 0..Len(s) |-> IF k = 0 THEN <<>> ELSE f[k - 1] \o s[k].text]
  BY <1>5, <1>6
<1>8. Texts(s) = f[Len(s)]
  BY <1>4, <1>5
<1> HIDE DEF Def
<1> QED BY <1>7, <1>8

(* The fold of EmitLines, as the relay after each line. *)
LEMMA EmitLinesIs ==
  ASSUME NEW s, Len(s) \in Nat, DOMAIN s = 1..Len(s), NEW r
  PROVE  \E f : /\ f = [k \in 0..Len(s) |-> IF k = 0 THEN r ELSE ConsiderEmitLine(f[k - 1], s[k])]
                /\ EmitLines(r, s) = f[Len(s)]
<1> DEFINE Def(g, D) == [d \in D |-> IF d = {} THEN r
                                     ELSE LET x == Max(d) IN ConsiderEmitLine(g[d \ {x}], s[x])]
           N == {k \in Nat : \E g : g = Def(g, SUBSET (1..k))}
<1>1. 0 \in N
  <2>1. SUBSET (1..0) = {{}}
    OBVIOUS
  <2>2. PICK g : g = [d \in {{}} |-> r]
    OBVIOUS
  <2>3. g = Def(g, SUBSET (1..0))
    BY <2>1, <2>2
  <2> QED BY <2>3
<1>2. ASSUME NEW k \in Nat, k \in N PROVE k + 1 \in N
  <2>1. PICK g : g = Def(g, SUBSET (1..k))
    BY <1>2
  <2>2. PICK h : h = [d \in SUBSET (1..(k + 1)) |->
                       IF d \in SUBSET (1..k) THEN g[d] ELSE ConsiderEmitLine(g[d \ {k + 1}], s[k + 1])]
    OBVIOUS
  <2>3. \A d \in SUBSET (1..k) : d \in SUBSET (1..(k + 1)) /\ h[d] = g[d]
    BY <2>2
  <2>4. ASSUME NEW d \in SUBSET (1..(k + 1))
        PROVE  h[d] = IF d = {} THEN r ELSE ConsiderEmitLine(h[d \ {Max(d)}], s[Max(d)])
    <3>1. CASE k + 1 \in d
      <4>1. Max(d) = k + 1
        BY <3>1, MaxUpTo
      <4>2. d \ {k + 1} \in SUBSET (1..k) /\ d \notin SUBSET (1..k) /\ d # {}
        BY <3>1
      <4> QED BY <2>2, <2>3, <4>1, <4>2
    <3>2. CASE k + 1 \notin d
      <4>1. d \in SUBSET (1..k)
        BY <3>2
      <4>2. d # {} => d \ {Max(d)} \in SUBSET (1..k)
        BY <4>1
      <4>3. g[d] = IF d = {} THEN r ELSE ConsiderEmitLine(g[d \ {Max(d)}], s[Max(d)])
        BY <2>1, <4>1
      <4> QED BY <2>3, <4>1, <4>2, <4>3
    <3> QED BY <3>1, <3>2
  <2>5. h = Def(h, SUBSET (1..(k + 1)))
    BY <2>2, <2>4
  <2>6. k + 1 \in Nat
    OBVIOUS
  <2> HIDE DEF Def
  <2> QED BY <2>5, <2>6
<1>3. Len(s) \in N
  <2> HIDE DEF N
  <2> QED BY <1>1, <1>2, NatInd
<1>4. PICK iter : iter = Def(iter, SUBSET (1..Len(s))) /\ EmitLines(r, s) = iter[1..Len(s)]
  <2> DEFINE it == CHOOSE g : g = Def(g, SUBSET (1..Len(s)))
  <2>1. it = Def(it, SUBSET (1..Len(s)))
    BY <1>3
  <2>2. EmitLines(r, s) = it[1..Len(s)]
    BY DEF EmitLines, FoldLeft, MapThenFoldSet
  <2> QED BY <2>1, <2>2
<1>5. PICK f : f = [k \in 0..Len(s) |-> iter[1..k]]
  OBVIOUS
<1>6. ASSUME NEW k \in 0..Len(s)
      PROVE  f[k] = IF k = 0 THEN r ELSE ConsiderEmitLine(f[k - 1], s[k])
  <2>1. CASE k = 0
    BY <1>4, <1>5, <2>1
  <2>2. CASE k # 0
    <3>1. PICK d : d = 1..k
      OBVIOUS
    <3>2. d \in SUBSET (1..Len(s)) /\ d # {} /\ Max(d) = k /\ d \ {k} = 1..(k - 1) /\ k - 1 \in 0..Len(s)
      BY <2>2, <3>1, UpTo
    <3>3. iter[d] = ConsiderEmitLine(iter[d \ {k}], s[k])
      BY <1>4, <3>2
    <3> QED BY <1>5, <2>2, <3>1, <3>2, <3>3
  <2> QED BY <2>1, <2>2
<1>7. f = [k \in 0..Len(s) |-> IF k = 0 THEN r ELSE ConsiderEmitLine(f[k - 1], s[k])]
  BY <1>5, <1>6
<1>8. EmitLines(r, s) = f[Len(s)]
  BY <1>4, <1>5
<1> HIDE DEF Def
<1> QED BY <1>7, <1>8

Text == Nat \cup Word
LineType == [key : Keys, text : Seq(Text)]

(* Lines as every answer repeats them: numbered, from none on.             *)
Lines(ls) == ls \in Seq(LineType) /\ \A i \in 1..Len(ls) : ls[i].key = i - 1

RelayType ==
  [lines : Seq(LineType), buffer : Seq(Text), emitted : [Keys -> Seq(Text)], upto : Nat,
   stableKey : Keys \cup {NoKey}, stableText : Seq(Text), stableCount : Int, settled : Seq(Text)]

LEMMA LineIs ==
  ASSUME NEW ls, Lines(ls), NEW i \in 1..Len(ls)
  PROVE  ls[i] \in LineType /\ ls[i].text \in Seq(Text) /\ ls[i].key = i - 1 /\ i - 1 \in Keys
<1>1. ls \in Seq(LineType) /\ ls[i].key = i - 1
  BY DEF Lines
<1>2. ls[i] \in LineType
  BY <1>1
<1>3. PICK line \in LineType : line = ls[i]
  BY <1>2
<1>4. line.key \in Keys /\ line.text \in Seq(Text)
  BY DEF LineType
<1> QED BY <1>1, <1>3, <1>4

LEMMA TextsType ==
  ASSUME NEW ls \in Seq(LineType)
  PROVE  Texts(ls) \in Seq(Text)
<1>1. Len(ls) \in Nat /\ DOMAIN ls = 1..Len(ls)
  OBVIOUS
<1>2. PICK f : /\ f = [k \in 0..Len(ls) |-> IF k = 0 THEN <<>> ELSE f[k - 1] \o ls[k].text]
               /\ Texts(ls) = f[Len(ls)]
  BY <1>1, TextsIs
<1> DEFINE N == {k \in Nat : k <= Len(ls) => f[k] \in Seq(Text)}
<1>3. 0 \in N
  <2>1. 0 \in 0..Len(ls)
    BY <1>1
  <2>2. f[0] = <<>>
    BY <1>2, <2>1
  <2>3. f[0] \in Seq(Text)
    BY <2>2
  <2> QED BY <2>3
<1>4. ASSUME NEW k \in Nat, k \in N PROVE k + 1 \in N
  <2> SUFFICES ASSUME k + 1 <= Len(ls) PROVE f[k + 1] \in Seq(Text)
    OBVIOUS
  <2>1. k + 1 \in 1..Len(ls) /\ k + 1 \in 0..Len(ls) /\ (k + 1) - 1 = k /\ k <= Len(ls) /\ k + 1 # 0
    BY <1>1
  <2>2. f[k + 1] = f[k] \o ls[k + 1].text
    BY <1>2, <2>1
  <2>3. ls[k + 1].text \in Seq(Text)
    <3>1. PICK line \in LineType : line = ls[k + 1]
      BY <2>1
    <3>2. line.text \in Seq(Text)
      BY DEF LineType
    <3> QED BY <3>1, <3>2
  <2> QED BY <1>4, <2>1, <2>2, <2>3
<1>5. Len(ls) \in N
  <2> HIDE DEF N
  <2> QED BY <1>1, <1>3, <1>4, NatInd
<1> QED BY <1>1, <1>2, <1>5

LEMMA TextsNone == Texts(<<>>) = <<>>
<1>1. Len(<<>>) = 0 /\ DOMAIN <<>> = 1..Len(<<>>)
  OBVIOUS
<1>2. PICK f : /\ f = [k \in 0..Len(<<>>) |-> IF k = 0 THEN <<>> ELSE f[k - 1] \o <<>>[k].text]
               /\ Texts(<<>>) = f[Len(<<>>)]
  BY <1>1, TextsIs, ZenonT(30)
<1>3. 0 \in 0..Len(<<>>)
  BY <1>1
<1> QED BY <1>1, <1>2, <1>3

(* What one line more says.                                                *)
LEMMA TextsNext ==
  ASSUME NEW ls \in Seq(LineType), NEW n \in Nat, n < Len(ls)
  PROVE  Texts(SubSeq(ls, 1, n + 1)) = Texts(SubSeq(ls, 1, n)) \o ls[n + 1].text
<1>1. PICK s, t : s = SubSeq(ls, 1, n + 1) /\ t = SubSeq(ls, 1, n)
  OBVIOUS
<1>2. /\ s \in Seq(LineType) /\ Len(s) = n + 1 /\ \A i \in 1..(n + 1) : s[i] = ls[i]
      /\ t \in Seq(LineType) /\ Len(t) = n /\ \A i \in 1..n : t[i] = ls[i]
  BY <1>1
<1>3. Len(s) \in Nat /\ DOMAIN s = 1..Len(s) /\ Len(t) \in Nat /\ DOMAIN t = 1..Len(t)
  BY <1>2
<1>4. PICK f : /\ f = [k \in 0..Len(s) |-> IF k = 0 THEN <<>> ELSE f[k - 1] \o s[k].text]
               /\ Texts(s) = f[Len(s)]
  BY <1>3, TextsIs
<1>5. PICK g : /\ g = [k \in 0..Len(t) |-> IF k = 0 THEN <<>> ELSE g[k - 1] \o t[k].text]
               /\ Texts(t) = g[Len(t)]
  BY <1>3, TextsIs
<1> DEFINE N == {k \in Nat : k <= n => f[k] = g[k]}
<1>6. 0 \in N
  <2>1. 0 \in 0..Len(s) /\ 0 \in 0..Len(t)
    BY <1>3
  <2> QED BY <1>4, <1>5, <2>1
<1>7. ASSUME NEW k \in Nat, k \in N PROVE k + 1 \in N
  <2> SUFFICES ASSUME k + 1 <= n PROVE f[k + 1] = g[k + 1]
    OBVIOUS
  <2>1. /\ k + 1 \in 0..Len(s) /\ k + 1 \in 0..Len(t) /\ (k + 1) - 1 = k /\ k <= n /\ k + 1 # 0
        /\ k + 1 \in 1..n /\ k + 1 \in 1..(n + 1)
    BY <1>2
  <2>2. s[k + 1] = t[k + 1]
    BY <1>2, <2>1
  <2>3. f[k + 1] = f[k] \o s[k + 1].text
    BY <1>4, <2>1
  <2>4. g[k + 1] = g[k] \o t[k + 1].text
    BY <1>5, <2>1
  <2> QED BY <1>7, <2>1, <2>2, <2>3, <2>4
<1>8. f[n] = g[n]
  <2>1. n \in N
    <3> HIDE DEF N
    <3> QED BY <1>6, <1>7, NatInd
  <2> QED BY <2>1
<1>9. f[n + 1] = f[n] \o s[n + 1].text
  <2>1. n + 1 \in 0..Len(s) /\ n + 1 # 0 /\ (n + 1) - 1 = n
    BY <1>2
  <2> QED BY <1>4, <2>1
<1>10. n + 1 \in 1..(n + 1)
  OBVIOUS
<1> QED BY <1>1, <1>2, <1>4, <1>5, <1>8, <1>9, <1>10, ZenonT(30)

(* new has said the rest of the text of a line, and nothing else.          *)
Speaks(r, new, key, text) ==
  /\ new \in RelayType /\ new.emitted[key] = text
  /\ \A k \in Keys : k # key => new.emitted[k] = r.emitted[k]
  /\ \E more \in Seq(Text) : r.emitted[key] \o more = text /\ new.settled = r.settled \o more
  /\ new.lines = r.lines /\ new.buffer = r.buffer /\ new.upto = r.upto

(* _consider_emit_line, of a line said as far as it goes.                  *)
LEMMA ConsiderIs ==
  ASSUME NEW r \in RelayType, NEW line \in LineType, IsPrefix(r.emitted[line.key], line.text)
  PROVE  Speaks(r, ConsiderEmitLine(r, line), line.key, line.text)
<1>1. PICK key \in Keys, text \in Seq(Text) : key = line.key /\ text = line.text
  BY DEF LineType
<1>2. PICK said \in Seq(Text) : said = r.emitted[key]
  BY DEF RelayType
<1>3. Len(said) \in Nat /\ Len(text) \in Nat /\ Len(said) <= Len(text) /\ \A i \in 1..Len(said) : said[i] = text[i]
  <2>1. Len(said) <= Len(text) /\ SubSeq(said, 1, Len(said)) = SubSeq(text, 1, Len(said))
    BY <1>1, <1>2 DEF IsPrefix
  <2>2. \A i \in 1..Len(said) : SubSeq(said, 1, Len(said))[i] = said[i] /\ SubSeq(text, 1, Len(said))[i] = text[i]
    BY <2>1
  <2> QED BY <2>1, <2>2
<1>4. r.emitted \in [Keys -> Seq(Text)] /\ r.settled \in Seq(Text)
  BY DEF RelayType
<1>5. CASE text = <<>> \/ text = said
  <2>1. said = text
    BY <1>3, <1>5
  <2>2. ConsiderEmitLine(r, line) = r
    BY <1>1, <1>2, <1>5 DEF ConsiderEmitLine
  <2>3. r.emitted[key] = text
    BY <1>2, <2>1
  <2>4. <<>> \in Seq(Text) /\ said \o <<>> = text /\ r.settled \o <<>> = r.settled
    BY <1>4, <2>1
  <2>5. Speaks(r, r, key, text)
    BY <1>2, <2>3, <2>4 DEF Speaks
  <2> QED BY <1>1, <2>2, <2>5
<1>6. CASE text # <<>> /\ text # said
  <2>1. PICK more : more = IF said # <<>> /\ IsPrefix(said, text)
                           THEN SubSeq(text, Len(said) + 1, Len(text)) ELSE text
    OBVIOUS
  <2>2. more \in Seq(Text) /\ said \o more = text
    <3>1. IsPrefix(said, text)
      BY <1>1, <1>2
    <3>2. CASE said = <<>>
      <4>1. more = text
        BY <2>1, <3>2
      <4> QED BY <3>2, <4>1
    <3>3. CASE said # <<>>
      <4>1. more = SubSeq(text, Len(said) + 1, Len(text))
        BY <2>1, <3>1, <3>3
      <4>2. /\ more \in Seq(Text) /\ Len(more) = Len(text) - Len(said)
            /\ \A i \in 1..(Len(text) - Len(said)) : more[i] = text[Len(said) + i]
        BY <1>3, <4>1
      <4>3. said \o more \in Seq(Text) /\ Len(said \o more) = Len(text)
        BY <1>3, <4>2
      <4>4. ASSUME NEW i \in 1..Len(text) PROVE (said \o more)[i] = text[i]
        <5>1. CASE i <= Len(said)
          <6>1. i \in 1..Len(said)
            BY <1>3, <5>1
          <6>2. (said \o more)[i] = said[i]
            BY <4>2, <6>1, ConcatIs
          <6> QED BY <1>3, <6>1, <6>2
        <5>2. CASE i > Len(said)
          <6>1. i - Len(said) \in 1..(Len(text) - Len(said)) /\ Len(said) + (i - Len(said)) = i
            BY <1>3, <5>2
          <6>2. (said \o more)[i] = more[i - Len(said)]
            BY <4>2, <4>3, <5>2, ConcatIs
          <6> QED BY <4>2, <6>1, <6>2
        <5>3. i <= Len(said) \/ i > Len(said)
          BY <1>3
        <5> QED BY <5>1, <5>2, <5>3
      <4>5. said \o more = text
        BY <4>3, <4>4, SeqEqual
      <4> QED BY <4>2, <4>5
    <3> QED BY <3>2, <3>3
  <2>3. PICK new : new = [r EXCEPT !.settled = @ \o more, !.emitted[key] = text]
    OBVIOUS
  <2>4. ConsiderEmitLine(r, line) = new
    BY <1>1, <1>2, <1>6, <2>1, <2>3 DEF ConsiderEmitLine
  <2>5. r.settled \o more \in Seq(Text) /\ [r.emitted EXCEPT ![key] = text] \in [Keys -> Seq(Text)]
    BY <1>4, <2>2
  <2>6. new = [r EXCEPT !.settled = r.settled \o more, !.emitted = [r.emitted EXCEPT ![key] = text]]
    BY <2>3
  <2>7. /\ new \in RelayType /\ new.emitted = [r.emitted EXCEPT ![key] = text]
        /\ new.settled = r.settled \o more
        /\ new.lines = r.lines /\ new.buffer = r.buffer /\ new.upto = r.upto
    BY <2>5, <2>6 DEF RelayType
  <2>8. new.emitted[key] = text /\ \A k \in Keys : k # key => new.emitted[k] = r.emitted[k]
    BY <1>4, <2>7
  <2>9. Speaks(r, new, key, text)
    BY <1>2, <2>2, <2>7, <2>8 DEF Speaks
  <2> QED BY <1>1, <2>4, <2>9
<1> QED BY <1>5, <1>6

(* r has said the first j of the lines, and the next as far as emitted has *)
(* it.                                                                     *)
SaidTo(r, ls, j) ==
  /\ \A i \in 1..j : r.emitted[i - 1] = ls[i].text
  /\ \A k \in Keys : k > j => r.emitted[k] = <<>>
  /\ IsPrefix(r.emitted[j], ls[j + 1].text)
  /\ r.settled = Texts(SubSeq(ls, 1, j)) \o r.emitted[j]

(* One line more, and where it leaves the relay.                           *)
LEMMA EmitOne ==
  ASSUME NEW r \in RelayType, NEW ls, Lines(ls), NEW j \in Nat, j < Len(ls), SaidTo(r, ls, j),
         NEW new, new = ConsiderEmitLine(r, ls[j + 1])
  PROVE  /\ Speaks(r, new, j, ls[j + 1].text)
         /\ new.settled = Texts(SubSeq(ls, 1, j)) \o ls[j + 1].text
         /\ new.settled = Texts(SubSeq(ls, 1, j + 1))
<1>1. ls \in Seq(LineType) /\ Len(ls) \in Nat
  BY DEF Lines
<1>2. j + 1 \in 1..Len(ls) /\ (j + 1) - 1 = j
  BY <1>1
<1>3. PICK line \in LineType : line = ls[j + 1] /\ line.key = j /\ line.text \in Seq(Text) /\ j \in Keys
  BY <1>2, LineIs
<1>4. IsPrefix(r.emitted[line.key], line.text)
  BY <1>3 DEF SaidTo
<1>5. new = ConsiderEmitLine(r, line)
  BY <1>3
<1>6. Speaks(r, new, j, line.text)
  BY <1>3, <1>4, <1>5, ConsiderIs
<1>7. PICK more \in Seq(Text) : r.emitted[j] \o more = line.text /\ new.settled = r.settled \o more
  BY <1>6 DEF Speaks
<1>8. PICK before : before = Texts(SubSeq(ls, 1, j))
  OBVIOUS
<1>9. before \in Seq(Text)
  <2>1. SubSeq(ls, 1, j) \in Seq(LineType)
    BY <1>1
  <2> QED BY <1>8, <2>1, TextsType
<1>10. PICK said \in Seq(Text) : said = r.emitted[j]
  BY <1>3 DEF RelayType
<1>11. r.settled = before \o said
  BY <1>8, <1>10 DEF SaidTo
<1>12. (before \o said) \o more = before \o (said \o more)
  BY <1>9, ConcatAssociative, SMTT(30)
<1>13. new.settled = before \o line.text
  BY <1>7, <1>10, <1>11, <1>12
<1>14. Texts(SubSeq(ls, 1, j + 1)) = before \o line.text
  BY <1>1, <1>3, <1>8, TextsNext
<1> QED BY <1>3, <1>6, <1>8, <1>13, <1>14

LEMMA EmitNext ==
  ASSUME NEW r \in RelayType, NEW ls, Lines(ls), NEW j \in Nat, j + 1 < Len(ls), SaidTo(r, ls, j)
  PROVE  SaidTo(ConsiderEmitLine(r, ls[j + 1]), ls, j + 1)
<1>1. ls \in Seq(LineType) /\ Len(ls) \in Nat /\ j < Len(ls)
  BY DEF Lines
<1>2. PICK new : new = ConsiderEmitLine(r, ls[j + 1])
  OBVIOUS
<1>3. /\ Speaks(r, new, j, ls[j + 1].text)
      /\ new.settled = Texts(SubSeq(ls, 1, j + 1))
  <2>1. j < Len(ls)
    BY <1>1
  <2>2. Speaks(r, new, j, ls[j + 1].text)
    BY <1>2, <2>1, EmitOne
  <2>3. new.settled = Texts(SubSeq(ls, 1, j + 1))
    BY <1>2, <2>1, EmitOne, ZenonT(30)
  <2> QED BY <2>2, <2>3
<1>4. r.emitted \in [Keys -> Seq(Text)]
  BY DEF RelayType
<1>5. (j + 1) + 1 \in 1..Len(ls) /\ ((j + 1) + 1) - 1 = j + 1
  BY <1>1
<1>6. j + 1 \in Keys /\ ls[(j + 1) + 1].text \in Seq(Text)
  BY <1>5, LineIs
<1>7. j \in Keys
  <2>1. j + 1 \in 1..Len(ls) /\ (j + 1) - 1 = j
    BY <1>1
  <2> QED BY <2>1, LineIs
<1>8. new.emitted[j] = ls[j + 1].text /\ \A k \in Keys : k # j => new.emitted[k] = r.emitted[k]
  BY <1>3 DEF Speaks
<1>9. new.emitted[j + 1] = <<>>
  <2>1. j + 1 > j /\ j + 1 # j
    OBVIOUS
  <2> QED BY <1>6, <1>8, <2>1 DEF SaidTo
<1>10. ASSUME NEW i \in 1..(j + 1) PROVE new.emitted[i - 1] = ls[i].text
  <2>1. CASE i = j + 1
    <3>1. i - 1 = j
      BY <2>1
    <3> QED BY <1>8, <2>1, <3>1
  <2>2. CASE i # j + 1
    <3>1. i \in 1..j /\ i \in 1..Len(ls) /\ i - 1 # j
      BY <1>1, <2>2
    <3>2. i - 1 \in Keys
      BY <3>1, LineIs
    <3> QED BY <1>8, <3>1, <3>2 DEF SaidTo
  <2> QED BY <2>1, <2>2
<1>11. ASSUME NEW k \in Keys, k > j + 1 PROVE new.emitted[k] = <<>>
  <2>1. k > j /\ k # j
    BY <1>11, CaptionsAssumption
  <2> QED BY <1>8, <2>1 DEF SaidTo
<1>12. IsPrefix(new.emitted[j + 1], ls[(j + 1) + 1].text)
  BY <1>6, <1>9 DEF IsPrefix
<1>13. new.settled = Texts(SubSeq(ls, 1, j + 1)) \o new.emitted[j + 1]
  <2>1. SubSeq(ls, 1, j + 1) \in Seq(LineType)
    BY <1>1
  <2>2. Texts(SubSeq(ls, 1, j + 1)) \in Seq(Text)
    BY <2>1, TextsType
  <2>3. PICK t : t = Texts(SubSeq(ls, 1, j + 1))
    OBVIOUS
  <2>4. t \o <<>> = t
    BY <2>2, <2>3
  <2> QED BY <1>3, <1>9, <2>3, <2>4
<1> QED BY <1>2, <1>10, <1>11, <1>12, <1>13 DEF SaidTo

LEMMA EmitTail ==
  ASSUME NEW r \in RelayType, NEW ls, Lines(ls), NEW j \in Nat, j < Len(ls), SaidTo(r, ls, j)
  PROVE  SaidTo(ConsiderEmitLine(r, ls[j + 1]), ls, j)
<1>1. ls \in Seq(LineType) /\ Len(ls) \in Nat
  BY DEF Lines
<1>2. PICK new : new = ConsiderEmitLine(r, ls[j + 1])
  OBVIOUS
<1>3. /\ Speaks(r, new, j, ls[j + 1].text)
      /\ new.settled = Texts(SubSeq(ls, 1, j)) \o ls[j + 1].text
  BY <1>1, <1>2, EmitOne
<1>4. r.emitted \in [Keys -> Seq(Text)]
  BY DEF RelayType
<1>5. j + 1 \in 1..Len(ls) /\ (j + 1) - 1 = j
  BY <1>1
<1>6. j \in Keys /\ ls[j + 1].text \in Seq(Text)
  BY <1>5, LineIs
<1>7. new.emitted[j] = ls[j + 1].text /\ \A k \in Keys : k # j => new.emitted[k] = r.emitted[k]
  BY <1>3 DEF Speaks
<1>8. ASSUME NEW i \in 1..j PROVE new.emitted[i - 1] = ls[i].text
  <2>1. i \in 1..Len(ls) /\ i - 1 # j
    BY <1>1
  <2>2. i - 1 \in Keys
    BY <2>1, LineIs
  <2> QED BY <1>7, <2>1, <2>2 DEF SaidTo
<1>9. ASSUME NEW k \in Keys, k > j PROVE new.emitted[k] = <<>>
  <2>1. k # j
    BY <1>9
  <2> QED BY <1>7, <1>9, <2>1 DEF SaidTo
<1>10. IsPrefix(new.emitted[j], ls[j + 1].text)
  BY <1>6, <1>7, PrefixOf
<1> QED BY <1>2, <1>3, <1>7, <1>8, <1>9, <1>10 DEF SaidTo

(* What is said is in emitted and settled only.                            *)
LEMMA SaidSame ==
  ASSUME NEW r, NEW q, NEW ls, NEW j, SaidTo(r, ls, j), q.emitted = r.emitted, q.settled = r.settled
  PROVE  SaidTo(q, ls, j)
BY DEF SaidTo

(* Of lines some of which the relay has said, those up to the last but one.*)
LEMMA EmitUpTo ==
  ASSUME NEW r \in RelayType, NEW ls, Lines(ls), NEW a \in Nat, NEW z \in Nat, a <= z, z < Len(ls),
         SaidTo(r, ls, a)
  PROVE  LET new == EmitLines(r, SubSeq(ls, a + 1, z))
         IN  /\ new \in RelayType /\ SaidTo(new, ls, z)
             /\ new.lines = r.lines /\ new.buffer = r.buffer /\ new.upto = r.upto
<1>1. ls \in Seq(LineType) /\ Len(ls) \in Nat
  BY DEF Lines
<1>2. PICK s : s = SubSeq(ls, a + 1, z)
  OBVIOUS
<1>3. /\ s \in Seq(LineType) /\ Len(s) = z - a /\ Len(s) \in Nat /\ DOMAIN s = 1..Len(s)
      /\ \A i \in 1..(z - a) : s[i] = ls[a + i]
  <2>1. a + 1 \in 1..(Len(ls) + 1) /\ z \in 0..Len(ls)
    BY <1>1
  <2>2. s \in Seq(LineType) /\ Len(s) = z - a
    BY <1>1, <1>2, <2>1
  <2>3. ASSUME NEW i \in 1..(z - a) PROVE s[i] = ls[a + i]
    <3>1. s[i] = ls[(a + 1) + i - 1] /\ (a + 1) + i - 1 = a + i
      BY <1>1, <1>2, <2>1
    <3> QED BY <3>1
  <2> QED BY <2>2, <2>3
<1>4. PICK f : /\ f = [k \in 0..Len(s) |-> IF k = 0 THEN r ELSE ConsiderEmitLine(f[k - 1], s[k])]
               /\ EmitLines(r, s) = f[Len(s)]
  BY <1>3, EmitLinesIs
<1> DEFINE Good(q, k) == /\ q \in RelayType /\ SaidTo(q, ls, a + k)
                         /\ q.lines = r.lines /\ q.buffer = r.buffer /\ q.upto = r.upto
           N == {k \in Nat : k <= z - a => Good(f[k], k)}
<1>5. 0 \in N
  <2>1. 0 \in 0..Len(s) /\ a + 0 = a
    BY <1>3
  <2>2. f[0] = r
    BY <1>4, <2>1
  <2>3. Good(f[0], 0)
    BY <2>1, <2>2
  <2> HIDE DEF Good
  <2> QED BY <2>3
<1>6. ASSUME NEW k \in Nat, k \in N PROVE k + 1 \in N
  <2>0. k + 1 \in Nat
    OBVIOUS
  <2>1. ASSUME k + 1 <= z - a PROVE Good(f[k + 1], k + 1)
    <3>1. k <= z - a /\ k + 1 \in 0..Len(s) /\ (k + 1) - 1 = k /\ k + 1 # 0 /\ k + 1 \in 1..(z - a)
      BY <1>3, <2>1
    <3>2. Good(f[k], k)
      BY <1>6, <3>1
    <3>3. f[k + 1] = ConsiderEmitLine(f[k], s[k + 1])
      BY <1>4, <3>1
    <3>4. PICK j \in Nat : j = a + k /\ j + 1 = a + (k + 1) /\ j + 1 < Len(ls) /\ j < Len(ls)
      BY <1>1, <2>1
    <3>5. s[k + 1] = ls[j + 1]
      BY <1>3, <3>1, <3>4
    <3>6. PICK q : q = f[k]
      OBVIOUS
    <3>7. q \in RelayType /\ SaidTo(q, ls, j) /\ q.lines = r.lines /\ q.buffer = r.buffer /\ q.upto = r.upto
      BY <3>2, <3>4, <3>6
    <3>8. PICK new : new = ConsiderEmitLine(q, ls[j + 1])
      OBVIOUS
    <3>9. new \in RelayType /\ new.lines = q.lines /\ new.buffer = q.buffer /\ new.upto = q.upto
      <4>1. Speaks(q, new, j, ls[j + 1].text)
        BY <3>4, <3>7, <3>8, EmitOne
      <4> QED BY <4>1 DEF Speaks
    <3>10. SaidTo(new, ls, j + 1)
      BY <3>4, <3>7, <3>8, EmitNext
    <3> QED BY <3>3, <3>4, <3>5, <3>6, <3>7, <3>8, <3>9, <3>10
  <2> HIDE DEF Good
  <2> QED BY <2>0, <2>1
<1>7. Good(f[z - a], z - a)
  <2>1. z - a \in Nat
    BY <1>3
  <2>2. z - a \in N
    <3> HIDE DEF N
    <3> QED BY <1>5, <1>6, <2>1, NatInd
  <2> HIDE DEF Good
  <2> QED BY <2>1, <2>2
<1>8. a + (z - a) = z
  OBVIOUS
<1> QED BY <1>2, <1>3, <1>4, <1>7, <1>8


(* The lines before the last, which may still grow.                        *)
Before(ls) == IF ls = <<>> THEN 0 ELSE Len(ls) - 1

(* b is a, with its last line longer, and lines after it.                  *)
Grows(a, b) ==
  /\ Len(a) <= Len(b)
  /\ \A i \in 1..Len(a) : i < Len(a) => a[i] = b[i]
  /\ a # <<>> => IsPrefix(a[Len(a)].text, b[Len(a)].text)

(* What a relay has said of its lines.                                     *)
Said(r, ls) ==
  IF ls = <<>> THEN r.settled = <<>> /\ \A k \in Keys : r.emitted[k] = <<>>
  ELSE SaidTo(r, ls, Len(ls) - 1)

RelayOK(r) == r \in RelayType /\ Lines(r.lines) /\ r.upto = Before(r.lines) /\ Said(r, r.lines)

(* What it said of its lines, it said of the longer ones.                  *)
LEMMA SaidGrown ==
  ASSUME NEW r \in RelayType, Lines(r.lines), Said(r, r.lines),
         NEW ls, Lines(ls), ls # <<>>, Grows(r.lines, ls)
  PROVE  SaidTo(r, ls, Before(r.lines)) /\ Before(r.lines) \in Nat /\ Before(r.lines) <= Len(ls) - 1
<1>1. PICK a : a = r.lines
  OBVIOUS
<1>2. a \in Seq(LineType) /\ Len(a) \in Nat /\ ls \in Seq(LineType) /\ Len(ls) \in Nat /\ Len(ls) > 0 /\ Len(a) <= Len(ls)
  BY <1>1 DEF Lines, Grows
<1>3. CASE a = <<>>
  <2>1. Before(r.lines) = 0
    BY <1>1, <1>3 DEF Before
  <2>2. 1 \in 1..Len(ls) /\ 1 - 1 = 0
    BY <1>2
  <2>3. 0 \in Keys /\ ls[1].text \in Seq(Text)
    BY <2>2, LineIs
  <2>4. r.settled = <<>> /\ \A k \in Keys : r.emitted[k] = <<>>
    BY <1>1, <1>3 DEF Said
  <2>5. r.emitted[0] = <<>>
    BY <2>3, <2>4
  <2>6. IsPrefix(r.emitted[0], ls[0 + 1].text)
    <3>1. 0 + 1 = 1
      OBVIOUS
    <3>2. IsPrefix(<<>>, ls[1].text)
      BY <2>3 DEF IsPrefix
    <3> QED BY <2>5, <3>1, <3>2
  <2>7. Texts(SubSeq(ls, 1, 0)) = <<>>
    <3>1. SubSeq(ls, 1, 0) = <<>>
      BY <1>2
    <3> QED BY <3>1, TextsNone
  <2>8. r.settled = Texts(SubSeq(ls, 1, 0)) \o r.emitted[0]
    BY <2>4, <2>5, <2>7
  <2>9. \A i \in 1..0 : r.emitted[i - 1] = ls[i].text
    OBVIOUS
  <2>10. SaidTo(r, ls, 0)
    BY <2>4, <2>6, <2>8, <2>9 DEF SaidTo
  <2> QED BY <1>2, <2>1, <2>10
<1>4. CASE a # <<>>
  <2>1. PICK j \in Nat : j = Len(a) - 1
    BY <1>2, <1>4
  <2>2. Before(r.lines) = j /\ SaidTo(r, a, j) /\ j + 1 = Len(a) /\ j <= Len(ls) - 1
    BY <1>1, <1>2, <1>4, <2>1 DEF Before, Said
  <2>3. ASSUME NEW i \in 1..j PROVE a[i] = ls[i]
    <3>1. i \in 1..Len(a) /\ i < Len(a)
      BY <1>2, <2>1
    <3> QED BY <1>1, <3>1 DEF Grows
  <2>4. SubSeq(a, 1, j) = SubSeq(ls, 1, j)
    <3>1. j <= Len(a) /\ j <= Len(ls)
      BY <1>2, <2>1
    <3>2. /\ SubSeq(a, 1, j) \in Seq(LineType) /\ Len(SubSeq(a, 1, j)) = j
          /\ \A i \in 1..j : SubSeq(a, 1, j)[i] = a[i]
      BY <1>2, <3>1
    <3>3. /\ SubSeq(ls, 1, j) \in Seq(LineType) /\ Len(SubSeq(ls, 1, j)) = j
          /\ \A i \in 1..j : SubSeq(ls, 1, j)[i] = ls[i]
      BY <1>2, <3>1
    <3> QED BY <2>3, <3>2, <3>3, SeqEqual
  <2>5. j + 1 \in 1..Len(a) /\ j + 1 \in 1..Len(ls) /\ (j + 1) - 1 = j
    BY <1>2, <2>1
  <2>6. a[j + 1].text \in Seq(Text) /\ ls[j + 1].text \in Seq(Text) /\ j \in Keys
    BY <1>1, <2>5, LineIs
  <2>7. r.emitted[j] \in Seq(Text)
    BY <2>6 DEF RelayType
  <2>8. IsPrefix(a[j + 1].text, ls[j + 1].text)
    BY <1>1, <1>4, <2>2 DEF Grows
  <2>9. IsPrefix(r.emitted[j], a[j + 1].text)
    BY <2>2 DEF SaidTo
  <2>10. IsPrefix(r.emitted[j], ls[j + 1].text)
    BY <2>6, <2>7, <2>8, <2>9, PrefixOn
  <2>11. \A i \in 1..j : r.emitted[i - 1] = ls[i].text
    BY <2>2, <2>3 DEF SaidTo
  <2>12. r.settled = Texts(SubSeq(ls, 1, j)) \o r.emitted[j]
    BY <2>2, <2>4 DEF SaidTo
  <2>13. \A k \in Keys : k > j => r.emitted[k] = <<>>
    BY <2>2 DEF SaidTo
  <2>14. SaidTo(r, ls, j)
    BY <2>10, <2>11, <2>12, <2>13 DEF SaidTo
  <2> QED BY <2>2, <2>14
<1> QED BY <1>3, <1>4

LEMMA EmitNone ==
  ASSUME NEW r
  PROVE  EmitLines(r, <<>>) = r
<1>1. Len(<<>>) = 0 /\ DOMAIN <<>> = 1..Len(<<>>)
  OBVIOUS
<1>2. PICK f : /\ f = [k \in 0..Len(<<>>) |-> IF k = 0 THEN r ELSE ConsiderEmitLine(f[k - 1], <<>>[k])]
               /\ EmitLines(r, <<>>) = f[Len(<<>>)]
  BY <1>1, EmitLinesIs
<1>3. 0 \in 0..Len(<<>>)
  BY <1>1
<1> QED BY <1>1, <1>2, <1>3

(* _maybe_flush_stable_tail says nothing but the tail.                     *)
LEMMA FlushStable ==
  ASSUME NEW r \in RelayType, NEW ls, Lines(ls), Said(r, ls)
  PROVE  LET new == MaybeFlushStableTail(r, ls)
         IN  /\ new \in RelayType /\ Said(new, ls)
             /\ new.lines = r.lines /\ new.buffer = r.buffer /\ new.upto = r.upto
<1>1. ls \in Seq(LineType) /\ Len(ls) \in Nat
  BY DEF Lines
<1>2. CASE ls = <<>>
  <2>0. PICK key, text, count : key = NoKey /\ text = <<>> /\ count = 0
    OBVIOUS
  <2>3. key \in Keys \cup {NoKey} /\ text \in Seq(Text) /\ count \in Int
    BY <2>0
  <2>1. PICK new : new = [r EXCEPT !.stableKey = key, !.stableText = text, !.stableCount = count]
    OBVIOUS
  <2>2. MaybeFlushStableTail(r, ls) = new
    BY <1>2, <2>0, <2>1 DEF MaybeFlushStableTail
  <2>4. /\ new \in RelayType /\ new.lines = r.lines /\ new.buffer = r.buffer /\ new.upto = r.upto
        /\ new.emitted = r.emitted /\ new.settled = r.settled
    BY <2>1, <2>3 DEF RelayType
  <2>5. Said(new, ls)
    BY <1>2, <2>4 DEF Said
  <2> QED BY <2>2, <2>4, <2>5
<1>3. CASE ls # <<>>
  <2>0. Len(ls) > 0
    BY <1>1, <1>3
  <2>1. PICK j \in Nat : j = Len(ls) - 1 /\ j + 1 = Len(ls) /\ j < Len(ls)
    BY <1>1, <2>0, SMTT(30)
  <2>2. SaidTo(r, ls, j)
    BY <1>3, <2>1 DEF Said
  <2>3. j + 1 \in 1..Len(ls) /\ (j + 1) - 1 = j
    BY <2>1
  <2>4. PICK tail \in LineType : tail = ls[j + 1] /\ tail.key \in Keys /\ tail.text \in Seq(Text)
    BY <2>3, LineIs
  <2>5. Last(ls) = tail
    BY <2>1, <2>4 DEF Last
  <2>6. PICK count : count = IF tail.text = <<>> \/ r.buffer # <<>> THEN 0
                             ELSE IF tail.key = r.stableKey /\ tail.text = r.stableText THEN r.stableCount + 1
                             ELSE 1
    OBVIOUS
  <2>7. PICK some : some = IF count > StableSnapshots THEN StableSnapshots ELSE count
    OBVIOUS
  <2>8. some \in Int
    <3>1. r.stableCount \in Int
      BY DEF RelayType
    <3>2. count \in Int
      BY <2>6, <3>1
    <3> QED BY <2>7, <3>2, RelayAssumption
  <2>9. PICK q : q = [r EXCEPT !.stableKey = tail.key, !.stableText = tail.text, !.stableCount = some]
    OBVIOUS
  <2>10. MaybeFlushStableTail(r, ls) = IF count >= StableSnapshots THEN ConsiderEmitLine(q, tail) ELSE q
    BY <1>3, <2>5, <2>6, <2>7, <2>9 DEF MaybeFlushStableTail
  <2>11. /\ q \in RelayType /\ q.lines = r.lines /\ q.buffer = r.buffer /\ q.upto = r.upto
         /\ q.emitted = r.emitted /\ q.settled = r.settled
    BY <2>4, <2>8, <2>9 DEF RelayType
  <2>12. SaidTo(q, ls, j)
    BY <2>2, <2>11, SaidSame
  <2>13. PICK p : p = ConsiderEmitLine(q, ls[j + 1])
    OBVIOUS
  <2>14. SaidTo(p, ls, j)
    BY <2>1, <2>11, <2>12, <2>13, EmitTail
  <2>15. Speaks(q, p, j, ls[j + 1].text)
    BY <2>1, <2>11, <2>12, <2>13, EmitOne
  <2>16. p \in RelayType /\ p.lines = q.lines /\ p.buffer = q.buffer /\ p.upto = q.upto
    BY <2>15 DEF Speaks
  <2>17. Said(q, ls) /\ Said(p, ls)
    BY <1>3, <2>1, <2>12, <2>14 DEF Said
  <2>18. MaybeFlushStableTail(r, ls) \in {p, q}
    BY <2>4, <2>10, <2>13
  <2> QED BY <2>11, <2>16, <2>17, <2>18
<1> QED BY <1>2, <1>3

(***************************************************************************)
(* One answer, and the close.                                              *)
(***************************************************************************)
AnswerType == [lines : Seq(Seq(LineType)), buffer : Seq(Seq(Text)), final : BOOLEAN]

LEMMA AnswerIs ==
  ASSUME NEW a \in AnswerType
  PROVE  /\ a.lines \in Seq(Seq(LineType)) /\ a.buffer \in Seq(Seq(Text)) /\ a.final \in BOOLEAN
         /\ a.lines # <<>> => a.lines[1] \in Seq(LineType)
         /\ a.buffer # <<>> => a.buffer[1] \in Seq(Text)
<1>1. a.lines \in Seq(Seq(LineType)) /\ a.buffer \in Seq(Seq(Text)) /\ a.final \in BOOLEAN
  BY DEF AnswerType
<1>2. a.lines # <<>> => Len(a.lines) > 0
  BY <1>1
<1>3. a.buffer # <<>> => Len(a.buffer) > 0
  BY <1>1
<1>4. a.lines # <<>> => a.lines[1] \in Seq(LineType)
  BY <1>1, <1>2
<1>5. a.buffer # <<>> => a.buffer[1] \in Seq(Text)
  BY <1>1, <1>3
<1> QED BY <1>1, <1>4, <1>5

(* _consume of an answer that shows lines.                                 *)
LEMMA HearLines ==
  ASSUME NEW r \in RelayType, RelayOK(r), NEW a \in AnswerType, a.lines # <<>>,
         Lines(a.lines[1]), Grows(r.lines, a.lines[1])
  PROVE  LET new == Hear(r, a)
         IN  /\ RelayOK(new) /\ new.lines = a.lines[1]
             /\ new.buffer = IF a.buffer = <<>> THEN r.buffer ELSE a.buffer[1]
<1>1. PICK ls : ls = a.lines[1]
  OBVIOUS
<1>2. Lines(ls) /\ Grows(r.lines, ls) /\ ls \in Seq(LineType) /\ Len(ls) \in Nat
  BY <1>1 DEF Lines
<1>3. PICK flight : flight = IF a.buffer = <<>> THEN r.buffer ELSE a.buffer[1]
  OBVIOUS
<1>4. flight \in Seq(Text)
  <2>1. r.buffer \in Seq(Text)
    BY DEF RelayType
  <2> QED BY <1>3, <2>1, AnswerIs
<1>5. PICK b : b = IF a.buffer = <<>> THEN r ELSE [r EXCEPT !.buffer = a.buffer[1]]
  OBVIOUS
<1>6. /\ b \in RelayType /\ b.buffer = flight /\ b.emitted = r.emitted /\ b.settled = r.settled
      /\ b.upto = r.upto
  <2>1. CASE a.buffer = <<>>
    BY <1>3, <1>5, <2>1
  <2>2. CASE a.buffer # <<>>
    <3>1. b = [r EXCEPT !.buffer = flight]
      BY <1>3, <1>5, <2>2
    <3> QED BY <1>4, <3>1 DEF RelayType
  <2> QED BY <2>1, <2>2
<1>7. PICK shown : shown = [b EXCEPT !.lines = ls]
  OBVIOUS
<1>8. /\ shown \in RelayType /\ shown.buffer = flight /\ shown.emitted = r.emitted /\ shown.settled = r.settled
      /\ shown.upto = r.upto /\ shown.lines = ls
  BY <1>2, <1>6, <1>7 DEF RelayType
<1>9. PICK z : z = IF ls = <<>> THEN 0 ELSE Len(ls) - 1
  OBVIOUS
<1>10. z = Before(ls) /\ z \in Nat
  <2>1. ls # <<>> => Len(ls) > 0
    BY <1>2
  <2> QED BY <1>2, <1>9, <2>1 DEF Before
<1>11. PICK settled : settled = EmitLines(shown, SubSeq(ls, r.upto + 1, z))
  OBVIOUS
<1>12. PICK top : top = IF z > r.upto THEN z ELSE r.upto
  OBVIOUS
<1>13. PICK next : next = [settled EXCEPT !.upto = top]
  OBVIOUS
<1>14. Hear(r, a) = MaybeFlushStableTail(next, ls)
  <2>1. settled.upto = r.upto => next = [settled EXCEPT !.upto = IF z > @ THEN z ELSE @]
    BY <1>12, <1>13
  <2>2. settled.upto = r.upto => Hear(r, a) = MaybeFlushStableTail(next, ls)
    BY <1>1, <1>5, <1>7, <1>9, <1>11, <2>1 DEF Hear
  <2>3. settled.upto = r.upto
    PROOF
    <3>1. CASE ls = <<>>
      <4>1. r.lines = <<>>
        BY <1>2, <3>1 DEF Grows, RelayOK, Lines
      <4>2. r.upto = 0
        BY <4>1 DEF RelayOK, Before
      <4>3. SubSeq(ls, r.upto + 1, z) = <<>>
        BY <1>9, <3>1, <4>2
      <4> QED BY <1>8, <1>11, <4>3, EmitNone
    <3>2. CASE ls # <<>>
      <4>1. SaidTo(r, ls, r.upto) /\ r.upto \in Nat /\ r.upto <= z
        BY <1>2, <1>9, <3>2, SaidGrown DEF RelayOK
      <4>2. SaidTo(shown, ls, r.upto)
        BY <1>8, <4>1, SaidSame
      <4>3. z < Len(ls)
        BY <1>2, <1>9, <3>2
      <4>4. settled.upto = shown.upto
        BY <1>2, <1>8, <1>10, <1>11, <4>1, <4>2, <4>3, EmitUpTo
      <4> QED BY <1>8, <4>4
    <3> QED BY <3>1, <3>2
  <2> QED BY <2>2, <2>3
<1>15. next \in RelayType /\ Said(next, ls) /\ next.lines = ls /\ next.buffer = flight /\ next.upto = z
  <2>1. CASE ls = <<>>
    <3>1. r.lines = <<>>
      BY <1>2, <2>1 DEF Grows, RelayOK, Lines
    <3>2. r.upto = 0 /\ z = 0
      BY <1>9, <2>1, <3>1 DEF RelayOK, Before
    <3>3. SubSeq(ls, r.upto + 1, z) = <<>>
      BY <2>1, <3>2
    <3>4. settled = shown
      BY <1>11, <3>3, EmitNone
    <3>5. top = 0
      BY <1>12, <3>2
    <3>6. /\ next \in RelayType /\ next.lines = ls /\ next.buffer = flight /\ next.upto = z
          /\ next.emitted = r.emitted /\ next.settled = r.settled
      BY <1>8, <1>13, <3>2, <3>4, <3>5 DEF RelayType
    <3>7. Said(r, r.lines)
      BY DEF RelayOK
    <3>8. Said(next, ls)
      BY <2>1, <3>1, <3>6, <3>7 DEF Said
    <3> QED BY <3>6, <3>8
  <2>2. CASE ls # <<>>
    <3>1. SaidTo(r, ls, r.upto) /\ r.upto \in Nat /\ r.upto <= z
      BY <1>2, <1>9, <2>2, SaidGrown DEF RelayOK
    <3>2. SaidTo(shown, ls, r.upto)
      BY <1>8, <3>1, SaidSame
    <3>3. z < Len(ls) /\ z = Len(ls) - 1
      BY <1>2, <1>9, <2>2
    <3>4. settled \in RelayType /\ SaidTo(settled, ls, z) /\ settled.lines = ls /\ settled.buffer = flight
      BY <1>2, <1>8, <1>10, <1>11, <3>1, <3>2, <3>3, EmitUpTo
    <3>5. top = z
      BY <1>10, <1>12, <3>1
    <3>6. /\ next \in RelayType /\ next.lines = ls /\ next.buffer = flight /\ next.upto = z
          /\ next.emitted = settled.emitted /\ next.settled = settled.settled
      BY <1>10, <1>13, <3>4, <3>5 DEF RelayType
    <3>7. SaidTo(next, ls, z)
      BY <3>4, <3>6, SaidSame
    <3> QED BY <2>2, <3>3, <3>6, <3>7 DEF Said
  <2> QED BY <2>1, <2>2
<1>16. PICK new : new = MaybeFlushStableTail(next, ls)
  OBVIOUS
<1>17. /\ new \in RelayType /\ Said(new, ls)
       /\ new.lines = next.lines /\ new.buffer = next.buffer /\ new.upto = next.upto
  BY <1>2, <1>15, <1>16, FlushStable
<1>18. RelayOK(new)
  BY <1>2, <1>10, <1>15, <1>17 DEF RelayOK
<1> QED BY <1>1, <1>3, <1>14, <1>15, <1>16, <1>17, <1>18

LEMMA HearNone ==
  ASSUME NEW r \in RelayType, RelayOK(r), NEW a \in AnswerType, a.lines = <<>>
  PROVE  LET new == Hear(r, a)
         IN  /\ RelayOK(new) /\ new.lines = r.lines
             /\ new.buffer = IF a.buffer = <<>> THEN r.buffer ELSE a.buffer[1]
<1>1. CASE a.buffer = <<>>
  <2>1. Hear(r, a) = r
    BY <1>1 DEF Hear
  <2> QED BY <1>1, <2>1
<1>2. CASE a.buffer # <<>>
  <2>1. PICK flight : flight = a.buffer[1]
    OBVIOUS
  <2>2. flight \in Seq(Text)
    BY <1>2, <2>1, AnswerIs
  <2>3. PICK new : new = [r EXCEPT !.buffer = flight]
    OBVIOUS
  <2>4. Hear(r, a) = new
    BY <1>2, <2>1, <2>3 DEF Hear
  <2>5. /\ new \in RelayType /\ new.buffer = flight /\ new.lines = r.lines /\ new.upto = r.upto
        /\ new.emitted = r.emitted /\ new.settled = r.settled
    BY <2>2, <2>3 DEF RelayType
  <2>6. Said(new, new.lines)
    <3>1. CASE r.lines = <<>>
      BY <2>5, <3>1 DEF RelayOK, Said
    <3>2. CASE r.lines # <<>>
      <4>1. SaidTo(r, r.lines, Len(r.lines) - 1)
        BY <3>2 DEF RelayOK, Said
      <4>2. SaidTo(new, r.lines, Len(r.lines) - 1)
        BY <2>5, <4>1, SaidSame
      <4> QED BY <2>5, <3>2, <4>2 DEF Said
    <3> QED BY <3>1, <3>2
  <2>7. RelayOK(new)
    BY <2>5, <2>6 DEF RelayOK
  <2> QED BY <1>2, <2>1, <2>4, <2>5, <2>7
<1> QED BY <1>1, <1>2

(* What the relay has said of its lines begins what they say.              *)
LEMMA SaidBegins ==
  ASSUME NEW r \in RelayType, RelayOK(r)
  PROVE  IsPrefix(r.settled, Texts(r.lines))
<1>1. PICK ls : ls = r.lines
  OBVIOUS
<1>2. Lines(ls) /\ ls \in Seq(LineType) /\ Len(ls) \in Nat /\ Said(r, ls)
  BY <1>1 DEF RelayOK, Lines
<1>3. CASE ls = <<>>
  <2>1. r.settled = <<>> /\ Texts(ls) = <<>>
    BY <1>2, <1>3, TextsNone DEF Said
  <2> QED BY <1>1, <2>1 DEF IsPrefix
<1>4. CASE ls # <<>>
  <2>0. Len(ls) > 0
    BY <1>2, <1>4
  <2>a. PICK j \in Nat : j = Len(ls) - 1
    BY <1>2, <2>0
  <2>1. j + 1 = Len(ls) /\ j < Len(ls) /\ j + 1 \in 1..Len(ls) /\ (j + 1) - 1 = j
    BY <1>2, <2>a
  <2>2. SaidTo(r, ls, j)
    BY <1>2, <1>4, <2>a, <2>1 DEF Said
  <2>3. ls[j + 1].text \in Seq(Text) /\ j \in Keys
    BY <1>2, <2>1, LineIs
  <2>4. PICK said, text, before : said = r.emitted[j] /\ text = ls[j + 1].text /\ before = Texts(SubSeq(ls, 1, j))
    OBVIOUS
  <2>5. said \in Seq(Text) /\ text \in Seq(Text)
    BY <2>3, <2>4 DEF RelayType
  <2>6. before \in Seq(Text)
    <3>1. SubSeq(ls, 1, j) \in Seq(LineType)
      BY <1>2, <2>1
    <3> QED BY <2>4, <3>1, TextsType
  <2>7. r.settled = before \o said /\ IsPrefix(said, text)
    BY <2>2, <2>4 DEF SaidTo
  <2>8. Texts(ls) = before \o text
    <3>1. SubSeq(ls, 1, j + 1) = ls
      BY <1>2, <2>1
    <3>2. Texts(SubSeq(ls, 1, j + 1)) = before \o text
      BY <1>2, <2>1, <2>4, TextsNext
    <3> QED BY <3>1, <3>2
  <2>9. IsPrefix(before \o said, before \o text)
    <3>1. Len(said) <= Len(text) /\ Len(said) \in Nat /\ Len(text) \in Nat /\ Len(before) \in Nat
      BY <2>5, <2>6, <2>7 DEF IsPrefix
    <3>2. SubSeq(said, 1, Len(said)) = SubSeq(text, 1, Len(said))
      BY <2>7 DEF IsPrefix
    <3>3. \A i \in 1..Len(said) : SubSeq(said, 1, Len(said))[i] = said[i] /\ SubSeq(text, 1, Len(said))[i] = text[i]
      BY <2>5, <3>1
    <3>4. \A i \in 1..Len(said) : said[i] = text[i]
      BY <3>2, <3>3
    <3>5. PICK p, q : p = before \o said /\ q = before \o text
      OBVIOUS
    <3>6. p \in Seq(Text) /\ q \in Seq(Text) /\ Len(p) = Len(before) + Len(said) /\ Len(q) = Len(before) + Len(text)
      BY <2>5, <2>6, <3>5
    <3>7. ASSUME NEW i \in 1..Len(p) PROVE p[i] = q[i]
      <4>0. i \in 1..(Len(before) + Len(said)) /\ i \in 1..(Len(before) + Len(text))
        BY <3>1, <3>6
      <4>1. CASE i <= Len(before)
        BY <2>5, <2>6, <3>1, <3>5, <4>0, <4>1
      <4>2. CASE i > Len(before)
        <5>1. p[i] = said[i - Len(before)]
          BY <2>5, <2>6, <3>5, <3>6, <4>2, ConcatIs
        <5>2. q[i] = text[i - Len(before)]
          BY <2>5, <2>6, <3>1, <3>5, <3>6, <4>0, <4>2, ConcatIs
        <5>3. i - Len(before) \in 1..Len(said)
          BY <3>1, <4>0, <4>2
        <5> QED BY <3>4, <5>1, <5>2, <5>3
      <4>3. i <= Len(before) \/ i > Len(before)
        BY <3>1, <4>0
      <4> QED BY <4>1, <4>2, <4>3
    <3>8. Len(p) <= Len(q) /\ Len(p) \in Nat
      BY <3>1, <3>6
    <3>9. SubSeq(p, 1, Len(p)) = SubSeq(q, 1, Len(p))
      <4>1. /\ SubSeq(p, 1, Len(p)) \in Seq(Text) /\ Len(SubSeq(p, 1, Len(p))) = Len(p)
            /\ \A i \in 1..Len(p) : SubSeq(p, 1, Len(p))[i] = p[i]
        BY <3>6, <3>8
      <4>2. /\ SubSeq(q, 1, Len(p)) \in Seq(Text) /\ Len(SubSeq(q, 1, Len(p))) = Len(p)
            /\ \A i \in 1..Len(p) : SubSeq(q, 1, Len(p))[i] = q[i]
        BY <3>6, <3>8
      <4> QED BY <3>7, <4>1, <4>2, SeqEqual
    <3>10. IsPrefix(p, q)
      BY <3>8, <3>9 DEF IsPrefix
    <3> QED BY <3>5, <3>10
  <2> QED BY <1>1, <2>7, <2>8, <2>9
<1> QED BY <1>3, <1>4

(* _flush_tail: what was left of the lines, then the words in flight.      *)
LEMMA FlushIs ==
  ASSUME NEW r \in RelayType, RelayOK(r)
  PROVE  LET new == FlushTail(r)
         IN  /\ new.lines = r.lines /\ new.buffer = <<>> /\ new.settled = Texts(r.lines) \o r.buffer
<1>1. PICK ls : ls = r.lines
  OBVIOUS
<1>2. Lines(ls) /\ ls \in Seq(LineType) /\ Len(ls) \in Nat /\ DOMAIN ls = 1..Len(ls) /\ Said(r, ls)
  BY <1>1 DEF RelayOK, Lines
<1>3. PICK f : /\ f = [k \in 0..Len(ls) |-> IF k = 0 THEN r ELSE ConsiderEmitLine(f[k - 1], ls[k])]
               /\ EmitLines(r, ls) = f[Len(ls)]
  BY <1>2, EmitLinesIs
<1>4. PICK settled : settled = f[Len(ls)]
  OBVIOUS
<1>5. settled \in RelayType /\ settled.lines = ls /\ settled.buffer = r.buffer /\ settled.settled = Texts(ls)
  <2>1. CASE ls = <<>>
    <3>1. settled = r
      BY <1>3, <1>4, <2>1, EmitNone
    <3> QED BY <1>1, <1>2, <2>1, <3>1, TextsNone DEF Said
  <2>2. CASE ls # <<>>
    <3>0. Len(ls) > 0
      BY <1>2, <2>2
    <3>b. Len(ls) \in Nat /\ ls \in Seq(LineType)
      BY <1>2
    <3>a. PICK j \in Nat : j = Len(ls) - 1
      BY <3>0, <3>b
    <3>1. j + 1 = Len(ls) /\ j < Len(ls) /\ j + 1 \in 0..Len(ls) /\ j + 1 # 0 /\ (j + 1) - 1 = j
      BY <3>a, <3>b
    <3>2. SaidTo(r, ls, j)
      BY <1>2, <2>2, <3>a, <3>1 DEF Said
    <3> DEFINE N == {k \in Nat : k <= j => f[k] = r}
    <3>3. 0 \in N
      <4>1. 0 \in 0..Len(ls)
        BY <1>2
      <4> QED BY <1>3, <4>1
    <3>4. ASSUME NEW k \in Nat, k \in N PROVE k + 1 \in N
      <4>1. ASSUME k + 1 <= j PROVE f[k + 1] = r
        <5>1. k <= j /\ k + 1 \in 0..Len(ls) /\ (k + 1) - 1 = k /\ k + 1 # 0 /\ k + 1 \in 1..j /\ k + 1 \in 1..Len(ls)
          BY <3>1, <4>1
        <5>2. f[k + 1] = ConsiderEmitLine(r, ls[k + 1])
          BY <1>3, <3>4, <5>1
        <5>3. r.emitted[(k + 1) - 1] = ls[k + 1].text
          BY <3>2, <5>1 DEF SaidTo
        <5>4. ls[k + 1].key = (k + 1) - 1
          BY <1>2, <5>1, LineIs
        <5> QED BY <5>2, <5>3, <5>4 DEF ConsiderEmitLine
      <4>2. k + 1 \in Nat
        OBVIOUS
      <4> QED BY <4>1, <4>2
    <3>5. f[j] = r
      <4>1. j \in N
        <5> HIDE DEF N
        <5> QED BY <3>3, <3>4, NatInd
      <4> QED BY <4>1
    <3>6. settled = ConsiderEmitLine(r, ls[j + 1])
      BY <1>3, <1>4, <3>1, <3>5
    <3>c. j < Len(ls)
      BY <3>1
    <3>d. Lines(ls)
      BY <1>2
    <3>7. Speaks(r, settled, j, ls[j + 1].text)
      BY <3>2, <3>6, <3>c, <3>d, EmitOne
    <3>8. settled.settled = Texts(SubSeq(ls, 1, j + 1))
      BY <3>2, <3>6, <3>c, <3>d, EmitOne, ZenonT(30)
    <3>9. SubSeq(ls, 1, j + 1) = ls
      BY <3>b, <3>1
    <3>10. settled \in RelayType /\ settled.lines = r.lines /\ settled.buffer = r.buffer
      BY <3>7 DEF Speaks
    <3> QED BY <1>1, <3>8, <3>9, <3>10
  <2> QED BY <2>1, <2>2
<1>6. PICK said : said = settled.settled \o r.buffer
  BY ZenonT(30)
<1>7. PICK new : new = [settled EXCEPT !.settled = said, !.buffer = <<>>]
  OBVIOUS
<1>8. FlushTail(r) = new
  BY <1>1, <1>3, <1>4, <1>6, <1>7, ZenonT(30) DEF FlushTail
<1>9. new.lines = settled.lines /\ new.buffer = <<>> /\ new.settled = said
  BY <1>5, <1>7 DEF RelayType
<1> QED BY <1>1, <1>5, <1>6, <1>8, <1>9

(***************************************************************************)
(* The answers on their way: each shows the lines of the one before, or    *)
(* longer ones, and the last one all of them.                              *)
(***************************************************************************)
Shown(a) == a.lines[1]

Between(ls, a, more) == a.lines # <<>> => Lines(Shown(a)) /\ Grows(ls, Shown(a)) /\ Grows(Shown(a), more)

Follows(a, b) == a.lines # <<>> /\ b.lines # <<>> => Grows(Shown(a), Shown(b))

Chain(shown, queue, ls) ==
  /\ Lines(shown) /\ Lines(ls) /\ Grows(shown, ls) /\ queue \in Seq(AnswerType)
  /\ \A i \in 1..Len(queue) : Between(shown, queue[i], ls)
  /\ \A i, j \in 1..Len(queue) : i < j => Follows(queue[i], queue[j])

(* An answer with all of the lines, and nothing in flight.                 *)
ShowsAll(a, ls) == a.lines # <<>> /\ Shown(a) = ls /\ a.buffer # <<>> /\ a.buffer[1] = <<>>

Ends(r, queue, i, ls) ==
  IF queue[i].lines # <<>> THEN ShowsAll(queue[i], ls)
  ELSE /\ queue[i].buffer = <<>>
       /\ IF i = 1 THEN r.lines = ls /\ r.buffer = <<>> ELSE ShowsAll(queue[i - 1], ls)

LastEnds(r, queue, ls) == \A i \in 1..Len(queue) : queue[i].final => i = Len(queue) /\ Ends(r, queue, i, ls)

LEMMA GrowsOn ==
  ASSUME NEW a, Lines(a), NEW b, Lines(b), NEW c, Lines(c), Grows(a, b), Grows(b, c)
  PROVE  Grows(a, c)
<1>1. /\ a \in Seq(LineType) /\ b \in Seq(LineType) /\ c \in Seq(LineType)
      /\ Len(a) \in Nat /\ Len(b) \in Nat /\ Len(c) \in Nat /\ Len(a) <= Len(b) /\ Len(b) <= Len(c)
  BY DEF Lines, Grows
<1>2. ASSUME NEW i \in 1..Len(a), i < Len(a) PROVE a[i] = c[i]
  <2>1. a[i] = b[i]
    BY <1>2 DEF Grows
  <2>2. i \in 1..Len(b) /\ i < Len(b)
    BY <1>1, <1>2
  <2>3. b[i] = c[i]
    BY <2>2 DEF Grows
  <2> QED BY <2>1, <2>3
<1>3. ASSUME a # <<>> PROVE IsPrefix(a[Len(a)].text, c[Len(a)].text)
  <2>1. Len(a) > 0
    BY <1>1, <1>3
  <2>2. PICK n \in Nat : n = Len(a) /\ n \in 1..Len(a) /\ n \in 1..Len(b) /\ n \in 1..Len(c)
    BY <1>1, <2>1
  <2>3. a[n].text \in Seq(Text) /\ b[n].text \in Seq(Text) /\ c[n].text \in Seq(Text)
    BY <2>2, LineIs
  <2>4. IsPrefix(a[n].text, b[n].text)
    BY <1>3, <2>2 DEF Grows
  <2>5. IsPrefix(b[n].text, c[n].text)
    <3>1. CASE n < Len(b)
      <4>1. b[n] = c[n]
        BY <2>2, <3>1 DEF Grows
      <4> QED BY <2>3, <4>1, PrefixOf
    <3>2. CASE n = Len(b)
      <4>1. b # <<>>
        BY <2>1, <2>2, <3>2
      <4> QED BY <3>2, <4>1 DEF Grows
    <3>3. n < Len(b) \/ n = Len(b)
      BY <1>1, <2>2
    <3> QED BY <3>1, <3>2, <3>3
  <2>6. IsPrefix(a[n].text, c[n].text)
    BY <2>3, <2>4, <2>5, PrefixOn
  <2> QED BY <2>2, <2>6
<1>4. Len(a) <= Len(c)
  BY <1>1
<1> QED BY <1>2, <1>3, <1>4 DEF Grows

LEMMA GrowsSame ==
  ASSUME NEW a, Lines(a)
  PROVE  Grows(a, a)
<1>1. a \in Seq(LineType) /\ Len(a) \in Nat
  BY DEF Lines
<1>2. ASSUME a # <<>> PROVE IsPrefix(a[Len(a)].text, a[Len(a)].text)
  <2>1. Len(a) > 0
    BY <1>1, <1>2
  <2>2. Len(a) \in 1..Len(a)
    BY <1>1, <2>1
  <2>3. a[Len(a)].text \in Seq(Text)
    BY <2>2, LineIs
  <2> QED BY <2>3, PrefixOf
<1> QED BY <1>1, <1>2 DEF Grows

LEMMA ChainGrows ==
  ASSUME NEW shown, NEW queue, NEW ls, Chain(shown, queue, ls), NEW more, Lines(more), Grows(ls, more)
  PROVE  Chain(shown, queue, more)
<1>1. Lines(shown) /\ Lines(ls) /\ Grows(shown, ls)
  BY DEF Chain
<1>2. Grows(shown, more)
  BY <1>1, GrowsOn
<1>3. ASSUME NEW i \in 1..Len(queue) PROVE Between(shown, queue[i], more)
  <2>1. Between(shown, queue[i], ls)
    BY DEF Chain
  <2> SUFFICES ASSUME queue[i].lines # <<>>
               PROVE  Lines(Shown(queue[i])) /\ Grows(shown, Shown(queue[i])) /\ Grows(Shown(queue[i]), more)
    BY DEF Between
  <2>2. Lines(Shown(queue[i])) /\ Grows(shown, Shown(queue[i])) /\ Grows(Shown(queue[i]), ls)
    BY <2>1 DEF Between
  <2>3. Grows(Shown(queue[i]), more)
    BY <1>1, <2>2, GrowsOn
  <2> QED BY <2>2, <2>3
<1> QED BY <1>1, <1>2, <1>3 DEF Chain

(* An answer with the lines as they are, or none.                     *)
LEMMA ChainAppend ==
  ASSUME NEW shown, NEW queue, NEW ls, Chain(shown, queue, ls), NEW a \in AnswerType, a.lines # <<>> => Shown(a) = ls
  PROVE  Chain(shown, Append(queue, a), ls)
<1>1. Lines(shown) /\ Lines(ls) /\ Grows(shown, ls) /\ queue \in Seq(AnswerType)
  BY DEF Chain
<1>0. queue \in Seq(AnswerType)
  BY <1>1
<1>2. PICK new : new = Append(queue, a)
  OBVIOUS
<1>3. PICK n \in Nat : n = Len(queue)
  BY <1>0
<1>4. /\ new \in Seq(AnswerType) /\ Len(new) = n + 1
      /\ \A i \in 1..n : new[i] = queue[i]
      /\ new[n + 1] = a
  BY <1>0, <1>2, <1>3
<1>5. ASSUME NEW i \in 1..(n + 1) PROVE i \in 1..n \/ i = n + 1
  OBVIOUS
<1>6. Between(shown, a, ls)
  BY <1>1, GrowsSame DEF Between
<1>7. ASSUME NEW i \in 1..Len(new) PROVE Between(shown, new[i], ls)
  <2>1. CASE i \in 1..n
    BY <1>3, <1>4, <2>1 DEF Chain
  <2>2. CASE i = n + 1
    BY <1>4, <1>6, <2>2
  <2> QED BY <1>4, <1>5, <2>1, <2>2
<1>8. ASSUME NEW i \in 1..Len(new), NEW j \in 1..Len(new), i < j PROVE Follows(new[i], new[j])
  <2>1. i \in 1..n
    BY <1>4, <1>8
  <2>2. CASE j \in 1..n
    BY <1>3, <1>4, <1>8, <2>1, <2>2 DEF Chain
  <2>3. CASE j = n + 1
    <3>1. Between(shown, queue[i], ls)
      BY <1>3, <2>1 DEF Chain
    <3> QED BY <1>4, <2>1, <2>3, <3>1 DEF Between, Follows
  <2> QED BY <1>4, <1>5, <2>2, <2>3
<1> QED BY <1>1, <1>2, <1>4, <1>7, <1>8 DEF Chain

LEMMA ChainCut ==
  ASSUME NEW shown, NEW queue, NEW ls, Chain(shown, queue, ls), NEW kept \in 0..Len(queue)
  PROVE  Chain(shown, SubSeq(queue, 1, kept), ls)
<1>1. Lines(shown) /\ Lines(ls) /\ Grows(shown, ls) /\ queue \in Seq(AnswerType)
  BY DEF Chain
<1>0. queue \in Seq(AnswerType)
  BY <1>1
<1>2. PICK new : new = SubSeq(queue, 1, kept)
  OBVIOUS
<1>3. new \in Seq(AnswerType) /\ Len(new) = kept /\ \A i \in 1..kept : new[i] = queue[i] /\ i \in 1..Len(queue)
  BY <1>0, <1>2
<1>4. \A i \in 1..Len(new) : Between(shown, new[i], ls)
  BY <1>3 DEF Chain
<1>5. \A i, j \in 1..Len(new) : i < j => Follows(new[i], new[j])
  BY <1>3 DEF Chain
<1> QED BY <1>1, <1>2, <1>3, <1>4, <1>5 DEF Chain

(* The first was read.                                                     *)
LEMMA ChainRead ==
  ASSUME NEW shown, NEW queue, NEW ls, Chain(shown, queue, ls), queue # <<>>,
         NEW seen, seen = IF Head(queue).lines = <<>> THEN shown ELSE Shown(Head(queue))
  PROVE  Chain(seen, Tail(queue), ls)
<1>1. Lines(shown) /\ Lines(ls) /\ Grows(shown, ls) /\ queue \in Seq(AnswerType)
  BY DEF Chain
<1>0. queue \in Seq(AnswerType)
  BY <1>1
<1>2. PICK new : new = Tail(queue)
  OBVIOUS
<1>3. Len(queue) \in Nat /\ Len(queue) > 0 /\ Head(queue) = queue[1] /\ 1 \in 1..Len(queue)
  BY <1>0
<1>4. /\ new \in Seq(AnswerType) /\ Len(new) = Len(queue) - 1
      /\ \A i \in 1..Len(new) : new[i] = queue[i + 1] /\ i + 1 \in 1..Len(queue) /\ 1 < i + 1
  BY <1>0, <1>2, <1>3
<1>5. CASE queue[1].lines = <<>>
  <2>1. seen = shown
    BY <1>3, <1>5
  <2>2. \A i \in 1..Len(new) : Between(seen, new[i], ls)
    BY <1>4, <2>1 DEF Chain
  <2>3. ASSUME NEW i \in 1..Len(new), NEW j \in 1..Len(new), i < j PROVE Follows(new[i], new[j])
    <3>1. i + 1 < j + 1
      BY <1>4, <2>3
    <3> QED BY <1>4, <3>1 DEF Chain
  <2> QED BY <1>1, <1>2, <1>4, <2>1, <2>2, <2>3 DEF Chain
<1>6. CASE queue[1].lines # <<>>
  <2>1. seen = Shown(queue[1]) /\ Between(shown, queue[1], ls)
    BY <1>3, <1>6 DEF Chain
  <2>2. Lines(seen) /\ Grows(seen, ls)
    BY <1>6, <2>1 DEF Between
  <2>3. ASSUME NEW i \in 1..Len(new) PROVE Between(seen, new[i], ls)
    <3>1. Between(shown, queue[i + 1], ls) /\ Follows(queue[1], queue[i + 1])
      BY <1>3, <1>4 DEF Chain
    <3>2. new[i] = queue[i + 1]
      BY <1>4
    <3> QED BY <1>6, <2>1, <3>1, <3>2 DEF Between, Follows
  <2>4. ASSUME NEW i \in 1..Len(new), NEW j \in 1..Len(new), i < j PROVE Follows(new[i], new[j])
    <3>1. i + 1 < j + 1
      BY <1>4, <2>4
    <3> QED BY <1>4, <3>1 DEF Chain
  <2> QED BY <1>1, <1>2, <1>4, <2>2, <2>3, <2>4 DEF Chain
<1> QED BY <1>5, <1>6

(***************************************************************************)
(* The lines of the session.                                               *)
(***************************************************************************)
LinesOf(w) == IF w.line THEN <<Line(0, w.words)>> ELSE <<>>

LEMMA KeyZero == 0 \in Keys
BY CaptionsAssumption

LEMMA LinesNone == Lines(<<>>)
BY DEF Lines

LEMMA WordsAreText ==
  ASSUME NEW words \in Seq(Word)
  PROVE  words \in Seq(Text)
<1>1. \A i \in 1..Len(words) : words[i] \in Text
  BY DEF Text
<1>2. words = [i \in 1..Len(words) |-> words[i]] /\ Len(words) \in Nat
  OBVIOUS
<1> QED BY <1>1, <1>2

LEMMA LinesOfIs ==
  ASSUME NEW w \in WindowType
  PROVE  /\ Lines(LinesOf(w)) /\ (w.line => LinesOf(w) # <<>> /\ Len(LinesOf(w)) = 1 /\ LinesOf(w)[1].text = w.words)
         /\ ~w.line => LinesOf(w) = <<>>
<1>1. w.words \in Seq(Word)
  BY DEF WindowType
<1>2. w.words \in Seq(Text)
  BY <1>1, WordsAreText
<1>3. CASE w.line
  <2>1. PICK line : line = Line(0, w.words)
    OBVIOUS
  <2>2. line \in LineType /\ line.key = 0 /\ line.text = w.words
    BY <1>2, <2>1, KeyZero DEF Line, LineType
  <2>3. PICK ls : ls = <<line>>
    OBVIOUS
  <2>4. ls \in Seq(LineType) /\ Len(ls) = 1 /\ ls[1] = line /\ ls # <<>>
    BY <2>2, <2>3
  <2>5. \A i \in 1..Len(ls) : ls[i].key = i - 1
    <3>1. \A i \in 1..Len(ls) : i = 1
      BY <2>4
    <3>2. ls[1].key = 1 - 1
      BY <2>2, <2>4
    <3> QED BY <3>1, <3>2
  <2>6. Lines(ls)
    BY <2>4, <2>5 DEF Lines
  <2>7. LinesOf(w) = ls
    BY <1>3, <2>1, <2>3 DEF LinesOf
  <2> QED BY <1>3, <2>2, <2>4, <2>6, <2>7
<1>4. CASE ~w.line
  BY <1>4, LinesNone DEF LinesOf
<1> QED BY <1>3, <1>4

LEMMA LinesOfGrow ==
  ASSUME NEW w \in WindowType, NEW v \in WindowType, w.line => v.line, IsPrefix(w.words, v.words)
  PROVE  Grows(LinesOf(w), LinesOf(v))
<1>1. CASE ~w.line
  <2>1. LinesOf(w) = <<>>
    BY <1>1, LinesOfIs
  <2>2. LinesOf(v) \in Seq(LineType)
    BY LinesOfIs DEF Lines
  <2>3. Len(<<>>) = 0 /\ Len(<<>>) <= Len(LinesOf(v))
    BY <2>2
  <2> QED BY <2>1, <2>3 DEF Grows
<1>2. CASE w.line
  <2>1. Len(LinesOf(w)) = 1 /\ Len(LinesOf(v)) = 1 /\ LinesOf(w)[1].text = w.words /\ LinesOf(v)[1].text = v.words
    BY <1>2, LinesOfIs
  <2>2. \A i \in 1..1 : ~(i < 1)
    OBVIOUS
  <2> QED BY <2>1, <2>2 DEF Grows
<1> QED BY <1>1, <1>2

LEMMA AnswerOf ==
  ASSUME NEW w \in WindowType, NEW final \in BOOLEAN
  PROVE  LET a == Answer(w, final)
         IN  /\ a \in AnswerType /\ a.lines # <<>> /\ Shown(a) = LinesOf(w) /\ a.buffer # <<>>
             /\ a.buffer[1] = w.volatile /\ a.final = final
<1>1. PICK ls : ls = LinesOf(w)
  OBVIOUS
<1>2. ls \in Seq(LineType)
  BY <1>1, LinesOfIs DEF Lines
<1>3. PICK words : words = w.volatile
  OBVIOUS
<1>4. words \in Seq(Text)
  <2>1. words \in Seq(Word)
    BY <1>3 DEF WindowType
  <2> QED BY <2>1, WordsAreText
<1>5. PICK x, y : x = <<ls>> /\ y = <<words>>
  OBVIOUS
<1>6. x \in Seq(Seq(LineType)) /\ x # <<>> /\ x[1] = ls
  BY <1>2, <1>5
<1>7. y \in Seq(Seq(Text)) /\ y # <<>> /\ y[1] = words
  BY <1>4, <1>5
<1>8. PICK a : a = [lines |-> x, buffer |-> y, final |-> final]
  OBVIOUS
<1>9. Answer(w, final) = a
  BY <1>1, <1>3, <1>5, <1>8 DEF Answer, LinesOf
<1>10. a \in AnswerType /\ a.lines = x /\ a.buffer = y /\ a.final = final
  BY <1>6, <1>7, <1>8 DEF AnswerType
<1> QED BY <1>1, <1>3, <1>6, <1>7, <1>9, <1>10 DEF Shown

(* whisperlivekit's lines only grow at their end.                          *)
LEMMA GrownIs ==
  ASSUME NEW ls, Lines(ls), NEW more \in Grown(ls)
  PROVE  Lines(more) /\ Grows(ls, more)
<1>1. ls \in Seq(LineType) /\ Len(ls) \in Nat /\ \A i \in 1..Len(ls) : ls[i].key = i - 1
  BY DEF Lines
<1>2. PICK n \in Nat : n = Len(ls)
  BY <1>1
<1>3. CASE more = ls
  BY <1>3, GrowsSame
<1>4. CASE n < MaxLines /\ more = Append(ls, Line(n, <<>>))
  <2>1. PICK line : line = Line(n, <<>>)
    OBVIOUS
  <2>2. n \in Keys
    BY <1>4, CaptionsAssumption
  <2>3. line \in LineType /\ line.key = n
    BY <2>1, <2>2 DEF Line, LineType
  <2>4. /\ more \in Seq(LineType) /\ Len(more) = n + 1 /\ more[n + 1] = line
        /\ \A i \in 1..n : more[i] = ls[i]
    BY <1>1, <1>2, <1>4, <2>1, <2>3
  <2>5. ASSUME NEW i \in 1..Len(more) PROVE more[i].key = i - 1
    <3>1. CASE i \in 1..n
      BY <1>1, <1>2, <2>4, <3>1
    <3>2. CASE i = n + 1
      <4>1. i - 1 = n
        BY <3>2
      <4> QED BY <2>3, <2>4, <3>2, <4>1
    <3>3. i \in 1..n \/ i = n + 1
      BY <2>4
    <3> QED BY <3>1, <3>2, <3>3
  <2>6. Lines(more)
    BY <2>4, <2>5 DEF Lines
  <2>7. ASSUME ls # <<>> PROVE IsPrefix(ls[Len(ls)].text, more[Len(ls)].text)
    <3>1. Len(ls) > 0
      BY <1>1, <2>7
    <3>2. n \in 1..n /\ n \in 1..Len(ls)
      BY <1>2, <3>1
    <3>3. ls[n].text \in Seq(Text) /\ more[n] = ls[n]
      BY <2>4, <3>2, LineIs
    <3>4. IsPrefix(ls[n].text, ls[n].text)
      BY <3>3, PrefixOf
    <3> QED BY <1>2, <3>3, <3>4
  <2>8. Len(ls) <= Len(more)
    BY <1>2, <2>4
  <2> QED BY <1>2, <2>4, <2>6, <2>7, <2>8 DEF Grows
<1>5. CASE ls # <<>> /\ more = WlkWord(ls)
  <2>0. Len(ls) > 0
    BY <1>1, <1>5
  <2>1. n \in 1..n /\ n \in 1..Len(ls) /\ DOMAIN ls = 1..n
    BY <1>1, <1>2, <2>0
  <2>2. PICK line \in LineType : line = ls[n] /\ line.text \in Seq(Text) /\ line.key = n - 1 /\ line.key \in Keys
    BY <1>2, <2>1, LineIs
  <2>3. PICK word : word = Len(line.text) + 1
    OBVIOUS
  <2>4. word \in Text
    <3>1. word \in Nat
      BY <2>2, <2>3
    <3> QED BY <3>1 DEF Text
  <2>5. PICK text : text = Append(line.text, word)
    OBVIOUS
  <2>6. text \in Seq(Text) /\ IsPrefix(line.text, text)
    <3>1. <<word>> \in Seq(Text) /\ text = line.text \o <<word>>
      BY <2>2, <2>4, <2>5, SMTT(30)
    <3>2. text \in Seq(Text)
      BY <2>2, <2>4, <2>5
    <3>3. IsPrefix(line.text, line.text \o <<word>>)
      BY <2>2, <3>1, PrefixOf
    <3> QED BY <3>1, <3>2, <3>3
  <2>7. PICK new : new = [line EXCEPT !.text = text]
    OBVIOUS
  <2>8. new \in LineType /\ new.key = n - 1 /\ new.text = text
    BY <2>2, <2>6, <2>7 DEF LineType
  <2>9. more = [ls EXCEPT ![n] = new]
    <3>1. more = [ls EXCEPT ![n] = [ls[n] EXCEPT !.text = Append(ls[n].text, Len(ls[n].text) + 1)]]
      BY <1>2, <1>5 DEF WlkWord
    <3> QED BY <2>2, <2>3, <2>5, <2>7, <3>1
  <2>10. /\ more \in Seq(LineType) /\ Len(more) = n /\ more[n] = new
         /\ \A i \in 1..n : i # n => more[i] = ls[i]
    BY <1>1, <1>2, <2>1, <2>8, <2>9
  <2>11. ASSUME NEW i \in 1..Len(more) PROVE more[i].key = i - 1
    <3>1. CASE i # n
      BY <1>1, <1>2, <2>10, <3>1
    <3>2. CASE i = n
      BY <2>8, <2>10, <3>2
    <3> QED BY <3>1, <3>2
  <2>12. Lines(more)
    BY <2>10, <2>11 DEF Lines
  <2>13. \A i \in 1..n : i < n => ls[i] = more[i]
    BY <2>10
  <2>14. IsPrefix(ls[n].text, more[n].text)
    BY <2>2, <2>6, <2>8, <2>10
  <2>15. Len(ls) <= Len(more)
    BY <1>2, <2>10
  <2> QED BY <1>2, <2>12, <2>13, <2>14, <2>15 DEF Grows
<1> QED BY <1>2, <1>3, <1>4, <1>5 DEF Grown

(***************************************************************************)
(* The answers and what the relay has of them.                             *)
(***************************************************************************)
NoneFinal(queue) == \A i \in 1..Len(queue) : ~queue[i].final

(* In all that follows "closed" and "done" are for good.                   *)
RelayInv ==
  /\ engine \in {"moonshine", "whisperlivekit"} /\ Lines(lines)
  /\ Chain(relay.lines, answers, SessionLines) /\ LastEnds(relay, answers, SessionLines)
  /\ ~served => NoneFinal(answers)
  /\ phase # "closed" => RelayOK(relay)
  /\ phase = "closed" => /\ link = "down" /\ consumer # "reading" /\ answers = <<>>
                         /\ IsPrefix(Texts(relay.lines), relay.settled)
  /\ consumer = "done" => /\ served /\ answers = <<>> /\ relay.lines = SessionLines
                          /\ IF phase = "closed" THEN relay.settled = Texts(relay.lines)
                             ELSE relay.buffer = <<>>

LEMMA LastAppend ==
  ASSUME NEW queue \in Seq(AnswerType), NoneFinal(queue), NEW a \in AnswerType, NEW r, NEW ls,
         a.final => Ends(r, Append(queue, a), Len(queue) + 1, ls)
  PROVE  LastEnds(r, Append(queue, a), ls) /\ (~a.final => NoneFinal(Append(queue, a)))
<1>1. PICK new : new = Append(queue, a)
  OBVIOUS
<1>2. PICK n \in Nat : n = Len(queue)
  OBVIOUS
<1>3. Len(new) = n + 1 /\ (\A i \in 1..n : new[i] = queue[i]) /\ new[n + 1] = a
  BY <1>1, <1>2
<1>4. ASSUME NEW i \in 1..Len(new) PROVE i = n + 1 \/ ~new[i].final
  <2>1. CASE i \in 1..n
    BY <1>2, <1>3, <2>1 DEF NoneFinal
  <2>2. i \in 1..n \/ i = n + 1
    BY <1>3
  <2> QED BY <2>1, <2>2
<1>5. ASSUME NEW i \in 1..Len(new), new[i].final PROVE i = Len(new) /\ Ends(r, new, i, ls)
  <2>1. i = n + 1
    BY <1>4, <1>5
  <2>2. a.final
    BY <1>3, <1>5, <2>1
  <2> QED BY <1>1, <1>2, <1>3, <2>1, <2>2
<1>6. LastEnds(r, new, ls)
  BY <1>5 DEF LastEnds
<1>7. ~a.final => NoneFinal(new)
  BY <1>3, <1>4 DEF NoneFinal
<1> QED BY <1>1, <1>6, <1>7

LEMMA LastNone ==
  ASSUME NEW queue, NoneFinal(queue), NEW r, NEW ls
  PROVE  LastEnds(r, queue, ls)
BY DEF NoneFinal, LastEnds

LEMMA LastCut ==
  ASSUME NEW queue \in Seq(AnswerType), NEW r, NEW ls, LastEnds(r, queue, ls), NEW kept \in 0..Len(queue)
  PROVE  /\ LastEnds(r, SubSeq(queue, 1, kept), ls)
         /\ NoneFinal(queue) => NoneFinal(SubSeq(queue, 1, kept))
<1>1. PICK new : new = SubSeq(queue, 1, kept)
  OBVIOUS
<1>2. PICK n \in Nat : n = Len(queue)
  OBVIOUS
<1>3. kept \in Nat /\ kept <= n /\ Len(new) = kept /\ \A i \in 1..kept : new[i] = queue[i] /\ i \in 1..n
  BY <1>1, <1>2
<1>4. ASSUME NEW i \in 1..Len(new), new[i].final PROVE i = Len(new) /\ Ends(r, new, i, ls)
  <2>1. i = n /\ Ends(r, queue, i, ls)
    BY <1>2, <1>3, <1>4 DEF LastEnds
  <2>2. n = kept /\ i = kept
    BY <1>3, <2>1
  <2>3. new = queue
    <3>1. queue \in Seq(AnswerType)
      OBVIOUS
    <3>2. SubSeq(queue, 1, Len(queue)) = queue
      BY ONLY <3>1
    <3> QED BY <1>1, <1>2, <2>2, <3>2
  <2> QED BY <1>3, <2>1, <2>2, <2>3
<1>5. NoneFinal(queue) => NoneFinal(new)
  BY <1>2, <1>3 DEF NoneFinal
<1>6. LastEnds(r, new, ls)
  BY <1>4 DEF LastEnds
<1> QED BY <1>1, <1>5, <1>6

(* The first of the answers was read, and it was not the last of all, or   *)
(* it was.                                                                 *)
LEMMA LastRead ==
  ASSUME NEW queue \in Seq(AnswerType), queue # <<>>, NEW r, NEW ls, LastEnds(r, queue, ls), NEW new,
         new.lines = (IF Head(queue).lines = <<>> THEN r.lines ELSE Shown(Head(queue))),
         new.buffer = (IF Head(queue).buffer = <<>> THEN r.buffer ELSE Head(queue).buffer[1])
  PROVE  /\ LastEnds(new, Tail(queue), ls) /\ (NoneFinal(queue) => NoneFinal(Tail(queue)))
         /\ Head(queue).final => Tail(queue) = <<>> /\ new.lines = ls /\ new.buffer = <<>>
<1>1. PICK rest : rest = Tail(queue)
  OBVIOUS
<1>2. PICK n \in Nat : n = Len(queue) /\ n > 0
  OBVIOUS
<1>3. PICK head : head = Head(queue)
  OBVIOUS
<1>4. /\ head = queue[1] /\ 1 \in 1..n /\ rest \in Seq(AnswerType) /\ Len(rest) = n - 1
      /\ \A i \in 1..(n - 1) : rest[i] = queue[i + 1] /\ i + 1 \in 1..n
  BY <1>1, <1>2, <1>3
<1>5. NoneFinal(queue) => NoneFinal(rest)
  BY <1>2, <1>4 DEF NoneFinal
<1>6. ASSUME head.final PROVE rest = <<>> /\ new.lines = ls /\ new.buffer = <<>>
  <2>1. 1 = n /\ Ends(r, queue, 1, ls)
    BY <1>2, <1>4, <1>6 DEF LastEnds
  <2>2. rest = <<>>
    BY <1>4, <2>1
  <2>3. CASE head.lines # <<>>
    <3>1. ShowsAll(head, ls)
      BY <1>4, <2>1, <2>3 DEF Ends
    <3> QED BY <1>3, <2>2, <2>3, <3>1 DEF ShowsAll
  <2>4. CASE head.lines = <<>>
    <3>1. head.buffer = <<>> /\ r.lines = ls /\ r.buffer = <<>>
      BY <1>4, <2>1, <2>4 DEF Ends
    <3> QED BY <1>3, <2>2, <2>4, <3>1
  <2> QED BY <2>3, <2>4
<1>7. ASSUME NEW i \in 1..Len(rest), rest[i].final PROVE i = Len(rest) /\ Ends(new, rest, i, ls)
  <2>1. rest[i] = queue[i + 1] /\ i + 1 \in 1..n /\ i \in Nat /\ i >= 1
    BY <1>4
  <2>2. i + 1 = n /\ Ends(r, queue, i + 1, ls)
    BY <1>2, <1>7, <2>1 DEF LastEnds
  <2>3. i = Len(rest) /\ i + 1 # 1 /\ (i + 1) - 1 = i
    BY <1>4, <2>1, <2>2
  <2>4. CASE rest[i].lines # <<>>
    BY <2>1, <2>2, <2>3, <2>4 DEF Ends
  <2>5. CASE rest[i].lines = <<>>
    <3>1. rest[i].buffer = <<>> /\ ShowsAll(queue[i], ls)
      BY <2>1, <2>2, <2>3, <2>5 DEF Ends
    <3>2. CASE i = 1
      <4>1. ShowsAll(head, ls)
        BY <1>4, <3>1, <3>2
      <4>2. new.lines = ls /\ new.buffer = <<>>
        BY <1>3, <4>1 DEF ShowsAll
      <4> QED BY <2>3, <2>5, <3>1, <3>2, <4>2 DEF Ends
    <3>3. CASE i # 1
      <4>1. i - 1 \in 1..(n - 1) /\ (i - 1) + 1 = i
        BY <2>1, <2>2, <3>3
      <4>2. rest[i - 1] = queue[i]
        BY <1>4, <4>1
      <4> QED BY <2>3, <2>5, <3>1, <3>3, <4>2 DEF Ends
    <3> QED BY <3>2, <3>3
  <2> QED BY <2>4, <2>5
<1>8. LastEnds(new, rest, ls)
  BY <1>7 DEF LastEnds
<1> QED BY <1>1, <1>3, <1>5, <1>6, <1>8

LEMMA InitRelay == Init => RelayInv
<1> SUFFICES ASSUME Init PROVE RelayInv
  OBVIOUS
<1>1. /\ engine \in Engines /\ lines = <<>> /\ answers = <<>> /\ served = FALSE /\ phase = "open"
      /\ consumer = "reading" /\ window = FreshWindow /\ relay = FreshRelay
  BY DEF Init
<1>2. engine \in {"moonshine", "whisperlivekit"}
  BY <1>1, CaptionsAssumption
<1>3. SessionLines = <<>>
  BY <1>1 DEF SessionLines, WindowLines, FreshWindow
<1>4. relay.lines = <<>> /\ relay.upto = 0 /\ relay.settled = <<>> /\ \A k \in Keys : relay.emitted[k] = <<>>
  BY <1>1 DEF FreshRelay
<1>5. relay \in RelayType
  <2>1. PICK none, said, count : none = <<>> /\ said = [k \in Keys |-> <<>>] /\ count = 0
    OBVIOUS
  <2>2. none \in Seq(LineType) /\ none \in Seq(Text) /\ said \in [Keys -> Seq(Text)] /\ count \in Nat /\ count \in Int
    BY <2>1
  <2>3. relay = [lines |-> none, buffer |-> none, emitted |-> said, upto |-> count,
                 stableKey |-> NoKey, stableText |-> none, stableCount |-> count, settled |-> none]
    BY <1>1, <2>1 DEF FreshRelay
  <2> QED BY <2>2, <2>3 DEF RelayType
<1>6. Lines(<<>>) /\ Grows(<<>>, <<>>)
  BY LinesNone, GrowsSame
<1>7. RelayOK(relay)
  BY <1>4, <1>5, <1>6 DEF RelayOK, Before, Said
<1>8. Len(answers) = 0 /\ answers \in Seq(AnswerType)
  BY <1>1
<1>9. Chain(relay.lines, answers, SessionLines) /\ LastEnds(relay, answers, SessionLines) /\ NoneFinal(answers)
  BY <1>3, <1>4, <1>6, <1>8 DEF Chain, LastEnds, NoneFinal
<1> QED BY <1>1, <1>2, <1>6, <1>7, <1>9 DEF RelayInv

(* The in-process engine's messages.                                       *)
LEMMA ServeAnswers ==
  ASSUME Serve
  PROVE  \/ served' /\ answers' = Append(answers, Answer(window', TRUE))
         \/ ~served' /\ answers' = Append(answers, Answer(window', FALSE))
         \/ ~served' /\ answers' = answers
BY DEF Serve

LEMMA SessionIs ==
  /\ engine = "moonshine" => SessionLines = LinesOf(window)
  /\ engine' = "moonshine" => SessionLines' = LinesOf(window')
  /\ engine # "moonshine" => SessionLines = lines
  /\ engine' # "moonshine" => SessionLines' = lines'
BY DEF SessionLines, WindowLines, LinesOf

LEMMA ServeRelay == WindowInv /\ RelayInv /\ Serve => RelayInv'
<1> SUFFICES ASSUME WindowInv, RelayInv, Serve PROVE RelayInv'
  OBVIOUS
<1>1. /\ engine = "moonshine" /\ engine' = engine /\ link = "up" /\ ~served
      /\ lines' = lines /\ relay' = relay /\ consumer' = consumer /\ phase' = phase
  BY DEF Serve
<1>2. /\ window' \in WindowType /\ window \in WindowType /\ IsPrefix(window.words, window'.words)
      /\ (window.line => window'.line) /\ (served' => window'.volatile = <<>>)
  BY ServeIs DEF WindowInv
<1>3. PICK before, after : before = SessionLines /\ after = LinesOf(window')
  OBVIOUS
<1>4. SessionLines' = after /\ Lines(after) /\ Grows(before, after)
  BY <1>1, <1>2, <1>3, SessionIs, LinesOfIs, LinesOfGrow
<1>5. Chain(relay.lines, answers, before) /\ NoneFinal(answers) /\ phase # "closed" /\ consumer # "done"
      /\ Lines(lines) /\ RelayOK(relay)
  BY <1>1, <1>3 DEF RelayInv
<1>6. Chain(relay.lines, answers, after)
  BY <1>4, <1>5, ChainGrows
<1>7. answers \in Seq(AnswerType)
  BY <1>6 DEF Chain
<1>8. CASE served' /\ answers' = Append(answers, Answer(window', TRUE))
  <2>1. PICK a : a = Answer(window', TRUE)
    OBVIOUS
  <2>2. a \in AnswerType /\ a.lines # <<>> /\ Shown(a) = after /\ a.buffer # <<>> /\ a.buffer[1] = <<>>
    BY <1>2, <1>3, <1>8, <2>1, AnswerOf
  <2>3. PICK new : new = Append(answers, a)
    OBVIOUS
  <2>4. new[Len(answers) + 1] = a
    BY <1>7, <2>3
  <2>5. Ends(relay, new, Len(answers) + 1, after)
    BY <2>2, <2>4 DEF Ends, ShowsAll
  <2>6. LastEnds(relay, new, after)
    BY <1>5, <1>7, <2>2, <2>3, <2>5, LastAppend
  <2>7. Chain(relay.lines, new, after)
    BY <1>6, <2>2, <2>3, ChainAppend
  <2>8. answers' = new
    BY <1>8, <2>1, <2>3
  <2> QED BY <1>1, <1>4, <1>5, <1>8, <2>6, <2>7, <2>8 DEF RelayInv
<1>9. CASE ~served' /\ answers' = Append(answers, Answer(window', FALSE))
  <2>1. PICK a : a = Answer(window', FALSE)
    OBVIOUS
  <2>2. a \in AnswerType /\ Shown(a) = after /\ ~a.final
    BY <1>2, <1>3, <2>1, AnswerOf
  <2>3. PICK new : new = Append(answers, a)
    OBVIOUS
  <2>4. LastEnds(relay, new, after) /\ NoneFinal(new)
    BY <1>5, <1>7, <2>2, <2>3, LastAppend
  <2>5. Chain(relay.lines, new, after)
    BY <1>6, <2>2, <2>3, ChainAppend
  <2>6. answers' = new
    BY <1>9, <2>1, <2>3
  <2> QED BY <1>1, <1>4, <1>5, <1>9, <2>4, <2>5, <2>6 DEF RelayInv
<1>10. CASE ~served' /\ answers' = answers
  <2>1. LastEnds(relay, answers, after)
    BY <1>5, LastNone
  <2> QED BY <1>1, <1>4, <1>5, <1>6, <1>10, <2>1 DEF RelayInv
<1> QED BY <1>8, <1>9, <1>10, ServeAnswers

LEMMA AbruptRelay == WindowInv /\ RelayInv /\ ServeAbruptEnd => RelayInv'
<1> SUFFICES ASSUME WindowInv, RelayInv, ServeAbruptEnd PROVE RelayInv'
  OBVIOUS
<1>1. /\ engine = "moonshine" /\ engine' = engine /\ ~served /\ served' /\ answers' = answers
      /\ lines' = lines /\ relay' = relay /\ consumer' = consumer /\ phase' = phase /\ link' = link
  BY DEF ServeAbruptEnd
<1>2. /\ window' \in WindowType /\ window \in WindowType /\ IsPrefix(window.words, window'.words)
      /\ (window.line => window'.line)
  BY AbruptIs DEF WindowInv
<1>3. PICK before, after : before = SessionLines /\ after = LinesOf(window')
  OBVIOUS
<1>4. SessionLines' = after /\ Lines(after) /\ Grows(before, after)
  BY <1>1, <1>2, <1>3, SessionIs, LinesOfIs, LinesOfGrow
<1>5. Chain(relay.lines, answers, before) /\ NoneFinal(answers) /\ consumer # "done" /\ Lines(lines)
  BY <1>1, <1>3 DEF RelayInv
<1>6. Chain(relay.lines, answers, after) /\ LastEnds(relay, answers, after)
  BY <1>4, <1>5, ChainGrows, LastNone
<1> QED BY <1>1, <1>4, <1>5, <1>6 DEF RelayInv

(* The words in flight of an answer of whisperlivekit.                     *)
LEMMA WlkFlightIs == {<<>>, <<9>>} \subseteq Seq(Text)
<1>1. 9 \in Text
  BY DEF Text
<1> QED BY <1>1

LEMMA WlkAnswerIs ==
  ASSUME NEW ls, Lines(ls), NEW flight \in Seq(Text)
  PROVE  LET a == [lines |-> <<ls>>, buffer |-> <<flight>>, final |-> FALSE]
         IN  /\ a \in AnswerType /\ a.lines # <<>> /\ Shown(a) = ls /\ a.buffer # <<>> /\ a.buffer[1] = flight
             /\ ~a.final
<1>1. ls \in Seq(LineType)
  BY DEF Lines
<1>2. flight \in Seq(Text)
  OBVIOUS
<1>3. PICK x, y : x = <<ls>> /\ y = <<flight>>
  OBVIOUS
<1>4. x \in Seq(Seq(LineType)) /\ x # <<>> /\ x[1] = ls
  BY <1>1, <1>3
<1>5. y \in Seq(Seq(Text)) /\ y # <<>> /\ y[1] = flight
  BY <1>2, <1>3
<1>6. PICK a : a = [lines |-> x, buffer |-> y, final |-> FALSE]
  OBVIOUS
<1>7. a \in AnswerType /\ a.lines = x /\ a.buffer = y /\ ~a.final
  BY <1>4, <1>5, <1>6 DEF AnswerType
<1> QED BY <1>3, <1>4, <1>5, <1>6, <1>7 DEF Shown

LEMMA WlkRelay == RelayInv /\ WlkAnswers => RelayInv'
<1> SUFFICES ASSUME RelayInv, WlkAnswers PROVE RelayInv'
  OBVIOUS
<1>1. /\ engine = "whisperlivekit" /\ engine' = engine /\ link = "up" /\ ~served /\ lines' \in Grown(lines)
      /\ relay' = relay /\ consumer' = consumer /\ phase' = phase
  BY DEF WlkAnswers
<1>2. PICK ls : ls = lines'
  OBVIOUS
<1>3. SessionLines = lines /\ SessionLines' = ls
  BY <1>1, <1>2, SessionIs
<1>4. Chain(relay.lines, answers, lines) /\ NoneFinal(answers) /\ phase # "closed" /\ consumer # "done"
      /\ Lines(lines) /\ RelayOK(relay)
  BY <1>1, <1>3 DEF RelayInv
<1>5. Lines(ls) /\ Grows(lines, ls)
  BY <1>1, <1>2, <1>4, GrownIs
<1>6. Chain(relay.lines, answers, ls)
  BY <1>4, <1>5, ChainGrows
<1>7. answers \in Seq(AnswerType)
  BY <1>6 DEF Chain
<1>8. CASE Head(audio) = EndOfAudio
  <2>1. PICK none : none = <<>>
    OBVIOUS
  <2>2. PICK a : a = [lines |-> <<ls>>, buffer |-> <<none>>, final |-> FALSE]
    OBVIOUS
  <2>3. a \in AnswerType /\ a.lines # <<>> /\ Shown(a) = ls /\ a.buffer # <<>> /\ a.buffer[1] = none /\ ~a.final
    BY <1>5, <2>1, <2>2, WlkFlightIs, WlkAnswerIs
  <2>4. PICK b : b = [lines |-> <<>>, buffer |-> <<>>, final |-> TRUE]
    OBVIOUS
  <2>5. b \in AnswerType /\ b.lines = <<>> /\ b.buffer = <<>> /\ b.final
    <3>1. PICK x, y : x = <<>> /\ y = <<>> /\ b = [lines |-> x, buffer |-> y, final |-> TRUE]
      BY <2>4
    <3>2. x \in Seq(Seq(LineType)) /\ y \in Seq(Seq(Text))
      BY <3>1
    <3>3. b \in AnswerType /\ b.lines = x /\ b.buffer = y /\ b.final
      BY <3>1, <3>2 DEF AnswerType
    <3> QED BY <3>1, <3>3
  <2>6. PICK some : some = Append(answers, a)
    OBVIOUS
  <2>7. Chain(relay.lines, some, ls) /\ NoneFinal(some)
    BY <1>4, <1>6, <1>7, <2>3, <2>6, ChainAppend, LastAppend
  <2>8. some \in Seq(AnswerType) /\ Len(some) \in Nat /\ Len(some) = Len(answers) + 1 /\ some[Len(some)] = a
    BY <1>7, <2>3, <2>6
  <2>9. PICK new : new = Append(some, b)
    OBVIOUS
  <2>10. PICK n \in Nat : n = Len(some) /\ n >= 1
    <3>1. Len(answers) \in Nat
      BY <1>7
    <3> QED BY <2>8, <3>1
  <2>11. new[n + 1] = b /\ new[n] = a /\ (n + 1) - 1 = n /\ n + 1 # 1
    BY <2>8, <2>9, <2>10
  <2>12. Ends(relay, new, n + 1, ls)
    BY <2>1, <2>3, <2>5, <2>11 DEF Ends, ShowsAll
  <2>13. LastEnds(relay, new, ls)
    BY <2>5, <2>7, <2>8, <2>9, <2>10, <2>12, LastAppend
  <2>14. Chain(relay.lines, new, ls)
    BY <2>5, <2>7, <2>9, ChainAppend
  <2>15. answers' = answers \o <<a, b>> /\ served'
    BY <1>1, <1>2, <1>8, <2>1, <2>2, <2>4 DEF WlkAnswers
  <2>16. answers' = new
    BY <1>7, <2>3, <2>5, <2>6, <2>9, <2>15
  <2> QED BY <1>1, <1>2, <1>3, <1>4, <1>5, <2>13, <2>14, <2>15, <2>16 DEF RelayInv
<1>9. CASE Head(audio) # EndOfAudio
  <2>1. PICK flight \in {<<>>, <<9>>} :
          answers' = Append(answers, [lines |-> <<lines'>>, buffer |-> <<flight>>, final |-> FALSE]) /\ ~served'
    BY <1>1, <1>9 DEF WlkAnswers
  <2>2. PICK a : a = [lines |-> <<ls>>, buffer |-> <<flight>>, final |-> FALSE]
    OBVIOUS
  <2>3. a \in AnswerType /\ Shown(a) = ls /\ ~a.final
    BY <1>5, <2>2, WlkFlightIs, WlkAnswerIs
  <2>4. PICK new : new = Append(answers, a)
    OBVIOUS
  <2>5. LastEnds(relay, new, ls) /\ NoneFinal(new)
    BY <1>4, <1>7, <2>3, <2>4, LastAppend
  <2>6. Chain(relay.lines, new, ls)
    BY <1>6, <2>3, <2>4, ChainAppend
  <2>7. answers' = new
    BY <1>2, <2>1, <2>2, <2>4
  <2> QED BY <1>1, <1>2, <1>3, <1>4, <1>5, <2>1, <2>5, <2>6, <2>7 DEF RelayInv
<1> QED BY <1>8, <1>9

LEMMA ReadRelay == RelayInv /\ ReadAnswer => RelayInv'
<1> SUFFICES ASSUME RelayInv, ReadAnswer PROVE RelayInv'
  OBVIOUS
<1>1. /\ consumer = "reading" /\ answers # <<>> /\ relay' = Hear(relay, Head(answers))
      /\ consumer' = (IF Head(answers).final THEN "done" ELSE consumer) /\ answers' = Tail(answers)
      /\ engine' = engine /\ link' = link /\ window' = window /\ lines' = lines /\ served' = served /\ phase' = phase
  BY DEF ReadAnswer, engineVars
<1>2. PICK ls : ls = SessionLines
  OBVIOUS
<1>3. SessionLines' = ls
  BY <1>1, <1>2 DEF SessionLines, WindowLines
<1>4. /\ Chain(relay.lines, answers, ls) /\ LastEnds(relay, answers, ls) /\ phase # "closed" /\ RelayOK(relay)
      /\ Lines(lines) /\ (~served => NoneFinal(answers))
  BY <1>1, <1>2 DEF RelayInv
<1>5. answers \in Seq(AnswerType)
  BY <1>4 DEF Chain
<1>6. PICK a : a = Head(answers)
  OBVIOUS
<1>7. a \in AnswerType /\ a = answers[1] /\ 1 \in 1..Len(answers)
  BY <1>1, <1>5, <1>6
<1>8. relay \in RelayType
  BY <1>4 DEF RelayOK
<1>9. PICK new : new = Hear(relay, a)
  OBVIOUS
<1>10. /\ RelayOK(new) /\ new.lines = (IF a.lines = <<>> THEN relay.lines ELSE Shown(a))
       /\ new.buffer = (IF a.buffer = <<>> THEN relay.buffer ELSE a.buffer[1])
  <2>1. CASE a.lines = <<>>
    BY <1>4, <1>7, <1>8, <1>9, <2>1, HearNone
  <2>2. CASE a.lines # <<>>
    <3>1. Between(relay.lines, a, ls)
      BY <1>4, <1>7 DEF Chain
    <3>2. Lines(Shown(a)) /\ Grows(relay.lines, Shown(a))
      BY <2>2, <3>1 DEF Between
    <3>3. Lines(a.lines[1]) /\ Grows(relay.lines, a.lines[1])
      BY <3>2 DEF Shown
    <3>4. RelayOK(new) /\ new.lines = a.lines[1]
          /\ new.buffer = (IF a.buffer = <<>> THEN relay.buffer ELSE a.buffer[1])
      BY <1>4, <1>7, <1>8, <1>9, <2>2, <3>3, HearLines
    <3> QED BY <2>2, <3>4 DEF Shown
  <2> QED BY <2>1, <2>2
<1>11. PICK rest : rest = Tail(answers)
  OBVIOUS
<1>12. PICK seen : seen = new.lines
  OBVIOUS
<1>13. Chain(seen, rest, ls)
  BY <1>1, <1>4, <1>6, <1>10, <1>11, <1>12, ChainRead
<1>14. LastEnds(new, rest, ls) /\ (NoneFinal(answers) => NoneFinal(rest))
  BY <1>1, <1>4, <1>5, <1>6, <1>10, <1>11, LastRead
<1>15. a.final => rest = <<>> /\ new.lines = ls /\ new.buffer = <<>>
  BY <1>1, <1>4, <1>5, <1>6, <1>10, <1>11, LastRead
<1>16. a.final => served
  BY <1>4, <1>7 DEF NoneFinal
<1>17. relay' = new /\ answers' = rest /\ consumer' = IF a.final THEN "done" ELSE "reading"
  BY <1>1, <1>6, <1>9, <1>11
<1>18. consumer' = "done" => served' /\ answers' = <<>> /\ relay'.lines = SessionLines' /\ relay'.buffer = <<>>
  BY <1>1, <1>3, <1>15, <1>16, <1>17
<1>19. engine' \in {"moonshine", "whisperlivekit"} /\ Lines(lines')
  BY <1>1, <1>4 DEF RelayInv
<1>20. Chain(relay'.lines, answers', SessionLines') /\ LastEnds(relay', answers', SessionLines')
  BY <1>3, <1>12, <1>13, <1>14, <1>17
<1>21. (~served' => NoneFinal(answers')) /\ RelayOK(relay')
  BY <1>1, <1>4, <1>10, <1>14, <1>17
<1> QED BY <1>1, <1>4, <1>18, <1>19, <1>20, <1>21 DEF RelayInv

LEMMA BreakRelay == RelayInv /\ LinkBreaks => RelayInv'
<1> SUFFICES ASSUME RelayInv, LinkBreaks PROVE RelayInv'
  OBVIOUS
<1>1. /\ phase # "closed" /\ phase' = phase /\ engine' = engine /\ window' = window /\ lines' = lines
      /\ served' = served /\ relay' = relay /\ consumer' = consumer
      /\ \E kept \in 0 .. Len(answers) : answers' = SubSeq(answers, 1, kept)
  BY DEF LinkBreaks, engineVars
<1>2. PICK kept \in 0 .. Len(answers) : answers' = SubSeq(answers, 1, kept)
  BY <1>1
<1>3. PICK ls : ls = SessionLines
  OBVIOUS
<1>4. SessionLines' = ls
  BY <1>1, <1>3 DEF SessionLines, WindowLines
<1>5. /\ Chain(relay.lines, answers, ls) /\ LastEnds(relay, answers, ls) /\ RelayOK(relay)
      /\ Lines(lines) /\ (~served => NoneFinal(answers)) /\ engine \in {"moonshine", "whisperlivekit"}
  BY <1>1, <1>3 DEF RelayInv
<1>6. answers \in Seq(AnswerType)
  BY <1>5 DEF Chain
<1>7. PICK new : new = SubSeq(answers, 1, kept)
  OBVIOUS
<1>8. Chain(relay.lines, new, ls)
  BY <1>5, <1>7, ChainCut
<1>9. LastEnds(relay, new, ls) /\ (NoneFinal(answers) => NoneFinal(new))
  BY <1>5, <1>6, <1>7, LastCut
<1>10. answers = <<>> => new = <<>>
  BY <1>6, <1>7
<1>11. consumer = "done" => served /\ new = <<>> /\ relay.lines = ls /\ relay.buffer = <<>>
  BY <1>1, <1>3, <1>10 DEF RelayInv
<1>12. answers' = new
  BY <1>2, <1>7
<1> QED BY <1>1, <1>4, <1>5, <1>8, <1>9, <1>11, <1>12 DEF RelayInv

LEMMA CloseRelay == RelayInv /\ FinishClose => RelayInv'
<1> SUFFICES ASSUME RelayInv, FinishClose PROVE RelayInv'
  OBVIOUS
<1>1. /\ phase = "closing" /\ phase' = "closed" /\ link' = "down" /\ answers' = <<>> /\ consumer # "reading"
      /\ consumer' = consumer /\ relay' = FlushTail(relay) /\ engine' = engine /\ window' = window
      /\ lines' = lines /\ served' = served
  BY DEF FinishClose, engineVars
<1>2. PICK ls : ls = SessionLines
  OBVIOUS
<1>3. SessionLines' = ls
  BY <1>1, <1>2 DEF SessionLines, WindowLines
<1>4. /\ Chain(relay.lines, answers, ls) /\ RelayOK(relay) /\ Lines(lines)
      /\ engine \in {"moonshine", "whisperlivekit"}
  BY <1>1, <1>2 DEF RelayInv
<1>5. relay \in RelayType /\ Lines(relay.lines)
  BY <1>4 DEF RelayOK
<1>6. PICK new : new = FlushTail(relay)
  OBVIOUS
<1>7. new.lines = relay.lines /\ new.buffer = <<>> /\ new.settled = Texts(relay.lines) \o relay.buffer
  BY <1>4, <1>5, <1>6, FlushIs
<1>8. PICK said, flight : said = Texts(relay.lines) /\ flight = relay.buffer
  OBVIOUS
<1>9. said \in Seq(Text) /\ flight \in Seq(Text)
  BY <1>5, <1>8, TextsType DEF RelayType, Lines
<1>10. IsPrefix(said, said \o flight)
  BY <1>9, PrefixOf
<1>11. flight = <<>> => said \o flight = said
  BY <1>9
<1>12. PICK queue : queue = <<>>
  OBVIOUS
<1>13. queue \in Seq(AnswerType) /\ Len(queue) = 0
  BY <1>12
<1>14. Lines(relay.lines) /\ Lines(ls) /\ Grows(relay.lines, ls)
  BY <1>4 DEF Chain
<1>15. Chain(relay.lines, queue, ls) /\ LastEnds(new, queue, ls) /\ NoneFinal(queue)
  BY <1>13, <1>14 DEF Chain, LastEnds, NoneFinal
<1>16. consumer = "done" => served /\ relay.lines = ls /\ relay.buffer = <<>>
  BY <1>1, <1>2 DEF RelayInv
<1>17. relay' = new /\ answers' = queue
  BY <1>1, <1>6, <1>12
<1>18. IsPrefix(Texts(relay'.lines), relay'.settled)
  BY <1>7, <1>8, <1>10, <1>17
<1>19. consumer' = "done" => served' /\ relay'.lines = SessionLines' /\ relay'.settled = Texts(relay'.lines)
  BY <1>1, <1>3, <1>7, <1>8, <1>11, <1>16, <1>17
<1>20. Chain(relay'.lines, answers', SessionLines') /\ LastEnds(relay', answers', SessionLines') /\ NoneFinal(answers')
  BY <1>3, <1>7, <1>15, <1>17
<1> QED BY <1>1, <1>4, <1>18, <1>19, <1>20 DEF RelayInv

LEMMA StepRelay == WindowInv /\ RelayInv /\ [Next]_vars => RelayInv'
<1> SUFFICES ASSUME WindowInv, RelayInv, [Next]_vars PROVE RelayInv'
  OBVIOUS
<1>1. ASSUME engine' = engine, window' = window, lines' = lines, served' = served, relay' = relay,
             answers' = answers, link' = link, phase' = phase,
             consumer' = consumer \/ (phase # "closed" /\ consumer' = "cancelled")
      PROVE  RelayInv'
  <2>1. SessionLines' = SessionLines
    BY <1>1 DEF SessionLines, WindowLines
  <2>2. consumer' = "done" => consumer = "done"
    BY <1>1
  <2>3. phase = "closed" => consumer' = consumer
    BY <1>1
  <2> QED BY <1>1, <2>1, <2>2, <2>3 DEF RelayInv
<1>2. CASE \E loud \in Loudness : FeedFrame(loud)
  BY <1>1, <1>2 DEF FeedFrame, engineVars
<1>3. CASE StartClose
  <2>1. /\ engine' = engine /\ window' = window /\ lines' = lines /\ served' = served /\ relay' = relay
        /\ answers' = answers /\ consumer' = consumer /\ phase = "open" /\ phase' = "closing"
    BY <1>3 DEF StartClose, engineVars
  <2>2. SessionLines' = SessionLines
    BY <2>1 DEF SessionLines, WindowLines
  <2> QED BY <2>1, <2>2 DEF RelayInv
<1>4. CASE DrainTimeout \/ ConsumerEnds
  <2>1. consumer = "reading" /\ consumer' = "cancelled"
    BY <1>4 DEF DrainTimeout, ConsumerEnds
  <2>2. phase # "closed"
    BY <2>1 DEF RelayInv
  <2> QED BY <1>1, <1>4, <2>1, <2>2 DEF DrainTimeout, ConsumerEnds, engineVars
<1>5. CASE Done \/ UNCHANGED vars
  BY <1>1, <1>5 DEF Done, vars
<1> QED BY <1>2, <1>3, <1>4, <1>5, CloseRelay, BreakRelay, ReadRelay, ServeRelay, AbruptRelay, WlkRelay DEF Next

LEMMA RelaySaysOnce == RelayInv => SaidOnce
<1> SUFFICES ASSUME RelayInv PROVE SaidOnce
  OBVIOUS
<1>1. phase # "closed" => IsPrefix(relay.settled, Texts(relay.lines))
  <2> SUFFICES ASSUME phase # "closed" PROVE IsPrefix(relay.settled, Texts(relay.lines))
    OBVIOUS
  <2>1. RelayOK(relay)
    BY DEF RelayInv
  <2>2. relay \in RelayType
    BY <2>1 DEF RelayOK
  <2> QED BY <2>1, <2>2, SaidBegins
<1>2. phase = "closed" => IsPrefix(Texts(relay.lines), relay.settled)
  BY DEF RelayInv
<1> QED BY <1>1, <1>2 DEF SaidOnce

(* SaidOnce: the relay says each word of the lines it was shown once and   *)
(* in order, whatever the engine, and however the link or the close cuts   *)
(* the answers off; once closed it has said all of them                    *)
(* (_consider_emit_line, _maybe_flush_stable_tail, _flush_tail).           *)
THEOREM EachWordOnce == Spec => []SaidOnce
BY InitGate, StepGate, InitWindow, StepWindow, InitRelay, StepRelay, RelaySaysOnce, PTL DEF Spec

(***************************************************************************)
(* A clean end.  The engine has all that was sent, in order, ahead of the  *)
(* marker; a window that was sent all of it says all of it.                *)
(***************************************************************************)
Steady(w, s) == \E b, strip : WindowAt(w, s, b, strip)

(* a is what follows the first k frames of s, and the marker if it ended.  *)
Ahead(a, s, k, ended) ==
  /\ k <= Len(s) /\ Len(a) = (Len(s) - k) + (IF ended THEN 1 ELSE 0)
  /\ \A i \in 1..Len(a) : IF i <= Len(s) - k THEN a[i] = s[k + i] ELSE a[i] = EndOfAudio

LEMMA AheadMore ==
  ASSUME NEW a \in Seq(Nat), NEW s \in Seq(Nat), NEW out \in Seq(Nat), NEW k \in Nat, Ahead(a, s, k, FALSE)
  PROVE  Ahead(a \o out, s \o out, k, FALSE)
<1>1. PICK b, t : b = a \o out /\ t = s \o out
  OBVIOUS
<1>2. PICK m \in Nat, n \in Nat, d \in Nat : m = Len(a) /\ n = Len(s) /\ d = Len(out)
  OBVIOUS
<1>3. k <= n /\ m = n - k /\ \A i \in 1..m : a[i] = s[k + i]
  BY <1>2 DEF Ahead
<1>4. /\ Len(b) = m + d /\ \A i \in 1..m : b[i] = a[i]
      /\ \A i \in 1..(m + d) : i > m => b[i] = out[i - m]
  BY <1>1, <1>2, ConcatIs
<1>5. /\ Len(t) = n + d /\ \A i \in 1..n : t[i] = s[i]
      /\ \A i \in 1..(n + d) : i > n => t[i] = out[i - n]
  BY <1>1, <1>2, ConcatIs
<1>6. ASSUME NEW i \in 1..(m + d) PROVE b[i] = t[k + i]
  <2>1. CASE i <= m
    <3>1. i \in 1..m /\ k + i \in 1..n
      BY <1>3, <2>1
    <3> QED BY <1>3, <1>4, <1>5, <3>1
  <2>2. CASE i > m
    <3>1. k + i \in 1..(n + d) /\ k + i > n /\ (k + i) - n = i - m
      BY <1>3, <2>2
    <3> QED BY <1>4, <1>5, <2>2, <3>1
  <2> QED BY <2>1, <2>2
<1>7. k <= Len(t) /\ Len(b) = (Len(t) - k) + 0 /\ \A i \in 1..Len(b) : i <= Len(t) - k
  BY <1>3, <1>4, <1>5
<1>8. Ahead(b, t, k, FALSE)
  BY <1>4, <1>6, <1>7 DEF Ahead
<1> QED BY <1>1, <1>8

LEMMA AheadEnds ==
  ASSUME NEW a \in Seq(Nat), NEW s \in Seq(Nat), NEW k \in Nat, Ahead(a, s, k, FALSE)
  PROVE  Ahead(Append(a, EndOfAudio), s, k, TRUE)
<1>1. PICK b : b = Append(a, EndOfAudio)
  OBVIOUS
<1>2. PICK m \in Nat, n \in Nat : m = Len(a) /\ n = Len(s)
  OBVIOUS
<1>3. k <= n /\ m = n - k /\ \A i \in 1..m : a[i] = s[k + i]
  BY <1>2 DEF Ahead
<1>4. Len(b) = m + 1 /\ (\A i \in 1..m : b[i] = a[i]) /\ b[m + 1] = EndOfAudio
  BY <1>1, <1>2
<1>5. ASSUME NEW i \in 1..Len(b) PROVE IF i <= Len(s) - k THEN b[i] = s[k + i] ELSE b[i] = EndOfAudio
  <2>1. CASE i \in 1..m
    BY <1>2, <1>3, <1>4, <2>1
  <2>2. CASE i = m + 1
    <3>1. ~(i <= Len(s) - k)
      BY <1>2, <1>3, <2>2
    <3> QED BY <1>4, <2>2, <3>1
  <2>3. i \in 1..m \/ i = m + 1
    BY <1>4
  <2> QED BY <2>1, <2>2, <2>3
<1>6. k <= Len(s) /\ Len(b) = (Len(s) - k) + 1
  BY <1>2, <1>3, <1>4
<1>7. Ahead(b, s, k, TRUE)
  BY <1>5, <1>6 DEF Ahead
<1> QED BY <1>1, <1>7

(* The message at the head: the next frame, or the marker after the last.  *)
LEMMA AheadServe ==
  ASSUME NEW a \in Seq(Nat), NEW s \in Seq(Nat), NEW k \in Nat, NEW ended \in BOOLEAN, Ahead(a, s, k, ended),
         a # <<>>, \A i \in 1..Len(s) : s[i] # EndOfAudio
  PROVE  /\ Head(a) = EndOfAudio => ended /\ k = Len(s)
         /\ Head(a) # EndOfAudio => k < Len(s) /\ Head(a) = s[k + 1] /\ Ahead(Tail(a), s, k + 1, ended)
<1>1. PICK m \in Nat, n \in Nat, e \in Nat : m = Len(a) /\ n = Len(s) /\ e = IF ended THEN 1 ELSE 0
  OBVIOUS
<1>2. Len(a) > 0
  OBVIOUS
<1>3. /\ k <= n /\ m = (n - k) + e /\ m > 0 /\ Head(a) = a[1]
      /\ \A i \in 1..m : IF i <= n - k THEN a[i] = s[k + i] ELSE a[i] = EndOfAudio
  BY <1>1, <1>2 DEF Ahead
<1>4. CASE k = n
  <2>1. e = 1 /\ 1 \in 1..m /\ ~(1 <= n - k)
    BY <1>1, <1>3, <1>4
  <2>2. Head(a) = EndOfAudio /\ ended
    BY <1>1, <1>3, <2>1
  <2> QED BY <1>1, <1>4, <2>2
<1>5. CASE k < n
  <2>1. 1 \in 1..m /\ 1 <= n - k /\ k + 1 \in 1..n
    BY <1>1, <1>3, <1>5
  <2>2. Head(a) = s[k + 1] /\ s[k + 1] # EndOfAudio
    BY <1>1, <1>3, <2>1
  <2>3. PICK b : b = Tail(a)
    OBVIOUS
  <2>4. Len(b) = m - 1 /\ \A i \in 1..(m - 1) : b[i] = a[i + 1]
    BY <1>1, <1>2, <2>3
  <2>5. ASSUME NEW i \in 1..Len(b) PROVE IF i <= n - (k + 1) THEN b[i] = s[(k + 1) + i] ELSE b[i] = EndOfAudio
    <3>1. i \in 1..(m - 1) /\ i + 1 \in 1..m /\ k + (i + 1) = (k + 1) + i /\ (i + 1 <= n - k <=> i <= n - (k + 1))
      BY <1>3, <2>4
    <3>2. b[i] = a[i + 1]
      BY <2>4, <3>1
    <3>3. IF i + 1 <= n - k THEN a[i + 1] = s[k + (i + 1)] ELSE a[i + 1] = EndOfAudio
      BY <1>3, <3>1
    <3> QED BY <3>1, <3>2, <3>3
  <2>6. k + 1 <= Len(s) /\ Len(b) = (Len(s) - (k + 1)) + (IF ended THEN 1 ELSE 0)
    BY <1>1, <1>3, <2>1, <2>4
  <2>7. Ahead(b, s, k + 1, ended)
    BY <1>1, <2>5, <2>6 DEF Ahead
  <2> QED BY <1>1, <1>5, <2>2, <2>3, <2>7
<1>6. k = n \/ k < n
  BY <1>3
<1> QED BY <1>4, <1>5, <1>6

(* A decode of a steady engine.                                            *)
LEMMA DecodeHears ==
  ASSUME Unsteady = FALSE, NEW w \in WindowType, Sized(w), NEW s \in Seq(Nat), NEW b, NEW strip,
         WindowAt(w, s, b, strip), NEW slips \in Misheard(w.buffer)
  PROVE  LET raw == Decode(w.buffer, slips)
         IN  raw \in Seq(Word) /\ Len(raw) = w.elapsed - w.start /\ Hears(raw, s, w.start)
<1>1. PICK raw : raw = Decode(w.buffer, slips)
  OBVIOUS
<1>2. w.buffer \in Seq(Nat) /\ w.elapsed \in Nat /\ w.start \in Nat
  BY DEF WindowType
<1>3. PICK n \in Nat : n = Len(w.buffer)
  BY <1>2
<1>4. raw \in Seq(Word) /\ Len(raw) = n /\ \A i \in 1..n : raw[i] = <<w.buffer[i], i \notin slips>>
  BY <1>1, <1>2, <1>3, DecodeIs
<1>5. n = w.elapsed - w.start /\ w.elapsed <= Len(s) /\ \A i \in 1..n : w.buffer[i] = s[w.start + i]
  BY <1>3 DEF Sized, WindowAt
<1>6. \A i \in slips : i = n
  BY <1>3 DEF Misheard
<1>7. ASSUME NEW i \in 1..n PROVE raw[i][1] = s[w.start + i] /\ (i < n => raw[i][2] = TRUE)
  <2>1. raw[i][1] = w.buffer[i] /\ raw[i][2] = (i \notin slips)
    BY <1>4
  <2>2. i < n => i \notin slips
    BY <1>6
  <2> QED BY <1>5, <2>1, <2>2
<1>8. w.start + Len(raw) <= Len(s)
  BY <1>2, <1>4, <1>5
<1>9. Hears(raw, s, w.start)
  BY <1>4, <1>7, <1>8 DEF Hears
<1> QED BY <1>1, <1>4, <1>5, <1>9

WholeInv ==
  engine = "moonshine" =>
    /\ link = "up" /\ ~served => Ahead(audio, sent, window.elapsed, phase # "open")
    /\ ~served => Steady(window, sent)
    /\ consumer = "done" \/ ~NoneFinal(answers) =>
         phase # "open" /\ SpellsTo(window.words, sent, Len(sent))

LEMMA SentIs ==
  ASSUME GateInv
  PROVE  sent \in Seq(Nat) /\ Rises(sent) /\ \A i \in 1..Len(sent) : sent[i] # EndOfAudio
<1>1. fed \in Nat /\ sent \in Seq(Nat) /\ Rises(sent) /\ \A i \in 1..Len(sent) : sent[i] \in 1..fed
  BY DEF GateInv, GateAt
<1> QED BY <1>1 DEF EndOfAudio

LEMMA InitWhole == Init => WholeInv
<1> SUFFICES ASSUME Init PROVE WholeInv
  OBVIOUS
<1>1. /\ sent = <<>> /\ audio = <<>> /\ phase = "open" /\ window = FreshWindow /\ answers = <<>>
      /\ consumer = "reading"
  BY DEF Init
<1>2. Ahead(<<>>, <<>>, 0, FALSE)
  BY DEF Ahead
<1>3. WindowAt(FreshWindow, <<>>, 0, 0)
  <2>1. /\ FreshWindow.buffer = <<>> /\ FreshWindow.start = 0 /\ FreshWindow.refreshedAt = 0
        /\ FreshWindow.elapsed = 0 /\ FreshWindow.stitch = <<>> /\ FreshWindow.last = <<>>
        /\ FreshWindow.count = 0 /\ FreshWindow.words = <<>>
    BY DEF FreshWindow
  <2>2. SpellsTo(<<>>, <<>>, 0)
    BY DEF SpellsTo
  <2> QED BY <2>1, <2>2 DEF WindowAt
<1>4. Steady(window, sent)
  BY <1>1, <1>3 DEF Steady
<1>5. window.elapsed = 0 /\ NoneFinal(answers)
  BY <1>1 DEF FreshWindow, NoneFinal
<1> QED BY <1>1, <1>2, <1>4, <1>5 DEF WholeInv

LEMMA FeedWhole ==
  ASSUME GateInv, WindowInv, WholeInv, NEW loud \in Loudness, FeedFrame(loud)
  PROVE  WholeInv'
<1> SUFFICES ASSUME engine' = "moonshine"
             PROVE  /\ link' = "up" /\ ~served' => Ahead(audio', sent', window'.elapsed, phase' # "open")
                    /\ ~served' => Steady(window', sent')
                    /\ consumer' = "done" \/ ~NoneFinal(answers') =>
                         phase' # "open" /\ SpellsTo(window'.words, sent', Len(sent'))
  BY DEF WholeInv
<1>1. PICK out : out = Feed(gate, fed + 1, loud).out
  OBVIOUS
<1>2. out \in Seq(Nat)
  BY <1>1, OutType DEF GateInv, GateAt
<1>3. /\ engine' = engine /\ link' = link /\ served' = served /\ phase' = phase /\ phase = "open" /\ window' = window
      /\ consumer' = consumer /\ answers' = answers
      /\ sent' = sent \o out /\ audio' = (IF link = "up" THEN audio \o out ELSE audio)
  BY <1>1 DEF FeedFrame, engineVars
<1>4. sent \in Seq(Nat) /\ audio \in Seq(Nat) /\ window \in WindowType /\ Sized(window)
  BY SentIs DEF WindowInv
<1>5. window.elapsed \in Nat
  BY <1>4 DEF WindowType
<1>6. ASSUME link = "up", ~served PROVE Ahead(audio', sent', window'.elapsed, phase' # "open")
  <2>1. Ahead(audio, sent, window.elapsed, FALSE)
    BY <1>3, <1>6 DEF WholeInv
  <2>2. Ahead(audio \o out, sent \o out, window.elapsed, FALSE)
    BY <1>2, <1>4, <1>5, <2>1, AheadMore
  <2>3. phase' # "open" <=> FALSE
    BY <1>3
  <2>4. (phase' # "open") = FALSE
    BY <2>3
  <2> QED BY <1>3, <1>6, <2>2, <2>4
<1>7. ASSUME ~served PROVE Steady(window', sent')
  <2>1. PICK b, strip : WindowAt(window, sent, b, strip)
    BY <1>3, <1>7 DEF WholeInv, Steady
  <2>2. PICK t : t = sent \o out
    OBVIOUS
  <2>3. t \in Seq(Nat) /\ Len(sent) <= Len(t) /\ \A i \in 1..Len(sent) : t[i] = sent[i]
    <3>1. t \in Seq(Nat) /\ Len(t) = Len(sent) + Len(out) /\ Len(sent) \in Nat /\ Len(out) \in Nat
      BY <1>2, <1>4, <2>2, ConcatIs
    <3>2. \A i \in 1..Len(sent) : t[i] = sent[i]
      BY <1>2, <1>4, <2>2, ConcatIs
    <3> QED BY <3>1, <3>2
  <2>4. WindowAt(window, t, b, strip)
    BY <1>4, <2>1, <2>3, SentMore
  <2> QED BY <1>3, <2>2, <2>4 DEF Steady
<1>8. ~(consumer = "done" \/ ~NoneFinal(answers))
  BY <1>3 DEF WholeInv
<1> QED BY <1>3, <1>6, <1>7, <1>8

LEMMA ServeWhole ==
  ASSUME Unsteady = FALSE, GateInv, WindowInv, RelayInv, RelayInv', WholeInv, Serve
  PROVE  WholeInv'
<1>1. /\ engine = "moonshine" /\ link = "up" /\ audio # <<>> /\ ~served /\ sent' = sent /\ link' = link
      /\ audio' = Tail(audio) /\ phase' = phase
  BY DEF Serve
<1>2. /\ window \in WindowType /\ Sized(window) /\ Blank(window) /\ audio \in Seq(Nat) /\ sent \in Seq(Nat)
      /\ Rises(sent) /\ \A i \in 1..Len(sent) : sent[i] # EndOfAudio
  BY SentIs DEF WindowInv
<1>3. PICK k \in Nat, ended \in BOOLEAN : k = window.elapsed /\ ended = (phase # "open")
  BY <1>2 DEF WindowType
<1>4. Ahead(audio, sent, k, ended)
  BY <1>1, <1>3 DEF WholeInv
<1>5. /\ Head(audio) = EndOfAudio => ended /\ k = Len(sent)
      /\ Head(audio) # EndOfAudio => k < Len(sent) /\ Head(audio) = sent[k + 1] /\ Ahead(Tail(audio), sent, k + 1, ended)
  BY <1>1, <1>2, <1>4, AheadServe
<1>6. PICK b, strip : WindowAt(window, sent, b, strip)
  BY <1>1 DEF WholeInv, Steady
<1>7. PICK heard : heard = IF Head(audio) = EndOfAudio THEN window ELSE FeedPcm(window, Head(audio))
  OBVIOUS
<1>8. heard \in WindowType /\ Sized(heard)
  <2>1. Head(audio) \in Nat
    BY <1>1, <1>2
  <2> QED BY <1>2, <1>7, <2>1, FedSized
<1>9. PICK slips \in Misheard(heard.buffer) :
        LET words == Decode(heard.buffer, slips)
        IN  IF Head(audio) = EndOfAudio
            THEN window' = CloseWindow(heard, words) /\ served' = TRUE
            ELSE IF RefreshDue(heard) THEN window' = Refresh(heard, words) /\ ~served'
            ELSE window' = heard /\ ~served'
  BY <1>1, <1>7 DEF Serve
<1>10. PICK words : words = Decode(heard.buffer, slips)
  OBVIOUS
<1>11. CASE Head(audio) = EndOfAudio
  <2>1. heard = window /\ ended /\ k = Len(sent) /\ window' = CloseWindow(heard, words) /\ served'
    BY <1>5, <1>7, <1>9, <1>10, <1>11
  <2>2. WindowAt(heard, sent, b, strip)
    BY <1>6, <2>1
  <2>3. words \in Seq(Word) /\ Len(words) = heard.elapsed - heard.start /\ Hears(words, sent, heard.start)
    BY <1>2, <1>8, <1>10, <2>2, DecodeHears
  <2>4. SpellsTo(CloseWindow(heard, words).words, sent, heard.elapsed)
    BY <1>2, <1>8, <2>2, <2>3, CloseAt
  <2>5. SpellsTo(window'.words, sent, Len(sent))
    BY <1>3, <2>1, <2>4
  <2> QED BY <1>1, <1>3, <2>1, <2>5 DEF WholeInv
<1>12. CASE Head(audio) # EndOfAudio
  <2>1. k < Len(sent) /\ Head(audio) = sent[k + 1] /\ Ahead(Tail(audio), sent, k + 1, ended)
    BY <1>5, <1>12
  <2>2. PICK f \in Nat : f = Head(audio)
    BY <1>1, <1>2
  <2>3. heard = FeedPcm(window, f)
    BY <1>7, <1>12, <2>2
  <2>4. heard.elapsed = k + 1 /\ heard.refreshedAt \in Nat
    <3>1. heard.elapsed = window.elapsed + 1
      BY <1>2, <2>3, FeedPcmIs
    <3> QED BY <1>3, <1>8, <3>1 DEF WindowType
  <2>5. WindowAt(heard, sent, b, strip)
    BY <1>2, <1>3, <1>6, <2>1, <2>2, <2>3, FedAt
  <2>6. ~served' /\ Steady(window', sent) /\ window'.elapsed = k + 1
    <3>1. CASE RefreshDue(heard)
      <4>1. window' = Refresh(heard, words) /\ ~served'
        BY <1>9, <1>10, <1>12, <3>1
      <4>2. heard.elapsed > heard.refreshedAt
        BY <3>1 DEF RefreshDue
      <4>3. words \in Seq(Word) /\ Len(words) = heard.elapsed - heard.start /\ Hears(words, sent, heard.start)
        BY <1>2, <1>8, <1>10, <2>5, DecodeHears
      <4>4. \E b2, strip2 : WindowAt(Refresh(heard, words), sent, b2, strip2)
        BY <1>2, <1>8, <2>5, <4>2, <4>3, RefreshAt
      <4>5. Refresh(heard, words).elapsed = heard.elapsed
        BY <1>8, <4>3, RefreshKeeps
      <4> QED BY <2>4, <4>1, <4>4, <4>5 DEF Steady
    <3>2. CASE ~RefreshDue(heard)
      <4>1. window' = heard /\ ~served'
        BY <1>9, <1>12, <3>2
      <4> QED BY <2>4, <2>5, <4>1 DEF Steady
    <3> QED BY <3>1, <3>2
  <2>7. NoneFinal(answers') /\ consumer' # "done"
    BY <2>6 DEF RelayInv
  <2>8. Ahead(audio', sent', window'.elapsed, phase' # "open")
    BY <1>1, <1>3, <2>1, <2>6
  <2> QED BY <1>1, <2>6, <2>7, <2>8 DEF WholeInv
<1> QED BY <1>11, <1>12

LEMMA StepWhole ==
  ASSUME Unsteady = FALSE
  PROVE  GateInv /\ WindowInv /\ RelayInv /\ RelayInv' /\ WholeInv /\ [Next]_vars => WholeInv'
<1> SUFFICES ASSUME GateInv, WindowInv, RelayInv, RelayInv', WholeInv, [Next]_vars PROVE WholeInv'
  OBVIOUS
<1>1. CASE \E loud \in Loudness : FeedFrame(loud)
  BY <1>1, FeedWhole
<1>2. CASE StartClose
  <2>1. /\ engine' = engine /\ link' = link /\ served' = served /\ phase = "open" /\ phase' = "closing"
        /\ window' = window /\ consumer' = consumer /\ answers' = answers /\ sent' = sent
        /\ audio' = (IF link = "up" THEN Append(audio, EndOfAudio) ELSE audio)
    BY <1>2 DEF StartClose, engineVars
  <2>2. ASSUME engine = "moonshine", link = "up", ~served PROVE Ahead(audio', sent, window.elapsed, phase' # "open")
    <3>1. sent \in Seq(Nat) /\ audio \in Seq(Nat) /\ window.elapsed \in Nat
      BY SentIs DEF WindowInv, WindowType
    <3>2. (phase # "open") = FALSE /\ (phase' # "open") = TRUE
      BY <2>1
    <3>3. Ahead(audio, sent, window.elapsed, FALSE)
      BY <2>2, <3>2 DEF WholeInv
    <3>4. Ahead(Append(audio, EndOfAudio), sent, window.elapsed, TRUE)
      BY <3>1, <3>3, AheadEnds
    <3> QED BY <2>1, <2>2, <3>2, <3>4
  <2> QED BY <2>1, <2>2 DEF WholeInv
<1>3. CASE FinishClose
  <2>1. /\ engine' = engine /\ link' = "down" /\ served' = served /\ phase' = "closed" /\ phase = "closing"
        /\ window' = window /\ consumer' = consumer /\ answers' = <<>> /\ sent' = sent
    BY <1>3 DEF FinishClose, engineVars
  <2>2. NoneFinal(answers')
    BY <2>1 DEF NoneFinal
  <2> QED BY <2>1, <2>2 DEF WholeInv
<1>4. CASE LinkBreaks
  <2>1. /\ engine' = engine /\ link' = "down" /\ served' = served /\ phase' = phase
        /\ window' = window /\ consumer' = consumer /\ sent' = sent
        /\ \E kept \in 0 .. Len(answers) : answers' = SubSeq(answers, 1, kept)
    BY <1>4 DEF LinkBreaks, engineVars
  <2>2. answers \in Seq(AnswerType) /\ LastEnds(relay, answers, SessionLines)
    BY DEF RelayInv, Chain
  <2>3. NoneFinal(answers) => NoneFinal(answers')
    BY <2>1, <2>2, LastCut
  <2> QED BY <2>1, <2>3 DEF WholeInv
<1>5. CASE ReadAnswer
  <2>1. /\ engine' = engine /\ link' = link /\ served' = served /\ phase' = phase /\ audio' = audio
        /\ window' = window /\ sent' = sent /\ answers # <<>> /\ answers' = Tail(answers) /\ consumer = "reading"
        /\ consumer' = (IF Head(answers).final THEN "done" ELSE consumer)
    BY <1>5 DEF ReadAnswer, engineVars
  <2>2. answers \in Seq(AnswerType)
    BY DEF RelayInv, Chain
  <2>3. Len(answers) \in Nat /\ Len(answers) > 0 /\ Head(answers) = answers[1] /\ 1 \in 1..Len(answers)
    BY <2>1, <2>2
  <2>4. Len(Tail(answers)) = Len(answers) - 1
        /\ \A i \in 1..(Len(answers) - 1) : Tail(answers)[i] = answers[i + 1] /\ i + 1 \in 1..Len(answers)
    BY <2>2, <2>3
  <2>5. NoneFinal(answers) => NoneFinal(answers')
    BY <2>1, <2>4 DEF NoneFinal
  <2>6. consumer' = "done" => ~NoneFinal(answers)
    BY <2>1, <2>3 DEF NoneFinal
  <2> QED BY <2>1, <2>5, <2>6 DEF WholeInv
<1>6. CASE Serve
  BY <1>6, ServeWhole
<1>7. CASE ServeAbruptEnd
  <2>1. engine' = engine /\ ~served /\ served' /\ answers' = answers /\ consumer' = consumer
    BY <1>7 DEF ServeAbruptEnd
  <2>2. NoneFinal(answers) /\ consumer # "done"
    BY <2>1 DEF RelayInv
  <2> QED BY <2>1, <2>2 DEF WholeInv
<1>8. CASE WlkAnswers
  BY <1>8 DEF WlkAnswers, WholeInv
<1>9. CASE DrainTimeout \/ ConsumerEnds
  <2>1. /\ engine' = engine /\ link' = link /\ served' = served /\ phase' = phase /\ audio' = audio
        /\ window' = window /\ sent' = sent /\ answers' = answers /\ consumer' # "done"
    BY <1>9 DEF DrainTimeout, ConsumerEnds, engineVars
  <2> QED BY <2>1 DEF WholeInv
<1>10. CASE Done \/ UNCHANGED vars
  BY <1>10 DEF Done, vars, WholeInv
<1> QED BY <1>1, <1>2, <1>3, <1>4, <1>5, <1>6, <1>7, <1>8, <1>9, <1>10 DEF Next

(* A line alone says its words.                                            *)
LEMMA TextsOne ==
  ASSUME NEW line \in LineType
  PROVE  Texts(<<line>>) = line.text
<1>1. PICK ls : ls = <<line>>
  OBVIOUS
<1>2. ls \in Seq(LineType) /\ Len(ls) = 1 /\ ls[1] = line
  BY <1>1
<1>3. Texts(SubSeq(ls, 1, 0 + 1)) = Texts(SubSeq(ls, 1, 0)) \o ls[0 + 1].text
  <2>1. 0 \in Nat /\ 0 < Len(ls)
    BY <1>2
  <2> QED BY <1>2, <2>1, TextsNext
<1>4. 0 + 1 = 1 /\ SubSeq(ls, 1, 0) = <<>> /\ SubSeq(ls, 1, 1) = ls
  BY <1>2
<1>5. line.text \in Seq(Text)
  BY DEF LineType
<1>6. <<>> \o line.text = line.text
  BY <1>5
<1>7. Texts(ls) = Texts(<<>>) \o line.text
  BY <1>2, <1>3, <1>4
<1> QED BY <1>1, <1>6, <1>7, TextsNone

LEMMA TextsOfWindow ==
  ASSUME NEW w \in WindowType, Blank(w)
  PROVE  Texts(LinesOf(w)) = w.words
<1>1. w.words \in Seq(Text)
  BY WordsAreText DEF WindowType
<1>2. CASE w.line
  <2>1. PICK line : line = Line(0, w.words)
    OBVIOUS
  <2>2. line \in LineType /\ line.text = w.words
    BY <1>1, <2>1, KeyZero DEF Line, LineType
  <2>3. LinesOf(w) = <<line>>
    BY <1>2, <2>1 DEF LinesOf
  <2> QED BY <2>2, <2>3, TextsOne
<1>3. CASE ~w.line
  BY <1>3, TextsNone DEF LinesOf, Blank
<1> QED BY <1>2, <1>3

LEMMA CleanEnd == RelayInv => (phase = "closed" /\ consumer = "done" => relay.settled = Texts(SessionLines))
BY DEF RelayInv

(* A clean end says every line of the session, and no word in flight after *)
(* them, of either engine, however it re-decodes (WlKRelay.close).         *)
THEOREM CleanEndSaysAll ==
  Spec => [](phase = "closed" /\ consumer = "done" => relay.settled = Texts(SessionLines))
BY InitGate, StepGate, InitWindow, StepWindow, InitRelay, StepRelay, CleanEnd, PTL DEF Spec

LEMMA WholeFollows == GateInv /\ WindowInv /\ RelayInv /\ WholeInv => CaptionsAreWhole
<1> SUFFICES ASSUME GateInv, WindowInv, RelayInv, WholeInv PROVE CaptionsAreWhole
  OBVIOUS
<1>1. NoWordDropped
  <2> SUFFICES ASSUME phase = "closed", consumer = "done", engine = "moonshine", NEW i \in DOMAIN sent
               PROVE  \E j \in DOMAIN relay.settled : relay.settled[j][1] = sent[i]
    BY DEF NoWordDropped
  <2>1. relay.settled = window.words
    <3>1. relay.settled = Texts(SessionLines)
      BY CleanEnd
    <3>2. SessionLines = LinesOf(window)
      BY SessionIs
    <3> QED BY <3>1, <3>2, TextsOfWindow DEF WindowInv
  <2>2. i \in 1..Len(sent)
    BY SentIs
  <2>3. SpellsTo(window.words, sent, Len(sent))
    BY DEF WholeInv
  <2>4. PICK j \in 1..Len(window.words) : window.words[j][1] = sent[i]
    BY <2>2, <2>3 DEF SpellsTo, Spells
  <2>5. DOMAIN window.words = 1..Len(window.words)
    <3>1. window.words \in Seq(Word)
      BY DEF WindowInv, WindowType
    <3> QED BY <3>1
  <2> QED BY <2>1, <2>4, <2>5
<1> QED BY <1>1, GateFollows, RelaySaysOnce, CleanEnd DEF CaptionsAreWhole, CleanEndDeliversAll

(* CaptionsAreWhole: with an engine that re-decodes what it has decoded    *)
(* the same but for its newest word, the gate passes all speech once, each *)
(* word is said once, and an utterance whose last answer was read is       *)
(* captioned whole, every frame sent a word of it (WlKRelay.close,         *)
(* _strip_overlap_prefix, MoonshineWindow.close).                          *)
THEOREM CaptionedWhole ==
  ASSUME Unsteady = FALSE
  PROVE  Spec => []CaptionsAreWhole
<1>1. GateInv /\ WindowInv /\ RelayInv /\ RelayInv' /\ WholeInv /\ [Next]_vars => WholeInv'
  BY StepWhole
<1> QED BY <1>1, InitGate, StepGate, InitWindow, StepWindow, InitRelay, StepRelay, InitWhole, WholeFollows,
           PTL DEF Spec
=============================================================================
