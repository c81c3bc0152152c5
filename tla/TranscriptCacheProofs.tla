---------------------- MODULE TranscriptCacheProofs ----------------------
(***************************************************************************)
(* The transcript cache for every number of runs, repointings, growths and *)
(* listings, any catalog and any rules: an entry a hit may serve was heard *)
(* to the end, a run merges what answers its request, a listing is of what *)
(* is on disk.                                                             *)
(*                                                                         *)
(* The run and the operator migrate one WAV's legacy sidecar at once, so   *)
(* the invariant says of each writer what its next file operation rests on *)
(* (WritersOK), and of a transcript that neither layout shows that some    *)
(* writer is about to move it (HiddenOnlyByMove).                          *)
(***************************************************************************)
EXTENDS TranscriptCache, SequenceTheorems, FiniteSetTheorems, WellFoundedInduction, TLAPS

(* The entries of the directory; a transcript nobody heard past the end.   *)
Sides == {m \in Models : disk.side[m] # NoEntry}
Heard(e) == IsTranscript(e) /\ e.heard <= wav

(* Entries lie under their own model; an entry is in a directory, whose    *)
(* newest is one of them.                                                  *)
DiskOK ==
  /\ disk = [x \in {"dir", "legacy", "side", "pointer", "newest"} |-> disk[x]]
  /\ disk.dir \in BOOLEAN /\ disk.side = [m \in Models |-> disk.side[m]]
  /\ \A m \in Sides : Heard(disk.side[m]) /\ disk.side[m].model = m
  /\ disk.legacy \in {NoEntry, Corrupt} \/ Heard(disk.legacy)
  /\ ~disk.dir => Sides = {}
  /\ Sides # {} => disk.newest \in Sides
  /\ disk.pointer # None => Sides # {}

(* What a writer migrates is the legacy sidecar that was there when it     *)
(* looked, or the other writer has moved it; what it points at is there.   *)
Migrating == {"mkdir", "move", "repoint"}
WritersOK ==
  /\ at = [t \in Writers |-> at[t]] /\ model = [t \in Writers |-> model[t]] /\ moved = [t \in Writers |-> moved[t]]
  /\ \A t \in Writers :
       /\ model[t] \in Models
       /\ at[t] \in Migrating => moved[t] \in Models
       /\ at[t] \in {"mkdir", "move"} =>
            disk.legacy = NoEntry \/ (disk.legacy # Corrupt /\ disk.legacy.model = moved[t])
       /\ at[t] = "repoint" => moved[t] \in Sides
       /\ at[t] = "point" => model[t] \in Sides

(* A transcript left in the legacy layout beside a new, empty directory.   *)
HiddenOnlyByMove ==
  disk.dir /\ Sides = {} /\ disk.legacy \notin {NoEntry, Corrupt} => \E t \in Writers : at[t] = "move"

(* What the run merges, what it is about to hear and what it writes all    *)
(* answer its request.                                                     *)
Answers(e) ==
  /\ e.said \in {job.ask, Recorded(e.model, job.ask)}
  /\ e.language \in Snapped(e.model, job.plan)
  /\ e.sig = <<job.rules>>
  /\ e.heard >= job.since

JobOK ==
  /\ job = [x \in DOMAIN NoJob |-> job[x]]
  /\ job.todo \in Seq(Models) /\ job.since \in Nat /\ job.since <= wav
  /\ Len(job.got) \in Nat /\ job.got = [i \in 1..Len(job.got) |-> job.got[i]]
  /\ \A i \in 1..Len(job.got) : job.got[i].model \in Models /\ job.got[i].heard \in Nat /\ Answers(job.got[i])
  /\ at["job"] # "idle" => job.todo # <<>> \/ Len(job.got) > 0
  /\ at["job"] = "hear" =>
       /\ job.fp \in Nat /\ job.since <= job.fp /\ job.fp <= wav
       /\ job.language \in Snapped(model["job"], job.plan) /\ job.todo # <<>>
  /\ job.out # NoEntry =>
       Heard(job.out) /\ job.out.model = model["job"] /\ Answers(job.out) /\ job.todo # <<>>
  /\ at["job"] \in {"idle", "next", "hear"} => job.out = NoEntry

(* A key that is still of the directory vouches for the row under it, and  *)
(* for the marker a listing has read.                                      *)
MemoOK ==
  /\ key = [r \in Polls \cup {"memo"} |-> key[r]]
  /\ key["memo"] = "dir" /\ disk.dir => memo = <<Marker(disk), Listing(disk)>>
  /\ poll = [p \in Polls |-> poll[p]]
  /\ \A p \in Polls :
       /\ poll[p] = [x \in {"at", "marker"} |-> poll[p][x]]
       /\ poll[p].at = "listing" /\ key[p] = "dir" /\ disk.dir => poll[p].marker = Marker(disk)

CacheInv == wav \in Nat /\ DiskOK /\ WritersOK /\ HiddenOnlyByMove /\ JobOK /\ MemoOK

-----------------------------------------------------------------------------
(* Induction, the folds of the model, and what the filter makes of them.   *)

(* Induction: what holds of 0 and passes to the next number holds of all. *)
LEMMA NatInd ==
  ASSUME NEW S, 0 \in S, \A n \in Nat : n \in S => n + 1 \in S
  PROVE  Nat \subseteq S
<1> SUFFICES ASSUME Nat \ S # {} PROVE FALSE
  OBVIOUS
<1>1. IsWellFoundedOn(OpToRel(<, Nat), Nat)
  BY NatLessThanWellFounded
<1>2. PICK x \in Nat \ S : \A y \in Nat \ S : ~(<<y, x>> \in OpToRel(<, Nat))
  BY <1>1, WFMin
<1>3. x # 0 /\ x - 1 \in Nat
  OBVIOUS
<1>4. CASE x - 1 \in S
  <2>1. (x - 1) + 1 \in S
    BY <1>3, <1>4
  <2> QED BY <2>1
<1>5. CASE x - 1 \notin S
  <2>1. /\ <<x - 1, x>> \in Nat \X Nat /\ <<x - 1, x>>[1] = x - 1 /\ <<x - 1, x>>[2] = x
        /\ x - 1 < x
    BY <1>3
  <2>2. <<x - 1, x>> \in OpToRel(<, Nat)
    BY <2>1 DEF OpToRel
  <2> QED BY <1>2, <1>3, <1>5, <2>2
<1> QED BY <1>4, <1>5

LEMMA MaxUpTo ==
  ASSUME NEW k \in Nat, NEW s \in SUBSET (1..(k + 1)), k + 1 \in s
  PROVE  Max(s) = k + 1
<1>1. \A y \in s : k + 1 >= y
  OBVIOUS
<1>2. \A x \in s : (\A y \in s : x >= y) => x = k + 1
  OBVIOUS
<1> QED BY <1>1, <1>2 DEF Max

(* The first k numbers, and the last of them. *)
LEMMA UpTo ==
  ASSUME NEW n \in Nat, NEW k \in 1..n
  PROVE  /\ 1..k \in SUBSET (1..n) /\ 1..k # {} /\ Max(1..k) = k
         /\ (1..k) \ {k} = 1..(k - 1) /\ k - 1 \in 0..n
<1>1. k \in Nat /\ 1 \in 1..k /\ k - 1 \in Nat /\ k - 1 \in 0..n
  OBVIOUS
<1>2. 1..k \in SUBSET (1..((k - 1) + 1)) /\ (k - 1) + 1 \in 1..k /\ (k - 1) + 1 = k
  BY <1>1
<1>3. Max(1..k) = k
  BY <1>1, <1>2, MaxUpTo
<1>4. \A i \in 1..k : i \in 1..n /\ (i # k => i \in 1..(k - 1))
  BY <1>1
<1>5. \A i \in 1..(k - 1) : i \in 1..k /\ i # k
  BY <1>1
<1> QED BY <1>1, <1>3, <1>4, <1>5

(* The fold of Those, as what it has after each element. *)
LEMMA ThoseIs ==
  ASSUME NEW s, Len(s) \in Nat, DOMAIN s = 1..Len(s), NEW S
  PROVE  \E f : /\ f = [k \in 0..Len(s) |-> IF k = 0 THEN <<>> ELSE IF s[k] \in S THEN Append(f[k - 1], s[k]) ELSE f[k - 1]]
                /\ Those(s, S) = f[Len(s)]
<1> DEFINE Def(g, D) == [d \in D |-> IF d = {} THEN <<>>
                                     ELSE LET x == Max(d) IN IF s[x] \in S THEN Append(g[d \ {x}], s[x]) ELSE g[d \ {x}]]
           N == {k \in Nat : \E g : g = Def(g, SUBSET (1..k))}
<1>1. 0 \in N
  <2>1. SUBSET (1..0) = {{}}
    OBVIOUS
  <2>2. PICK g : g = [d \in {{}} |-> <<>>]
    OBVIOUS
  <2>3. g = Def(g, SUBSET (1..0))
    BY <2>1, <2>2
  <2> QED BY <2>3
<1>2. ASSUME NEW k \in Nat, k \in N PROVE k + 1 \in N
  <2>1. PICK g : g = Def(g, SUBSET (1..k))
    BY <1>2
  <2>2. PICK h : h = [d \in SUBSET (1..(k + 1)) |->
                       IF d \in SUBSET (1..k) THEN g[d] ELSE IF s[k + 1] \in S THEN Append(g[d \ {k + 1}], s[k + 1]) ELSE g[d \ {k + 1}]]
    OBVIOUS
  <2>3. \A d \in SUBSET (1..k) : d \in SUBSET (1..(k + 1)) /\ h[d] = g[d]
    BY <2>2
  <2>4. ASSUME NEW d \in SUBSET (1..(k + 1))
        PROVE  h[d] = IF d = {} THEN <<>> ELSE IF s[Max(d)] \in S THEN Append(h[d \ {Max(d)}], s[Max(d)]) ELSE h[d \ {Max(d)}]
    <3>1. CASE k + 1 \in d
      <4>1. Max(d) = k + 1
        BY <3>1, MaxUpTo
      <4>2. d \ {k + 1} \in SUBSET (1..k) /\ d \notin SUBSET (1..k) /\ d # {}
        BY <3>1
      <4> QED BY <2>2, <2>3, <4>1, <4>2
    <3>2. CASE k + 1 \notin d
      <4>1. d \in SUBSET (1..k)
        BY <3>2
      <4>2. d # {} => d \ {Max(d)} \in SUBSET (1..k)
        BY <4>1
      <4>3. g[d] = IF d = {} THEN <<>> ELSE IF s[Max(d)] \in S THEN Append(g[d \ {Max(d)}], s[Max(d)]) ELSE g[d \ {Max(d)}]
        BY <2>1, <4>1
      <4> QED BY <2>3, <4>1, <4>2, <4>3
    <3> QED BY <3>1, <3>2
  <2>5. h = Def(h, SUBSET (1..(k + 1)))
    BY <2>2, <2>4, ZenonT(30)
  <2>6. k + 1 \in Nat
    OBVIOUS
  <2> HIDE DEF Def
  <2> QED BY <2>5, <2>6
<1>3. Len(s) \in N
  <2> HIDE DEF N
  <2> QED BY <1>1, <1>2, NatInd
<1>4. PICK iter : iter = Def(iter, SUBSET (1..Len(s))) /\ Those(s, S) = iter[1..Len(s)]
  <2> DEFINE it == CHOOSE g : g = Def(g, SUBSET (1..Len(s)))
  <2>1. it = Def(it, SUBSET (1..Len(s)))
    BY <1>3
  <2>2. Those(s, S) = it[1..Len(s)]
    BY DEF Those, FoldLeft, MapThenFoldSet
  <2> QED BY <2>1, <2>2
<1>5. PICK f : f = [k \in 0..Len(s) |-> iter[1..k]]
  OBVIOUS
<1>6. ASSUME NEW k \in 0..Len(s)
      PROVE  f[k] = IF k = 0 THEN <<>> ELSE IF s[k] \in S THEN Append(f[k - 1], s[k]) ELSE f[k - 1]
  <2>1. CASE k = 0
    BY <1>4, <1>5, <2>1
  <2>2. CASE k # 0
    <3>1. PICK d : d = 1..k
      OBVIOUS
    <3>2. d \in SUBSET (1..Len(s)) /\ d # {} /\ Max(d) = k /\ d \ {k} = 1..(k - 1) /\ k - 1 \in 0..Len(s)
      BY <2>2, <3>1, UpTo
    <3>3. iter[d] = IF s[k] \in S THEN Append(iter[d \ {k}], s[k]) ELSE iter[d \ {k}]
      BY <1>4, <3>2
    <3> QED BY <1>5, <2>2, <3>1, <3>2, <3>3
  <2> QED BY <2>1, <2>2
<1>7. f = [k \in 0..Len(s) |-> IF k = 0 THEN <<>> ELSE IF s[k] \in S THEN Append(f[k - 1], s[k]) ELSE f[k - 1]]
  BY <1>5, <1>6
<1>8. Those(s, S) = f[Len(s)]
  BY <1>4, <1>5
<1> HIDE DEF Def
<1> QED BY <1>7, <1>8

(* The elements rise; each is there once. *)
Rises(t) == \A i, j \in 1..Len(t) : i < j => t[i] < t[j]
OnceEach(t) == \A i, j \in 1..Len(t) : t[i] = t[j] => i = j

(* What is selected: the elements in the set, each as often, in order. *)
LEMMA ThoseSelects ==
  ASSUME NEW s \in Seq(Nat), NEW S
  PROVE  /\ Those(s, S) \in Seq(Nat)
         /\ ToSet(Those(s, S)) = ToSet(s) \cap S
         /\ Rises(s) => Rises(Those(s, S))
         /\ OnceEach(s) => OnceEach(Those(s, S))
<1>1. Len(s) \in Nat /\ DOMAIN s = 1..Len(s)
  OBVIOUS
<1>2. PICK f : /\ f = [k \in 0..Len(s) |-> IF k = 0 THEN <<>>
                          ELSE IF s[k] \in S THEN Append(f[k - 1], s[k]) ELSE f[k - 1]]
               /\ Those(s, S) = f[Len(s)]
  BY <1>1, ThoseIs
<1> DEFINE Had(k) == {s[i] : i \in 1..k}
           Good(k) == /\ f[k] \in Seq(Nat)
                      /\ ToSet(f[k]) = Had(k) \cap S
                      /\ Rises(s) => Rises(f[k])
                      /\ OnceEach(s) => OnceEach(f[k])
           N == {k \in Nat : k <= Len(s) => Good(k)}
<1>3. 0 \in N
  <2>1. f[0] = <<>> /\ 1..0 = {}
    BY <1>1, <1>2
  <2>2. <<>> \in Seq(Nat) /\ Len(<<>>) = 0 /\ DOMAIN <<>> = {}
    OBVIOUS
  <2>3. ToSet(<<>>) = {} /\ Rises(<<>>) /\ OnceEach(<<>>)
    BY <2>1, <2>2 DEF ToSet, Rises, OnceEach
  <2>4. Had(0) = {}
    BY <2>1
  <2> QED BY <2>1, <2>2, <2>3, <2>4
<1>4. ASSUME NEW k \in Nat, k \in N PROVE k + 1 \in N
  <2> SUFFICES ASSUME k + 1 <= Len(s) PROVE Good(k + 1)
    OBVIOUS
  <2>2. Good(k) /\ k + 1 \in 1..Len(s) /\ k \in 0..Len(s) /\ k + 1 \in 0..Len(s)
        /\ k + 1 # 0 /\ (k + 1) - 1 = k /\ 1..k \subseteq 1..Len(s)
    BY <1>1, <1>4
  <2>3. f[k + 1] = IF s[k + 1] \in S THEN Append(f[k], s[k + 1]) ELSE f[k]
    BY <1>2, <2>2
  <2>4. Had(k + 1) = Had(k) \cup {s[k + 1]}
    <3>1. \A i \in 1..(k + 1) : i \in 1..k \/ i = k + 1
      OBVIOUS
    <3>2. \A i \in 1..k : i \in 1..(k + 1)
      OBVIOUS
    <3>3. k + 1 \in 1..(k + 1)
      OBVIOUS
    <3> QED BY <3>1, <3>2, <3>3
  <2>5. PICK t : t = f[k]
    OBVIOUS
  <2>6. PICK x : x = s[k + 1]
    OBVIOUS
  <2>7. t \in Seq(Nat) /\ ToSet(t) = Had(k) \cap S /\ x \in Nat
    BY <1>1, <2>2, <2>5, <2>6
  <2>8. CASE x \notin S
    BY <2>2, <2>3, <2>4, <2>6, <2>8
  <2>9. CASE x \in S
    <3>1. PICK u : u = Append(t, x)
      OBVIOUS
    <3>2. /\ u \in Seq(Nat) /\ Len(u) = Len(t) + 1 /\ u[Len(u)] = x
          /\ \A i \in 1..Len(t) : u[i] = t[i]
      BY <2>7, <3>1
    <3>3. f[k + 1] = u
      BY <2>3, <2>5, <2>6, <2>9, <3>1
    <3>4. ToSet(u) = ToSet(t) \cup {x}
      <4>1. \A i \in 1..Len(u) : i \in 1..Len(t) \/ i = Len(u)
        BY <2>7, <3>2
      <4>2. DOMAIN u = 1..Len(u) /\ DOMAIN t = 1..Len(t) /\ Len(t) \in Nat
        BY <2>7, <3>2
      <4>3. \A i \in 1..Len(t) : i \in 1..Len(u)
        BY <3>2, <4>2
      <4>4. Len(u) \in 1..Len(u)
        BY <3>2, <4>2
      <4> QED BY <3>2, <4>1, <4>2, <4>3, <4>4 DEF ToSet
    <3>5. \A i \in 1..Len(t) : \E j \in 1..k : t[i] = s[j]
      <4>1. \A i \in 1..Len(t) : t[i] \in ToSet(t)
        BY <2>7 DEF ToSet
      <4> QED BY <2>7, <4>1
    <3>6. ASSUME Rises(s) PROVE Rises(u)
      <4>5. \A j \in 1..k : j \in 1..Len(s) /\ j < k + 1
        BY <2>2
      <4>1. \A j \in 1..k : s[j] < x
        BY <2>2, <2>6, <3>6, <4>5 DEF Rises
      <4>3. \A i \in 1..Len(t) : t[i] < x
        BY <3>5, <4>1
      <4>2. Rises(t)
        BY <2>2, <2>5, <3>6
      <4>4. ASSUME NEW i \in 1..Len(u), NEW j \in 1..Len(u), i < j PROVE u[i] < u[j]
        <5>2. Len(t) \in Nat /\ Len(u) = Len(t) + 1
          BY <2>7, <3>2
        <5>1. i \in 1..Len(t) /\ (j \in 1..Len(t) \/ j = Len(u))
          BY <4>4, <5>2
        <5> QED BY <3>2, <4>2, <4>3, <4>4, <5>1 DEF Rises
      <4> QED BY <4>4 DEF Rises
    <3>7. ASSUME OnceEach(s) PROVE OnceEach(u)
      <4>1. \A j \in 1..k : s[j] # x
        BY <2>2, <2>6, <3>7 DEF OnceEach
      <4>3. \A i \in 1..Len(t) : t[i] # x
        BY <3>5, <4>1
      <4>2. OnceEach(t)
        BY <2>2, <2>5, <3>7
      <4>4. ASSUME NEW i \in 1..Len(u), NEW j \in 1..Len(u), u[i] = u[j] PROVE i = j
        <5>1. (i \in 1..Len(t) \/ i = Len(u)) /\ (j \in 1..Len(t) \/ j = Len(u)) /\ Len(t) \in Nat
          BY <2>7, <3>2
        <5> QED BY <3>2, <4>2, <4>3, <4>4, <5>1 DEF OnceEach
      <4> QED BY <4>4 DEF OnceEach
    <3>8. ToSet(u) = Had(k + 1) \cap S
      BY <2>4, <2>6, <2>7, <2>9, <3>4
    <3> QED BY <3>2, <3>3, <3>6, <3>7, <3>8
  <2> QED BY <2>8, <2>9
<1>5. Len(s) \in N
  <2> HIDE DEF N
  <2> QED BY <1>1, <1>3, <1>4, NatInd
<1>6. Had(Len(s)) = ToSet(s)
  BY <1>1 DEF ToSet
<1> QED BY <1>1, <1>2, <1>5, <1>6

(* Only what the set says of the elements matters. *)
LEMMA ThoseAgree ==
  ASSUME NEW s \in Seq(Nat), NEW S, NEW T, ToSet(s) \cap S = ToSet(s) \cap T
  PROVE  Those(s, S) = Those(s, T)
<1>1. Len(s) \in Nat /\ DOMAIN s = 1..Len(s) /\ \A i \in 1..Len(s) : s[i] \in S <=> s[i] \in T
  BY DEF ToSet
<1>2. PICK f : /\ f = [k \in 0..Len(s) |-> IF k = 0 THEN <<>>
                          ELSE IF s[k] \in S THEN Append(f[k - 1], s[k]) ELSE f[k - 1]]
               /\ Those(s, S) = f[Len(s)]
  BY <1>1, ThoseIs
<1>3. PICK g : /\ g = [k \in 0..Len(s) |-> IF k = 0 THEN <<>>
                          ELSE IF s[k] \in T THEN Append(g[k - 1], s[k]) ELSE g[k - 1]]
               /\ Those(s, T) = g[Len(s)]
  BY <1>1, ThoseIs
<1> DEFINE N == {k \in Nat : k <= Len(s) => f[k] = g[k]}
<1>4. 0 \in N
  BY <1>1, <1>2, <1>3
<1>5. ASSUME NEW k \in Nat, k \in N PROVE k + 1 \in N
  <2> SUFFICES ASSUME k + 1 <= Len(s) PROVE f[k + 1] = g[k + 1]
    OBVIOUS
  <2>1. k + 1 \in 1..Len(s) /\ k + 1 \in 0..Len(s) /\ k + 1 # 0 /\ (k + 1) - 1 = k /\ f[k] = g[k]
    BY <1>1, <1>5
  <2>2. f[k + 1] = IF s[k + 1] \in S THEN Append(f[k], s[k + 1]) ELSE f[k]
    BY <1>2, <2>1
  <2>3. g[k + 1] = IF s[k + 1] \in T THEN Append(g[k], s[k + 1]) ELSE g[k]
    BY <1>3, <2>1
  <2> QED BY <1>1, <2>1, <2>2, <2>3
<1>6. Len(s) \in N
  <2> HIDE DEF N
  <2> QED BY <1>1, <1>4, <1>5, NatInd
<1> QED BY <1>1, <1>2, <1>3, <1>6

(* Rising sequences of one length and the same elements are the same. *)
LEMMA RisingIsOne ==
  ASSUME NEW n \in Nat, NEW t \in [1..n -> Nat], NEW u \in [1..n -> Nat],
         \A i, j \in 1..n : i < j => t[i] < t[j], \A i, j \in 1..n : i < j => u[i] < u[j],
         \A i \in 1..n : \E j \in 1..n : t[i] = u[j], \A i \in 1..n : \E j \in 1..n : u[i] = t[j]
  PROVE  t = u
<1> DEFINE N == {k \in Nat : \A i \in 1..n : i <= k => t[i] = u[i]}
<1>1. 0 \in N
  OBVIOUS
<1>2. ASSUME NEW k \in Nat, k \in N PROVE k + 1 \in N
  <2>0. \A i \in 1..n : i <= k + 1 => i <= k \/ i = k + 1
    OBVIOUS
  <2>9. \A i \in 1..n : i <= k => t[i] = u[i]
    BY <1>2
  <2>10. k + 1 \in Nat
    OBVIOUS
  <2>11. (k + 1 \in 1..n => t[k + 1] = u[k + 1]) => k + 1 \in N
    BY <2>0, <2>9, <2>10
  <2> SUFFICES ASSUME k + 1 \in 1..n PROVE t[k + 1] = u[k + 1]
    BY <2>11
  <2>1. \A i \in 1..n : i < k + 1 => t[i] = u[i]
    BY <1>2
  <2>2. PICK a \in 1..n : t[k + 1] = u[a]
    OBVIOUS
  <2>3. PICK b \in 1..n : u[k + 1] = t[b]
    OBVIOUS
  <2>4. ~(a < k + 1)
    <3>1. a < k + 1 => t[a] = u[a] /\ t[a] < t[k + 1]
      BY <2>1
    <3> QED BY <2>2, <3>1
  <2>5. ~(b < k + 1)
    <3>1. b < k + 1 => t[b] = u[b] /\ u[b] < u[k + 1]
      BY <2>1
    <3> QED BY <2>3, <3>1
  <2>6. t[k + 1] \in Nat /\ u[k + 1] \in Nat
    OBVIOUS
  <2>7. CASE a # k + 1 /\ b # k + 1
    <3>1. u[k + 1] < u[a] /\ t[k + 1] < t[b]
      <4>1. k + 1 < a /\ k + 1 < b
        BY <2>4, <2>5, <2>7
      <4>2. u[k + 1] < u[a]
        BY <4>1
      <4>3. t[k + 1] < t[b]
        BY <4>1
      <4> QED BY <4>2, <4>3
    <3> QED BY <2>2, <2>3, <2>6, <3>1
  <2> QED BY <2>2, <2>3, <2>7
<1>3. n \in N
  <2> HIDE DEF N
  <2> QED BY <1>1, <1>2, NatInd
<1> QED BY <1>3

LEMMA TimelineIs ==
  ASSUME NEW v \in Nat
  PROVE  /\ Timeline(v) \in Seq(Nat) /\ Len(Timeline(v)) = v /\ ToSet(Timeline(v)) = 1..v
         /\ Rises(Timeline(v)) /\ OnceEach(Timeline(v))
<1>1. Timeline(v) \in Seq(Nat) /\ Len(Timeline(v)) = v /\ DOMAIN Timeline(v) = 1..v
      /\ \A i \in 1..v : Timeline(v)[i] = i
  BY DEF Timeline
<1> QED BY <1>1 DEF ToSet, Rises, OnceEach

(* A sequence of distinct elements is as long as its set is large. *)
LEMMA OnceEachLen ==
  ASSUME NEW s \in Seq(Nat), OnceEach(s)
  PROVE  IsFiniteSet(ToSet(s)) /\ Cardinality(ToSet(s)) = Len(s)
<1>1. Len(s) \in Nat /\ DOMAIN s = 1..Len(s)
  OBVIOUS
<1>2. s \in Bijection(1..Len(s), ToSet(s))
  <2>1. s \in [1..Len(s) -> ToSet(s)]
    BY <1>1 DEF ToSet
  <2>2. \A x \in ToSet(s) : \E i \in 1..Len(s) : s[i] = x
    BY <1>1 DEF ToSet
  <2> QED BY <2>1, <2>2 DEF Bijection, Injection, Surjection, IsInjective, OnceEach
<1>3. IsFiniteSet(1..Len(s)) /\ Cardinality(1..Len(s)) = Len(s)
  BY <1>1, FS_Interval, SMTT(30)
<1> QED BY <1>2, <1>3, FS_Bijection DEF ExistsBijection

(* Rising sequences of the same elements are the same. *)
LEMMA RisingSame ==
  ASSUME NEW s \in Seq(Nat), NEW t \in Seq(Nat), Rises(s), Rises(t), ToSet(s) = ToSet(t)
  PROVE  s = t
<1>1. OnceEach(s) /\ OnceEach(t)
  <2>1. \A u \in Seq(Nat) : Rises(u) => OnceEach(u)
    <3> SUFFICES ASSUME NEW u \in Seq(Nat), Rises(u), NEW i \in 1..Len(u), NEW j \in 1..Len(u), u[i] = u[j]
                 PROVE  i = j
      BY DEF OnceEach
    <3>1. u[i] \in Nat /\ (i < j => u[i] < u[j]) /\ (j < i => u[j] < u[i])
      BY DEF Rises
    <3> QED BY <3>1
  <2> QED BY <2>1
<1>2. Len(s) = Len(t) /\ Len(s) \in Nat
  BY <1>1, OnceEachLen
<1>3. s \in [1..Len(s) -> Nat] /\ t \in [1..Len(s) -> Nat]
  BY <1>2
<1>4. \A i \in 1..Len(s) : \E j \in 1..Len(s) : s[i] = t[j]
  <2>1. \A i \in 1..Len(s) : s[i] \in ToSet(t)
    BY <1>3 DEF ToSet
  <2> QED BY <1>3, <2>1 DEF ToSet
<1>5. \A i \in 1..Len(s) : \E j \in 1..Len(s) : t[i] = s[j]
  <2>1. \A i \in 1..Len(s) : t[i] \in ToSet(s)
    BY <1>3 DEF ToSet
  <2> QED BY <1>3, <2>1 DEF ToSet
<1>6. /\ \A i, j \in 1..Len(s) : i < j => s[i] < s[j]
      /\ \A i, j \in 1..Len(s) : i < j => t[i] < t[j]
  BY <1>2 DEF Rises
<1> QED BY <1>2, <1>3, <1>4, <1>5, <1>6, RisingIsOne

(* The sorted segments are those of the timeline. *)
LEMMA SortedIs ==
  ASSUME NEW v \in Nat, NEW s \in Seq(Nat), OnceEach(s), ToSet(s) \subseteq 1..v
  PROVE  Sorted(s) = Those(Timeline(v), ToSet(s))
<1>1. PICK t : t = Those(Timeline(v), ToSet(s))
  OBVIOUS
<1>2. t \in Seq(Nat) /\ ToSet(t) = ToSet(s) /\ Rises(t) /\ OnceEach(t)
  <2>1. (1..v) \cap ToSet(s) = ToSet(s)
    OBVIOUS
  <2> QED BY <1>1, <2>1, TimelineIs, ThoseSelects, ZenonT(30)
<1>3. Len(t) = Len(s) /\ Len(s) \in Nat
  BY <1>2, OnceEachLen
<1>4. DOMAIN s = 1..Len(s) /\ DOMAIN t = 1..Len(s)
  BY <1>2, <1>3
<1>5. t \in [DOMAIN s -> ToSet(s)]
  <2>1. \A i \in 1..Len(s) : t[i] \in ToSet(t)
    BY <1>4 DEF ToSet
  <2>2. t = [i \in 1..Len(s) |-> t[i]]
    BY <1>2, <1>3
  <2> QED BY <1>2, <1>4, <2>1, <2>2
<1>6. \A i, j \in DOMAIN t : i < j => t[i] < t[j]
  BY <1>2, <1>3, <1>4 DEF Rises
<1>7. PICK u \in [DOMAIN s -> ToSet(s)] :
        u = Sorted(s) /\ ToSet(u) = ToSet(s) /\ \A i, j \in DOMAIN u : i < j => u[i] < u[j]
  BY <1>2, <1>5, <1>6 DEF Sorted
<1>8. t = u
  <2>1. ToSet(s) \subseteq Nat /\ DOMAIN s = 1..Len(s) /\ Len(s) \in Nat
    BY <1>3, <1>4 DEF ToSet
  <2>2. u \in Seq(Nat) /\ Len(u) = Len(s) /\ DOMAIN u = 1..Len(u)
    BY <1>7, <2>1
  <2>3. Rises(u)
    BY <1>7, <2>2 DEF Rises
  <2> QED BY <1>2, <1>7, <2>2, <2>3, RisingSame
<1> QED BY <1>1, <1>7, <1>8
-----------------------------------------------------------------------------
(* The model a language adds to those before it. *)
Joined(models, l, specialists, registry) ==
  IF \/ l \notin EffectiveSpecialists(specialists, registry)
     \/ Contains(models, specialists[l])
  THEN models
  ELSE Append(models, specialists[l])

(* The fold of the cover, as the models joined after each language. *)
LEMMA CoverIs ==
  ASSUME NEW s, Len(s) \in Nat, DOMAIN s = 1..Len(s), NEW generalist, NEW specialists, NEW registry
  PROVE  \E f : /\ f = [k \in 0..Len(s) |-> IF k = 0 THEN <<generalist>> ELSE Joined(f[k - 1], s[k], specialists, registry)]
                /\ CoverModels(s, generalist, specialists, registry) = f[Len(s)]
<1> DEFINE Def(g, D) == [d \in D |-> IF d = {} THEN <<generalist>>
                                     ELSE LET x == Max(d) IN Joined(g[d \ {x}], s[x], specialists, registry)]
           N == {k \in Nat : \E g : g = Def(g, SUBSET (1..k))}
<1>1. 0 \in N
  <2>1. SUBSET (1..0) = {{}}
    OBVIOUS
  <2>2. PICK g : g = [d \in {{}} |-> <<generalist>>]
    OBVIOUS
  <2>3. g = Def(g, SUBSET (1..0))
    BY <2>1, <2>2
  <2> QED BY <2>3
<1>2. ASSUME NEW k \in Nat, k \in N PROVE k + 1 \in N
  <2>1. PICK g : g = Def(g, SUBSET (1..k))
    BY <1>2
  <2>2. PICK h : h = [d \in SUBSET (1..(k + 1)) |->
                       IF d \in SUBSET (1..k) THEN g[d] ELSE Joined(g[d \ {k + 1}], s[k + 1], specialists, registry)]
    OBVIOUS
  <2>3. \A d \in SUBSET (1..k) : d \in SUBSET (1..(k + 1)) /\ h[d] = g[d]
    BY <2>2
  <2>4. ASSUME NEW d \in SUBSET (1..(k + 1))
        PROVE  h[d] = IF d = {} THEN <<generalist>> ELSE Joined(h[d \ {Max(d)}], s[Max(d)], specialists, registry)
    <3>1. CASE k + 1 \in d
      <4>1. Max(d) = k + 1
        BY <3>1, MaxUpTo
      <4>2. d \ {k + 1} \in SUBSET (1..k) /\ d \notin SUBSET (1..k) /\ d # {}
        BY <3>1
      <4> QED BY <2>2, <2>3, <4>1, <4>2
    <3>2. CASE k + 1 \notin d
      <4>1. d \in SUBSET (1..k)
        BY <3>2
      <4>2. d # {} => d \ {Max(d)} \in SUBSET (1..k)
        BY <4>1
      <4>3. g[d] = IF d = {} THEN <<generalist>> ELSE Joined(g[d \ {Max(d)}], s[Max(d)], specialists, registry)
        BY <2>1, <4>1
      <4> QED BY <2>3, <4>1, <4>2, <4>3
    <3> QED BY <3>1, <3>2
  <2>5. h = Def(h, SUBSET (1..(k + 1)))
    BY <2>2, <2>4
  <2>6. k + 1 \in Nat
    OBVIOUS
  <2> HIDE DEF Def
  <2> QED BY <2>5, <2>6
<1>3. Len(s) \in N
  <2> HIDE DEF N
  <2> QED BY <1>1, <1>2, NatInd
<1>4. PICK iter : iter = Def(iter, SUBSET (1..Len(s))) /\ CoverModels(s, generalist, specialists, registry) = iter[1..Len(s)]
  <2> DEFINE it == CHOOSE g : g = Def(g, SUBSET (1..Len(s)))
  <2>1. it = Def(it, SUBSET (1..Len(s)))
    BY <1>3
  <2>2. CoverModels(s, generalist, specialists, registry) = it[1..Len(s)]
    BY DEF CoverModels, Joined, FoldLeft, MapThenFoldSet
  <2> QED BY <2>1, <2>2
<1>5. PICK f : f = [k \in 0..Len(s) |-> iter[1..k]]
  OBVIOUS
<1>6. ASSUME NEW k \in 0..Len(s)
      PROVE  f[k] = IF k = 0 THEN <<generalist>> ELSE Joined(f[k - 1], s[k], specialists, registry)
  <2>1. CASE k = 0
    BY <1>4, <1>5, <2>1
  <2>2. CASE k # 0
    <3>1. PICK d : d = 1..k
      OBVIOUS
    <3>2. d \in SUBSET (1..Len(s)) /\ d # {} /\ Max(d) = k /\ d \ {k} = 1..(k - 1) /\ k - 1 \in 0..Len(s)
      BY <2>2, <3>1, UpTo
    <3>3. iter[d] = Joined(iter[d \ {k}], s[k], specialists, registry)
      BY <1>4, <3>2
    <3> QED BY <1>5, <2>2, <3>1, <3>2, <3>3
  <2> QED BY <2>1, <2>2
<1>7. f = [k \in 0..Len(s) |-> IF k = 0 THEN <<generalist>> ELSE Joined(f[k - 1], s[k], specialists, registry)]
  BY <1>5, <1>6
<1>8. CoverModels(s, generalist, specialists, registry) = f[Len(s)]
  BY <1>4, <1>5
<1> HIDE DEF Def
<1> QED BY <1>7, <1>8

(* The cover is of the catalog's models, the generalist first, each once.  *)
LEMMA CoverIsOfCatalog ==
  ASSUME NEW s \in Seq(STRING), NEW registry, NEW generalist \in DOMAIN registry, NEW specialists
  PROVE  LET c == CoverModels(s, generalist, specialists, registry)
         IN  c \in Seq(DOMAIN registry) /\ c # <<>> /\ c[1] = generalist
             /\ \A i, j \in 1..Len(c) : c[i] = c[j] => i = j
<1>1. Len(s) \in Nat /\ DOMAIN s = 1..Len(s)
  OBVIOUS
<1>2. PICK f : /\ f = [k \in 0..Len(s) |-> IF k = 0 THEN <<generalist>>
                                           ELSE Joined(f[k - 1], s[k], specialists, registry)]
               /\ CoverModels(s, generalist, specialists, registry) = f[Len(s)]
  BY <1>1, CoverIs
<1> DEFINE Good(c) == c \in Seq(DOMAIN registry) /\ c # <<>> /\ c[1] = generalist
                      /\ \A i, j \in 1..Len(c) : c[i] = c[j] => i = j
           N == {k \in Nat : k <= Len(s) => Good(f[k])}
<1>3. 0 \in N
  <2>1. f[0] = <<generalist>>
    BY <1>1, <1>2
  <2>2. Good(<<generalist>>)
    OBVIOUS
  <2> HIDE DEF Good
  <2> QED BY <2>1, <2>2
<1>4. ASSUME NEW k \in Nat, k \in N PROVE k + 1 \in N
  <2> SUFFICES ASSUME k + 1 <= Len(s) PROVE Good(f[k + 1])
    OBVIOUS
  <2>1. k + 1 \in 0..Len(s) /\ k + 1 # 0 /\ (k + 1) - 1 = k /\ Good(f[k])
    BY <1>1, <1>4
  <2>2. PICK c, l : c = f[k] /\ l = s[k + 1]
    OBVIOUS
  <2>3. f[k + 1] = Joined(c, l, specialists, registry) /\ Good(c)
    BY <1>2, <2>1, <2>2
  <2>4. CASE l \notin EffectiveSpecialists(specialists, registry) \/ Contains(c, specialists[l])
    BY <2>3, <2>4 DEF Joined
  <2>5. CASE l \in EffectiveSpecialists(specialists, registry) /\ ~Contains(c, specialists[l])
    <3>1. PICK m : m = specialists[l]
      OBVIOUS
    <3>2. m \in DOMAIN registry /\ f[k + 1] = Append(c, m) /\ \A i \in 1..Len(c) : c[i] # m
      BY <2>3, <2>5, <3>1 DEF Joined, EffectiveSpecialists, Contains
    <3>3. PICK d : d = Append(c, m)
      OBVIOUS
    <3>4. /\ d \in Seq(DOMAIN registry) /\ Len(d) = Len(c) + 1 /\ d[Len(d)] = m
          /\ Len(c) \in Nat /\ Len(c) > 0 /\ \A i \in 1..Len(c) : d[i] = c[i]
      BY <2>3, <3>2, <3>3
    <3>5. ASSUME NEW i \in 1..Len(d), NEW j \in 1..Len(d), d[i] = d[j] PROVE i = j
      <4>1. (i \in 1..Len(c) \/ i = Len(d)) /\ (j \in 1..Len(c) \/ j = Len(d))
        BY <3>4
      <4> QED BY <2>3, <3>2, <3>4, <3>5, <4>1
    <3>6. d # <<>> /\ d[1] = generalist
      BY <2>3, <3>4
    <3> QED BY <3>2, <3>3, <3>4, <3>5, <3>6
  <2> QED BY <2>4, <2>5
<1>5. Len(s) \in N
  <2> HIDE DEF N
  <2> QED BY <1>1, <1>3, <1>4, NatInd
<1> QED BY <1>1, <1>2, <1>5

-----------------------------------------------------------------------------
Fields == {"model", "fp", "heard", "said", "language", "sig", "kept", "dropped", "text"}

(* A transcript is a record of its fields, and neither of the two values   *)
(* that stand for none.                                                    *)
LEMMA TranscriptIs ==
  ASSUME NEW e, IsTranscript(e)
  PROVE  /\ e = [x \in Fields |-> e[x]] /\ e.model \in Models /\ e.fp \in Nat /\ e.heard \in Nat
         /\ e.fp <= e.heard /\ e # NoEntry /\ e # Corrupt
<1>1. DOMAIN Transcript(0, 0, 0, 0, 0, 0, 0, 0) = Fields
  BY DEF Transcript, Fields
<1>2. e = [x \in Fields |-> e[x]] /\ e.model \in Models /\ e.fp \in Nat /\ e.heard \in Nat /\ e.fp <= e.heard
  BY <1>1 DEF IsTranscript
<1>3. NoEntry.model = "none" /\ Corrupt.model = "corrupt"
  BY DEF NoEntry, Corrupt
<1>4. e.model # "none" /\ e.model # "corrupt"
  BY <1>2, NamesAssumption
<1> QED BY <1>2, <1>3, <1>4

LEMMA NotBoth == NoEntry # Corrupt
BY DEF NoEntry, Corrupt

DiskFields == {"dir", "legacy", "side", "pointer", "newest"}

(* A sidecar is written; the pointer is moved. *)
LEMMA SidecarIs ==
  ASSUME DiskOK, NEW m \in Models, NEW e
  PROVE  LET d == Sidecar(disk, m, e)
         IN  /\ d = [x \in DiskFields |-> d[x]] /\ d.dir = TRUE /\ d.legacy = disk.legacy
             /\ d.pointer = disk.pointer /\ d.newest = m
             /\ d.side = [n \in Models |-> IF n = m THEN e ELSE disk.side[n]]
BY DEF DiskOK, Sidecar, DiskFields

LEMMA EntryIsWritten ==
  ASSUME DiskOK, NEW m \in Models, NEW e, disk' = Sidecar(disk, m, e)
  PROVE  /\ disk' = [x \in DiskFields |-> disk'[x]] /\ disk'.dir = TRUE /\ disk'.legacy = disk.legacy
         /\ disk'.newest = m /\ disk'.side = [n \in Models |-> IF n = m THEN e ELSE disk.side[n]]
BY DEF DiskOK, Sidecar, DiskFields

LEMMA PointAtIs ==
  ASSUME DiskOK, NEW m
  PROVE  LET d == PointAt(disk, m)
         IN  /\ d = [x \in DiskFields |-> d[x]] /\ d.dir = TRUE /\ d.legacy = disk.legacy
             /\ d.pointer = m /\ d.newest = disk.newest /\ d.side = disk.side
BY DEF DiskOK, PointAt, DiskFields

(* What a write to the sidecars may do under a writer: transcripts are     *)
(* never taken away, and of the legacy file nothing is left or all.        *)
Stays == disk'.legacy \in {disk.legacy, NoEntry} /\ Sides \subseteq Sides'

(* A sidecar was written, and the legacy file may have been moved there.   *)
LEMMA Written ==
  ASSUME DiskOK, wav' = wav, NEW m \in Models, NEW e, Heard(e), e.model = m,
         disk' = [x \in DiskFields |-> disk'[x]], disk'.dir = TRUE,
         disk'.legacy \in {disk.legacy, NoEntry}, disk'.newest = m,
         disk'.side = [n \in Models |-> IF n = m THEN e ELSE disk.side[n]]
  PROVE  DiskOK' /\ Stays /\ m \in Sides'
<1>1. e # NoEntry
  BY TranscriptIs DEF Heard
<1>2. /\ \A n \in Models : disk'.side[n] = IF n = m THEN e ELSE disk.side[n]
      /\ disk'.side = [n \in Models |-> disk'.side[n]]
  OBVIOUS
<1>3. m \in Sides' /\ Sides \subseteq Sides'
  BY <1>1, <1>2 DEF Sides
<1>4. ASSUME NEW n \in Sides' PROVE  IsTranscript(disk'.side[n]) /\ disk'.side[n].heard <= wav' /\ disk'.side[n].model = n
  <2>1. CASE n = m
    BY <1>2, <2>1 DEF Heard, Sides
  <2>2. CASE n # m
    <3>1. n \in Sides /\ disk'.side[n] = disk.side[n]
      BY <1>2, <2>2 DEF Sides
    <3> QED BY <3>1 DEF DiskOK, Heard
  <2> QED BY <2>1, <2>2
<1>5. disk'.legacy \in {NoEntry, Corrupt} \/ (IsTranscript(disk'.legacy) /\ disk'.legacy.heard <= wav')
  BY DEF DiskOK, Heard
<1> QED BY <1>2, <1>3, <1>4, <1>5 DEF DiskOK, Stays, DiskFields, Heard

(* Where a writer goes, while the sidecars stay: the others are where they *)
(* were, and it has what its place asks for.                               *)
LEMMA WriterGoes ==
  ASSUME WritersOK, NEW t \in Writers, NEW place, at' = [at EXCEPT ![t] = place],
         \A u \in Writers \ {t} : model'[u] = model[u] /\ moved'[u] = moved[u],
         model' = [u \in Writers |-> model'[u]], moved' = [u \in Writers |-> moved'[u]], Stays,
         model'[t] \in Models,
         place \in Migrating => moved'[t] \in Models,
         place \in {"mkdir", "move"} =>
           disk'.legacy = NoEntry \/ (disk'.legacy # Corrupt /\ disk'.legacy.model = moved'[t]),
         place = "repoint" => moved'[t] \in Sides',
         place = "point" => model'[t] \in Sides'
  PROVE  WritersOK'
<1>1. /\ at' = [u \in Writers |-> at'[u]] /\ at'[t] = place
      /\ \A u \in Writers \ {t} : at'[u] = at[u]
  BY DEF WritersOK
<1>2. ASSUME NEW u \in Writers
      PROVE  /\ model'[u] \in Models
             /\ at'[u] \in Migrating => moved'[u] \in Models
             /\ at'[u] \in {"mkdir", "move"} =>
                  disk'.legacy = NoEntry \/ (disk'.legacy # Corrupt /\ disk'.legacy.model = moved'[u])
             /\ at'[u] = "repoint" => moved'[u] \in Sides'
             /\ at'[u] = "point" => model'[u] \in Sides'
  <2>1. CASE u = t
    BY <2>1, <1>1
  <2>2. CASE u # t
    BY <2>2, <1>1 DEF WritersOK, Stays
  <2> QED BY <2>1, <2>2
<1> QED BY <1>1, <1>2 DEF WritersOK

(* The sidecars stay as they are. *)
LEMMA DiskStays ==
  ASSUME DiskOK, UNCHANGED <<wav, disk>>
  PROVE  DiskOK' /\ Stays
BY DEF DiskOK, Stays, Sides, Heard

(* A writer outside of a job's steps leaves the job as it was. *)
Busy == Migrating \cup {"migrate", "write", "point"}
LEMMA JobStays ==
  ASSUME JobOK, UNCHANGED <<wav, job>>, model'["job"] = model["job"],
         at'["job"] = at["job"] \/ (at["job"] # "idle" /\ at'["job"] \in Busy)
  PROVE  JobOK'
<1>1. at["job"] # "idle" \/ at'["job"] = "idle"
  BY DEF Busy, Migrating
<1>2. at'["job"] \in {"idle", "next", "hear"} => at'["job"] = at["job"]
  BY DEF Busy, Migrating
<1>3. \A e : Answers(e)' <=> Answers(e)
  BY DEF Answers
<1>4. \A e : Heard(e)' <=> Heard(e)
  BY DEF Heard
<1> QED BY <1>1, <1>2, <1>3, <1>4 DEF JobOK

(* A step of a writer leaves the memo true: what it writes outdates every  *)
(* key of the directory layout, and what it does not announce is of the    *)
(* legacy one.                                                             *)
LEMMA MemoStays ==
  ASSUME MemoOK, UNCHANGED <<memo, poll>>,
         Touches \/ (UNCHANGED key /\ (UNCHANGED disk \/ ~disk'.dir))
  PROVE  MemoOK'
<1>1. CASE Touches
  BY <1>1 DEF MemoOK, Touches
<1>2. CASE UNCHANGED key /\ UNCHANGED disk
  BY <1>2 DEF MemoOK
<1>3. CASE UNCHANGED key /\ ~disk'.dir
  BY <1>3 DEF MemoOK
<1> QED BY <1>1, <1>2, <1>3

(* A writer that was not about to move leaves a hidden transcript to who   *)
(* is.                                                                     *)
LEMMA HiddenStays ==
  ASSUME HiddenOnlyByMove, UNCHANGED disk, WritersOK, NEW t \in Writers, at[t] # "move",
         NEW place, at' = [at EXCEPT ![t] = place]
  PROVE  HiddenOnlyByMove'
BY DEF HiddenOnlyByMove, WritersOK, Sides

-----------------------------------------------------------------------------
(* The migration of the legacy sidecar. *)
LEMMA CheckLayoutKeeps ==
  ASSUME CacheInv, NEW t \in Writers, CheckLayout(t)
  PROVE  CacheInv'
<1>1. /\ UNCHANGED <<wav, memo, poll, key, job, model>> /\ at[t] = "migrate"
      /\ moved' = [u \in Writers |-> moved'[u]] /\ \A u \in Writers \ {t} : moved'[u] = moved[u]
  BY DEF CheckLayout, Moves, CacheInv, WritersOK
<1>2. PICK place \in {"write", "mkdir"} : at' = [at EXCEPT ![t] = place]
  BY DEF CheckLayout, Moves
<1>3. UNCHANGED disk \/ (~disk.dir /\ disk' = [disk EXCEPT !.legacy = NoEntry])
  BY DEF CheckLayout
<1>4. DiskOK' /\ Stays /\ (UNCHANGED disk \/ ~disk'.dir)
  <2>1. CASE UNCHANGED disk
    BY <2>1, <1>1, DiskStays DEF CacheInv
  <2>2. CASE ~disk.dir /\ disk' = [disk EXCEPT !.legacy = NoEntry]
    <3>1. /\ disk' = [x \in DiskFields |-> disk'[x]] /\ disk'.dir = disk.dir /\ disk'.side = disk.side
          /\ disk'.legacy = NoEntry /\ disk'.newest = disk.newest /\ disk'.pointer = disk.pointer
      BY <2>2 DEF CacheInv, DiskOK, DiskFields
    <3> QED BY <2>2, <3>1, <1>1 DEF CacheInv, DiskOK, DiskFields, Stays, Sides, Heard
  <2> QED BY <1>3, <2>1, <2>2
<1>5. place = "mkdir" =>
        /\ UNCHANGED disk /\ moved'[t] = disk.legacy.model /\ disk.legacy \notin {NoEntry, Corrupt}
  BY <1>1, <1>2 DEF CheckLayout, Moves, CacheInv, WritersOK
<1>6. place = "mkdir" => moved'[t] \in Models /\ disk'.legacy # Corrupt /\ disk'.legacy.model = moved'[t]
  BY <1>5, TranscriptIs DEF CacheInv, DiskOK, Heard
<1>7. WritersOK'
  <2>1. \A u \in Writers : model'[u] = model[u] /\ model[u] \in Models
    BY <1>1 DEF CacheInv, WritersOK
  <2>2. model' = [u \in Writers |-> model'[u]]
    BY <1>1 DEF CacheInv, WritersOK
  <2> QED BY <1>1, <1>2, <1>4, <1>6, <2>1, <2>2, WriterGoes DEF CacheInv, Migrating
<1>8. HiddenOnlyByMove'
  <2>1. CASE UNCHANGED disk
    BY <2>1, <1>1, <1>2, HiddenStays DEF CacheInv
  <2>2. CASE ~disk'.dir
    BY <2>2 DEF HiddenOnlyByMove
  <2> QED BY <1>4, <2>1, <2>2
<1>9. JobOK'
  <2>1. at'["job"] = at["job"] \/ (at["job"] # "idle" /\ at'["job"] \in Busy)
    BY <1>1, <1>2 DEF CacheInv, WritersOK, Busy, Migrating, Writers
  <2> QED BY <1>1, <2>1, JobStays DEF CacheInv
<1>10. MemoOK'
  BY <1>1, <1>4, MemoStays DEF CacheInv
<1> QED BY <1>1, <1>4, <1>7, <1>8, <1>9, <1>10 DEF CacheInv

(* The other steps of a migration leave model, job and `moved` alone.      *)
LEMMA MigrationKeeps ==
  ASSUME CacheInv, NEW t \in Writers, UNCHANGED <<wav, memo, poll, job, model, moved>>,
         NEW place \in Busy, at[t] # "idle", at' = [at EXCEPT ![t] = place], DiskOK', Stays, HiddenOnlyByMove',
         Touches \/ (UNCHANGED key /\ (UNCHANGED disk \/ ~disk'.dir)),
         place \in Migrating => moved[t] \in Models,
         place \in {"mkdir", "move"} =>
           disk'.legacy = NoEntry \/ (disk'.legacy # Corrupt /\ disk'.legacy.model = moved[t]),
         place = "repoint" => moved[t] \in Sides',
         place = "point" => model[t] \in Sides'
  PROVE  CacheInv'
<1>1. WritersOK'
  <2>1. \A u \in Writers : model'[u] = model[u] /\ model[u] \in Models /\ moved'[u] = moved[u]
    BY DEF CacheInv, WritersOK
  <2>2. model' = [u \in Writers |-> model'[u]] /\ moved' = [u \in Writers |-> moved'[u]]
    BY DEF CacheInv, WritersOK
  <2> QED BY <2>1, <2>2, WriterGoes DEF CacheInv
<1>2. JobOK'
  <2>1. at'["job"] = at["job"] \/ (at["job"] # "idle" /\ at'["job"] \in Busy)
    BY DEF CacheInv, WritersOK, Writers
  <2> QED BY <2>1, JobStays DEF CacheInv
<1>3. MemoOK'
  BY MemoStays DEF CacheInv
<1> QED BY <1>1, <1>2, <1>3 DEF CacheInv

LEMMA MakeDirKeeps ==
  ASSUME CacheInv, NEW t \in Writers, MakeDir(t)
  PROVE  CacheInv'
<1>1. /\ UNCHANGED <<wav, memo, poll, job, model, moved>> /\ at[t] = "mkdir" /\ Touches
      /\ at' = [at EXCEPT ![t] = "move"]
      /\ disk' = IF disk.dir THEN disk ELSE [disk EXCEPT !.dir = TRUE]
  BY DEF MakeDir, Moves
<1>2. /\ disk' = [x \in DiskFields |-> disk'[x]] /\ disk'.dir = TRUE /\ disk'.side = disk.side
      /\ disk'.legacy = disk.legacy /\ disk'.newest = disk.newest /\ disk'.pointer = disk.pointer
  BY <1>1 DEF CacheInv, DiskOK, DiskFields
<1>3. DiskOK' /\ Stays
  BY <1>1, <1>2 DEF CacheInv, DiskOK, DiskFields, Stays, Sides, Heard
<1>4. HiddenOnlyByMove' 
  BY <1>1 DEF HiddenOnlyByMove, CacheInv, WritersOK
<1>5. /\ moved[t] \in Models
      /\ disk'.legacy = NoEntry \/ (disk'.legacy # Corrupt /\ disk'.legacy.model = moved[t])
  BY <1>1, <1>2 DEF CacheInv, WritersOK, Migrating
<1> QED BY <1>1, <1>3, <1>4, <1>5, MigrationKeeps DEF Busy, Migrating

LEMMA MoveLegacyKeeps ==
  ASSUME CacheInv, NEW t \in Writers, MoveLegacy(t)
  PROVE  CacheInv'
<1> DEFINE m == moved[t]
           e == disk.legacy
           d == Sidecar(disk, m, e)
<1>1. /\ UNCHANGED <<wav, memo, poll, job, model, moved>> /\ at[t] = "move" /\ Touches
      /\ at' = [at EXCEPT ![t] = "repoint"] /\ e # NoEntry /\ disk' = [d EXCEPT !.legacy = NoEntry]
  BY DEF MoveLegacy, Moves
<1>2. m \in Models /\ e # Corrupt /\ e.model = m /\ Heard(e)
  BY <1>1 DEF CacheInv, WritersOK, DiskOK, Migrating
<1>3. /\ d = [x \in DiskFields |-> d[x]] /\ d.dir = TRUE /\ d.legacy = disk.legacy
      /\ d.pointer = disk.pointer /\ d.newest = m
      /\ d.side = [n \in Models |-> IF n = m THEN e ELSE disk.side[n]]
  BY <1>2, SidecarIs, ZenonT(30) DEF CacheInv
<1> HIDE DEF d
<1>4. /\ disk' = [x \in DiskFields |-> disk'[x]] /\ disk'.dir = TRUE /\ disk'.legacy = NoEntry
      /\ disk'.newest = m /\ disk'.side = [n \in Models |-> IF n = m THEN e ELSE disk.side[n]]
  BY <1>1, <1>3 DEF DiskFields
<1>5. DiskOK' /\ Stays /\ m \in Sides'
  BY <1>1, <1>2, <1>4, Written DEF CacheInv
<1>6. HiddenOnlyByMove'
  BY <1>5 DEF HiddenOnlyByMove
<1> QED BY <1>1, <1>2, <1>5, <1>6, MigrationKeeps DEF Busy, Migrating

LEMMA MoveFailsKeeps ==
  ASSUME CacheInv, NEW t \in Writers, MoveFails(t)
  PROVE  CacheInv'
<1>1. /\ UNCHANGED <<wav, memo, poll, job, model, moved>> /\ at[t] = "move"
      /\ at' = [at EXCEPT ![t] = "write"]
  BY DEF MoveFails, Moves
<1>2. CASE /\ disk' = IF disk.dir /\ Entries(disk) = {} /\ disk.pointer = None
                      THEN [disk EXCEPT !.dir = FALSE] ELSE disk
           /\ UNCHANGED key
  <2>1. disk.dir => Entries(disk) = Sides
    BY DEF Entries, Sides
  <2>2. CASE disk.dir /\ Sides = {}
    <3>1. disk' = [disk EXCEPT !.dir = FALSE]
      BY <1>2, <2>1, <2>2 DEF CacheInv, DiskOK
    <3>2. /\ disk' = [x \in DiskFields |-> disk'[x]] /\ disk'.dir = FALSE /\ disk'.side = disk.side
          /\ disk'.legacy = disk.legacy /\ disk'.newest = disk.newest /\ disk'.pointer = disk.pointer
      BY <3>1 DEF CacheInv, DiskOK, DiskFields
    <3>3. DiskOK' /\ Stays
      BY <1>1, <2>2, <3>2 DEF CacheInv, DiskOK, DiskFields, Stays, Sides, Heard
    <3>4. HiddenOnlyByMove'
      BY <3>2 DEF HiddenOnlyByMove
    <3> QED BY <1>1, <1>2, <3>2, <3>3, <3>4, MigrationKeeps DEF Busy, Migrating
  <2>3. CASE ~(disk.dir /\ Sides = {})
    <3>1. disk' = disk
      BY <1>2, <2>1, <2>3
    <3>2. DiskOK' /\ Stays
      BY <1>1, <3>1, DiskStays DEF CacheInv
    <3>3. HiddenOnlyByMove'
      BY <2>3, <3>1 DEF HiddenOnlyByMove, Sides
    <3> QED BY <1>1, <1>2, <3>1, <3>2, <3>3, MigrationKeeps DEF Busy, Migrating
  <2> QED BY <2>2, <2>3
<1>3. CASE disk.legacy # NoEntry /\ disk' = Sidecar(disk, moved[t], disk.legacy) /\ Touches
  <2>a. PICK m : m = moved[t]
    OBVIOUS
  <2>b. PICK e : e = disk.legacy
    OBVIOUS
  <2>1. m \in Models /\ e # Corrupt /\ e.model = m /\ Heard(e)
    BY <1>1, <1>3, <2>a, <2>b DEF CacheInv, WritersOK, DiskOK, Migrating
  <2>2. /\ disk' = [x \in DiskFields |-> disk'[x]] /\ disk'.dir = TRUE /\ disk'.legacy = disk.legacy
        /\ disk'.newest = m /\ disk'.side = [n \in Models |-> IF n = m THEN e ELSE disk.side[n]]
    <3>1. disk' = Sidecar(disk, m, e)
      BY <1>3, <2>a, <2>b
    <3>2. DiskOK
      BY DEF CacheInv
    <3> QED BY <2>1, <3>1, <3>2, EntryIsWritten, ZenonT(30)
  <2>3. DiskOK' /\ Stays /\ m \in Sides'
    BY <1>1, <2>1, <2>2, Written DEF CacheInv
  <2>4. HiddenOnlyByMove'
    BY <2>3 DEF HiddenOnlyByMove
  <2> QED BY <1>1, <1>3, <2>a, <2>1, <2>3, <2>4, MigrationKeeps DEF Busy, Migrating
<1> QED BY <1>2, <1>3 DEF MoveFails

(* The pointer is moved to a transcript that is there. *)
LEMMA PointedAt ==
  ASSUME DiskOK, wav' = wav, NEW m \in Sides, disk' = PointAt(disk, m)
  PROVE  DiskOK' /\ Stays /\ Sides' # {} /\ HiddenOnlyByMove'
<1>1. /\ disk' = [x \in DiskFields |-> disk'[x]] /\ disk'.dir = TRUE /\ disk'.legacy = disk.legacy
      /\ disk'.pointer = m /\ disk'.newest = disk.newest /\ disk'.side = disk.side
  BY PointAtIs
<1>2. Sides' = Sides
  BY <1>1 DEF Sides
<1>3. \A n \in Sides' : IsTranscript(disk'.side[n]) /\ disk'.side[n].heard <= wav' /\ disk'.side[n].model = n
  BY <1>1, <1>2 DEF DiskOK, Heard
<1>4. disk'.legacy \in {NoEntry, Corrupt} \/ (IsTranscript(disk'.legacy) /\ disk'.legacy.heard <= wav')
  BY <1>1 DEF DiskOK, Heard
<1>5. DiskOK'
  BY <1>1, <1>2, <1>3, <1>4 DEF DiskOK, DiskFields, Heard
<1> QED BY <1>1, <1>2, <1>5 DEF HiddenOnlyByMove, Stays

LEMMA PointMigratedKeeps ==
  ASSUME CacheInv, NEW t \in Writers, PointMigrated(t)
  PROVE  CacheInv'
<1>1. /\ UNCHANGED <<wav, memo, poll, job, model, moved>> /\ at[t] = "repoint" /\ Touches
      /\ at' = [at EXCEPT ![t] = "write"] /\ disk' = PointAt(disk, moved[t])
  BY DEF PointMigrated, Moves
<1>2. moved[t] \in Sides
  BY <1>1 DEF CacheInv, WritersOK
<1>3. DiskOK' /\ Stays /\ HiddenOnlyByMove'
  BY <1>1, <1>2, PointedAt DEF CacheInv
<1> QED BY <1>1, <1>3, MigrationKeeps DEF Busy, Migrating

-----------------------------------------------------------------------------
(* Repointing the primary. *)
LEMMA StartPinKeeps ==
  ASSUME CacheInv, StartPin
  PROVE  CacheInv'
<1>1. /\ UNCHANGED <<wav, disk, memo, poll, key, job, moved>> /\ at["operator"] = "idle"
      /\ at' = [at EXCEPT !["operator"] = "migrate"]
      /\ \E m \in Models : model' = [model EXCEPT !["operator"] = m]
  BY DEF StartPin, Moves
<1>2. "operator" \in Writers /\ "job" \in Writers
  BY DEF Writers
<1>3. /\ model' = [u \in Writers |-> model'[u]] /\ model'["operator"] \in Models
      /\ \A u \in Writers \ {"operator"} : model'[u] = model[u]
  BY <1>1, <1>2 DEF CacheInv, WritersOK
<1>4. DiskOK' /\ Stays
  BY <1>1, DiskStays DEF CacheInv
<1>5. WritersOK'
  <2>1. moved' = [u \in Writers |-> moved'[u]] /\ \A u \in Writers : moved'[u] = moved[u]
    BY <1>1 DEF CacheInv, WritersOK
  <2> QED BY <1>1, <1>2, <1>3, <1>4, <2>1, WriterGoes DEF CacheInv, Migrating
<1>6. HiddenOnlyByMove'
  BY <1>1, <1>2, HiddenStays DEF CacheInv
<1>7. JobOK'
  <2>1. at'["job"] = at["job"]
    BY <1>1, <1>2 DEF CacheInv, WritersOK
  <2> QED BY <1>1, <1>2, <1>3, <2>1, JobStays DEF CacheInv
<1> QED BY <1>1, <1>4, <1>5, <1>6, <1>7, MemoStays DEF CacheInv

(* A writer ends; the job with what it had. *)
LEMMA EndsKeeps ==
  ASSUME CacheInv, NEW t \in Writers, UNCHANGED <<wav, memo, poll, model, moved>>, Ends(t), at[t] # "move",
         DiskOK', Stays, HiddenOnlyByMove', Touches \/ (UNCHANGED key /\ UNCHANGED disk)
  PROVE  CacheInv'
<1>1. at' = [at EXCEPT ![t] = "idle"] /\ IF t = "job" THEN job' = NoJob ELSE UNCHANGED job
  BY DEF Ends
<1>2. WritersOK'
  <2>1. \A u \in Writers : model'[u] = model[u] /\ model[u] \in Models /\ moved'[u] = moved[u]
    BY DEF CacheInv, WritersOK
  <2>2. model' = [u \in Writers |-> model'[u]] /\ moved' = [u \in Writers |-> moved'[u]]
    BY DEF CacheInv, WritersOK
  <2> QED BY <1>1, <2>1, <2>2, WriterGoes DEF CacheInv, Migrating
<1>3. JobOK'
  <2>1. CASE t = "job"
    <3>1. at'["job"] = "idle"
      BY <1>1, <2>1 DEF CacheInv, WritersOK
    <3>2. /\ NoJob = [x \in DOMAIN NoJob |-> NoJob[x]]
          /\ NoJob.todo = <<>> /\ NoJob.got = <<>> /\ NoJob.since = 0 /\ NoJob.out = NoEntry
      BY DEF NoJob
    <3>3. job' = NoJob
      BY <1>1, <2>1
    <3> QED BY <3>1, <3>2, <3>3 DEF JobOK, CacheInv
  <2>2. CASE t # "job"
    <3>1. at'["job"] = at["job"]
      BY <1>1, <2>2 DEF CacheInv, WritersOK, Writers
    <3> QED BY <1>1, <2>2, <3>1, JobStays DEF CacheInv
  <2> QED BY <2>1, <2>2
<1> QED BY <1>2, <1>3, MemoStays DEF CacheInv

LEMMA FindTargetKeeps ==
  ASSUME CacheInv, NEW t \in Writers, FindTarget(t)
  PROVE  CacheInv'
<1>1. /\ UNCHANGED <<wav, disk, memo, poll, key, model, moved>> /\ at[t] = "write"
      /\ IF disk.dir /\ disk.side[model[t]] # NoEntry
         THEN at' = [at EXCEPT ![t] = "point"] /\ UNCHANGED job
         ELSE Ends(t)
  BY DEF FindTarget
<1>2. DiskOK' /\ Stays
  BY <1>1, DiskStays DEF CacheInv
<1>3. CASE disk.dir /\ disk.side[model[t]] # NoEntry
  <2>1. at' = [at EXCEPT ![t] = "point"] /\ UNCHANGED job
    BY <1>1, <1>3
  <2>2. model[t] \in Sides'
    BY <1>1, <1>2, <1>3 DEF CacheInv, WritersOK, Sides, Stays
  <2>3. HiddenOnlyByMove'
    BY <1>1, <2>1, HiddenStays DEF CacheInv
  <2> QED BY <1>1, <1>2, <2>1, <2>2, <2>3, MigrationKeeps DEF Busy, Migrating
<1>4. CASE ~(disk.dir /\ disk.side[model[t]] # NoEntry)
  <2>1. Ends(t)
    BY <1>1, <1>4
  <2>2. HiddenOnlyByMove'
    BY <1>1, <2>1, HiddenStays DEF CacheInv, Ends
  <2> QED BY <1>1, <1>2, <2>1, <2>2, EndsKeeps
<1> QED BY <1>3, <1>4

LEMMA PointAtTargetKeeps ==
  ASSUME CacheInv, NEW t \in Writers, PointAtTarget(t)
  PROVE  CacheInv'
<1>1. /\ UNCHANGED <<wav, memo, poll, model, moved>> /\ at[t] = "point" /\ Touches /\ Ends(t)
      /\ disk' = PointAt(disk, model[t])
  BY DEF PointAtTarget
<1>2. model[t] \in Sides
  BY <1>1 DEF CacheInv, WritersOK
<1>3. DiskOK' /\ Stays /\ HiddenOnlyByMove'
  BY <1>1, <1>2, PointedAt DEF CacheInv
<1> QED BY <1>1, <1>3, EndsKeeps

-----------------------------------------------------------------------------
(* The listings, and a tap that appends. *)
LEMMA LooksKeep ==
  ASSUME CacheInv, NEW p \in Polls, Look(p) \/ ReadMarker(p) \/ ReadListing(p)
  PROVE  CacheInv'
<1>1. UNCHANGED <<wav, disk, job, at, model, moved>>
  BY DEF Look, ReadMarker, ReadListing, Files
<1>2. DiskOK' /\ WritersOK' /\ HiddenOnlyByMove' /\ wav' \in Nat
  BY <1>1 DEF CacheInv, DiskOK, WritersOK, HiddenOnlyByMove, Sides, Heard
<1>3. JobOK'
  BY <1>1, JobStays DEF CacheInv
<1>4. p # "memo"
  BY NamesAssumption
<1>5. CASE Look(p)
  <2>1. /\ key' = [key EXCEPT ![p] = Signature(disk)] /\ poll' = [poll EXCEPT ![p].at = "marker"]
        /\ UNCHANGED <<disk, memo>>
    BY <1>5 DEF Look
  <2>2. /\ poll'[p] = [x \in {"at", "marker"} |-> poll'[p][x]] /\ poll'[p].at = "marker"
        /\ poll' = [q \in Polls |-> poll'[q]] /\ \A q \in Polls \ {p} : poll'[q] = poll[q]
    BY <2>1 DEF CacheInv, MemoOK
  <2>3. /\ key' = [r \in Polls \cup {"memo"} |-> key'[r]]
        /\ \A r \in (Polls \cup {"memo"}) \ {p} : key'[r] = key[r]
    BY <2>1 DEF CacheInv, MemoOK
  <2>4. MemoOK'
    BY <1>4, <2>1, <2>2, <2>3 DEF CacheInv, MemoOK
  <2> QED BY <1>2, <1>3, <2>4 DEF CacheInv
<1>6. CASE ReadMarker(p)
  <2> DEFINE marker == IF key[p] = "old" THEN NoEntry ELSE Marker(disk)
  <2>1. poll' = [poll EXCEPT ![p] = [at |-> "listing", marker |-> marker]] /\ UNCHANGED <<disk, memo, key>>
    BY <1>6 DEF ReadMarker
  <2>2. key[p] = "dir" => marker = Marker(disk)
    OBVIOUS
  <2> HIDE DEF marker
  <2>3. /\ poll'[p] = [at |-> "listing", marker |-> marker]
        /\ poll' = [q \in Polls |-> poll'[q]] /\ \A q \in Polls \ {p} : poll'[q] = poll[q]
    BY <2>1 DEF CacheInv, MemoOK
  <2>4. MemoOK'
    BY <2>1, <2>2, <2>3 DEF CacheInv, MemoOK
  <2> QED BY <1>2, <1>3, <2>4 DEF CacheInv
<1>7. CASE ReadListing(p)
  <2>1. /\ poll[p].at = "listing" /\ memo' = Row(key[p], poll[p].marker, Listing(disk))
        /\ key' = [key EXCEPT !["memo"] = key[p], ![p] = "old"]
        /\ poll' = [poll EXCEPT ![p] = Resting] /\ UNCHANGED disk
    BY <1>7 DEF ReadListing, Files
  <2>2. /\ key'["memo"] = key[p] /\ key'[p] = "old" /\ key' = [r \in Polls \cup {"memo"} |-> key'[r]]
        /\ \A r \in Polls \ {p} : key'[r] = key[r]
    <3>1. PICK k : k = [key EXCEPT !["memo"] = key[p]]
      OBVIOUS
    <3>2. key' = [k EXCEPT ![p] = "old"]
      BY <2>1, <3>1
    <3>3. /\ k = [r \in Polls \cup {"memo"} |-> k[r]] /\ k["memo"] = key[p]
          /\ \A r \in Polls : k[r] = key[r]
      BY <1>4, <3>1, NamesAssumption DEF CacheInv, MemoOK
    <3> QED BY <1>4, <3>2, <3>3
  <2>3. /\ poll'[p] = [x \in {"at", "marker"} |-> poll'[p][x]] /\ poll'[p].at = "idle"
        /\ poll' = [q \in Polls |-> poll'[q]] /\ \A q \in Polls \ {p} : poll'[q] = poll[q]
    BY <2>1 DEF CacheInv, MemoOK, Resting
  <2>4. key[p] = "dir" /\ disk.dir => memo' = <<Marker(disk), Listing(disk)>>
    BY <2>1 DEF CacheInv, MemoOK, Row
  <2>5. MemoOK'
    BY <2>1, <2>2, <2>3, <2>4 DEF CacheInv, MemoOK
  <2> QED BY <1>2, <1>3, <2>5 DEF CacheInv
<1> QED BY <1>5, <1>6, <1>7

LEMMA GrowKeeps ==
  ASSUME CacheInv, Grow
  PROVE  CacheInv'
<1>1. /\ UNCHANGED <<disk, memo, poll, job, at, model, moved>> /\ wav' = wav + 1 /\ wav \in Nat
      /\ key' = [r \in DOMAIN key |-> "old"]
  BY DEF Grow, CacheInv
<1>2. \A e : Heard(e) => Heard(e)'
  <2> TAKE e
  <2> HAVE Heard(e)
  <2> QED BY <1>1, TranscriptIs DEF Heard
<1>3. DiskOK'
  BY <1>1, <1>2 DEF CacheInv, DiskOK, Sides
<1>4. WritersOK' /\ HiddenOnlyByMove'
  BY <1>1 DEF CacheInv, WritersOK, HiddenOnlyByMove, Sides
<1>5. \A e : Answers(e)' <=> Answers(e)
  BY <1>1 DEF Answers
<1>6. JobOK'
  BY <1>1, <1>2, <1>5, SMTT(30) DEF CacheInv, JobOK
<1>7. MemoOK'
  BY <1>1 DEF CacheInv, MemoOK
<1> QED BY <1>1, <1>3, <1>4, <1>6, <1>7 DEF CacheInv

-----------------------------------------------------------------------------
(* The run.  A step of it that leaves the files alone. *)
LEMMA RunStays ==
  ASSUME CacheInv, UNCHANGED <<wav, disk, memo, poll, key, moved>>, at["job"] # "move",
         NEW place \in {"next", "hear", "migrate"}, at' = [at EXCEPT !["job"] = place],
         model' = [u \in Writers |-> model'[u]], model'["operator"] = model["operator"],
         model'["job"] \in Models, JobOK'
  PROVE  CacheInv'
<1>1. "job" \in Writers /\ \A u \in Writers \ {"job"} : u = "operator"
  BY DEF Writers
<1>2. DiskOK' /\ Stays
  BY DiskStays DEF CacheInv
<1>3. moved' = [u \in Writers |-> moved'[u]] /\ \A u \in Writers : moved'[u] = moved[u]
  BY DEF CacheInv, WritersOK
<1>4. WritersOK'
  <2>1. \A u \in Writers \ {"job"} : model'[u] = model[u] /\ moved'[u] = moved[u]
    BY <1>1, <1>3
  <2>2. place \notin Migrating /\ place # "point" /\ place \notin {"mkdir", "move"} /\ place # "repoint"
    BY DEF Migrating
  <2>3. WritersOK
    BY DEF CacheInv
  <2> QED BY <1>1, <1>2, <1>3, <2>1, <2>2, <2>3, WriterGoes
<1>5. HiddenOnlyByMove'
  BY <1>1, HiddenStays DEF CacheInv
<1>6. MemoOK'
  BY MemoStays DEF CacheInv
<1> QED BY <1>2, <1>4, <1>5, <1>6 DEF CacheInv

LEMMA StartRunKeeps ==
  ASSUME CacheInv, StartRun
  PROVE  CacheInv'
<1>1. /\ UNCHANGED <<wav, disk, memo, poll, key, model, moved>> /\ at["job"] = "idle"
      /\ at' = [at EXCEPT !["job"] = "next"]
  BY DEF StartRun, NextModel
<1>2. PICK q \in Requests :
        LET plan == LanguagePlan(q.pin, q.meeting)
        IN  job' = [NoJob EXCEPT !.force = q.force, !.ask = q.ask, !.plan = plan, !.rules = q.rules,
                                 !.todo = CoverModels(plan.cover, Generalist, Specialists, Registry),
                                 !.since = wav]
  BY DEF StartRun
<1>a. PICK plan : plan = LanguagePlan(q.pin, q.meeting)
  OBVIOUS
<1>b. PICK todo : todo = CoverModels(plan.cover, Generalist, Specialists, Registry)
  OBVIOUS
<1>c. job' = [NoJob EXCEPT !.force = q.force, !.ask = q.ask, !.plan = plan, !.rules = q.rules,
                           !.todo = todo, !.since = wav]
  BY <1>2, <1>a, <1>b
<1>3. todo \in Seq(Models) /\ todo # <<>>
  <2>1. plan.cover \in {<<>>, q.meeting}
    BY <1>a DEF LanguagePlan
  <2>2. plan.cover \in Seq(STRING)
    <3>1. q.meeting \in Seq(STRING)
      BY RequestsAssumption
    <3>2. <<>> \in Seq(STRING)
      OBVIOUS
    <3> QED BY <2>1, <3>1, <3>2
  <2>3. Generalist \in DOMAIN Registry
    BY NamesAssumption DEF Models
  <2> QED BY <1>b, <2>2, <2>3, CoverIsOfCatalog DEF Models
<1>4. /\ job' = [x \in DOMAIN NoJob |-> job'[x]] /\ job'.todo = todo /\ job'.since = wav
      /\ job'.got = <<>> /\ job'.out = NoEntry
  BY <1>c DEF NoJob
<1>5. at'["job"] = "next" /\ wav' \in Nat /\ wav' = wav
  BY <1>1 DEF CacheInv, WritersOK, Writers
<1>6. JobOK'
  BY <1>3, <1>4, <1>5 DEF JobOK
<1>7. model' = [u \in Writers |-> model'[u]] /\ model' = model /\ model'["job"] \in Models
  BY <1>1 DEF CacheInv, WritersOK, Writers
<1> QED BY <1>1, <1>6, <1>7, RunStays

(* What a transcript's two halves are, and what they are together.         *)
LEMMA HalvesAre ==
  ASSUME NEW e, IsTranscript(e)
  PROVE  /\ e.kept \in Seq(Nat) /\ e.dropped \in Seq(Nat) /\ e.kept \o e.dropped \in Seq(Nat)
         /\ OnceEach(e.dropped) /\ OnceEach(e.kept \o e.dropped)
         /\ ToSet(e.dropped) \subseteq 1..e.heard
         /\ ToSet(e.kept) = (1..e.heard) \ ToSet(e.dropped)
         /\ ToSet(e.kept \o e.dropped) = 1..e.heard
<1>1. PICK v, k, d, t : v = e.heard /\ k = e.kept /\ d = e.dropped /\ t = Timeline(e.heard)
  OBVIOUS
<1>2. /\ v \in Nat /\ d \in Seq(Nat) /\ IsInjective(d) /\ k \in Seq(Nat)
      /\ ToSet(k) = (1..v) \ ToSet(d) /\ ToSet(d) = (1..v) \cap ToSet(d)
      /\ \A i, j \in DOMAIN k : i < j => k[i] < k[j]
  BY <1>1 DEF IsTranscript, SplitBy
<1>4. ToSet(d) \subseteq 1..v
  BY <1>2
<1>5. k \in Seq(Nat) /\ ToSet(k) = (1..v) \ ToSet(d) /\ OnceEach(k)
  <2> SUFFICES ASSUME NEW i \in 1..Len(k), NEW j \in 1..Len(k), k[i] = k[j] PROVE i = j
    BY <1>2 DEF OnceEach
  <2>1. i \in DOMAIN k /\ j \in DOMAIN k /\ k[i] \in Nat
    BY <1>2
  <2>2. (i < j => k[i] < k[j]) /\ (j < i => k[j] < k[i])
    BY <1>2, <2>1
  <2> QED BY <2>1, <2>2
<1>6. OnceEach(d) /\ DOMAIN d = 1..Len(d) /\ DOMAIN k = 1..Len(k) /\ Len(d) \in Nat /\ Len(k) \in Nat
  BY <1>2, <1>5 DEF IsInjective, OnceEach
<1>7. PICK r : r = k \o d
  OBVIOUS
<1>8. /\ r \in Seq(Nat) /\ Len(r) = Len(k) + Len(d) /\ DOMAIN r = 1..Len(r)
      /\ \A i \in 1..Len(k) : r[i] = k[i]
      /\ \A i \in 1..Len(d) : r[Len(k) + i] = d[i]
  BY <1>2, <1>5, <1>6, <1>7
<1>9. \A i \in 1..Len(r) : i \in 1..Len(k) \/ (i - Len(k) \in 1..Len(d) /\ Len(k) + (i - Len(k)) = i)
  BY <1>6, <1>8
<1>10. ToSet(r) = 1..v
  <2>1. \A x \in ToSet(r) : x \in ToSet(k) \/ x \in ToSet(d)
    <3> SUFFICES ASSUME NEW i \in 1..Len(r) PROVE r[i] \in ToSet(k) \/ r[i] \in ToSet(d)
      BY <1>8 DEF ToSet
    <3>1. CASE i \in 1..Len(k)
      BY <1>6, <1>8, <3>1 DEF ToSet
    <3>2. CASE i \notin 1..Len(k)
      <4>1. i - Len(k) \in 1..Len(d) /\ r[i] = d[i - Len(k)]
        BY <1>8, <1>9, <3>2
      <4> QED BY <1>6, <4>1 DEF ToSet
    <3> QED BY <3>1, <3>2
  <2>2. \A x \in ToSet(k) : x \in ToSet(r)
    <3>1. \A i \in 1..Len(k) : i \in 1..Len(r)
      BY <1>6, <1>8
    <3> QED BY <1>6, <1>8, <3>1 DEF ToSet
  <2>3. \A x \in ToSet(d) : x \in ToSet(r)
    <3>1. \A i \in 1..Len(d) : Len(k) + i \in 1..Len(r)
      BY <1>6, <1>8
    <3> QED BY <1>6, <1>8, <3>1 DEF ToSet
  <2> QED BY <1>4, <1>5, <2>1, <2>2, <2>3
<1>11. OnceEach(r)
  <2> SUFFICES ASSUME NEW i \in 1..Len(r), NEW j \in 1..Len(r), r[i] = r[j] PROVE i = j
    BY DEF OnceEach
  <2>1. \A a \in 1..Len(k), b \in 1..Len(d) : k[a] # d[b]
    <3>1. \A a \in 1..Len(k) : k[a] \in ToSet(k)
      BY <1>6 DEF ToSet
    <3>2. \A b \in 1..Len(d) : d[b] \in ToSet(d)
      BY <1>6 DEF ToSet
    <3> QED BY <1>5, <3>1, <3>2
  <2>2. CASE i \in 1..Len(k) /\ j \in 1..Len(k)
    BY <1>5, <1>8, <2>2 DEF OnceEach
  <2>3. CASE i \in 1..Len(k) /\ j \notin 1..Len(k)
    <3>1. j - Len(k) \in 1..Len(d) /\ r[j] = d[j - Len(k)] /\ r[i] = k[i]
      BY <1>8, <1>9, <2>3
    <3> QED BY <2>1, <2>3, <3>1
  <2>4. CASE i \notin 1..Len(k) /\ j \in 1..Len(k)
    <3>1. i - Len(k) \in 1..Len(d) /\ r[i] = d[i - Len(k)] /\ r[j] = k[j]
      BY <1>8, <1>9, <2>4
    <3> QED BY <2>1, <2>4, <3>1
  <2>5. CASE i \notin 1..Len(k) /\ j \notin 1..Len(k)
    <3>1. /\ i - Len(k) \in 1..Len(d) /\ r[i] = d[i - Len(k)]
          /\ j - Len(k) \in 1..Len(d) /\ r[j] = d[j - Len(k)]
      BY <1>8, <1>9, <2>5
    <3>2. i - Len(k) = j - Len(k)
      BY <1>6, <3>1 DEF OnceEach
    <3> QED BY <1>6, <3>2
  <2> QED BY <2>2, <2>3, <2>4, <2>5
<1> QED BY <1>1, <1>2, <1>4, <1>5, <1>6, <1>7, <1>8, <1>10, <1>11

(* The two halves, put together and split by other rules: as they were, or *)
(* sorted, they are what was heard, split by the new rules.                *)
LEMMA SplitAnew ==
  ASSUME NEW e, IsTranscript(e), NEW rs, NEW raw, raw = e.kept \o e.dropped
  PROVE  /\ Kept(raw, rs) = e.kept =>
              e.kept = Kept(Timeline(e.heard), rs) /\ ToSet(e.dropped) = (1..e.heard) \cap rs
         /\ Sorted(Kept(raw, rs)) = Kept(Timeline(e.heard), rs)
         /\ Sorted(Dropped(raw, rs)) \in Seq(Nat) /\ OnceEach(Sorted(Dropped(raw, rs)))
         /\ ToSet(Sorted(Dropped(raw, rs))) = (1..e.heard) \cap rs
<1>1. PICK v, k, d, t, T : /\ v = e.heard /\ k = e.kept /\ d = e.dropped /\ t = Timeline(e.heard)
                           /\ T = 1..e.heard
  OBVIOUS
<1>2. /\ v \in Nat /\ k = Those(t, ToSet(t) \ ToSet(d)) /\ raw \in Seq(Nat) /\ OnceEach(raw)
      /\ ToSet(raw) = T /\ ToSet(d) \subseteq T /\ ToSet(k) = T \ ToSet(d)
  <2>1. /\ v \in Nat /\ k \in Seq(Nat) /\ ToSet(k) = T \ ToSet(d)
        /\ \A i, j \in DOMAIN k : i < j => k[i] < k[j]
    BY <1>1 DEF IsTranscript, SplitBy
  <2>2. t \in Seq(Nat) /\ ToSet(t) = T /\ Rises(t)
    BY <1>1, <2>1, TimelineIs
  <2>3. PICK u : u = Those(t, ToSet(t) \ ToSet(d))
    OBVIOUS
  <2>4. u \in Seq(Nat) /\ Rises(u) /\ ToSet(u) = ToSet(t) \cap (ToSet(t) \ ToSet(d))
    BY <2>2, <2>3, ThoseSelects
  <2>5. Rises(k) /\ ToSet(u) = ToSet(k)
    BY <2>1, <2>2, <2>4 DEF Rises
  <2>6. k = u
    BY <2>1, <2>4, <2>5, RisingSame
  <2>7. v \in Nat /\ k = Those(t, ToSet(t) \ ToSet(d))
    BY <2>1, <2>3, <2>6
  <2> QED BY <1>1, <2>7, HalvesAre
<1>3. t \in Seq(Nat) /\ ToSet(t) = T /\ OnceEach(t) /\ t = Timeline(v) /\ T = 1..v
  BY <1>1, <1>2, TimelineIs
<1>4. PICK a, b : a = Those(raw, ToSet(raw) \ rs) /\ b = Those(raw, rs)
  OBVIOUS
<1>5. /\ a \in Seq(Nat) /\ ToSet(a) = T \ rs /\ OnceEach(a)
      /\ b \in Seq(Nat) /\ ToSet(b) = T \cap rs /\ OnceEach(b)
  <2>1. a \in Seq(Nat) /\ ToSet(a) = ToSet(raw) \cap (ToSet(raw) \ rs) /\ OnceEach(a)
    BY <1>2, <1>4, ThoseSelects
  <2>2. b \in Seq(Nat) /\ ToSet(b) = ToSet(raw) \cap rs /\ OnceEach(b)
    BY <1>2, <1>4, ThoseSelects
  <2> QED BY <1>2, <2>1, <2>2
<1>6. a = k => k = Those(t, ToSet(t) \ rs) /\ ToSet(d) = T \cap rs
  <2> SUFFICES ASSUME a = k PROVE k = Those(t, ToSet(t) \ rs) /\ ToSet(d) = T \cap rs
    OBVIOUS
  <2>1. T \ rs = T \ ToSet(d)
    BY <1>2, <1>5
  <2>2. Those(t, ToSet(t) \ ToSet(d)) = Those(t, ToSet(t) \ rs)
    <3>1. ToSet(t) \cap (ToSet(t) \ ToSet(d)) = ToSet(t) \cap (ToSet(t) \ rs)
      BY <1>3, <2>1
    <3> QED BY <1>3, <3>1, ThoseAgree
  <2> QED BY <1>2, <2>1, <2>2
<1>7. Sorted(a) = Those(t, ToSet(t) \ rs)
  <2>1. Sorted(a) = Those(t, ToSet(a))
    BY <1>2, <1>3, <1>5, SortedIs
  <2> QED BY <1>3, <1>5, <2>1
<1>8. Sorted(b) \in Seq(Nat) /\ OnceEach(Sorted(b)) /\ ToSet(Sorted(b)) = T \cap rs
  <2>1. Sorted(b) = Those(t, ToSet(b))
    BY <1>2, <1>3, <1>5, SortedIs
  <2>2. /\ Those(t, ToSet(b)) \in Seq(Nat) /\ OnceEach(Those(t, ToSet(b)))
        /\ ToSet(Those(t, ToSet(b))) = ToSet(t) \cap ToSet(b)
    BY <1>3, ThoseSelects
  <2>3. ToSet(t) \cap ToSet(b) = T \cap rs
    BY <1>3, <1>5
  <2> QED BY <2>1, <2>2, <2>3
<1> QED BY <1>1, <1>4, <1>6, <1>7, <1>8 DEF Kept, Dropped

(* A record of the fields whose halves are split by rs is a transcript.    *)
LEMMA SplitIsTranscript ==
  ASSUME NEW e, e = [x \in Fields |-> e[x]], e.model \in Models, e.fp \in Nat, e.heard \in Nat,
         e.fp <= e.heard, NEW rs, e.sig = <<rs>>, e.kept = Kept(Timeline(e.heard), rs), e.text = e.kept,
         e.dropped \in Seq(Nat), OnceEach(e.dropped), ToSet(e.dropped) = (1..e.heard) \cap rs
  PROVE  IsTranscript(e)
<1>1. DOMAIN Transcript(0, 0, 0, 0, 0, 0, 0, 0) = Fields
  BY DEF Transcript, Fields
<1>2. PICK v, k, d, D, sig : v = e.heard /\ k = e.kept /\ d = e.dropped /\ D = ToSet(e.dropped) /\ sig = e.sig
  OBVIOUS
<1>3. v \in Nat /\ k = Kept(Timeline(v), rs) /\ D = (1..v) \cap rs /\ e.text = k
  BY <1>2
<1>4. k \in Seq(Nat) /\ ToSet(k) = (1..v) \ rs /\ \A i, j \in DOMAIN k : i < j => k[i] < k[j]
  <2>1. PICK t : t = Timeline(v)
    OBVIOUS
  <2>2. t \in Seq(Nat) /\ ToSet(t) = 1..v /\ Rises(t) /\ k = Those(t, ToSet(t) \ rs)
    BY <1>3, <2>1, TimelineIs DEF Kept
  <2>3. k \in Seq(Nat) /\ ToSet(k) = ToSet(t) \cap (ToSet(t) \ rs) /\ Rises(k)
    BY <2>2, ThoseSelects
  <2>4. ToSet(k) = (1..v) \ rs
    BY <2>2, <2>3
  <2>5. DOMAIN k = 1..Len(k)
    BY <2>3
  <2>6. \A i, j \in DOMAIN k : i < j => k[i] < k[j]
    BY <2>3, <2>5 DEF Rises
  <2> QED BY <2>3, <2>4, <2>6
<1>8. (1..v) \ rs = (1..v) \ D /\ D = (1..v) \cap D
  BY <1>3
<1>5. SplitBy(e, ToSet(e.dropped)) /\ SplitBy(e, rs) /\ e.kept \in Seq(Nat)
  BY <1>2, <1>3, <1>4, <1>8, ZenonT(30) DEF SplitBy
<1>6. e.sig[1] = rs
  <2>1. sig = <<rs>>
    BY <1>2
  <2> QED BY <1>2, <2>1
<1>7. IsInjective(e.dropped)
  <2>1. DOMAIN d = 1..Len(d) /\ OnceEach(d)
    BY <1>2
  <2>2. IsInjective(d)
    BY <2>1 DEF IsInjective, OnceEach
  <2> QED BY <1>2, <2>2
<1> QED BY <1>1, <1>5, <1>6, <1>7 DEF IsTranscript

(* A filtered transcript is the same one, split by the rules it is given.  *)
LEMMA RefilterIs ==
  ASSUME NEW e, IsTranscript(e), NEW rs
  PROVE  LET r == Refilter(e, rs)
         IN  /\ IsTranscript(r.entry) /\ r.entry.sig = <<rs>> /\ r.write \in BOOLEAN
             /\ r.entry.model = e.model /\ r.entry.fp = e.fp /\ r.entry.heard = e.heard
             /\ r.entry.said = e.said /\ r.entry.language = e.language
             /\ ~r.write => r.entry = e
<1>1. e = [x \in Fields |-> e[x]] /\ e.model \in Models /\ e.fp \in Nat /\ e.heard \in Nat /\ e.fp <= e.heard
  BY TranscriptIs
<1> DEFINE r == Refilter(e, rs)
<1>2. CASE e.sig = <<rs>>
  <2>1. r.entry = e /\ r.write = FALSE
    BY <1>2 DEF Refilter
  <2> QED BY <1>2, <2>1
<1>3. CASE e.sig # <<rs>>
  <2>1. PICK raw, kept, dropped : raw = e.kept \o e.dropped /\ kept = Kept(raw, rs) /\ dropped = Dropped(raw, rs)
    OBVIOUS
  <2>2. /\ kept = e.kept => e.kept = Kept(Timeline(e.heard), rs) /\ ToSet(e.dropped) = (1..e.heard) \cap rs
        /\ Sorted(kept) = Kept(Timeline(e.heard), rs)
        /\ Sorted(dropped) \in Seq(Nat) /\ OnceEach(Sorted(dropped))
        /\ ToSet(Sorted(dropped)) = (1..e.heard) \cap rs
    BY <2>1, SplitAnew
  <2>3. e.dropped \in Seq(Nat) /\ OnceEach(e.dropped) /\ e.text = e.kept
    BY HalvesAre DEF IsTranscript, SplitBy
  <2>4. /\ r.write = TRUE
        /\ \/ kept = e.kept /\ r.entry = [e EXCEPT !.sig = <<rs>>]
           \/ r.entry = [e EXCEPT !.sig = <<rs>>, !.kept = Sorted(kept), !.dropped = Sorted(dropped),
                                  !.text = Sorted(kept)]
    BY <1>3, <2>1 DEF Refilter
  <2>5. PICK x, k, d : x = r.entry /\ k = Sorted(kept) /\ d = Sorted(dropped)
    OBVIOUS
  <2>6. /\ x = [y \in Fields |-> x[y]] /\ x.sig = <<rs>>
        /\ x.model = e.model /\ x.fp = e.fp /\ x.heard = e.heard
        /\ x.said = e.said /\ x.language = e.language /\ x.text = x.kept
        /\ \/ kept = e.kept /\ x.kept = e.kept /\ x.dropped = e.dropped
           \/ x.kept = k /\ x.dropped = d
    <3>1. CASE kept = e.kept /\ x = [e EXCEPT !.sig = <<rs>>]
      BY <1>1, <2>3, <3>1 DEF Fields
    <3>2. CASE x = [e EXCEPT !.sig = <<rs>>, !.kept = k, !.dropped = d, !.text = k]
      BY <1>1, <3>2 DEF Fields
    <3> QED BY <2>4, <2>5, <3>1, <3>2
  <2>7. x.kept = Kept(Timeline(e.heard), rs) /\ x.dropped \in Seq(Nat) /\ OnceEach(x.dropped)
        /\ ToSet(x.dropped) = (1..e.heard) \cap rs
    BY <2>2, <2>3, <2>5, <2>6
  <2>8. IsTranscript(x)
    BY <1>1, <2>6, <2>7, SplitIsTranscript
  <2> QED BY <2>4, <2>5, <2>6, <2>8
<1> QED BY <1>2, <1>3

(* What one more transcript makes of those the run merges. *)
LEMMA OneMore ==
  ASSUME NEW got, Len(got) \in Nat, got = [i \in 1..Len(got) |-> got[i]], NEW e
  PROVE  LET s == Append(got, e)
         IN  /\ Len(s) = Len(got) + 1 /\ s = [i \in 1..Len(s) |-> s[i]]
             /\ \A i \in 1..Len(got) : s[i] = got[i]
             /\ s[Len(got) + 1] = e
<1> DEFINE S == {got[i] : i \in 1..Len(got)} \cup {e}
<1>1. got \in [1..Len(got) -> S]
  BY Zenon
<1>2. got \in Seq(S) /\ e \in S
  BY <1>1
<1> HIDE DEF S
<1>3. PICK s : s = Append(got, e)
  OBVIOUS
<1>4. /\ s \in Seq(S) /\ Len(s) = Len(got) + 1 /\ s[Len(got) + 1] = e
      /\ \A i \in 1..Len(got) : s[i] = got[i]
  BY <1>2, <1>3, AppendProperties
<1>5. s = [i \in 1..Len(s) |-> s[i]]
  BY <1>4
<1> QED BY <1>3, <1>4, <1>5

LEMMA Merges ==
  ASSUME JobOK, wav' = wav, wav \in Nat, job.todo # <<>>, at'["job"] = "next",
         NEW e, e.model \in Models, e.heard \in Nat, Answers(e),
         job' = [x \in DOMAIN NoJob |->
                   IF x = "got" THEN Append(job.got, e) ELSE IF x = "todo" THEN Tail(job.todo)
                   ELSE IF x = "out" THEN NoEntry ELSE job[x]]
  PROVE  JobOK'
<1>1. /\ job' = [x \in DOMAIN NoJob |-> job'[x]] /\ job'.got = Append(job.got, e)
      /\ job'.todo = Tail(job.todo) /\ job'.out = NoEntry /\ job'.ask = job.ask
      /\ job'.plan = job.plan /\ job'.rules = job.rules /\ job'.since = job.since
  BY DEF NoJob
<1>2. Tail(job.todo) \in Seq(Models)
  BY DEF JobOK
<1>3. PICK got, s : got = job.got /\ s = job'.got
  OBVIOUS
<1>4. /\ Len(got) \in Nat /\ Len(s) = Len(got) + 1 /\ s = [i \in 1..Len(s) |-> s[i]]
      /\ \A i \in 1..Len(got) : s[i] = got[i]
      /\ s[Len(got) + 1] = e
  <2>1. Len(got) \in Nat /\ got = [i \in 1..Len(got) |-> got[i]]
    BY <1>3 DEF JobOK
  <2>2. s = Append(got, e)
    BY <1>1, <1>3
  <2> QED BY <2>1, <2>2, OneMore
<1>5. \A x : Answers(x) => Answers(x)'
  BY <1>1 DEF Answers
<1>6. ASSUME NEW i \in 1..Len(s)
      PROVE  s[i].model \in Models /\ s[i].heard \in Nat /\ Answers(s[i])'
  <2>1. CASE i \in 1..Len(got)
    BY <1>3, <1>4, <1>5, <2>1 DEF JobOK
  <2>2. CASE i = Len(got) + 1
    BY <1>4, <1>5, <2>2
  <2> QED BY <1>4, <2>1, <2>2
<1>7. Len(s) \in Nat /\ Len(s) > 0
  BY <1>4
<1>8. job'.since \in Nat /\ job'.since <= wav'
  BY <1>1 DEF JobOK
<1> QED BY <1>1, <1>2, <1>3, <1>4, <1>6, <1>7, <1>8, ZenonT(30) DEF JobOK

LEMMA HearKeeps ==
  ASSUME CacheInv, Hear
  PROVE  CacheInv'
<1>1. /\ UNCHANGED <<wav, disk, memo, poll, key, model, moved>> /\ at["job"] = "hear"
      /\ at' = [at EXCEPT !["job"] = "migrate"]
  BY DEF Hear, Moves
<1>2. PICK v, kept, dropped, m, out :
        /\ v \in job.fp..wav /\ m = model["job"]
        /\ kept = Kept(Timeline(v), job.rules) /\ dropped = Dropped(Timeline(v), job.rules)
        /\ out = Transcript(m, job.fp, v, Recorded(m, job.ask), job.language, <<job.rules>>, kept, dropped)
        /\ job' = [job EXCEPT !.out = out, !.primary = TRUE]
  BY DEF Hear
<1>3. /\ job.fp \in Nat /\ job.since \in Nat /\ wav \in Nat /\ job.since <= job.fp /\ m \in Models
      /\ job.language \in Snapped(m, job.plan) /\ job.todo # <<>>
  BY <1>1, <1>2 DEF CacheInv, JobOK, WritersOK, Writers
<1>4. v \in Nat /\ job.fp <= v /\ v <= wav /\ job.since <= v
  BY <1>2, <1>3
<1>5. /\ out = [x \in Fields |-> out[x]] /\ out.model = m /\ out.fp = job.fp /\ out.heard = v
      /\ out.said = Recorded(m, job.ask) /\ out.language = job.language /\ out.sig = <<job.rules>>
      /\ out.kept = kept /\ out.dropped = dropped /\ out.text = kept
  BY <1>2 DEF Transcript, Fields
<1>6. IsTranscript(out) /\ Heard(out) /\ Answers(out)
  <2>1. PICK t : t = Timeline(v)
    OBVIOUS
  <2>2. t \in Seq(Nat) /\ ToSet(t) = 1..v /\ OnceEach(t)
    BY <1>4, <2>1, TimelineIs
  <2>3. dropped \in Seq(Nat) /\ OnceEach(dropped) /\ ToSet(dropped) = (1..v) \cap job.rules
    BY <1>2, <2>1, <2>2, ThoseSelects DEF Dropped
  <2>4. IsTranscript(out)
    BY <1>2, <1>3, <1>4, <1>5, <2>3, SplitIsTranscript
  <2> QED BY <1>3, <1>4, <1>5, <2>4 DEF Heard, Answers
<1>7. /\ job' = [x \in DOMAIN NoJob |-> job'[x]] /\ job'.out = out /\ job'.todo = job.todo
      /\ job'.got = job.got /\ job'.since = job.since /\ job'.ask = job.ask /\ job'.plan = job.plan
      /\ job'.rules = job.rules
  BY <1>2 DEF CacheInv, JobOK, NoJob
<1>8. /\ at'["job"] = "migrate" /\ model' = [u \in Writers |-> model'[u]] /\ model' = model
      /\ wav' = wav
  BY <1>1 DEF CacheInv, WritersOK, Writers
<1>9. \A e : (Answers(e) => Answers(e)') /\ (Heard(e) => Heard(e)')
  BY <1>7, <1>8 DEF Answers, Heard
<1>10. JobOK'
  <2>1. /\ \A i \in 1..Len(job.got) : job.got[i].model \in Models /\ job.got[i].heard \in Nat
                                      /\ Answers(job.got[i])
        /\ Len(job.got) \in Nat /\ job.got = [i \in 1..Len(job.got) |-> job.got[i]]
        /\ job.todo \in Seq(Models) /\ job.since \in Nat /\ job.since <= wav
    BY DEF CacheInv, JobOK
  <2>2. Heard(out)' /\ Answers(out)'
    BY <1>6, <1>9
  <2>3. Heard(job.out)' /\ Answers(job.out)' /\ job'.out.model = model'["job"]
    BY <1>2, <1>5, <1>7, <1>8, <2>2
  <2> QED BY <1>3, <1>7, <1>8, <1>9, <2>1, <2>3 DEF JobOK
<1> QED BY <1>1, <1>2, <1>3, <1>8, <1>10, RunStays

LEMMA WriteEntryKeeps ==
  ASSUME CacheInv, WriteEntry
  PROVE  CacheInv'
<1>1. /\ UNCHANGED <<wav, memo, poll, model, moved>> /\ at["job"] = "write" /\ job.out # NoEntry
      /\ disk' = Sidecar(disk, model["job"], job.out) /\ Touches
      /\ \/ at' = [at EXCEPT !["job"] = "point"] /\ UNCHANGED job
         \/ /\ at' = [at EXCEPT !["job"] = "next"]
            /\ job' = [job EXCEPT !.got = Append(@, job.out), !.todo = Tail(@), !.out = NoEntry]
  BY DEF WriteEntry, NextModel
<1>2. PICK m, e : m = model["job"] /\ e = job.out
  OBVIOUS
<1>3. m \in Models /\ Heard(e) /\ e.model = m /\ Answers(e) /\ job.todo # <<>> /\ wav \in Nat
  BY <1>1, <1>2 DEF CacheInv, JobOK, WritersOK, Writers
<1>4. DiskOK' /\ Stays /\ m \in Sides'
  <2>1. DiskOK /\ disk' = Sidecar(disk, m, e) /\ wav' = wav
    BY <1>1, <1>2 DEF CacheInv
  <2>2. /\ disk' = [x \in DiskFields |-> disk'[x]] /\ disk'.dir = TRUE /\ disk'.legacy = disk.legacy
        /\ disk'.newest = m /\ disk'.side = [n \in Models |-> IF n = m THEN e ELSE disk.side[n]]
    BY <1>3, <2>1, EntryIsWritten, ZenonT(30)
  <2> QED BY <1>3, <2>1, <2>2, Written
<1>5. HiddenOnlyByMove'
  BY <1>4 DEF HiddenOnlyByMove
<1>6. CASE at' = [at EXCEPT !["job"] = "point"] /\ UNCHANGED job
  <2>1. "job" \in Writers /\ model["job"] \in Sides'
    BY <1>2, <1>4 DEF Writers
  <2> QED BY <1>1, <1>4, <1>5, <1>6, <2>1, MigrationKeeps DEF Busy, Migrating
<1>7. CASE /\ at' = [at EXCEPT !["job"] = "next"]
           /\ job' = [job EXCEPT !.got = Append(@, job.out), !.todo = Tail(@), !.out = NoEntry]
  <2>1. JobOK'
    <3>1. job' = [x \in DOMAIN NoJob |->
                    IF x = "got" THEN Append(job.got, e) ELSE IF x = "todo" THEN Tail(job.todo)
                    ELSE IF x = "out" THEN NoEntry ELSE job[x]]
      BY <1>2, <1>7 DEF CacheInv, JobOK, NoJob
    <3>2. at'["job"] = "next"
      BY <1>7 DEF CacheInv, WritersOK, Writers
    <3>3. e.model \in Models /\ e.heard \in Nat
      BY <1>3, TranscriptIs DEF Heard
    <3> QED BY <1>1, <1>3, <3>1, <3>2, <3>3, Merges DEF CacheInv
  <2>2. WritersOK'
    <3>1. \A u \in Writers : model'[u] = model[u] /\ model[u] \in Models /\ moved'[u] = moved[u]
      BY <1>1 DEF CacheInv, WritersOK
    <3>2. model' = [u \in Writers |-> model'[u]] /\ moved' = [u \in Writers |-> moved'[u]]
      BY <1>1 DEF CacheInv, WritersOK
    <3> QED BY <1>4, <1>7, <3>1, <3>2, WriterGoes DEF CacheInv, Migrating, Writers
  <2>3. MemoOK'
    BY <1>1, MemoStays DEF CacheInv
  <2> QED BY <1>1, <1>4, <1>5, <2>1, <2>2, <2>3 DEF CacheInv
<1> QED BY <1>1, <1>6, <1>7

LEMMA PointAtEntryKeeps ==
  ASSUME CacheInv, PointAtEntry
  PROVE  CacheInv'
<1>1. /\ UNCHANGED <<wav, memo, poll, model, moved>> /\ at["job"] = "point" /\ job.out # NoEntry
      /\ at' = [at EXCEPT !["job"] = "next"] /\ disk' = PointAt(disk, model["job"]) /\ Touches
      /\ job' = [job EXCEPT !.got = Append(@, job.out), !.todo = Tail(@), !.out = NoEntry]
  BY DEF PointAtEntry, Moves
<1>2. PICK e : e = job.out
  OBVIOUS
<1>3. Heard(e) /\ Answers(e) /\ job.todo # <<>> /\ wav \in Nat /\ model["job"] \in Sides
  BY <1>1, <1>2 DEF CacheInv, JobOK, WritersOK, Writers
<1>4. DiskOK' /\ Stays /\ HiddenOnlyByMove'
  BY <1>1, <1>3, PointedAt DEF CacheInv
<1>5. JobOK'
  <2>1. job' = [x \in DOMAIN NoJob |->
                  IF x = "got" THEN Append(job.got, e) ELSE IF x = "todo" THEN Tail(job.todo)
                  ELSE IF x = "out" THEN NoEntry ELSE job[x]]
    BY <1>1, <1>2 DEF CacheInv, JobOK, NoJob
  <2>2. at'["job"] = "next"
    BY <1>1 DEF CacheInv, WritersOK, Writers
  <2>3. e.model \in Models /\ e.heard \in Nat
    BY <1>3, TranscriptIs DEF Heard
  <2> QED BY <1>1, <1>3, <2>1, <2>2, <2>3, Merges DEF CacheInv
<1>6. WritersOK'
  <2>1. \A u \in Writers : model'[u] = model[u] /\ model[u] \in Models /\ moved'[u] = moved[u]
    BY <1>1 DEF CacheInv, WritersOK
  <2>2. model' = [u \in Writers |-> model'[u]] /\ moved' = [u \in Writers |-> moved'[u]]
    BY <1>1 DEF CacheInv, WritersOK
  <2> QED BY <1>1, <1>4, <2>1, <2>2, WriterGoes DEF CacheInv, Migrating, Writers
<1> QED BY <1>1, <1>4, <1>5, <1>6, MemoStays DEF CacheInv

(* The least of some naturals is one of them. *)
LEMMA MinIsIn ==
  ASSUME NEW S, S \subseteq Nat, S # {}
  PROVE  Min(S) \in S
<1>1. IsWellFoundedOn(OpToRel(<, Nat), Nat)
  BY NatLessThanWellFounded
<1>2. PICK x \in S : \A y \in S : ~(<<y, x>> \in OpToRel(<, Nat))
  BY <1>1, WFMin
<1>3. ASSUME NEW y \in S PROVE x <= y
  <2>1. <<y, x>> \in Nat \X Nat /\ <<y, x>>[1] = y /\ <<y, x>>[2] = x
    OBVIOUS
  <2>2. ~(y < x)
    BY <1>2, <2>1 DEF OpToRel
  <2> QED BY <2>2
<1> QED BY <1>3 DEF Min

(* The winner is one of the candidates. *)
LEMMA WinnerIsOne ==
  ASSUME NEW got, Len(got) \in Nat, Len(got) > 0, NEW specialists
  PROVE  Winner(got, specialists) \in 1..Len(got)
<1> DEFINE I == {i \in 1..Len(got) : got[i].model = specialists[got[1].language]}
<1>1. I # {} => Min(I) \in I
  <2>1. I \subseteq Nat
    OBVIOUS
  <2> HIDE DEF I
  <2> QED BY <2>1, MinIsIn
<1>2. Winner(got, specialists) = 1 \/ (I # {} /\ Winner(got, specialists) = Min(I))
  BY DEF Winner, SelectInSeq
<1> QED BY <1>1, <1>2

LEMMA SelectPrimaryKeeps ==
  ASSUME CacheInv, SelectPrimary
  PROVE  CacheInv'
<1>1. PICK w : w = Winner(job.got, Specialists)
  OBVIOUS
<1>2. /\ UNCHANGED <<wav, disk, memo, poll, key, job, moved>> /\ at["job"] = "next" /\ job.todo = <<>>
      /\ at' = [at EXCEPT !["job"] = "migrate"] /\ model' = [model EXCEPT !["job"] = job.got[w].model]
  BY <1>1 DEF SelectPrimary, Moves
<1>3. job.got[w].model \in Models /\ job.out = NoEntry
  <2>1. Len(job.got) \in Nat /\ Len(job.got) > 0 /\ job.out = NoEntry
    BY <1>2 DEF CacheInv, JobOK
  <2>2. w \in 1..Len(job.got)
    BY <1>1, <2>1, WinnerIsOne
  <2> QED BY <2>1, <2>2 DEF CacheInv, JobOK
<1>4. /\ model' = [u \in Writers |-> model'[u]] /\ model'["operator"] = model["operator"]
      /\ model'["job"] \in Models /\ at'["job"] = "migrate"
  BY <1>2, <1>3 DEF CacheInv, WritersOK, Writers
<1>5. JobOK'
  <2>1. \A e : Answers(e)' <=> Answers(e)
    BY <1>2 DEF Answers
  <2>2. JobOK
    BY DEF CacheInv
  <2> QED BY <1>2, <1>3, <1>4, <2>1, <2>2 DEF JobOK
<1> QED BY <1>2, <1>4, <1>5, RunStays

(* What the cache finds for a model is a transcript of that model. *)
LEMMA ExistingIs ==
  ASSUME CacheInv, NEW m \in Models, Existing(m) # NoEntry
  PROVE  Heard(Existing(m)) /\ Existing(m).model = m
<1>1. m \in Entries(disk) /\ Existing(m) = EntryOf(disk, m)
  BY DEF Existing
<1>2. CASE disk.dir
  <2>1. m \in Sides /\ Existing(m) = disk.side[m]
    BY <1>1, <1>2 DEF Entries, EntryOf, Sides
  <2> QED BY <2>1 DEF CacheInv, DiskOK
<1>3. CASE ~disk.dir
  <2>1. disk.legacy \notin {NoEntry, Corrupt} /\ m = disk.legacy.model /\ Existing(m) = disk.legacy
    BY <1>1, <1>3 DEF Entries, EntryOf
  <2> QED BY <2>1 DEF CacheInv, DiskOK
<1> QED BY <1>2, <1>3

LEMMA TryCacheKeeps ==
  ASSUME CacheInv, TryCache
  PROVE  CacheInv'
<1>1. /\ UNCHANGED <<wav, disk, memo, poll, key, moved>> /\ at["job"] = "next" /\ job.todo # <<>>
  BY DEF TryCache
<1>2. PICK m : m = Head(job.todo)
  OBVIOUS
<1>3. PICK e : e = Existing(m)
  OBVIOUS
<1>4. PICK lang \in Snapped(m, job.plan) :
        /\ model' = [model EXCEPT !["job"] = m]
        /\ IF job.force \/ ~Matches(e, lang)
           THEN /\ job' = [job EXCEPT !.fp = wav, !.language = lang]
                /\ at' = [at EXCEPT !["job"] = "hear"]
           ELSE LET r == Refilter(e, job.rules)
                IN  IF r.write
                    THEN /\ job' = [job EXCEPT !.out = r.entry, !.primary = r.primary]
                         /\ at' = [at EXCEPT !["job"] = "migrate"]
                    ELSE /\ job' = [job EXCEPT !.got = Append(@, e), !.todo = Tail(@)]
                         /\ UNCHANGED at
  BY <1>2, <1>3 DEF TryCache
<1>5. /\ m \in Models /\ wav \in Nat /\ JobOK /\ job.out = NoEntry /\ job = [x \in DOMAIN NoJob |-> job[x]]
      /\ job.since \in Nat /\ job.since <= wav /\ job.todo \in Seq(Models)
  BY <1>1, <1>2 DEF CacheInv, JobOK
<1>6. /\ model' = [u \in Writers |-> model'[u]] /\ model'["operator"] = model["operator"]
      /\ model'["job"] = m /\ at = [u \in Writers |-> at[u]] /\ "job" \in Writers
  BY <1>4 DEF CacheInv, WritersOK, Writers
<1>7. CASE job.force \/ ~Matches(e, lang)
  <2>1. job' = [job EXCEPT !.fp = wav, !.language = lang] /\ at' = [at EXCEPT !["job"] = "hear"]
    BY <1>4, <1>7
  <2>2. /\ job' = [x \in DOMAIN NoJob |-> job'[x]] /\ job'.out = NoEntry /\ job'.todo = job.todo
        /\ job'.got = job.got /\ job'.since = job.since /\ job'.ask = job.ask /\ job'.plan = job.plan
        /\ job'.rules = job.rules /\ job'.fp = wav /\ job'.language = lang
    BY <1>5, <2>1 DEF NoJob
  <2>3. at'["job"] = "hear"
    BY <1>6, <2>1
  <2>4. \A x : Answers(x)' <=> Answers(x)
    BY <2>2 DEF Answers
  <2>5. JobOK'
    <3>1. /\ job'.fp \in Nat /\ job'.since <= job'.fp /\ job'.fp <= wav'
          /\ job'.language \in Snapped(model'["job"], job'.plan) /\ job'.todo # <<>>
      BY <1>1, <1>4, <1>5, <1>6, <2>2
    <3>2. /\ \A i \in 1..Len(job.got) : job.got[i].model \in Models /\ job.got[i].heard \in Nat
                                        /\ Answers(job.got[i])
          /\ Len(job.got) \in Nat /\ job.got = [i \in 1..Len(job.got) |-> job.got[i]]
      BY <1>5 DEF JobOK
    <3>3. wav' = wav
      BY <1>1
    <3> QED BY <1>1, <1>5, <2>2, <2>3, <2>4, <3>1, <3>2, <3>3 DEF JobOK
  <2> QED BY <1>1, <1>5, <1>6, <2>1, <2>5, RunStays
<1>8. CASE ~(job.force \/ ~Matches(e, lang))
  <2>1. PICK r : r = Refilter(e, job.rules)
    OBVIOUS
  <2>2. e # NoEntry /\ e.fp = wav /\ e.language = lang /\ e.said = job.ask
    BY <1>8 DEF Matches
  <2>3. Heard(e) /\ IsTranscript(e) /\ e.model = m /\ e.heard \in Nat /\ e.fp <= e.heard
    BY <1>3, <1>5, <2>2, ExistingIs, TranscriptIs DEF Heard
  <2>4. /\ IsTranscript(r.entry) /\ r.entry.sig = <<job.rules>> /\ r.write \in BOOLEAN
        /\ r.entry.model = m /\ r.entry.fp = e.fp /\ r.entry.heard = e.heard
        /\ r.entry.said = e.said /\ r.entry.language = e.language
        /\ ~r.write => r.entry = e
    BY <2>1, <2>3, RefilterIs
  <2>5. Answers(r.entry) /\ Heard(r.entry)
    BY <1>4, <1>5, <2>2, <2>3, <2>4 DEF Answers, Heard
  <2>6. CASE r.write
    <3>1. job' = [job EXCEPT !.out = r.entry, !.primary = r.primary] /\ at' = [at EXCEPT !["job"] = "migrate"]
      BY <1>4, <1>8, <2>1, <2>6
    <3>2. /\ job' = [x \in DOMAIN NoJob |-> job'[x]] /\ job'.out = r.entry /\ job'.todo = job.todo
          /\ job'.got = job.got /\ job'.since = job.since /\ job'.ask = job.ask /\ job'.plan = job.plan
          /\ job'.rules = job.rules
      BY <1>5, <3>1 DEF NoJob
    <3>3. at'["job"] = "migrate"
      BY <1>6, <3>1
    <3>4. \A x : (Answers(x)' <=> Answers(x)) /\ (Heard(x)' <=> Heard(x))
      BY <1>1, <3>2 DEF Answers, Heard
    <3>5. Heard(job.out)' /\ Answers(job.out)' /\ job'.out.model = model'["job"]
      BY <1>6, <2>4, <2>5, <3>2, <3>4
    <3>6. JobOK'
      BY <1>1, <1>5, <3>2, <3>3, <3>4, <3>5 DEF JobOK
    <3> QED BY <1>1, <1>5, <1>6, <3>1, <3>6, RunStays
  <2>7. CASE ~r.write
    <3>1. job' = [job EXCEPT !.got = Append(@, e), !.todo = Tail(@)] /\ at' = at
      BY <1>4, <1>8, <2>1, <2>7
    <3>2. job' = [x \in DOMAIN NoJob |->
                    IF x = "got" THEN Append(job.got, e) ELSE IF x = "todo" THEN Tail(job.todo)
                    ELSE IF x = "out" THEN NoEntry ELSE job[x]]
      BY <1>5, <3>1 DEF NoJob
    <3>3. at' = [at EXCEPT !["job"] = "next"] /\ at'["job"] = "next"
      BY <1>1, <1>6, <3>1
    <3>4. Answers(e) /\ e.model \in Models
      BY <1>5, <2>3, <2>4, <2>5, <2>7
    <3>5. JobOK'
      BY <1>1, <1>5, <2>3, <3>2, <3>3, <3>4, Merges
    <3> QED BY <1>1, <1>5, <1>6, <3>3, <3>5, RunStays
  <2> QED BY <2>6, <2>7
<1> QED BY <1>7, <1>8

-----------------------------------------------------------------------------
LEMMA InitCache == Init => CacheInv
<1> SUFFICES ASSUME Init PROVE CacheInv
  OBVIOUS
<1>1. /\ wav = 1 /\ disk \in OldDisks /\ memo = <<>> /\ poll = [p \in Polls |-> Resting]
      /\ key = [r \in Polls \cup {"memo"} |-> "old"] /\ job = NoJob
      /\ at = [t \in Writers |-> "idle"] /\ model = [t \in Writers |-> Generalist]
      /\ moved = [t \in Writers |-> None]
  BY DEF Init
<1>2. /\ disk = [x \in DOMAIN Laid(0, 0, 0, 0) |-> disk[x]] /\ disk.dir \in BOOLEAN
      /\ disk.legacy \in {NoEntry, Corrupt} \/ (IsTranscript(disk.legacy) /\ disk.legacy.heard <= 1)
      /\ disk.side = [m \in Models |-> disk.side[m]]
      /\ \A m \in Models : disk.side[m] # NoEntry =>
           IsTranscript(disk.side[m]) /\ disk.side[m].model = m /\ disk.side[m].heard <= 1
      /\ IF disk.dir THEN disk.newest \in Models /\ disk.side[disk.newest] # NoEntry
         ELSE disk.pointer = None /\ \A m \in Models : disk.side[m] = NoEntry
  BY <1>1, DisksAssumption
<1>3. /\ disk.dir => disk.newest \in Sides
      /\ ~disk.dir => Sides = {} /\ disk.pointer = None
  BY <1>2 DEF Sides
<1>4. DiskOK /\ HiddenOnlyByMove
  <2>1. disk = [x \in {"dir", "legacy", "side", "pointer", "newest"} |-> disk[x]]
    BY <1>2 DEF Laid
  <2>2. \A m \in Sides : Heard(disk.side[m]) /\ disk.side[m].model = m
    BY <1>1, <1>2 DEF Sides, Heard
  <2>3. disk.legacy \in {NoEntry, Corrupt} \/ Heard(disk.legacy)
    BY <1>1, <1>2 DEF Heard
  <2> QED BY <1>2, <1>3, <2>1, <2>2, <2>3 DEF DiskOK, HiddenOnlyByMove
<1>5. JobOK
  <2>1. /\ NoJob = [x \in DOMAIN NoJob |-> NoJob[x]]
        /\ NoJob.todo = <<>> /\ NoJob.got = <<>> /\ NoJob.since = 0 /\ NoJob.out = NoEntry
    BY DEF NoJob
  <2>2. at["job"] = "idle"
    BY <1>1 DEF Writers
  <2> QED BY <1>1, <2>1, <2>2 DEF JobOK
<1>6. WritersOK /\ MemoOK
  <2>1. WritersOK
    BY <1>1, NamesAssumption DEF WritersOK, Migrating
  <2>2. MemoOK
    BY <1>1 DEF MemoOK, Resting
  <2> QED BY <2>1, <2>2
<1> QED BY <1>1, <1>4, <1>5, <1>6 DEF CacheInv

LEMMA StepCache == CacheInv /\ [Next]_vars => CacheInv'
<1> SUFFICES ASSUME CacheInv, [Next]_vars PROVE CacheInv'
  OBVIOUS
<1> "job" \in Writers /\ "operator" \in Writers
  BY DEF Writers
<1>1. ASSUME NEW t \in Writers,
             CheckLayout(t) \/ MakeDir(t) \/ MoveLegacy(t) \/ MoveFails(t) \/ PointMigrated(t)
             \/ FindTarget(t) \/ PointAtTarget(t)
      PROVE  CacheInv'
  BY <1>1, CheckLayoutKeeps, MakeDirKeeps, MoveLegacyKeeps, MoveFailsKeeps, PointMigratedKeeps,
     FindTargetKeeps, PointAtTargetKeeps
<1>2. CASE TranscribeOne
  BY <1>1, <1>2, StartRunKeeps, TryCacheKeeps, HearKeeps, WriteEntryKeeps, PointAtEntryKeeps,
     SelectPrimaryKeeps DEF TranscribeOne, CachedTranscribe
<1>3. CASE SetPrimary
  BY <1>1, <1>3, StartPinKeeps DEF SetPrimary
<1>4. CASE \E p \in Polls : Look(p) \/ ReadMarker(p) \/ ReadListing(p)
  BY <1>4, LooksKeep
<1>5. CASE Grow
  BY <1>5, GrowKeeps
<1>6. CASE UNCHANGED vars
  <2>1. UNCHANGED <<wav, disk, memo, poll, key, job, at, model, moved>>
    BY <1>6 DEF vars
  <2>2. DiskOK' /\ WritersOK' /\ HiddenOnlyByMove' /\ wav' \in Nat
    BY <2>1 DEF CacheInv, DiskOK, WritersOK, HiddenOnlyByMove, Sides, Heard
  <2>3. JobOK' /\ MemoOK'
    BY <2>1, JobStays, MemoStays DEF CacheInv
  <2> QED BY <2>2, <2>3 DEF CacheInv
<1> QED BY <1>2, <1>3, <1>4, <1>5, <1>6 DEF Next

-----------------------------------------------------------------------------
LEMMA FollowEntries == CacheInv => EntriesAreWhole
<1> SUFFICES ASSUME CacheInv, NEW e \in OnDisk
             PROVE  (e.fp = wav => e.heard = wav) /\ (e.sig # <<>> => SplitBy(e, e.sig[1]))
  BY DEF EntriesAreWhole, HitsHearTheWholeWav, SplitIsWhole
<1>1. Heard(e)
  BY DEF OnDisk, CacheInv, DiskOK, Sides
<1>2. e.sig # <<>> => SplitBy(e, e.sig[1])
  BY <1>1 DEF Heard, IsTranscript
<1> QED BY <1>1, <1>2, TranscriptIs DEF Heard, CacheInv

LEMMA FollowAnswers == CacheInv => RunAnswersItsRequest
<1> SUFFICES ASSUME CacheInv, NEW i \in DOMAIN job.got PROVE Answers(job.got[i])
  BY DEF RunAnswersItsRequest, Answers
<1>1. DOMAIN job.got = 1..Len(job.got)
  BY DEF CacheInv, JobOK
<1> QED BY <1>1 DEF CacheInv, JobOK

LEMMA FollowListings == CacheInv => ListingsTellTheTruth
<1> SUFFICES ASSUME CacheInv PROVE ListingsTellTheTruth
  OBVIOUS
<1>1. NothingHidden
  <2> SUFFICES ASSUME \A t \in Writers : at[t] \notin {"move", "repoint"}, OnDisk # {}
               PROVE  Primary(disk) # None
    BY DEF NothingHidden
  <2>1. Sides # {} \/ disk.legacy \notin {NoEntry, Corrupt}
    BY DEF OnDisk, Sides
  <2>2. None \notin Models
    BY NamesAssumption DEF None
  <2>3. CASE disk.dir
    <3>1. Entries(disk) = Sides /\ Sides # {} /\ disk.newest \in Models
      BY <2>1, <2>3 DEF CacheInv, DiskOK, HiddenOnlyByMove, Entries, Sides
    <3> QED BY <2>2, <2>3, <3>1 DEF Primary, Sides
  <2>4. CASE ~disk.dir
    <3>1. disk.legacy \notin {NoEntry, Corrupt} /\ disk.legacy.model \in Models
      BY <2>1, <2>4, TranscriptIs DEF CacheInv, DiskOK, Heard
    <3> QED BY <2>2, <2>4, <3>1 DEF Primary, Entries
  <2> QED BY <2>3, <2>4
<1>2. MemoTellsTheTruth
  BY DEF MemoTellsTheTruth, CacheInv, MemoOK, Current, Signature
<1> QED BY <1>1, <1>2 DEF ListingsTellTheTruth

(* A transcript on disk is whole: an entry that a hit may serve was heard  *)
(* to the end of the recording, whatever a resumed tap appended while the  *)
(* model ran, and its two halves are what was heard, split by the rules it *)
(* names, however often those were edited.                                 *)
THEOREM TranscriptsAreWhole == Spec => []EntriesAreWhole
BY InitCache, StepCache, FollowEntries, PTL DEF Spec

(* What a run merges answers its request, whatever was cached, re-filtered *)
(* or repointed meanwhile.                                                 *)
THEOREM RunsAnswer == Spec => []RunAnswersItsRequest
BY InitCache, StepCache, FollowAnswers, PTL DEF Spec

(* The listing of a WAV is of what is on disk, however migrations, writes  *)
(* and polls overlap.                                                      *)
THEOREM ListingsAreTrue == Spec => []ListingsTellTheTruth
BY InitCache, StepCache, FollowListings, PTL DEF Spec
=============================================================================
