----------------------------- MODULE TapProofs -----------------------------
(***************************************************************************)
(* The taps, alone and beside the destructive routes, for every number of  *)
(* connections, utterances, sessions, requests and files.                  *)
(*                                                                         *)
(* Of the taps (TapFanOut): the type invariant, one writer per WAV, no     *)
(* stranded record, exact byte counts, the ownership of open records, and  *)
(* registries that count exactly the connections that still owe a release. *)
(* These are not inductive alone.  Two writers of one WAV could meet       *)
(* through a record that is closed while somebody still writes its file,   *)
(* so the invariant ties the three together: who has a file open, which    *)
(* record names the file, and whether that record is open.                 *)
(*                                                                         *)
(* Of the routes (SessionRoutes): the guard's integer and the job slots    *)
(* implement the shared/exclusive lock of SessionLock, a guarded tap keeps *)
(* its WAV, and a batch job keeps its recordings.  The integer alone is    *)
(* not inductive: a second claim of a claimed session is granted.  The     *)
(* invariant therefore ties three things together: who holds a session's   *)
(* job slot, which request is inside its claim, and what the integer reads.*)
(***************************************************************************)
EXTENDS SessionRoutes, FiniteSetTheorems, TLAPS

(* A connection before its WAV exists, and one that may have it open. *)
Early == {"idle", "accepted", "reopen", "join", "create"}
Writing == {"announce", "open", "unwind", "finalize"}

(* A connection holds a WAV only in mid-life, and the WAV was minted. *)
HandleInv ==
  \A c \in Conns :
    handle[c] # NoWav => /\ phase[c] \in Writing
                         /\ handle[c] \in Conns
                         /\ phase[handle[c]] \notin Early

(* A record names a WAV minted for its own utterance. *)
RecordInv ==
  \A u \in Utts : Index!Has(u) => /\ byId[u].wav \in Conns
                                  /\ tap[byId[u].wav].utt = u
                                  /\ phase[byId[u].wav] # "idle"
                                  /\ phase[byId[u].wav] \notin Early

(* Who writes the WAV of a record is its owner, and the record is open. *)
WriterInv ==
  \A u \in Utts, c \in Conns :
    Index!Has(u) /\ handle[c] = byId[u].wav
    => byId[u].open /\ byId[u].owner = c

(* A closed record was released by its owner's close. *)
ReleasedInv ==
  \A u \in Utts :
    Index!Has(u) /\ ~byId[u].open => phase[byId[u].owner] \in {"drain", "closed"}

(* The owner of an open record writes its WAV, or has yet to open it, or   *)
(* failed to.                                                              *)
OwnerInv ==
  \A u \in Utts :
    Index!Has(u) /\ byId[u].open
    => \/ handle[byId[u].owner] = byId[u].wav
       \/ /\ handle[byId[u].owner] = NoWav
          /\ phase[byId[u].owner] \in {"reopen", "unwind", "finalize"}

(* Between try_resume and the reopening the record is the connection's. *)
ReopenInv ==
  \A c \in Conns :
    phase[c] = "reopen"
    => /\ Index!Has(tap[c].utt)
       /\ byId[tap[c].utt].open
       /\ byId[tap[c].utt].owner = c
       /\ byId[tap[c].utt].bytes = frames[byId[tap[c].utt].wav]

(* Nothing is counted without a WAV, nothing is in a WAV not yet minted. *)
CountInv ==
  \A c \in Conns :
    /\ phase[c] \in Early => frames[c] = 0
    /\ phase[c] \in Early \cup Writing /\ handle[c] = NoWav => bytes[c] = 0

IInv ==
  /\ TypeOK
  /\ OneWriter
  /\ NoStrandedRecord
  /\ ByteCountExact
  /\ HandleInv
  /\ RecordInv
  /\ ReleasedInv
  /\ WriterInv
  /\ OwnerInv
  /\ ReopenInv
  /\ CountInv

USE DEF Index!Has, Sess, OwnedBy, Phases, Early, Writing, Wavs, fileVars,
        registryVars

-----------------------------------------------------------------------------
(* What the index's calls leave behind.  None of them touches a record that *)
(* another connection holds open.                                          *)
LEMMA PruneKeepsOpen ==
  ASSUME TypeOK
  PROVE  /\ Index!Pruned \in [Utts -> Index!UtteranceRecord \cup {NoRecord}]
         /\ \A v \in Utts :
              /\ Index!Pruned[v] # NoRecord => Index!Pruned[v] = byId[v]
              /\ Index!Has(v) /\ byId[v].open => Index!Pruned[v] = byId[v]
              /\ Index!Expired(v) => Index!Pruned[v] = NoRecord
              /\ ~Index!Expired(v) => Index!Pruned[v] = byId[v]
BY DEF TypeOK, Index!IndexTypeOK, Index!Pruned, Index!Expired

(* try_resume hands over a closed record only, and changes no other.       *)
LEMMA TryResumeResult ==
  ASSUME TypeOK, NEW u \in Utts, NEW i \in Idents, NEW s \in Sessions,
         NEW c \in Conns
  PROVE  LET n == Index!TryResume(u, i, s, c, home)
             r == Index!Resumable(u, i, s, home)
         IN /\ n \in [Utts -> Index!UtteranceRecord \cup {NoRecord}]
            /\ \A v \in Utts : v # u /\ n[v] # NoRecord => n[v] = byId[v]
            /\ \A v \in Utts : Index!Has(v) /\ byId[v].open => n[v] = byId[v]
            /\ r => /\ Index!Has(u) /\ ~byId[u].open
                    /\ n[u] # NoRecord /\ n[u].open /\ n[u].owner = c
                    /\ n[u].wav = byId[u].wav /\ n[u].bytes = byId[u].bytes
            /\ ~r /\ n[u] # NoRecord => n[u] = byId[u]
<1> DEFINE n == Index!TryResume(u, i, s, c, home)
           r == Index!Resumable(u, i, s, home)
<1> HIDE DEF n, r
<1> USE PruneKeepsOpen
<1>1. CASE r
  <2> DEFINE new == [byId[u] EXCEPT !.open = TRUE, !.owner = c]
  <2>1. /\ byId[u] \in Index!UtteranceRecord /\ ~byId[u].open
        /\ Index!Pruned[u] = byId[u]
    BY <1>1 DEF r, Index!Resumable, Index!Candidate, TypeOK, Index!IndexTypeOK
  <2>2. n = [Index!Pruned EXCEPT ![u] = new]
    BY <1>1, <2>1 DEF n, r, Index!TryResume
  <2>3. /\ new \in Index!UtteranceRecord /\ new.open /\ new.owner = c
        /\ new.wav = byId[u].wav /\ new.bytes = byId[u].bytes
    BY <2>1 DEF Index!UtteranceRecord
  <2> HIDE DEF new
  <2>4. n \in [Utts -> Index!UtteranceRecord \cup {NoRecord}]
    BY <2>2, <2>3
  <2>5. n[u] = new /\ \A v \in Utts : v # u => n[v] = Index!Pruned[v]
    BY <2>2
  <2> QED  BY <1>1, <2>1, <2>3, <2>4, <2>5, ConnsAssumption DEF n, r
<1>2. CASE ~r /\ Index!Candidate(u, i)
  <2>1. n = [Index!Pruned EXCEPT ![u] = NoRecord] /\ ~byId[u].open
    BY <1>2 DEF n, r, Index!TryResume, Index!Candidate
  <2> QED  BY <1>2, <2>1 DEF n, r
<1>3. CASE ~r /\ ~Index!Candidate(u, i)
  BY <1>3 DEF n, r, Index!TryResume
<1> QED  BY <1>1, <1>2, <1>3 DEF r

(* register_new changes one record, and none another connection holds.     *)
LEMMA RegisterNewResult ==
  ASSUME TypeOK, NEW u \in Utts, NEW i \in Idents, NEW s \in Sessions,
         NEW c \in Conns
  PROVE  LET n == Index!RegisterNew(u, c, i, s, c)
         IN /\ n \in [Utts -> Index!UtteranceRecord \cup {NoRecord}]
            /\ \A v \in Utts :
                 n[v] # NoRecord
                 => \/ n[v] = byId[v]
                    \/ v = u /\ n[v].open /\ n[v].owner = c /\ n[v].wav = c
            /\ \A v \in Utts : Index!Has(v) /\ byId[v].open /\ byId[v].owner # c
                               => n[v] = byId[v]
            /\ n[u] # NoRecord
<1> DEFINE n == Index!RegisterNew(u, c, i, s, c)
<1> HIDE DEF n
<1> USE PruneKeepsOpen
<1>1. CASE Index!HeldByOther(u, c)
  BY <1>1 DEF n, Index!RegisterNew, Index!HeldByOther
<1>2. CASE ~Index!HeldByOther(u, c)
  <2> DEFINE new == Index!NewRecord(c, i, s, c)
  <2>1. new \in Index!UtteranceRecord /\ new.open /\ new.owner = c /\ new.wav = c
    BY DEF Index!NewRecord, Index!UtteranceRecord
  <2> HIDE DEF new
  <2>2. n = [Index!Pruned EXCEPT ![u] = new]
    BY <1>2 DEF n, new, Index!RegisterNew
  <2>3. n \in [Utts -> Index!UtteranceRecord \cup {NoRecord}]
    BY <2>1, <2>2
  <2>4. n[u] = new /\ \A v \in Utts : v # u => n[v] = Index!Pruned[v]
    BY <2>2
  <2>5. \A v \in Utts : Index!Has(v) /\ byId[v].open /\ byId[v].owner # c => v # u
    BY <1>2 DEF Index!HeldByOther
  <2> QED  BY <2>1, <2>3, <2>4, <2>5, ConnsAssumption DEF n
<1> QED  BY <1>1, <1>2

(* release touches a record only for the connection that owns it.          *)
LEMMA ReleaseResult ==
  ASSUME TypeOK, NEW u \in Utts, NEW c \in Conns, NEW b \in Nat,
         NEW kept \in BOOLEAN
  PROVE  LET n == Index!Release(u, c, b, kept)
         IN /\ n \in [Utts -> Index!UtteranceRecord \cup {NoRecord}]
            /\ \A v \in Utts :
                 n[v] # NoRecord
                 => /\ Index!Has(v)
                    /\ \/ n[v] = byId[v] /\ (v # u \/ byId[v].owner # c)
                       \/ /\ v = u /\ byId[v].owner = c /\ kept
                          /\ ~n[v].open /\ n[v].owner = c
                          /\ n[v].wav = byId[v].wav /\ n[v].bytes = b
            /\ \A v \in Utts : v # u \/ byId[v].owner # c => n[v] = byId[v]
<1> DEFINE n == Index!Release(u, c, b, kept)
<1> HIDE DEF n
<1>1. CASE ~Index!Has(u) \/ byId[u].owner # c
  <2>1. n = byId
    BY <1>1 DEF n, Index!Release
  <2> QED  BY <1>1, <2>1 DEF n, TypeOK, Index!IndexTypeOK
<1>2. CASE Index!Has(u) /\ byId[u].owner = c /\ kept
  <2> DEFINE new == [byId[u] EXCEPT !.open = FALSE, !.bytes = b, !.aged = FALSE]
  <2>1. /\ new \in Index!UtteranceRecord /\ ~new.open /\ new.owner = c
        /\ new.wav = byId[u].wav /\ new.bytes = b
    <3>1. byId[u] \in Index!UtteranceRecord
      BY <1>2 DEF TypeOK, Index!IndexTypeOK
    <3> QED  BY <1>2, <3>1 DEF Index!UtteranceRecord
  <2>2. n = [byId EXCEPT ![u] = new]
    BY <1>2 DEF n, Index!Release
  <2> HIDE DEF new
  <2>3. /\ n \in [Utts -> Index!UtteranceRecord \cup {NoRecord}]
        /\ n[u] = new /\ \A v \in Utts : v # u => n[v] = byId[v]
    BY <2>1, <2>2 DEF TypeOK, Index!IndexTypeOK
  <2> QED  BY <1>2, <2>1, <2>3 DEF n
<1>3. CASE Index!Has(u) /\ byId[u].owner = c /\ ~kept
  <2>1. n = [byId EXCEPT ![u] = NoRecord]
    BY <1>3 DEF n, Index!Release
  <2> QED  BY <1>3, <2>1 DEF n, TypeOK, Index!IndexTypeOK
<1> QED  BY <1>1, <1>2, <1>3

-----------------------------------------------------------------------------
(* The invariant holds before the first connection.                        *)
THEOREM InitEstablishes == Init => IInv
BY ConnsAssumption
   DEF Init, RegistryInit, Index!IndexInit, IInv, TypeOK, RegistryTypeOK,
       Index!IndexTypeOK, OneWriter, NoStrandedRecord, ByteCountExact,
       HandleInv, RecordInv, ReleasedInv, WriterInv, OwnerInv, ReopenInv,
       CountInv, Claim

(* The /tap handler creates the TapFanOut: nothing is open yet.            *)
LEMMA AcceptKeeps ==
  ASSUME IInv, NEW c \in Conns, NEW s \in Sessions, Accept(c, s)
  PROVE  IInv'
<1> USE DEF IInv, Accept
<1>1. TypeOK'
    BY ConnsAssumption DEF TypeOK, Index!IndexTypeOK, Index!UtteranceRecord,
       Claim, RegistryTypeOK
<1>2. OneWriter'
    BY DEF OneWriter
<1>3. NoStrandedRecord'
    BY DEF NoStrandedRecord
<1>4. ByteCountExact'
    BY DEF ByteCountExact
<1>5. HandleInv'
    BY DEF HandleInv
<1>6. RecordInv'
    BY DEF RecordInv
<1>7. ReleasedInv'
    BY DEF ReleasedInv
<1>8. WriterInv'
    BY DEF WriterInv
<1>9. OwnerInv'
    BY DEF OwnerInv
<1>10. ReopenInv'
    BY DEF ReopenInv
<1>11. CountInv'
    BY DEF CountInv
<1> QED
  BY <1>1, <1>2, <1>3, <1>4, <1>5, <1>6, <1>7, <1>8, <1>9, <1>10, <1>11

(* try_resume: the record it hands over was closed, so nobody writes its   *)
(* WAV.                                                                    *)
LEMMA StartOpenKeeps ==
  ASSUME IInv, NEW c \in Conns, StartOpen(c)
  PROVE  IInv'
<1> USE DEF IInv
<1>1. CASE ~tap[c].record
  <2>1. /\ phase' = [phase EXCEPT ![c] = "announce"]
        /\ phase[c] = "accepted"
        /\ loop' = c
        /\ UNCHANGED <<byId, tap, marked, guarded, handle, bytes, rows,
                       fileVars, registryVars>>
    BY <1>1 DEF StartOpen, Takes
  <2> QED
    BY <2>1 DEF TypeOK, Index!IndexTypeOK, RegistryTypeOK, OneWriter,
       NoStrandedRecord, ByteCountExact, HandleInv, RecordInv, ReleasedInv,
       WriterInv, OwnerInv, ReopenInv, CountInv
<1>2. CASE tap[c].record
  <2> DEFINE u == tap[c].utt
             i == tap[c].ident
             s == tap[c].sess
             r == Index!Resumable(u, i, s, home)
  <2>1. u \in Utts /\ i \in Idents /\ s \in Sessions /\ r \in BOOLEAN
    BY DEF TypeOK, Claim, Index!Resumable, Index!Candidate
  <2>2. byId' = Index!TryResume(u, i, s, c, home)
    BY <1>2 DEF StartOpen
  <2>3. /\ phase' = [phase EXCEPT ![c] = IF r THEN "reopen" ELSE "join"]
        /\ phase[c] = "accepted"
        /\ loop' = c
        /\ UNCHANGED <<tap, marked, guarded, handle, bytes, rows, fileVars,
                       registryVars>>
    BY <1>2 DEF StartOpen, Takes
  <2> HIDE DEF u, i, s, r
  <2>4. /\ byId' \in [Utts -> Index!UtteranceRecord \cup {NoRecord}]
        /\ \A v \in Utts : v # u /\ byId'[v] # NoRecord => byId'[v] = byId[v]
        /\ \A v \in Utts : Index!Has(v) /\ byId[v].open => byId'[v] = byId[v]
        /\ r => /\ Index!Has(u) /\ ~byId[u].open
                /\ byId'[u] # NoRecord /\ byId'[u].open /\ byId'[u].owner = c
                /\ byId'[u].wav = byId[u].wav /\ byId'[u].bytes = byId[u].bytes
        /\ ~r /\ byId'[u] # NoRecord => byId'[u] = byId[u]
    BY <2>1, <2>2, TryResumeResult DEF r
  <2>5. \A v \in Utts : byId'[v] # NoRecord
          => \/ byId'[v] = byId[v]
             \/ /\ v = u /\ r /\ Index!Has(v) /\ ~byId[v].open
                /\ byId'[v].open /\ byId'[v].owner = c
                /\ byId'[v].wav = byId[v].wav /\ byId'[v].bytes = byId[v].bytes
    BY <2>1, <2>4
  <2>6. /\ phase'[c] = IF r THEN "reopen" ELSE "join"
        /\ \A d \in Conns : d # c => phase'[d] = phase[d]
        /\ handle[c] = NoWav
    BY <2>3 DEF TypeOK, HandleInv
  <2>7. \A v \in Utts : Index!Has(v) /\ byId[v].open => byId[v].owner # c
    BY <2>3 DEF NoStrandedRecord
  <2>8. \A v \in Utts : Index!Has(v) => byId[v].wav # c
    BY <2>3 DEF RecordInv
  <2>9. TypeOK'
    BY <2>1, <2>3, <2>4 DEF TypeOK, RegistryTypeOK, Index!IndexTypeOK
  <2>10. OneWriter'
    BY <2>1, <2>3, <2>4, <2>5, <2>6, <2>7, <2>8, <2>9 DEF OneWriter
  <2>11. NoStrandedRecord'
    BY <2>1, <2>3, <2>4, <2>5, <2>6, <2>7, <2>8, <2>9 DEF TypeOK, Claim, u,
       NoStrandedRecord
  <2>12. ByteCountExact'
    BY <2>1, <2>3, <2>4, <2>5, <2>6, <2>7, <2>8, <2>9 DEF ByteCountExact
  <2>13. HandleInv'
    BY <2>1, <2>3, <2>4, <2>5, <2>6, <2>7, <2>8, <2>9 DEF HandleInv
  <2>14. RecordInv'
    BY <2>1, <2>3, <2>4, <2>5, <2>6, <2>7, <2>8, <2>9 DEF RecordInv
  <2>15. ReleasedInv'
    BY <2>1, <2>3, <2>4, <2>5, <2>6, <2>7, <2>8, <2>9 DEF ReleasedInv
  <2>16. WriterInv'
    <3> SUFFICES ASSUME NEW v \in Utts, NEW d \in Conns, byId'[v] # NoRecord,
                        handle[d] = byId'[v].wav
                 PROVE  byId'[v].open /\ byId'[v].owner = d
      BY <2>3 DEF WriterInv
    <3> QED  BY <2>5, <2>7 DEF WriterInv
  <2>17. OwnerInv'
    BY <2>1, <2>3, <2>4, <2>5, <2>6, <2>7, <2>8, <2>9 DEF OwnerInv
  <2>18. ReopenInv'
    BY <2>1, <2>3, <2>4, <2>5, <2>6, <2>7, <2>8, <2>9, ConnsAssumption DEF
       TypeOK, Claim, u, ByteCountExact, ReopenInv
  <2>19. CountInv'
    BY <2>1, <2>3, <2>4, <2>5, <2>6, <2>7, <2>8, <2>9 DEF CountInv
  <2> QED
    BY <2>9, <2>10, <2>11, <2>12, <2>13, <2>14, <2>15, <2>16, <2>17, <2>18, <2>19
<1> QED  BY <1>1, <1>2

(* The WAV of the record it was handed is opened for appending.            *)
LEMMA ReopenKeeps ==
  ASSUME IInv, NEW c \in Conns, Reopen(c)
  PROVE  IInv'
<1> USE DEF IInv, Reopen, Within
<1>1. TypeOK'
  <2>1. /\ byId[tap[c].utt] \in Index!UtteranceRecord
        /\ byId[tap[c].utt].wav \in Conns
    BY DEF TypeOK, Claim, Index!IndexTypeOK, ReopenInv, RecordInv
  <2>2. byId[tap[c].utt].bytes \in Nat
    BY <2>1 DEF Index!UtteranceRecord
  <2> QED  BY <2>1, <2>2 DEF TypeOK, RegistryTypeOK, Index!IndexTypeOK
<1>2. OneWriter'
    BY ConnsAssumption DEF TypeOK, Index!IndexTypeOK, Index!UtteranceRecord,
       Claim, OneWriter, NoStrandedRecord, ByteCountExact, HandleInv,
       RecordInv, ReleasedInv, WriterInv, OwnerInv, ReopenInv, CountInv
<1>3. NoStrandedRecord'
    BY DEF NoStrandedRecord
<1>4. ByteCountExact'
    BY ConnsAssumption DEF TypeOK, Index!IndexTypeOK, Claim, ByteCountExact,
       ReopenInv
<1>5. HandleInv'
    BY ConnsAssumption DEF TypeOK, Index!IndexTypeOK, Index!UtteranceRecord,
       Claim, OneWriter, NoStrandedRecord, ByteCountExact, HandleInv,
       RecordInv, ReleasedInv, WriterInv, OwnerInv, ReopenInv, CountInv
<1>6. RecordInv'
    BY DEF RecordInv
<1>7. ReleasedInv'
    BY DEF ReleasedInv
<1>8. WriterInv'
    BY ConnsAssumption DEF TypeOK, Index!IndexTypeOK, Index!UtteranceRecord,
       Claim, OneWriter, NoStrandedRecord, ByteCountExact, HandleInv,
       RecordInv, ReleasedInv, WriterInv, OwnerInv, ReopenInv, CountInv
<1>9. OwnerInv'
    BY ConnsAssumption DEF TypeOK, Index!IndexTypeOK, Claim,
       NoStrandedRecord, OwnerInv
<1>10. ReopenInv'
    BY DEF ReopenInv
<1>11. CountInv'
    BY ConnsAssumption DEF TypeOK, Index!IndexTypeOK, Index!UtteranceRecord,
       Claim, OneWriter, NoStrandedRecord, ByteCountExact, HandleInv,
       RecordInv, ReleasedInv, WriterInv, OwnerInv, ReopenInv, CountInv
<1> QED
  BY <1>1, <1>2, <1>3, <1>4, <1>5, <1>6, <1>7, <1>8, <1>9, <1>10, <1>11

(* The append fails: the record stays the connection's, to be released.    *)
LEMMA ReopenFailsKeeps ==
  ASSUME IInv, NEW c \in Conns, ReopenFails(c)
  PROVE  IInv'
<1> USE DEF IInv, ReopenFails, Within
<1>1. TypeOK'
    BY ConnsAssumption DEF TypeOK, Index!IndexTypeOK, Index!UtteranceRecord,
       Claim, RegistryTypeOK
<1>2. OneWriter'
    BY DEF OneWriter
<1>3. NoStrandedRecord'
    BY DEF NoStrandedRecord
<1>4. ByteCountExact'
    BY DEF ByteCountExact
<1>5. HandleInv'
    BY DEF HandleInv
<1>6. RecordInv'
    BY DEF RecordInv
<1>7. ReleasedInv'
    BY DEF ReleasedInv
<1>8. WriterInv'
    BY DEF WriterInv
<1>9. OwnerInv'
    BY DEF OwnerInv
<1>10. ReopenInv'
    BY DEF ReopenInv
<1>11. CountInv'
    BY DEF CountInv
<1> QED
  BY <1>1, <1>2, <1>3, <1>4, <1>5, <1>6, <1>7, <1>8, <1>9, <1>10, <1>11

(* The marks and the guard are taken: no record, no file changes.          *)
LEMMA JoinKeeps ==
  ASSUME IInv, NEW c \in Conns, Join(c)
  PROVE  IInv'
<1> USE DEF IInv, Join, Within
<1>1. TypeOK'
  <2>1. Sess(c) \in Sessions
    BY DEF TypeOK, Claim
  <2>2. marks' \in [Sessions -> Nat]
    BY <2>1 DEF TypeOK, RegistryTypeOK, MarkSessionInFlight
  <2>3. active' \in [Sessions -> Nat \cup {Destroying}]
    BY <2>1 DEF TypeOK, RegistryTypeOK, RegisterTap, DestructionInProgress,
                Destroying
  <2> QED  BY <2>1, <2>2, <2>3 DEF TypeOK, RegistryTypeOK, Index!IndexTypeOK
<1>2. OneWriter'
    BY DEF OneWriter
<1>3. NoStrandedRecord'
    BY ConnsAssumption DEF TypeOK, Index!IndexTypeOK, Index!UtteranceRecord,
       Claim, NoStrandedRecord
<1>4. ByteCountExact'
    BY DEF ByteCountExact
<1>5. HandleInv'
    BY DEF TypeOK, HandleInv
<1>6. RecordInv'
    BY DEF TypeOK, RecordInv
<1>7. ReleasedInv'
    BY ConnsAssumption DEF TypeOK, Index!IndexTypeOK, Index!UtteranceRecord,
       Claim, ReleasedInv
<1>8. WriterInv'
    BY DEF WriterInv
<1>9. OwnerInv'
    BY ConnsAssumption DEF TypeOK, Index!IndexTypeOK, Index!UtteranceRecord,
       Claim, OwnerInv
<1>10. ReopenInv'
    BY DEF TypeOK, ReopenInv
<1>11. CountInv'
    BY DEF TypeOK, CountInv
<1> QED
  BY <1>1, <1>2, <1>3, <1>4, <1>5, <1>6, <1>7, <1>8, <1>9, <1>10, <1>11

(* register_new: the record names the WAV the connection is about to mint, *)
(* which no other record or handle can name.                               *)
LEMMA CreateKeeps ==
  ASSUME IInv, NEW c \in Conns, Create(c)
  PROVE  IInv'
<1> USE DEF IInv
<1> DEFINE u == tap[c].utt
<1>1. /\ u \in Utts /\ tap[c].ident \in Idents /\ Sess(c) \in Sessions
      /\ phase[c] = "create" /\ handle[c] = NoWav
      /\ UNCHANGED <<tap, marked, guarded, bytes, rows, frames, registryVars>>
  BY DEF Create, Within, TypeOK, Claim, HandleInv
<1>2. \A v \in Utts : Index!Has(v) => byId[v].wav # c
  BY <1>1 DEF RecordInv
<1>3. \A v \in Utts : Index!Has(v) /\ byId[v].open => byId[v].owner # c
  BY <1>1 DEF NoStrandedRecord
<1>4. /\ byId' \in [Utts -> Index!UtteranceRecord \cup {NoRecord}]
      /\ \A v \in Utts :
           byId'[v] # NoRecord
           => \/ byId'[v] = byId[v]
              \/ v = u /\ byId'[v].open /\ byId'[v].owner = c /\ byId'[v].wav = c
      /\ \A v \in Utts : Index!Has(v) /\ byId[v].open => byId'[v] = byId[v]
  BY <1>1, <1>3, RegisterNewResult DEF Create
<1>5. /\ phase' = [phase EXCEPT ![c] = "announce"]
      /\ handle' = [handle EXCEPT ![c] = c]
      /\ home' = [home EXCEPT ![c] = Sess(c)]
      /\ dirs' = dirs \cup {Sess(c)}
      /\ UNCHANGED loop
  BY DEF Create, Within
<1> HIDE DEF u
<1>6. TypeOK'
  BY <1>1, <1>4, <1>5 DEF TypeOK, RegistryTypeOK, Index!IndexTypeOK
<1>7. OneWriter'
  BY <1>1, <1>2, <1>3, <1>4, <1>5, <1>6, ConnsAssumption DEF TypeOK, Claim,
     u, HandleInv, OneWriter
<1>8. NoStrandedRecord'
  BY <1>1, <1>2, <1>3, <1>4, <1>5, <1>6 DEF TypeOK, Claim, u,
     NoStrandedRecord
<1>9. ByteCountExact'
  BY <1>1, <1>2, <1>3, <1>4, <1>5, <1>6, ConnsAssumption DEF TypeOK, Claim,
     u, ByteCountExact, CountInv
<1>10. HandleInv'
  BY <1>1, <1>2, <1>3, <1>4, <1>5, <1>6 DEF TypeOK, HandleInv
<1>11. RecordInv'
  BY <1>1, <1>2, <1>3, <1>4, <1>5, <1>6 DEF TypeOK, Claim, u, RecordInv
<1>12. ReleasedInv'
  BY <1>1, <1>2, <1>3, <1>4, <1>5, <1>6 DEF ReleasedInv
<1>13. WriterInv'
  BY <1>1, <1>2, <1>3, <1>4, <1>5, <1>6, ConnsAssumption DEF TypeOK, Claim,
     u, HandleInv, WriterInv
<1>14. OwnerInv'
  BY <1>1, <1>2, <1>3, <1>4, <1>5, <1>6 DEF TypeOK, OwnerInv
<1>15. ReopenInv'
  BY <1>1, <1>2, <1>3, <1>4, <1>5, <1>6 DEF TypeOK, Claim, ReopenInv
<1>16. CountInv'
  BY <1>1, <1>2, <1>3, <1>4, <1>5, <1>6 DEF CountInv
<1> QED
  BY <1>6, <1>7, <1>8, <1>9, <1>10, <1>11, <1>12, <1>13, <1>14, <1>15, <1>16

(* The new WAV cannot be made, with or without its record.                 *)
LEMMA CreateFailsKeeps ==
  ASSUME IInv, NEW c \in Conns, CreateFails(c)
  PROVE  IInv'
<1> USE DEF IInv
<1> DEFINE u == tap[c].utt
<1>1. /\ u \in Utts /\ tap[c].ident \in Idents /\ Sess(c) \in Sessions
      /\ phase[c] = "create" /\ handle[c] = NoWav
      /\ UNCHANGED <<tap, marked, guarded, bytes, rows, frames, registryVars>>
  BY DEF CreateFails, Within, TypeOK, Claim, HandleInv
<1>2. \A v \in Utts : Index!Has(v) => byId[v].wav # c
  BY <1>1 DEF RecordInv
<1>3. \A v \in Utts : Index!Has(v) /\ byId[v].open => byId[v].owner # c
  BY <1>1 DEF NoStrandedRecord
<1>4. /\ byId' \in [Utts -> Index!UtteranceRecord \cup {NoRecord}]
      /\ \A v \in Utts :
           byId'[v] # NoRecord
           => \/ byId'[v] = byId[v]
              \/ v = u /\ byId'[v].open /\ byId'[v].owner = c /\ byId'[v].wav = c
      /\ \A v \in Utts : Index!Has(v) /\ byId[v].open => byId'[v] = byId[v]
  BY <1>1, <1>3, RegisterNewResult DEF CreateFails, TypeOK, Index!IndexTypeOK
<1>5. /\ phase' = [phase EXCEPT ![c] = "unwind"]
      /\ dirs' \in {dirs, dirs \cup {Sess(c)}}
      /\ UNCHANGED <<loop, handle, home>>
  BY DEF CreateFails, Within
<1> HIDE DEF u
<1>6. TypeOK'
  BY <1>1, <1>4, <1>5 DEF TypeOK, RegistryTypeOK, Index!IndexTypeOK
<1>7. OneWriter'
  BY <1>1, <1>2, <1>3, <1>4, <1>5, <1>6 DEF OneWriter
<1>8. NoStrandedRecord'
  BY <1>1, <1>2, <1>3, <1>4, <1>5, <1>6 DEF TypeOK, Claim, u,
     NoStrandedRecord
<1>9. ByteCountExact'
  BY <1>1, <1>2, <1>3, <1>4, <1>5, <1>6 DEF ByteCountExact
<1>10. HandleInv'
  BY <1>1, <1>2, <1>3, <1>4, <1>5, <1>6 DEF HandleInv
<1>11. RecordInv'
  BY <1>1, <1>2, <1>3, <1>4, <1>5, <1>6 DEF TypeOK, Claim, u, RecordInv
<1>12. ReleasedInv'
  BY <1>1, <1>2, <1>3, <1>4, <1>5, <1>6 DEF ReleasedInv
<1>13. WriterInv'
  BY <1>1, <1>2, <1>3, <1>4, <1>5, <1>6, ConnsAssumption DEF TypeOK, Claim,
     u, HandleInv, WriterInv
<1>14. OwnerInv'
  BY <1>1, <1>2, <1>3, <1>4, <1>5, <1>6 DEF TypeOK, OwnerInv
<1>15. ReopenInv'
  BY <1>1, <1>2, <1>3, <1>4, <1>5, <1>6 DEF TypeOK, Claim, ReopenInv
<1>16. CountInv'
  BY <1>1, <1>2, <1>3, <1>4, <1>5, <1>6 DEF CountInv
<1> QED
  BY <1>6, <1>7, <1>8, <1>9, <1>10, <1>11, <1>12, <1>13, <1>14, <1>15, <1>16

(* The connection is open: its WAV and record are what they were.          *)
LEMMA AnnounceKeeps ==
  ASSUME IInv, NEW c \in Conns, Announce(c)
  PROVE  IInv'
<1> USE DEF IInv, Announce, Yields
<1>1. TypeOK'
    BY ConnsAssumption DEF TypeOK, Index!IndexTypeOK, Index!UtteranceRecord,
       Claim, RegistryTypeOK
<1>2. OneWriter'
    BY DEF OneWriter
<1>3. NoStrandedRecord'
    BY DEF NoStrandedRecord
<1>4. ByteCountExact'
    BY DEF ByteCountExact
<1>5. HandleInv'
    BY DEF HandleInv
<1>6. RecordInv'
    BY DEF RecordInv
<1>7. ReleasedInv'
    BY DEF ReleasedInv
<1>8. WriterInv'
    BY DEF WriterInv
<1>9. OwnerInv'
    BY DEF OwnerInv
<1>10. ReopenInv'
    BY DEF ReopenInv
<1>11. CountInv'
    BY DEF CountInv
<1> QED
  BY <1>1, <1>2, <1>3, <1>4, <1>5, <1>6, <1>7, <1>8, <1>9, <1>10, <1>11

(* The opening fails late: a WAV may be open and is kept for close.        *)
LEMMA AnnounceFailsKeeps ==
  ASSUME IInv, NEW c \in Conns, AnnounceFails(c)
  PROVE  IInv'
<1> USE DEF IInv, AnnounceFails, Within
<1>1. TypeOK'
    BY ConnsAssumption DEF TypeOK, Index!IndexTypeOK, Index!UtteranceRecord,
       Claim, RegistryTypeOK
<1>2. OneWriter'
    BY DEF OneWriter
<1>3. NoStrandedRecord'
    BY DEF NoStrandedRecord
<1>4. ByteCountExact'
    BY DEF ByteCountExact
<1>5. HandleInv'
    BY DEF HandleInv
<1>6. RecordInv'
    BY DEF RecordInv
<1>7. ReleasedInv'
    BY DEF ReleasedInv
<1>8. WriterInv'
    BY DEF WriterInv
<1>9. OwnerInv'
    BY DEF OwnerInv
<1>10. ReopenInv'
    BY DEF ReopenInv
<1>11. CountInv'
    BY DEF CountInv
<1> QED
  BY <1>1, <1>2, <1>3, <1>4, <1>5, <1>6, <1>7, <1>8, <1>9, <1>10, <1>11

(* A frame: the connection's count and its WAV grow together.              *)
LEMMA WriteFrameKeeps ==
  ASSUME IInv, NEW c \in Conns, WriteFrame(c)
  PROVE  IInv'
<1> USE DEF IInv, WriteFrame
<1>1. TypeOK'
    BY ConnsAssumption DEF TypeOK, Index!IndexTypeOK, Index!UtteranceRecord,
       Claim, RegistryTypeOK
<1>2. OneWriter'
    BY DEF OneWriter
<1>3. NoStrandedRecord'
    BY DEF NoStrandedRecord
<1>4. ByteCountExact'
    BY ConnsAssumption DEF TypeOK, Index!IndexTypeOK, Index!UtteranceRecord,
       Claim, OneWriter, NoStrandedRecord, ByteCountExact, HandleInv,
       RecordInv, ReleasedInv, WriterInv, OwnerInv, ReopenInv, CountInv
<1>5. HandleInv'
    BY DEF HandleInv
<1>6. RecordInv'
    BY DEF RecordInv
<1>7. ReleasedInv'
    BY DEF ReleasedInv
<1>8. WriterInv'
    BY DEF WriterInv
<1>9. OwnerInv'
    BY DEF OwnerInv
<1>10. ReopenInv'
    BY ConnsAssumption DEF TypeOK, Index!IndexTypeOK, Claim, WriterInv,
       ReopenInv
<1>11. CountInv'
    BY ConnsAssumption DEF TypeOK, Index!IndexTypeOK, Claim, HandleInv,
       CountInv
<1> QED
  BY <1>1, <1>2, <1>3, <1>4, <1>5, <1>6, <1>7, <1>8, <1>9, <1>10, <1>11

(* close gives back marks and guard, before it touches the WAV.            *)
LEMMA DetachKeeps ==
  ASSUME IInv, NEW c \in Conns, Detach(c)
  PROVE  IInv'
<1> USE DEF IInv, Detach, Takes, Within
<1>1. TypeOK'
  <2>1. Sess(c) \in Sessions
    BY DEF TypeOK, Claim
  <2>2. marks' \in [Sessions -> Nat]
    BY <2>1 DEF TypeOK, RegistryTypeOK, ReleaseSessionMark
  <2>3. active' \in [Sessions -> Nat \cup {Destroying}]
    BY <2>1 DEF TypeOK, RegistryTypeOK, UnregisterTap, Destroying
  <2>4. phase' \in [Conns -> Phases] /\ loop' \in Conns \cup {Nobody}
    BY DEF TypeOK
  <2> QED
    BY <2>1, <2>2, <2>3, <2>4 DEF TypeOK, RegistryTypeOK, Index!IndexTypeOK
<1>2. OneWriter'
    BY DEF OneWriter
<1>3. NoStrandedRecord'
    BY ConnsAssumption DEF TypeOK, Index!IndexTypeOK, Index!UtteranceRecord,
       Claim, NoStrandedRecord
<1>4. ByteCountExact'
    BY DEF ByteCountExact
<1>5. HandleInv'
    BY DEF TypeOK, HandleInv
<1>6. RecordInv'
    BY DEF TypeOK, RecordInv
<1>7. ReleasedInv'
    BY ConnsAssumption DEF TypeOK, Index!IndexTypeOK, Index!UtteranceRecord,
       Claim, ReleasedInv
<1>8. WriterInv'
    BY DEF WriterInv
<1>9. OwnerInv'
    BY ConnsAssumption DEF TypeOK, Index!IndexTypeOK, Index!UtteranceRecord,
       Claim, OwnerInv
<1>10. ReopenInv'
    BY DEF TypeOK, ReopenInv
<1>11. CountInv'
    BY DEF TypeOK, CountInv
<1> QED
  BY <1>1, <1>2, <1>3, <1>4, <1>5, <1>6, <1>7, <1>8, <1>9, <1>10, <1>11

(* release: the count it stores is the WAV's, because the connection that  *)
(* still owns an open record and counted something holds the record's WAV. *)
LEMMA FinalizeKeeps ==
  ASSUME IInv, NEW c \in Conns, Finalize(c)
  PROVE  IInv'
<1> USE DEF IInv
<1> DEFINE u == tap[c].utt
           kept == bytes[c] > 0
<1>1. /\ u \in Utts /\ bytes[c] \in Nat /\ kept \in BOOLEAN
      /\ phase[c] = "finalize"
      /\ phase' = [phase EXCEPT ![c] = "drain"]
      /\ handle' = [handle EXCEPT ![c] = NoWav]
      /\ UNCHANGED <<tap, marked, guarded, bytes, rows, frames, dirs,
                     registryVars>>
  BY DEF Finalize, Yields, TypeOK, Claim
<1>2. loop' = Nobody /\ home' \in [Wavs -> Sessions \cup {NoSession}]
  BY DEF Finalize, Yields, TypeOK
<1>3. byId' = Index!Release(u, c, bytes[c], kept)
  BY DEF Finalize
<1> HIDE DEF u, kept
<1>4. /\ byId' \in [Utts -> Index!UtteranceRecord \cup {NoRecord}]
      /\ \A v \in Utts :
           byId'[v] # NoRecord
           => /\ Index!Has(v)
              /\ \/ byId'[v] = byId[v] /\ (v # u \/ byId[v].owner # c)
                 \/ /\ v = u /\ byId[v].owner = c /\ kept
                    /\ ~byId'[v].open /\ byId'[v].owner = c
                    /\ byId'[v].wav = byId[v].wav /\ byId'[v].bytes = bytes[c]
      /\ \A v \in Utts : v # u \/ byId[v].owner # c => byId'[v] = byId[v]
  BY <1>1, <1>3, ReleaseResult
<1>5. Index!Has(u) /\ byId[u].owner = c /\ kept
      => byId[u].open /\ handle[c] = byId[u].wav /\ bytes[c] = frames[byId[u].wav]
  <2> SUFFICES ASSUME Index!Has(u), byId[u].owner = c, kept
               PROVE  /\ byId[u].open
                      /\ handle[c] = byId[u].wav
                      /\ bytes[c] = frames[byId[u].wav]
    OBVIOUS
  <2>1. byId[u].open
    BY <1>1 DEF ReleasedInv
  <2>2. handle[c] # NoWav
    BY <1>1 DEF CountInv, kept
  <2>3. handle[c] = byId[u].wav
    BY <1>1, <2>1, <2>2 DEF OwnerInv
  <2> QED  BY <2>1, <2>2, <2>3 DEF ByteCountExact
<1>6. TypeOK'
  BY <1>1, <1>2, <1>4 DEF TypeOK, RegistryTypeOK, Index!IndexTypeOK
<1>7. \A v \in Utts : byId'[v] # NoRecord /\ byId'[v].open
        => Index!Has(v) /\ byId'[v] = byId[v] /\ byId[v].owner # c
  BY <1>1, <1>4 DEF NoStrandedRecord, u
<1>8. OneWriter'
  BY <1>1, <1>4, <1>5, <1>6, <1>7 DEF OneWriter
<1>9. NoStrandedRecord'
  BY <1>1, <1>4, <1>5, <1>6, <1>7 DEF NoStrandedRecord
<1>10. ByteCountExact'
  BY <1>1, <1>4, <1>5, <1>6, <1>7, ConnsAssumption DEF TypeOK, Claim, u,
     kept, ByteCountExact
<1>11. HandleInv'
  BY <1>1, <1>4, <1>5, <1>6, <1>7 DEF TypeOK, HandleInv
<1>12. RecordInv'
  BY <1>1, <1>4, <1>5, <1>6, <1>7 DEF RecordInv
<1>13. ReleasedInv'
  BY <1>1, <1>4, <1>5, <1>6, <1>7 DEF TypeOK, ReleasedInv
<1>14. WriterInv'
  BY <1>1, <1>4, <1>5, <1>6, <1>7, ConnsAssumption DEF TypeOK, Claim, u,
     kept, RecordInv, WriterInv
<1>15. OwnerInv'
  BY <1>1, <1>4, <1>5, <1>6, <1>7 DEF OwnerInv
<1>16. ReopenInv'
  BY <1>1, <1>4, <1>5, <1>6, <1>7 DEF TypeOK, Claim, ReopenInv
<1>17. CountInv'
  BY <1>1, <1>4, <1>5, <1>6, <1>7 DEF TypeOK, CountInv
<1> QED
  BY <1>6, <1>7, <1>8, <1>9, <1>10, <1>11, <1>12, <1>13, <1>14, <1>15, <1>16, <1>17

(* close ends, long after the WAV was released.                            *)
LEMMA DrainedKeeps ==
  ASSUME IInv, NEW c \in Conns, Drained(c)
  PROVE  IInv'
<1> USE DEF IInv, Drained
<1>1. TypeOK'
    BY ConnsAssumption DEF TypeOK, Index!IndexTypeOK, Index!UtteranceRecord,
       Claim, RegistryTypeOK
<1>2. OneWriter'
    BY DEF OneWriter
<1>3. NoStrandedRecord'
    BY DEF NoStrandedRecord
<1>4. ByteCountExact'
    BY DEF ByteCountExact
<1>5. HandleInv'
    BY DEF HandleInv
<1>6. RecordInv'
    BY DEF RecordInv
<1>7. ReleasedInv'
    BY DEF ReleasedInv
<1>8. WriterInv'
    BY DEF WriterInv
<1>9. OwnerInv'
    BY DEF OwnerInv
<1>10. ReopenInv'
    BY DEF ReopenInv
<1>11. CountInv'
    BY DEF CountInv
<1> QED
  BY <1>1, <1>2, <1>3, <1>4, <1>5, <1>6, <1>7, <1>8, <1>9, <1>10, <1>11

(* An expired record goes, and it was closed.                              *)
LEMMA WindowPassesKeeps ==
  ASSUME IInv, NEW u \in Utts, WindowPasses(u)
  PROVE  IInv'
<1> USE DEF IInv, WindowPasses, Index!WindowPasses
<1>1. TypeOK'
  <2>1. [byId[u] EXCEPT !.aged = TRUE] \in Index!UtteranceRecord
    BY DEF TypeOK, Index!IndexTypeOK, Index!UtteranceRecord
  <2> QED  BY <2>1 DEF TypeOK, RegistryTypeOK, Index!IndexTypeOK
<1>2. OneWriter'
    BY DEF OneWriter
<1>3. NoStrandedRecord'
    BY DEF NoStrandedRecord
<1>4. ByteCountExact'
    BY DEF ByteCountExact
<1>5. HandleInv'
    BY DEF HandleInv
<1>6. RecordInv'
    BY DEF RecordInv
<1>7. ReleasedInv'
    BY DEF ReleasedInv
<1>8. WriterInv'
    BY DEF WriterInv
<1>9. OwnerInv'
    BY DEF OwnerInv
<1>10. ReopenInv'
    BY DEF ReopenInv
<1>11. CountInv'
    BY DEF CountInv
<1> QED
  BY <1>1, <1>2, <1>3, <1>4, <1>5, <1>6, <1>7, <1>8, <1>9, <1>10, <1>11

-----------------------------------------------------------------------------
(* Every step, of a connection or of the clock, keeps the invariant.       *)
THEOREM StepKeeps == IInv /\ [TapNext]_fanVars => IInv'
<1> SUFFICES ASSUME IInv, [TapNext]_fanVars
             PROVE  IInv'
  OBVIOUS
<1>1. ASSUME NEW c \in Conns, NEW s \in Sessions, Accept(c, s)
      PROVE  IInv'
  BY <1>1, AcceptKeeps
<1>2. ASSUME NEW c \in Conns, TapStep(c)
      PROVE  IInv'
  BY <1>2, StartOpenKeeps, ReopenKeeps, ReopenFailsKeeps, JoinKeeps,
     CreateKeeps, CreateFailsKeeps, AnnounceKeeps, AnnounceFailsKeeps,
     WriteFrameKeeps, DetachKeeps, FinalizeKeeps, DrainedKeeps DEF TapStep
<1>3. ASSUME NEW u \in Utts, WindowPasses(u)
      PROVE  IInv'
  BY <1>3, WindowPassesKeeps
<1>4. CASE UNCHANGED fanVars
  BY <1>4 DEF fanVars, tapVars, IInv, TypeOK, RegistryTypeOK,
     Index!IndexTypeOK, OneWriter, NoStrandedRecord, ByteCountExact,
     HandleInv, RecordInv, ReleasedInv, WriterInv, OwnerInv, ReopenInv,
     CountInv
<1> QED  BY <1>1, <1>2, <1>3, <1>4 DEF TapNext

(* The inductive invariant is an invariant of the tap fan-out.             *)
THEOREM Invariance == TapSpec => []IInv
BY InitEstablishes, StepKeeps, PTL DEF TapSpec

(* The variables stay within their types: no count, no handle, no record   *)
(* and no phase leaves the range the code gives it.                        *)
THEOREM Typing == TapSpec => []TypeOK
<1>1. IInv => TypeOK
  BY DEF IInv
<1> QED  BY Invariance, <1>1, PTL

(* Whatever the number of connections, and however they share utterance    *)
(* ids, each WAV file has at most one writer (try_resume hands over closed *)
(* records only, register_new indexes a fresh WAV only).                   *)
THEOREM SingleWriter == TapSpec => []OneWriter
<1>1. IInv => OneWriter
  BY DEF IInv
<1> QED  BY Invariance, <1>1, PTL

(* No failure in open, and no close, leaves a record open without a live   *)
(* connection that will release it.                                        *)
THEOREM RecordsComeFree == TapSpec => []NoStrandedRecord
<1>1. IInv => NoStrandedRecord
  BY DEF IInv
<1> QED  BY Invariance, <1>1, PTL

(* Byte counts are exact across any chain of reconnects: what _close       *)
(* stores and try_resume hands on is what the WAV file holds.              *)
THEOREM ExactCounts == TapSpec => []ByteCountExact
<1>1. IInv => ByteCountExact
  BY DEF IInv
<1> QED  BY Invariance, <1>1, PTL

-----------------------------------------------------------------------------
(* An open record changes in one step only, the release in its owner's     *)
(* _close.                                                                 *)
OwnersStep ==
  \A u \in Utts :
    Index!Has(u) /\ byId[u].open /\ byId'[u] # byId[u]
    => /\ phase[byId[u].owner] = "finalize"
       /\ phase'[byId[u].owner] = "drain"

(* Under the invariant no other step of TapNext changes an open record.    *)
LEMMA StepIsOwners == IInv /\ [TapNext]_fanVars => [OwnersStep]_fanVars
<1> SUFFICES ASSUME IInv, TapNext,
                    NEW u \in Utts, Index!Has(u), byId[u].open, byId'[u] # byId[u]
             PROVE  /\ phase[byId[u].owner] = "finalize"
                    /\ phase'[byId[u].owner] = "drain"
  BY DEF OwnersStep
<1>1. /\ byId[u].owner \in Conns
      /\ phase[byId[u].owner] \in {"reopen", "announce", "open", "unwind",
                                   "finalize"}
  BY DEF IInv, TypeOK, Index!IndexTypeOK, Index!UtteranceRecord,
         NoStrandedRecord
<1>2. ASSUME NEW c \in Conns, NEW s \in Sessions, Accept(c, s)
      PROVE  FALSE
  BY <1>2 DEF Accept
<1>3. ASSUME NEW c \in Conns, StartOpen(c)
      PROVE  FALSE
  <2>1. /\ tap[c].utt \in Utts /\ tap[c].ident \in Idents
        /\ tap[c].sess \in Sessions
    BY DEF IInv, TypeOK, Claim
  <2>2. byId' = Index!TryResume(tap[c].utt, tap[c].ident, tap[c].sess, c, home)
    BY <1>3 DEF StartOpen
  <2> QED  BY <2>1, <2>2, TryResumeResult DEF IInv
<1>4. ASSUME NEW c \in Conns, Create(c) \/ CreateFails(c)
      PROVE  FALSE
  <2>1. /\ tap[c].utt \in Utts /\ tap[c].ident \in Idents
        /\ tap[c].sess \in Sessions
    BY DEF IInv, TypeOK, Claim
  <2>2. byId' = Index!RegisterNew(tap[c].utt, c, tap[c].ident, tap[c].sess, c)
    BY <1>4 DEF Create, CreateFails
  <2>3. byId[u].owner # c
    BY <1>1, <1>4 DEF Create, CreateFails, Within
  <2> QED  BY <2>1, <2>2, <2>3, RegisterNewResult DEF IInv
<1>5. ASSUME NEW c \in Conns, Finalize(c)
      PROVE  /\ phase[byId[u].owner] = "finalize"
             /\ phase'[byId[u].owner] = "drain"
  <2> DEFINE kept == bytes[c] > 0
  <2>1. tap[c].utt \in Utts /\ bytes[c] \in Nat /\ kept \in BOOLEAN
    BY DEF IInv, TypeOK, Claim
  <2>2. byId' = Index!Release(tap[c].utt, c, bytes[c], kept)
    BY <1>5 DEF Finalize
  <2> HIDE DEF kept
  <2>3. byId[u].owner = c
    BY <2>1, <2>2, ReleaseResult DEF IInv
  <2> QED  BY <1>5, <2>3 DEF Finalize, Yields, IInv, TypeOK
<1>6. ASSUME NEW c \in Conns,
             \/ Reopen(c) \/ ReopenFails(c) \/ Join(c) \/ Announce(c)
             \/ AnnounceFails(c) \/ WriteFrame(c) \/ Detach(c) \/ Drained(c)
      PROVE  FALSE
  BY <1>6 DEF Reopen, ReopenFails, Join, Announce, AnnounceFails, WriteFrame,
              Detach, Drained
<1>7. ASSUME NEW v \in Utts, WindowPasses(v)
      PROVE  FALSE
  BY <1>7 DEF WindowPasses, Index!WindowPasses, IInv, TypeOK,
              Index!IndexTypeOK
<1>8. ~UNCHANGED fanVars
  BY DEF fanVars, tapVars
<1> QED  BY <1>2, <1>3, <1>4, <1>5, <1>6, <1>7, <1>8 DEF TapNext, TapStep

(* No connection, alive or a zombie, touches a record another one holds    *)
(* open: release and register_new act on their own connection's only.      *)
THEOREM OwnersOnly == TapSpec => OpenRecordIsOwners
<1>1. TapSpec => [][OwnersStep]_fanVars
  BY Invariance, StepIsOwners, PTL DEF TapSpec
<1> QED  BY <1>1 DEF OpenRecordIsOwners, OwnersStep

(* However many connections share an utterance id, and however they fail:  *)
(* one writer to a WAV, and exact byte counts (WavsStayWhole).             *)
THEOREM WholeWavs == TapSpec => []WavsStayWhole
BY SingleWriter, ExactCounts, PTL DEF WavsStayWhole

-----------------------------------------------------------------------------
(* The two registries of tap_registry.py.  A count is never compared with  *)
(* a second copy in the code, so the invariant says which phases may still *)
(* owe: a connection that is not between its registration and its close is *)
(* in neither set.                                                         *)
Held == {"create", "announce", "open", "unwind"}

OwesInv == \A c \in marked \cup guarded : phase[c] \in Held

(* With taps alone nobody destroys: the guard is a plain count. *)
Counted(s) == active[s] = Cardinality(Holders(s))
GuardExact == \A s \in Sessions : Counted(s)

BInv ==
  /\ OwesInv
  /\ MarksBalanced
  /\ GuardExact

(* The connections that owe a release are finitely many.                   *)
LEMMA FiniteHolders ==
  ASSUME TypeOK, NEW s \in Sessions
  PROVE  /\ IsFiniteSet(Markers(s)) /\ Cardinality(Markers(s)) \in Nat
         /\ IsFiniteSet(Holders(s)) /\ Cardinality(Holders(s)) \in Nat
<1>1. Markers(s) \in SUBSET Conns /\ Holders(s) \in SUBSET Conns
  BY DEF TypeOK, Markers, Holders
<1> QED  BY <1>1, ConnsAssumption, FS_Subset, FS_CardinalityType

(* No connection, no mark, no guard.                                       *)
THEOREM InitBalanced == Init => BInv
<1> SUFFICES ASSUME Init
             PROVE  BInv
  OBVIOUS
<1>1. \A s \in Sessions : Markers(s) = {} /\ Holders(s) = {}
  BY DEF Init, Markers, Holders
<1>2. \A s \in Sessions : marks[s] = 0 /\ active[s] = 0
  BY DEF Init, RegistryInit
<1>3. OwesInv
  BY DEF Init, OwesInv
<1> QED  BY <1>1, <1>2, <1>3, FS_EmptySet DEF BInv, MarksBalanced, GuardExact, Counted

(* A step that leaves the registries and their holders alone keeps the     *)
(* counts.                                                                 *)
LEMMA Untouched ==
  ASSUME UNCHANGED <<marks, active, marked, guarded, tap>>
  PROVE  /\ MarksBalanced => MarksBalanced'
         /\ \A s \in Sessions : Holders(s)' = Holders(s) /\ (Counted(s) => Counted(s)')
<1>1. \A s \in Sessions : Markers(s)' = Markers(s) /\ Holders(s)' = Holders(s)
  BY DEF Markers, Holders
<1> QED  BY <1>1 DEF MarksBalanced, Counted

(* Taking a mark counts the one connection more.                           *)
LEMMA JoinMarks ==
  ASSUME TypeOK, OwesInv, MarksBalanced, NEW c \in Conns, Join(c)
  PROVE  OwesInv' /\ MarksBalanced'
<1> DEFINE t == tap[c].sess
<1>1. /\ t \in Sessions /\ c \notin marked /\ c \notin guarded
      /\ marked' = marked \cup {c} /\ tap' = tap
      /\ phase[c] = "join" /\ loop = c
  BY DEF Join, Within, TypeOK, Claim, OwesInv, Held
<1>2. OwesInv'
  BY <1>1 DEF Join, Within, OwesInv, Held, TypeOK
<1>3. MarksBalanced'
  <2>1. marks' = [marks EXCEPT ![t] = marks[t] + 1]
    BY DEF Join, MarkSessionInFlight
  <2>2. \A s \in Sessions : Markers(s)' = IF s = t THEN Markers(s) \cup {c}
                                                   ELSE Markers(s)
    BY <1>1 DEF Markers
  <2>3. c \notin Markers(t)
    BY <1>1 DEF Markers
  <2>4. Cardinality(Markers(t) \cup {c}) = Cardinality(Markers(t)) + 1
    BY <1>1, <2>3, FiniteHolders, FS_AddElement
  <2> QED
    BY <1>1, <2>1, <2>2, <2>4 DEF MarksBalanced, TypeOK, RegistryTypeOK
<1> QED  BY <1>2, <1>3

(* Taking the guard counts it too, and a claimed session is left alone.    *)
LEMMA JoinGuard ==
  ASSUME TypeOK, OwesInv, NEW c \in Conns, Join(c), NEW s \in Sessions
  PROVE  /\ Counted(s) => Counted(s)'
         /\ active[s] = Destroying
            => active'[s] = Destroying /\ Holders(s)' = Holders(s)
<1> DEFINE t == tap[c].sess
<1>1. t \in Sessions /\ c \notin guarded /\ tap' = tap
  BY DEF Join, Within, TypeOK, Claim, OwesInv, Held
<1>2. CASE guarded' = guarded /\ active' = active
  <2>1. Holders(s)' = Holders(s)
    BY <1>1, <1>2 DEF Holders
  <2> QED  BY <1>2, <2>1 DEF Counted
<1>3. CASE /\ guarded' = guarded \cup {c} /\ active[t] # Destroying
           /\ active' = [active EXCEPT ![t] = active[t] + 1]
  <2>1. Holders(s)' = IF s = t THEN Holders(s) \cup {c} ELSE Holders(s)
    BY <1>1, <1>3 DEF Holders
  <2>2. c \notin Holders(t)
    BY <1>1 DEF Holders
  <2>3. Cardinality(Holders(t) \cup {c}) = Cardinality(Holders(t)) + 1
    BY <1>1, <2>2, FiniteHolders, FS_AddElement
  <2> QED  BY <1>1, <1>3, <2>1, <2>3 DEF Counted, TypeOK, RegistryTypeOK
<1> QED  BY <1>2, <1>3 DEF Join, RegisterTap, DestructionInProgress

(* Giving the mark back counts one connection less, and only once.         *)
LEMMA DetachMarks ==
  ASSUME TypeOK, OwesInv, MarksBalanced, NEW c \in Conns, Detach(c)
  PROVE  OwesInv' /\ MarksBalanced'
<1> DEFINE t == tap[c].sess
<1>1. /\ t \in Sessions /\ tap' = tap
      /\ marked' = marked \ {c} /\ guarded' = guarded \ {c}
      /\ phase' = [phase EXCEPT ![c] = "finalize"]
  BY DEF Detach, Takes, Within, TypeOK, Claim
<1>2. OwesInv'
  BY <1>1 DEF OwesInv, Held, TypeOK
<1>3. MarksBalanced'
  <2>1. CASE c \notin marked
    <3>1. marks' = marks /\ \A s \in Sessions : Markers(s)' = Markers(s)
      BY <1>1, <2>1 DEF Detach, Markers
    <3> QED  BY <3>1 DEF MarksBalanced
  <2>2. CASE c \in marked
    <3>1. \A s \in Sessions : Markers(s)' = IF s = t THEN Markers(s) \ {c}
                                                     ELSE Markers(s)
      BY <1>1 DEF Markers
    <3>2. c \in Markers(t)
      BY <2>2 DEF Markers
    <3>3. Cardinality(Markers(t) \ {c}) = Cardinality(Markers(t)) - 1
      BY <1>1, <3>2, FiniteHolders, FS_RemoveElement
    <3>4. Cardinality(Markers(t) \ {c}) \in Nat
      BY <1>1, FiniteHolders, FS_RemoveElement, FS_CardinalityType
    <3>5. marks' = [marks EXCEPT ![t] = IF marks[t] - 1 > 0 THEN marks[t] - 1 ELSE 0]
      BY <2>2 DEF Detach, ReleaseSessionMark
    <3>6. marks'[t] = Cardinality(Markers(t) \ {c})
      BY <1>1, <3>3, <3>4, <3>5 DEF MarksBalanced, TypeOK, RegistryTypeOK
    <3>7. \A s \in Sessions : s # t => marks'[s] = marks[s]
      BY <1>1, <3>5 DEF TypeOK, RegistryTypeOK
    <3> QED  BY <3>1, <3>6, <3>7 DEF MarksBalanced
  <2> QED  BY <2>1, <2>2
<1> QED  BY <1>2, <1>3

(* Giving the guard back: a connection that holds nothing touches nothing. *)
LEMMA DetachGuard ==
  ASSUME TypeOK, NEW c \in Conns, Detach(c), NEW s \in Sessions
  PROVE  /\ Counted(s) => Counted(s)'
         /\ Holders(s) = {} => active'[s] = active[s] /\ Holders(s)' = {}
<1> DEFINE t == tap[c].sess
<1>1. t \in Sessions /\ tap' = tap /\ guarded' = guarded \ {c}
  BY DEF Detach, TypeOK, Claim
<1>2. CASE c \notin guarded
  <2>1. active' = active /\ Holders(s)' = Holders(s)
    BY <1>1, <1>2 DEF Detach, Holders
  <2> QED  BY <2>1 DEF Counted
<1>3. CASE c \in guarded
  <2>1. Holders(s)' = IF s = t THEN Holders(s) \ {c} ELSE Holders(s)
    BY <1>1 DEF Holders
  <2>2. c \in Holders(t)
    BY <1>3 DEF Holders
  <2>3. active' = [active EXCEPT ![t] = IF active[t] <= 1 THEN 0 ELSE active[t] - 1]
    BY <1>3 DEF Detach, UnregisterTap
  <2>4. s # t => active'[s] = active[s]
    BY <1>1, <2>3 DEF TypeOK, RegistryTypeOK
  <2>5. ASSUME s = t, Counted(s)
        PROVE  Counted(s)'
    <3>1. /\ Cardinality(Holders(t) \ {c}) = Cardinality(Holders(t)) - 1
          /\ Cardinality(Holders(t) \ {c}) \in Nat
      BY <1>1, <2>2, FiniteHolders, FS_RemoveElement, FS_CardinalityType
    <3>2. active[t] = Cardinality(Holders(t)) /\ active[t] \in Nat
      BY <1>1, <2>5, FiniteHolders DEF Counted
    <3>3. active'[t] = IF active[t] <= 1 THEN 0 ELSE active[t] - 1
      BY <1>1, <2>3 DEF TypeOK, RegistryTypeOK
    <3>4. active[t] - 1 \in Nat
      BY <3>1, <3>2
    <3>5. active'[t] = Cardinality(Holders(t) \ {c})
      BY <3>1, <3>2, <3>3, <3>4
    <3> QED  BY <2>1, <2>5, <3>5 DEF Counted
  <2> QED  BY <2>1, <2>2, <2>4, <2>5 DEF Counted
<1> QED  BY <1>2, <1>3

(* No other step of a tap touches a registry, and whoever owes a release   *)
(* stays between registration and close.                                   *)
LEMMA OthersTouchNothing ==
  ASSUME TypeOK, OwesInv, [TapNext]_fanVars,
         ~ \E c \in Conns : Join(c) \/ Detach(c)
  PROVE  OwesInv' /\ UNCHANGED <<marks, active, marked, guarded, tap>>
<1> USE DEF OwesInv, Held
<1>1. ASSUME NEW c \in Conns, NEW s \in Sessions, Accept(c, s)
      PROVE  OwesInv' /\ UNCHANGED <<marks, active, marked, guarded, tap>>
  BY <1>1 DEF Accept, TypeOK
<1>2. ASSUME NEW c \in Conns, StartOpen(c) \/ Reopen(c) \/ ReopenFails(c)
      PROVE  OwesInv' /\ UNCHANGED <<marks, active, marked, guarded, tap>>
  BY <1>2 DEF StartOpen, Reopen, ReopenFails, Takes, Within, TypeOK
<1>3. ASSUME NEW c \in Conns, Create(c) \/ CreateFails(c)
      PROVE  OwesInv' /\ UNCHANGED <<marks, active, marked, guarded, tap>>
  BY <1>3 DEF Create, CreateFails, Within, TypeOK
<1>4. ASSUME NEW c \in Conns, Announce(c) \/ AnnounceFails(c) \/ WriteFrame(c)
      PROVE  OwesInv' /\ UNCHANGED <<marks, active, marked, guarded, tap>>
  BY <1>4 DEF Announce, AnnounceFails, WriteFrame, Within, Yields, TypeOK
<1>5. ASSUME NEW c \in Conns, Finalize(c) \/ Drained(c)
      PROVE  OwesInv' /\ UNCHANGED <<marks, active, marked, guarded, tap>>
  BY <1>5 DEF Finalize, Drained, Yields, TypeOK
<1>6. ASSUME NEW c \in Conns, TapStep(c)
      PROVE  OwesInv' /\ UNCHANGED <<marks, active, marked, guarded, tap>>
  BY <1>2, <1>3, <1>4, <1>5, <1>6 DEF TapStep
<1>7. ASSUME NEW u \in Utts, WindowPasses(u)
      PROVE  OwesInv' /\ UNCHANGED <<marks, active, marked, guarded, tap>>
  BY <1>7 DEF WindowPasses
<1>8. CASE UNCHANGED fanVars
  BY <1>8 DEF fanVars, tapVars
<1> QED  BY <1>1, <1>6, <1>7, <1>8 DEF TapNext

(* Every step keeps the balance.                                           *)
THEOREM StepBalanced == TypeOK /\ BInv /\ [TapNext]_fanVars => BInv'
<1> SUFFICES ASSUME TypeOK, BInv, [TapNext]_fanVars
             PROVE  BInv'
  OBVIOUS
<1> USE DEF BInv, GuardExact
<1>1. CASE \E c \in Conns : Join(c)
  BY <1>1, JoinMarks, JoinGuard
<1>2. CASE \E c \in Conns : Detach(c)
  BY <1>2, DetachMarks, DetachGuard
<1>3. CASE ~ \E c \in Conns : Join(c) \/ Detach(c)
  BY <1>3, OthersTouchNothing, Untouched
<1> QED  BY <1>1, <1>2, <1>3

(* The balance is an invariant of the tap fan-out.                         *)
THEOREM Balance == TapSpec => []BInv
BY Typing, InitBalanced, StepBalanced, PTL DEF TapSpec

(* No leak and no double release: a session's marks are exactly the        *)
(* connections that took one and have not closed.                          *)
THEOREM MarksCountConnections == TapSpec => []MarksBalanced
<1>1. BInv => MarksBalanced
  BY DEF BInv
<1> QED  BY Balance, <1>1, PTL

(* The same of the destruction guard.                                      *)
THEOREM GuardCountsConnections == TapSpec => []GuardBalanced
<1>1. BInv => GuardBalanced
  BY DEF BInv, GuardExact, Counted, GuardBalanced
<1> QED  BY Balance, <1>1, PTL

(* Any number of taps, failing at any stage: the index, the marks and the  *)
(* guard carry nothing of a connection that is gone (Bookkeeping).         *)
THEOREM BooksBalance == TapSpec => []Bookkeeping
BY RecordsComeFree, MarksCountConnections, GuardCountsConnections, PTL DEF Bookkeeping

-----------------------------------------------------------------------------
(***************************************************************************)
(* The destructive routes.                                                 *)
(***************************************************************************)
WPhases == {"idle", "claim", "weigh", "check", "scan", "walk", "unclaim",
            "finish", "batch", "done"}

RoutesTypeOK ==
  /\ current \in Sessions
  /\ transcribed \subseteq Sessions
  /\ jobs \in [Sessions -> Workers \cup {FreeSlot}]
  /\ wphase \in [Workers -> WPhases]
  /\ ask \in [Workers -> [kind : Kinds \cup {"none"},
                          sess : Sessions \cup {NoSession},
                          wav  : Wavs \cup {NoWav}]]
  /\ todo \in [Workers -> SUBSET Wavs]

(* The phases a request goes through, by route.                            *)
Stages(kind) ==
  CASE kind = "none"    -> {"idle", "done"}
    [] kind = "session" -> {"claim", "scan", "walk", "unclaim", "finish"}
    [] kind = "audio"   -> {"claim", "scan", "walk", "unclaim", "finish"}
    [] kind = "wav"     -> {"scan", "walk", "finish"}
    [] kind = "batch"   -> {"batch"}
    [] kind = "reclaim" -> {"weigh", "check", "scan", "walk", "finish", "done"}

(* A request that took a session's slot holds it until it is answered.     *)
SlotInv ==
  \A w \in Workers :
    /\ wphase[w] \in Stages(Kind(w))
    /\ Kind(w) # "none" => Target(w) \in Sessions
    /\ Kind(w) \notin {"none", "reclaim"} => jobs[Target(w)] = w

(* The destructive walks inside their claim of session s. *)
Walkers(s) == {w \in Workers : Claimed(w, s)}

(* What the guard's integer means.                                         *)
GuardInv ==
  \A s \in Sessions :
    \/ Counted(s) /\ Walkers(s) = {}
    \/ active[s] = Destroying /\ Holders(s) = {} /\ Walkers(s) # {}

LInv ==
  /\ TypeOK
  /\ RoutesTypeOK
  /\ OwesInv
  /\ MarksBalanced
  /\ SlotInv
  /\ GuardInv

(* A guarded tap is a fresh one: it is marked, its WAV is its own, and no  *)
(* route moved the file elsewhere.                                         *)
FreshInv ==
  \A c \in Conns :
    /\ phase[c] \in Early => home[c] = NoSession
    /\ c \in guarded => c \in marked /\ home[c] \in {Sess(c), NoSession}
    /\ c \in guarded /\ phase[c] \in {"announce", "open"} => handle[c] = c

(* A WAV that a caller of the WAV route names was minted before the call,  *)
(* by a tap that is gone; the walk finds no other.                         *)
NamedInv ==
  \A w \in Workers :
    /\ wphase[w] = "idle" => todo[w] = {}
    /\ Kind(w) = "wav" => /\ todo[w] \subseteq {ask[w].wav}
                          /\ ask[w].wav \in Conns
                             => /\ ask[w].wav \notin guarded
                                /\ phase[ask[w].wav] \notin Early

RInv ==
  /\ IInv
  /\ LInv
  /\ FreshInv
  /\ NamedInv
  /\ GuardedTapKeepsItsWav

USE DEF Index!Has, Sess, OwnedBy, Phases, Early, Writing, Wavs, fileVars,
        registryVars, Kind, Target

-----------------------------------------------------------------------------
(* The invariant holds at the start.                                       *)
THEOREM InitRoutes == RoutesInit => RInv
<1> SUFFICES ASSUME RoutesInit
             PROVE  RInv
  OBVIOUS
<1>1. IInv
  BY InitEstablishes DEF RoutesInit
<1>2. OwesInv /\ MarksBalanced /\ \A s \in Sessions : Counted(s)
  BY InitBalanced DEF RoutesInit, BInv, GuardExact
<1>3. RoutesTypeOK
  BY DEF RoutesInit, RoutesTypeOK, Init, Nothing, WPhases
<1>4. SlotInv
  BY DEF RoutesInit, SlotInv, Nothing, Stages
<1>5. GuardInv
  BY <1>2 DEF GuardInv, Walkers, Claimed, RoutesInit, Nothing
<1>6. FreshInv /\ GuardedTapKeepsItsWav
  BY DEF FreshInv, GuardedTapKeepsItsWav, RoutesInit, Init
<1>7. NamedInv
  BY DEF NamedInv, RoutesInit, Nothing
<1> QED  BY <1>1, <1>2, <1>3, <1>4, <1>5, <1>6, <1>7 DEF RInv, LInv, IInv

-----------------------------------------------------------------------------
(* What the two kinds of step leave to each other.  A tap's step leaves the *)
(* routes' variables alone; a route's step touches of the taps' variables   *)
(* only the files, the folders and the guard's integer.                     *)
FanMove == [TapNext]_fanVars /\ UNCHANGED routeVars

RequestStep(w) ==
  \E s \in Sessions :
    \/ DeleteSession(w, s) \/ DeleteAudio(w, s)
    \/ \E f \in Wavs : DeleteWav(w, s, f)
    \/ StartReclaim(w, s) \/ StartBatch(w, s)

LEMMA MovesSplit ==
  ASSUME TypeOK, RoutesTypeOK, [Next]_vars
  PROVE  \/ FanMove
         \/ \E w \in Workers : RequestStep(w) \/ WorkerStep(w) \/ Finish(w)
         \/ LoopRoutes
<1>1. ASSUME NEW c \in Conns, Connect(c)
      PROVE  FanMove
  <2>1. dirs \cup {current} \subseteq Sessions
    BY DEF TypeOK, RoutesTypeOK
  <2> QED  BY <1>1, <2>1 DEF Connect, FanMove, TapNext
<1>2. ASSUME FanStep, UNCHANGED routeVars
      PROVE  FanMove
  BY <1>2 DEF FanStep, FanMove, TapNext
<1>3. CASE UNCHANGED vars
  BY <1>3 DEF vars, FanMove
<1> QED  BY <1>1, <1>2, <1>3 DEF Next, RequestStep

(* How every request begins: an idle worker, a session whose slot is free, *)
(* the slot taken unless it is a bulk reclaim.                             *)
Begins(w, s, f, kind, first) ==
  /\ jobs[s] = FreeSlot
  /\ wphase[w] = "idle"
  /\ wphase' = [wphase EXCEPT ![w] = first]
  /\ ask' = [ask EXCEPT ![w] = [kind |-> kind, sess |-> s, wav |-> f]]
  /\ jobs' = IF kind = "reclaim" THEN jobs ELSE [jobs EXCEPT ![s] = w]
  /\ kind = "wav" => f \in FilesOf(s) /\ ~SessionHasOpenTap(s)
  /\ UNCHANGED <<fanVars, current, transcribed, todo>>

Openings == {<<"session", "claim">>, <<"audio", "claim">>, <<"wav", "scan">>,
             <<"reclaim", "weigh">>, <<"batch", "batch">>}

LEMMA RequestShape ==
  ASSUME NEW w \in Workers, RequestStep(w)
  PROVE  \E s \in Sessions, f \in Wavs \cup {NoWav}, o \in Openings :
           o[1] \in Kinds /\ Begins(w, s, f, o[1], o[2])
<1> USE DEF Openings, Begins
<1>1. ASSUME NEW s \in Sessions, DeleteSession(w, s)
      PROVE  "session" \in Kinds /\ Begins(w, s, NoWav, "session", "claim")
  BY <1>1 DEF DeleteSession, Destroy, Preflight, Asks, Step
<1>2. ASSUME NEW s \in Sessions, DeleteAudio(w, s)
      PROVE  "audio" \in Kinds /\ Begins(w, s, NoWav, "audio", "claim")
  BY <1>2 DEF DeleteAudio, Destroy, Preflight, Asks, Step
<1>3. ASSUME NEW s \in Sessions, NEW f \in Wavs, DeleteWav(w, s, f)
      PROVE  "wav" \in Kinds /\ Begins(w, s, f, "wav", "scan")
  BY <1>3 DEF DeleteWav, Destroy, Preflight, Asks, Step
<1>4. ASSUME NEW s \in Sessions, StartReclaim(w, s)
      PROVE  "reclaim" \in Kinds /\ Begins(w, s, NoWav, "reclaim", "weigh")
  BY <1>4 DEF StartReclaim, Asks, Step
<1>5. ASSUME NEW s \in Sessions, StartBatch(w, s)
      PROVE  "batch" \in Kinds /\ Begins(w, s, NoWav, "batch", "batch")
  BY <1>5 DEF StartBatch, Asks, Step
<1> HIDE DEF Begins
<1> QED  BY <1>1, <1>2, <1>3, <1>4, <1>5 DEF RequestStep

-----------------------------------------------------------------------------
(* A step that moves no holder and no walker in or out leaves the guard's  *)
(* meaning alone; in the lock of SessionLock it is no step.                *)
Quiet ==
  /\ UNCHANGED <<marks, active, marked, guarded, tap>>
  /\ \A s \in Sessions : Walkers(s)' = Walkers(s)

LEMMA QuietKeeps ==
  ASSUME Quiet
  PROVE  /\ MarksBalanced => MarksBalanced'
         /\ GuardInv => GuardInv'
         /\ UNCHANGED Lock!lockVars
<1>1. \A s \in Sessions : Holders(s)' = Holders(s) /\ (Counted(s) => Counted(s)')
  BY Untouched DEF Quiet
<1>2. MarksBalanced => MarksBalanced'
  BY Untouched DEF Quiet
<1>3. GuardInv => GuardInv'
  BY <1>1 DEF GuardInv, Quiet
<1>4. UNCHANGED Lock!lockVars
  BY <1>1 DEF Lock!lockVars, Quiet, Walkers
<1> QED  BY <1>2, <1>3, <1>4

(* A request is accepted: no walk is inside its claim yet.                 *)
LEMMA RequestKeepsLock ==
  ASSUME LInv, NEW w \in Workers, RequestStep(w)
  PROVE  LInv' /\ Quiet
<1>1. PICK s \in Sessions, f \in Wavs \cup {NoWav}, o \in Openings :
           o[1] \in Kinds /\ Begins(w, s, f, o[1], o[2])
  BY RequestShape
<1> USE DEF LInv, Begins
<1>2. TypeOK' /\ OwesInv'
  BY <1>1 DEF fanVars, tapVars, TypeOK, RegistryTypeOK, Index!IndexTypeOK,
              OwesInv
<1>3. RoutesTypeOK'
  BY <1>1 DEF RoutesTypeOK, Openings, WPhases, fanVars
<1>4. SlotInv'
  <2>1. ask'[w] = [kind |-> o[1], sess |-> s, wav |-> f] /\ wphase'[w] = o[2]
    BY <1>1 DEF RoutesTypeOK
  <2>2. \A v \in Workers : v # w => ask'[v] = ask[v] /\ wphase'[v] = wphase[v]
    BY <1>1 DEF RoutesTypeOK
  <2>3. \A v \in Workers : v # w /\ Kind(v) \notin {"none", "reclaim"} => Target(v) # s
    BY <1>1, RoutesAssumption DEF SlotInv
  <2>4. o[2] \in Stages(o[1]) /\ o[1] # "none"
    BY DEF Openings, Stages
  <2>5. \A t \in Sessions : t # s => jobs'[t] = jobs[t]
    BY <1>1 DEF RoutesTypeOK
  <2>6. o[1] # "reclaim" => jobs'[s] = w
    BY <1>1 DEF RoutesTypeOK
  <2> QED  BY <2>1, <2>2, <2>3, <2>4, <2>5, <2>6 DEF SlotInv
<1>5. Quiet
  <2>1. \A v \in Workers, t \in Sessions : Claimed(v, t)' <=> Claimed(v, t)
    BY <1>1 DEF Claimed, RoutesTypeOK, Openings
  <2> QED  BY <1>1, <2>1 DEF Quiet, Walkers, fanVars, tapVars
<1> QED  BY <1>2, <1>3, <1>4, <1>5, QuietKeeps

(* The stage a worker is in tells the route it serves.                     *)
LEMMA StageTells ==
  ASSUME RoutesTypeOK, SlotInv, NEW w \in Workers
  PROVE  /\ wphase[w] = "idle" => Kind(w) = "none"
         /\ wphase[w] \in {"weigh", "check"} => Kind(w) = "reclaim"
         /\ wphase[w] \in {"claim", "unclaim"} => Kind(w) \in {"session", "audio"}
         /\ wphase[w] \in {"scan", "walk", "finish"}
            => Kind(w) \in {"session", "audio", "wav", "reclaim"}
         /\ wphase[w] = "batch" => Kind(w) = "batch"
         /\ wphase[w] \notin {"idle", "done"} => Target(w) \in Sessions
<1>1. Kind(w) \in {"session", "audio", "wav", "reclaim", "batch", "none"}
  BY RoutesAssumption DEF RoutesTypeOK
<1>2. wphase[w] \in Stages(Kind(w))
  BY DEF SlotInv
<1>3. Kind(w) # "none" => Target(w) \in Sessions
  BY DEF SlotInv
<1> QED  BY <1>1, <1>2, <1>3 DEF Stages

(* A worker that moves to a stage of its own route keeps its slot.         *)
LEMMA StageMoves ==
  ASSUME RoutesTypeOK, SlotInv, NEW w \in Workers, NEW p \in Stages(Kind(w)),
         wphase' = [wphase EXCEPT ![w] = p], UNCHANGED <<jobs, ask>>
  PROVE  SlotInv'
BY DEF RoutesTypeOK, SlotInv

(* The worker thread's steps that neither enter nor leave a claim.         *)
LEMMA WeighKeepsLock ==
  ASSUME LInv, NEW w \in Workers, Weigh(w) \/ BusyCheck(w)
  PROVE  LInv' /\ Quiet
<1> USE DEF LInv
<1>1. /\ wphase[w] \in {"weigh", "check"}
      /\ \E p \in {"check", "scan", "done"} : wphase' = [wphase EXCEPT ![w] = p]
      /\ UNCHANGED <<fanVars, current, transcribed, jobs, ask, todo>>
  BY DEF Weigh, BusyCheck, Step
<1>2. Kind(w) = "reclaim"
  BY <1>1, StageTells
<1>3. TypeOK' /\ OwesInv'
  BY <1>1 DEF fanVars, tapVars, TypeOK, RegistryTypeOK, Index!IndexTypeOK,
              OwesInv
<1>4. RoutesTypeOK'
  BY <1>1 DEF RoutesTypeOK, WPhases, fanVars
<1>5. SlotInv'
  BY <1>1, <1>2, StageMoves DEF Stages
<1>6. Quiet
  <2>1. \A v \in Workers, t \in Sessions : Claimed(v, t)' <=> Claimed(v, t)
    BY <1>1, <1>2 DEF Claimed, RoutesTypeOK
  <2> QED  BY <1>1, <2>1 DEF Quiet, Walkers, fanVars, tapVars
<1> QED  BY <1>3, <1>4, <1>5, <1>6, QuietKeeps

LEMMA ScanKeepsLock ==
  ASSUME LInv, NEW w \in Workers, Scan(w)
  PROVE  LInv' /\ Quiet
<1> USE DEF LInv
<1>1. /\ wphase[w] = "scan" /\ wphase' = [wphase EXCEPT ![w] = "walk"]
      /\ UNCHANGED <<fanVars, current, transcribed, jobs, ask>>
  BY DEF Scan, Step
<1>2. Kind(w) \in {"session", "audio", "wav", "reclaim"}
  BY <1>1, StageTells
<1>3. TypeOK' /\ OwesInv'
  BY <1>1 DEF fanVars, tapVars, TypeOK, RegistryTypeOK, Index!IndexTypeOK,
              OwesInv
<1>4. RoutesTypeOK'
  <2>1. FilesOf(Target(w)) \in SUBSET Wavs
    BY DEF FilesOf
  <2>2. todo' \in [Workers -> SUBSET Wavs]
    BY <2>1 DEF Scan, RoutesTypeOK, Wavs
  <2> QED  BY <1>1, <2>2 DEF RoutesTypeOK, WPhases, fanVars
<1>5. SlotInv'
  BY <1>1, <1>2, StageMoves DEF Stages
<1>6. Quiet
  <2>1. \A v \in Workers, t \in Sessions : Claimed(v, t)' <=> Claimed(v, t)
    BY <1>1, <1>2 DEF Claimed, RoutesTypeOK
  <2> QED  BY <1>1, <2>1 DEF Quiet, Walkers, fanVars, tapVars
<1> QED  BY <1>3, <1>4, <1>5, <1>6, QuietKeeps

LEMMA UnlinkKeepsLock ==
  ASSUME LInv, NEW w \in Workers, Unlink(w)
  PROVE  LInv' /\ Quiet
<1> USE DEF LInv
<1>1. UNCHANGED <<tapVars, frames, dirs, registryVars, current, transcribed,
                  jobs, wphase, ask>>
  BY DEF Unlink
<1>2. TypeOK' /\ OwesInv'
  BY <1>1 DEF Unlink, tapVars, TypeOK, RegistryTypeOK, Index!IndexTypeOK,
              OwesInv
<1>3. RoutesTypeOK'
  BY <1>1 DEF Unlink, RoutesTypeOK
<1>4. SlotInv'
  BY <1>1 DEF SlotInv
<1>5. Quiet
  BY <1>1 DEF Quiet, Walkers, Claimed, tapVars
<1> QED  BY <1>2, <1>3, <1>4, <1>5, QuietKeeps

LEMMA WalkEndsKeepsLock ==
  ASSUME LInv, NEW w \in Workers, WalkEnds(w)
  PROVE  LInv' /\ Quiet
<1> USE DEF LInv
<1> DEFINE p == IF Kind(w) \in {"session", "audio"} THEN "unclaim" ELSE "finish"
<1>1. /\ wphase[w] = "walk" /\ wphase' = [wphase EXCEPT ![w] = p]
      /\ dirs' \subseteq dirs /\ transcribed' \subseteq transcribed
      /\ UNCHANGED <<tapVars, home, frames, registryVars, current, jobs, ask,
                     todo>>
  BY DEF WalkEnds, Step
<1>2. Kind(w) \in {"session", "audio", "wav", "reclaim"}
  BY <1>1, StageTells
<1>3. TypeOK' /\ OwesInv'
  BY <1>1 DEF tapVars, TypeOK, RegistryTypeOK, Index!IndexTypeOK, OwesInv
<1>4. RoutesTypeOK'
  BY <1>1 DEF RoutesTypeOK, WPhases
<1>5. SlotInv'
  BY <1>1, <1>2, StageMoves DEF Stages
<1>6. Quiet
  <2>1. \A v \in Workers, t \in Sessions : Claimed(v, t)' <=> Claimed(v, t)
    BY <1>1, <1>2 DEF Claimed, RoutesTypeOK
  <2> QED  BY <1>1, <2>1 DEF Quiet, Walkers, tapVars
<1> QED  BY <1>3, <1>4, <1>5, <1>6, QuietKeeps

(* The answer frees the slot of the route that took it.                    *)
LEMMA FinishKeepsLock ==
  ASSUME LInv, NEW w \in Workers, Finish(w)
  PROVE  LInv' /\ Quiet
<1> USE DEF LInv
<1>1. /\ wphase[w] \in {"finish", "batch"}
      /\ wphase' = [wphase EXCEPT ![w] = "done"]
      /\ UNCHANGED <<fanVars, current, todo>>
  BY DEF Finish, Step
<1>2. Kind(w) # "none" /\ Target(w) \in Sessions
  BY <1>1, StageTells
<1>3. TypeOK' /\ OwesInv'
  BY <1>1 DEF fanVars, tapVars, TypeOK, RegistryTypeOK, Index!IndexTypeOK,
              OwesInv
<1>4. RoutesTypeOK'
  <2>1. transcribed' \subseteq Sessions
    BY <1>2 DEF Finish, RoutesTypeOK
  <2>2. /\ jobs' \in [Sessions -> Workers \cup {FreeSlot}]
        /\ ask' \in [Workers -> [kind : Kinds \cup {"none"},
                                 sess : Sessions \cup {NoSession},
                                 wav  : Wavs \cup {NoWav}]]
    BY DEF Finish, RoutesTypeOK, Nothing
  <2> QED  BY <1>1, <2>1, <2>2 DEF RoutesTypeOK, WPhases, fanVars
<1>5. SlotInv'
  <2>1. CASE Kind(w) = "reclaim"
    BY <1>1, <2>1, StageMoves DEF Finish, Stages
  <2>2. CASE Kind(w) # "reclaim"
    <3>1. /\ jobs' = [jobs EXCEPT ![Target(w)] = FreeSlot]
          /\ ask' = [ask EXCEPT ![w] = Nothing]
      BY <2>2 DEF Finish
    <3>2. ask'[w].kind = "none" /\ wphase'[w] = "done"
      BY <1>1, <3>1 DEF RoutesTypeOK, Nothing
    <3>3. \A v \in Workers : v # w => ask'[v] = ask[v] /\ wphase'[v] = wphase[v]
      BY <1>1, <3>1 DEF RoutesTypeOK
    <3>4. \A v \in Workers :
            v # w /\ Kind(v) \notin {"none", "reclaim"} => Target(v) # Target(w)
      BY <1>2, <2>2 DEF SlotInv
    <3>5. \A t \in Sessions : t # Target(w) => jobs'[t] = jobs[t]
      BY <3>1 DEF RoutesTypeOK
    <3>6. "done" \in Stages("none")
      BY DEF Stages
    <3> QED  BY <3>2, <3>3, <3>4, <3>5, <3>6 DEF SlotInv
  <2> QED  BY <2>1, <2>2
<1>6. Quiet
  <2>1. \A v \in Workers, t \in Sessions : Claimed(v, t)' <=> Claimed(v, t)
    BY <1>1 DEF Claimed, RoutesTypeOK, Finish, Nothing
  <2> QED  BY <1>1, <2>1 DEF Quiet, Walkers, fanVars, tapVars
<1> QED  BY <1>3, <1>4, <1>5, <1>6, QuietKeeps

(* Prune, rotate and absorb stay on the loop, outside the guard.           *)
LEMMA LoopRoutesKeepLock ==
  ASSUME LInv, LoopRoutes
  PROVE  LInv' /\ Quiet
<1> USE DEF LInv
<1>1. /\ UNCHANGED <<tapVars, frames, registryVars, jobs, wphase, ask, todo>>
      /\ current' \in Sessions /\ transcribed' \subseteq transcribed
      /\ dirs' \subseteq Sessions
      /\ home' \in [Wavs -> Sessions \cup {NoSession}]
  BY DEF LoopRoutes, Prune, NewSession, TapSession, Detached, TapNewSession,
         Absorb, fanVars, routeVars, TypeOK, RoutesTypeOK
<1>2. TypeOK' /\ OwesInv'
  BY <1>1 DEF tapVars, TypeOK, RegistryTypeOK, Index!IndexTypeOK, OwesInv
<1>3. RoutesTypeOK' /\ SlotInv'
  BY <1>1 DEF RoutesTypeOK, SlotInv
<1>4. Quiet
  BY <1>1 DEF Quiet, Walkers, Claimed, tapVars
<1> QED  BY <1>2, <1>3, <1>4, QuietKeeps

-----------------------------------------------------------------------------
(* The claim of a session the slot keeps to one request: at most one walk  *)
(* is inside it.                                                           *)
LEMMA OneWalker ==
  ASSUME LInv, NEW s \in Sessions, NEW w \in Workers, NEW v \in Workers,
         Target(v) = s, Kind(v) \in {"session", "audio"}, Claimed(w, s)
  PROVE  v = w
BY DEF LInv, SlotInv, Claimed

(* destruction_claim's enter: the taps are gone, or the route gives up.    *)
LEMMA ClaimKeepsLock ==
  ASSUME LInv, NEW w \in Workers, ClaimDestruct(w)
  PROVE  LInv' /\ (Quiet \/ Lock!LockNext)
<1> USE DEF LInv
<1>0. PICK s : s = Target(w)
  OBVIOUS
<1>1. /\ wphase[w] = "claim"
      /\ \E p \in {"scan", "finish"} : wphase' = [wphase EXCEPT ![w] = p]
      /\ UNCHANGED <<tapVars, fileVars, marks, current, transcribed, jobs, ask,
                     todo>>
  BY DEF ClaimDestruct, Step
<1>2. Kind(w) \in {"session", "audio"} /\ s \in Sessions /\ s = Target(w)
  BY <1>0, <1>1, StageTells
<1>3. active' = active \/ active' = [active EXCEPT ![s] = Destroying]
  BY <1>0 DEF ClaimDestruct, TryClaimDestruct
<1>4. TypeOK' /\ OwesInv'
  BY <1>1, <1>3 DEF tapVars, TypeOK, RegistryTypeOK, Index!IndexTypeOK,
                    OwesInv, Destroying
<1>5. RoutesTypeOK' /\ SlotInv'
  <2>1. RoutesTypeOK'
    BY <1>1 DEF RoutesTypeOK, WPhases
  <2> QED  BY <1>1, <1>2, <2>1, StageMoves DEF Stages
<1>6. UNCHANGED <<marks, marked, guarded, tap>>
  BY <1>1 DEF tapVars
<1>7. MarksBalanced' /\ \A t \in Sessions : Holders(t)' = Holders(t)
  BY <1>6 DEF MarksBalanced, Markers, Holders
<1>8. CASE wphase' = [wphase EXCEPT ![w] = "finish"] /\ active' = active
  <2>1. \A v \in Workers, t \in Sessions : Claimed(v, t)' <=> Claimed(v, t)
    BY <1>1, <1>8 DEF Claimed, RoutesTypeOK
  <2>2. Quiet
    BY <1>6, <1>8, <2>1 DEF Quiet, Walkers
  <2> QED  BY <1>4, <1>5, <2>2, QuietKeeps
<1>9. CASE /\ wphase' = [wphase EXCEPT ![w] = "scan"]
           /\ ~ClaimRefused(s) /\ active' = [active EXCEPT ![s] = Destroying]
  <2>1. Walkers(s) = {}
    <3>1. \A v \in Workers : ~Claimed(v, s)
      BY <1>1, <1>2, OneWalker DEF Claimed
    <3> QED  BY <3>1 DEF Walkers
  <2>2. Holders(s) = {}
    <3>1. active[s] = Cardinality(Holders(s)) /\ Cardinality(Holders(s)) \in Nat
      BY <1>2, <2>1, FiniteHolders DEF GuardInv, Counted
    <3>2. Cardinality(Holders(s)) = 0
      BY <1>9, <3>1 DEF ClaimRefused
    <3> QED  BY <1>2, <3>2, FiniteHolders, FS_EmptySet
  <2>3. \A t \in Sessions : Walkers(t)' = IF t = s THEN {w} ELSE Walkers(t)
    <3>1. Claimed(w, s)' /\ \A t \in Sessions : t # s => ~Claimed(w, t) /\ ~Claimed(w, t)'
      BY <1>1, <1>2, <1>9 DEF Claimed, RoutesTypeOK
    <3>2. \A v \in Workers, t \in Sessions : v # w => (Claimed(v, t)' <=> Claimed(v, t))
      BY <1>1, <1>9 DEF Claimed, RoutesTypeOK
    <3>3. \A v \in Workers : ~Claimed(v, s)
      BY <2>1 DEF Walkers
    <3>4. \A v \in Workers : Claimed(v, s)' <=> v = w
      BY <1>2, <3>1, <3>2, <3>3
    <3>5. \A v \in Workers, t \in Sessions : t # s => (Claimed(v, t)' <=> Claimed(v, t))
      BY <3>1, <3>2
    <3> QED  BY <3>4, <3>5 DEF Walkers
  <2>4. GuardInv'
    BY <1>2, <1>7, <1>9, <2>2, <2>3 DEF GuardInv, Counted, TypeOK, RegistryTypeOK
  <2>5. Lock!Claim(w, s)
    BY <1>2, <1>7, <2>1, <2>2, <2>3 DEF Lock!Claim, Walkers
  <2>6. Lock!LockNext
    BY <1>2, <2>5 DEF Lock!LockNext
  <2> QED  BY <1>4, <1>5, <1>7, <2>4, <2>6
<1> QED  BY <1>0, <1>8, <1>9 DEF ClaimDestruct, TryClaimDestruct, Step

(* ... and its exit.                                                       *)
LEMMA UnclaimKeepsLock ==
  ASSUME LInv, NEW w \in Workers, Unclaim(w)
  PROVE  LInv' /\ Lock!LockNext
<1> USE DEF LInv
<1>0. PICK s : s = Target(w)
  OBVIOUS
<1>1. /\ wphase[w] = "unclaim" /\ wphase' = [wphase EXCEPT ![w] = "finish"]
      /\ active' = [active EXCEPT ![s] = 0]
      /\ UNCHANGED <<tapVars, fileVars, marks, current, transcribed, jobs, ask,
                     todo>>
  BY <1>0 DEF Unclaim, Step, ReleaseDestruct
<1>2. Kind(w) \in {"session", "audio"} /\ s \in Sessions /\ s = Target(w)
  BY <1>0, <1>1, StageTells
<1>3. TypeOK' /\ OwesInv'
  BY <1>1 DEF tapVars, TypeOK, RegistryTypeOK, Index!IndexTypeOK, OwesInv
<1>4. RoutesTypeOK' /\ SlotInv'
  <2>1. RoutesTypeOK'
    BY <1>1 DEF RoutesTypeOK, WPhases
  <2> QED  BY <1>1, <1>2, <2>1, StageMoves DEF Stages
<1>5. MarksBalanced' /\ \A t \in Sessions : Holders(t)' = Holders(t)
  BY <1>1 DEF MarksBalanced, Markers, Holders, tapVars
<1>6. Claimed(w, s)
  BY <1>1, <1>2 DEF Claimed
<1>7. Walkers(s) = {w}
  <2>1. \A v \in Workers : Claimed(v, s) => v = w
    BY <1>2, <1>6, OneWalker DEF Claimed
  <2> QED  BY <1>6, <2>1 DEF Walkers
<1>8. Holders(s) = {}
  BY <1>2, <1>7 DEF GuardInv
<1>9. \A t \in Sessions : Walkers(t)' = IF t = s THEN {} ELSE Walkers(t)
  <2>1. \A t \in Sessions : ~Claimed(w, t)' /\ (t # s => ~Claimed(w, t))
    BY <1>1, <1>2 DEF Claimed, RoutesTypeOK
  <2>2. \A v \in Workers, t \in Sessions : v # w => (Claimed(v, t)' <=> Claimed(v, t))
    BY <1>1 DEF Claimed, RoutesTypeOK
  <2> QED  BY <1>7, <2>1, <2>2 DEF Walkers
<1>10. GuardInv'
  BY <1>1, <1>2, <1>5, <1>8, <1>9, FS_EmptySet
     DEF GuardInv, Counted, TypeOK, RegistryTypeOK
<1>11. Lock!Unclaim(w, s)
  BY <1>2, <1>5, <1>7, <1>9 DEF Lock!Unclaim, Walkers
<1>12. Lock!LockNext
  BY <1>2, <1>11 DEF Lock!LockNext
<1> QED  BY <1>3, <1>4, <1>5, <1>10, <1>12

-----------------------------------------------------------------------------
(* A tap takes the guard, unless a walk is inside its claim.               *)
LEMMA JoinKeepsLock ==
  ASSUME LInv, NEW c \in Conns, Join(c), TypeOK', UNCHANGED routeVars
  PROVE  LInv' /\ (Quiet \/ Lock!LockNext \/ UNCHANGED Lock!lockVars)
<1> USE DEF LInv
<1>0. PICK s : s = Sess(c)
  OBVIOUS
<1>1. s \in Sessions /\ s = Sess(c) /\ tap' = tap
  BY <1>0 DEF Join, Within, TypeOK, Claim
<1>2. RoutesTypeOK' /\ SlotInv' /\ OwesInv' /\ MarksBalanced'
  BY JoinMarks DEF routeVars, RoutesTypeOK, SlotInv
<1>3. \A t \in Sessions : Walkers(t)' = Walkers(t)
  BY DEF routeVars, Walkers, Claimed
<1>4. GuardInv'
  BY <1>3, JoinGuard DEF GuardInv
<1>5. CASE guarded' = guarded
  <2>1. \A t \in Sessions : Holders(t)' = Holders(t)
    BY <1>1, <1>5 DEF Holders
  <2>2. UNCHANGED Lock!lockVars
    BY <1>3, <2>1 DEF Lock!lockVars, Walkers
  <2> QED  BY <1>2, <1>4, <2>2
<1>6. CASE guarded' = guarded \cup {c} /\ active[s] # Destroying
  <2>1. \A t \in Sessions : Holders(t)' = IF t = s THEN Holders(t) \cup {c}
                                                   ELSE Holders(t)
    BY <1>1, <1>6 DEF Holders
  <2>2. Walkers(s) = {}
    BY <1>1, <1>6 DEF GuardInv
  <2>3. Lock!Enter(c, s)
    BY <1>1, <1>3, <2>1, <2>2 DEF Lock!Enter, Walkers
  <2>4. Lock!LockNext
    BY <1>1, <2>3 DEF Lock!LockNext
  <2> QED  BY <1>2, <1>4, <2>4
<1> QED
  BY <1>1, <1>5, <1>6 DEF Join, RegisterTap, DestructionInProgress

(* A tap gives the guard back, if it has it.                               *)
LEMMA DetachKeepsLock ==
  ASSUME LInv, NEW c \in Conns, Detach(c), TypeOK', UNCHANGED routeVars
  PROVE  LInv' /\ (Quiet \/ Lock!LockNext \/ UNCHANGED Lock!lockVars)
<1> USE DEF LInv
<1>0. PICK s : s = Sess(c)
  OBVIOUS
<1>1. s \in Sessions /\ s = Sess(c) /\ tap' = tap /\ guarded' = guarded \ {c}
  BY <1>0 DEF Detach, TypeOK, Claim
<1>2. RoutesTypeOK' /\ SlotInv' /\ OwesInv' /\ MarksBalanced'
  BY DetachMarks DEF routeVars, RoutesTypeOK, SlotInv
<1>3. \A t \in Sessions : Walkers(t)' = Walkers(t)
  BY DEF routeVars, Walkers, Claimed
<1>4. GuardInv'
  BY <1>3, DetachGuard DEF GuardInv
<1>5. CASE c \notin guarded
  <2>1. \A t \in Sessions : Holders(t)' = Holders(t)
    BY <1>1, <1>5 DEF Holders
  <2>2. UNCHANGED Lock!lockVars
    BY <1>3, <2>1 DEF Lock!lockVars, Walkers
  <2> QED  BY <1>2, <1>4, <2>2
<1>6. CASE c \in guarded
  <2>1. /\ c \in Holders(s)
        /\ \A t \in Sessions : Holders(t)' = IF t = s THEN Holders(t) \ {c}
                                                      ELSE Holders(t)
    BY <1>1, <1>6 DEF Holders
  <2>2. Lock!Leave(c, s)
    BY <1>1, <1>3, <2>1 DEF Lock!Leave, Walkers
  <2>3. Lock!LockNext
    BY <1>1, <2>2 DEF Lock!LockNext
  <2> QED  BY <1>2, <1>4, <2>3
<1> QED  BY <1>5, <1>6

(* Every other step of a tap is quiet.                                     *)
LEMMA FanKeepsLock ==
  ASSUME LInv, FanMove, TypeOK'
  PROVE  LInv' /\ (Quiet \/ Lock!LockNext \/ UNCHANGED Lock!lockVars)
<1> USE DEF LInv
<1>1. CASE \E c \in Conns : Join(c)
  BY <1>1, JoinKeepsLock DEF FanMove
<1>2. CASE \E c \in Conns : Detach(c)
  BY <1>2, DetachKeepsLock DEF FanMove
<1>3. CASE ~ \E c \in Conns : Join(c) \/ Detach(c)
  <2>1. OwesInv' /\ UNCHANGED <<marks, active, marked, guarded, tap>>
    BY <1>3, OthersTouchNothing DEF FanMove
  <2>2. UNCHANGED routeVars
    BY DEF FanMove
  <2>3. RoutesTypeOK' /\ SlotInv'
    BY <2>2 DEF routeVars, RoutesTypeOK, SlotInv
  <2>4. Quiet
    BY <2>1, <2>2 DEF Quiet, routeVars, Walkers, Claimed
  <2> QED  BY <2>1, <2>3, <2>4, QuietKeeps
<1> QED  BY <1>1, <1>2, <1>3

-----------------------------------------------------------------------------
(* Every step keeps the lock's invariant, and is a step of the lock or     *)
(* none.                                                                   *)
LEMMA WorkerKeepsLock ==
  ASSUME LInv, NEW w \in Workers, WorkerStep(w)
  PROVE  LInv' /\ (Quiet \/ Lock!LockNext)
BY WeighKeepsLock, ScanKeepsLock, UnlinkKeepsLock, WalkEndsKeepsLock,
   ClaimKeepsLock, UnclaimKeepsLock
   DEF WorkerStep, ReclaimOlder, WavWalk, AudioWalk, SessionWalk

(* The routes leave a tap's own variables alone: what is proved of the     *)
(* taps above survives their steps.                                        *)
LEMMA RoutesKeepTaps ==
  ASSUME IInv, TypeOK', UNCHANGED <<tapVars, frames>>
  PROVE  IInv'
BY DEF IInv, tapVars, OneWriter, NoStrandedRecord, ByteCountExact, HandleInv,
       RecordInv, ReleasedInv, WriterInv, OwnerInv, ReopenInv, CountInv

LEMMA RouteStepLeavesTaps ==
  ASSUME NEW w \in Workers, RequestStep(w) \/ WorkerStep(w) \/ Finish(w)
  PROVE  UNCHANGED <<tapVars, frames, marks>>
<1>1. CASE RequestStep(w)
  BY <1>1, RequestShape DEF Begins, fanVars
<1>2. CASE Weigh(w) \/ BusyCheck(w) \/ Scan(w) \/ Finish(w)
  BY <1>2 DEF Weigh, BusyCheck, Scan, Finish, fanVars
<1>3. CASE Unlink(w) \/ WalkEnds(w) \/ ClaimDestruct(w) \/ Unclaim(w)
  BY <1>3 DEF Unlink, WalkEnds, ClaimDestruct, Unclaim
<1> QED
  BY <1>1, <1>2, <1>3
     DEF WorkerStep, ReclaimOlder, WavWalk, AudioWalk, SessionWalk

LEMMA LoopRoutesLeaveTaps ==
  ASSUME LoopRoutes
  PROVE  UNCHANGED <<tapVars, frames, registryVars>>
BY DEF LoopRoutes, Prune, NewSession, TapSession, Detached, TapNewSession,
       Absorb, fanVars

THEOREM StepKeepsLock ==
  IInv /\ LInv /\ [Next]_vars => IInv' /\ LInv' /\ [Lock!LockNext]_(Lock!lockVars)
<1> SUFFICES ASSUME IInv, LInv, [Next]_vars
             PROVE  IInv' /\ LInv' /\ [Lock!LockNext]_(Lock!lockVars)
  OBVIOUS
<1>1. TypeOK /\ RoutesTypeOK
  BY DEF LInv
<1>2. CASE FanMove
  <2>1. IInv'
    BY <1>2, StepKeeps DEF FanMove
  <2>2. TypeOK'
    BY <2>1 DEF IInv
  <2> QED  BY <1>2, <2>1, <2>2, FanKeepsLock, QuietKeeps
<1>3. ASSUME NEW w \in Workers, RequestStep(w) \/ WorkerStep(w) \/ Finish(w)
      PROVE  IInv' /\ LInv' /\ [Lock!LockNext]_(Lock!lockVars)
  <2>1. LInv' /\ (Quiet \/ Lock!LockNext)
    BY <1>3, RequestKeepsLock, WorkerKeepsLock, FinishKeepsLock
  <2>2. IInv'
    BY <1>3, <2>1, RouteStepLeavesTaps, RoutesKeepTaps DEF LInv
  <2> QED  BY <2>1, <2>2, QuietKeeps
<1>4. CASE LoopRoutes
  <2>1. LInv' /\ Quiet
    BY <1>4, LoopRoutesKeepLock
  <2>2. IInv'
    BY <1>4, <2>1, LoopRoutesLeaveTaps, RoutesKeepTaps DEF LInv
  <2> QED  BY <2>1, <2>2, QuietKeeps
<1> QED  BY <1>1, <1>2, <1>3, <1>4, MovesSplit

(* In the composition too, whatever the routes do: every variable stays in *)
(* its range, a WAV has one writer, and the registries count their         *)
(* holders.                                                                *)
THEOREM RoutesInvariance == Spec => [](IInv /\ LInv)
<1>1. RoutesInit => IInv /\ LInv
  BY InitRoutes DEF RInv
<1> QED  BY <1>1, StepKeepsLock, PTL DEF Spec

(* Beside the destructive routes too: a WAV has one writer and an exact    *)
(* count, no record is stranded, and marks and guard count their holders.  *)
THEOREM TapsStayWhole == Spec => [](WavsStayWhole /\ Bookkeeping)
<1>1. IInv /\ LInv => WavsStayWhole /\ Bookkeeping
  BY DEF IInv, LInv, GuardInv, Counted, GuardBalanced, WavsStayWhole, Bookkeeping
<1> QED  BY <1>1, RoutesInvariance, PTL

(* SessionRoutes implements SessionLock: the integer of tap_registry.py and *)
(* the job slots of recorder.py are a shared/exclusive lock on a session's  *)
(* folder, although try_claim_destruct grants a claim of a claimed session. *)
THEOREM RoutesImplementLock == Spec => ImplementsLock
<1>1. RoutesInit => Lock!LockInit
  <2> SUFFICES ASSUME RoutesInit
               PROVE  Lock!LockInit
    OBVIOUS
  <2>1. \A s \in Sessions : Holders(s) = {} /\ Walkers(s) = {}
    BY DEF RoutesInit, Init, Holders, Walkers, Claimed, Nothing
  <2> QED  BY <2>1 DEF Lock!LockInit, Walkers
<1> QED
  BY <1>1, StepKeepsLock, RoutesInvariance, PTL
     DEF Spec, ImplementsLock, Lock!LockSpec

(* What the lock is for: nobody destroys a folder that a tap holds, and    *)
(* one walk at a time.                                                     *)
THEOREM LockIsExclusive == Spec => []Lock!Exclusive
<1>1. LInv => Lock!Exclusive
  <2> SUFFICES ASSUME LInv, NEW s \in Sessions
               PROVE  /\ Walkers(s) # {} => Holders(s) = {}
                      /\ \A w, v \in Walkers(s) : w = v
    BY DEF Lock!Exclusive, Walkers
  <2>1. Walkers(s) # {} => Holders(s) = {}
    BY DEF LInv, GuardInv
  <2>2. \A w, v \in Walkers(s) : w = v
    BY OneWalker DEF Walkers, Claimed
  <2> QED  BY <2>1, <2>2
<1> QED  BY <1>1, RoutesInvariance, PTL

-----------------------------------------------------------------------------
FInv ==
  /\ FreshInv
  /\ NamedInv
  /\ GuardedTapKeepsItsWav

(* The mark of a guarded tap is what the preflights and prune read.        *)
LEMMA GuardedIsMarked ==
  ASSUME LInv, FreshInv, NEW c \in guarded
  PROVE  c \in Conns /\ Sess(c) \in Sessions /\ SessionHasOpenTap(Sess(c))
<1>1. c \in Conns /\ Sess(c) \in Sessions
  BY DEF LInv, TypeOK, Claim
<1>2. c \in Markers(Sess(c))
  BY <1>1 DEF FreshInv, Markers
<1>3. /\ marks[Sess(c)] = Cardinality(Markers(Sess(c)))
      /\ Cardinality(Markers(Sess(c))) \in Nat /\ IsFiniteSet(Markers(Sess(c)))
  BY <1>1, FiniteHolders DEF LInv, MarksBalanced
<1>4. Cardinality(Markers(Sess(c))) # 0
  BY <1>2, <1>3, FS_EmptySet
<1> QED  BY <1>1, <1>3, <1>4 DEF SessionHasOpenTap

(* A claimed session has no guarded tap. *)
LEMMA GuardedIsNotClaimed ==
  ASSUME LInv, NEW c \in guarded, NEW w \in Workers
  PROVE  ~Claimed(w, Sess(c))
<1>1. c \in Conns /\ Sess(c) \in Sessions
  BY DEF LInv, TypeOK, Claim
<1>2. c \in Holders(Sess(c))
  BY <1>1 DEF Holders
<1> QED  BY <1>1, <1>2 DEF LInv, GuardInv, Walkers

(* A bulk reclaim, once asked for, is never forgotten. *)
LEMMA ReclaimedStays ==
  ASSUME LInv, [Next]_vars, NEW s, Reclaimed(s)
  PROVE  Reclaimed(s)'
<1>1. PICK w \in Workers : Kind(w) = "reclaim" /\ Target(w) = s /\ wphase[w] # "idle"
  BY DEF Reclaimed
<1> SUFFICES ask'[w] = ask[w] /\ wphase'[w] # "idle"
  BY <1>1 DEF Reclaimed
<1> USE DEF LInv, RoutesTypeOK
<1>2. CASE FanMove \/ LoopRoutes
  BY <1>1, <1>2 DEF FanMove, routeVars, LoopRoutes, Prune, NewSession,
                    TapSession, Detached, TapNewSession, Absorb
<1>3. ASSUME NEW v \in Workers, RequestStep(v)
      PROVE  ask'[w] = ask[w] /\ wphase'[w] # "idle"
  BY <1>1, <1>3, RequestShape DEF Begins
<1>4. ASSUME NEW v \in Workers, WorkerStep(v)
      PROVE  ask'[w] = ask[w] /\ wphase'[w] # "idle"
  BY <1>1, <1>4 DEF WorkerStep, ReclaimOlder, WavWalk, AudioWalk, SessionWalk,
       Weigh, BusyCheck, ClaimDestruct, Scan, Unlink, WalkEnds, Unclaim, Step
<1>5. ASSUME NEW v \in Workers, Finish(v)
      PROVE  ask'[w] = ask[w] /\ wphase'[w] # "idle"
  BY <1>1, <1>5 DEF Finish, Step
<1> QED  BY <1>2, <1>3, <1>4, <1>5, MovesSplit

(* What a route may do to the files while guarded taps record: to the WAV  *)
(* and the folder of one whose session no bulk reclaim was asked for,      *)
(* nothing.                                                                *)
Spares(c) ==
  /\ home'[c] = home[c]
  /\ Sess(c) \in dirs => Sess(c) \in dirs'

LEMMA SparedTapsKeepTheirWavs ==
  ASSUME LInv, FreshInv, GuardedTapKeepsItsWav, [Next]_vars, UNCHANGED tapVars,
         \A c \in Conns : home[c] = NoSession => home'[c] = NoSession,
         \A c \in guarded : /\ home'[c] \in {home[c], NoSession}
                            /\ ~Reclaimed(Sess(c)) => Spares(c)
  PROVE  FreshInv' /\ GuardedTapKeepsItsWav'
<1>1. FreshInv'
  BY DEF FreshInv, tapVars
<1>2. GuardedTapKeepsItsWav'
  <2> SUFFICES ASSUME NEW c \in guarded, ~Reclaimed(Sess(c))', 
                      phase[c] \in {"announce", "open"}
               PROVE  Sess(c) \in dirs' /\ home'[handle[c]] = Sess(c)
    BY DEF GuardedTapKeepsItsWav, KeepsItsWav, tapVars
  <2>1. c \in Conns /\ ~Reclaimed(Sess(c))
    <3>1. PICK s : s = Sess(c)
      OBVIOUS
    <3>2. ~Reclaimed(s)'
      BY <3>1 DEF tapVars
    <3> QED  BY <3>1, <3>2, ReclaimedStays DEF LInv, TypeOK
  <2>2. Sess(c) \in dirs /\ home[handle[c]] = Sess(c) /\ handle[c] = c
    BY <2>1 DEF GuardedTapKeepsItsWav, KeepsItsWav, FreshInv
  <2> QED  BY <2>1, <2>2 DEF Spares
<1> QED  BY <1>1, <1>2

-----------------------------------------------------------------------------
(* A request is accepted.  The file a caller of the WAV route names is in  *)
(* the folder, and the preflight saw no mark there: no tap is writing it   *)
(* that the guard protects.                                                *)
LEMMA RequestKeepsFiles ==
  ASSUME LInv, FInv, [Next]_vars, NEW w \in Workers, RequestStep(w)
  PROVE  FInv'
<1>1. PICK s \in Sessions, f \in Wavs \cup {NoWav}, o \in Openings :
           o[1] \in Kinds /\ Begins(w, s, f, o[1], o[2])
  BY RequestShape
<1>2. UNCHANGED fanVars /\ UNCHANGED todo
  BY <1>1 DEF Begins
<1>3. FreshInv' /\ GuardedTapKeepsItsWav'
  BY <1>2, SparedTapsKeepTheirWavs DEF FInv, fanVars, Spares
<1>4. NamedInv'
  <2>1. /\ wphase[w] = "idle" /\ todo'[w] = {}
        /\ wphase'[w] # "idle" /\ ask'[w].kind = o[1] /\ ask'[w].wav = f
    BY <1>1, <1>2 DEF Begins, LInv, RoutesTypeOK, Openings, FInv, NamedInv
  <2>2. \A v \in Workers : v # w => ask'[v] = ask[v] /\ wphase'[v] = wphase[v]
    BY <1>1 DEF Begins, LInv, RoutesTypeOK
  <2>3. ASSUME o[1] = "wav", f \in Conns
        PROVE  f \notin guarded /\ phase[f] \notin Early
    <3>1. home[f] = s /\ ~SessionHasOpenTap(s) /\ s # NoSession
      BY <1>1, <2>3, ConnsAssumption DEF Begins, FilesOf
    <3>2. phase[f] \notin Early
      BY <2>3, <3>1 DEF FInv, FreshInv
    <3>3. f \in guarded => Sess(f) = s
      BY <2>3, <3>1 DEF FInv, FreshInv
    <3> QED  BY <3>1, <3>2, <3>3, GuardedIsMarked DEF FInv
  <2> QED
    BY <1>2, <2>1, <2>2, <2>3 DEF FInv, NamedInv, fanVars, tapVars
<1> QED  BY <1>3, <1>4 DEF FInv

(* The walk's steps that remove nothing.                                   *)
LEMMA WalkingKeepsFiles ==
  ASSUME LInv, FInv, [Next]_vars, NEW w \in Workers,
         \/ Weigh(w) \/ BusyCheck(w) \/ ClaimDestruct(w)
         \/ Scan(w) \/ Unclaim(w) \/ Finish(w)
  PROVE  FInv'
<1>1. /\ UNCHANGED <<tapVars, fileVars>>
      /\ wphase[w] # "idle" /\ \E p \in WPhases \ {"idle"} :
                                 wphase' = [wphase EXCEPT ![w] = p]
      /\ ask' = ask \/ ask' = [ask EXCEPT ![w] = Nothing]
  BY DEF Weigh, BusyCheck, ClaimDestruct, Scan, Unclaim, Finish, Step, fanVars,
         WPhases
<1>2. FreshInv' /\ GuardedTapKeepsItsWav'
  BY <1>1, SparedTapsKeepTheirWavs DEF FInv, Spares
<1>3. \/ todo' = todo
      \/ \E F \in SUBSET Wavs : /\ todo' = [todo EXCEPT ![w] = F]
                                /\ Kind(w) = "wav" => F \subseteq {ask[w].wav}
                                /\ ask' = ask
  <2>1. CASE Scan(w)
    <3>1. PICK F \in SUBSET Wavs :
               F = IF Kind(w) = "wav" THEN FilesOf(Target(w)) \cap {ask[w].wav}
                                      ELSE FilesOf(Target(w))
      BY DEF FilesOf
    <3> QED  BY <2>1, <3>1 DEF Scan
  <2>2. CASE ~Scan(w)
    BY <2>2 DEF Weigh, BusyCheck, ClaimDestruct, Unclaim, Finish
  <2> QED  BY <2>1, <2>2
<1>4. NamedInv'
  BY <1>1, <1>3 DEF FInv, NamedInv, Nothing, LInv, RoutesTypeOK, WPhases, tapVars
<1> QED  BY <1>2, <1>4 DEF FInv

(* The walk unlinks a file: not one of a guarded tap, unless it is a bulk  *)
(* reclaim's.                                                              *)
LEMMA UnlinkKeepsFiles ==
  ASSUME LInv, FInv, [Next]_vars, NEW w \in Workers, Unlink(w)
  PROVE  FInv'
<1>1. PICK f \in todo[w] :
        /\ todo' = [todo EXCEPT ![w] = todo[w] \ {f}]
        /\ home' = IF home[f] = Target(w) THEN [home EXCEPT ![f] = NoSession]
                                          ELSE home
  BY DEF Unlink
<1>2. /\ UNCHANGED <<tapVars, dirs, wphase, ask>> /\ wphase[w] = "walk"
      /\ f \in Wavs
  BY <1>1 DEF Unlink, LInv, RoutesTypeOK
<1>3. NamedInv'
  BY <1>1, <1>2 DEF FInv, NamedInv, LInv, RoutesTypeOK, tapVars
<1>4. \A c \in Wavs : home'[c] \in {home[c], NoSession}
  BY <1>1, <1>2 DEF LInv, TypeOK
<1>5. ASSUME NEW c \in guarded, ~Reclaimed(Sess(c))
      PROVE  Spares(c)
  <2>1. c \in Conns /\ Sess(c) \in Sessions
    BY GuardedIsMarked DEF FInv
  <2>2. SUFFICES ASSUME home[f] = Target(w), f = c
                 PROVE  FALSE
    BY <1>1, <1>2, <2>1 DEF Spares, LInv, TypeOK
  <2>3. Kind(w) \in {"session", "audio", "wav", "reclaim"} /\ Target(w) \in Sessions
    BY <1>2, StageTells DEF LInv
  <2>4. Target(w) = Sess(c)
    BY <2>1, <2>2, <2>3, ConnsAssumption DEF FInv, FreshInv
  <2>5. Kind(w) \notin {"session", "audio"}
    BY <1>2, <2>4, GuardedIsNotClaimed DEF Claimed
  <2>6. Kind(w) # "wav"
    BY <2>1, <2>2 DEF FInv, NamedInv
  <2>7. Kind(w) # "reclaim"
    BY <1>2, <1>5, <2>4 DEF Reclaimed
  <2> QED  BY <2>3, <2>5, <2>6, <2>7
<1>6. FreshInv' /\ GuardedTapKeepsItsWav'
  <2>1. guarded \subseteq Conns
    BY DEF LInv, TypeOK
  <2> QED
    BY <1>2, <1>4, <1>5, <2>1, SparedTapsKeepTheirWavs DEF FInv
<1> QED  BY <1>3, <1>6 DEF FInv

(* rmtree takes the folder of a session no tap holds.                      *)
LEMMA WalkEndsKeepsFiles ==
  ASSUME LInv, FInv, [Next]_vars, NEW w \in Workers, WalkEnds(w)
  PROVE  FInv'
<1>1. /\ UNCHANGED <<tapVars, home, ask, todo>>
      /\ wphase[w] = "walk"
      /\ \E p \in {"unclaim", "finish"} : wphase' = [wphase EXCEPT ![w] = p]
      /\ \/ dirs' = dirs
         \/ Kind(w) = "session" /\ dirs' = dirs \ {Target(w)}
  BY DEF WalkEnds, Step
<1>2. NamedInv'
  BY <1>1 DEF FInv, NamedInv, LInv, RoutesTypeOK, tapVars
<1>3. ASSUME NEW c \in guarded
      PROVE  Spares(c)
  <2>1. Kind(w) = "session" => Target(w) # Sess(c)
    BY <1>1, GuardedIsNotClaimed DEF Claimed
  <2> QED  BY <1>1, <2>1 DEF Spares
<1>4. FreshInv' /\ GuardedTapKeepsItsWav'
  BY <1>1, <1>3, SparedTapsKeepTheirWavs DEF FInv
<1> QED  BY <1>2, <1>4 DEF FInv

(* Prune, rotate and absorb: the mark holds them off.                      *)
LEMMA LoopRoutesKeepFiles ==
  ASSUME LInv, FInv, [Next]_vars, LoopRoutes
  PROVE  FInv'
<1>1. UNCHANGED <<tapVars, wphase, ask, todo>>
  BY DEF LoopRoutes, Prune, NewSession, TapSession, Detached, TapNewSession,
         Absorb, fanVars, routeVars
<1>2. NamedInv'
  BY <1>1 DEF FInv, NamedInv, tapVars
<1>3. \/ home' = home
      \/ \E t, s \in Sessions :
           /\ ~SessionHasOpenTap(s)
           /\ home' = [f \in Wavs |-> IF home[f] = s THEN t ELSE home[f]]
  BY DEF LoopRoutes, Prune, NewSession, TapSession, Detached, TapNewSession,
         Absorb, MayAbsorb, Preflight, fanVars, fileVars
<1>4. \A s \in dirs : s \notin dirs' => ~SessionHasOpenTap(s)
  BY DEF LoopRoutes, Prune, NewSession, TapSession, Detached, TapNewSession,
         Absorb, MayAbsorb, Preflight, fanVars, fileVars, Prunable
<1>5. \A c \in Conns : home[c] = NoSession => home'[c] = NoSession
  BY <1>3, ConnsAssumption
<1>6. ASSUME NEW c \in guarded
      PROVE  home'[c] = home[c] /\ Spares(c)
  <2>1. c \in Conns /\ SessionHasOpenTap(Sess(c))
    BY GuardedIsMarked DEF FInv
  <2>2. home[c] \in {Sess(c), NoSession}
    BY <2>1 DEF FInv, FreshInv
  <2>3. home'[c] = home[c]
    BY <1>3, <2>1, <2>2, ConnsAssumption
  <2> QED  BY <1>4, <2>1, <2>3 DEF Spares
<1>7. FreshInv' /\ GuardedTapKeepsItsWav'
  BY <1>1, <1>5, <1>6, SparedTapsKeepTheirWavs DEF FInv
<1> QED  BY <1>2, <1>7 DEF FInv

-----------------------------------------------------------------------------
(* A tap's own steps.  Those that leave the files alone move at most one   *)
(* connection on, and never back to a phase before its WAV.                *)
LEMMA QuietTapKeepsFiles ==
  ASSUME LInv, FInv, UNCHANGED <<routeVars, tap, marked, guarded, home>>,
         dirs \subseteq dirs',
         \A c \in Conns :
           /\ phase'[c] \in Early => phase[c] \in Early
           /\ c \in guarded /\ phase'[c] \in {"announce", "open"}
              => /\ phase[c] \in {"announce", "open"}
                 /\ handle'[c] = handle[c]
  PROVE  FInv'
<1>1. NamedInv'
  BY DEF FInv, NamedInv, routeVars
<1>2. FreshInv'
  BY DEF FInv, FreshInv
<1>3. \A s : Reclaimed(s)' <=> Reclaimed(s)
  BY DEF Reclaimed, routeVars
<1>4. GuardedTapKeepsItsWav'
  <2> SUFFICES ASSUME NEW c \in guarded, ~Reclaimed(Sess(c)),
                      phase'[c] \in {"announce", "open"}
               PROVE  Sess(c) \in dirs' /\ home[handle'[c]] = Sess(c)
    BY <1>3 DEF GuardedTapKeepsItsWav, KeepsItsWav
  <2>1. c \in Conns
    BY DEF LInv, TypeOK
  <2> QED  BY <2>1 DEF FInv, GuardedTapKeepsItsWav, KeepsItsWav
<1> QED  BY <1>1, <1>2, <1>4 DEF FInv

(* Taking the guard: no caller of the WAV route can have named the WAV of  *)
(* a connection that has none yet.                                         *)
LEMMA JoinKeepsFiles ==
  ASSUME LInv, FInv, UNCHANGED routeVars, NEW c \in Conns, Join(c)
  PROVE  FInv'
<1>1. /\ phase[c] = "join" /\ c \in marked' /\ marked \subseteq marked'
      /\ guarded' \subseteq guarded \cup {c}
      /\ phase' = [phase EXCEPT ![c] = "create"] \/ phase' = [phase EXCEPT ![c] = "unwind"]
      /\ UNCHANGED <<tap, handle, home, dirs>>
  BY DEF Join, Within
<1>2. NamedInv'
  BY <1>1 DEF FInv, NamedInv, routeVars, LInv, TypeOK
<1>3. FreshInv'
  BY <1>1 DEF FInv, FreshInv, LInv, TypeOK
<1>4. \A s : Reclaimed(s)' <=> Reclaimed(s)
  BY DEF Reclaimed, routeVars
<1>5. GuardedTapKeepsItsWav'
  BY <1>1, <1>4 DEF FInv, GuardedTapKeepsItsWav, KeepsItsWav, LInv, TypeOK
<1> QED  BY <1>2, <1>3, <1>5 DEF FInv

(* Giving it back. *)
LEMMA DetachKeepsFiles ==
  ASSUME LInv, FInv, UNCHANGED routeVars, NEW c \in Conns, Detach(c)
  PROVE  FInv'
<1>1. /\ phase[c] \notin Early
      /\ marked' = marked \ {c} /\ guarded' = guarded \ {c}
      /\ phase' = [phase EXCEPT ![c] = "finalize"]
      /\ UNCHANGED <<tap, handle, home, dirs>>
  BY DEF Detach, Takes, Within
<1>2. NamedInv'
  BY <1>1 DEF FInv, NamedInv, routeVars, LInv, TypeOK
<1>3. FreshInv'
  BY <1>1 DEF FInv, FreshInv, LInv, TypeOK
<1>4. \A s : Reclaimed(s)' <=> Reclaimed(s)
  BY DEF Reclaimed, routeVars
<1>5. GuardedTapKeepsItsWav'
  BY <1>1, <1>4 DEF FInv, GuardedTapKeepsItsWav, KeepsItsWav, LInv, TypeOK
<1> QED  BY <1>2, <1>3, <1>5 DEF FInv

(* The WAV is made where the tap records.                                  *)
LEMMA CreateKeepsFiles ==
  ASSUME LInv, FInv, UNCHANGED routeVars, NEW c \in Conns, Create(c)
  PROVE  FInv'
<1>1. /\ phase[c] = "create" /\ phase' = [phase EXCEPT ![c] = "announce"]
      /\ dirs' = dirs \cup {Sess(c)}
      /\ home' = [home EXCEPT ![c] = Sess(c)]
      /\ handle' = [handle EXCEPT ![c] = c]
      /\ UNCHANGED <<tap, marked, guarded>>
  BY DEF Create, Within
<1>2. NamedInv'
  BY <1>1 DEF FInv, NamedInv, routeVars, LInv, TypeOK
<1>3. FreshInv'
  BY <1>1 DEF FInv, FreshInv, LInv, TypeOK
<1>4. \A s : Reclaimed(s)' <=> Reclaimed(s)
  BY DEF Reclaimed, routeVars
<1>5. GuardedTapKeepsItsWav'
  <2> SUFFICES ASSUME NEW d \in guarded, ~Reclaimed(Sess(d)),
                      phase'[d] \in {"announce", "open"}
               PROVE  Sess(d) \in dirs' /\ home'[handle'[d]] = Sess(d)
    BY <1>1, <1>4 DEF GuardedTapKeepsItsWav, KeepsItsWav
  <2>1. d \in Conns
    BY DEF LInv, TypeOK
  <2>2. CASE d = c
    BY <1>1, <2>2 DEF LInv, TypeOK
  <2>3. CASE d # c
    <3>1. phase'[d] = phase[d] /\ handle'[d] = handle[d]
      BY <1>1, <2>1, <2>3 DEF LInv, TypeOK
    <3>2. handle[d] = d /\ Sess(d) \in dirs /\ home[handle[d]] = Sess(d)
      BY <2>1, <3>1 DEF FInv, FreshInv, GuardedTapKeepsItsWav, KeepsItsWav
    <3> QED  BY <1>1, <2>1, <2>3, <3>1, <3>2 DEF LInv, TypeOK
  <2> QED  BY <2>2, <2>3
<1> QED  BY <1>2, <1>3, <1>5 DEF FInv

(* A close may unlink an empty WAV: its own, which nobody else writes.     *)
LEMMA FinalizeKeepsFiles ==
  ASSUME IInv, LInv, FInv, UNCHANGED routeVars, NEW c \in Conns, Finalize(c)
  PROVE  FInv'
<1>1. /\ phase[c] = "finalize" /\ phase' = [phase EXCEPT ![c] = "drain"]
      /\ \/ home' = home
         \/ /\ handle[c] # NoWav
            /\ home' = [home EXCEPT ![handle[c]] = NoSession]
      /\ handle' = [handle EXCEPT ![c] = NoWav]
      /\ UNCHANGED <<tap, marked, guarded, dirs>>
  BY DEF Finalize, Yields
<1>2. NamedInv'
  BY <1>1 DEF FInv, NamedInv, routeVars, LInv, TypeOK
<1>3. \A f \in Wavs : home'[f] \in {home[f], NoSession}
  BY <1>1 DEF LInv, TypeOK
<1>4. c \notin guarded
  BY <1>1 DEF LInv, OwesInv, Held
<1>5. \A d \in Conns : d # c => phase'[d] = phase[d] /\ handle'[d] = handle[d]
  BY <1>1 DEF LInv, TypeOK
<1>6. phase'[c] = "drain" /\ guarded \subseteq Conns
  BY <1>1 DEF LInv, TypeOK
<1>7. FreshInv'
  BY <1>1, <1>3, <1>4, <1>5, <1>6 DEF FInv, FreshInv
<1>8. \A s : Reclaimed(s)' <=> Reclaimed(s)
  BY DEF Reclaimed, routeVars
<1>9. GuardedTapKeepsItsWav'
  <2> SUFFICES ASSUME NEW d \in guarded, ~Reclaimed(Sess(d)),
                      phase'[d] \in {"announce", "open"}
               PROVE  Sess(d) \in dirs' /\ home'[handle'[d]] = Sess(d)
    BY <1>1, <1>8 DEF GuardedTapKeepsItsWav, KeepsItsWav
  <2>1. d \in Conns /\ d # c /\ phase'[d] = phase[d] /\ handle'[d] = handle[d]
    BY <1>4, <1>5, <1>6
  <2>2. handle[d] = d /\ Sess(d) \in dirs /\ home[d] = Sess(d)
    BY <2>1 DEF FInv, FreshInv, GuardedTapKeepsItsWav, KeepsItsWav
  <2>3. handle[c] # handle[d]
    BY <2>1, <2>2, ConnsAssumption DEF IInv, OneWriter
  <2> QED  BY <1>1, <2>1, <2>2, <2>3 DEF LInv, TypeOK
<1> QED  BY <1>2, <1>7, <1>9 DEF FInv

LEMMA FanKeepsFiles ==
  ASSUME IInv, LInv, FInv, FanMove
  PROVE  FInv'
<1> USE DEF FanMove
<1>1. ASSUME NEW c \in Conns, NEW s \in Sessions, Accept(c, s)
      PROVE  FInv'
  BY <1>1, QuietTapKeepsFiles DEF Accept, LInv, TypeOK
<1>2. ASSUME NEW c \in Conns, StartOpen(c) \/ Reopen(c) \/ ReopenFails(c)
      PROVE  FInv'
  <2>1. phase[c] \in {"accepted", "reopen"} /\ c \notin guarded
    BY <1>2 DEF StartOpen, Reopen, ReopenFails, Takes, Within, LInv, OwesInv, Held
  <2>2. /\ \E p \in Phases : phase' = [phase EXCEPT ![c] = p]
        /\ \A d \in Conns : d # c => handle'[d] = handle[d]
        /\ UNCHANGED <<tap, marked, guarded, home, dirs>>
    BY <1>2 DEF StartOpen, Reopen, ReopenFails, Takes, Within, LInv, TypeOK
  <2> QED  BY <2>1, <2>2, QuietTapKeepsFiles DEF LInv, TypeOK
<1>3. ASSUME NEW c \in Conns,
             CreateFails(c) \/ Announce(c) \/ AnnounceFails(c)
      PROVE  FInv'
  <2>1. dirs \subseteq dirs' /\ UNCHANGED <<tap, marked, guarded, home, handle>>
    BY <1>3 DEF CreateFails, Announce, AnnounceFails
  <2>2. \/ phase' = [phase EXCEPT ![c] = "unwind"]
        \/ phase[c] = "announce" /\ phase' = [phase EXCEPT ![c] = "open"]
    BY <1>3 DEF CreateFails, Announce, AnnounceFails, Within, Yields
  <2> QED  BY <2>1, <2>2, QuietTapKeepsFiles DEF LInv, TypeOK
<1>4. ASSUME NEW c \in Conns, WriteFrame(c) \/ Drained(c)
      PROVE  FInv'
  BY <1>4, QuietTapKeepsFiles DEF WriteFrame, Drained, LInv, TypeOK
<1>5. ASSUME NEW c \in Conns, TapStep(c)
      PROVE  FInv'
  BY <1>2, <1>3, <1>4, <1>5, JoinKeepsFiles, DetachKeepsFiles,
     CreateKeepsFiles, FinalizeKeepsFiles DEF TapStep
<1>6. ASSUME NEW u \in Utts, WindowPasses(u)
      PROVE  FInv'
  BY <1>6, QuietTapKeepsFiles DEF WindowPasses
<1>7. CASE UNCHANGED fanVars
  BY <1>7, QuietTapKeepsFiles DEF fanVars, tapVars
<1> QED  BY <1>1, <1>5, <1>6, <1>7 DEF TapNext

-----------------------------------------------------------------------------
(* Every step keeps the files of the guarded taps.                         *)
THEOREM StepKeepsFiles == IInv /\ LInv /\ FInv /\ [Next]_vars => FInv'
<1> SUFFICES ASSUME IInv, LInv, FInv, [Next]_vars
             PROVE  FInv'
  OBVIOUS
<1>1. ASSUME NEW w \in Workers, WorkerStep(w)
      PROVE  FInv'
  BY <1>1, WalkingKeepsFiles, UnlinkKeepsFiles, WalkEndsKeepsFiles
     DEF WorkerStep, ReclaimOlder, WavWalk, AudioWalk, SessionWalk
<1> QED
  BY <1>1, MovesSplit, FanKeepsFiles, RequestKeepsFiles, WalkingKeepsFiles,
     LoopRoutesKeepFiles DEF LInv

(* The whole invariant, for every number of taps, requests, sessions and   *)
(* files.                                                                  *)
THEOREM WholeInvariance == Spec => []RInv
<1>1. RInv <=> IInv /\ LInv /\ FInv
  BY DEF RInv, FInv
<1> QED  BY <1>1, InitRoutes, StepKeepsLock, StepKeepsFiles, PTL DEF Spec

(* A tap that recorded a fresh utterance keeps its folder and its WAV,     *)
(* whatever prune, rotate, absorb and the delete routes do meanwhile.      *)
THEOREM GuardedTapsKeepTheirWavs == Spec => []GuardedTapKeepsItsWav
<1>1. RInv => GuardedTapKeepsItsWav
  BY DEF RInv
<1> QED  BY <1>1, WholeInvariance, PTL

-----------------------------------------------------------------------------
(* What a step may do to a recorded WAV of a session whose slot a batch    *)
(* job holds: nothing, bulk reclaim apart.                                 *)
BatchStep ==
  \A w \in Workers, f \in Wavs :
    /\ wphase[w] = "batch"
    /\ home[f] = Target(w)
    /\ frames[f] > 0
    /\ ~Reclaimed(home[f])
    => home'[f] = home[f]

LEMMA StepKeepsBatch == IInv /\ LInv /\ [Next]_vars => BatchStep
<1> SUFFICES ASSUME IInv, LInv, [Next]_vars, NEW w \in Workers, NEW f \in Wavs,
                    wphase[w] = "batch", home[f] = Target(w), frames[f] > 0,
                    ~Reclaimed(home[f])
             PROVE  home'[f] = home[f]
  BY DEF BatchStep
<1> DEFINE s == Target(w)
<1>1. Kind(w) = "batch" /\ s \in Sessions /\ jobs[s] = w
  BY StageTells DEF LInv, SlotInv
<1>2. ASSUME NEW c \in Conns, Create(c)
      PROVE  home'[f] = home[f]
  <2>1. frames[c] = 0 /\ home' = [home EXCEPT ![c] = Sess(c)]
    BY <1>2 DEF Create, Within, IInv, CountInv
  <2> QED  BY <2>1 DEF LInv, TypeOK
<1>3. ASSUME NEW c \in Conns, Finalize(c)
      PROVE  home'[f] = home[f]
  <2>1. CASE handle[c] # NoWav /\ ~(bytes[c] > 0)
    <3>1. bytes[c] = frames[handle[c]] /\ handle[c] # f
      BY <2>1 DEF IInv, ByteCountExact
    <3> QED  BY <1>3, <3>1 DEF Finalize, LInv, TypeOK
  <2>2. CASE ~(handle[c] # NoWav /\ ~(bytes[c] > 0))
    BY <1>3, <2>2 DEF Finalize
  <2> QED  BY <2>1, <2>2
<1>4. CASE FanMove
  <2>1. ASSUME NEW c \in Conns, TapStep(c), ~Create(c), ~Finalize(c)
        PROVE  home' = home
    BY <2>1 DEF TapStep, StartOpen, Reopen, ReopenFails, Join, CreateFails,
         Announce, AnnounceFails, WriteFrame, Detach, Drained
  <2>2. ASSUME NEW c \in Conns, NEW t \in Sessions, Accept(c, t)
        PROVE  home' = home
    BY <2>2 DEF Accept
  <2>3. ASSUME NEW u \in Utts, WindowPasses(u)
        PROVE  home' = home
    BY <2>3 DEF WindowPasses
  <2> QED
    BY <1>2, <1>3, <1>4, <2>1, <2>2, <2>3 DEF FanMove, TapNext, fanVars
<1>5. ASSUME NEW v \in Workers, Unlink(v)
      PROVE  home'[f] = home[f]
  <2>1. SUFFICES ASSUME home[f] = Target(v)
                 PROVE  FALSE
    BY <1>5 DEF Unlink, LInv, TypeOK
  <2>2. Kind(v) \in {"session", "audio", "wav", "reclaim"} /\ wphase[v] = "walk"
    BY <1>5, StageTells DEF LInv, Unlink
  <2>3. Kind(v) # "reclaim"
    BY <2>1, <2>2 DEF Reclaimed
  <2>4. jobs[Target(v)] = v
    BY <2>2, <2>3 DEF LInv, SlotInv
  <2> QED  BY <1>1, <2>1, <2>2, <2>4
<1>6. ASSUME NEW v \in Workers, RequestStep(v) \/ WorkerStep(v) \/ Finish(v)
      PROVE  home'[f] = home[f]
  <2>1. CASE RequestStep(v)
    BY <2>1, RequestShape DEF Begins, fanVars
  <2>2. CASE Finish(v)
    BY <2>2 DEF Finish, fanVars
  <2>3. CASE WorkerStep(v)
    BY <1>5, <2>3 DEF WorkerStep, ReclaimOlder, WavWalk, AudioWalk,
         SessionWalk, Weigh, BusyCheck, ClaimDestruct, Scan, WalkEnds,
         Unclaim, fanVars
  <2> QED  BY <1>6, <2>1, <2>2, <2>3
<1>7. CASE LoopRoutes
  <2>1. ASSUME NEW t \in Sessions, NEW r \in Sessions, Absorb(t, r)
        PROVE  home'[f] = home[f]
    <3>1. jobs[r] = FreeSlot /\ r # s
      BY <1>1, <2>1, RoutesAssumption DEF Absorb, MayAbsorb, Preflight
    <3> QED  BY <2>1, <3>1 DEF Absorb
  <2> QED
    BY <1>7, <2>1 DEF LoopRoutes, Prune, NewSession, TapSession, Detached,
         TapNewSession, fanVars
<1> QED  BY <1>4, <1>6, <1>7, MovesSplit DEF LInv

(* While a batch job holds a session's slot no recorded WAV leaves the     *)
(* session, whatever the taps, the deletes and the loop's routes do.       *)
THEOREM BatchesKeepTheirWavs == Spec => BatchKeepsItsWavs
<1>1. IInv /\ LInv /\ [Next]_vars => [BatchStep]_vars
  BY StepKeepsBatch
<1> QED  BY <1>1, RoutesInvariance, PTL DEF Spec, BatchKeepsItsWavs, BatchStep
=============================================================================
