--------------------------- MODULE UtteranceIndex ---------------------------
(***************************************************************************)
(* tapscribe/recorder.py, class UtteranceIndex: utterance_id -> the record *)
(* of the WAV that carries it.  Every method is synchronous and runs on    *)
(* the event loop, so each operator below is the whole of one call; it     *)
(* gives the index after the call.                                         *)
(*                                                                         *)
(* A record's path is its session folder (sess, the path's parent) and its *)
(* file name (wav).  Time enters in one place: the 60 s resume window.     *)
(* A closed record is "aged" once its last_close is past the window, and   *)
(* _prune_expired pops the aged ones on the next call that prunes.         *)
(***************************************************************************)
EXTENDS Integers

CONSTANTS
  Utts,       \* utterance ids
  Idents,     \* identities a bridge can name
  Owners,     \* owner tokens: one per /tap connection
  Wavs,       \* file names of WAVs
  Folders,    \* session folders
  NoRecord    \* an utterance id absent from the index

UtteranceRecord ==
  [open: BOOLEAN, owner: Owners, ident: Idents, sess: Folders, wav: Wavs,
   bytes: Nat, aged: BOOLEAN]

VARIABLE byId

IndexTypeOK == byId \in [Utts -> UtteranceRecord \cup {NoRecord}]

IndexInit == byId = [u \in Utts |-> NoRecord]

Has(u) == byId[u] # NoRecord

(* The ids whose closed record is past the resume window. *)
Expired(u) == Has(u) /\ ~byId[u].open /\ byId[u].aged

(* _prune_expired, which opens try_resume and register_new. *)
Pruned == [u \in Utts |-> IF Expired(u) THEN NoRecord ELSE byId[u]]

(* Mutant: a record still open counts as resumable.                        *)
CandidateEvenIfOpen(u, i) == Has(u) /\ ~Expired(u) /\ byId[u].ident = i

(* The record try_resume finds: in the index, closed, same identity. *)
Candidate(u, i) ==
  Has(u) /\ ~Expired(u) /\ ~byId[u].open /\ byId[u].ident = i

(* ... and its WAV is still a file of the folder the tap names; home[w] is *)
(* the folder that holds file w at this moment (path.exists()).            *)
Resumable(u, i, s, home) ==
  Candidate(u, i) /\ byId[u].sess = s /\ home[byId[u].wav] = s

TryResume(u, i, s, own, home) ==
  IF Resumable(u, i, s, home)
  THEN [Pruned EXCEPT ![u] = [@ EXCEPT !.open = TRUE, !.owner = own]]
  ELSE IF Candidate(u, i) THEN [Pruned EXCEPT ![u] = NoRecord]
                          ELSE Pruned

(* register_new's False: another owner holds the id open. *)
HeldByOther(u, own) == Has(u) /\ byId[u].open /\ byId[u].owner # own

NewRecord(own, i, s, w) ==
  [open |-> TRUE, owner |-> own, ident |-> i, sess |-> s, wav |-> w,
   bytes |-> 0, aged |-> FALSE]

RegisterNew(u, own, i, s, w) ==
  IF HeldByOther(u, own)
  THEN Pruned
  ELSE [Pruned EXCEPT ![u] = NewRecord(own, i, s, w)]

(* Mutant: release does not ask whose record it is.                        *)
ReleaseAnyOwner(u, own, n, kept) ==
  IF ~Has(u) THEN byId
  ELSE [byId EXCEPT ![u] = IF kept THEN [@ EXCEPT !.open = FALSE, !.bytes = n]
                                   ELSE NoRecord]

Release(u, own, n, kept) ==
  IF ~Has(u) \/ byId[u].owner # own
  THEN byId
  ELSE IF kept
       THEN [byId EXCEPT ![u] = [@ EXCEPT !.open = FALSE, !.bytes = n,
                                          !.aged = FALSE]]
       ELSE [byId EXCEPT ![u] = NoRecord]

(* The clock passes last_close + RESUME_WINDOW_SECONDS. *)
WindowPasses(u) ==
  /\ Has(u)
  /\ ~byId[u].open
  /\ ~byId[u].aged
  /\ byId' = [byId EXCEPT ![u] = [@ EXCEPT !.aged = TRUE]]

=============================================================================
