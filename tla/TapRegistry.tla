---------------------------- MODULE TapRegistry ----------------------------
(***************************************************************************)
(* tapscribe/tap_registry.py: the two module-level dicts that stand between *)
(* an open tap and the code that deletes session folders.                  *)
(*                                                                         *)
(* marks   the in-flight marks (_tap_open_sessions), touched on the event  *)
(*         loop only; read by prune and by the preflight of every          *)
(*         destructive route.                                              *)
(* active  the destruction guard (_tap_active_count): the number of taps   *)
(*         holding a session, or Destroying while a worker thread holds    *)
(*         the claim.  Every access is one critical section of _guard, so  *)
(*         each operator below is one atomic step.                         *)
(*                                                                         *)
(* A key absent from a dict reads as 0, so "pop" is "set to 0".            *)
(***************************************************************************)
EXTENDS Integers

CONSTANT Sessions

VARIABLES marks, active

registryVars == <<marks, active>>

Destroying == -1

RegistryTypeOK ==
  /\ marks  \in [Sessions -> Nat]
  /\ active \in [Sessions -> Nat \cup {Destroying}]

RegistryInit ==
  /\ marks  = [s \in Sessions |-> 0]
  /\ active = [s \in Sessions |-> 0]

MarkSessionInFlight(s) == marks' = [marks EXCEPT ![s] = @ + 1]

ReleaseSessionMark(s) ==
  marks' = [marks EXCEPT ![s] = IF @ - 1 > 0 THEN @ - 1 ELSE 0]

SessionHasOpenTap(s) == marks[s] > 0

(* register_tap answers False while the session is claimed.                *)
DestructionInProgress(s) == active[s] = Destroying

RegisterTap(s) ==
  /\ ~DestructionInProgress(s)
  /\ active' = [active EXCEPT ![s] = @ + 1]

(* The count <= 1 test also covers Destroying: an unregister without a     *)
(* matching register would wipe out somebody's claim.                      *)
UnregisterTap(s) ==
  active' = [active EXCEPT ![s] = IF @ <= 1 THEN 0 ELSE @ - 1]

(* A second claim of a claimed session also succeeds: only the job slot    *)
(* the routes hold keeps two claims of one session apart.                  *)
ClaimRefused(s) == active[s] > 0

(* Mutant: the claim does not look for open taps.                          *)
ClaimUnchecked(s) == active' = [active EXCEPT ![s] = Destroying]

TryClaimDestruct(s) ==
  /\ ~ClaimRefused(s)
  /\ active' = [active EXCEPT ![s] = Destroying]

ReleaseDestruct(s) == active' = [active EXCEPT ![s] = 0]

=============================================================================
