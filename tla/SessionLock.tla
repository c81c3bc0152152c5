---------------------------- MODULE SessionLock ----------------------------
(***************************************************************************)
(* What the destruction guard promises of a session folder: a lock that    *)
(* taps share and a destructive walk holds alone.  TapRegistry keeps it    *)
(* with one integer per session; SessionRoutes implements this module.     *)
(***************************************************************************)
CONSTANTS Taps, Walks, Folders

VARIABLES
  taps,     \* the taps that hold a folder
  walks     \* the destructive walks that hold it

lockVars == <<taps, walks>>

LockTypeOK ==
  /\ taps  \in [Folders -> SUBSET Taps]
  /\ walks \in [Folders -> SUBSET Walks]

LockInit ==
  /\ taps  = [s \in Folders |-> {}]
  /\ walks = [s \in Folders |-> {}]

Enter(c, s) ==
  /\ walks[s] = {}
  /\ taps' = [taps EXCEPT ![s] = @ \cup {c}]
  /\ UNCHANGED walks

Leave(c, s) ==
  /\ c \in taps[s]
  /\ taps' = [taps EXCEPT ![s] = @ \ {c}]
  /\ UNCHANGED walks

Claim(w, s) ==
  /\ taps[s] = {}
  /\ walks[s] = {}
  /\ walks' = [walks EXCEPT ![s] = {w}]
  /\ UNCHANGED taps

Unclaim(w, s) ==
  /\ walks[s] = {w}
  /\ walks' = [walks EXCEPT ![s] = {}]
  /\ UNCHANGED taps

LockNext ==
  \E s \in Folders :
    \/ \E c \in Taps : Enter(c, s) \/ Leave(c, s)
    \/ \E w \in Walks : Claim(w, s) \/ Unclaim(w, s)

LockSpec == LockInit /\ [][LockNext]_lockVars

-----------------------------------------------------------------------------
(* Nobody destroys a folder that a tap holds, and one walk at a time.      *)
Exclusive ==
  \A s \in Folders :
    /\ walks[s] # {} => taps[s] = {}
    /\ \A w, v \in walks[s] : w = v
=============================================================================
