----------------------------- MODULE RuntimeCopy -----------------------------
(***************************************************************************)
(* RuntimeCopy.cs: the payload of a macOS Bundle becomes a runtime under   *)
(* the data root, one directory per version, which pip installs into.  It  *)
(* is a stage of every boot of the Recorder (RecorderHost), and what it    *)
(* leaves on disk outlives the tray: a copy or a deletion is cut short by  *)
(* an error, a quit or a crash, and the next launch, of this version or of *)
(* another, starts from there.                                             *)
(*                                                                         *)
(* A tree is the set of its parts.  A deletion or a copy that does not     *)
(* come to its end leaves any of them.                                     *)
(***************************************************************************)
EXTENDS Integers, Sequences

CONSTANT Versions

VARIABLES
  copied,   \* RuntimeIsACopy: macOS, not Windows
  version,  \* of the Bundle that is installed
  runtime,  \* the runtimes on disk: the parts of each version that has one
  partial,  \* versions with a <version>.partial
  half,     \* superseded runtimes that a tidy-up has begun to delete
  relied,   \* backends were installed, and no notice since said they are gone
  boots     \* the boots in flight: RecorderSupervisor.Run on a pool thread

diskVars == <<copied, version, runtime, partial, half>>
copyVars == <<diskVars, relied, boots>>

Payload == {"python", "rest", "wheel"}
Parts == Payload \cup {"backends"}

CopyInit ==
  /\ copied \in BOOLEAN
  /\ version \in Versions
  /\ ~copied => version = CHOOSE v \in Versions : TRUE
  /\ runtime = [v \in {} |-> {}] /\ partial = {} /\ half = {}
  /\ relied = FALSE
  /\ boots = <<>>

Goes(b, from, to) == boots[b].at = from /\ boots' = [boots EXCEPT ![b].at = to]

Put(f, x, value) == [y \in DOMAIN f \cup {x} |-> IF y = x THEN value ELSE f[y]]

Keep(f, xs) == [y \in DOMAIN f \cap xs |-> f[y]]

Present == version \in DOMAIN runtime
Others == DOMAIN runtime \ {version}

IsIntact == Present /\ {"python", "wheel"} \subseteq runtime[version]

Outcome ==
  CASE Present -> "repaired"
    [] ~Present /\ Others # {} -> "upgraded"
    [] OTHER -> "fresh"

Ensure(b) ==
  /\ boots[b].at = "ensure"
  /\ boots' = [boots EXCEPT
       ![b].at = IF ~copied THEN "resolve" ELSE IF IsIntact THEN "tidy" ELSE "clear",
       ![b].outcome = IF ~copied \/ IsIntact THEN "current" ELSE Outcome]
  /\ UNCHANGED <<diskVars, relied>>

(* What is broken or half copied of this version goes; an error ends the   *)
(* boot, with a part of it still there.                                    *)
Clear(b) ==
  \/ /\ Goes(b, "clear", "copy")
     /\ runtime' = Keep(runtime, Others)
     /\ partial' = partial \ {version}
     /\ UNCHANGED <<copied, version, half, relied>>
  \/ /\ Goes(b, "clear", "fail")
     /\ IF Present
        THEN \E left \in SUBSET runtime[version] : runtime' = [runtime EXCEPT ![version] = left]
        ELSE version \in partial /\ UNCHANGED runtime
     /\ UNCHANGED <<copied, version, partial, half, relied>>

(* Mutant: the copy goes where it is used.                                 *)
CopyInPlace(b) ==
  /\ Goes(b, "copy", "fail") \/ Goes(b, "copy", "move")
  /\ \E left \in SUBSET Payload : runtime' = Put(runtime, version, left)
  /\ partial' = partial \cup {version}
  /\ UNCHANGED <<copied, version, half, relied>>

(* Into the partial, all of it or as much as there was room for.           *)
Copy(b) ==
  /\ Goes(b, "copy", "fail") \/ Goes(b, "copy", "move")
  /\ partial' = partial \cup {version}
  /\ UNCHANGED <<copied, version, runtime, half, relied>>

(* The rename, which finds nothing to move or something in its place only  *)
(* when another boot runs beside this one.                                 *)
Move(b) ==
  IF version \in partial /\ ~Present
  THEN /\ Goes(b, "move", "tidy")
       /\ runtime' = Put(runtime, version, Payload)
       /\ partial' = partial \ {version}
       /\ half' = half \ {version}
       /\ UNCHANGED <<copied, version, relied>>
  ELSE Goes(b, "move", "fail") /\ UNCHANGED <<diskVars, relied>>

(* RemoveLeftovers: what cannot be deleted, or not now, is left behind.    *)
Tidy(b) ==
  /\ Goes(b, "tidy", "notice")
  /\ \E kept \in SUBSET Others :
       /\ \E left \in [kept -> SUBSET Parts] :
            /\ \A v \in kept : left[v] \subseteq runtime[v]
            /\ runtime' = [v \in DOMAIN runtime \ (Others \ kept) |-> IF v \in kept THEN left[v] ELSE runtime[v]]
       /\ half' = (half \ Others) \cup kept
  /\ \E kept \in SUBSET partial : partial' = kept
  /\ UNCHANGED <<copied, version, relied>>

Notice(b) ==
  /\ Goes(b, "notice", "resolve")
  /\ relied' = (relied /\ boots[b].outcome \notin {"upgraded", "repaired"})
  /\ UNCHANGED diskVars

(* ResolveWheel; on Windows the payload is the runtime.                    *)
Resolve(b) ==
  /\ Goes(b, "resolve", IF ~copied \/ (Present /\ "wheel" \in runtime[version])
                        THEN "report" ELSE "fail")
  /\ UNCHANGED <<diskVars, relied>>

CopyStep(b) ==
  Ensure(b) \/ Clear(b) \/ Copy(b) \/ Move(b) \/ Tidy(b) \/ Notice(b) \/ Resolve(b)

-----------------------------------------------------------------------------
(* /setup in a Recorder that runs: pip installs the backends.              *)
Install ==
  /\ copied /\ Present
  /\ runtime' = [runtime EXCEPT ![version] = @ \cup {"backends"}]
  /\ relied' = TRUE
  /\ UNCHANGED <<copied, version, partial, half, boots>>

(* Somebody empties the folder, of what IsIntact looks for at least.       *)
Damage ==
  /\ copied /\ Present
  /\ \E gone \in {{"python"}, {"wheel"}, Payload} :
       runtime' = [runtime EXCEPT ![version] = @ \ gone]
  /\ UNCHANGED <<copied, version, partial, half, relied, boots>>

(* Another release is installed, newer or older.                           *)
Reinstall(v) == version' = v /\ UNCHANGED <<copied, runtime, partial, half, relied>>
=============================================================================
