--------------------------------- MODULE Setup ---------------------------------
(***************************************************************************)
(* Installing model families: the install picker (install_picker.py), run  *)
(* from a terminal or by the server's /setup page (setup_install.py,       *)
(* setup_state.py, routes/setup.py), around three files: the saved         *)
(* selection, the sidecar of skipped families, and the stamp of the last   *)
(* install, by which an unchanged selection skips pip.                     *)
(*                                                                         *)
(* A choice of a family is [enabled, backend, live]; an extra is a pair    *)
(* <<family, backend>>, or one of the two that belong to Whisper.          *)
(***************************************************************************)
EXTENDS Integers, Sequences, FiniteSets

CONSTANTS
  Families,    \* rows of the picker, of {"whisper", "voxtral", "parakeet", "moonshine"}
  Pickers,     \* picker processes
  Checkouts,   \* [host, saved, stamp]: a machine, and the saved selection and
               \* the stamped install an earlier version left in the checkout
  Picks,       \* what /setup may ask for: catalog family -> kind
  MaxVersions, \* bound: versions of the package
  MaxLaunches  \* bound: pickers launched

ASSUME SetupAssumption ==
  /\ Families \subseteq {"whisper", "voxtral", "parakeet", "moonshine"}
  /\ MaxVersions \in Nat /\ MaxLaunches \in Nat

(* The first format of the file is older than the family /setup does not   *)
(* manage.                                                                 *)
ASSUME CheckoutsAssumption ==
  \A c \in Checkouts :
    /\ c.saved.version \in 0..2
    /\ c.saved.version = 1 => "moonshine" \notin DOMAIN c.saved.choices
    /\ c.stamp # <<>> => c.stamp[1].version \in 0..1

VARIABLES
  host,      \* the machine's capabilities
  saved,     \* .tapscribe-install.json: [version, choices]; version 0: no
             \* file, or one that does not parse; 1: only the enabled ones
  warnings,  \* the sidecar: families skipped for a backend that is gone
  stamp,     \* <<>> or <<[extras, version]>>
  env,       \* [package, extras]: whether the package is installed, and
             \* each installed extra with the version it was resolved at
  version,   \* what the fingerprint of the package stands for
  outlived,  \* the stamp is of a package that was gone since (history)
  picker,    \* picker process -> where it is; `alone`: no other ran since
             \* it started, `misled`: it trusted such a stamp (history)
  slot,      \* app.state.setup_install_active: the picker it was claimed for
  launches

svars == <<host, saved, warnings, stamp, env, version, outlived, picker, slot, launches>>

-----------------------------------------------------------------------------
(* FAMILIES, and what a machine can run of them.                           *)
Declared(f) == IF f = "voxtral" THEN {"cpu"} ELSE {"cpu", "mlx"}

(* declares_backend: `both` needs two.                                     *)
Declares(f, b) == IF b = "both" THEN Cardinality(Declared(f)) > 1 ELSE b \in Declared(f)

Available(f, h) == {b \in Declared(f) : b = "mlx" => h.mlx}
Natural(f, h) == IF "mlx" \in Available(f, h) THEN "mlx" ELSE "cpu"

Cycleable(f, h) ==
  Available(f, h) \cup IF Cardinality(Available(f, h)) > 1 THEN {"both"} ELSE {}

Choice(enabled, backend, live) == [enabled |-> enabled, backend |-> backend, live |-> live]

(* defaults_for                                                            *)
Defaults(h) == [f \in Families |-> Choice(f = "whisper", Natural(f, h), TRUE)]

(* A backend that no version of the catalog had is not read.               *)
Read(f, choice, h) ==
  Choice(choice.enabled, IF choice.backend \in {"cpu", "mlx", "both"} THEN choice.backend ELSE Natural(f, h),
         choice.live)

(* Selection.load; a ticked family of the old format had every backend.    *)
LoadSelection(file, h) ==
  CASE file.version = 0 -> Defaults(h)
    [] file.version = 1 ->
         [f \in Families |->
            LET on == f \in DOMAIN file.choices
            IN  Choice(on, IF on /\ "mlx" \in Available(f, h) THEN "both" ELSE Natural(f, h), TRUE)]
    [] OTHER ->
         [f \in Families |->
            IF f \in DOMAIN file.choices THEN Read(f, file.choices[f], h)
            ELSE Choice(FALSE, Natural(f, h), TRUE)]

(* effective_backends: a backend this machine cannot run is replaced, one  *)
(* the catalog does not have (any more) is not.                            *)
EffectiveBackends(f, choice, h) ==
  LET avail == Available(f, h)
  IN  IF choice.backend = "both" THEN avail
      ELSE IF choice.backend \in avail THEN {choice.backend}
      ELSE IF Declares(f, choice.backend) THEN {"cpu"} ELSE {}

ExtrasOf(f, choice, h) ==
  LET backends == IF choice.enabled THEN EffectiveBackends(f, choice, h) ELSE {}
  IN  {<<f, b>> : b \in backends}
        \cup IF f = "whisper" /\ choice.live /\ backends # {} THEN {<<f, "live">>} ELSE {}

(* resolve_extras                                                          *)
ResolveExtras(sel, h) ==
  LET all == UNION {ExtrasOf(f, sel[f], h) : f \in Families}
  IN  all \cup IF h.cuda /\ <<"whisper", "cpu">> \in all THEN {<<"whisper", "cuda-libs">>} ELSE {}

(* removed_backend_families                                                *)
Removed(sel) == {f \in Families : sel[f].enabled /\ ~Declares(f, sel[f].backend)}

-----------------------------------------------------------------------------
(* /setup speaks of the families of the catalog; the picker installs by    *)
(* backend, so two of them share a row.                                    *)
PickerFamily(c) == IF c = "nb-whisper" THEN "whisper" ELSE c

Managed == Families \ {"moonshine"}

(* _family_state: what /setup offers for a family on this machine.         *)
Kinds(c) == IF c = "nb-whisper" THEN {"cuda", "cpu"} ELSE {"mlx", "cuda", "cpu"}
Offered(c, h) ==
  Kinds(c) \cap ({"cpu"} \cup (IF h.mlx THEN {"mlx"} ELSE {}) \cup IF h.cuda THEN {"cuda"} ELSE {})

(* to_picker_state                                                         *)
ToPickerState(pick, live) ==
  [f \in Managed |->
     LET chosen == {c \in DOMAIN pick : PickerFamily(c) = f}
         backends == {IF pick[c] = "mlx" THEN "mlx" ELSE "cpu" : c \in chosen}
     IN  Choice(chosen # {},
                IF Cardinality(backends) = 2 THEN "both"
                ELSE IF backends = {"mlx"} THEN "mlx" ELSE "cpu",
                f = "whisper" => live)]

(* Mutant: the file is rewritten with what /setup manages.                 *)
MergeReplaces(file, fresh) == [version |-> 2, choices |-> fresh]

(* {**g, **f}                                                              *)
Over(f, g) == [x \in DOMAIN f \cup DOMAIN g |-> IF x \in DOMAIN f THEN f[x] ELSE g[x]]

(* merge_picker_state                                                      *)
MergeState(file, fresh) ==
  [version |-> 2, choices |-> IF file.version = 2 THEN Over(fresh, file.choices) ELSE fresh]

-----------------------------------------------------------------------------
Resting == [phase |-> "idle"]
NobodyRuns == \A p \in Pickers : picker[p] = Resting

(* Processes are named as they are needed.                                 *)
NextIdle(p) == p = CHOOSE q \in Pickers : picker[q] = Resting

SInit ==
  /\ \E c \in Checkouts :
       /\ host = c.host /\ saved = c.saved /\ stamp = c.stamp
       /\ env = [package |-> TRUE,
                 extras |-> IF c.stamp = <<>> THEN <<>>
                            ELSE [e \in c.stamp[1].extras |-> c.stamp[1].version]]
  /\ warnings = {} /\ outlived = FALSE
  /\ version = 1 /\ slot = {} /\ launches = 0
  /\ picker = [p \in Pickers |-> Resting]

Becomes(p, from, new) == picker[p].phase = from /\ picker' = [picker EXCEPT ![p] = new]

(* A terminal picker (start.sh runs one before the server), asked to       *)
(* prompt or not.                                                          *)
Launch(p) ==
  /\ NobodyRuns /\ NextIdle(p) /\ slot = {} /\ launches < MaxLaunches
  /\ \E prompt \in BOOLEAN :
       Becomes(p, "idle", [phase |-> IF prompt THEN "editing" ELSE "loaded",
                           by |-> "terminal", alone |-> TRUE, sel |-> LoadSelection(saved, host)])
  /\ launches' = launches + 1
  /\ UNCHANGED <<host, saved, warnings, stamp, env, version, outlived, slot>>

(* _handle_key: the operator ticks, picks a backend, or switches the live  *)
(* channel of a row; `r` goes back to the defaults.                        *)
Edited(f, choice) ==
  {[choice EXCEPT !.enabled = ~@]}
    \cup {[choice EXCEPT !.backend = b] : b \in Cycleable(f, host)}
    \cup IF f = "whisper" THEN {[choice EXCEPT !.live = ~@]} ELSE {}

Edit(p) ==
  /\ picker[p].phase = "editing"
  /\ \/ \E f \in Families : \E c \in Edited(f, picker[p].sel[f]) :
          picker' = [picker EXCEPT ![p].sel[f] = c]
     \/ picker' = [picker EXCEPT ![p].sel = Defaults(host)]
  /\ UNCHANGED <<host, saved, warnings, stamp, env, version, outlived, slot, launches>>

(* The selection and the sidecar are written, and what to install is known.*)
Save(p) ==
  /\ picker[p].phase \in {"editing", "loaded"}
  /\ LET sel == picker[p].sel
     IN  /\ saved' = [version |-> 2, choices |-> sel]
         /\ warnings' = Removed(sel)
         /\ picker' = [picker EXCEPT ![p] = [phase |-> "saved", by |-> @.by, alone |-> @.alone,
                                             extras |-> ResolveExtras(sel, host), misled |-> FALSE]]
  /\ UNCHANGED <<host, stamp, env, version, outlived, slot, launches>>

(* Mutant: the version is not compared.                                    *)
CurrentForExtras(extras) == stamp # <<>> /\ stamp[1].extras = extras

(* install_is_current                                                      *)
InstallIsCurrent(extras) == stamp = <<[extras |-> extras, version |-> version]>>

Check(p) ==
  /\ Becomes(p, "saved",
       IF InstallIsCurrent(picker[p].extras) /\ env.package
       THEN [picker[p] EXCEPT !.phase = "done", !.misled = outlived]
       ELSE [picker[p] EXCEPT !.phase = "pip"])
  /\ UNCHANGED <<host, saved, warnings, stamp, env, version, outlived, slot, launches>>

(* pip adds what is asked for, and takes nothing away.  When the package   *)
(* had gone, the stamp is from before that until this install writes its   *)
(* own.                                                                    *)
PipSucceeds(p) ==
  /\ Becomes(p, "pip", [picker[p] EXCEPT !.phase = "installed"])
  /\ env' = [package |-> TRUE, extras |-> Over([e \in picker[p].extras |-> version], env.extras)]
  /\ outlived' = (outlived \/ (~env.package /\ stamp # <<>>))
  /\ UNCHANGED <<host, saved, warnings, stamp, version, slot, launches>>

PipFails(p) ==
  /\ Becomes(p, "pip", [picker[p] EXCEPT !.phase = "failed"])
  /\ UNCHANGED <<host, saved, warnings, stamp, env, version, outlived, slot, launches>>

(* write_install_stamp; it may not be writable.                            *)
WriteStamp(p) ==
  /\ Becomes(p, "installed", [picker[p] EXCEPT !.phase = "done"])
  /\ \/ UNCHANGED <<stamp, outlived>>
     \/ stamp' = <<[extras |-> picker[p].extras, version |-> version]>> /\ outlived' = FALSE
  /\ UNCHANGED <<host, saved, warnings, env, version, slot, launches>>

(* The process ends: with its exit code, killed, or the operator quits.    *)
(* The stream of the /setup request that is still read gives back the slot.*)
Exits(p) ==
  /\ picker[p] # Resting
  /\ picker' = [picker EXCEPT ![p] = Resting]
  /\ slot' = slot \ {p}
  /\ UNCHANGED <<host, saved, warnings, stamp, env, version, outlived, launches>>

-----------------------------------------------------------------------------
(* api_setup_install: one stream at a time; the selection is written, then *)
(* the picker is spawned on it.                                            *)
Request(p) ==
  /\ slot = {} /\ picker[p] = Resting /\ NextIdle(p) /\ launches < MaxLaunches
  /\ \A q \in Pickers : picker[q] # Resting => picker[q].by = "setup"
  /\ \E pick \in Picks, live \in BOOLEAN :
         /\ \A c \in DOMAIN pick : pick[c] \in Offered(c, host)
         /\ saved' = MergeState(saved, ToPickerState(pick, live))
         /\ picker' = [q \in Pickers |->
              IF q = p THEN [phase |-> "spawned", by |-> "setup", alone |-> NobodyRuns, pick |-> pick]
              ELSE IF picker[q] = Resting THEN Resting ELSE [picker[q] EXCEPT !.alone = FALSE]]
  /\ slot' = {p} /\ launches' = launches + 1
  /\ UNCHANGED <<host, warnings, stamp, env, version, outlived>>

Reads(p) ==
  /\ Becomes(p, "spawned", [phase |-> "loaded", by |-> "setup", alone |-> picker[p].alone,
                           sel |-> LoadSelection(saved, host)])
  /\ UNCHANGED <<host, saved, warnings, stamp, env, version, outlived, slot, launches>>

(* The client goes away: the stream ends and gives back the slot, and      *)
(* nothing stops the picker it spawned.                                    *)
Disconnect ==
  /\ slot # {} /\ slot' = {}
  /\ UNCHANGED <<host, saved, warnings, stamp, env, version, outlived, picker, launches>>

-----------------------------------------------------------------------------
(* Between two launches: the package is upgraded or uninstalled, or the    *)
(* checkout moves to another machine and gets an environment there.        *)
Upgrade ==
  /\ NobodyRuns /\ version < MaxVersions /\ version' = version + 1
  /\ UNCHANGED <<host, saved, warnings, stamp, env, outlived, picker, slot, launches>>

(* Uninstalled, what it pulled in stays; gone with its environment, only   *)
(* the stamp may.                                                          *)
Uninstall ==
  /\ NobodyRuns /\ env.package
  /\ \E left \in {env.extras, <<>>} : env' = [package |-> FALSE, extras |-> left]
  /\ UNCHANGED <<host, saved, warnings, stamp, version, outlived, picker, slot, launches>>

Moves ==
  /\ NobodyRuns /\ host' \in {c.host : c \in Checkouts} \ {host}
  /\ env' = [package |-> TRUE, extras |-> <<>>] /\ stamp' = <<>> /\ outlived' = FALSE
  /\ UNCHANGED <<saved, warnings, version, picker, slot, launches>>

SNext ==
  \/ \E p \in Pickers :
       \/ Launch(p) \/ Edit(p) \/ Save(p) \/ Check(p) \/ PipSucceeds(p) \/ PipFails(p)
       \/ WriteStamp(p) \/ Exits(p) \/ Request(p) \/ Reads(p)
  \/ Disconnect \/ Upgrade \/ Uninstall \/ Moves

-----------------------------------------------------------------------------
(* What a launch needs is there, at the version it runs.                   *)
Installed(extras) ==
  /\ env.package
  /\ \A e \in extras : e \in DOMAIN env.extras /\ env.extras[e] = version

(* A picker that reports success leaves the package and every extra it     *)
(* resolved installed at the version it runs, whether it ran pip or        *)
(* skipped it (install_is_current, package_is_installed).  Left out: a     *)
(* picker misled by a stamp that outlived its package, which came back     *)
(* with an install that ended before it wrote its own (README, Known       *)
(* disagreements).                                                         *)
DoneMeansInstalled ==
  \A p \in Pickers :
    picker[p].phase = "done" => picker[p].misled \/ Installed(picker[p].extras)

(* What the operator chose for a family changes only when they choose      *)
(* again: in a prompt, or in /setup for a family it manages.  A run        *)
(* without a prompt, an upgrade, a move to a machine without that backend  *)
(* and an install of other families all keep it.  (Of two pickers at once  *)
(* the last to write wins.)                                                *)
ChoicesKept ==
  [][saved' # saved => \A f \in Families :
       \/ LoadSelection(saved', host)[f] = LoadSelection(saved, host)[f]
       \/ \E p \in Pickers : picker[p].phase = "editing" /\ picker'[p].phase = "saved"
       \/ f \in Managed /\ slot = {} /\ slot' # {}
       \/ \E p \in Pickers :
            picker'[p].phase = "saved" /\ picker[p].phase # "saved" /\ ~picker[p].alone]_svars
=============================================================================
