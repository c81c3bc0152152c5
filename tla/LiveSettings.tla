----------------------------- MODULE LiveSettings -----------------------------
(***************************************************************************)
(* What the operator asked of live transcription, what runs and what the   *)
(* panel shows (live_control.py, live.py, moonshine_live.py,               *)
(* speech_gate.py): the settings a channel carries, its info, and the      *)
(* engine that was started with them.  The panel's form shows info and     *)
(* sends all it shows back on every apply; the Settings view sends a model *)
(* alone.  A request is a record of the fields it gives.  Applies come one *)
(* after another: what overlapping ones do to engines is EngineSwap.       *)
(*                                                                         *)
(* A threshold is in thousandths, and shown in hundredths.  One knob in    *)
(* milliseconds stands for the three.                                      *)
(***************************************************************************)
EXTENDS Integers, Sequences, FiniteSets

CONSTANTS
  LiveModels,   \* models that may be asked for
  Moonshines,   \* of the moonshine family: the others run in the child
  Fetched,      \* nb-whisper: their weights are fetched before the start
  Listed,       \* live entries of the catalog
  Languages,    \* of the form
  Thresholds,   \* of the configuration at boot
  Shown,        \* thresholds the form can hold: hundredths
  Knobs,        \* milliseconds
  MaxEdits      \* bound: fields of the form changed before an apply

ASSUME LiveAssumption ==
  /\ Moonshines \subseteq Listed /\ Listed \subseteq LiveModels
  /\ Fetched \subseteq LiveModels \ Moonshines
  /\ Thresholds \subseteq Nat /\ Shown \subseteq Nat /\ MaxEdits \in Nat
  /\ \A t \in Shown : t % 10 = 0

VARIABLES
  channel,   \* the family of recorder.live
  config,    \* its LiveConfig
  info,      \* what the panel reads
  spawned,    \* what runs: <<>>, or <<[model, language, vac, conf]>>
  chosen,    \* what the operator last picked of each setting (history)
  failed     \* a start failed, and none succeeded since (history)

gvars == <<channel, config, info, spawned, chosen, failed>>

GateKinds == {"tapscribe", "backend"}
Family(model) == IF model \in Moonshines THEN "moonshine" ELSE "whisper"

(* The divergence hooks: the child alone has a VAD of its own, speaks more *)
(* than English and validates confidence.                                  *)
Native(c) == c = "whisper"

Rounded(t) == ((t + 5) \div 10) * 10

(* A field of a request that is absent means "as it is".                   *)
Given(ask, field, current) == IF field \in DOMAIN ask THEN ask[field] ELSE current

-----------------------------------------------------------------------------
(* What a gate is built from, and what the gate kind is reported as: an    *)
(* engine without a VAD gets a gate, whatever its configuration carries.   *)
EffectiveGateConfig(c, cfg) ==
  IF cfg.gate = "backend" /\ ~Native(c) THEN [cfg EXCEPT !.gate = "tapscribe"] ELSE cfg

(* build_gate_for_config, for a new tap: <<>>, or the gate's numbers.      *)
BuildGate(cfg) == IF cfg.gate # "tapscribe" THEN <<>> ELSE <<[threshold |-> cfg.threshold, knob |-> cfg.knob]>>

(* _mirror_gate_info.                                                      *)
Mirrored(c, cfg, shows) ==
  [shows EXCEPT !.gate = EffectiveGateConfig(c, cfg).gate,
                !.threshold = Rounded(cfg.threshold), !.knob = cfg.knob,
                !.conf = IF Native(c) THEN <<cfg.conf>> ELSE @]

(* What a channel shows when it is made, and when it has started.          *)
Seeded(c, cfg) ==
  Mirrored(c, cfg, [model |-> cfg.model, language |-> IF Native(c) THEN cfg.language ELSE "en",
                    gate |-> "", threshold |-> 0, knob |-> 0, conf |-> <<>>])

(* What the engine is started with; Moonshine has no other setting.        *)
Engine(c, cfg) ==
  IF Native(c) THEN [model |-> cfg.model, language |-> cfg.language, vac |-> cfg.gate # "tapscribe", conf |-> <<cfg.conf>>]
  ELSE [model |-> cfg.model, language |-> "en", vac |-> FALSE, conf |-> <<>>]

(* The knobs of a request that differ, the threshold as it is displayed.   *)
ChangedKnobs(cfg, ask) ==
  {f \in DOMAIN ask \cap {"threshold", "knob"} :
     IF f = "threshold" THEN Rounded(ask[f]) # Rounded(cfg[f]) ELSE ask[f] # cfg[f]}

(* apply_gate_knobs.                                                       *)
KnobsApplied(cfg, ask) ==
  [f \in DOMAIN cfg |-> IF f \in ChangedKnobs(cfg, ask) THEN ask[f] ELSE cfg[f]]

(* matches.                                                                *)
RunsAlready(c, cfg, ask) ==
  /\ spawned # <<>>
  /\ Given(ask, "model", cfg.model) = cfg.model
  /\ Native(c) => Given(ask, "language", cfg.language) = cfg.language
  /\ LET inForce == EffectiveGateConfig(c, cfg).gate IN Given(ask, "gate", inForce) = inForce
  /\ Native(c) => Given(ask, "conf", cfg.conf) = cfg.conf

(* Mutant: the panel's echo of the gate in force is written like a choice. *)
TransitionWritesEcho(c, cfg, ask) ==
  [f \in DOMAIN cfg |-> IF f \in {"model", "language"} THEN cfg[f] ELSE Given(ask, f, cfg[f])]

(* begin_transition, of the configuration: the gate in force is no change. *)
Transition(c, cfg, ask) ==
  [f \in DOMAIN cfg |->
     IF \/ f \in {"model", "language"}
        \/ f = "gate" /\ Given(ask, f, "") = EffectiveGateConfig(c, cfg).gate
     THEN cfg[f] ELSE Given(ask, f, cfg[f])]

(* begin_transition, of info.                                              *)
Announced(c, shows, ask) ==
  [shows EXCEPT !.model = Given(ask, "model", @),
                !.language = IF Native(c) THEN Given(ask, "language", @) ELSE "en"]

(* The overrides that start writes; Moonshine takes no language.           *)
Overridden(c, cfg, ask) ==
  [cfg EXCEPT !.model = Given(ask, "model", @),
              !.language = IF Native(c) THEN Given(ask, "language", @) ELSE @]

-----------------------------------------------------------------------------
(* What of a configuration the operator picks in the form.                 *)
Carried(cfg) ==
  [f \in {"model", "language", "gate", "threshold", "knob"} |->
     IF f = "threshold" THEN Rounded(cfg[f]) ELSE cfg[f]]

BootConfigs ==
  [model : LiveModels, language : Languages, gate : GateKinds, conf : BOOLEAN,
   threshold : Thresholds, knob : Knobs]

GInit ==
  /\ channel = "whisper"
  /\ config \in BootConfigs
  /\ info = Seeded("whisper", config)
  /\ spawned = <<>> /\ failed = FALSE
  /\ chosen = Carried(config)

TargetFamily(ask) == Family(Given(ask, "model", config.model))

(* plan_live raises: a changed model must be in the catalog, and a gate    *)
(* kind one the target has.                                                *)
Refused(ask) ==
  \/ Given(ask, "model", config.model) \notin {config.model} \cup Listed
  \/ Given(ask, "gate", "tapscribe") \notin GateKinds
  \/ Given(ask, "gate", "tapscribe") = "backend" /\ ~Native(TargetFamily(ask))

(* What the operator picks with a request: what differs from what the form *)
(* showed, and all it showed when it goes to the other family; the         *)
(* language and the gate are no choice where the engine has but one.       *)
Chooses(ask, c) ==
  {f \in DOMAIN ask \cap DOMAIN chosen :
     /\ (f = "model" \/ c # channel \/ ask[f] # info[f])
     /\ f \in {"language", "gate"} => Native(c)}

Remembers(ask, c) ==
  chosen' = IF failed /\ spawned' # <<>> THEN Carried(config')
            ELSE [f \in DOMAIN chosen |-> IF f \in Chooses(ask, c) THEN ask[f] ELSE chosen[f]]

(* apply_live on a running engine that satisfies the request.              *)
AppliesKnobs(ask) ==
  /\ ~Refused(ask) /\ TargetFamily(ask) = channel /\ RunsAlready(channel, config, ask)
  /\ config' = KnobsApplied(config, ask)
  /\ info' = IF ChangedKnobs(config, ask) = {} THEN info ELSE Mirrored(channel, config', info)
  /\ Remembers(ask, channel)
  /\ UNCHANGED <<channel, spawned, failed>>

(* apply_live otherwise: a fresh channel for the other family, which       *)
(* carries the configuration; the start may fail before it has written its *)
(* overrides, while it fetches weights, or after.                          *)
Restarts(ask, ends) ==
  LET c == TargetFamily(ask)
      ready == Transition(c, config, ask)
      shows == Announced(c, IF c = channel THEN info ELSE Seeded(c, config), ask)
  IN  /\ ~Refused(ask) /\ ~(c = channel /\ RunsAlready(c, config, ask))
      /\ ends = "unfetched" => Given(ask, "model", config.model) \in Fetched
      /\ channel' = c
      /\ config' = IF ends = "unfetched" THEN ready ELSE Overridden(c, ready, ask)
      /\ info' = IF ends = "up" THEN Seeded(c, config') ELSE shows
      /\ spawned' = IF ends = "up" THEN <<Engine(c, config')>> ELSE <<>>
      /\ failed' = (ends # "up")
      /\ Remembers(ask, c)

(* A stop, or the end of the child.                                        *)
Ends ==
  /\ spawned # <<>> /\ spawned' = <<>>
  /\ UNCHANGED <<channel, config, info, chosen, failed>>

(* The panel's form, after some edits of what it shows, the Settings view, *)
(* and a client of the API.                                                *)
Forms ==
  {form \in [model : LiveModels, language : Languages, gate : GateKinds, threshold : Shown, knob : Knobs] :
     Cardinality({f \in DOMAIN form : form[f] # info[f]}) <= MaxEdits}

Asks == Forms \cup [model : LiveModels] \cup [conf : BOOLEAN]

GNext ==
  \/ \E ask \in Asks : AppliesKnobs(ask) \/ \E ends \in {"up", "unfetched", "failed"} : Restarts(ask, ends)
  \/ Ends

-----------------------------------------------------------------------------
(* The panel shows what the running engine was started with; and of the    *)
(* two layers that can gate a tap exactly one does: a new tap has a gate   *)
(* of TapScribe's just when the engine has no VAD on (_mirror_gate_info:   *)
(* "so the dashboard never reads a stale value").                          *)
ReportedIsInForce ==
  spawned # <<>> =>
    LET child == spawned[1]
        gate == BuildGate(EffectiveGateConfig(channel, config))
    IN  /\ Family(child.model) = channel
        /\ info.model = child.model /\ info.language = child.language /\ info.conf = child.conf
        /\ child.vac <=> gate = <<>>
        /\ child.vac <=> info.gate = "backend"
        /\ gate # <<>> => info.threshold = Rounded(gate[1].threshold) /\ info.knob = gate[1].knob

(* The form as the panel first shows it.                                   *)
Form == [f \in DOMAIN chosen |-> info[f]]

(* An apply of the untouched form is accepted, restarts nothing and        *)
(* changes nothing, on a pinned model too                                  *)
(* (test_reported_gate_kind_echoed_back_is_a_no_op_not_a_config_rewrite).  *)
EchoIsFree ==
  spawned # <<>> =>
    /\ ~Refused(Form) /\ TargetFamily(Form) = channel
    /\ RunsAlready(channel, config, Form) /\ ChangedKnobs(config, Form) = {}

(* The settings last picked are what the configuration carries, through    *)
(* applies of other settings, restarts and swaps to Moonshine and back     *)
(* (moonshine_live.py, "the operator's choices survive the roundtrip").    *)
ChoicesAreKept ==
  ~failed => chosen = Carried(config)

(* What was applied is in force, is shown, and stays.                      *)
AppliedIsInForce == ReportedIsInForce /\ EchoIsFree /\ ChoicesAreKept
=============================================================================
