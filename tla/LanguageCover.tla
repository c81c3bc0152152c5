--------------------------- MODULE LanguageCover ---------------------------
(***************************************************************************)
(* Which models transcribe a meeting, on which backend, and whose          *)
(* transcript of a region wins (ADR-0010, ADR-0011): the catalog's lookups *)
(* (transcribers/catalog.py), the language policy of a request             *)
(* (batch_transcribe.py) and the selector (language_select.py).            *)
(*                                                                         *)
(* A registry is a function from model ids to entries                      *)
(*   [available, languages, contexts, backends]                            *)
(* whose backends are a sequence of bindings [kinds, installed].  A        *)
(* specialist table is a function from some languages to model ids.        *)
(***************************************************************************)
EXTENDS Naturals, Sequences, FiniteSets, SequencesExt

NoLanguage == "none"
Rejected == "rejected"   \* KeyError or RuntimeError: a 400 at the routes

KindOrder == <<"mlx", "cuda", "cpu">>   \* AUTO_RESOLUTION_ORDER

SupportedKinds(entry) == UNION {entry.backends[i].kinds : i \in DOMAIN entry.backends}

FixedLanguage(entry) ==
  IF Cardinality(entry.languages) = 1 /\ entry.languages # {"auto"}
  THEN CHOOSE l \in entry.languages : TRUE
  ELSE NoLanguage

IsInstalled(entry, machine) ==
  /\ entry.available
  /\ \E i \in DOMAIN entry.backends :
       /\ entry.backends[i].kinds \cap machine # {}
       /\ entry.backends[i].installed

ForContext(registry, context, onlyInstalled, machine) ==
  {m \in DOMAIN registry :
     /\ context \in registry[m].contexts
     /\ onlyInstalled => IsInstalled(registry[m], machine)}

(* The first binding that serves a kind; an explicit pick is not gated on  *)
(* what is installed.                                                      *)
FirstBinding(entry, kind, gated) ==
  SelectInSeq(entry.backends, LAMBDA b : kind \in b.kinds /\ (gated => b.installed))

(* TranscriberRegistry.resolve: <<kind, index of the binding>>.            *)
Resolve(registry, model, preference, machine) ==
  IF model \notin DOMAIN registry \/ ~registry[model].available THEN Rejected
  ELSE LET gated == preference = "auto"
           able == {i \in DOMAIN KindOrder :
                      /\ KindOrder[i] \in machine
                      /\ preference \in {"auto", KindOrder[i]}
                      /\ FirstBinding(registry[model], KindOrder[i], gated) # 0}
       IN  IF able = {} THEN Rejected
           ELSE LET kind == KindOrder[CHOOSE i \in able : \A j \in able : i <= j]
                IN  <<kind, FirstBinding(registry[model], kind, gated)>>

(* resolve_batch_model: batch-model.txt, if it can still run a batch.      *)
BatchModel(registry, configured, default) ==
  IF configured \in DOMAIN registry /\ "batch" \in registry[configured].contexts
  THEN configured
  ELSE default

(* specialist_table_with_env_overrides: rows are repointed, never added.   *)
OverriddenTable(base, environ) ==
  [l \in DOMAIN base |-> IF l \in DOMAIN environ THEN environ[l] ELSE base[l]]

EffectiveSpecialists(specialists, registry) ==
  {l \in DOMAIN specialists : specialists[l] \in DOMAIN registry}

-----------------------------------------------------------------------------
(* candidate_language_codes, as the set it is a listing of.                *)
CandidateLanguages(registry) ==
  (UNION {registry[m].languages : m \in DOMAIN registry}) \ {"auto"}

(* _effective_candidate_languages: the meeting's own languages that the    *)
(* catalog knows, each once; else the configured ones.                     *)
EffectiveLanguages(override, configured, registry) ==
  LET known == SelectSeq(override, LAMBDA l : l \in CandidateLanguages(registry))
      once == FoldLeft(LAMBDA s, l : IF Contains(s, l) THEN s ELSE Append(s, l), <<>>, known)
  IN  IF once # <<>> THEN once ELSE configured

(* _resolve_language_plan: the pin, the set the generalist detects among,  *)
(* the languages whose specialists join.                                   *)
LanguagePlan(explicit, languages) ==
  IF explicit # NoLanguage THEN [pin |-> explicit, detect |-> <<>>, cover |-> <<>>]
  ELSE IF Len(languages) = 1
  THEN [pin |-> languages[1], detect |-> <<>>, cover |-> languages]
  ELSE [pin |-> NoLanguage, detect |-> languages, cover |-> languages]

CoverModels(languages, generalist, specialists, registry) ==
  FoldLeft(LAMBDA models, l :
             IF \/ l \notin EffectiveSpecialists(specialists, registry)
                \/ Contains(models, specialists[l])
             THEN models
             ELSE Append(models, specialists[l]),
           <<generalist>>, languages)

(* The request's model keeps the operator's backend; a specialist that     *)
(* joined it picks its own (_run_cover).                                   *)
CoverBackend(model, generalist, preference) ==
  IF model = generalist THEN preference ELSE "auto"

(* _pick_primary with SpecialistRoutingSelector: the index of the winner   *)
(* among candidates [model, language], the generalist first.               *)
Winner(candidates, specialists) ==
  LET detected == candidates[1].language
      routed == SelectInSeq(candidates, LAMBDA c : c.model = specialists[detected])
  IN  IF /\ Len(candidates) > 1
         /\ detected \in DOMAIN specialists
         /\ routed # 0
      THEN routed
      ELSE 1

(* AcousticConfidenceSelector, over the scores of the candidates, in       *)
(* units of log probability; NoScore when a transcript has none.           *)
NoScore == "no score"
MostConfident(scores) ==
  IF \E i \in DOMAIN scores : scores[i] = NoScore THEN 1
  ELSE CHOOSE i \in DOMAIN scores :
         \A j \in DOMAIN scores : scores[j] < scores[i] \/ (scores[j] = scores[i] /\ i <= j)

=============================================================================
