------------------------------ MODULE ServerParts ------------------------------
(***************************************************************************)
(* The parts of the server that share no variable with one another: the    *)
(* model cache, the live engines under swaps, the live settings under      *)
(* applies, people and their names, the setup of model families, the way   *)
(* into the dashboard, its list of recordings, the operator's settings,    *)
(* and two algorithms of the transcription, on inputs of their own.  A     *)
(* step of one part leaves the others alone, so each of their properties   *)
(* can be checked while the other parts rest: a behaviour is of one part,  *)
(* chosen at its start.                                                    *)
(***************************************************************************)
EXTENDS ModelCache, EngineSwap, LiveSettings, People, Setup, LoginLinks, OperatorConfig,
        SessionListing, VoiceJoin, LanguageCover

CONSTANTS
  Joins,    \* inputs of the join: [segs, spans]
  Covers    \* inputs of the cover: [registry, machine, languages, generalist, specialists]

VARIABLES
  part,     \* the part that runs
  input     \* of the algorithms: <<>>, or one of Joins or Covers

partsVars == <<part, input, vars, evars, gvars, pvars, svars, lvars, ovars, wvars>>

Algorithms == {"join", "cover"}

(* Where a part has several initial states, the one it rests in.           *)
Rests(p) ==
  CASE p = "models" -> ttl = "zero" /\ key = [u \in Uses |-> CHOOSE k \in Keys : TRUE]
    [] p = "engines" -> call = [r \in Calls |-> Wanted("stop")]
    [] p = "live"   -> config = CHOOSE c \in BootConfigs : TRUE
    [] p = "setup"  -> LET c == CHOOSE c \in Checkouts : TRUE IN host = c.host /\ saved = c.saved
    [] p = "login"  -> metadata = TRUE
    [] p = "config" -> coarse = FALSE /\ variable = ""
    [] p = "listing" -> folder = CHOOSE f \in Folders : TRUE
    [] OTHER -> TRUE

PartsInit ==
  /\ part \in {"models", "engines", "live", "people", "setup", "login", "config", "listing"} \cup Algorithms
  /\ input \in IF part = "join" THEN Joins ELSE IF part = "cover" THEN Covers ELSE {<<>>}
  /\ \A p \in {"models", "engines", "live", "setup", "login", "config", "listing"} \ {part} : Rests(p)
  /\ Init /\ EInit /\ GInit /\ PInit /\ SInit /\ LInit /\ OInit /\ WInit

PartsNext ==
  /\ UNCHANGED <<part, input>>
  /\ \/ part = "models" /\ Next /\ UNCHANGED <<evars, gvars, pvars, svars, lvars, ovars, wvars>>
     \/ part = "engines" /\ ENext /\ UNCHANGED <<vars, gvars, pvars, svars, lvars, ovars, wvars>>
     \/ part = "live" /\ GNext /\ UNCHANGED <<vars, evars, pvars, svars, lvars, ovars, wvars>>
     \/ part = "people" /\ PNext /\ UNCHANGED <<vars, evars, gvars, svars, lvars, ovars, wvars>>
     \/ part = "setup" /\ SNext /\ UNCHANGED <<vars, evars, gvars, pvars, lvars, ovars, wvars>>
     \/ part = "login" /\ LNext /\ UNCHANGED <<vars, evars, gvars, pvars, svars, ovars, wvars>>
     \/ part = "listing" /\ WNext /\ UNCHANGED <<vars, evars, gvars, pvars, svars, lvars, ovars>>
     \/ part = "config" /\ ONext /\ UNCHANGED <<vars, evars, gvars, pvars, svars, lvars, wvars>>

PartsSpec == PartsInit /\ [][PartsNext]_partsVars

-----------------------------------------------------------------------------
(* Diarization moves speech between speakers and nothing else: the pieces  *)
(* of a segment tile it, its words are said once and in order, and the     *)
(* merge counts as much speech and as many unsure segments with Voices as  *)
(* without (voice_join._tile, session_merge.merge_session).                *)
TileTheSegment(pieces, seg) ==
  /\ pieces[1].start = seg.start /\ Last(pieces).end = seg.end
  /\ \A j \in 1..Len(pieces) : pieces[j].start <= pieces[j].end
  /\ \A j \in 2..Len(pieces) : pieces[j].start = pieces[j - 1].end
  /\ FlattenSeq([j \in 1..Len(pieces) |-> pieces[j].words]) = seg.words

CountAlike(diarized, plain) ==
  /\ diarized.unsure = plain.unsure
  /\ MapThenSumSet(LAMBDA l : diarized.speaking[l], DOMAIN diarized.speaking) = plain.speaking[None]

SpeechIsCountedOnce ==
  part = "join" =>
    /\ \A i \in 1..Len(input.segs) :
         TileTheSegment(AttributeSegment(input.segs[i], input.spans), input.segs[i])
    /\ CountAlike(MergeSession(input.segs, input.spans), MergeSession(input.segs, {}))

(* Looking only at the Voices around a segment never changes who said what *)
(* (voice_join._window: "narrowing can never change an answer").           *)
NarrowingIsExact ==
  part = "join" =>
    \A i \in 1..Len(input.segs) :
      AttributeSegment(input.segs[i], input.spans) = AttributeAmong(input.segs[i], input.spans)

(* Who said what: speech is counted once, and the narrowed search for its  *)
(* Voices answers as the full one.                                         *)
JoinIsExact == SpeechIsCountedOnce /\ NarrowingIsExact

(* A meeting's cover names each model once, the request's own first, with  *)
(* the specialist of every declared language that the catalog has; and     *)
(* whatever the picker shows as installed can be loaded on this machine,   *)
(* on a backend that is installed (catalog.is_installed, resolve).         *)
CoverCanRun ==
  part = "cover" =>
    LET cover == CoverModels(input.languages, input.generalist, input.specialists, input.registry)
    IN  /\ cover[1] = input.generalist
        /\ \A i, j \in 1..Len(cover) : cover[i] = cover[j] => i = j
        /\ Range(cover) = {input.generalist} \cup
             {input.specialists[l] : l \in
                Range(input.languages) \cap EffectiveSpecialists(input.specialists, input.registry)}
        /\ \A m \in DOMAIN input.registry :
             LET found == Resolve(input.registry, m, "auto", input.machine)
             IN  /\ IsInstalled(input.registry[m], input.machine) <=> found # Rejected
                 /\ found # Rejected => input.registry[m].backends[found[2]].installed

(* The pure algorithms on all small inputs: the join of words to Voices,   *)
(* and the cover of several languages (voice_join.merge_session,           *)
(* catalog.cover_models).                                                  *)
AlgorithmsAreExact == JoinIsExact /\ CoverCanRun
=============================================================================
