--------------------------- MODULE NameResolution ---------------------------
(***************************************************************************)
(* The names the dashboard shows (name_resolution.py): who a speaker key   *)
(* of a session's transcript is, and in which sessions a Person appears.   *)
(*                                                                         *)
(* A registry is a function from person ids to [name, identities].  A      *)
(* session is [roster, runs, mapping, keys]: an entry of its roster is     *)
(* [name, source, slug, mode], `runs` gives each diarized identity its     *)
(* run, a mapping of a Voice <<identity, label>> is [person, run], and     *)
(* `keys` are the speaker keys of its transcript, [slug, label], with a    *)
(* blank label for a speaker of a plain slug.                              *)
(***************************************************************************)
EXTENDS Naturals, Sequences, FiniteSets

Blank == ""

(* slug_owners: the identities recorded under each slug.                   *)
Slugs(roster) == {roster[i].slug : i \in DOMAIN roster} \ {Blank}
Owners(roster, slug) == {i \in DOMAIN roster : roster[i].slug = slug}

(* A slug two taps share belongs to neither.                               *)
OwnerOf(roster, slug) ==
  IF Cardinality(Owners(roster, slug)) = 1 THEN Owners(roster, slug) ELSE {}

(* The names the bridge sent for some identities: one of them is taken.    *)
BridgeNames(roster, identities) ==
  {roster[i].name : i \in identities \cap DOMAIN roster} \ {Blank}

(* name_for_identity                                                       *)
ChosenNames(registry, identities) ==
  {registry[p].name : p \in {q \in DOMAIN registry : registry[q].identities \cap identities # {}}}
    \ {Blank}

(* The names a slug may show under, of which one is taken; none: the       *)
(* dashboard shows the slug itself.                                        *)
SlugNames(s, slug, registry) ==
  LET chosen == ChosenNames(registry, OwnerOf(s.roster, slug))
  IN  IF chosen # {} THEN chosen ELSE BridgeNames(s.roster, Owners(s.roster, slug))

(* _mapping_applies: a mapping counts while its stamp is the identity's    *)
(* current run, or no run is known.                                        *)
MappingApplies(s, voice) ==
  voice[1] \notin DOMAIN s.runs \/ s.mapping[voice].run = s.runs[voice[1]]

(* The Voices of the mapping that name a key of the transcript: the        *)
(* identity of its slug says which mapping to read.                        *)
MappedAs(s, key) ==
  {v \in DOMAIN s.mapping :
     v[1] \in OwnerOf(s.roster, key.slug) /\ v[2] = key.label /\ MappingApplies(s, v)}

VoicePerson(s, key, registry) ==
  {s.mapping[v].person : v \in MappedAs(s, key)} \cap DOMAIN registry

(* _person_display: the chosen name, else a bridge name of this session;   *)
(* without either the key reads as its placeholder.                        *)
PersonDisplay(s, p, registry) ==
  IF registry[p].name # Blank THEN {registry[p].name}
  ELSE BridgeNames(s.roster, registry[p].identities)

(* resolve_session_names: the operator's alias of a key, of a slug or of a *)
(* Voice, comes first.                                                     *)
KeyNames(s, aliases, key, registry) ==
  IF key \in DOMAIN aliases THEN {aliases[key]}
  ELSE IF key.label = Blank THEN SlugNames(s, key.slug, registry)
  ELSE UNION {PersonDisplay(s, p, registry) : p \in VoicePerson(s, key, registry)}

(* _sessions_by_voice_pointer, of one session.                             *)
PointedAt(s) == {s.mapping[v].person : v \in {w \in DOMAIN s.mapping : MappingApplies(s, w)}}

(* build_people_view: a Person counts in a session where an identity of    *)
(* theirs occurs, or where a mapping points at them.                       *)
AppearsIn(s, p, registry) ==
  p \in PointedAt(s) \/ registry[p].identities \cap DOMAIN s.roster # {}
=============================================================================
