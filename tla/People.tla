-------------------------------- MODULE People --------------------------------
(***************************************************************************)
(* The People registry and what points at it (people.py, roster.py,        *)
(* voices.py, batch_diarize.py, routes/people.py and the Voice mapping of  *)
(* sessions.py): taps leave their identities in a session's roster, the    *)
(* poll of the dashboard binds each to a Person, a diarization gives a     *)
(* multi-person tap Voices, and the operator names people and Voices.      *)
(*                                                                         *)
(* Every handler runs between two awaits of the event loop and is one      *)
(* action; where it writes two files, an action of its own stops after     *)
(* the first.                                                              *)
(***************************************************************************)
EXTENDS NameResolution, SequencesExt

CONSTANTS
  Sessions,    \* session names
  Taps,        \* what a tap of a session brings: [session, identity, name,
               \* slug, mode, recorded]
  Labels,      \* the Voices a diarization run finds in a tap
  TypedNames,  \* names the operator types
  MaxPersons,  \* bound: persons ever created
  MaxRuns      \* bound: diarization runs ever started

ASSUME PeopleAssumption ==
  /\ MaxPersons \in Nat /\ MaxRuns \in Nat
  /\ Blank \notin Labels \cup TypedNames /\ IsFiniteSet(Taps)

VARIABLES
  registry,    \* people.json: id -> [name, identities]
  created,      \* persons created so far; the next id
  sessions,    \* session -> [roster, runs, mapping, keys]; a key
               \* also carries the run whose Voice it is (0: none)
  lastRun      \* diarization runs started so far

pvars == <<registry, created, sessions, lastRun>>

NoSession == [roster |-> <<>>, runs |-> <<>>, mapping |-> <<>>, keys |-> {}]

PInit ==
  /\ registry = <<>> /\ created = 0 /\ lastRun = 0
  /\ sessions = [s \in Sessions |-> NoSession]

Change(s, field, value) == sessions' = [sessions EXCEPT ![s] = [@ EXCEPT ![field] = value]]

(* A function without some of its points; one that another overrides.      *)
Less(f, gone) == [x \in DOMAIN f \ gone |-> f[x]]
Onto(new, f) == [x \in DOMAIN new \cup DOMAIN f |-> IF x \in DOMAIN new THEN new[x] ELSE f[x]]
Entered(f, x, y) == Onto([z \in {x} |-> y], f)

-----------------------------------------------------------------------------
(* The roster: record_occurrence, once per connection and per utterance.   *)
(* Name: the latest one sent; source and mode only ever upgrade; the slug  *)
(* of the first WAV stays.                                                 *)
Occurrence(old, t) ==
  [name   |-> IF t.name # Blank THEN t.name ELSE old.name,
   source |-> IF t.recorded THEN "recorded" ELSE old.source,
   slug   |-> IF t.recorded /\ old.slug = Blank THEN t.slug ELSE old.slug,
   mode   |-> IF t.mode = "multi" THEN "multi" ELSE old.mode]

Occurs(t) ==
  LET s == t.session
      roster == sessions[s].roster
      old == IF t.identity \in DOMAIN roster THEN roster[t.identity]
             ELSE [name |-> Blank, source |-> "live", slug |-> Blank, mode |-> "single"]
  IN  /\ s \in DOMAIN sessions
      /\ Change(s, "roster", Entered(roster, t.identity, Occurrence(old, t)))
      /\ UNCHANGED <<registry, created, lastRun>>

-----------------------------------------------------------------------------
(* The registry.                                                           *)
OwnedIds == UNION {registry[p].identities : p \in DOMAIN registry}

(* _coerce_people, each time the file is read: an identity stays with the  *)
(* first Person that has it, and one left with none, or with neither       *)
(* identity nor name, is dropped.  Ids are in the order of the file.       *)
Coerced(file) ==
  LET Mine(p) == file[p].identities \ UNION {file[q].identities : q \in {q \in DOMAIN file : q < p}}
      Stays(p) == Mine(p) # {} \/ (file[p].identities = {} /\ file[p].name # Blank)
  IN  [p \in {p \in DOMAIN file : Stays(p)} |-> [file[p] EXCEPT !.identities = Mine(p)]]

(* sync, on the poll of the dashboard: each identity that no Person owns   *)
(* gets one.                                                               *)
SyncPeople ==
  LET fresh == SetToSeq((UNION {DOMAIN sessions[s].roster : s \in DOMAIN sessions}) \ OwnedIds)
  IN  /\ fresh # <<>> /\ created + Len(fresh) <= MaxPersons
      /\ created' = created + Len(fresh)
      /\ registry' = Onto([p \in (created + 1)..created' |->
                             [name |-> Blank, identities |-> {fresh[p - created]}]], registry)
      /\ UNCHANGED <<sessions, lastRun>>

(* api_people_rename: a Person with no identity is found by name alone.    *)
MayRename(p, name) ==
  name # Blank \/ registry[p].identities # {}

Rename(p, name) ==
  /\ p \in DOMAIN registry /\ MayRename(p, name)
  /\ registry' = [registry EXCEPT ![p].name = name]
  /\ UNCHANGED <<created, sessions, lastRun>>

(* Mutant: only a mapping of the current run is repointed.                 *)
RepointCurrent(s, old, new) ==
  [v \in DOMAIN s.mapping |->
     IF s.mapping[v].person = old /\ MappingApplies(s, v)
     THEN [s.mapping[v] EXCEPT !.person = new] ELSE s.mapping[v]]

(* repoint_voice_person, of one session.                                   *)
Repoint(s, old, new) ==
  [v \in DOMAIN s.mapping |->
     IF s.mapping[v].person = old THEN [s.mapping[v] EXCEPT !.person = new] ELSE s.mapping[v]]

RepointIn(walked, old, new) ==
  sessions' = [s \in DOMAIN sessions |->
                 IF s \in walked THEN [sessions[s] EXCEPT !.mapping = Repoint(sessions[s], old, new)]
                 ELSE sessions[s]]

(* api_people_merge: the mappings move first, then the registry is saved.  *)
Merge(survivor, absorbed) ==
  /\ survivor # absorbed /\ {survivor, absorbed} \subseteq DOMAIN registry
  /\ RepointIn(DOMAIN sessions, absorbed, survivor)
  /\ registry' = Less([registry EXCEPT ![survivor].identities = @ \cup registry[absorbed].identities],
                         {absorbed})
  /\ UNCHANGED <<created, lastRun>>

(* An unreadable meta, or the end of the process, stops the walk between   *)
(* two of the sessions it writes, or before the registry is saved.         *)
MergeFails(survivor, absorbed) ==
  /\ survivor # absorbed /\ {survivor, absorbed} \subseteq DOMAIN registry
  /\ \E walked \in SUBSET {s \in DOMAIN sessions :
                              \E v \in DOMAIN sessions[s].mapping :
                                sessions[s].mapping[v].person = absorbed} :
       walked # {} /\ RepointIn(walked, absorbed, survivor)
  /\ UNCHANGED <<registry, created, lastRun>>

(* detach: a sole identity has nothing to be separated from.               *)
Detach(p, i) ==
  /\ p \in DOMAIN registry /\ i \in registry[p].identities
  /\ registry[p].identities # {i} /\ created < MaxPersons
  /\ created' = created + 1
  /\ registry' = Entered([registry EXCEPT ![p].identities = @ \ {i}], created',
                      [name |-> Blank, identities |-> {i}])
  /\ UNCHANGED <<sessions, lastRun>>

-----------------------------------------------------------------------------
(* api_session_voice_mapping, for a Voice the sidecar carries: to a Person *)
(* of the registry, to a typed name (which always creates one), or to      *)
(* nobody.                                                                 *)
VoicesOf(s) == (DOMAIN sessions[s].runs) \X Labels

Mapped(s, v, p) ==
  Change(s, "mapping", Entered(sessions[s].mapping, v, [person |-> p, run |-> sessions[s].runs[v[1]]]))

MapTo(s, v, p) ==
  /\ s \in DOMAIN sessions /\ v \in VoicesOf(s) /\ p \in DOMAIN registry
  /\ Mapped(s, v, p)
  /\ UNCHANGED <<registry, created, lastRun>>

MapToName(s, v, name) ==
  /\ s \in DOMAIN sessions /\ v \in VoicesOf(s) /\ created < MaxPersons
  /\ created' = created + 1
  /\ Mapped(s, v, created')
  /\ \/ registry' = Entered(registry, created', [name |-> name, identities |-> {}])
     \/ UNCHANGED registry      \* the registry was not saved
  /\ UNCHANGED lastRun

Unmap(s, v) ==
  /\ s \in DOMAIN sessions /\ v \in VoicesOf(s) \cap DOMAIN sessions[s].mapping
  /\ Change(s, "mapping", Less(sessions[s].mapping, {v}))
  /\ UNCHANGED <<registry, created, lastRun>>

-----------------------------------------------------------------------------
(* spans_by_slug and the merge of a transcript: a slug of one diarized     *)
(* identity is split into its Voices, every other speaker keeps the slug.  *)
Baked(s) ==
  UNION {LET voiced == OwnerOf(s.roster, slug) \cap DOMAIN s.runs
         IN  IF voiced = {} THEN {[slug |-> slug, label |-> Blank, run |-> 0]}
             ELSE {[slug |-> slug, label |-> l, run |-> s.runs[i]] : i \in voiced, l \in Labels}
         : slug \in Slugs(s.roster)}

Transcribe(s) ==
  /\ s \in DOMAIN sessions
  /\ Change(s, "keys", Baked(sessions[s]))
  /\ UNCHANGED <<registry, created, lastRun>>

(* _plan: the multi-person taps whose audio is theirs alone.               *)
Targets(s) ==
  {i \in DOMAIN s.roster : s.roster[i].mode = "multi" /\ OwnerOf(s.roster, s.roster[i].slug) = {i}
                           /\ s.roster[i].slug # Blank}

(* record_voices: the Voices of an identity are replaced, its neighbours'   *)
(* stay.                                                                   *)
Recorded(runs, found, run) == Onto([i \in found |-> run], runs)

(* diarize_session: each target's Voices are written as they are found; a  *)
(* run that finds none leaves the earlier ones.  The route then merges the *)
(* transcript there is anew; a run that failed, or the stage of the        *)
(* pipeline, does not.                                                     *)
Diarize(s) ==
  /\ s \in DOMAIN sessions /\ Targets(sessions[s]) # {} /\ lastRun < MaxRuns
  /\ lastRun' = lastRun + 1
  /\ \E found \in SUBSET Targets(sessions[s]), remerge \in BOOLEAN :
       LET new == [sessions[s] EXCEPT !.runs = Recorded(@, found, lastRun')]
       IN  sessions' = [sessions EXCEPT ![s] =
                          [new EXCEPT !.keys = IF remerge /\ @ # {} THEN Baked(new) ELSE @]]
  /\ UNCHANGED <<registry, created>>

(* The sidecar of the Voices is deleted or torn: it names no run.          *)
SidecarLost(s) ==
  /\ s \in DOMAIN sessions /\ sessions[s].runs # <<>>
  /\ Change(s, "runs", <<>>)
  /\ UNCHANGED <<registry, created, lastRun>>

-----------------------------------------------------------------------------
(* absorb_session, the records: an identity with Voices on both sides      *)
(* loses them and their mappings on both (fold_voices); elsewhere the      *)
(* target wins, and a mode upgrades.  The target's transcript goes.        *)
Absorbed(to, from) ==
  LET collided == DOMAIN to.runs \cap DOMAIN from.runs
      Lives(mapping) == Less(mapping, {v \in DOMAIN mapping : v[1] \in collided})
  IN  [roster  |-> [i \in DOMAIN to.roster \cup DOMAIN from.roster |->
                      IF i \notin DOMAIN to.roster THEN from.roster[i]
                      ELSE IF i \in DOMAIN from.roster /\ from.roster[i].mode = "multi"
                      THEN [to.roster[i] EXCEPT !.mode = "multi"] ELSE to.roster[i]],
       runs    |-> Less(Onto(to.runs, from.runs), collided),
       mapping |-> Onto(Lives(to.mapping), Lives(from.mapping)),
       keys    |-> {}]

Absorb(target, source) ==
  /\ target # source /\ {target, source} \subseteq DOMAIN sessions
  /\ sessions' = Less([sessions EXCEPT ![target] = Absorbed(@, sessions[source])], {source})
  /\ UNCHANGED <<registry, created, lastRun>>

PNext ==
  \/ \E t \in Taps : Occurs(t)
  \/ SyncPeople
  \/ \E p \in DOMAIN registry, n \in TypedNames \cup {Blank} : Rename(p, n)
  \/ \E p, q \in DOMAIN registry : Merge(p, q)
  \/ \E p, q \in DOMAIN registry : MergeFails(p, q)
  \/ \E p \in DOMAIN registry : \E i \in registry[p].identities : Detach(p, i)
  \/ \E s \in DOMAIN sessions : \E v \in VoicesOf(s), p \in DOMAIN registry : MapTo(s, v, p)
  \/ \E s \in DOMAIN sessions : \E v \in VoicesOf(s), n \in TypedNames : MapToName(s, v, n)
  \/ \E s \in DOMAIN sessions : \E v \in VoicesOf(s) : Unmap(s, v)
  \/ \E s \in DOMAIN sessions : Transcribe(s) \/ Diarize(s) \/ SidecarLost(s)
  \/ \E s, t \in DOMAIN sessions : Absorb(s, t)

-----------------------------------------------------------------------------
(* people.json reads back as it was written: no Person is dropped from it, *)
(* and none loses an identity to another.                                  *)
RegistryLoadsBack == Coerced(registry) = registry

(* Nobody who leaves the registry is left behind in a mapping: a Voice     *)
(* that named them would read as nobody again (repoint_voice_person).      *)
NobodyIsStranded ==
  [][\A p \in DOMAIN registry \ DOMAIN registry' :
       \A s \in DOMAIN sessions' : \A v \in DOMAIN sessions'[s].mapping :
         sessions'[s].mapping[v].person # p]_pvars

(* A Person a transcript names is counted in that meeting (both readers    *)
(* cross _mapping_applies).                                                *)
NamedIsCounted ==
  \A s \in DOMAIN sessions : \A k \in sessions[s].keys :
    \A p \in VoicePerson(sessions[s], k, registry) : AppearsIn(sessions[s], p, registry)

(* A name the operator chose for someone goes only with them, into a       *)
(* merge that keeps their identities, or by renaming them.                 *)
NamesSurvive ==
  [][\A p \in DOMAIN registry :
       registry[p].name # Blank =>
         \/ p \in DOMAIN registry' /\ registry'[p].name = registry[p].name
         \/ p \in DOMAIN registry' /\ registry' = [registry EXCEPT ![p].name = registry'[p].name]
         \/ \E q \in DOMAIN registry' \cap DOMAIN registry :
              registry[p].identities \cup registry[q].identities = registry'[q].identities
              /\ p \notin DOMAIN registry']_pvars

(* After a diarization whose Voices the transcript shows, a mapping made   *)
(* for an earlier run names none of them: its `A` was someone else.        *)
StaleNamesNobody ==
  \A s \in DOMAIN sessions : \A k \in sessions[s].keys : \A v \in MappedAs(sessions[s], k) :
    v[1] \in DOMAIN sessions[s].runs /\ sessions[s].runs[v[1]] = k.run => sessions[s].mapping[v].run = k.run

(* However runs, mappings and transcripts overtook each other: a mapping   *)
(* names only Voices of its run, and whom it names is counted there.       *)
MappingsTellTheTruth == NamedIsCounted /\ StaleNamesNobody

(* The registry survives its own reading, what points into it names whom   *)
(* it should, and nobody named is lost, in the registry or out of a        *)
(* mapping, by a merge that is cut short, a detach or a rename.            *)
WhoIsWho ==
  /\ [](RegistryLoadsBack /\ MappingsTellTheTruth)
  /\ NobodyIsStranded
  /\ NamesSurvive
=============================================================================
