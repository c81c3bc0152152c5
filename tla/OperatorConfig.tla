----------------------------- MODULE OperatorConfig -----------------------------
(***************************************************************************)
(* The operator's settings (config.py, config_store.py, routes/operator_   *)
(* config.py, routes/summarize.py): small files the dashboard writes, an   *)
(* operator may edit by hand, jobs and the poll read, with the environment *)
(* over them and a built-in default under them.  A bounded knob stands for *)
(* all of them; the summarizer default is the structured one, and is read  *)
(* through a cache keyed by a signature of the file.                       *)
(***************************************************************************)
EXTENDS Naturals, Sequences

CONSTANTS
  Texts,      \* what may be typed for the knob
  Values,     \* the texts its parser accepts
  MaxTime     \* bound: ticks of the clock of the file system

ASSUME ConfigAssumption == MaxTime \in Nat /\ Values \subseteq Texts \ {""}

VARIABLES
  coarse,    \* whether two writes may fall in one tick; the cache then is
             \* read by the event loop alone
  time,      \* the clock of the file system
  variable,  \* the environment variable of the knob
  knob,      \* the file of the knob; "": missing or empty
  kept,      \* what a save left in it: <<>>, or <<text>> until a hand edit
  json,      \* summarizer.json: [source, model, key, ino, time]
  entry,     \* <<>> or <<[sig, at]>>: _CONFIG_TEXT_CACHE, and what was read
  reading,   \* a job's thread in the cached read: <<>>, <<[sig]>> after its
             \* stat, <<[sig, at]>> after the read
  replaced,  \* a save has replaced the file and not yet dropped its entry
  keyGiven   \* the API key last given or cleared (history)

ovars == <<coarse, time, variable, knob, kept, json, entry, reading, replaced, keyGiven>>

Sources == {"", "local", "api"}
Models == {"", "listed", "free"}   \* of the catalog, and any other name
ApiKeys == {"", "secret"}

Content(c) == [source |-> c.source, model |-> c.model, key |-> c.key]

OInit ==
  /\ coarse \in BOOLEAN /\ time = 1 /\ variable \in Texts
  /\ knob = "" /\ kept = <<>>
  /\ json = [source |-> "", model |-> "", key |-> "", ino |-> 1, time |-> 0]
  /\ entry = <<>> /\ reading = <<>> /\ replaced = FALSE /\ keyGiven = ""

-----------------------------------------------------------------------------
(* The parser of a knob, of texts alone.                                   *)
Parse(text) == IF text \in Values THEN <<text>> ELSE <<>>

(* _bounded_check: empty clears, anything the reader would reject raises.  *)
Accepts(text) == text = "" \/ Parse(text) # <<>>

(* resolve_knob: a valid variable, else the file, read afresh, else the    *)
(* default.                                                                *)
InForce ==
  IF Parse(variable) # <<>> THEN variable ELSE IF Parse(knob) # <<>> THEN knob ELSE "default"

PutKnob(text) ==
  /\ Accepts(text)
  /\ knob' = text /\ kept' = <<text>>
  /\ UNCHANGED <<coarse, time, variable, json, entry, reading, replaced, keyGiven>>

EditKnob(text) ==
  /\ knob' = text /\ kept' = <<>>
  /\ UNCHANGED <<coarse, time, variable, json, entry, reading, replaced, keyGiven>>

-----------------------------------------------------------------------------
(* file_stat_sig; the size is not what tells two contents apart here.      *)
Sig == <<json.ino, json.time>>

(* _read_config_text_cached, undisturbed.                                  *)
CachedRead == IF entry # <<>> /\ entry[1].sig = Sig THEN entry[1].at ELSE Content(json)

(* A read on the event loop: the poll, a route.                            *)
PollReads ==
  /\ ~replaced
  /\ entry' = <<[sig |-> Sig, at |-> CachedRead]>>
  /\ UNCHANGED <<coarse, time, variable, knob, kept, json, reading, replaced, keyGiven>>

JobStats ==
  /\ ~coarse /\ reading = <<>> /\ ~(entry # <<>> /\ entry[1].sig = Sig)
  /\ reading' = <<[sig |-> Sig, at |-> <<>>]>>
  /\ UNCHANGED <<coarse, time, variable, knob, kept, json, entry, replaced, keyGiven>>

JobReads ==
  /\ reading # <<>> /\ reading[1].at = <<>>
  /\ reading' = <<[reading[1] EXCEPT !.at = <<Content(json)>>]>>
  /\ UNCHANGED <<coarse, time, variable, knob, kept, json, entry, replaced, keyGiven>>

JobRemembers ==
  /\ reading # <<>> /\ reading[1].at # <<>> /\ reading' = <<>>
  /\ entry' = <<[sig |-> reading[1].sig, at |-> reading[1].at[1]]>>
  /\ UNCHANGED <<coarse, time, variable, knob, kept, json, replaced, keyGiven>>

(* write_summarizer_config: the model of another source is free text.      *)
Storable(source, model) == source \in {"", "local"} => model # "free"

(* A save replaces the file: it gets another inode, which may be the one   *)
(* an earlier save gave back.  A key left out is the one there is.         *)
PutSummarizer(source, model, given) ==
  /\ ~replaced /\ Storable(source, model) /\ (coarse \/ json.time < time)
  /\ LET key == IF given = <<>> THEN CachedRead.key ELSE given[1]
     IN  json' = [source |-> source, model |-> model, key |-> key, ino |-> 3 - json.ino, time |-> time]
  /\ entry' = IF given = <<>> THEN <<[sig |-> Sig, at |-> CachedRead]>> ELSE entry
  /\ replaced' = TRUE
  /\ keyGiven' = IF given = <<>> THEN keyGiven ELSE given[1]
  /\ UNCHANGED <<coarse, time, variable, knob, kept, reading>>

(* Mutant: the signature alone is trusted after a save of our own.         *)
EntryStays == entry

(* atomic_write_text drops the entry on the way out.                       *)
EntryDropped == <<>>

Saved ==
  /\ replaced /\ replaced' = FALSE
  /\ entry' = EntryDropped
  /\ UNCHANGED <<coarse, time, variable, knob, kept, json, reading, keyGiven>>

(* An editor writes in place, in a tick of its own.                        *)
EditSummarizer(source, key) ==
  /\ ~replaced /\ json.time < time
  /\ json' = [json EXCEPT !.source = source, !.model = "", !.key = key, !.time = time]
  /\ keyGiven' = key
  /\ UNCHANGED <<coarse, time, variable, knob, kept, entry, reading, replaced>>

Ticks ==
  /\ time < MaxTime /\ time' = time + 1
  /\ UNCHANGED <<coarse, variable, knob, kept, json, entry, reading, replaced, keyGiven>>

ONext ==
  \/ \E t \in Texts : PutKnob(t) \/ EditKnob(t)
  \/ \E s \in Sources, m \in Models, g \in {<<>>} \cup {<<k>> : k \in ApiKeys} : PutSummarizer(s, m, g)
  \/ \E s \in Sources, k \in ApiKeys : EditSummarizer(s, k)
  \/ Saved \/ PollReads \/ JobStats \/ JobReads \/ JobRemembers \/ Ticks

-----------------------------------------------------------------------------
(* effective_summarizer_config, of a session with no override, and what    *)
(* load_summarizer makes of it: the local source loads listed models only. *)
RunsAs(c) == IF c.source = "" THEN "local" ELSE c.source
Loads(c) == RunsAs(c) = "local" => c.model # "free"

(* What the dashboard accepted for a knob is what the next job runs with,  *)
(* unless a valid variable overrides it: neither the default nor an        *)
(* earlier value (write_config and resolve_knob share one parser).         *)
AcceptedTakesEffect ==
  kept # <<>> =>
    InForce = IF Parse(variable) # <<>> THEN variable
                ELSE IF kept[1] = "" THEN "default" ELSE kept[1]

(* A cached read never answers with what the file used to hold, although   *)
(* inodes are reused and, on a coarse clock, the time does not move        *)
(* (atomic_write_text: "our own write must never be served stale").        *)
CacheIsCurrent == ~replaced => CachedRead = Content(json)

(* The API key the dashboard never sees stays the one last given, however  *)
(* many saves leave it out.                                                *)
KeyIsKept == json.key = keyGiven

(* The summarizer default the dashboard accepted can be loaded at the end  *)
(* of a meeting, when nobody is there to correct it.                       *)
StoredDefaultLoads == Loads(CachedRead)

(* The operator's settings hold: a cached read is the file, a key left out *)
(* of a save is the one there was, and what a route accepts is what a job  *)
(* runs with: no writer accepts what its reader will refuse.               *)
SettingsHold ==
  /\ CacheIsCurrent /\ KeyIsKept
  /\ AcceptedTakesEffect /\ StoredDefaultLoads
=============================================================================
