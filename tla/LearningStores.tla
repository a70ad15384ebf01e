---------------------------- MODULE LearningStores ----------------------------
(***************************************************************************)
(* What a pentest run remembers for later runs: the engagement memory, the *)
(* CVE cache and the threat patterns, each one JSON file under             *)
(* ~/.sentinelforge that an object loads when it is built and rewrites     *)
(* whole (intelligence/), and the target_memory and advisory_cursor rows   *)
(* of the store (nemoclaw/, control/storage.py).                           *)
(*                                                                         *)
(* Path.write_text truncates the file before it writes; loading a file     *)
(* that does not parse is caught and leaves the object empty.  Runs are    *)
(* threads of one process and share the files without a lock.              *)
(*                                                                         *)
(* The CVE cache is three files: "cves" is nvd_cache.json, which alone has *)
(* entries.  kev_cache.json and epss_cache.json, written after it by the   *)
(* same call and only if its rendering does not raise, hold the listing    *)
(* and the scores that an entry's fields are set from.  No step below      *)
(* depends on them: they are left out, and what they lose is not claimed.  *)
(*                                                                         *)
(* The specification has names of its own (StoresSpec, ...), so that it    *)
(* can be extended together with Scheduler, which starts such runs.        *)
(***************************************************************************)
EXTENDS Naturals, FiniteSets

CONSTANTS
  Runs,          \* pentest runs
  Cves,          \* CVE entries the feeds offer
  Relevant,      \* those that name the project: CVEIngester.search
  Code, NoRun,   \* the pattern a source scan teaches; no run
  Ticks,         \* calls of heartbeat_tick, by whoever hosts the orchestrator
  MayTickAgain,  \* bound: may the ticks not begun come after a death?
  MaxCrashes     \* bound: deaths of the process

ASSUME StoresAssumption ==
  /\ IsFiniteSet(Runs) /\ NoRun \notin Runs
  /\ Relevant \subseteq Cves /\ Code \notin Cves
  /\ MaxCrashes \in Nat /\ MayTickAgain \in BOOLEAN

Feeds  == <<"nvd", "kev", "epss">>
Files  == {"engagements", "cves", "patterns"}
Phases == <<"new", "init", "cve", "scan", "threat", "metrics", "done">>
Places == {"load", "work", "save", "write", "read", "select", "commit", "out"}

VARIABLES
  phase, at,     \* where a run is: handler and place in it
  todo,          \* feeds still to ask, or what the learner still has to learn
  view,          \* entries of the object it holds: read from file, or built here
  results,       \* cve_entries in state.results
  disk,          \* file -> does it parse, and its entries
  row,           \* target_memory of the target all runs attack
  seen,          \* what a run read of that row: previous run, does the row exist
  cursor, beat,  \* advisory count of the cursor row; what a tick read of it
  crashes,
  kept,          \* history: entries of the last whole content of a file
  stale,         \* history: the file changed, or did not parse, since it was loaded
  recorded       \* history: runs whose metrics were committed

runVars == <<phase, at, todo, view, results>>
tables  == <<row, seen, recorded>>
hearts  == <<cursor, beat>>
storeVars == <<phase, at, todo, view, results, disk, row, seen, cursor, beat, crashes,
               kept, stale, recorded>>

Nothing == [text |-> {}, live |-> {}]
Unseen  == [previous |-> NoRun, exists |-> FALSE]
Idle(state) == [at |-> state, base |-> 0, overtaken |-> FALSE]
FileOf(p) == CASE p = "init" -> "engagements" [] p = "cve" -> "cves"
               [] OTHER -> "patterns"
Entries(r) == view[r].text \cup view[r].live
Entry == Runs \cup Cves \cup {Code}

StoresInit ==
  /\ phase = [r \in Runs |-> "new"] /\ at = [r \in Runs |-> "out"]
  /\ todo = [r \in Runs |-> {}] /\ view = [r \in Runs |-> Nothing]
  /\ results = [r \in Runs |-> {}]
  /\ disk = [f \in Files |-> [parses |-> TRUE, entries |-> {}]]
  /\ row = [count |-> 0, last |-> NoRun, previous |-> NoRun]
  /\ seen = [r \in Runs |-> Unseen]
  /\ cursor = 0 /\ beat = [t \in Ticks |-> Idle("new")] /\ crashes = 0
  /\ kept = [f \in Files |-> {}] /\ stale = [r \in Runs |-> FALSE]
  /\ recorded = {}

Enter(r, p, place) == /\ phase' = [phase EXCEPT ![r] = p]
                      /\ at' = [at EXCEPT ![r] = place]

-----------------------------------------------------------------------------
(* The JSON files: load, change in memory, truncate, write                 *)

Begin(r) ==
  /\ phase[r] = "new"
  /\ Enter(r, "init", "load")
  /\ UNCHANGED <<todo, view, results, disk, tables, hearts, crashes, kept, stale>>

(* What a file that does not parse amounts to: the exception is caught.     *)
Parsed(f) == IF disk[f].parses THEN disk[f].entries ELSE {}

(* The file holds finding_count and other derived fields, which the         *)
(* constructor of EngagementRecord does not take: the first record of a    *)
(* file ends the loading.                                                  *)
LoadedEngagements == Nothing
Started(v, r) == [v EXCEPT !.live = @ \cup {r}]

(* A severity that comes from the cache is a plain string.                  *)
LoadedCves == [text |-> Parsed("cves"), live |-> {}]

(* Mutant: the learner's file gets a derived field its constructor refuses. *)
LoadedNoPatterns == Nothing

LoadedPatterns == [text |-> {}, live |-> Parsed("patterns")]

Load(r) ==
  LET f == FileOf(phase[r]) IN
  /\ at[r] = "load"
  /\ view' = [view EXCEPT ![r] =
       CASE f = "engagements" -> Started(LoadedEngagements, r)
         [] f = "cves"        -> LoadedCves
         [] f = "patterns"    -> LoadedPatterns]
  /\ at' = [at EXCEPT ![r] = IF f = "engagements" THEN "save" ELSE "work"]
  /\ todo' = [todo EXCEPT ![r] =
       CASE f = "cves"     -> {Feeds[i] : i \in DOMAIN Feeds}
         [] f = "patterns" -> results[r] \cup {Code}
         [] OTHER          -> {}]
  /\ stale' = [stale EXCEPT ![r] = ~disk[f].parses]
  /\ UNCHANGED <<phase, results, disk, tables, hearts, crashes, kept>>

NextFeed(r) == Feeds[CHOOSE i \in DOMAIN Feeds :
                       /\ Feeds[i] \in todo[r]
                       /\ \A j \in 1 .. i - 1 : Feeds[j] \notin todo[r]]

(* ingest_nvd builds the entries it is given anew, ingest_kev only the ones *)
(* that are missing, ingest_epss none; all three save.                     *)
IngestNvd(v, given)  == [text |-> v.text \ given, live |-> v.live \cup given]
IngestKev(v, given)  == [v EXCEPT !.live = @ \cup (given \ v.text)]
IngestEpss(v, given) == v

Ingested(v, feed, given) ==
  CASE feed = "nvd"  -> IngestNvd(v, given)
    [] feed = "kev"  -> IngestKev(v, given)
    [] feed = "epss" -> IngestEpss(v, given)

Ingest(r) ==
  /\ phase[r] = "cve" /\ at[r] = "work" /\ todo[r] # {}
  /\ todo' = [todo EXCEPT ![r] = @ \ {NextFeed(r)}]
  /\ \/ /\ at' = [at EXCEPT ![r] = "save"]
        /\ \E given \in SUBSET Cves :
             view' = [view EXCEPT ![r] = Ingested(@, NextFeed(r), given)]
     \/ UNCHANGED <<at, view>>                \* the feed fails: empty result
  /\ UNCHANGED <<phase, results, disk, tables, hearts, crashes, kept, stale>>

(* CVEIngester.search by the project's name.                                *)
Found(r) == Entries(r) \cap Relevant

(* Mutant: the keyword is not passed to the search.                         *)
CloseUnfiltered(r) ==
  /\ phase[r] = "cve" /\ at[r] = "work" /\ todo[r] = {}
  /\ results' = [results EXCEPT ![r] = view[r].live]
  /\ Enter(r, "scan", "work") /\ view' = [view EXCEPT ![r] = Nothing]
  /\ stale' = [stale EXCEPT ![r] = FALSE]
  /\ UNCHANGED <<todo, disk, tables, hearts, crashes, kept>>

(* The rest of _handle_cve_ingestion: severity.value of an entry whose      *)
(* severity is a string raises, and the handler reports an error.          *)
CloseIngestion(r) ==
  /\ phase[r] = "cve" /\ at[r] = "work" /\ todo[r] = {}
  /\ results' = [results EXCEPT ![r] =
       IF Found(r) \cap view[r].text = {} THEN Found(r) ELSE {}]
  /\ Enter(r, "scan", "work") /\ view' = [view EXCEPT ![r] = Nothing]
  /\ stale' = [stale EXCEPT ![r] = FALSE]
  /\ UNCHANGED <<todo, disk, tables, hearts, crashes, kept>>

(* _upsert_pattern: a pattern known already is only counted again.          *)
Upsert(r, item) ==
  \/ view' = [view EXCEPT ![r].live = @ \cup {item}]
  \/ UNCHANGED view                           \* nothing in it is a pattern

(* learn_from_cve for one entry of cve_entries; it saves.                   *)
LearnFromCve(r) ==
  /\ phase[r] = "threat" /\ at[r] = "work"
  /\ \E item \in todo[r] \ {Code} :
       todo' = [todo EXCEPT ![r] = @ \ {item}] /\ Upsert(r, item)
  /\ at' = [at EXCEPT ![r] = "save"]
  /\ UNCHANGED <<phase, results, disk, tables, hearts, crashes, kept, stale>>

(* learn_from_scan, when the entries are through; it saves too.             *)
LearnFromScan(r) ==
  /\ phase[r] = "threat" /\ at[r] = "work" /\ todo[r] = {Code}
  /\ todo' = [todo EXCEPT ![r] = {}] /\ Upsert(r, Code)
  /\ at' = [at EXCEPT ![r] = "save"]
  /\ UNCHANGED <<phase, results, disk, tables, hearts, crashes, kept, stale>>

LearningOver(r) ==
  /\ phase[r] = "threat" /\ at[r] = "work" /\ todo[r] = {}
  /\ Enter(r, "metrics", "read") /\ view' = [view EXCEPT ![r] = Nothing]
  /\ results' = [results EXCEPT ![r] = {}]    \* nothing below reads it
  /\ stale' = [stale EXCEPT ![r] = FALSE]
  /\ UNCHANGED <<todo, disk, tables, hearts, crashes, kept>>

Saved(r) == IF phase[r] = "init" THEN Enter(r, "cve", "load")
            ELSE at' = [at EXCEPT ![r] = "work"] /\ UNCHANGED phase

(* Others that loaded the file now hold an old view of it.                  *)
Disturb(r) == stale' = [s \in Runs |->
  stale[s] \/ /\ s # r /\ at[s] \in {"work", "save", "write"}
              /\ phase[s] \in {"init", "cve", "threat"}
              /\ FileOf(phase[s]) = FileOf(phase[r])]

(* The list is rendered first: an entry with a string for a severity raises *)
(* there, the file stays as it is and nobody is told.                      *)
SaveTruncates(r) ==
  LET f == FileOf(phase[r]) IN
  /\ at[r] = "save"
  /\ IF f = "cves" /\ view[r].text # {}
       THEN Saved(r) /\ UNCHANGED <<disk, stale>>
       ELSE /\ disk' = [disk EXCEPT ![f] = [parses |-> FALSE, entries |-> {}]]
            /\ at' = [at EXCEPT ![r] = "write"] /\ UNCHANGED phase
            /\ Disturb(r)
  /\ UNCHANGED <<todo, view, results, tables, hearts, crashes, kept>>

(* A shorter text written over a longer one that another run finished in    *)
(* between leaves the tail of it: the file no longer parses.               *)
SaveWrites(r) ==
  LET f == FileOf(phase[r]) IN
  /\ at[r] = "write"
  /\ \/ /\ disk' = [disk EXCEPT ![f] = [parses |-> TRUE, entries |-> Entries(r)]]
        /\ kept' = [kept EXCEPT ![f] = Entries(r)]
     \/ /\ disk[f].parses /\ ~(disk[f].entries \subseteq Entries(r))
        /\ disk' = [disk EXCEPT ![f] = [parses |-> FALSE, entries |-> {}]]
        /\ UNCHANGED kept
  /\ Saved(r) /\ Disturb(r)
  /\ UNCHANGED <<todo, view, results, tables, hearts, crashes>>

-----------------------------------------------------------------------------
(* target_memory: NemoClawOrchestrator.record_run_metrics                   *)

(* The previous run is read in one transaction ...                          *)
ReadPrevious(r) ==
  /\ phase[r] = "metrics" /\ at[r] = "read"
  /\ seen' = [seen EXCEPT ![r].previous = row.last]
  /\ at' = [at EXCEPT ![r] = "select"]
  /\ UNCHANGED <<phase, todo, view, results, disk, row, recorded, hearts, crashes,
                 kept, stale>>

(* ... and the upsert looks again whether there is a row, outside any lock. *)
SelectRow(r) ==
  /\ phase[r] = "metrics" /\ at[r] = "select"
  /\ seen' = [seen EXCEPT ![r].exists = row.count > 0]
  /\ at' = [at EXCEPT ![r] = "commit"]
  /\ UNCHANGED <<phase, todo, view, results, disk, row, recorded, hearts, crashes,
                 kept, stale>>

(* Mutant: the previous run is looked up when the row names this one.      *)
CommitComparedLate(r) ==
  /\ phase[r] = "metrics" /\ at[r] = "commit"
  /\ row' = [count |-> row.count + 1, last |-> r, previous |-> r]
  /\ recorded' = recorded \cup {r}
  /\ Enter(r, "done", "out") /\ seen' = [seen EXCEPT ![r] = Unseen]
  /\ UNCHANGED <<todo, view, results, disk, hearts, crashes, kept, stale>>

(* INSERT fails on the primary key when another run inserted in between;    *)
(* UPDATE increments run_count in the database.                            *)
CommitMetrics(r) ==
  /\ phase[r] = "metrics" /\ at[r] = "commit"
  /\ IF seen[r].exists \/ row.count = 0
       THEN /\ row' = [count |-> row.count + 1, last |-> r,
                       previous |-> seen[r].previous]
            /\ recorded' = recorded \cup {r}
       ELSE UNCHANGED <<row, recorded>>
  /\ Enter(r, "done", "out")
  /\ seen' = [seen EXCEPT ![r] = Unseen]
  /\ UNCHANGED <<todo, view, results, disk, hearts, crashes, kept, stale>>

(* Any of these calls may raise; _record_run_metrics catches it.            *)
MetricsFail(r) ==
  /\ phase[r] = "metrics"
  /\ Enter(r, "done", "out") /\ seen' = [seen EXCEPT ![r] = Unseen]
  /\ UNCHANGED <<todo, view, results, disk, row, recorded, hearts, crashes, kept,
                 stale>>

-----------------------------------------------------------------------------
(* advisory_cursor: the dependency scan and the heartbeat                   *)

(* upsert_advisory_cursor overwrites what the row says.  Ticks that read    *)
(* another count before and have not written yet are overtaken.            *)
StoreCursor(n) == cursor' = n
Overtaking(n) == [t \in Ticks |->
  [beat[t] EXCEPT !.overtaken = @ \/ (beat[t].at = "asking" /\ n # cursor)]]

(* _handle_dependency_scan stores the number of its own advisories; without *)
(* any, or when the store raises, it leaves the row alone.                 *)
ScanAdvisories(r) ==
  /\ phase[r] = "scan"
  /\ \/ StoreCursor(1) /\ beat' = Overtaking(1)
     \/ UNCHANGED <<cursor, beat>>
  /\ Enter(r, "threat", "load")
  /\ UNCHANGED <<todo, view, results, disk, tables, crashes, kept, stale>>

(* tick reads the row and then asks Red Hat.  It holds no lock: a second    *)
(* tick may read, ask and write in the meantime.                           *)
TickReads(t) ==
  /\ beat[t].at = "new"
  /\ beat' = [beat EXCEPT ![t] = [at |-> "asking", base |-> cursor, overtaken |-> FALSE]]
  /\ UNCHANGED <<runVars, disk, tables, cursor, crashes, kept, stale>>

(* Mutant: the tick stores what it saw, not what was seen so far.           *)
TickStoresItsOwn(t) ==
  /\ beat[t].at = "asking"
  /\ \E n \in 0 .. 1 : /\ StoreCursor(n)
                      /\ beat' = [Overtaking(n) EXCEPT ![t] = Idle("over")]
  /\ UNCHANGED <<runVars, disk, tables, crashes, kept, stale>>

(* It adds what the last day brought; on an exception it writes             *)
(* HEARTBEAT.md from the cursor it read and leaves the row alone.          *)
TickWrites(t) ==
  /\ beat[t].at = "asking"
  /\ \/ \E n \in {beat[t].base, beat[t].base + 1} :
           StoreCursor(n) /\ beat' = [Overtaking(n) EXCEPT ![t] = Idle("over")]
     \/ /\ beat' = [beat EXCEPT ![t] = Idle("over")]
        /\ UNCHANGED cursor
  /\ UNCHANGED <<runVars, disk, tables, crashes, kept, stale>>

-----------------------------------------------------------------------------
(* The process dies with its runs and its ticks; another one goes on with   *)
(* those not begun.                                                        *)
ProcessDies ==
  /\ crashes < MaxCrashes /\ crashes' = crashes + 1
  /\ phase' = [r \in Runs |-> IF phase[r] = "new" THEN "new" ELSE "done"]
  /\ at' = [r \in Runs |-> "out"] /\ todo' = [r \in Runs |-> {}]
  /\ view' = [r \in Runs |-> Nothing] /\ results' = [r \in Runs |-> {}]
  /\ beat' = [t \in Ticks |->
       IF beat[t].at = "asking" \/ ~MayTickAgain THEN Idle("over")
       ELSE beat[t]]
  /\ stale' = [r \in Runs |-> FALSE] /\ seen' = [r \in Runs |-> Unseen]
  /\ UNCHANGED <<disk, row, recorded, cursor, kept>>

Step(r) == \/ Begin(r) \/ Load(r) \/ Ingest(r) \/ CloseIngestion(r) \/ LearnFromCve(r)
           \/ LearnFromScan(r) \/ LearningOver(r) \/ SaveTruncates(r) \/ SaveWrites(r)
           \/ ReadPrevious(r) \/ SelectRow(r) \/ CommitMetrics(r)
           \/ MetricsFail(r) \/ ScanAdvisories(r)

Heartbeat == \E t \in Ticks : TickReads(t) \/ TickWrites(t)
StoresNext == (\E r \in Runs : Step(r)) \/ Heartbeat \/ ProcessDies
StoresSpec == StoresInit /\ [][StoresNext]_storeVars

-----------------------------------------------------------------------------
(* Types of runs, objects, files and rows.                                  *)
StoresTypeOK ==
  /\ phase \in [Runs -> {Phases[i] : i \in DOMAIN Phases}]
  /\ at \in [Runs -> Places]
  /\ todo \in [Runs -> SUBSET ({Feeds[i] : i \in DOMAIN Feeds} \cup Cves \cup {Code})]
  /\ view \in [Runs -> [text : SUBSET Cves, live : SUBSET Entry]]
  /\ results \in [Runs -> SUBSET Relevant]
  /\ disk \in [Files -> [parses : BOOLEAN, entries : SUBSET Entry]]
  /\ kept \in [Files -> SUBSET Entry] /\ stale \in [Runs -> BOOLEAN]
  /\ row \in [count : 0 .. Cardinality(Runs), last : Runs \cup {NoRun},
              previous : Runs \cup {NoRun}]
  /\ cursor \in Nat /\ crashes \in 0 .. MaxCrashes

(* An entry or a pattern once saved is lost only by a run with a stale view:*)
(* another run wrote the file since it loaded it, or it loaded a file that  *)
(* did not parse (torn by a concurrent save or a crash).  A run that was    *)
(* alone keeps everything, also when a save is refused half way.           *)
LossNeedsStaleView ==
  [][\A f \in {"cves", "patterns"} :
       ~(kept[f] \subseteq kept'[f]) =>
         \E r \in Runs : at[r] = "write" /\ FileOf(phase[r]) = f /\ stale[r]]_storeVars

(* target_memory counts exactly the runs whose metrics were committed, and  *)
(* the delta it shows compares the last of them with another one, never a   *)
(* run with itself or with one that was not stored, whichever runs finish   *)
(* at the same time.                                                       *)
MemoryIsHonest ==
  /\ row.count = Cardinality(recorded)
  /\ row.last \in recorded \cup {NoRun} /\ (row.last = NoRun <=> recorded = {})
  /\ row.previous \in (recorded \cup {NoRun}) \ {r \in Runs : r = row.last}

(* The advisory count goes down only when a dependency scan stores its own, *)
(* or by a tick that another store, of a scan or of a second tick, overtook *)
(* between its read and its write: a tick by itself never forgets one.     *)
CountsForwardUnlessOvertaken ==
  [][cursor' < cursor =>
       \/ \E r \in Runs : phase[r] = "scan" /\ phase'[r] = "threat"
       \/ \E t \in Ticks : beat[t].overtaken /\ beat'[t].at = "over"]_storeVars

(* EngagementMemory's own comment promises memory across engagements: a run that    *)
(* is alone keeps the engagements of earlier runs.  Loading refuses every   *)
(* record that saving wrote, so the next run starts a new file.            *)
HistorySurvives ==
  [][~(kept["engagements"] \subseteq kept'["engagements"]) =>
       \E r \in Runs : at[r] = "write" /\ phase[r] = "init" /\ stale[r]]_storeVars

-----------------------------------------------------------------------------
(* The inductive invariant                                                 *)

FileHandlers == {"init", "cve", "threat"}

\* Which places which handlers have.
PlaceInv ==
  \A r \in Runs :
    /\ at[r] \in {"load", "save", "write"} => phase[r] \in FileHandlers
    /\ at[r] = "work" => phase[r] \in {"cve", "scan", "threat"}
    /\ at[r] \in {"read", "select", "commit"} => phase[r] = "metrics"

\* The cache holds CVEs only, and what a run has still to do is of its kind.
RightEntries(r) ==
  /\ phase[r] = "cve" /\ at[r] # "load" =>
       Entries(r) \subseteq Cves /\ todo[r] \subseteq {Feeds[i] : i \in DOMAIN Feeds}
  /\ phase[r] = "threat" /\ at[r] # "load" => todo[r] \subseteq Relevant \cup {Code}
EntriesInv == disk["cves"].entries \subseteq Cves /\ \A r \in Runs : RightEntries(r)

\* A run knows what was last saved, unless its view is stale.
KnowsKept(r) ==
  phase[r] \in {"cve", "threat"} /\ at[r] \in {"work", "save", "write"} /\ ~stale[r] =>
    kept[FileOf(phase[r])] \subseteq Entries(r)
FreshInv ==
  /\ \A f \in Files : disk[f].parses => disk[f].entries = kept[f]
  /\ \A r \in Runs : KnowsKept(r)

\* A run is recorded once, when it is over; what it saw of the row is older.
MemoryInv ==
  /\ MemoryIsHonest
  /\ recorded \subseteq {r \in Runs : phase[r] = "done"}
  /\ seen \in [Runs -> [previous : recorded \cup {NoRun}, exists : BOOLEAN]]

\* Until another store overtakes it, a tick knows the count.
CursorInv ==
  /\ beat \in [Ticks -> [at : {"new", "asking", "over"}, base : Nat, overtaken : BOOLEAN]]
  /\ \A t \in Ticks : beat[t].at = "asking" /\ ~beat[t].overtaken => cursor = beat[t].base

StoresInv ==
  /\ StoresTypeOK /\ PlaceInv /\ EntriesInv /\ FreshInv /\ MemoryInv /\ CursorInv

=============================================================================
