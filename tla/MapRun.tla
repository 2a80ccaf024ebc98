------------------------------- MODULE MapRun -------------------------------
(* `devscout map` (mapcmd.rs map_repo): one action per step that reads the   *)
(* checkout or writes a file of the index, in the order of the code.  Each   *)
(* process m runs one map at a time; the work between two steps is local.    *)
EXTENDS IndexStore

CONSTANTS
    Mappers,        \* processes that may run `devscout map`
    Free,           \* the lock when nobody holds it
    Locking,        \* FALSE: a filesystem whose locks fail, so runs go unlocked
    MaxMaps,        \* bound on the runs that get past the lock
    GitMayFail      \* TRUE: a `git status` may fail

ASSUME MapAssumption ==
    /\ Free \notin Mappers
    /\ Locking \in BOOLEAN
    /\ MaxMaps \in Nat
    /\ GitMayFail \in BOOLEAN

VARIABLES
    mpc,    \* mpc[m]: the step m is about to take
    run,    \* run[m]: what m's current run has in memory
    lock,   \* who holds map.lock
    gens    \* generations issued so far; a run's generation is its number

mapVars == <<mpc, run, lock, gens>>

(* The steps in code order; "idle" is no run at all.  From "mark" on the run *)
(* writes, and from "manifest" until it publishes the marker is in place.    *)
MarkedSteps == {"manifest", "rebuild", "transport", "units", "crates",
                "cache", "index", "status2", "digests", "publish"}
LockedSteps == {"prior", "status0", "load", "plan", "decide", "mark"}
               \cup MarkedSteps \cup {"finish"}
MapSteps == {"idle", "lock"} \cup LockedSteps

(* A run's memory before it has read anything.                               *)
Blank == [wt |-> None, scope |-> {}, gen |-> 0, prior |-> Missing,
          head |-> None, dirty0 |-> None, dirty2 |-> None,
          listed |-> {}, planned |-> {}, fresh |-> {},
          entries |-> NoManifest.entries, reuse |-> NoFragments.entries,
          keys |-> [f \in Sources |-> None],
          configs |-> [c \in Configs |-> Absent], lane |-> None,
          settings |-> None, changed |-> FALSE, frags |-> NoFragments.entries]

Runs ==
    [wt : Worktrees \cup {None}, scope : SUBSET Files, gen : Nat, prior : Records,
     head : Nat \cup {None}, dirty0 : (SUBSET Files) \cup {None},
     dirty2 : (SUBSET Files) \cup {None}, listed : SUBSET Sources,
     planned : SUBSET Sources, fresh : SUBSET GraphSources,
     entries : [Sources -> Keys], reuse : Fragmented, keys : [Sources -> Keys],
     configs : [Configs -> Bytes], lane : Lanes \cup {None},
     settings : [Settings -> Bytes] \cup {None}, changed : BOOLEAN, frags : Fragmented]

MapTypeOK ==
    /\ mpc \in [Mappers -> MapSteps]
    /\ run \in [Mappers -> Runs]
    /\ lock \in Mappers \cup {Free}
    /\ gens \in Nat

MapInit ==
    /\ mpc = [m \in Mappers |-> "idle"]
    /\ run = [m \in Mappers |-> Blank]
    /\ lock = Free
    /\ gens = 0

At(m, step) == mpc[m] = step
Goto(m, step) == mpc' = [mpc EXCEPT ![m] = step]
Root(m) == run[m].wt
OnDisk(m) == tree[Root(m)]

-----------------------------------------------------------------------------
(* Reading: nothing of the index is written before Mark.                     *)

Start(m, w, s) ==
    /\ At(m, "idle")
    /\ gens + Cardinality({n \in Mappers : At(n, "lock")}) < MaxMaps
    /\ run' = [run EXCEPT ![m] = [Blank EXCEPT !.wt = w, !.scope = s]]
    /\ Goto(m, "lock")
    /\ UNCHANGED <<worldVars, storeVars, lock, gens>>

(* Faulty forms.  The definitions named Faulty... are in no specification:   *)
(* each is the definition after it with one plausible mistake in it.         *)

(* The lock is taken without waiting for its holder.                         *)
FaultyAcquire(m) ==
    /\ At(m, "lock")
    /\ lock' = IF Locking THEN m ELSE lock
    /\ gens' = gens + 1
    /\ run' = [run EXCEPT ![m].gen = gens + 1]
    /\ Goto(m, "prior")
    /\ UNCHANGED <<worldVars, storeVars>>

(* publish::begin.  A held lock is waited for; a lock that errs is ignored.  *)
Acquire(m) ==
    /\ At(m, "lock")
    /\ Locking => lock = Free
    /\ lock' = IF Locking THEN m ELSE lock
    /\ gens' = gens + 1
    /\ run' = [run EXCEPT ![m].gen = gens + 1]
    /\ Goto(m, "prior")
    /\ UNCHANGED <<worldVars, storeVars>>

(* The prior record, and HEAD.  `rev-parse HEAD` fails on an unborn branch.  *)
GitHead(w) == IF head[w] = 0 THEN None ELSE head[w]

ReadPrior(m) ==
    /\ At(m, "prior")
    /\ run' = [run EXCEPT ![m].prior = record, ![m].head = GitHead(Root(m))]
    /\ Goto(m, "status0")
    /\ UNCHANGED <<worldVars, storeVars, lock, gens>>

(* Only the worktree that published the index may reuse it.  A root without  *)
(* Git publishes no record, and its private index is always its own.         *)
PriorMine(m) ==
    IF HasGit THEN IsPublished(run[m].prior) /\ run[m].prior.owner = Root(m)
              ELSE ~IsPublished(run[m].prior)

(* Outcomes of git_status_paths over the relevant paths: the set, or None.   *)
StatusOutcomes(w, s) ==
    (IF HasGit THEN {GitStatus(w, Relevant(s))} ELSE {}) \cup
    (IF HasGit /\ ~GitMayFail THEN {} ELSE {None})

ReadStatus0(m) ==
    /\ At(m, "status0")
    /\ \E outcome \in StatusOutcomes(Root(m), run[m].scope) :
          run' = [run EXCEPT ![m].dirty0 = outcome]
    /\ Goto(m, "load")
    /\ UNCHANGED <<worldVars, storeVars, lock, gens>>

(* The walk, the prior manifest's entries and the fragments index.           *)
Load(m) ==
    /\ At(m, "load")
    /\ run' = [run EXCEPT
         ![m].listed = {f \in Sources \cap run[m].scope : OnDisk(m)[f] # Absent},
         ![m].entries = IF PriorMine(m) THEN manifest.entries ELSE NoManifest.entries,
         ![m].reuse = OwnEntries(index, Root(m))]
    /\ Goto(m, "plan")
    /\ UNCHANGED <<worldVars, storeVars, lock, gens>>

(* plan_entry: the one read of file f.  Its key, its digest, its fragment    *)
(* and the decision to reuse all come from these bytes.                      *)
Reusable(m, f, bytes) ==
    /\ bytes # Absent
    /\ run[m].entries[f] = bytes
    /\ bytes \notin WeakContents
    /\ f \in GraphSources => run[m].reuse[f] = bytes

PlanEntry(m, f) ==
    /\ At(m, "plan")
    /\ f \in run[m].listed \ run[m].planned
    /\ LET bytes == OnDisk(m)[f] IN
       run' = [run EXCEPT
         ![m].planned = @ \cup {f},
         ![m].keys[f] = IF bytes = Absent THEN Unread ELSE bytes,
         ![m].fresh = IF f \in GraphSources /\ bytes # Absent /\ ~Reusable(m, f, bytes)
                      THEN @ \cup {f} ELSE @]
    /\ UNCHANGED <<worldVars, storeVars, mpc, lock, gens>>

(* The project and Cargo models, digested from the bytes they were parsed    *)
(* from, and the lane decision between the two.                              *)
Discover(m) ==
    /\ At(m, "plan")
    /\ run[m].planned = run[m].listed
    /\ \E l \in Lanes :
         run' = [run EXCEPT
           ![m].configs = [c \in Configs |->
               IF c \in run[m].scope THEN OnDisk(m)[c] ELSE Absent],
           ![m].lane = l]
    /\ Goto(m, "decide")
    /\ UNCHANGED <<worldVars, storeVars, lock, gens>>

-----------------------------------------------------------------------------
(* Whether the graph on disk may stand.                                      *)
GraphFiles(m) == run[m].listed \cap GraphSources

GraphTrusted(m) ==
    /\ PriorMine(m)
    /\ IsPublished(run[m].prior) => run[m].prior.graphId = graph.id

(* Keys are compared and counts are not: a narrower scope looks unchanged.   *)
FaultyIndexIsStale(m) == \E f \in GraphFiles(m) : run[m].reuse[f] # run[m].keys[f]

IndexIsStale(m) ==
    \/ \E f \in GraphFiles(m) : run[m].reuse[f] # run[m].keys[f]
    \/ Cardinality({f \in GraphSources : run[m].reuse[f] # None})
         # Cardinality(GraphFiles(m))

ModelOf(m, S) == [c \in S |-> run[m].configs[c]]

(* A csproj edit goes unnoticed: it moves no source file.                    *)
FaultyModelsDiffer(m) == crates # ModelOf(m, CargoConfigs)

(* project::sidecar_differs and rsgraph::crates::sidecar_differs.            *)
ModelsDiffer(m) == units # ModelOf(m, ProjectConfigs) \/ crates # ModelOf(m, CargoConfigs)

(* transport::discover: a second read of the settings files the walk listed. *)
SettingsOnDisk(m) ==
    [s \in Settings |-> IF s \in run[m].listed THEN OnDisk(m)[s] ELSE Absent]

(* Settings are taken for sources, whose edits move a key.                   *)
FaultyTransportDiffers(read) == FALSE

TransportDiffers(read) == transport # None /\ transport # read

Decide(m) ==
    /\ At(m, "decide")
    /\ run' = [run EXCEPT
         ![m].settings = SettingsOnDisk(m),
         ![m].changed = \/ ~GraphTrusted(m)
                        \/ IndexIsStale(m)
                        \/ ModelsDiffer(m)
                        \/ TransportDiffers(SettingsOnDisk(m))
                        \/ run[m].lane # None]
    /\ Goto(m, "mark")
    /\ UNCHANGED <<worldVars, storeVars, lock, gens>>

-----------------------------------------------------------------------------
(* Writing.                                                                  *)

(* The last run's record stands while this run writes.                       *)
FaultyMarkKeepsRecord(m) ==
    /\ At(m, "mark")
    /\ Goto(m, "manifest")
    /\ UNCHANGED <<worldVars, storeVars, run, lock, gens>>

(* The refresh flag is dropped as soon as the run is under way.              *)
FaultyMarkDropsFlag(m) ==
    /\ At(m, "mark")
    /\ record' = IF HasGit THEN InProgress(Root(m)) ELSE Missing
    /\ refresh' = refresh \ {Root(m)}
    /\ Goto(m, "manifest")
    /\ UNCHANGED <<worldVars, digests, manifest, graph, sidecarVars, fragmentVars,
                   run, lock, gens>>

(* The record becomes a marker before any artifact is touched; a root that   *)
(* owns nothing drops whatever record and digests it finds.                  *)
Mark(m) ==
    /\ At(m, "mark")
    /\ record' = IF HasGit THEN InProgress(Root(m)) ELSE Missing
    /\ digests' = IF HasGit THEN digests
                  ELSE [gen |-> 0, files |-> [f \in Sources |-> None]]
    /\ Goto(m, "manifest")
    /\ UNCHANGED <<worldVars, manifest, graph, sidecarVars, fragmentVars, refresh,
                   run, lock, gens>>

(* Only this run's entries are written.                                      *)
FaultyMergeDrops(m) ==
    [f \in Sources |-> IF f \in run[m].listed THEN run[m].keys[f] ELSE None]

(* A deleted file leaves a tombstone entry.                                  *)
FaultyMergeTombstones(m) ==
    [f \in Sources |-> IF f \in run[m].listed THEN run[m].keys[f] ELSE Absent]

(* In-scope entries are this run's; the others are carried through.          *)
MergedEntries(m) ==
    [f \in Sources |->
        IF f \in run[m].scope
        THEN IF f \in run[m].listed THEN run[m].keys[f] ELSE None
        ELSE run[m].entries[f]]

WriteManifest(m) ==
    /\ At(m, "manifest")
    /\ manifest' = [id |-> manifest.id + 1, by |-> run[m].gen,
                    head |-> run[m].head, entries |-> MergedEntries(m)]
    /\ Goto(m, "rebuild")
    /\ UNCHANGED <<worldVars, certVars, graph, sidecarVars, fragmentVars, refresh,
                   run, lock, gens>>

(* rebuild_graph: nothing changed and a graph is there, so it stands.        *)
KeepGraph(m) ==
    /\ At(m, "rebuild")
    /\ ~run[m].changed
    /\ graph.id # 0
    /\ Goto(m, "status2")
    /\ UNCHANGED <<worldVars, storeVars, run, lock, gens>>

(* A cached fragment is used whatever key it was cached under.               *)
FaultyFragment(m, f) ==
    LET cached == OwnEntries(cache, Root(m))[f] IN
    IF f \notin GraphFiles(m) THEN None
    ELSE IF cached # None THEN cached
    ELSE IF f \in run[m].fresh THEN run[m].keys[f] ELSE None

(* A cached fragment under the file's key, else this run's own extraction,   *)
(* else the file contributes nothing.                                        *)
Fragment(m, f) ==
    LET key == run[m].keys[f] IN
    IF f \notin GraphFiles(m) THEN None
    ELSE IF OwnEntries(cache, Root(m))[f] = key \/ f \in run[m].fresh THEN key
    ELSE None

Fragments(m) == [f \in GraphSources |-> Fragment(m, f)]
AnySite(m) == \E f \in GraphSources : Fragment(m, f) \in SiteContents

(* What resolution reads: the fragments, the models, the settings files when *)
(* a transport site asks for one, and the TypeScript configuration.          *)
ResolvedInputs(m) ==
    [f \in Files |->
        CASE f \in GraphSources -> IF Fragment(m, f) = None THEN Absent ELSE Fragment(m, f)
          [] f \in Configs -> run[m].configs[f]
          [] f \in Settings -> IF AnySite(m) THEN SettingsOnDisk(m)[f] ELSE None
          [] f \in ResolverInputs -> OnDisk(m)[f]
          [] OTHER -> None]

WriteGraph(m) ==
    /\ At(m, "rebuild")
    /\ run[m].changed \/ graph.id = 0
    /\ graph' = [id |-> graph.id + 1, by |-> run[m].gen,
                 inputs |-> ResolvedInputs(m), lane |-> run[m].lane]
    /\ run' = [run EXCEPT ![m].frags = Fragments(m)]
    /\ Goto(m, "transport")
    /\ UNCHANGED <<worldVars, certVars, manifest, sidecarVars, fragmentVars, refresh,
                   lock, gens>>

HasSite(frags) == \E f \in GraphSources : frags[f] \in SiteContents

WriteTransport(m) ==
    /\ At(m, "transport")
    /\ transport' = IF HasSite(run[m].frags) THEN run[m].settings ELSE None
    /\ Goto(m, "units")
    /\ UNCHANGED <<worldVars, certVars, manifest, graph, units, crates, fragmentVars,
                   refresh, run, lock, gens>>

WriteUnits(m) ==
    /\ At(m, "units")
    /\ units' = ModelOf(m, ProjectConfigs)
    /\ Goto(m, "crates")
    /\ UNCHANGED <<worldVars, certVars, manifest, graph, crates, transport, fragmentVars,
                   refresh, run, lock, gens>>

WriteCrates(m) ==
    /\ At(m, "crates")
    /\ crates' = ModelOf(m, CargoConfigs)
    /\ Goto(m, "cache")
    /\ UNCHANGED <<worldVars, certVars, manifest, graph, units, transport, fragmentVars,
                   refresh, run, lock, gens>>

Stamped(m) == [owner |-> OwnerOf(Root(m)), entries |-> run[m].frags]

WriteCache(m) ==
    /\ At(m, "cache")
    /\ cache' = Stamped(m)
    /\ Goto(m, "index")
    /\ UNCHANGED <<worldVars, certVars, manifest, graph, sidecarVars, index, refresh,
                   run, lock, gens>>

WriteIndex(m) ==
    /\ At(m, "index")
    /\ index' = Stamped(m)
    /\ Goto(m, "status2")
    /\ UNCHANGED <<worldVars, certVars, manifest, graph, sidecarVars, cache, refresh,
                   run, lock, gens>>

(* The second status; a root that owns nothing publishes nothing.            *)
ReadStatus2(m) ==
    /\ At(m, "status2")
    /\ \E outcome \in StatusOutcomes(Root(m), run[m].scope) :
          run' = [run EXCEPT ![m].dirty2 = outcome]
    /\ Goto(m, IF HasGit THEN "digests" ELSE "finish")
    /\ UNCHANGED <<worldVars, storeVars, lock, gens>>

(* Digests are written for the files this run extracted only.                *)
FaultyWriteDigests(m) ==
    /\ At(m, "digests")
    /\ digests' = [gen |-> run[m].gen,
                   files |-> [f \in Sources |->
                      IF f \in run[m].fresh THEN run[m].keys[f] ELSE None]]
    /\ Goto(m, "publish")
    /\ UNCHANGED <<worldVars, record, manifest, graph, sidecarVars, fragmentVars, refresh,
                   run, lock, gens>>

(* A file that could not be read has no digest.                              *)
WriteDigests(m) ==
    /\ At(m, "digests")
    /\ digests' = [gen |-> run[m].gen,
                   files |-> [f \in Sources |->
                      IF run[m].keys[f] = Unread THEN None ELSE run[m].keys[f]]]
    /\ Goto(m, "publish")
    /\ UNCHANGED <<worldVars, record, manifest, graph, sidecarVars, fragmentVars, refresh,
                   run, lock, gens>>

(* The paths already dirty when the run began are all that is recorded.      *)
FaultyDirtyAtMap(m) == run[m].dirty0

(* T0 union T2: a file put back before the run ended was still read dirty.   *)
DirtyAtMap(m) == run[m].dirty0 \cup run[m].dirty2

(* The record, naming the two artifacts that are on disk now.  Without both  *)
(* status reads it certifies nothing.                                        *)
Certificate(m) ==
    IF run[m].dirty0 = None \/ run[m].dirty2 = None THEN Uncertifiable
    ELSE [state |-> "published", owner |-> Root(m), gen |-> run[m].gen,
          head |-> run[m].head, scope |-> run[m].scope,
          dirty |-> DirtyAtMap(m),
          configs |-> [c \in Configs |->
              IF run[m].configs[c] = Absent THEN None ELSE run[m].configs[c]],
          graphId |-> graph.id, manifestId |-> manifest.id]

Publish(m) ==
    /\ At(m, "publish")
    /\ record' = Certificate(m)
    /\ Goto(m, "finish")
    /\ UNCHANGED <<worldVars, digests, manifest, graph, sidecarVars, fragmentVars, refresh,
                   run, lock, gens>>

(* The lock outlives its holder.                                             *)
FaultyUnlocked(m) == lock

Unlocked(m) == IF lock = m THEN Free ELSE lock

(* The refresh-needed flag goes last; returning drops the lock.              *)
Finish(m) ==
    /\ At(m, "finish")
    /\ refresh' = refresh \ {Root(m)}
    /\ lock' = Unlocked(m)
    /\ run' = [run EXCEPT ![m] = Blank]
    /\ Goto(m, "idle")
    /\ UNCHANGED <<worldVars, certVars, manifest, graph, sidecarVars, fragmentVars, gens>>

(* The process is killed, or a read or write of the run returns an error:    *)
(* what is on disk stays as it is and the lock goes with the process.        *)
Crash(m) ==
    /\ mpc[m] # "idle"
    /\ lock' = Unlocked(m)
    /\ run' = [run EXCEPT ![m] = Blank]
    /\ Goto(m, "idle")
    /\ UNCHANGED <<worldVars, storeVars, gens>>

(* The steps a started run takes by itself.                                  *)
MapStep(m) ==
    \/ Acquire(m) \/ ReadPrior(m) \/ ReadStatus0(m) \/ Load(m)
    \/ \E f \in Sources : PlanEntry(m, f)
    \/ Discover(m) \/ Decide(m) \/ Mark(m) \/ WriteManifest(m)
    \/ KeepGraph(m) \/ WriteGraph(m)
    \/ WriteTransport(m) \/ WriteUnits(m) \/ WriteCrates(m)
    \/ WriteCache(m) \/ WriteIndex(m)
    \/ ReadStatus2(m) \/ WriteDigests(m) \/ Publish(m) \/ Finish(m)
=============================================================================
