-------------------------- MODULE IndexWholeProofs --------------------------
(* Theorems about what a certificate says of the bytes behind it, for every  *)
(* value of the constants of IndexProtocol.  The argument follows a run from *)
(* its reads to its record: what each step has put on disk is what a build   *)
(* from the bytes the run read would have put there, be it written or kept.  *)
EXTENDS IndexProtocolProofs, FiniteSetTheorems

-----------------------------------------------------------------------------
(* The inductive invariant.                                                  *)

(* What a file's key contributes to the graph, and the fragment kept for it. *)
Contribution(k) == IF k \in {None, Unread} THEN Absent ELSE k
Kept(k) == IF k = Unread THEN None ELSE k
KeptKeys(m) == [f \in GraphSources |-> Kept(run[m].keys[f])]

(* An artifact on disk is the one m makes of what it has read.               *)
GraphMine(m) ==
    /\ \A f \in GraphSources : graph.inputs[f] = Contribution(run[m].keys[f])
    /\ \A c \in Configs : graph.inputs[c] = run[m].configs[c]
UnitsMine(m) == units = ModelOf(m, ProjectConfigs)
CratesMine(m) == crates = ModelOf(m, CargoConfigs)
IsMine(m, stamped) == stamped = [owner |-> Root(m), entries |-> KeptKeys(m)]
ManifestMine(m) ==
    /\ manifest.by = run[m].gen
    /\ \A f \in run[m].scope \cap Sources : manifest.entries[f] = run[m].keys[f]
DigestsMine(m) ==
    digests = [gen |-> run[m].gen, files |-> [f \in Sources |-> Kept(run[m].keys[f])]]

(* The steps of a run that writes, each set from one step to the record.     *)
FromPublish == {"publish"}
FromDigests == {"digests"} \cup FromPublish
FromStatus2 == {"status2"} \cup FromDigests
FromIndex == {"index"} \cup FromStatus2
FromCache == {"cache"} \cup FromIndex
FromCrates == {"crates"} \cup FromCache
FromUnits == {"units"} \cup FromCrates
FromTransport == {"transport"} \cup FromUnits
FromRebuild == {"rebuild"} \cup FromTransport
FromMark == {"mark", "manifest"} \cup FromRebuild

(* A key is of a file that was listed and read, and there is no other.       *)
KeysRead(m) ==
    /\ run[m].planned \subseteq run[m].listed
    /\ run[m].listed \subseteq run[m].scope
    /\ \A f \in Sources : IF f \in run[m].planned
                          THEN run[m].keys[f] \in Contents \cup {Unread}
                          ELSE run[m].keys[f] = None
    /\ mpc[m] \in {"lock", "prior", "status0", "load"} => run[m].planned = {}
    /\ mpc[m] \in {"decide", "finish"} \cup FromMark => run[m].planned = run[m].listed

(* The record a run read first is the one on disk until it is marked.        *)
PriorStands(m) ==
    mpc[m] \in {"status0", "load", "plan", "decide", "mark"} => run[m].prior = record

(* A file that was not extracted again has its fragment in the cache.        *)
HasFragment(m, f) ==
    run[m].keys[f] \in Contents =>
        f \in run[m].fresh \/ OwnEntries(cache, Root(m))[f] = run[m].keys[f]
Reuses(m) ==
    /\ mpc[m] \in {"plan", "decide"} =>
          /\ run[m].reuse = OwnEntries(index, Root(m))
          /\ run[m].entries = NoManifest.entries \/ PriorMine(m)
    /\ mpc[m] \in {"plan", "decide", "mark", "manifest", "rebuild"} =>
          \A f \in run[m].planned \cap GraphSources : HasFragment(m, f)

(* A run that sees nothing changed leaves what it would have written.        *)
AllMine(m) ==
    /\ GraphMine(m) /\ UnitsMine(m) /\ CratesMine(m)
    /\ IsMine(m, cache) /\ IsMine(m, index)
Leaves(m) ==
    mpc[m] \in {"mark", "manifest", "rebuild"} /\ ~run[m].changed => AllMine(m)

Writes(m) ==
    /\ mpc[m] \in {"finish"} \cup FromRebuild => ManifestMine(m)
    /\ mpc[m] \in {"finish"} \cup FromTransport => GraphMine(m)
    /\ mpc[m] \in {"transport", "units", "crates", "cache", "index"} =>
          run[m].frags = KeptKeys(m)
    /\ mpc[m] \in FromCrates => UnitsMine(m)
    /\ mpc[m] \in FromCache => CratesMine(m)
    /\ mpc[m] \in FromIndex => IsMine(m, cache)
    /\ mpc[m] \in FromStatus2 => IsMine(m, index)
    /\ mpc[m] \in FromPublish => DigestsMine(m)

RunWhole(m) == KeysRead(m) /\ PriorStands(m) /\ Reuses(m) /\ Leaves(m) /\ Writes(m)

(* Under a record everything on disk is of one piece.                        *)
DiskWhole ==
    IsPublished(record) =>
        /\ record.graphId = graph.id /\ record.manifestId = manifest.id
        /\ manifest.by = record.gen
        /\ cache = index /\ index.owner = record.owner
        /\ \A f \in GraphSources : graph.inputs[f] = Contribution(index.entries[f])
        /\ \A f \in GraphSources : digests.files[f] = index.entries[f]
        /\ units = [c \in ProjectConfigs |-> graph.inputs[c]]
        /\ crates = [c \in CargoConfigs |-> graph.inputs[c]]
        /\ CertifiedIndexIsWhole

WholeInv == DiskWhole /\ \A m \in Mappers : RunWhole(m)

(* The checkout is Git's, its locks work and no other build writes.          *)
Undisturbed == HasGit /\ Locking /\ ~Allowed("foreign")

(* What the earlier invariants add.                                          *)
Context == Undisturbed /\ TypeInv /\ LockInv /\ NoCertificateMidRun

-----------------------------------------------------------------------------
(* Frames.                                                                   *)

(* The types this proof looks at.                                            *)
LEMMA WholeTypes ==
    ASSUME TypeInv
    PROVE  /\ mpc \in [Mappers -> MapSteps] /\ run \in [Mappers -> Runs]
           /\ graph \in Graphs /\ manifest \in Manifests
           /\ cache \in Stamps /\ index \in Stamps
  BY DEF TypeInv, TypeOK, MapTypeOK, StoreTypeOK

(* While one run is past the lock the others have read nothing.              *)
LEMMA OthersWait ==
    ASSUME LockInv, NEW m \in Mappers, mpc[m] \in LockedSteps,
           NEW n \in Mappers, n # m
    PROVE  mpc[n] \notin LockedSteps
  BY DEF LockInv

(* What a run that is not past the lock holds says nothing of the disk.      *)
LEMMA WaitingRunIsWhole ==
    ASSUME NEW n \in Mappers, mpc'[n] = mpc[n], run'[n] = run[n],
           mpc[n] \notin LockedSteps, RunWhole(n)
    PROVE  RunWhole(n)'
  BY DEF RunWhole, KeysRead, PriorStands, Reuses, Leaves, Writes, LockedSteps, MarkedSteps,
         FromPublish, FromDigests, FromStatus2, FromIndex, FromCache, FromCrates,
         FromUnits, FromTransport, FromRebuild, FromMark

(* What a run reads and writes.                                              *)
indexVars == <<record, digests, manifest, graph, units, crates, cache, index>>

(* A step that leaves the index and the runs alone.                          *)
LEMMA SameIndexIsWhole ==
    ASSUME WholeInv, UNCHANGED <<indexVars, mpc, run>>
    PROVE  WholeInv'
<1>1. DiskWhole'
  BY DEF WholeInv, DiskWhole, CertifiedIndexIsWhole, indexVars
<1>2. ASSUME NEW m \in Mappers
      PROVE  RunWhole(m)'
  BY DEF WholeInv, indexVars, RunWhole, KeysRead, PriorStands, Reuses, HasFragment, Leaves,
         Writes, AllMine, GraphMine, UnitsMine, CratesMine, IsMine, ManifestMine, DigestsMine,
         KeptKeys, PriorMine, Root, ModelOf
<1> QED
  BY <1>1, <1>2 DEF WholeInv

(* It is enough to look at the run that moves.                               *)
LEMMA MoverIsEnough ==
    ASSUME Context, WholeInv, NEW m \in Mappers, mpc[m] \in LockedSteps,
           \A n \in Mappers : n # m => mpc'[n] = mpc[n] /\ run'[n] = run[n],
           RunWhole(m)', DiskWhole'
    PROVE  WholeInv'
  BY OthersWait, WaitingRunIsWhole DEF Context, WholeInv

-----------------------------------------------------------------------------
(* A run's steps, one lemma for each.  First those that only read.           *)

(* A step that leaves the index alone leaves it of one piece.                *)
LEMMA DiskStands ==
    ASSUME DiskWhole, UNCHANGED indexVars
    PROVE  DiskWhole'
  BY DEF DiskWhole, CertifiedIndexIsWhole, indexVars

(* Without a record there is nothing to answer for.                          *)
LEMMA NoRecordIsWhole ==
    ASSUME ~IsPublished(record)'
    PROVE  DiskWhole'
  BY DEF DiskWhole

(* A run's memory, and what its types do not say: a file extracted again was *)
(* read, and a run that is under way has a checkout and a scope.             *)
LEMMA RunFields ==
    ASSUME TypeInv, NEW m \in Mappers
    PROVE  /\ run[m] \in Runs
           /\ \A f \in run[m].fresh : f \in run[m].planned /\ run[m].keys[f] \in Contents
           /\ mpc[m] # "idle" => run[m].wt \in Worktrees /\ run[m].scope \in Scopes
  BY DEF TypeInv, TypeOK, MapTypeOK, ActiveRun

(* A run starts with nothing read.                                           *)
LEMMA StartWhole ==
    ASSUME Context, WholeInv, NEW m \in Mappers, NEW w \in Worktrees, NEW s \in Scopes,
           Start(m, w, s)
    PROVE  RunWhole(m)'
<1> DEFINE mem == [Blank EXCEPT !.wt = w, !.scope = s]
<1>1. run'[m] = mem /\ mpc'[m] = "lock"
  BY WholeTypes DEF Start, Goto, Context
<1>2. /\ mem.planned = {} /\ mem.listed = {} /\ \A f \in Sources : mem.keys[f] = None
  BY DEF Blank
<1> HIDE DEF mem
<1> QED
  BY <1>1, <1>2 DEF RunWhole, KeysRead, PriorStands, Reuses, Leaves, Writes,
     FromPublish, FromDigests, FromStatus2, FromIndex, FromCache, FromCrates,
     FromUnits, FromTransport, FromRebuild, FromMark

(* So does the next one, however this one ended.                             *)
LEMMA EndedRunIsWhole ==
    ASSUME Context, NEW m \in Mappers, Goto(m, "idle"), run' = [run EXCEPT ![m] = Blank]
    PROVE  RunWhole(m)'
<1>1. run'[m] = Blank /\ mpc'[m] = "idle"
  BY WholeTypes DEF Goto, Context
<1>2. /\ Blank.planned = {} /\ Blank.listed = {} /\ \A f \in Sources : Blank.keys[f] = None
  BY DEF Blank
<1> QED
  BY <1>1, <1>2 DEF RunWhole, KeysRead, PriorStands, Reuses, Leaves, Writes,
     FromPublish, FromDigests, FromStatus2, FromIndex, FromCache, FromCrates,
     FromUnits, FromTransport, FromRebuild, FromMark

(* Past the lock a run has its number and still nothing read.                *)
LEMMA AcquireWhole ==
    ASSUME Context, WholeInv, NEW m \in Mappers, Acquire(m)
    PROVE  RunWhole(m)'
<1> DEFINE mem == [run[m] EXCEPT !.gen = gens + 1]
<1>1. run'[m] = mem /\ mpc'[m] = "prior" /\ mpc[m] = "lock"
  BY WholeTypes DEF Acquire, At, Goto, Context
<1>2. mem.planned = run[m].planned /\ mem.listed = run[m].listed /\ mem.scope = run[m].scope
        /\ mem.keys = run[m].keys
  BY RunFields DEF Runs, Context
<1> HIDE DEF mem
<1>3. KeysRead(m)'
  BY <1>1, <1>2 DEF WholeInv, RunWhole, KeysRead,
     FromPublish, FromDigests, FromStatus2, FromIndex, FromCache, FromCrates,
     FromUnits, FromTransport, FromRebuild, FromMark
<1> QED
  BY <1>1, <1>3 DEF RunWhole, PriorStands, Reuses, Leaves, Writes,
     FromPublish, FromDigests, FromStatus2, FromIndex, FromCache, FromCrates,
     FromUnits, FromTransport, FromRebuild, FromMark

(* The prior record is the one on disk.                                      *)
LEMMA ReadPriorWhole ==
    ASSUME Context, WholeInv, NEW m \in Mappers, ReadPrior(m)
    PROVE  RunWhole(m)'
<1> DEFINE mem == [run[m] EXCEPT !.prior = record, !.head = GitHead(Root(m))]
<1>1. run'[m] = mem /\ mpc'[m] = "status0" /\ mpc[m] = "prior" /\ record' = record
  BY WholeTypes DEF ReadPrior, At, Goto, Context, storeVars, certVars, Runs
<1>2. mem.planned = run[m].planned /\ mem.listed = run[m].listed /\ mem.scope = run[m].scope
        /\ mem.keys = run[m].keys /\ mem.prior = record
  BY RunFields DEF Runs, Context
<1> HIDE DEF mem
<1>3. KeysRead(m)'
  BY <1>1, <1>2 DEF WholeInv, RunWhole, KeysRead,
     FromPublish, FromDigests, FromStatus2, FromIndex, FromCache, FromCrates,
     FromUnits, FromTransport, FromRebuild, FromMark
<1> QED
  BY <1>1, <1>2, <1>3 DEF RunWhole, PriorStands, Reuses, Leaves, Writes,
     FromPublish, FromDigests, FromStatus2, FromIndex, FromCache, FromCrates,
     FromUnits, FromTransport, FromRebuild, FromMark

(* The first status says nothing of the index.                               *)
LEMMA ReadStatus0Whole ==
    ASSUME Context, WholeInv, NEW m \in Mappers, ReadStatus0(m)
    PROVE  RunWhole(m)'
<1>1. PICK outcome \in StatusOutcomes(Root(m), run[m].scope) :
          run' = [run EXCEPT ![m].dirty0 = outcome]
  BY DEF ReadStatus0
<1> DEFINE mem == [run[m] EXCEPT !.dirty0 = outcome]
<1>2. run'[m] = mem /\ mpc'[m] = "load" /\ mpc[m] = "status0" /\ record' = record
  BY <1>1, WholeTypes DEF ReadStatus0, At, Goto, Context, storeVars, certVars, Runs
<1>3. mem.planned = run[m].planned /\ mem.listed = run[m].listed /\ mem.scope = run[m].scope
        /\ mem.keys = run[m].keys /\ mem.prior = run[m].prior
  BY RunFields DEF Runs, Context
<1> HIDE DEF mem
<1>4. KeysRead(m)' /\ PriorStands(m)'
  BY <1>2, <1>3 DEF WholeInv, RunWhole, KeysRead, PriorStands,
     FromPublish, FromDigests, FromStatus2, FromIndex, FromCache, FromCrates,
     FromUnits, FromTransport, FromRebuild, FromMark
<1> QED
  BY <1>2, <1>4 DEF RunWhole, Reuses, Leaves, Writes,
     FromPublish, FromDigests, FromStatus2, FromIndex, FromCache, FromCrates,
     FromUnits, FromTransport, FromRebuild, FromMark

(* The reuse keys are the index's, if it is this checkout's own, and the     *)
(* entries those of the manifest only under a record of this checkout.       *)
LEMMA LoadWhole ==
    ASSUME Context, WholeInv, NEW m \in Mappers, Load(m)
    PROVE  RunWhole(m)'
<1> DEFINE listed == {f \in Sources \cap run[m].scope : OnDisk(m)[f] # Absent}
           entries == IF PriorMine(m) THEN manifest.entries ELSE NoManifest.entries
           reuse == OwnEntries(index, Root(m))
           mem == [run[m] EXCEPT !.listed = listed, !.entries = entries, !.reuse = reuse]
<1>1. run'[m] = mem /\ mpc'[m] = "plan" /\ mpc[m] = "load" /\ UNCHANGED <<record, index>>
  BY WholeTypes DEF Load, At, Goto, Context, storeVars, certVars, fragmentVars, Runs
<1>2. listed \subseteq run[m].scope
  OBVIOUS
<1>3. entries = NoManifest.entries \/ PriorMine(m)
  OBVIOUS
<1> HIDE DEF listed, entries
<1>4. mem.planned = run[m].planned /\ mem.listed = listed /\ mem.scope = run[m].scope
        /\ mem.keys = run[m].keys /\ mem.prior = run[m].prior /\ mem.entries = entries
        /\ mem.reuse = OwnEntries(index, Root(m)) /\ mem.wt = run[m].wt
  BY RunFields DEF Runs, Context
<1> HIDE DEF mem
<1>5. run[m].planned = {}
  BY <1>1 DEF WholeInv, RunWhole, KeysRead
<1>6. KeysRead(m)' /\ PriorStands(m)'
  BY <1>1, <1>2, <1>4, <1>5 DEF WholeInv, RunWhole, KeysRead, PriorStands,
     FromPublish, FromDigests, FromStatus2, FromIndex, FromCache, FromCrates,
     FromUnits, FromTransport, FromRebuild, FromMark
<1>7. Reuses(m)'
  BY <1>1, <1>3, <1>4, <1>5 DEF Reuses, PriorMine, Root, OwnEntries
<1> QED
  BY <1>1, <1>6, <1>7 DEF RunWhole, Leaves, Writes,
     FromPublish, FromDigests, FromStatus2, FromIndex, FromCache, FromCrates,
     FromUnits, FromTransport, FromRebuild, FromMark

(* One file is read: it is extracted again, or its fragment is cached under  *)
(* the key just computed.                                                    *)
LEMMA PlanEntryWhole ==
    ASSUME Context, WholeInv, NEW m \in Mappers, NEW f \in Sources, PlanEntry(m, f)
    PROVE  RunWhole(m)'
<1> DEFINE bytes == OnDisk(m)[f]
           key == IF bytes = Absent THEN Unread ELSE bytes
           joins == f \in GraphSources /\ bytes # Absent /\ ~Reusable(m, f, bytes)
           mem == [run[m] EXCEPT !.planned = @ \cup {f}, !.keys[f] = key,
                                 !.fresh = IF joins THEN @ \cup {f} ELSE @]
<1>1. /\ run'[m] = mem /\ mpc'[m] = "plan" /\ mpc[m] = "plan"
      /\ UNCHANGED <<record, index, cache>>
  BY WholeTypes DEF PlanEntry, At, Context, storeVars, certVars, fragmentVars, Runs
<1>2. bytes \in Contents \cup {Absent}
  <2>1. run[m].wt \in Worktrees /\ f \in Files
    BY <1>1, RunFields, StoreAssumption DEF Context
  <2> QED
    BY <2>1 DEF Context, TypeInv, TypeOK, WorldTypeOK, Trees, OnDisk, Root
<1>3. key \in Contents \cup {Unread} /\ f \in run[m].listed
  BY <1>2 DEF PlanEntry
<1>4. joins \/ f \notin GraphSources \/ key = Unread
        \/ OwnEntries(cache, Root(m))[f] = key
  <2>1. SUFFICES ASSUME f \in GraphSources, bytes # Absent, Reusable(m, f, bytes)
                 PROVE  OwnEntries(cache, Root(m))[f] = bytes
    OBVIOUS
  <2>2. run[m].reuse = OwnEntries(index, Root(m)) /\ run[m].prior = record
    BY <1>1 DEF WholeInv, RunWhole, Reuses, PriorStands
  <2>3. run[m].entries # NoManifest.entries
    BY <1>2, <2>1, StoreAssumption DEF Reusable, NoManifest
  <2>4. IsPublished(record)
    BY <1>1, <2>2, <2>3 DEF WholeInv, RunWhole, Reuses, PriorMine, Context, Undisturbed
  <2> QED
    BY <2>1, <2>2, <2>4 DEF WholeInv, DiskWhole, Reusable
<1> HIDE DEF bytes, key, joins
<1>5. /\ mem.planned = run[m].planned \cup {f}
      /\ mem.keys = [run[m].keys EXCEPT ![f] = key] /\ run[m].keys \in [Sources -> Keys]
      /\ mem.fresh = IF joins THEN run[m].fresh \cup {f} ELSE run[m].fresh
      /\ mem.listed = run[m].listed /\ mem.scope = run[m].scope /\ mem.wt = run[m].wt
      /\ mem.prior = run[m].prior /\ mem.entries = run[m].entries
      /\ mem.reuse = run[m].reuse
  BY RunFields DEF Runs, Context
<1> HIDE DEF mem
<1>6. KeysRead(m)' /\ PriorStands(m)'
  BY <1>1, <1>3, <1>5 DEF WholeInv, RunWhole, KeysRead, PriorStands,
     FromPublish, FromDigests, FromStatus2, FromIndex, FromCache, FromCrates,
     FromUnits, FromTransport, FromRebuild, FromMark
<1>7. Reuses(m)'
  <2>1. /\ run'[m].reuse = OwnEntries(index, Root(m))'
        /\ run'[m].entries = NoManifest.entries \/ PriorMine(m)'
    BY <1>1, <1>5 DEF WholeInv, RunWhole, Reuses, PriorMine, Root, OwnEntries
  <2>2. ASSUME NEW g \in run'[m].planned \cap GraphSources
        PROVE  HasFragment(m, g)'
    <3>1. CASE g = f
      BY <1>1, <1>4, <1>5, <3>1, <2>2, StoreAssumption DEF HasFragment, Root, OwnEntries, Keys
    <3>2. CASE g # f
      BY <1>1, <1>5, <3>2, <2>2
         DEF WholeInv, RunWhole, Reuses, HasFragment, Root, OwnEntries
    <3> QED
      BY <3>1, <3>2
  <2> QED
    BY <2>1, <2>2 DEF Reuses
<1> QED
  BY <1>1, <1>6, <1>7 DEF RunWhole, Leaves, Writes,
     FromPublish, FromDigests, FromStatus2, FromIndex, FromCache, FromCrates,
     FromUnits, FromTransport, FromRebuild, FromMark

(* The configuration is read; every listed file has been.                    *)
LEMMA DiscoverWhole ==
    ASSUME Context, WholeInv, NEW m \in Mappers, Discover(m)
    PROVE  RunWhole(m)'
<1> DEFINE configs == [c \in Configs |-> IF c \in run[m].scope THEN OnDisk(m)[c] ELSE Absent]
<1>1. PICK l \in Lanes : run' = [run EXCEPT ![m].configs = configs, ![m].lane = l]
  BY DEF Discover
<1> DEFINE mem == [run[m] EXCEPT !.configs = configs, !.lane = l]
<1>2. /\ run'[m] = mem /\ mpc'[m] = "decide" /\ mpc[m] = "plan"
      /\ UNCHANGED <<record, index, cache>>
  BY <1>1, WholeTypes
     DEF Discover, At, Goto, Context, storeVars, certVars, fragmentVars, Runs
<1>3. run[m].planned = run[m].listed
  BY DEF Discover
<1> HIDE DEF configs
<1>4. /\ mem.planned = run[m].planned /\ mem.listed = run[m].listed
      /\ mem.scope = run[m].scope /\ mem.keys = run[m].keys /\ mem.prior = run[m].prior
      /\ mem.entries = run[m].entries /\ mem.reuse = run[m].reuse /\ mem.wt = run[m].wt
      /\ mem.fresh = run[m].fresh
  BY RunFields DEF Runs, Context
<1> HIDE DEF mem
<1>5. KeysRead(m)' /\ PriorStands(m)'
  BY <1>2, <1>3, <1>4 DEF WholeInv, RunWhole, KeysRead, PriorStands
<1>6. Reuses(m)'
  BY <1>2, <1>4 DEF WholeInv, RunWhole, Reuses, HasFragment, PriorMine, Root, OwnEntries
<1> QED
  BY <1>2, <1>5, <1>6 DEF RunWhole, Leaves, Writes,
     FromPublish, FromDigests, FromStatus2, FromIndex, FromCache, FromCrates,
     FromUnits, FromTransport, FromRebuild, FromMark

(* Keys that agree where the run has files, and as many kept as it has       *)
(* files: the fragments index is the run's own.                              *)
LEMMA StableIndexIsOwn ==
    ASSUME Context, NEW m \in Mappers, KeysRead(m), mpc[m] = "decide",
           ~IndexIsStale(m)
    PROVE  run[m].reuse = KeptKeys(m)
<1> DEFINE kept == {f \in GraphSources : run[m].reuse[f] # None}
<1>1. run[m].reuse \in [GraphSources -> Contents \cup {None}]
  BY RunFields DEF Context, Runs, Fragmented
<1>2. ASSUME NEW f \in GraphFiles(m)
      PROVE  run[m].reuse[f] = run[m].keys[f] /\ run[m].keys[f] \in Contents
  <2>1. f \in GraphSources /\ f \in run[m].planned
    BY DEF GraphFiles, KeysRead
  <2>2. run[m].keys[f] \in Contents \cup {Unread}
    BY <2>1, StoreAssumption DEF KeysRead
  <2> QED
    BY <1>1, <2>1, <2>2, StoreAssumption DEF IndexIsStale
<1>3. GraphFiles(m) \subseteq kept
  BY <1>2, StoreAssumption DEF GraphFiles
<1>4. IsFiniteSet(kept)
  <2>1. kept \subseteq Files
    BY StoreAssumption
  <2> QED
    BY <2>1, FS_Subset, WorkTreeAssumption
<1>5. Cardinality(kept) = Cardinality(GraphFiles(m))
  BY DEF IndexIsStale
<1>6. kept = GraphFiles(m)
  BY <1>3, <1>4, <1>5, FS_Subset
<1>7. ASSUME NEW f \in GraphSources
      PROVE  run[m].reuse[f] = Kept(run[m].keys[f])
  <2>1. CASE f \in GraphFiles(m)
    BY <1>2, <2>1, StoreAssumption DEF Kept
  <2>2. CASE f \notin GraphFiles(m)
    <3>1. run[m].reuse[f] = None
      BY <1>6, <2>2
    <3>2. run[m].keys[f] = None
      BY <2>2, StoreAssumption DEF KeysRead, GraphFiles
    <3> QED
      BY <3>1, <3>2 DEF Kept
  <2> QED
    BY <2>1, <2>2
<1> QED
  BY <1>1, <1>7 DEF KeptKeys

(* What a kept key and the key itself contribute is the same.                *)
LEMMA KeptContributes ==
    ASSUME NEW k
    PROVE  Contribution(Kept(k)) = Contribution(k)
  BY DEF Contribution, Kept

(* A run that decides nothing has changed finds its own index on disk.       *)
LEMMA UnchangedIsMine ==
    ASSUME Context, WholeInv, NEW m \in Mappers, mpc[m] = "decide",
           GraphTrusted(m), ~IndexIsStale(m), ~ModelsDiffer(m)
    PROVE  AllMine(m)
<1>1. KeysRead(m) /\ run[m].prior = record /\ run[m].reuse = OwnEntries(index, Root(m))
  BY DEF WholeInv, RunWhole, PriorStands, Reuses
<1>2. IsPublished(record) /\ record.owner = Root(m)
  BY <1>1 DEF GraphTrusted, PriorMine, Context, Undisturbed
<1>3. /\ cache = index /\ index.owner = Root(m)
      /\ \A f \in GraphSources : graph.inputs[f] = Contribution(index.entries[f])
      /\ units = [c \in ProjectConfigs |-> graph.inputs[c]]
      /\ crates = [c \in CargoConfigs |-> graph.inputs[c]]
  BY <1>2 DEF WholeInv, DiskWhole
<1>4. index.entries = KeptKeys(m)
  BY <1>1, <1>3, StableIndexIsOwn DEF OwnEntries, OwnerOf, Context, Undisturbed
<1>5. IsMine(m, index) /\ IsMine(m, cache)
  BY <1>3, <1>4, WholeTypes DEF IsMine, Stamps, Context
<1>6. UnitsMine(m) /\ CratesMine(m)
  BY DEF ModelsDiffer, UnitsMine, CratesMine
<1>7. GraphMine(m)
  <2>1. ASSUME NEW f \in GraphSources
        PROVE  graph.inputs[f] = Contribution(run[m].keys[f])
    BY <1>3, <1>4, KeptContributes DEF KeptKeys
  <2>2. ASSUME NEW c \in ProjectConfigs
        PROVE  graph.inputs[c] = run[m].configs[c]
    BY <1>3, <1>6 DEF UnitsMine, ModelOf
  <2>3. ASSUME NEW c \in CargoConfigs
        PROVE  graph.inputs[c] = run[m].configs[c]
    BY <1>3, <1>6 DEF CratesMine, ModelOf
  <2> QED
    BY <2>1, <2>2, <2>3 DEF GraphMine, Configs
<1> QED
  BY <1>5, <1>6, <1>7 DEF AllMine

(* A run that finds nothing changed finds on disk what it would write.       *)
LEMMA DecideWhole ==
    ASSUME Context, WholeInv, NEW m \in Mappers, Decide(m)
    PROVE  RunWhole(m)'
<1> DEFINE settings == SettingsOnDisk(m)
           changed == \/ ~GraphTrusted(m)
                      \/ IndexIsStale(m)
                      \/ ModelsDiffer(m)
                      \/ TransportDiffers(SettingsOnDisk(m))
                      \/ run[m].lane # None
           mem == [run[m] EXCEPT !.settings = settings, !.changed = changed]
<1>1. /\ run'[m] = mem /\ mpc'[m] = "mark" /\ mpc[m] = "decide"
      /\ UNCHANGED indexVars
  BY WholeTypes
     DEF Decide, At, Goto, Context, storeVars, certVars, sidecarVars, fragmentVars,
         indexVars, Runs
<1>2. ~changed => AllMine(m)
  BY <1>1, UnchangedIsMine
<1> HIDE DEF settings, changed
<1>3. /\ mem.planned = run[m].planned /\ mem.listed = run[m].listed
      /\ mem.scope = run[m].scope /\ mem.keys = run[m].keys /\ mem.prior = run[m].prior
      /\ mem.wt = run[m].wt /\ mem.fresh = run[m].fresh
      /\ mem.configs = run[m].configs /\ mem.changed = changed
  BY RunFields DEF Runs, Context
<1> HIDE DEF mem
<1>4. KeysRead(m)' /\ PriorStands(m)'
  BY <1>1, <1>3 DEF WholeInv, RunWhole, KeysRead, PriorStands, indexVars
<1>5. Reuses(m)'
  BY <1>1, <1>3 DEF WholeInv, RunWhole, Reuses, HasFragment, Root, OwnEntries, indexVars
<1>6. Leaves(m)'
  BY <1>1, <1>2, <1>3
     DEF Leaves, AllMine, GraphMine, UnitsMine, CratesMine, IsMine, KeptKeys, ModelOf,
         Root, indexVars
<1> QED
  BY <1>1, <1>4, <1>5, <1>6 DEF RunWhole, Writes,
     FromPublish, FromDigests, FromStatus2, FromIndex, FromCache, FromCrates,
     FromUnits, FromTransport, FromRebuild, FromMark

-----------------------------------------------------------------------------
(* The steps that write.                                                     *)

(* The marker touches no artifact.                                           *)
LEMMA MarkWhole ==
    ASSUME Context, WholeInv, NEW m \in Mappers, Mark(m)
    PROVE  RunWhole(m)' /\ DiskWhole'
<1>1. /\ mpc'[m] = "manifest" /\ mpc[m] = "mark" /\ run' = run
      /\ UNCHANGED <<manifest, graph, units, crates, cache, index>>
  BY WholeTypes DEF Mark, At, Goto, Context, sidecarVars, fragmentVars
<1>2. ~IsPublished(record)'
  BY DEF Mark, IsPublished, InProgress, Missing
<1>3. KeysRead(m)' /\ Reuses(m)' /\ Leaves(m)'
  BY <1>1
     DEF WholeInv, RunWhole, KeysRead, Reuses, HasFragment, Leaves, AllMine, GraphMine,
         UnitsMine, CratesMine, IsMine, KeptKeys, ModelOf, Root, OwnEntries,
         FromPublish, FromDigests, FromStatus2, FromIndex, FromCache, FromCrates,
         FromUnits, FromTransport, FromRebuild, FromMark
<1>4. PriorStands(m)' /\ Writes(m)'
  BY <1>1 DEF PriorStands, Writes,
     FromPublish, FromDigests, FromStatus2, FromIndex, FromCache, FromCrates,
     FromUnits, FromTransport, FromRebuild
<1> QED
  BY <1>2, <1>3, <1>4, NoRecordIsWhole DEF RunWhole

(* Between the marker and the record there is no certificate to honour.      *)
LEMMA MarkedDiskIsWhole ==
    ASSUME Context, NEW m \in Mappers, mpc[m] \in MarkedSteps, record' = record
    PROVE  DiskWhole'
  BY NoRecordIsWhole DEF Context, Undisturbed, NoCertificateMidRun

(* The manifest is now this run's.                                           *)
LEMMA WriteManifestWhole ==
    ASSUME Context, WholeInv, NEW m \in Mappers, WriteManifest(m)
    PROVE  RunWhole(m)' /\ DiskWhole'
<1>1. /\ mpc'[m] = "rebuild" /\ mpc[m] = "manifest" /\ run' = run
      /\ UNCHANGED <<record, graph, units, crates, cache, index>>
  BY WholeTypes DEF WriteManifest, At, Goto, Context, certVars, sidecarVars, fragmentVars
<1>2. KeysRead(m)' /\ Reuses(m)' /\ Leaves(m)'
  BY <1>1
     DEF WholeInv, RunWhole, KeysRead, Reuses, HasFragment, Leaves, AllMine, GraphMine,
         UnitsMine, CratesMine, IsMine, KeptKeys, ModelOf, Root, OwnEntries,
         FromPublish, FromDigests, FromStatus2, FromIndex, FromCache, FromCrates,
         FromUnits, FromTransport, FromRebuild, FromMark
<1>3. ManifestMine(m)'
  <2>1. manifest'.by = run[m].gen /\ manifest'.entries = MergedEntries(m)
    BY DEF WriteManifest
  <2>2. ASSUME NEW f \in run[m].scope \cap Sources
        PROVE  MergedEntries(m)[f] = run[m].keys[f]
    BY <1>1, <2>2 DEF MergedEntries, WholeInv, RunWhole, KeysRead, FromMark
  <2> QED
    BY <1>1, <2>1, <2>2 DEF ManifestMine
<1>4. PriorStands(m)' /\ Writes(m)'
  BY <1>1, <1>3 DEF PriorStands, Writes,
     FromPublish, FromDigests, FromStatus2, FromIndex, FromCache, FromCrates,
     FromUnits, FromTransport, FromRebuild
<1>5. DiskWhole'
  BY <1>1, MarkedDiskIsWhole DEF MarkedSteps
<1> QED
  BY <1>2, <1>4, <1>5 DEF RunWhole

(* A graph that is kept is the one this run would have written.              *)
LEMMA KeepGraphWhole ==
    ASSUME Context, WholeInv, NEW m \in Mappers, KeepGraph(m)
    PROVE  RunWhole(m)' /\ DiskWhole'
<1>1. /\ mpc'[m] = "status2" /\ mpc[m] = "rebuild" /\ run' = run
      /\ ~run[m].changed /\ UNCHANGED indexVars
  BY WholeTypes
     DEF KeepGraph, At, Goto, Context, storeVars, certVars, sidecarVars, fragmentVars, indexVars
<1>2. KeysRead(m)'
  BY <1>1 DEF WholeInv, RunWhole, KeysRead,
     FromPublish, FromDigests, FromStatus2, FromIndex, FromCache, FromCrates,
     FromUnits, FromTransport, FromRebuild, FromMark
<1>3. AllMine(m) /\ ManifestMine(m)
  BY <1>1 DEF WholeInv, RunWhole, Leaves, Writes, FromRebuild
<1>4. AllMine(m)' /\ ManifestMine(m)'
  BY <1>1, <1>3
     DEF AllMine, GraphMine, UnitsMine, CratesMine, IsMine, ManifestMine, KeptKeys,
         ModelOf, Root, indexVars
<1>5. PriorStands(m)' /\ Reuses(m)' /\ Leaves(m)' /\ Writes(m)'
  BY <1>1, <1>4 DEF AllMine, PriorStands, Reuses, Leaves, Writes, FromPublish
<1>6. DiskWhole'
  BY <1>1, MarkedDiskIsWhole DEF MarkedSteps, indexVars
<1> QED
  BY <1>2, <1>5, <1>6 DEF RunWhole

(* What resolution is given is each file's key, cached or extracted.         *)
LEMMA FragmentsAreKept ==
    ASSUME Context, WholeInv, NEW m \in Mappers, mpc[m] = "rebuild"
    PROVE  Fragments(m) = KeptKeys(m)
<1> SUFFICES ASSUME NEW f \in GraphSources
             PROVE  Fragment(m, f) = Kept(run[m].keys[f])
  BY DEF Fragments, KeptKeys
<1>1. f \in GraphFiles(m) <=> f \in run[m].planned
  BY StoreAssumption DEF WholeInv, RunWhole, KeysRead, GraphFiles, FromMark, FromRebuild
<1>2. f \in Sources
  BY StoreAssumption
<1>3. CASE f \notin run[m].planned
  <2>1. run[m].keys[f] = None
    BY <1>2, <1>3 DEF WholeInv, RunWhole, KeysRead
  <2> QED
    BY <1>1, <1>3, <2>1 DEF Fragment, Kept
<1>4. CASE f \in run[m].planned
  <2>1. run[m].keys[f] \in Contents \cup {Unread}
    BY <1>2, <1>4 DEF WholeInv, RunWhole, KeysRead
  <2>2. CASE run[m].keys[f] \in Contents
    <3>1. HasFragment(m, f)
      BY <1>4 DEF WholeInv, RunWhole, Reuses
    <3> QED
      BY <1>1, <1>4, <2>2, <3>1, StoreAssumption DEF HasFragment, Fragment, Kept
  <2>3. CASE run[m].keys[f] = Unread
    <3>1. OwnEntries(cache, Root(m))[f] \in Contents \cup {None}
      BY WholeTypes DEF Context, Stamps, Fragmented, OwnEntries, NoFragments
    <3>2. f \notin run[m].fresh
      BY <2>3, RunFields, StoreAssumption DEF Context
    <3> QED
      BY <1>1, <1>4, <2>3, <3>1, <3>2, StoreAssumption DEF Fragment, Kept
  <2> QED
    BY <2>1, <2>2, <2>3
<1> QED
  BY <1>3, <1>4

(* A graph that is written is made of the keys this run has read.            *)
LEMMA WriteGraphWhole ==
    ASSUME Context, WholeInv, NEW m \in Mappers, WriteGraph(m)
    PROVE  RunWhole(m)' /\ DiskWhole'
<1> DEFINE frags == Fragments(m)
           mem == [run[m] EXCEPT !.frags = frags]
<1>1. /\ run'[m] = mem /\ mpc'[m] = "transport" /\ mpc[m] = "rebuild"
      /\ UNCHANGED <<record, manifest, units, crates, cache, index>>
      /\ graph'.inputs = ResolvedInputs(m)
  BY WholeTypes
     DEF WriteGraph, At, Goto, Context, certVars, sidecarVars, fragmentVars, Runs
<1>2. frags = KeptKeys(m)
  BY <1>1, FragmentsAreKept
<1>3. ASSUME NEW f \in GraphSources
      PROVE  ResolvedInputs(m)[f] = Contribution(run[m].keys[f])
  <2>1. ResolvedInputs(m)[f] = IF Fragment(m, f) = None THEN Absent ELSE Fragment(m, f)
    BY StoreAssumption DEF ResolvedInputs
  <2>2. Fragment(m, f) = Kept(run[m].keys[f])
    BY <1>2 DEF Fragments, KeptKeys
  <2> QED
    BY <2>1, <2>2, StoreAssumption DEF Kept, Contribution
<1>4. ASSUME NEW c \in Configs
      PROVE  ResolvedInputs(m)[c] = run[m].configs[c]
  BY StoreAssumption DEF ResolvedInputs
<1> HIDE DEF frags
<1>5. /\ mem.planned = run[m].planned /\ mem.listed = run[m].listed
      /\ mem.scope = run[m].scope /\ mem.keys = run[m].keys
      /\ mem.wt = run[m].wt /\ mem.gen = run[m].gen
      /\ mem.configs = run[m].configs /\ mem.frags = frags
  BY RunFields DEF Runs, Context
<1> HIDE DEF mem
<1>6. KeysRead(m)'
  BY <1>1, <1>5 DEF WholeInv, RunWhole, KeysRead,
     FromPublish, FromDigests, FromStatus2, FromIndex, FromCache, FromCrates,
     FromUnits, FromTransport, FromRebuild, FromMark
<1>7. ManifestMine(m)'
  BY <1>1, <1>5 DEF WholeInv, RunWhole, Writes, ManifestMine, FromRebuild
<1>8. GraphMine(m)'
  BY <1>1, <1>3, <1>4, <1>5 DEF GraphMine
<1>9. run'[m].frags = KeptKeys(m)'
  BY <1>1, <1>2, <1>5 DEF KeptKeys
<1>10. PriorStands(m)' /\ Reuses(m)' /\ Leaves(m)' /\ Writes(m)'
  BY <1>1, <1>7, <1>8, <1>9 DEF PriorStands, Reuses, Leaves, Writes,
     FromPublish, FromDigests, FromStatus2, FromIndex, FromCache, FromCrates
<1>11. DiskWhole'
  BY <1>1, MarkedDiskIsWhole DEF MarkedSteps
<1> QED
  BY <1>6, <1>10, <1>11 DEF RunWhole

(* From here to the record the run's memory stands but for the last status.  *)
LEMMA WriterKeeps ==
    ASSUME WholeInv, NEW m \in Mappers,
           mpc[m] \in FromTransport, mpc'[m] \in {"finish"} \cup FromUnits,
           run'[m].planned = run[m].planned, run'[m].listed = run[m].listed,
           run'[m].scope = run[m].scope, run'[m].keys = run[m].keys,
           run'[m].configs = run[m].configs, run'[m].wt = run[m].wt,
           run'[m].gen = run[m].gen, run'[m].frags = run[m].frags,
           UNCHANGED <<manifest, graph>>
    PROVE  /\ KeysRead(m)' /\ PriorStands(m)' /\ Reuses(m)' /\ Leaves(m)'
           /\ ManifestMine(m)' /\ GraphMine(m)'
           /\ KeptKeys(m)' = KeptKeys(m)
           /\ units' = units /\ UnitsMine(m) => UnitsMine(m)'
           /\ crates' = crates /\ CratesMine(m) => CratesMine(m)'
           /\ cache' = cache /\ IsMine(m, cache) => IsMine(m, cache)'
           /\ index' = index /\ IsMine(m, index) => IsMine(m, index)'
<1> USE DEF FromPublish, FromDigests, FromStatus2, FromIndex, FromCache, FromCrates,
            FromUnits, FromTransport
<1>1. KeysRead(m)'
  BY DEF WholeInv, RunWhole, KeysRead, FromRebuild, FromMark
<1>2. PriorStands(m)' /\ Reuses(m)' /\ Leaves(m)'
  BY DEF PriorStands, Reuses, Leaves
<1>3. ManifestMine(m)' /\ GraphMine(m)'
  BY DEF WholeInv, RunWhole, Writes, ManifestMine, GraphMine, FromRebuild
<1>4. KeptKeys(m)' = KeptKeys(m)
  BY DEF KeptKeys
<1>5. /\ units' = units /\ UnitsMine(m) => UnitsMine(m)'
      /\ crates' = crates /\ CratesMine(m) => CratesMine(m)'
  BY DEF UnitsMine, CratesMine, ModelOf
<1>6. /\ cache' = cache /\ IsMine(m, cache) => IsMine(m, cache)'
      /\ index' = index /\ IsMine(m, index) => IsMine(m, index)'
  BY <1>4 DEF IsMine, Root
<1> QED
  BY <1>1, <1>2, <1>3, <1>4, <1>5, <1>6

(* The transport sidecar is no part of it.                                   *)
LEMMA WriteTransportWhole ==
    ASSUME Context, WholeInv, NEW m \in Mappers, WriteTransport(m)
    PROVE  RunWhole(m)' /\ DiskWhole'
<1>1. /\ mpc'[m] = "units" /\ mpc[m] = "transport" /\ run' = run
      /\ UNCHANGED <<record, manifest, graph>>
  BY WholeTypes DEF WriteTransport, At, Goto, Context, certVars
<1>2. run'[m].frags = KeptKeys(m)
  BY <1>1 DEF WholeInv, RunWhole, Writes
<1> USE DEF FromPublish, FromDigests, FromStatus2, FromIndex, FromCache, FromCrates,
            FromUnits, FromTransport
<1> QED
  BY <1>1, <1>2, WriterKeeps, MarkedDiskIsWhole DEF MarkedSteps, RunWhole, Writes, FromRebuild

(* The project model is now this run's.                                      *)
LEMMA WriteUnitsWhole ==
    ASSUME Context, WholeInv, NEW m \in Mappers, WriteUnits(m)
    PROVE  RunWhole(m)' /\ DiskWhole'
<1>1. /\ mpc'[m] = "crates" /\ mpc[m] = "units" /\ run' = run
      /\ UNCHANGED <<record, manifest, graph>>
  BY WholeTypes DEF WriteUnits, At, Goto, Context, certVars
<1>2. run'[m].frags = KeptKeys(m)
  BY <1>1 DEF WholeInv, RunWhole, Writes
<1>3. UnitsMine(m)'
  BY <1>1 DEF WriteUnits, UnitsMine, ModelOf
<1> USE DEF FromPublish, FromDigests, FromStatus2, FromIndex, FromCache, FromCrates,
            FromUnits, FromTransport
<1> QED
  BY <1>1, <1>2, <1>3, WriterKeeps, MarkedDiskIsWhole
     DEF MarkedSteps, RunWhole, Writes, FromRebuild

(* The Cargo model is now this run's.                                        *)
LEMMA WriteCratesWhole ==
    ASSUME Context, WholeInv, NEW m \in Mappers, WriteCrates(m)
    PROVE  RunWhole(m)' /\ DiskWhole'
<1>1. /\ mpc'[m] = "cache" /\ mpc[m] = "crates" /\ run' = run
      /\ UNCHANGED <<record, manifest, graph, units>>
  BY WholeTypes DEF WriteCrates, At, Goto, Context, certVars
<1> USE DEF FromPublish, FromDigests, FromStatus2, FromIndex, FromCache, FromCrates,
            FromUnits, FromTransport
<1>2. run'[m].frags = KeptKeys(m) /\ UnitsMine(m)
  BY <1>1 DEF WholeInv, RunWhole, Writes
<1>3. CratesMine(m)'
  BY <1>1 DEF WriteCrates, CratesMine, ModelOf
<1> QED
  BY <1>1, <1>2, <1>3, WriterKeeps, MarkedDiskIsWhole
     DEF MarkedSteps, RunWhole, Writes, FromRebuild

(* The fragments are now this run's.                                         *)
LEMMA WriteCacheWhole ==
    ASSUME Context, WholeInv, NEW m \in Mappers, WriteCache(m)
    PROVE  RunWhole(m)' /\ DiskWhole'
<1>1. /\ mpc'[m] = "index" /\ mpc[m] = "cache" /\ run' = run
      /\ UNCHANGED <<record, manifest, graph, units, crates>>
  BY WholeTypes DEF WriteCache, At, Goto, Context, certVars, sidecarVars
<1> USE DEF FromPublish, FromDigests, FromStatus2, FromIndex, FromCache, FromCrates,
            FromUnits, FromTransport
<1>2. run[m].frags = KeptKeys(m) /\ UnitsMine(m) /\ CratesMine(m)
  BY <1>1 DEF WholeInv, RunWhole, Writes
<1>3. KeptKeys(m)' = KeptKeys(m)
  BY <1>1, WriterKeeps
<1>4. IsMine(m, cache)'
  BY <1>1, <1>2, <1>3
     DEF WriteCache, Stamped, IsMine, Root, OwnerOf, Context, Undisturbed
<1> QED
  BY <1>1, <1>2, <1>4, WriterKeeps, MarkedDiskIsWhole
     DEF MarkedSteps, RunWhole, Writes, FromRebuild

(* Their index of reuse keys is now this run's as well.                      *)
LEMMA WriteIndexWhole ==
    ASSUME Context, WholeInv, NEW m \in Mappers, WriteIndex(m)
    PROVE  RunWhole(m)' /\ DiskWhole'
<1>1. /\ mpc'[m] = "status2" /\ mpc[m] = "index" /\ run' = run
      /\ UNCHANGED <<record, manifest, graph, units, crates, cache>>
  BY WholeTypes DEF WriteIndex, At, Goto, Context, certVars, sidecarVars
<1> USE DEF FromPublish, FromDigests, FromStatus2, FromIndex, FromCache, FromCrates,
            FromUnits, FromTransport
<1>2. run[m].frags = KeptKeys(m) /\ UnitsMine(m) /\ CratesMine(m) /\ IsMine(m, cache)
  BY <1>1 DEF WholeInv, RunWhole, Writes
<1>3. KeptKeys(m)' = KeptKeys(m)
  BY <1>1, WriterKeeps
<1>4. IsMine(m, index)'
  BY <1>1, <1>2, <1>3
     DEF WriteIndex, Stamped, IsMine, Root, OwnerOf, Context, Undisturbed
<1> QED
  BY <1>1, <1>2, <1>4, WriterKeeps, MarkedDiskIsWhole
     DEF MarkedSteps, RunWhole, Writes, FromRebuild

(* The second status says nothing of the index.                              *)
LEMMA ReadStatus2Whole ==
    ASSUME Context, WholeInv, NEW m \in Mappers, ReadStatus2(m)
    PROVE  RunWhole(m)' /\ DiskWhole'
<1>1. PICK outcome \in StatusOutcomes(Root(m), run[m].scope) :
          run' = [run EXCEPT ![m].dirty2 = outcome]
  BY DEF ReadStatus2
<1> DEFINE mem == [run[m] EXCEPT !.dirty2 = outcome]
<1>2. /\ run'[m] = mem /\ mpc'[m] = "digests" /\ mpc[m] = "status2"
      /\ UNCHANGED indexVars
  BY <1>1, WholeTypes
     DEF ReadStatus2, At, Goto, Context, Undisturbed, storeVars, certVars, sidecarVars,
         fragmentVars, indexVars, Runs
<1>3. /\ mem.planned = run[m].planned /\ mem.listed = run[m].listed
      /\ mem.scope = run[m].scope /\ mem.keys = run[m].keys
      /\ mem.configs = run[m].configs /\ mem.wt = run[m].wt
      /\ mem.gen = run[m].gen /\ mem.frags = run[m].frags
  BY RunFields DEF Runs, Context
<1> HIDE DEF mem
<1> USE DEF FromPublish, FromDigests, FromStatus2, FromIndex, FromCache, FromCrates,
            FromUnits, FromTransport
<1>4. UnitsMine(m) /\ CratesMine(m) /\ IsMine(m, cache) /\ IsMine(m, index)
  BY <1>2 DEF WholeInv, RunWhole, Writes
<1> QED
  BY <1>2, <1>3, <1>4, WriterKeeps, MarkedDiskIsWhole
     DEF MarkedSteps, RunWhole, Writes, FromRebuild, indexVars

(* The digests are now this run's.                                           *)
LEMMA WriteDigestsWhole ==
    ASSUME Context, WholeInv, NEW m \in Mappers, WriteDigests(m)
    PROVE  RunWhole(m)' /\ DiskWhole'
<1>1. /\ mpc'[m] = "publish" /\ mpc[m] = "digests" /\ run' = run
      /\ UNCHANGED <<record, manifest, graph, units, crates, cache, index>>
  BY WholeTypes DEF WriteDigests, At, Goto, Context, sidecarVars, fragmentVars
<1>2. DigestsMine(m)'
  BY <1>1 DEF WriteDigests, DigestsMine, Kept
<1> USE DEF FromPublish, FromDigests, FromStatus2, FromIndex, FromCache, FromCrates,
            FromUnits, FromTransport
<1>3. UnitsMine(m) /\ CratesMine(m) /\ IsMine(m, cache) /\ IsMine(m, index)
  BY <1>1 DEF WholeInv, RunWhole, Writes
<1> QED
  BY <1>1, <1>2, <1>3, WriterKeeps, MarkedDiskIsWhole
     DEF MarkedSteps, RunWhole, Writes, FromRebuild

(* The record speaks for what the run has left on disk, all of it.           *)
LEMMA PublishWhole ==
    ASSUME Context, WholeInv, NEW m \in Mappers, Publish(m)
    PROVE  RunWhole(m)' /\ DiskWhole'
<1>1. /\ mpc'[m] = "finish" /\ mpc[m] = "publish" /\ run' = run
      /\ record' = Certificate(m)
      /\ UNCHANGED <<digests, manifest, graph, units, crates, cache, index>>
  BY WholeTypes DEF Publish, At, Goto, Context, sidecarVars, fragmentVars
<1> USE DEF FromPublish, FromDigests, FromStatus2, FromIndex, FromCache, FromCrates,
            FromUnits, FromTransport
<1>2. RunWhole(m)'
  BY <1>1, WriterKeeps DEF RunWhole, Writes, FromRebuild
<1>3. /\ UnitsMine(m) /\ CratesMine(m) /\ IsMine(m, cache) /\ IsMine(m, index)
      /\ GraphMine(m) /\ ManifestMine(m) /\ DigestsMine(m)
      /\ \A f \in Sources : run[m].keys[f] \in Contents \cup {None, Unread}
  BY <1>1 DEF WholeInv, RunWhole, KeysRead, Writes, FromRebuild
<1>4. DiskWhole'
  <2>1. SUFFICES ASSUME IsPublished(record') PROVE DiskWhole'
    BY DEF DiskWhole
  <2>2. /\ record'.owner = Root(m) /\ record'.gen = run[m].gen
        /\ record'.scope = run[m].scope
        /\ record'.graphId = graph.id /\ record'.manifestId = manifest.id
        /\ record'.configs = [c \in Configs |->
              IF run[m].configs[c] = Absent THEN None ELSE run[m].configs[c]]
    BY <1>1, <2>1 DEF Certificate, IsPublished, Uncertifiable
  <2>3. /\ cache = index /\ index.owner = Root(m)
        /\ \A f \in GraphSources : graph.inputs[f] = Contribution(index.entries[f])
        /\ \A f \in GraphSources : digests.files[f] = index.entries[f]
    BY <1>3, KeptContributes, StoreAssumption DEF IsMine, KeptKeys, GraphMine, DigestsMine
  <2>4. /\ units = [c \in ProjectConfigs |-> graph.inputs[c]]
        /\ crates = [c \in CargoConfigs |-> graph.inputs[c]]
    BY <1>3 DEF UnitsMine, CratesMine, ModelOf, GraphMine, Configs
  <2>5. CertifiedIndexIsWhole'
    <3>1. digests.gen = run[m].gen
      BY <1>3 DEF DigestsMine
    <3>2. ASSUME NEW f \in run[m].scope \cap Sources
          PROVE  \/ manifest.entries[f] = digests.files[f]
                 \/ manifest.entries[f] = Unread /\ digests.files[f] = None
      BY <1>3 DEF DigestsMine, ManifestMine, Kept
    <3>3. ASSUME NEW f \in run[m].scope \cap GraphSources
          PROVE  graph.inputs[f] = IF digests.files[f] = None THEN Absent
                                   ELSE digests.files[f]
      BY <1>3, StoreAssumption DEF DigestsMine, GraphMine, Kept, Contribution
    <3>4. ASSUME NEW c \in run[m].scope \cap Configs
          PROVE  graph.inputs[c] = IF record'.configs[c] = None THEN Absent
                                   ELSE record'.configs[c]
      <4>1. run[m].configs[c] \in Bytes
        BY RunFields DEF Context, Runs
      <4> QED
        BY <1>3, <2>2, <4>1, StoreAssumption DEF GraphMine, Bytes
    <3> QED
      BY <1>1, <2>2, <3>1, <3>2, <3>3, <3>4 DEF CertifiedIndexIsWhole
  <2>6. manifest.by = run[m].gen
    BY <1>3 DEF ManifestMine
  <2> QED
    BY <1>1, <2>2, <2>3, <2>4, <2>5, <2>6 DEF DiskWhole
<1> QED
  BY <1>2, <1>4

-----------------------------------------------------------------------------
(* The induction.                                                            *)

(* A step past the lock: the mover's part is shown above, the others wait.   *)
LEMMA LockedRunStep ==
    ASSUME Context, WholeInv, NEW m \in Mappers,
           \/ ReadPrior(m) \/ ReadStatus0(m) \/ Load(m)
           \/ \E f \in Sources : PlanEntry(m, f)
           \/ Discover(m) \/ Decide(m)
    PROVE  WholeInv'
<1>1. mpc[m] \in LockedSteps
  BY LockedStepsFacts DEF ReadPrior, ReadStatus0, Load, PlanEntry, Discover, Decide, At
<1>2. UNCHANGED indexVars
  BY DEF ReadPrior, ReadStatus0, Load, PlanEntry, Discover, Decide, indexVars, storeVars,
         certVars, sidecarVars, fragmentVars
<1>3. \A n \in Mappers : n # m => mpc'[n] = mpc[n] /\ run'[n] = run[n]
  BY WholeTypes
     DEF Context, ReadPrior, ReadStatus0, Load, PlanEntry, Discover, Decide, Goto
<1>4. RunWhole(m)'
  BY ReadPriorWhole, ReadStatus0Whole, LoadWhole, PlanEntryWhole, DiscoverWhole, DecideWhole
<1>5. DiskWhole'
  BY <1>2, DiskStands DEF WholeInv
<1> QED
  BY <1>1, <1>3, <1>4, <1>5, MoverIsEnough

(* The steps of a run that writes.                                           *)
LEMMA WritingRunStep ==
    ASSUME Context, WholeInv, NEW m \in Mappers,
           \/ Mark(m) \/ WriteManifest(m) \/ KeepGraph(m) \/ WriteGraph(m)
           \/ WriteTransport(m) \/ WriteUnits(m) \/ WriteCrates(m) \/ WriteCache(m)
           \/ WriteIndex(m) \/ ReadStatus2(m) \/ WriteDigests(m) \/ Publish(m)
    PROVE  WholeInv'
<1>1. mpc[m] \in LockedSteps
  BY LockedStepsFacts
     DEF Mark, WriteManifest, KeepGraph, WriteGraph, WriteTransport, WriteUnits, WriteCrates,
         WriteCache, WriteIndex, ReadStatus2, WriteDigests, Publish, At, MarkedSteps
<1>2. \A n \in Mappers : n # m => mpc'[n] = mpc[n] /\ run'[n] = run[n]
  BY WholeTypes
     DEF Context, Mark, WriteManifest, KeepGraph, WriteGraph, WriteTransport, WriteUnits,
         WriteCrates, WriteCache, WriteIndex, ReadStatus2, WriteDigests, Publish, Goto
<1>3. RunWhole(m)' /\ DiskWhole'
  BY MarkWhole, WriteManifestWhole, KeepGraphWhole, WriteGraphWhole, WriteTransportWhole,
     WriteUnitsWhole, WriteCratesWhole, WriteCacheWhole, WriteIndexWhole, ReadStatus2Whole,
     WriteDigestsWhole, PublishWhole
<1> QED
  BY <1>1, <1>2, <1>3, MoverIsEnough

(* A run that starts, takes the lock or ends leaves the index as it is.      *)
LEMMA OuterRunStep ==
    ASSUME Context, WholeInv, NEW m \in Mappers,
           \/ \E w \in Worktrees, s \in Scopes : Start(m, w, s)
           \/ Acquire(m) \/ Finish(m) \/ Crash(m)
    PROVE  WholeInv'
<1>1. UNCHANGED indexVars
  BY DEF Start, Acquire, Finish, Crash, indexVars, storeVars, certVars, sidecarVars,
         fragmentVars
<1>2. \A n \in Mappers : n # m => mpc'[n] = mpc[n] /\ run'[n] = run[n]
  BY WholeTypes DEF Context, Start, Acquire, Finish, Crash, Goto
<1>3. RunWhole(m)'
  BY StartWhole, AcquireWhole, EndedRunIsWhole DEF Finish, Crash
<1>4. ASSUME NEW n \in Mappers, n # m
      PROVE  RunWhole(n)'
  BY <1>1, <1>2, <1>4
     DEF WholeInv, indexVars, RunWhole, KeysRead, PriorStands, Reuses, HasFragment, Leaves,
         Writes, AllMine, GraphMine, UnitsMine, CratesMine, IsMine, ManifestMine, DigestsMine,
         KeptKeys, PriorMine, Root, ModelOf
<1> QED
  BY <1>1, <1>3, <1>4, DiskStands DEF WholeInv

(* Every step of the protocol keeps the invariant.                           *)
LEMMA WholeStep ==
    ASSUME Context, WholeInv, [Next]_vars
    PROVE  WholeInv'
<1>1. ASSUME NEW m \in Mappers, MapActs(m)
      PROVE  WholeInv'
  BY <1>1, LockedRunStep, WritingRunStep, OuterRunStep DEF MapActs, MapStep
<1>2. ASSUME NEW q \in Queriers, QueryActs(q)
      PROVE  UNCHANGED <<indexVars, mpc, run>>
  BY <1>2 DEF QueryActs, QueryStep, ReadGraph, ReadManifest, Refuse, ReadHead, ReadStatus,
              StatusFailure, HashCandidates, ReadRecordAgain, StatGraph, Answer, Open, Close,
              storeVars, certVars, sidecarVars, fragmentVars, mapVars, indexVars
<1>3. WorldActs \/ UNCHANGED vars => UNCHANGED <<indexVars, mpc, run>>
  BY DEF WorldActs, UserEdits, HeadMoves, HookRaisesFlag, ForeignWrite, vars,
         storeVars, certVars, sidecarVars, fragmentVars, mapVars, indexVars,
         Context, Undisturbed
<1> QED
  BY <1>1, <1>2, <1>3, SameIndexIsWhole DEF Next

(* An empty index under no record is whole.                                  *)
LEMMA WholeInit ==
    ASSUME Init
    PROVE  WholeInv
<1>1. DiskWhole
  BY DEF Init, StoreInit, DiskWhole, IsPublished, Missing
<1>2. ASSUME NEW m \in Mappers
      PROVE  run[m] = Blank /\ mpc[m] = "idle"
  BY DEF Init, MapInit
<1>3. /\ Blank.planned = {} /\ Blank.listed = {} /\ \A f \in Sources : Blank.keys[f] = None
  BY DEF Blank
<1>4. ASSUME NEW m \in Mappers
      PROVE  RunWhole(m)
  BY <1>2, <1>3 DEF RunWhole, KeysRead, PriorStands, Reuses, Leaves, Writes,
     FromPublish, FromDigests, FromStatus2, FromIndex, FromCache, FromCrates,
     FromUnits, FromTransport, FromRebuild, FromMark
<1> QED
  BY <1>1, <1>4 DEF WholeInv

(* The invariant holds of every behavior without disturbance.                *)
LEMMA WholeHolds == Spec => [](Undisturbed => WholeInv)
<1>1. Init => (Undisturbed => WholeInv)
  BY WholeInit
<1>2. /\ TypeInv /\ (Locking => LockInv) /\ (Locking => NoCertificateMidRun)
      /\ (Undisturbed => WholeInv) /\ [Next]_vars
      => (Undisturbed => WholeInv)'
  <2> SUFFICES ASSUME Context, WholeInv, [Next]_vars
               PROVE  WholeInv'
    BY DEF Context, Undisturbed, Allowed
  <2> QED
    BY WholeStep
<1>3. Spec => []TypeInv
  BY InitTypes, NextTypes, PTL DEF Spec
<1> QED
  BY <1>1, <1>2, <1>3, LockHolds, NoCertificateMidRunHolds, PTL DEF Spec

-----------------------------------------------------------------------------
(* The theorems.                                                             *)

(* A root without Git publishes no record.                                   *)
NothingPublished ==
    /\ ~IsPublished(record)
    /\ \A m \in Mappers : mpc[m] \notin {"digests", "publish"}

(* Without Git nothing is ever published, and no run comes near it.          *)
LEMMA NothingPublishedHolds == Spec => [](~HasGit => NothingPublished)
<1>1. Init => NothingPublished
  BY DEF Init, StoreInit, MapInit, NothingPublished, IsPublished, Missing
<1>2. TypeInv /\ (~HasGit => NothingPublished) /\ [Next]_vars
      => (~HasGit => NothingPublished)'
  <2> SUFFICES ASSUME ~HasGit, TypeInv, NothingPublished, [Next]_vars
               PROVE  NothingPublished'
    OBVIOUS
  <2> USE DEF At, Goto
  <2>1. ASSUME NEW m \in Mappers, MapActs(m)
        PROVE  NothingPublished'
    <3>1. mpc \in [Mappers -> MapSteps]
      BY DEF TypeInv, TypeOK, MapTypeOK
    <3>2. ~WriteDigests(m) /\ ~Publish(m)
      BY DEF NothingPublished, WriteDigests, Publish
    <3>3. ~IsPublished(record')
      <4>1. CASE Mark(m)
        BY <4>1 DEF Mark, IsPublished, Missing
      <4>2. CASE ~Mark(m)
        <5>1. UNCHANGED record
          BY <2>1, <3>2, <4>2
             DEF MapActs, MapStep, Acquire, ReadPrior, ReadStatus0, Load, PlanEntry, Discover,
                 Decide, WriteManifest, KeepGraph, WriteGraph, WriteTransport, WriteUnits,
                 WriteCrates, WriteCache, WriteIndex, ReadStatus2, Finish, Crash, Start,
                 storeVars, certVars
        <5> QED
          BY <5>1 DEF NothingPublished
      <4> QED
        BY <4>1, <4>2
    <3>4. ASSUME NEW n \in Mappers
          PROVE  mpc'[n] \notin {"digests", "publish"}
      BY <2>1, <3>1, <3>2
         DEF NothingPublished, MapActs, MapStep, Acquire, ReadPrior, ReadStatus0, Load,
             PlanEntry, Discover, Decide, Mark, WriteManifest, KeepGraph, WriteGraph,
             WriteTransport, WriteUnits, WriteCrates, WriteCache, WriteIndex, ReadStatus2,
             Finish, Crash, Start
    <3> QED
      BY <3>3, <3>4 DEF NothingPublished
  <2>2. CASE UNCHANGED <<mpc, record>>
    BY <2>2 DEF NothingPublished
  <2>3. CASE ForeignWrite
    BY <2>3 DEF ForeignWrite, NothingPublished, IsPublished, Uncertifiable, mapVars
  <2>4. ASSUME NEW q \in Queriers, QueryActs(q)
        PROVE  UNCHANGED <<mpc, record>>
    BY <2>4 DEF QueryActs, QueryStep, ReadGraph, ReadManifest, Refuse, ReadHead, ReadStatus,
                StatusFailure, HashCandidates, ReadRecordAgain, StatGraph, Answer, Open, Close,
                storeVars, certVars, mapVars
  <2> QED
    BY <2>1, <2>2, <2>3, <2>4
       DEF Next, WorldActs, UserEdits, HeadMoves, HookRaisesFlag, vars, storeVars, certVars,
           mapVars
<1> QED
  BY <1>1, <1>2, InitTypes, NextTypes, PTL DEF Spec

(* Where locks work and no other build writes, every file of the published   *)
(* scope was digested, listed and resolved from the same bytes, whichever    *)
(* fragments, models and graph the run kept from runs before it, and         *)
(* whichever of those were killed.                                           *)
THEOREM CertifiedIndexIsWholeHolds ==
    Spec => [](Locking /\ ~Allowed("foreign") => CertifiedIndexIsWhole)
<1>1. /\ (Undisturbed => WholeInv) /\ (~HasGit => NothingPublished)
      => (Locking /\ ~Allowed("foreign") => CertifiedIndexIsWhole)
  BY DEF Undisturbed, WholeInv, DiskWhole, NothingPublished, CertifiedIndexIsWhole
<1> QED
  BY <1>1, WholeHolds, NothingPublishedHolds, PTL

(* In a Git checkout, where locks work and no other build writes, the graph  *)
(* a map ends with is the one a build from the bytes it read would make.     *)
THEOREM FinishedMapOwnsGraphHolds ==
    ASSUME Undisturbed
    PROVE  Spec => FinishedMapOwnsGraph
<1> DEFINE Owns == \A m \in Mappers : mpc[m] # "finish" /\ mpc'[m] = "finish" =>
          /\ \A f \in GraphSources : graph.inputs[f] =
                IF run[m].keys[f] \in {None, Unread} THEN Absent ELSE run[m].keys[f]
          /\ \A c \in Configs : graph.inputs[c] = run[m].configs[c]
<1>1. TypeInv /\ WholeInv /\ [Next]_vars => Owns
  <2> SUFFICES ASSUME TypeInv, WholeInv, [Next]_vars,
                      NEW m \in Mappers, mpc[m] # "finish", mpc'[m] = "finish"
               PROVE  GraphMine(m)
    BY DEF GraphMine, Contribution
  <2>1. mpc[m] = "publish"
    <3>1. mpc \in [Mappers -> MapSteps]
      BY DEF TypeInv, TypeOK, MapTypeOK
    <3>2. ASSUME NEW n \in Mappers, MapActs(n)
          PROVE  mpc[m] = "publish"
      BY <3>1, <3>2
         DEF MapActs, MapStep, Acquire, ReadPrior, ReadStatus0, Load, PlanEntry, Discover,
             Decide, Mark, WriteManifest, KeepGraph, WriteGraph, WriteTransport, WriteUnits,
             WriteCrates, WriteCache, WriteIndex, ReadStatus2, WriteDigests, Publish, Finish,
             Crash, Start, At, Goto, Undisturbed
    <3>3. ASSUME NEW q \in Queriers, QueryActs(q)
          PROVE  UNCHANGED mpc
      BY <3>3 DEF QueryActs, mapVars
    <3>4. WorldActs \/ UNCHANGED vars => UNCHANGED mpc
      BY DEF WorldActs, UserEdits, HeadMoves, HookRaisesFlag, ForeignWrite, vars, mapVars
    <3> QED
      BY <3>2, <3>3, <3>4 DEF Next
  <2> QED
    BY <2>1 DEF WholeInv, RunWhole, Writes, FromTransport, FromUnits, FromCrates, FromCache,
                FromIndex, FromStatus2, FromDigests, FromPublish
<1>2. Undisturbed
  OBVIOUS
<1> HIDE DEF Owns
<1>3. Spec => []TypeInv
  BY InitTypes, NextTypes, PTL DEF Spec
<1>4. Spec => []WholeInv
  BY <1>2, WholeHolds, PTL
<1>5. Spec => [][Owns]_vars
  BY <1>1, <1>3, <1>4, PTL DEF Spec
<1> QED
  BY <1>5 DEF Owns, FinishedMapOwnsGraph

-----------------------------------------------------------------------------
(* The refresh-needed flag.                                                  *)

(* A run past its manifest has its own on disk.                              *)
OwnManifest == \A m \in Mappers : mpc[m] \in {"finish"} \cup FromRebuild =>
                                      manifest.by = run[m].gen

(* From its manifest on, a run past the lock finds the manifest its own.     *)
LEMMA OwnManifestStep ==
    ASSUME Locking, ~Allowed("foreign"), TypeInv, LockInv, OwnManifest, [Next]_vars
    PROVE  OwnManifest'
<1> USE DEF FromPublish, FromDigests, FromStatus2, FromIndex, FromCache, FromCrates,
            FromUnits, FromTransport, FromRebuild
<1>1. mpc \in [Mappers -> MapSteps] /\ run \in [Mappers -> Runs]
  BY WholeTypes
<1>2. ASSUME NEW m \in Mappers, MapActs(m)
      PROVE  OwnManifest'
  <2> USE DEF At, Goto
  <2>1. \A n \in Mappers : n # m => mpc'[n] = mpc[n] /\ run'[n] = run[n]
    BY <1>1, <1>2
       DEF MapActs, MapStep, Acquire, ReadPrior, ReadStatus0, Load, PlanEntry, Discover, Decide,
           Mark, WriteManifest, KeepGraph, WriteGraph, WriteTransport, WriteUnits, WriteCrates,
           WriteCache, WriteIndex, ReadStatus2, WriteDigests, Publish, Finish, Crash, Start
  <2>2. CASE WriteManifest(m)
    <3>1. manifest'.by = run[m].gen /\ run' = run /\ mpc[m] \in LockedSteps
      BY <2>2, LockedStepsFacts DEF WriteManifest, MarkedSteps
    <3>2. ASSUME NEW n \in Mappers, n # m
          PROVE  mpc'[n] \notin LockedSteps
      BY <2>1, <3>1, <3>2 DEF LockInv
    <3> QED
      BY <3>1, <3>2, LockedStepsFacts DEF OwnManifest, MarkedSteps
  <2>3. CASE WriteGraph(m) \/ ReadStatus2(m)
    <3>1. manifest' = manifest /\ mpc[m] \in FromRebuild
      BY <2>3 DEF WriteGraph, ReadStatus2, storeVars
    <3>2. run'[m].gen = run[m].gen
      BY <1>1, <2>3 DEF WriteGraph, ReadStatus2, Runs
    <3> QED
      BY <2>1, <3>1, <3>2 DEF OwnManifest
  <2>4. CASE \/ KeepGraph(m) \/ WriteTransport(m) \/ WriteUnits(m) \/ WriteCrates(m)
             \/ WriteCache(m) \/ WriteIndex(m) \/ WriteDigests(m) \/ Publish(m)
    <3>1. manifest' = manifest /\ mpc[m] \in FromRebuild /\ run' = run
      BY <2>4 DEF KeepGraph, WriteTransport, WriteUnits, WriteCrates, WriteCache, WriteIndex,
                  WriteDigests, Publish, storeVars
    <3> QED
      BY <2>1, <3>1 DEF OwnManifest
  <2>5. CASE \/ (\E w \in Worktrees, s \in Scopes : Start(m, w, s))
             \/ Acquire(m) \/ ReadPrior(m) \/ ReadStatus0(m) \/ Load(m)
             \/ (\E f \in Sources : PlanEntry(m, f)) \/ Discover(m) \/ Decide(m) \/ Mark(m)
             \/ Finish(m) \/ Crash(m)
    <3>1. manifest' = manifest
      BY <2>5 DEF Start, Acquire, ReadPrior, ReadStatus0, Load, PlanEntry, Discover, Decide,
                  Mark, Finish, Crash, storeVars
    <3>2. mpc'[m] \notin {"finish"} \cup FromRebuild
      BY <1>1, <2>5 DEF Start, Acquire, ReadPrior, ReadStatus0, Load, PlanEntry, Discover,
                        Decide, Mark, Finish, Crash
    <3> QED
      BY <2>1, <3>1, <3>2 DEF OwnManifest
  <2> QED
    BY <1>2, <2>2, <2>3, <2>4, <2>5 DEF MapActs, MapStep
<1>3. ASSUME NEW q \in Queriers, QueryActs(q)
      PROVE  UNCHANGED <<manifest, mpc, run>>
  BY <1>3 DEF QueryActs, QueryStep, ReadGraph, ReadManifest, Refuse, ReadHead, ReadStatus,
              StatusFailure, HashCandidates, ReadRecordAgain, StatGraph, Answer, Open, Close,
              storeVars, mapVars
<1>4. WorldActs \/ UNCHANGED vars => UNCHANGED <<manifest, mpc, run>>
  BY DEF WorldActs, UserEdits, HeadMoves, HookRaisesFlag, ForeignWrite, vars, storeVars, mapVars
<1> QED
  BY <1>2, <1>3, <1>4 DEF Next, OwnManifest

(* Where locks work and no other build writes, only a map that finishes      *)
(* lowers the flag of its checkout, and it does so over its own manifest.    *)
THEOREM FlagFallsOverOwnManifestHolds ==
    ASSUME Locking, ~Allowed("foreign")
    PROVE  Spec => FlagFallsOverOwnManifest
<1> DEFINE Falls == \A w \in Worktrees : w \in refresh /\ w \notin refresh' =>
                        \E m \in Mappers : Root(m) = w /\ manifest.by = run[m].gen
<1>1. Init => OwnManifest
  BY DEF Init, MapInit, OwnManifest, FromPublish, FromDigests, FromStatus2, FromIndex,
         FromCache, FromCrates, FromUnits, FromTransport, FromRebuild
<1>2. OwnManifest /\ [Next]_vars => Falls
  <2> SUFFICES ASSUME OwnManifest, [Next]_vars, NEW w \in Worktrees,
                      w \in refresh, w \notin refresh'
               PROVE  \E m \in Mappers : Root(m) = w /\ manifest.by = run[m].gen
    OBVIOUS
  <2>1. ASSUME NEW q \in Queriers, QueryActs(q)
        PROVE  UNCHANGED refresh
    BY <2>1 DEF QueryActs, QueryStep, ReadGraph, ReadManifest, Refuse, ReadHead, ReadStatus,
                StatusFailure, HashCandidates, ReadRecordAgain, StatGraph, Answer, Open, Close,
                storeVars
  <2>2. WorldActs \/ UNCHANGED vars => refresh \subseteq refresh'
    BY DEF WorldActs, UserEdits, HeadMoves, HookRaisesFlag, ForeignWrite, vars, storeVars
  <2>3. PICK m \in Mappers : MapActs(m)
    BY <2>1, <2>2 DEF Next
  <2>4. Finish(m)
    BY <2>3 DEF MapActs, MapStep, Acquire, ReadPrior, ReadStatus0, Load, PlanEntry, Discover,
         Decide, Mark, WriteManifest, KeepGraph, WriteGraph, WriteTransport, WriteUnits,
         WriteCrates, WriteCache, WriteIndex, ReadStatus2, WriteDigests, Publish, Crash, Start,
         storeVars
  <2>5. Root(m) = w /\ mpc[m] = "finish"
    BY <2>4 DEF Finish, At
  <2> QED
    BY <2>5 DEF OwnManifest
<1>3. Locking /\ ~Allowed("foreign")
  OBVIOUS
<1>4. TypeInv /\ (Locking => LockInv) /\ OwnManifest /\ [Next]_vars => OwnManifest'
  BY <1>3, OwnManifestStep
<1>5. Spec => []TypeInv
  BY InitTypes, NextTypes, PTL DEF Spec
<1> HIDE DEF Falls
<1>6. Spec => [][Falls]_vars
  BY <1>1, <1>2, <1>4, <1>5, LockHolds, PTL DEF Spec
<1> QED
  BY <1>6 DEF Falls, FlagFallsOverOwnManifest

-----------------------------------------------------------------------------
(* Scoped maps of one checkout.                                              *)

(* One checkout, whose maps neither die nor lose Git: each of the others is  *)
(* a way to leave entries that no record owns, and those a map starts over.  *)
Steady ==
    /\ Undisturbed /\ ~Allowed("crash") /\ ~GitMayFail
    /\ \E w : Worktrees = {w}

(* Between runs the manifest is empty or owned by a record; a run that has   *)
(* loaded it holds all of it.                                                *)
Carried ==
    /\ (\A m \in Mappers : mpc[m] \notin MarkedSteps) =>
          IsPublished(record) \/ manifest.entries = NoManifest.entries
    /\ \A m \in Mappers :
          /\ mpc[m] \in {"plan", "decide", "mark", "manifest"} =>
                run[m].entries = manifest.entries
          /\ mpc[m] \in {"load", "plan", "decide", "mark"} \cup MarkedSteps =>
                run[m].dirty0 # None
          /\ mpc[m] \in {"digests", "publish"} => run[m].dirty2 # None

(* A status that cannot fail has an outcome.                                 *)
LEMMA StatusAnswers ==
    ASSUME HasGit, ~GitMayFail, NEW w, NEW s \in Scopes, NEW outcome \in StatusOutcomes(w, s)
    PROVE  outcome # None
<1>1. outcome = GitStatus(w, Relevant(s))
  BY DEF StatusOutcomes
<1>2. outcome \subseteq Files
  BY <1>1, StoreAssumption DEF GitStatus, Relevant
<1> QED
  BY <1>2, StoreAssumption

(* A run's own step.                                                         *)
LEMMA MapCarries ==
    ASSUME Steady, Context, WholeInv, Carried, NEW m \in Mappers, MapActs(m)
    PROVE  Carried'
<1> USE DEF At, Goto
<1>1. mpc \in [Mappers -> MapSteps] /\ run \in [Mappers -> Runs]
  BY WholeTypes DEF Context
<1>2. \A n \in Mappers : n # m => mpc'[n] = mpc[n] /\ run'[n] = run[n]
  BY <1>1 DEF MapActs, MapStep, Acquire, ReadPrior, ReadStatus0, Load, PlanEntry, Discover,
      Decide, Mark, WriteManifest, KeepGraph, WriteGraph, WriteTransport, WriteUnits, WriteCrates,
      WriteCache, WriteIndex, ReadStatus2, WriteDigests, Publish, Finish, Crash, Start
<1>3. ASSUME mpc[m] \in LockedSteps, NEW n \in Mappers, n # m
      PROVE  mpc[n] \notin LockedSteps /\ mpc'[n] \notin LockedSteps
  BY <1>2, <1>3, OthersWait DEF Context
<1>4. run[m] \in Runs /\ (mpc[m] # "idle" => run[m].wt \in Worktrees /\ run[m].scope \in Scopes)
  BY RunFields DEF Context
<1>5. CASE \/ \E w \in Worktrees, s \in Scopes : Start(m, w, s)
           \/ Acquire(m) \/ ReadPrior(m) \/ Finish(m)
  <2>1. UNCHANGED <<record, manifest>>
        /\ mpc[m] \in {"idle", "lock", "prior", "finish"}
        /\ mpc'[m] \in {"idle", "lock", "prior", "status0"}
    BY <1>1, <1>5 DEF Start, Acquire, ReadPrior, Finish, storeVars, certVars
  <2> QED
    BY <1>2, <2>1 DEF Carried, MarkedSteps
<1>6. CASE ReadStatus0(m) \/ ReadStatus2(m)
  <2>1. UNCHANGED <<record, manifest>> /\ mpc[m] \in {"status0", "status2"}
    BY <1>6 DEF ReadStatus0, ReadStatus2, storeVars, certVars
  <2>2. PICK outcome \in StatusOutcomes(Root(m), run[m].scope) :
            \/ mpc[m] = "status0" /\ mpc'[m] = "load" /\ run' = [run EXCEPT ![m].dirty0 = outcome]
            \/ mpc[m] = "status2" /\ mpc'[m] = "digests" /\ run' = [run EXCEPT ![m].dirty2 = outcome]
    BY <1>1, <1>6 DEF ReadStatus0, ReadStatus2, Steady, Undisturbed
  <2>3. outcome # None
    BY <1>4, <2>1, StatusAnswers DEF Steady, Undisturbed
  <2>4. CASE mpc[m] = "status0"
    <3>1. mpc'[m] = "load" /\ run'[m].dirty0 # None
      BY <1>1, <2>2, <2>3, <2>4 DEF Runs
    <3> QED
      BY <1>2, <2>1, <2>4, <3>1 DEF Carried, MarkedSteps
  <2>5. CASE mpc[m] = "status2"
    <3>1. mpc'[m] = "digests" /\ run'[m].dirty2 # None /\ run'[m].dirty0 = run[m].dirty0
      BY <1>1, <2>2, <2>3, <2>5 DEF Runs
    <3> QED
      BY <1>2, <2>1, <2>5, <3>1 DEF Carried, MarkedSteps
  <2> QED
    BY <2>1, <2>4, <2>5
<1>7. CASE Load(m)
  <2> DEFINE listed == {f \in Sources \cap run[m].scope : OnDisk(m)[f] # Absent}
             entries == IF PriorMine(m) THEN manifest.entries ELSE NoManifest.entries
             reuse == OwnEntries(index, Root(m))
             mem == [run[m] EXCEPT !.listed = listed, !.entries = entries, !.reuse = reuse]
  <2>0. /\ mpc[m] = "load" /\ mpc'[m] = "plan" /\ UNCHANGED <<record, manifest>>
        /\ run'[m] = mem
    BY <1>1, <1>7 DEF Load, storeVars, certVars, Runs
  <2> HIDE DEF listed, entries, reuse
  <2>1. run'[m].entries = entries /\ run'[m].dirty0 = run[m].dirty0
    BY <1>4, <2>0 DEF Runs
  <2> HIDE DEF mem
  <2>2. run[m].prior = record
    BY <2>0 DEF WholeInv, RunWhole, PriorStands
  <2>3. IsPublished(record) \/ manifest.entries = NoManifest.entries
    <3>1. \A n \in Mappers : mpc[n] \notin MarkedSteps
      BY <1>3, <2>0, LockedStepsFacts DEF LockedSteps, MarkedSteps
    <3> QED
      BY <3>1 DEF Carried
  <2>4. IsPublished(record) => record.owner \in Worktrees
    BY DEF Context, TypeInv, TypeOK, StoreTypeOK, Records, Certificates, IsPublished, Missing,
           Uncertifiable, InProgress
  <2>5. IsPublished(record) => PriorMine(m)
    BY <1>4, <2>0, <2>2, <2>4 DEF PriorMine, Steady, Undisturbed, Root
  <2>6. run'[m].entries = manifest.entries
    BY <2>1, <2>3, <2>5 DEF entries
  <2> QED
    BY <1>2, <2>0, <2>1, <2>6 DEF Carried, MarkedSteps
<1>8. CASE (\E f \in Sources : PlanEntry(m, f)) \/ Discover(m) \/ Decide(m)
  <2>1. /\ UNCHANGED <<record, manifest>>
        /\ mpc[m] \in {"plan", "decide"} /\ mpc'[m] \in {"plan", "decide", "mark"}
    BY <1>1, <1>8 DEF PlanEntry, Discover, Decide, storeVars, certVars
  <2>2. run'[m].entries = run[m].entries /\ run'[m].dirty0 = run[m].dirty0
    <3>1. CASE \E f \in Sources : PlanEntry(m, f)
      <4>1. PICK f \in Sources : PlanEntry(m, f)
        BY <3>1
      <4> DEFINE bytes == OnDisk(m)[f]
                 key == IF bytes = Absent THEN Unread ELSE bytes
                 joins == f \in GraphSources /\ bytes # Absent /\ ~Reusable(m, f, bytes)
                 mem == [run[m] EXCEPT !.planned = @ \cup {f}, !.keys[f] = key,
                                       !.fresh = IF joins THEN @ \cup {f} ELSE @]
      <4>2. run'[m] = mem
        BY <1>1, <4>1 DEF PlanEntry, Runs
      <4> HIDE DEF key, joins
      <4> QED
        BY <1>4, <4>2 DEF Runs
    <3>2. CASE Discover(m)
      <4> DEFINE configs == [c \in Configs |->
                     IF c \in run[m].scope THEN OnDisk(m)[c] ELSE Absent]
      <4>1. PICK l \in Lanes : run' = [run EXCEPT ![m].configs = configs, ![m].lane = l]
        BY <3>2 DEF Discover
      <4> HIDE DEF configs
      <4>2. run'[m] = [run[m] EXCEPT !.configs = configs, !.lane = l]
        BY <1>1, <4>1
      <4> QED
        BY <1>4, <4>2 DEF Runs
    <3>3. CASE Decide(m)
      <4>1. PICK settings, changed :
               run'[m] = [run[m] EXCEPT !.settings = settings, !.changed = changed]
        BY <1>1, <3>3 DEF Decide, Runs
      <4> QED
        BY <1>4, <4>1 DEF Runs
    <3> QED
      BY <1>8, <3>1, <3>2, <3>3
  <2> QED
    BY <1>2, <2>1, <2>2 DEF Carried, MarkedSteps
<1>9. CASE Mark(m) \/ WriteManifest(m)
  <2>1. /\ run' = run /\ mpc[m] \in {"mark", "manifest"} /\ mpc'[m] \in {"manifest", "rebuild"}
        /\ mpc'[m] = "manifest" => mpc[m] = "mark" /\ manifest' = manifest
    BY <1>1, <1>9 DEF Mark, WriteManifest
  <2>2. \A n \in Mappers : n # m => mpc'[n] \notin LockedSteps
    BY <1>3, <2>1 DEF LockedSteps, MarkedSteps
  <2>3. mpc'[m] \in MarkedSteps
    BY <2>1 DEF MarkedSteps
  <2>4. \A n \in Mappers : n # m => mpc'[n] \in {"idle", "lock"}
    BY <1>1, <1>2, <2>2 DEF MapSteps
  <2> QED
    BY <2>1, <2>3, <2>4 DEF Carried, MarkedSteps
<1>10. CASE KeepGraph(m) \/ WriteGraph(m) \/ WriteTransport(m) \/ WriteUnits(m) \/ WriteCrates(m)
            \/ WriteCache(m) \/ WriteIndex(m) \/ WriteDigests(m)
  <2>1. /\ UNCHANGED <<record, manifest>>
        /\ mpc[m] \in MarkedSteps \ {"manifest"} /\ mpc'[m] \in MarkedSteps \ {"manifest"}
        /\ mpc'[m] \in {"digests", "publish"} => mpc[m] = "digests"
    BY <1>1, <1>10 DEF KeepGraph, WriteGraph, WriteTransport, WriteUnits, WriteCrates, WriteCache,
                       WriteIndex, WriteDigests, MarkedSteps, storeVars, certVars
  <2>2. run'[m].dirty0 = run[m].dirty0 /\ run'[m].dirty2 = run[m].dirty2
    BY <1>1, <1>10 DEF KeepGraph, WriteGraph, WriteTransport, WriteUnits, WriteCrates, WriteCache,
                       WriteIndex, WriteDigests, Runs
  <2> QED
    BY <1>2, <2>1, <2>2 DEF Carried, MarkedSteps
<1>11. CASE Publish(m)
  <2>1. /\ mpc[m] = "publish" /\ mpc'[m] = "finish" /\ run' = run /\ manifest' = manifest
        /\ record' = Certificate(m)
    BY <1>1, <1>11 DEF Publish
  <2>2. run[m].dirty0 # None /\ run[m].dirty2 # None
    BY <2>1 DEF Carried, MarkedSteps
  <2>3. IsPublished(record')
    BY <2>1, <2>2 DEF Certificate, IsPublished
  <2> QED
    BY <1>2, <2>1, <2>3 DEF Carried, MarkedSteps
<1>12. ~Crash(m) \/ mpc'[m] = "idle"
  BY <1>1 DEF Crash
<1> QED
  BY <1>5, <1>6, <1>7, <1>8, <1>9, <1>10, <1>11 DEF MapActs, MapStep, Steady

(* So does every other step, which touches neither the runs nor the files.   *)
LEMMA CarriedStep ==
    ASSUME Steady, Context, WholeInv, Carried, [Next]_vars
    PROVE  Carried'
<1>1. ASSUME NEW q \in Queriers, QueryActs(q)
      PROVE  UNCHANGED <<record, manifest, mpc, run>>
  BY <1>1 DEF QueryActs, QueryStep, ReadGraph, ReadManifest, Refuse, ReadHead, ReadStatus,
              StatusFailure, HashCandidates, ReadRecordAgain, StatGraph, Answer, Open, Close,
              storeVars, certVars, mapVars
<1>2. WorldActs \/ UNCHANGED vars => UNCHANGED <<record, manifest, mpc, run>>
  BY DEF WorldActs, UserEdits, HeadMoves, HookRaisesFlag, ForeignWrite, vars,
         storeVars, certVars, mapVars, Steady, Undisturbed
<1>3. UNCHANGED <<record, manifest, mpc, run>> => Carried'
  BY DEF Carried
<1> QED
  BY <1>1, <1>2, <1>3, MapCarries DEF Next

(* A map of part of a checkout writes the manifest with every entry outside  *)
(* its scope as it found it (mapcmd.rs, "Scoped-merge behavior"), however    *)
(* many maps of whatever scopes came before, where nothing can take the      *)
(* manifest from its record.                                                 *)
THEOREM ScopedMapMergesHolds ==
    ASSUME Steady
    PROVE  Spec => ScopedMapMerges
<1> DEFINE Merges == \A m \in Mappers : mpc[m] = "manifest" /\ mpc'[m] = "rebuild" =>
               \A f \in Sources \ run[m].scope : manifest'.entries[f] = manifest.entries[f]
<1>1. Init => Carried
  BY DEF Init, StoreInit, MapInit, Carried, MarkedSteps
<1>2. TypeInv /\ Carried /\ [Next]_vars => Merges
  <2> SUFFICES ASSUME TypeInv, Carried, [Next]_vars,
                      NEW m \in Mappers, mpc[m] = "manifest", mpc'[m] = "rebuild",
                      NEW f \in Sources \ run[m].scope
               PROVE  manifest'.entries[f] = manifest.entries[f]
    OBVIOUS
  <2>1. mpc \in [Mappers -> MapSteps]
    BY DEF TypeInv, TypeOK, MapTypeOK
  <2>2. PICK n \in Mappers : MapActs(n)
    BY DEF Next, QueryActs, WorldActs, UserEdits, HeadMoves, HookRaisesFlag, ForeignWrite, vars,
           mapVars
  <2>3. WriteManifest(m)
    BY <2>1, <2>2
       DEF MapActs, MapStep, Acquire, ReadPrior, ReadStatus0, Load, PlanEntry, Discover, Decide,
           Mark, WriteManifest, KeepGraph, WriteGraph, WriteTransport, WriteUnits, WriteCrates,
           WriteCache, WriteIndex, ReadStatus2, WriteDigests, Publish, Finish, Crash, Start,
           At, Goto
  <2>4. manifest'.entries[f] = run[m].entries[f]
    BY <2>3 DEF WriteManifest, MergedEntries
  <2> QED
    BY <2>4 DEF Carried
<1>3. Steady /\ Undisturbed
  BY DEF Steady
<1> HIDE DEF Merges
<1>4. Spec => []Context
  <2>1. TypeInv /\ (Locking => LockInv) /\ (Locking => NoCertificateMidRun) => Context
    BY <1>3 DEF Context, Undisturbed
  <2>2. Spec => []TypeInv
    BY InitTypes, NextTypes, PTL DEF Spec
  <2> QED
    BY <2>1, <2>2, LockHolds, NoCertificateMidRunHolds, PTL
<1>5. Spec => []WholeInv
  BY <1>3, WholeHolds, PTL
<1>6. Context /\ WholeInv /\ Carried /\ [Next]_vars => Carried'
  BY <1>3, CarriedStep
<1>7. Spec => []Carried
  BY <1>1, <1>4, <1>5, <1>6, PTL DEF Spec
<1>8. Context => TypeInv
  BY DEF Context
<1>9. Spec => [][Merges]_vars
  BY <1>2, <1>4, <1>7, <1>8, PTL DEF Spec
<1> QED
  BY <1>9 DEF Merges, ScopedMapMerges

-----------------------------------------------------------------------------
(* Queries: a record speaks for the bytes on disk only as long as the        *)
(* artifacts it names are there, and a query can tell.                       *)

(* Generations.                                                              *)

(* The run past the lock has the last number given out.                      *)
LatestRun == \A m \in Mappers : mpc[m] \in LockedSteps => run[m].gen = gens

(* What later steps may rest on.                                             *)
Core == Context /\ WholeInv /\ RecordBehindDisk /\ LatestRun

(* A step of a run past the lock keeps its number; one that ends has none.   *)
LEMMA RunKeepsNumber ==
    ASSUME TypeInv, NEW m \in Mappers, MapActs(m), mpc'[m] \in LockedSteps
    PROVE  \/ Acquire(m)
           \/ mpc[m] \in LockedSteps \ {"finish"} /\ run'[m].gen = run[m].gen /\ gens' = gens
<1> USE DEF At, Goto
<1>1. mpc \in [Mappers -> MapSteps] /\ run \in [Mappers -> Runs]
  BY WholeTypes
<1>2. CASE \/ (\E w \in Worktrees, s \in Scopes : Start(m, w, s)) \/ Finish(m) \/ Crash(m)
  BY <1>1, <1>2, LockedStepsFacts DEF Start, Finish, Crash
<1>3. CASE \/ Mark(m) \/ WriteManifest(m) \/ KeepGraph(m) \/ WriteTransport(m)
           \/ WriteUnits(m) \/ WriteCrates(m) \/ WriteCache(m) \/ WriteIndex(m)
           \/ WriteDigests(m) \/ Publish(m)
  <2>1. run' = run /\ gens' = gens
    BY <1>3 DEF Mark, WriteManifest, KeepGraph, WriteTransport, WriteUnits, WriteCrates,
                WriteCache, WriteIndex, WriteDigests, Publish
  <2>2. mpc[m] \in LockedSteps \ {"finish"}
    BY <1>3, LockedStepsFacts
       DEF Mark, WriteManifest, KeepGraph, WriteTransport, WriteUnits, WriteCrates,
           WriteCache, WriteIndex, WriteDigests, Publish, MarkedSteps
  <2> QED
    BY <2>1, <2>2
<1>4. CASE \/ ReadPrior(m) \/ ReadStatus0(m) \/ Load(m)
           \/ (\E f \in Sources : PlanEntry(m, f)) \/ Discover(m) \/ Decide(m)
           \/ WriteGraph(m) \/ ReadStatus2(m)
  <2>1. gens' = gens
    BY <1>4 DEF ReadPrior, ReadStatus0, Load, PlanEntry, Discover, Decide, WriteGraph,
                ReadStatus2
  <2>2. mpc[m] \in LockedSteps \ {"finish"}
    BY <1>4, LockedStepsFacts
       DEF ReadPrior, ReadStatus0, Load, PlanEntry, Discover, Decide, WriteGraph,
           ReadStatus2, MarkedSteps
  <2>3. run'[m].gen = run[m].gen
    <3>1. run[m] \in Runs
      BY <1>1
    <3>2. CASE ReadPrior(m)
      <4>1. run'[m] = [[run[m] EXCEPT !.prior = record] EXCEPT !.head = GitHead(Root(m))]
        BY <1>1, <3>2 DEF ReadPrior, Runs
      <4> QED
        BY <3>1, <4>1 DEF Runs
    <3>6. CASE ReadStatus0(m)
      BY <1>1, <3>1, <3>6 DEF ReadStatus0, Runs
    <3>7. CASE Load(m)
      <4>1. \E l, e, r : run'[m] = [run[m] EXCEPT !.listed = l, !.entries = e, !.reuse = r]
        BY <1>1, <3>7 DEF Load, Runs
      <4> QED
        BY <3>1, <4>1 DEF Runs
    <3>3. CASE \E f \in Sources : PlanEntry(m, f)
      BY <1>1, <3>1, <3>3 DEF PlanEntry, Runs
    <3>4. CASE Discover(m) \/ Decide(m)
      BY <1>1, <3>1, <3>4 DEF Discover, Decide, Runs
    <3>5. CASE WriteGraph(m) \/ ReadStatus2(m)
      BY <1>1, <3>1, <3>5 DEF WriteGraph, ReadStatus2, Runs
    <3> QED
      BY <1>4, <3>2, <3>3, <3>4, <3>5, <3>6, <3>7
  <2> QED
    BY <2>1, <2>2, <2>3
<1> QED
  BY <1>2, <1>3, <1>4 DEF MapActs, MapStep

(* The other runs stay where they are.                                       *)
LEMMA OthersStand ==
    ASSUME TypeInv, NEW m \in Mappers, MapActs(m), NEW n \in Mappers, n # m
    PROVE  mpc'[n] = mpc[n] /\ run'[n] = run[n]
  BY WholeTypes
     DEF MapActs, MapStep, Acquire, ReadPrior, ReadStatus0, Load, PlanEntry, Discover, Decide,
         Mark, WriteManifest, KeepGraph, WriteGraph, WriteTransport, WriteUnits, WriteCrates,
         WriteCache, WriteIndex, ReadStatus2, WriteDigests, Publish, Finish, Crash, Start, Goto

(* A number is given out with the lock, which nobody else then has.          *)
LEMMA NumberingStep ==
    ASSUME TypeInv, NEW m \in Mappers, MapActs(m)
    PROVE  IF Acquire(m) THEN gens' = gens + 1 /\ run'[m].gen = gens' ELSE gens' = gens
<1>1. run \in [Mappers -> Runs] /\ gens \in Nat
  BY WholeTypes DEF TypeInv, TypeOK, MapTypeOK
<1>2. Acquire(m) => gens' = gens + 1 /\ run'[m].gen = gens'
  BY <1>1 DEF Acquire, Runs
<1> QED
  BY <1>2 DEF MapActs, MapStep, ReadPrior, ReadStatus0, Load, PlanEntry, Discover, Decide,
     Mark, WriteManifest, KeepGraph, WriteGraph, WriteTransport, WriteUnits, WriteCrates,
     WriteCache, WriteIndex, ReadStatus2, WriteDigests, Publish, Finish, Crash, Start

(* The number last given out is that of the run past the lock.               *)
LEMMA LatestRunStep ==
    ASSUME Locking, TypeInv, LockInv, LatestRun, NEW m \in Mappers, MapActs(m)
    PROVE  LatestRun'
<1> SUFFICES ASSUME NEW n \in Mappers, mpc'[n] \in LockedSteps
             PROVE  run'[n].gen = gens'
  BY DEF LatestRun
<1>1. CASE n = m
  BY <1>1, RunKeepsNumber, NumberingStep DEF LatestRun
<1>2. CASE n # m
  <2>1. mpc[n] \in LockedSteps /\ run'[n].gen = run[n].gen
    BY <1>2, OthersStand
  <2>2. ~Acquire(m)
    BY <2>1, MapAssumption DEF Acquire, LockInv
  <2> QED
    BY <2>1, <2>2, NumberingStep DEF LatestRun
<1> QED
  BY <1>1, <1>2

-----------------------------------------------------------------------------
(* What a certificate goes on saying after it has been read.                 *)

(* The graph of certificate r against the digests of certificate r.          *)
Agree(d, g) ==
    \A f \in GraphSources :
        g.inputs[f] = IF d.files[f] = None THEN Absent ELSE d.files[f]

(* r may be gone from disk; what still bears its marks is still its own.     *)
Backs(r) ==
    IsPublished(r) =>
        /\ r.gen <= gens
        /\ \A m \in Mappers : mpc[m] \in LockedSteps \ {"finish"} => r.gen < gens
        /\ r.graphId <= graph.id /\ r.manifestId <= manifest.id
        /\ manifest.id = r.manifestId => manifest.by = r.gen
        /\ digests.gen = r.gen /\ graph.id = r.graphId => Agree(digests, graph)
        /\ IsPublished(record) /\ record.gen = r.gen => record = r

(* What a map step may do to the files a query reads.                        *)
LEMMA StoreStep ==
    ASSUME Context, NEW m \in Mappers, MapActs(m)
    PROVE  /\ graph' = graph \/ graph'.id = graph.id + 1
           /\ manifest' = manifest \/ manifest'.id = manifest.id + 1
           /\ \/ digests' = digests
              \/ mpc[m] = "digests" /\ digests'.gen = run[m].gen
           /\ \/ record' = record
              \/ ~IsPublished(record')
              \/ /\ mpc[m] = "publish" /\ Publish(m)
                 /\ UNCHANGED <<graph, manifest, digests, cache, index>>
                 /\ record'.gen = run[m].gen
                 /\ record'.graphId = graph.id /\ record'.manifestId = manifest.id
<1> USE DEF At, storeVars, certVars, sidecarVars, fragmentVars
<1>1. CASE WriteGraph(m)
  BY <1>1 DEF WriteGraph
<1>2. CASE WriteManifest(m)
  BY <1>2 DEF WriteManifest
<1>3. CASE Mark(m)
  BY <1>3 DEF Mark, IsPublished, InProgress, Missing, Context, Undisturbed
<1>4. CASE WriteDigests(m)
  BY <1>4 DEF WriteDigests
<1>5. CASE Publish(m)
  BY <1>5 DEF Publish, Certificate, IsPublished, Uncertifiable
<1>6. CASE \/ Acquire(m) \/ ReadPrior(m) \/ ReadStatus0(m) \/ Load(m)
           \/ (\E f \in Sources : PlanEntry(m, f)) \/ Discover(m) \/ Decide(m) \/ KeepGraph(m)
           \/ ReadStatus2(m) \/ WriteTransport(m) \/ WriteUnits(m)
           \/ WriteCrates(m) \/ WriteCache(m) \/ WriteIndex(m) \/ Finish(m) \/ Crash(m)
           \/ \E w \in Worktrees, s \in Scopes : Start(m, w, s)
  BY <1>6
     DEF Acquire, ReadPrior, ReadStatus0, Load, PlanEntry, Discover, Decide, KeepGraph,
         ReadStatus2, WriteTransport, WriteUnits, WriteCrates, WriteCache,
         WriteIndex, Finish, Crash, Start
<1> QED
  BY <1>1, <1>2, <1>3, <1>4, <1>5, <1>6 DEF MapActs, MapStep

(* The numbers a published record bears.                                     *)
LEMMA CertificateTypes ==
    ASSUME NEW r \in Records, IsPublished(r)
    PROVE  r.gen \in Nat /\ r.graphId \in Nat /\ r.manifestId \in Nat
  BY DEF Records, Certificates, IsPublished, Missing, Uncertifiable, InProgress

(* A map's step leaves what r says standing.                                 *)
LEMMA BacksMapStep ==
    ASSUME Core, NEW r \in Records, Backs(r), NEW m \in Mappers, MapActs(m)
    PROVE  Backs(r)'
<1> SUFFICES ASSUME IsPublished(r)
             PROVE  Backs(r)'
  BY DEF Backs
<1>1. /\ r.gen \in Nat /\ r.graphId \in Nat /\ r.manifestId \in Nat
      /\ graph.id \in Nat /\ manifest.id \in Nat /\ gens \in Nat
      /\ TypeInv /\ LockInv /\ LatestRun
  BY CertificateTypes, VersionTypes DEF Core, Context, TypeInv, TypeOK, MapTypeOK
<1>2. r.gen <= gens'
  BY <1>1, NumberingStep DEF Backs
<1>3. ASSUME NEW n \in Mappers, mpc'[n] \in LockedSteps \ {"finish"}
      PROVE  r.gen < gens'
  <2>1. CASE Acquire(m)
    BY <1>1, <2>1, NumberingStep DEF Backs
  <2>2. CASE ~Acquire(m)
    <3>1. mpc[n] \in LockedSteps \ {"finish"}
      BY <1>1, <1>3, <2>2, RunKeepsNumber, OthersStand
    <3> QED
      BY <1>1, <2>2, <3>1, NumberingStep DEF Backs
  <2> QED
    BY <2>1, <2>2
<1>4. r.graphId <= graph'.id /\ r.manifestId <= manifest'.id
  BY <1>1, StoreStep DEF Backs, Core
<1>5. manifest'.id = r.manifestId => manifest'.by = r.gen
  BY <1>1, StoreStep DEF Backs, Core
<1>6. mpc[m] \in {"digests", "publish"} => run[m].gen = gens /\ r.gen < gens
  BY <1>1, LockedStepsFacts DEF LatestRun, MarkedSteps, Backs
<1>7. digests'.gen = r.gen /\ graph'.id = r.graphId => digests' = digests /\ graph' = graph
  BY <1>1, <1>6, StoreStep DEF Backs, Core
<1>8. IsPublished(record') /\ record'.gen = r.gen => record' = r
  BY <1>1, <1>6, StoreStep DEF Backs, Core
<1> QED
  BY <1>2, <1>3, <1>4, <1>5, <1>7, <1>8 DEF Backs, Agree

(* So does any step that leaves maps and artifacts alone.                    *)
LEMMA BacksStands ==
    ASSUME NEW r, Backs(r), UNCHANGED <<record, digests, manifest, graph, mpc, gens>>
    PROVE  Backs(r)'
  BY DEF Backs, Agree

(* The record on disk backs itself.                                          *)
LEMMA RecordBacksItself ==
    ASSUME Core, Backs(record), NEW m \in Mappers, MapActs(m)
    PROVE  Backs(record)'
<1> SUFFICES ASSUME IsPublished(record')
             PROVE  Backs(record)'
  BY DEF Backs
<1>1. CASE record' = record
  <2>1. PICK r : r = record
    OBVIOUS
  <2>2. r \in Records
    BY <2>1 DEF Core, Context, TypeInv, TypeOK, StoreTypeOK
  <2>3. Backs(r)
    BY <2>1 DEF Backs
  <2>4. Backs(r)'
    BY <2>2, <2>3, BacksMapStep
  <2> QED
    BY <1>1, <2>1, <2>4 DEF Backs
<1>2. CASE record' # record
  <2>1. /\ mpc[m] = "publish" /\ Publish(m)
        /\ UNCHANGED <<graph, manifest, digests, cache, index>>
        /\ record'.gen = run[m].gen
        /\ record'.graphId = graph.id /\ record'.manifestId = manifest.id
    BY <1>2, StoreStep DEF Core
  <2>2. WholeInv' /\ LatestRun'
    BY WritingRunStep, LatestRunStep, <2>1 DEF Core, Context, Undisturbed
  <2>3. DiskWhole'
    BY <2>2 DEF WholeInv
  <2>4. gens' = gens /\ gens \in Nat /\ run[m].gen = gens
    BY <2>1, LockedStepsFacts
       DEF Publish, Core, LatestRun, MarkedSteps, Context, TypeInv, TypeOK, MapTypeOK
  <2>5. ASSUME NEW n \in Mappers, mpc'[n] \in LockedSteps
        PROVE  mpc'[n] = "finish"
    <3>1. mpc'[m] = "finish" /\ mpc[m] \in LockedSteps
      BY <2>1, WholeTypes, LockedStepsFacts DEF Publish, Goto, Core, Context, MarkedSteps
    <3> QED
      BY <2>5, <3>1, OthersStand, OthersWait DEF Core, Context
  <2>6. graph.id \in Nat /\ manifest.id \in Nat
    BY VersionTypes DEF Core, Context
  <2>7. manifest'.by = record'.gen
    BY <2>3 DEF DiskWhole
  <2>8. Agree(digests, graph)
    <3>1. \A f \in GraphSources : index.entries[f] # Unread
      BY WholeTypes, StoreAssumption DEF Core, Context, Stamps, Fragmented
    <3> QED
      BY <2>1, <2>3, <3>1 DEF DiskWhole, Agree, Contribution
  <2> QED
    BY <2>1, <2>4, <2>5, <2>6, <2>7, <2>8 DEF Backs, Agree
<1> QED
  BY <1>1, <1>2

(* A run past its marker finds no record, so no map step replaces what a     *)
(* record that stays names.                                                  *)
LEMMA CertifiedStands ==
    ASSUME Core, NEW m \in Mappers, MapActs(m), IsPublished(record)
    PROVE  \/ record' = record /\ UNCHANGED <<digests, graph, cache, transport>>
           \/ ~IsPublished(record')
<1>1. mpc[m] \notin MarkedSteps
  BY DEF Core, Context, Undisturbed, NoCertificateMidRun
<1>2. \/ Acquire(m) \/ ReadPrior(m) \/ ReadStatus0(m) \/ Load(m)
      \/ (\E f \in Sources : PlanEntry(m, f)) \/ Discover(m) \/ Decide(m) \/ Mark(m)
      \/ Finish(m) \/ Crash(m) \/ \E w \in Worktrees, s \in Scopes : Start(m, w, s)
  BY <1>1 DEF MapActs, MapStep, At, MarkedSteps, WriteManifest, KeepGraph, WriteGraph,
              WriteTransport, WriteUnits, WriteCrates, WriteCache, WriteIndex, ReadStatus2,
              WriteDigests, Publish
<1>3. CASE Mark(m)
  BY <1>3 DEF Mark, IsPublished, InProgress, Missing
<1>4. CASE ~Mark(m)
  BY <1>2, <1>4
     DEF Acquire, ReadPrior, ReadStatus0, Load, PlanEntry, Discover, Decide, Finish, Crash,
         Start, storeVars, certVars, sidecarVars, fragmentVars
<1> QED
  BY <1>3, <1>4

(* A map's step keeps all that.                                              *)
LEMMA CoreMapStep ==
    ASSUME Core, TypeInv', NEW m \in Mappers, MapActs(m)
    PROVE  Core'
<1>1. Locking /\ HasGit /\ TypeInv /\ LockInv /\ NoCertificateMidRun /\ WholeInv
        /\ LatestRun /\ RecordBehindDisk
  BY DEF Core, Context, Undisturbed
<1>2. LockInv' /\ LatestRun'
  BY <1>1, LockStep, LatestRunStep
<1>3. NoCertificateMidRun'
  BY <1>1, MarkerStep DEF NoCertificateMidRun
<1>4. WholeInv'
  BY <1>1, LockedRunStep, WritingRunStep, OuterRunStep DEF MapActs, MapStep, Core
<1>5. RecordBehindDisk'
  BY <1>1, MapMovesDiskOn, VersionTypes
     DEF DiskMovesOn, RecordBehindDisk, TypeInv, TypeOK, StoreTypeOK, Graphs, Manifests
<1> QED
  BY <1>2, <1>3, <1>4, <1>5 DEF Core, Context, Undisturbed, Allowed

(* What the invariants look at, but for the queries.                         *)
coreVars == <<indexVars, mpc, run, lock, gens>>

(* A step that leaves index and runs alone keeps what later steps rest on.   *)
LEMMA CoreStands ==
    ASSUME Core, TypeInv', UNCHANGED coreVars
    PROVE  Core'
<1>1. WholeInv'
  BY SameIndexIsWhole DEF Core, coreVars
<1>2. LockInv' /\ LatestRun' /\ NoCertificateMidRun' /\ RecordBehindDisk'
  BY DEF Core, Context, LockInv, LatestRun, NoCertificateMidRun, RecordBehindDisk, coreVars,
         indexVars
<1> QED
  BY <1>1, <1>2 DEF Core, Context, Undisturbed, Allowed

(* Neither a query nor the world moves the index.                            *)
LEMMA QueryLeavesCore ==
    ASSUME NEW q \in Queriers, QueryActs(q)
    PROVE  UNCHANGED coreVars
  BY DEF QueryActs, QueryStep, ReadGraph, ReadManifest, Refuse, ReadHead, ReadStatus,
         StatusFailure, HashCandidates, ReadRecordAgain, StatGraph, Answer, Open, Close,
         storeVars, certVars, sidecarVars, fragmentVars, mapVars, indexVars, coreVars

(* Nor does the world, without another build in it.                          *)
LEMMA WorldLeavesCore ==
    ASSUME ~Allowed("foreign"), WorldActs
    PROVE  UNCHANGED <<coreVars, queryVars>>
  BY DEF WorldActs, UserEdits, HeadMoves, HookRaisesFlag, ForeignWrite,
         storeVars, certVars, sidecarVars, fragmentVars, mapVars, indexVars, coreVars

(* At the start nothing is published and nobody is past the lock.            *)
LEMMA CoreInit ==
    ASSUME Undisturbed, Init
    PROVE  Core /\ Backs(record)
<1>1. TypeInv /\ WholeInv
  BY InitTypes, WholeInit
<1>2. LockInv /\ LatestRun
  BY MapAssumption, LockedStepsFacts DEF Init, MapInit, LockInv, LatestRun
<1>3. NoCertificateMidRun /\ RecordBehindDisk /\ Backs(record)
  BY DEF Init, StoreInit, MapInit, NoCertificateMidRun, MarkedSteps, RecordBehindDisk, Backs,
         IsPublished, Missing
<1> QED
  BY <1>1, <1>2, <1>3 DEF Core, Context

-----------------------------------------------------------------------------
(* What a query holds.                                                       *)

(* Its record still speaks for the files, and for the ones it has read.      *)
Backed(q) ==
    IsPublished(ask[q].snapshot) =>
        /\ Backs(ask[q].snapshot)
        /\ qpc[q] \in {"certify"} \cup JudgingSteps
             /\ ask[q].manifest.id = ask[q].snapshot.manifestId
           => ask[q].manifest.by = ask[q].snapshot.gen
        /\ qpc[q] \in {"manifest", "certify"} \cup JudgingSteps
             /\ ask[q].graph.id = ask[q].snapshot.graphId
             /\ digests.gen = ask[q].snapshot.gen
           => Agree(digests, ask[q].graph)

AnswersInv == Core /\ Backs(record) /\ \A q \in Queriers : Backed(q)

(* A map's step leaves a query's record backed: the artifacts the query has  *)
(* read are versions, and a later version has another number.                *)
LEMMA BackedMapStep ==
    ASSUME Core, NEW q \in Queriers, Backed(q), NEW m \in Mappers, MapActs(m)
    PROVE  Backed(q)'
<1> SUFFICES ASSUME IsPublished(ask'[q].snapshot)
             PROVE  Backed(q)'
  BY DEF Backed
<1>1. ask' = ask /\ qpc' = qpc
  BY DEF MapActs, queryVars
<1>2. PICK r : r = ask[q].snapshot
  OBVIOUS
<1>3. r \in Records /\ IsPublished(r) /\ Backs(r)
  BY <1>1, <1>2 DEF Core, Context, TypeInv, TypeOK, QueryTypeOK, Asks, Backed, Backs
<1>4. Backs(r)'
  BY <1>3, BacksMapStep
<1>5. digests' = digests \/ digests'.gen # r.gen
  <2>1. mpc[m] = "digests" => run[m].gen = gens /\ r.gen < gens
    BY <1>3, LockedStepsFacts DEF Core, LatestRun, MarkedSteps, Backs
  <2>2. r.gen \in Nat /\ gens \in Nat
    BY <1>3, CertificateTypes DEF Core, Context, TypeInv, TypeOK, MapTypeOK
  <2> QED
    BY <2>1, <2>2, StoreStep DEF Core
<1> QED
  BY <1>1, <1>2, <1>4, <1>5 DEF Backed, Backs

(* So does a step that moves neither the index nor this query.               *)
LEMMA BackedStands ==
    ASSUME NEW q \in Queriers, Backed(q), UNCHANGED coreVars,
           ask'[q] = ask[q], qpc'[q] = qpc[q]
    PROVE  Backed(q)'
<1>1. PICK r : r = ask[q].snapshot
  OBVIOUS
<1>2. UNCHANGED <<record, digests, manifest, graph, mpc, gens>>
  BY DEF coreVars, indexVars
<1>3. Backs(r) => Backs(r)'
  BY <1>2, BacksStands
<1> QED
  BY <1>1, <1>2, <1>3 DEF Backed, Backs

(* A query's own step.                                                       *)
LEMMA BackedQueryStep ==
    ASSUME TypeInv, Backs(record), NEW q \in Queriers, Backed(q), QueryActs(q)
    PROVE  Backed(q)'
<1> USE DEF AtQuery, GotoQuery, JudgingSteps
<1>1. ask \in [Queriers -> Asks] /\ qpc \in [Queriers -> QuerySteps] /\ ask[q] \in Asks
  BY DEF TypeInv, TypeOK, QueryTypeOK
<1>2. UNCHANGED <<record, digests, manifest, graph, mpc, gens>>
  BY QueryLeavesCore DEF coreVars, indexVars
<1>3. CASE \E w, a \in Worktrees : Open(q, w, a)
  <2>1. ask'[q].snapshot = record /\ qpc'[q] = "graph"
    BY <1>1, <1>3 DEF Open, NoQuery
  <2>2. Backs(record)'
    BY <1>2 DEF Backs, Agree
  <2> QED
    BY <1>2, <2>1, <2>2 DEF Backed, Backs
<1>4. CASE Close(q)
  BY <1>1, <1>4 DEF Close, NoQuery, IsPublished, Missing, Backed
<1>5. PICK r : r = ask[q].snapshot
  OBVIOUS
<1>6. IsPublished(r) => Backs(r) /\ Backs(r)'
  <2>1. Backs(r) => Backs(r)'
    BY <1>2, BacksStands
  <2> QED
    BY <1>5, <2>1 DEF Backed, Backs
<1>7. CASE ReadGraph(q)
  <2>1. ask'[q].snapshot = r /\ ask'[q].graph = graph /\ qpc'[q] = "manifest"
    BY <1>1, <1>5, <1>7 DEF ReadGraph, Asks
  <2> QED
    BY <1>2, <1>6, <2>1 DEF Backed, Backs
<1>8. CASE ReadManifest(q)
  <2>1. /\ ask'[q].snapshot = r /\ ask'[q].graph = ask[q].graph
        /\ ask'[q].manifest = manifest /\ qpc[q] = "manifest" /\ qpc'[q] = "certify"
    BY <1>1, <1>5, <1>8 DEF ReadManifest, Asks
  <2> QED
    BY <1>2, <1>5, <1>6, <2>1 DEF Backed, Backs
<1>9. CASE /\ qpc[q] \in {"certify"} \cup JudgingSteps
           /\ ask'[q].snapshot = ask[q].snapshot
           /\ ask'[q].graph = ask[q].graph /\ ask'[q].manifest = ask[q].manifest
  BY <1>2, <1>5, <1>6, <1>9 DEF Backed, Backs
<1>10. CASE \/ Refuse(q) \/ ReadHead(q) \/ ReadStatus(q) \/ StatusFailure(q)
            \/ HashCandidates(q) \/ ReadRecordAgain(q) \/ Answer(q) \/ StatGraph(q)
  <2>1. qpc[q] \in {"certify"} \cup JudgingSteps
    BY <1>10 DEF Refuse, ReadHead, ReadStatus, StatusFailure, HashCandidates,
                 ReadRecordAgain, StatGraph, Answer
  <2>2. /\ ask'[q].snapshot = ask[q].snapshot
        /\ ask'[q].graph = ask[q].graph /\ ask'[q].manifest = ask[q].manifest
    BY <1>1, <1>10 DEF Refuse, ReadHead, ReadStatus, StatusFailure, HashCandidates,
                       ReadRecordAgain, StatGraph, Answer, Conclude, Asks
  <2> QED
    BY <1>9, <2>1, <2>2
<1> QED
  BY <1>3, <1>4, <1>7, <1>8, <1>10 DEF QueryActs, QueryStep

(* A query's step is no other query's.                                       *)
LEMMA OtherQueriesStand ==
    ASSUME TypeInv, NEW q \in Queriers, QueryActs(q), NEW p \in Queriers, p # q
    PROVE  ask'[p] = ask[p] /\ qpc'[p] = qpc[p]
  BY DEF QueryActs, QueryStep, ReadGraph, ReadManifest, Refuse, ReadHead, ReadStatus,
         StatusFailure, HashCandidates, ReadRecordAgain, StatGraph, Answer, Open, Close,
         Conclude, GotoQuery, TypeInv, TypeOK, QueryTypeOK

(* Every step of the protocol keeps the invariant.                           *)
LEMMA AnswersStep ==
    ASSUME AnswersInv, TypeInv', [Next]_vars
    PROVE  AnswersInv'
<1>1. TypeInv /\ ~Allowed("foreign")
  BY DEF AnswersInv, Core, Context, Undisturbed
<1>2. ASSUME NEW m \in Mappers, MapActs(m)
      PROVE  AnswersInv'
  BY <1>2, CoreMapStep, RecordBacksItself, BackedMapStep DEF AnswersInv
<1>3. ASSUME UNCHANGED coreVars
      PROVE  Core' /\ Backs(record)'
  <2>1. Core'
    BY <1>3, CoreStands DEF AnswersInv
  <2>2. Backs(record)'
    BY <1>3 DEF AnswersInv, Backs, Agree, coreVars, indexVars
  <2> QED
    BY <2>1, <2>2
<1>4. ASSUME NEW q \in Queriers, QueryActs(q)
      PROVE  AnswersInv'
  <2>1. UNCHANGED coreVars
    BY <1>4, QueryLeavesCore
  <2>2. ASSUME NEW p \in Queriers
        PROVE  Backed(p)'
    <3>1. CASE p = q
      BY <1>1, <1>4, <3>1, BackedQueryStep DEF AnswersInv
    <3>2. CASE p # q
      BY <1>1, <1>4, <2>1, <3>2, BackedStands, OtherQueriesStand DEF AnswersInv
    <3> QED
      BY <3>1, <3>2
  <2> QED
    BY <1>3, <2>1, <2>2 DEF AnswersInv
<1>5. CASE WorldActs \/ UNCHANGED vars
  <2>1. UNCHANGED <<coreVars, queryVars>>
    BY <1>1, <1>5, WorldLeavesCore
       DEF vars, storeVars, certVars, sidecarVars, fragmentVars, mapVars, indexVars, coreVars
  <2>2. ASSUME NEW p \in Queriers
        PROVE  Backed(p)'
    BY <2>1, BackedStands DEF AnswersInv, queryVars
  <2> QED
    BY <1>3, <2>1, <2>2 DEF AnswersInv
<1> QED
  BY <1>2, <1>4, <1>5 DEF Next

(* The invariant holds of every undisturbed behavior.                        *)
LEMMA AnswersHold ==
    ASSUME Undisturbed
    PROVE  Spec => []AnswersInv
<1>1. Init => AnswersInv
  BY CoreInit DEF Init, QueryInit, NoQuery, AnswersInv, Backed, IsPublished, Missing
<1>2. AnswersInv /\ TypeInv' /\ [Next]_vars => AnswersInv'
  BY AnswersStep
<1> QED
  BY <1>1, <1>2, InitTypes, NextTypes, PTL DEF Spec

(* In a Git checkout, where locks work and no other build writes, an answer  *)
(* labelled fresh read the manifest of the run that published its record,    *)
(* whatever maps started, finished or died around the reads.                 *)
THEOREM FreshPairIsOneRunsHolds ==
    ASSUME Undisturbed
    PROVE  Spec => FreshPairIsOneRuns
<1> DEFINE Pair == \A q \in Queriers : Answers(q, "fresh") =>
                      ask[q].manifest.by = ask[q].snapshot.gen
<1>1. TypeInv /\ BracketInv /\ AnswersInv /\ [Next]_vars => Pair
  <2> SUFFICES ASSUME TypeInv, BracketInv, AnswersInv, [Next]_vars, NEW q \in Queriers,
                      Answers(q, "fresh")
               PROVE  ask[q].manifest.by = ask[q].snapshot.gen
    OBVIOUS
  <2>1. qpc[q] = "answer" /\ manifest.id = ask[q].snapshot.manifestId
    BY FreshStep
  <2>2. IsPublished(ask[q].snapshot)
    BY <2>1 DEF TypeInv, ActiveQuery, JudgingSteps
  <2>3. ask[q].manifest.id = ask[q].snapshot.manifestId
    BY <2>1, <2>2, VersionTypes DEF BracketInv, InBracket, JudgingSteps
  <2> QED
    BY <2>1, <2>2, <2>3 DEF AnswersInv, Backed, JudgingSteps
<1>2. Spec => []TypeInv
  BY InitTypes, NextTypes, PTL DEF Spec
<1> HIDE DEF Pair
<1>3. Spec => [][Pair]_vars
  BY <1>1, <1>2, AnswersHold, BracketHolds, PTL DEF Spec
<1> QED
  BY <1>3 DEF Pair, FreshPairIsOneRuns
=============================================================================
