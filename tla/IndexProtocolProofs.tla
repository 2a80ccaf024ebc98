------------------------ MODULE IndexProtocolProofs -------------------------
(* Theorems about IndexProtocol for every value of its constants.            *)
EXTENDS IndexProtocol, TLAPS

-----------------------------------------------------------------------------
(* Type correctness.                                                         *)

(* What a run under way has in memory, beyond the types: its worktree and    *)
(* scope are set, and what it has extracted it has read.                     *)
ActiveRun(m) ==
    /\ mpc[m] # "idle" => run[m].wt \in Worktrees /\ run[m].scope \in Scopes
    /\ \A f \in run[m].fresh : f \in run[m].planned /\ run[m].keys[f] \in Contents

(* A query past the record arms has a published snapshot.                    *)
ActiveQuery(q) ==
    /\ qpc[q] # "idle" => ask[q].root \in Worktrees
    /\ qpc[q] \in JudgingSteps => IsPublished(ask[q].snapshot)

MapTypes == MapTypeOK /\ \A m \in Mappers : ActiveRun(m)
QueryTypes == QueryTypeOK /\ \A q \in Queriers : ActiveQuery(q)

TypeInv ==
    /\ TypeOK
    /\ \A m \in Mappers : ActiveRun(m)
    /\ \A q \in Queriers : ActiveQuery(q)

(* The world's own steps keep the checkouts and the history well formed.     *)
LEMMA WorldTypes ==
    ASSUME WorldTypeOK, NEW w \in Worktrees,
           (\E f \in Files, c \in Contents \cup {Absent} : Edit(w, f, c))
             \/ Commit(w) \/ \E c \in 1 .. Len(commits) : Switch(w, c)
    PROVE  WorldTypeOK'
<1>1. CASE \E f \in Files, c \in Contents \cup {Absent} : Edit(w, f, c)
  BY <1>1, WorkTreeAssumption DEF WorldTypeOK, Edit, Trees
<1>2. CASE Commit(w)
  <2>1. tree[w] \in Trees
    BY DEF WorldTypeOK
  <2>2. commits' \in Seq(Trees) /\ Len(commits') = Len(commits) + 1
    BY <1>2, <2>1 DEF WorldTypeOK, Commit
  <2> QED
    BY <1>2, <2>2 DEF WorldTypeOK, Commit
<1>3. CASE \E c \in 1 .. Len(commits) : Switch(w, c)
  BY <1>3 DEF WorldTypeOK, Switch
<1> QED
  BY <1>1, <1>2, <1>3

(* A run's memory before it has read anything is a run's memory.             *)
LEMMA BlankRun == Blank \in Runs
<1>1. NoManifest.entries \in [Sources -> Keys]
  BY DEF NoManifest, Keys
<1>2. NoFragments.entries \in Fragmented
  BY DEF NoFragments, Fragmented
<1>3. Missing \in Records
  BY DEF Records
<1>4. [f \in Sources |-> None] \in [Sources -> Keys]
  BY DEF Keys
<1>5. [c \in Configs |-> Absent] \in [Configs -> Bytes]
  BY DEF Bytes
<1> QED
  BY <1>1, <1>2, <1>3, <1>4, <1>5 DEF Blank, Runs

(* A step that only moves a run on.                                          *)
LEMMA GotoTypes ==
    ASSUME MapTypes, NEW m \in Mappers, NEW step \in MapSteps, mpc[m] # "idle",
           Goto(m, step), UNCHANGED <<run, lock, gens>>
    PROVE  MapTypes'
  BY DEF MapTypes, MapTypeOK, ActiveRun, Goto

(* A run starts with a blank memory naming its checkout and scope.           *)
LEMMA StartTypes ==
    ASSUME MapTypes, NEW m \in Mappers, NEW w \in Worktrees, NEW s \in Scopes,
           Start(m, w, s)
    PROVE  MapTypes'
<1> DEFINE mem == [Blank EXCEPT !.wt = w, !.scope = s]
<1>1. mem \in Runs
  <2>1. [Blank EXCEPT !.wt = w] \in Runs
    BY BlankRun DEF Runs
  <2>2. s \in SUBSET Files
    BY StoreAssumption
  <2> QED
    BY <2>1, <2>2 DEF Runs
<1>2. mem.wt = w /\ mem.scope = s /\ mem.fresh = {}
  BY DEF Blank
<1>3. run' = [run EXCEPT ![m] = mem]
  BY DEF Start
<1>4. mpc' = [mpc EXCEPT ![m] = "lock"] /\ UNCHANGED <<lock, gens>>
  BY DEF Start, Goto
<1> HIDE DEF mem
<1> QED
  BY <1>1, <1>2, <1>3, <1>4 DEF MapTypes, MapTypeOK, ActiveRun, MapSteps

(* A run that ends forgets its memory and leaves the lock.                   *)
LEMMA BackToIdleTypes ==
    ASSUME MapTypes, NEW m \in Mappers, Goto(m, "idle"),
           run' = [run EXCEPT ![m] = Blank], lock' = Unlocked(m), UNCHANGED gens
    PROVE  MapTypes'
<1>1. Blank.fresh = {}
  BY DEF Blank
<1>2. Unlocked(m) \in Mappers \cup {Free}
  BY DEF Unlocked, MapTypes, MapTypeOK
<1> QED
  BY <1>1, <1>2, BlankRun DEF MapTypes, MapTypeOK, ActiveRun, Goto, MapSteps

(* A step that changes a run's memory and moves it on.                       *)
LEMMA MemoryTypes ==
    ASSUME MapTypes, NEW m \in Mappers, NEW step \in MapSteps, NEW mem \in Runs,
           mpc[m] # "idle", run' = [run EXCEPT ![m] = mem], Goto(m, step),
           lock' \in Mappers \cup {Free}, gens' \in Nat,
           mem.wt = run[m].wt, mem.scope = run[m].scope,
           \A f \in mem.fresh : f \in mem.planned /\ mem.keys[f] \in Contents
    PROVE  MapTypes'
  BY DEF MapTypes, MapTypeOK, ActiveRun, Goto

(* A fresh file of a run was planned, and its key is the bytes read.         *)
LEMMA RunMemory ==
    ASSUME MapTypes, NEW m \in Mappers
    PROVE  run[m] \in Runs /\ \A f \in run[m].fresh : f \in run[m].planned /\ run[m].keys[f] \in Contents
  BY DEF MapTypes, MapTypeOK, ActiveRun

(* Taking the lock numbers the run.                                          *)
LEMMA AcquireTypes ==
    ASSUME MapTypes, NEW m \in Mappers, Acquire(m)
    PROVE  MapTypes'
<1> DEFINE mem == [run[m] EXCEPT !.gen = gens + 1]
<1>1. gens + 1 \in Nat
  BY DEF MapTypes, MapTypeOK
<1>2. mem \in Runs
  BY <1>1, RunMemory DEF Runs
<1>3. mem.wt = run[m].wt /\ mem.scope = run[m].scope /\ mem.fresh = run[m].fresh
        /\ mem.keys = run[m].keys /\ mem.planned = run[m].planned
  BY RunMemory DEF Runs
<1>4. run' = [run EXCEPT ![m] = mem]
  BY DEF Acquire
<1>5. lock' \in Mappers \cup {Free}
  BY DEF Acquire, MapTypes, MapTypeOK
<1> HIDE DEF mem
<1> QED
  BY <1>1, <1>2, <1>3, <1>4, <1>5, MemoryTypes, RunMemory
     DEF Acquire, At, MapSteps, LockedSteps

(* The prior record and HEAD.                                                *)
LEMMA ReadPriorTypes ==
    ASSUME MapTypes, WorldTypeOK, StoreTypeOK, NEW m \in Mappers, ReadPrior(m)
    PROVE  MapTypes'
<1> DEFINE mem == [run[m] EXCEPT !.prior = record, !.head = GitHead(Root(m))]
<1>1. run[m].wt \in Worktrees
  BY DEF MapTypes, ActiveRun, ReadPrior, At
<1>2. GitHead(Root(m)) \in Nat \cup {None}
  BY <1>1 DEF GitHead, Root, WorldTypeOK
<1>3. record \in Records
  BY DEF StoreTypeOK
<1>4. mem \in Runs
  <2>1. [run[m] EXCEPT !.prior = record] \in Runs
    BY <1>3, RunMemory DEF Runs
  <2> QED
    BY <1>2, <2>1 DEF Runs
<1>5. mem.wt = run[m].wt /\ mem.scope = run[m].scope /\ mem.fresh = run[m].fresh
        /\ mem.keys = run[m].keys /\ mem.planned = run[m].planned
  BY RunMemory DEF Runs
<1>6. run' = [run EXCEPT ![m] = mem]
  BY DEF ReadPrior, MapTypes, MapTypeOK, Runs
<1> HIDE DEF mem
<1> QED
  BY <1>4, <1>5, <1>6, MemoryTypes, RunMemory
     DEF ReadPrior, At, MapSteps, LockedSteps, MapTypes, MapTypeOK

(* git status yields a set of files, or fails.                               *)
LEMMA StatusTypes ==
    ASSUME MapTypes, NEW m \in Mappers, mpc[m] # "idle",
           NEW outcome \in StatusOutcomes(Root(m), run[m].scope)
    PROVE  outcome \in (SUBSET Files) \cup {None}
  BY StoreAssumption DEF MapTypes, ActiveRun, StatusOutcomes, GitStatus, Relevant

(* The status before the walk.                                               *)
LEMMA ReadStatus0Types ==
    ASSUME MapTypes, NEW m \in Mappers, ReadStatus0(m)
    PROVE  MapTypes'
<1>1. PICK outcome \in StatusOutcomes(Root(m), run[m].scope) :
          run' = [run EXCEPT ![m].dirty0 = outcome]
  BY DEF ReadStatus0
<1> DEFINE mem == [run[m] EXCEPT !.dirty0 = outcome]
<1>2. outcome \in (SUBSET Files) \cup {None}
  BY StatusTypes DEF ReadStatus0, At
<1>3. mem \in Runs
  BY <1>2, RunMemory DEF Runs
<1>4. mem.wt = run[m].wt /\ mem.scope = run[m].scope /\ mem.fresh = run[m].fresh
        /\ mem.keys = run[m].keys /\ mem.planned = run[m].planned
  BY RunMemory DEF Runs
<1>5. run' = [run EXCEPT ![m] = mem]
  BY <1>1
<1> HIDE DEF mem
<1> QED
  BY <1>3, <1>4, <1>5, MemoryTypes, RunMemory
     DEF ReadStatus0, At, MapSteps, LockedSteps, MapTypes, MapTypeOK

(* The status after the writes.                                              *)
LEMMA ReadStatus2Types ==
    ASSUME MapTypes, NEW m \in Mappers, ReadStatus2(m)
    PROVE  MapTypes'
<1>1. PICK outcome \in StatusOutcomes(Root(m), run[m].scope) :
          run' = [run EXCEPT ![m].dirty2 = outcome]
  BY DEF ReadStatus2
<1> DEFINE mem == [run[m] EXCEPT !.dirty2 = outcome]
<1>2. outcome \in (SUBSET Files) \cup {None}
  BY StatusTypes DEF ReadStatus2, At
<1>3. mem \in Runs
  BY <1>2, RunMemory DEF Runs
<1>4. mem.wt = run[m].wt /\ mem.scope = run[m].scope /\ mem.fresh = run[m].fresh
        /\ mem.keys = run[m].keys /\ mem.planned = run[m].planned
  BY RunMemory DEF Runs
<1>5. run' = [run EXCEPT ![m] = mem]
  BY <1>1
<1>6. PICK step \in {"digests", "finish"} : Goto(m, step)
  BY DEF ReadStatus2
<1>7. step \in MapSteps
  BY <1>6 DEF MapSteps, LockedSteps, MarkedSteps
<1> HIDE DEF mem
<1> QED
  BY <1>3, <1>4, <1>5, <1>6, <1>7, MemoryTypes, RunMemory
     DEF ReadStatus2, At, MapTypes, MapTypeOK

(* The walk's listing, the prior entries and the fragments index.            *)
LEMMA LoadTypes ==
    ASSUME MapTypes, StoreTypeOK, NEW m \in Mappers, Load(m)
    PROVE  MapTypes'
<1> DEFINE listed == {f \in Sources \cap run[m].scope : OnDisk(m)[f] # Absent}
           entries == IF PriorMine(m) THEN manifest.entries ELSE NoManifest.entries
           reuse == OwnEntries(index, Root(m))
           mem == [run[m] EXCEPT !.listed = listed, !.entries = entries, !.reuse = reuse]
<1>1. entries \in [Sources -> Keys]
  BY DEF StoreTypeOK, Manifests, NoManifest, Keys
<1>2. reuse \in Fragmented
  BY DEF StoreTypeOK, Stamps, OwnEntries, NoFragments, Fragmented
<1>3. run' = [run EXCEPT ![m] = mem]
  BY DEF Load, MapTypes, MapTypeOK, Runs
<1>4. listed \in SUBSET Sources
  OBVIOUS
<1> HIDE DEF listed, entries, reuse
<1>5. mem \in Runs
  <2>1. [run[m] EXCEPT !.listed = listed] \in Runs
    BY <1>4, RunMemory DEF Runs
  <2>2. [run[m] EXCEPT !.listed = listed, !.entries = entries] \in Runs
    BY <1>1, <2>1 DEF Runs
  <2> QED
    BY <1>2, <2>2 DEF Runs
<1>6. mem.wt = run[m].wt /\ mem.scope = run[m].scope /\ mem.fresh = run[m].fresh
        /\ mem.keys = run[m].keys /\ mem.planned = run[m].planned
  BY RunMemory DEF Runs
<1> HIDE DEF mem
<1> QED
  BY <1>3, <1>5, <1>6, MemoryTypes, RunMemory
     DEF Load, At, MapSteps, LockedSteps, MapTypes, MapTypeOK

(* A file joins fresh only with the bytes just read as its key.              *)
LEMMA PlanEntryTypes ==
    ASSUME MapTypes, WorldTypeOK, NEW m \in Mappers, NEW f \in Sources, PlanEntry(m, f)
    PROVE  MapTypes'
<1>1. OnDisk(m)[f] \in Contents \cup {Absent}
  BY StoreAssumption DEF WorldTypeOK, Trees, MapTypes, ActiveRun, PlanEntry, At, Root, OnDisk
<1> DEFINE bytes == OnDisk(m)[f]
           key == IF bytes = Absent THEN Unread ELSE bytes
           joins == f \in GraphSources /\ bytes # Absent /\ ~Reusable(m, f, bytes)
           mem == [run[m] EXCEPT !.planned = @ \cup {f}, !.keys[f] = key,
                                 !.fresh = IF joins THEN @ \cup {f} ELSE @]
<1>2. key \in Keys /\ (joins => f \in GraphSources /\ key \in Contents)
  BY <1>1 DEF Keys
<1>3. run' = [run EXCEPT ![m] = mem]
  <2>1. run \in [Mappers -> Runs]
    BY DEF MapTypes, MapTypeOK
  <2>2. run'[m] = mem
    BY <2>1 DEF PlanEntry, Runs
  <2>3. run' = [n \in Mappers |-> run'[n]] /\ \A n \in Mappers \ {m} : run'[n] = run[n]
    BY <2>1 DEF PlanEntry
  <2> HIDE DEF mem
  <2> QED
    BY <2>1, <2>2, <2>3
<1>4. UNCHANGED <<lock, gens>> /\ At(m, "plan") /\ Goto(m, "plan")
  BY DEF PlanEntry, At, Goto, MapTypes, MapTypeOK
<1> HIDE DEF key, joins
<1>5. mem \in Runs
  <2>1. [run[m] EXCEPT !.planned = @ \cup {f}] \in Runs
    BY RunMemory DEF Runs
  <2>2. [run[m] EXCEPT !.planned = @ \cup {f}, !.keys[f] = key] \in Runs
    BY <1>2, <2>1 DEF Runs
  <2> QED
    BY <1>2, <2>2 DEF Runs
<1>6. mem.wt = run[m].wt /\ mem.scope = run[m].scope
  BY RunMemory DEF Runs
<1>7. \A g \in mem.fresh : g \in mem.planned /\ mem.keys[g] \in Contents
  <2>1. mem.fresh = IF joins THEN run[m].fresh \cup {f} ELSE run[m].fresh
    BY RunMemory DEF Runs
  <2>2. mem.planned = run[m].planned \cup {f} /\ f \notin run[m].planned
    BY RunMemory DEF Runs, PlanEntry
  <2>3. mem.keys = [run[m].keys EXCEPT ![f] = key] /\ run[m].keys \in [Sources -> Keys]
    BY RunMemory DEF Runs
  <2> HIDE DEF mem
  <2> QED
    BY <1>2, <2>1, <2>2, <2>3, RunMemory
<1> HIDE DEF mem
<1> QED
  BY <1>3, <1>4, <1>5, <1>6, <1>7, MemoryTypes
     DEF At, MapSteps, LockedSteps, MapTypes, MapTypeOK

(* The models' bytes and the lane.                                           *)
LEMMA DiscoverTypes ==
    ASSUME MapTypes, WorldTypeOK, NEW m \in Mappers, Discover(m)
    PROVE  MapTypes'
<1> DEFINE configs == [c \in Configs |-> IF c \in run[m].scope THEN OnDisk(m)[c] ELSE Absent]
<1>1. PICK l \in Lanes : run' = [run EXCEPT ![m].configs = configs, ![m].lane = l]
  BY DEF Discover
<1> DEFINE mem == [run[m] EXCEPT !.configs = configs, !.lane = l]
<1>2. configs \in [Configs -> Bytes]
  <2>1. run[m].wt \in Worktrees
    BY DEF MapTypes, ActiveRun, Discover, At
  <2>2. OnDisk(m) \in Trees
    BY <2>1 DEF OnDisk, Root, WorldTypeOK
  <2> QED
    BY <2>2, StoreAssumption DEF Trees, Bytes
<1> HIDE DEF configs
<1>3. mem \in Runs
  <2>1. [run[m] EXCEPT !.configs = configs] \in Runs
    BY <1>2, RunMemory DEF Runs
  <2> QED
    BY <2>1 DEF Runs
<1>4. mem.wt = run[m].wt /\ mem.scope = run[m].scope /\ mem.fresh = run[m].fresh
        /\ mem.keys = run[m].keys /\ mem.planned = run[m].planned
  BY RunMemory DEF Runs
<1>5. run' = [run EXCEPT ![m] = mem]
  BY <1>1 DEF MapTypes, MapTypeOK, Runs
<1> HIDE DEF mem
<1> QED
  BY <1>3, <1>4, <1>5, MemoryTypes, RunMemory
     DEF Discover, At, MapSteps, LockedSteps, MapTypes, MapTypeOK

(* Both readings of the settings files are bytes.                            *)
LEMMA SettingsTypes ==
    ASSUME MapTypes, WorldTypeOK, NEW m \in Mappers, mpc[m] # "idle"
    PROVE  /\ OnDisk(m) \in Trees
           /\ SettingsOnDisk(m) \in [Settings -> Bytes]
<1>1. run[m].wt \in Worktrees
  BY DEF MapTypes, ActiveRun
<1>2. OnDisk(m) \in Trees
  BY <1>1 DEF OnDisk, Root, WorldTypeOK
<1>3. SettingsOnDisk(m) \in [Settings -> Bytes]
  BY <1>2, StoreAssumption DEF Trees, Bytes, SettingsOnDisk
<1> QED
  BY <1>2, <1>3

(* The settings files, and whether the graph on disk may stand.              *)
LEMMA DecideTypes ==
    ASSUME MapTypes, WorldTypeOK, NEW m \in Mappers, Decide(m)
    PROVE  MapTypes'
<1> DEFINE settings == SettingsOnDisk(m)
           changed == \/ ~GraphTrusted(m)
                      \/ IndexIsStale(m)
                      \/ ModelsDiffer(m)
                      \/ TransportDiffers(settings)
                      \/ run[m].lane # None
           mem == [run[m] EXCEPT !.settings = settings, !.changed = changed]
<1>1. settings \in [Settings -> Bytes]
  BY SettingsTypes DEF Decide, At
<1>2. run' = [run EXCEPT ![m] = mem]
  BY DEF Decide, MapTypes, MapTypeOK, Runs
<1>3. changed \in BOOLEAN
  OBVIOUS
<1> HIDE DEF settings, changed
<1>4. mem \in Runs
  <2>1. [run[m] EXCEPT !.settings = settings] \in Runs
    BY <1>1, RunMemory DEF Runs
  <2> QED
    BY <1>3, <2>1 DEF Runs
<1>5. mem.wt = run[m].wt /\ mem.scope = run[m].scope /\ mem.fresh = run[m].fresh
        /\ mem.keys = run[m].keys /\ mem.planned = run[m].planned
  BY RunMemory DEF Runs
<1> HIDE DEF mem
<1> QED
  BY <1>2, <1>4, <1>5, MemoryTypes, RunMemory
     DEF Decide, At, MapSteps, LockedSteps, MapTypes, MapTypeOK

(* A file contributes its key's bytes, or nothing.                           *)
LEMMA FragmentTypes ==
    ASSUME MapTypes, StoreTypeOK, NEW m \in Mappers
    PROVE  Fragments(m) \in Fragmented
<1> SUFFICES ASSUME NEW f \in GraphSources
             PROVE  Fragment(m, f) \in Contents \cup {None}
  BY DEF Fragments, Fragmented
<1>1. OwnEntries(cache, Root(m))[f] \in Contents \cup {None}
  BY DEF StoreTypeOK, Stamps, Fragmented, OwnEntries, NoFragments
<1> QED
  BY <1>1, RunMemory DEF Fragment

(* The graph is made of bytes that were read.                                *)
LEMMA WriteGraphTypes ==
    ASSUME MapTypes, WorldTypeOK, StoreTypeOK, NEW m \in Mappers, WriteGraph(m)
    PROVE  MapTypes' /\ StoreTypeOK'
<1> DEFINE frags == Fragments(m)
           mem == [run[m] EXCEPT !.frags = frags]
<1>1. frags \in Fragmented
  BY FragmentTypes
<1>2. run' = [run EXCEPT ![m] = mem]
  BY DEF WriteGraph
<1> HIDE DEF frags
<1>3. mem \in Runs
  BY <1>1, RunMemory DEF Runs
<1>4. mem.wt = run[m].wt /\ mem.scope = run[m].scope /\ mem.fresh = run[m].fresh
        /\ mem.keys = run[m].keys /\ mem.planned = run[m].planned
  BY RunMemory DEF Runs
<1> HIDE DEF mem
<1>5. MapTypes'
  BY <1>2, <1>3, <1>4, MemoryTypes, RunMemory
     DEF WriteGraph, At, MapSteps, LockedSteps, MarkedSteps, MapTypes, MapTypeOK
<1>6. ResolvedInputs(m) \in [Files -> Bytes \cup {None, Unread}]
  <2> SUFFICES ASSUME NEW f \in Files
               PROVE  ResolvedInputs(m)[f] \in Bytes \cup {None, Unread}
    BY DEF ResolvedInputs
  <2>1. \A g \in GraphSources : Fragment(m, g) \in Contents \cup {None}
    BY FragmentTypes DEF Fragments, Fragmented
  <2>2. OnDisk(m) \in Trees /\ SettingsOnDisk(m) \in [Settings -> Bytes]
    BY SettingsTypes DEF WriteGraph, At
  <2>3. OnDisk(m)[f] \in Bytes
    BY <2>2 DEF Trees, Bytes
  <2>4. f \in Configs => run[m].configs[f] \in Bytes
    BY RunMemory DEF Runs
  <2> QED
    BY <2>1, <2>2, <2>3, <2>4 DEF ResolvedInputs, Bytes
<1>7. graph' \in Graphs
  BY <1>6, RunMemory DEF WriteGraph, Graphs, StoreTypeOK, Runs
<1> QED
  BY <1>5, <1>7 DEF WriteGraph, StoreTypeOK, certVars, sidecarVars, fragmentVars

(* The other writes of a run, file by file.                                  *)
LEMMA MarkTypes ==
    ASSUME MapTypes, StoreTypeOK, NEW m \in Mappers, Mark(m)
    PROVE  StoreTypeOK'
<1>1. run[m].wt \in Worktrees
  BY DEF MapTypes, ActiveRun, Mark, At
<1>2. record' \in Records
  BY <1>1 DEF Mark, Records, Root
<1>3. digests' \in [gen : Nat, files : [Sources -> Contents \cup {None}]]
  BY DEF Mark, StoreTypeOK
<1> QED
  BY <1>2, <1>3 DEF Mark, StoreTypeOK, sidecarVars, fragmentVars

(* The manifest holds keys, this run's or the prior ones.                    *)
LEMMA WriteManifestTypes ==
    ASSUME MapTypes, StoreTypeOK, NEW m \in Mappers, WriteManifest(m)
    PROVE  StoreTypeOK'
<1>1. MergedEntries(m) \in [Sources -> Keys]
  BY RunMemory DEF MergedEntries, Runs, Keys
<1>2. manifest' \in Manifests
  BY <1>1, RunMemory DEF WriteManifest, Manifests, StoreTypeOK, Runs
<1> QED
  BY <1>2 DEF WriteManifest, StoreTypeOK, certVars, sidecarVars, fragmentVars

(* The transport, project and Cargo sidecars.                                *)
LEMMA WriteSidecarTypes ==
    ASSUME MapTypes, StoreTypeOK, NEW m \in Mappers,
           WriteTransport(m) \/ WriteUnits(m) \/ WriteCrates(m)
    PROVE  StoreTypeOK'
<1>1. run[m].settings \in [Settings -> Bytes] \cup {None} /\ run[m].configs \in [Configs -> Bytes]
  BY RunMemory DEF Runs
<1>2. CASE WriteTransport(m)
  BY <1>1, <1>2 DEF WriteTransport, StoreTypeOK, certVars, fragmentVars
<1>3. CASE WriteUnits(m)
  BY <1>1, <1>3 DEF WriteUnits, ModelOf, StoreTypeOK, certVars, fragmentVars, Configs
<1>4. CASE WriteCrates(m)
  BY <1>1, <1>4 DEF WriteCrates, ModelOf, StoreTypeOK, certVars, fragmentVars, Configs
<1> QED
  BY <1>2, <1>3, <1>4

(* The fragment cache and its index.                                         *)
LEMMA WriteFragmentsTypes ==
    ASSUME MapTypes, StoreTypeOK, NEW m \in Mappers, WriteCache(m) \/ WriteIndex(m)
    PROVE  StoreTypeOK'
<1>1. run[m].wt \in Worktrees
  BY DEF MapTypes, ActiveRun, WriteCache, WriteIndex, At
<1>2. Stamped(m) \in Stamps
  BY <1>1, RunMemory DEF Stamped, Stamps, OwnerOf, Root, Runs
<1> QED
  BY <1>2 DEF WriteCache, WriteIndex, StoreTypeOK, certVars, sidecarVars

(* The digest table holds no unread file's key.                              *)
LEMMA WriteDigestsTypes ==
    ASSUME MapTypes, StoreTypeOK, NEW m \in Mappers, WriteDigests(m)
    PROVE  StoreTypeOK'
<1>1. run[m].gen \in Nat /\ run[m].keys \in [Sources -> Keys]
  BY RunMemory DEF Runs
<1>2. digests' \in [gen : Nat, files : [Sources -> Contents \cup {None}]]
  BY <1>1 DEF WriteDigests, Keys
<1> QED
  BY <1>2 DEF WriteDigests, StoreTypeOK, sidecarVars, fragmentVars

(* What a run publishes is a record.                                         *)
LEMMA PublishTypes ==
    ASSUME MapTypes, StoreTypeOK, NEW m \in Mappers, Publish(m)
    PROVE  StoreTypeOK'
<1>1. run[m].wt \in Worktrees /\ run[m].scope \in Scopes
  BY DEF MapTypes, ActiveRun, Publish, At
<1>2. Certificate(m) \in Records
  <2>1. CASE run[m].dirty0 = None \/ run[m].dirty2 = None
    BY <2>1 DEF Certificate, Records
  <2>2. CASE ~(run[m].dirty0 = None \/ run[m].dirty2 = None)
    <3> DEFINE configs == [c \in Configs |-> IF run[m].configs[c] = Absent THEN None
                                              ELSE run[m].configs[c]]
    <3>1. configs \in [Configs -> Contents \cup {None}]
      BY RunMemory DEF Runs, Bytes
    <3>2. DirtyAtMap(m) \in SUBSET Files
      BY <2>2, RunMemory DEF DirtyAtMap, Runs
    <3>3. run[m].gen \in Nat /\ run[m].head \in Nat \cup {None}
      BY RunMemory DEF Runs
    <3>4. graph.id \in Nat /\ manifest.id \in Nat
      BY DEF StoreTypeOK, Graphs, Manifests
    <3>5. Certificate(m) =
            [state |-> "published", owner |-> Root(m), gen |-> run[m].gen,
             head |-> run[m].head, scope |-> run[m].scope, dirty |-> DirtyAtMap(m),
             configs |-> configs, graphId |-> graph.id, manifestId |-> manifest.id]
      BY <2>2 DEF Certificate
    <3> HIDE DEF configs
    <3> QED
      BY <1>1, <3>1, <3>2, <3>3, <3>4, <3>5 DEF Records, Certificates, Root
  <2> QED
    BY <2>1, <2>2
<1> QED
  BY <1>2 DEF Publish, StoreTypeOK, sidecarVars, fragmentVars

(* Every step of a map run keeps memory and disk well formed.                *)
LEMMA MapActsTypes ==
    ASSUME MapTypes, WorldTypeOK, StoreTypeOK, NEW m \in Mappers,
           \/ MapStep(m)
           \/ \E w \in Worktrees, s \in Scopes : Start(m, w, s)
           \/ Crash(m)
    PROVE  MapTypes' /\ StoreTypeOK' /\ WorldTypeOK'
<1> USE DEF At, certVars, sidecarVars, fragmentVars, storeVars, worldVars
<1>1. CASE \E w \in Worktrees, s \in Scopes : Start(m, w, s)
  BY <1>1, StartTypes DEF Start, StoreTypeOK, WorldTypeOK
<1>2. CASE Crash(m)
  BY <1>2, BackToIdleTypes DEF Crash, StoreTypeOK, WorldTypeOK
<1>3. CASE Acquire(m)
  BY <1>3, AcquireTypes DEF Acquire, StoreTypeOK, WorldTypeOK
<1>4. CASE ReadPrior(m)
  BY <1>4, ReadPriorTypes DEF ReadPrior, StoreTypeOK, WorldTypeOK
<1>5. CASE ReadStatus0(m)
  BY <1>5, ReadStatus0Types DEF ReadStatus0, StoreTypeOK, WorldTypeOK
<1>6. CASE Load(m)
  BY <1>6, LoadTypes DEF Load, StoreTypeOK, WorldTypeOK
<1>7. CASE \E f \in Sources : PlanEntry(m, f)
  BY <1>7, PlanEntryTypes DEF PlanEntry, StoreTypeOK, WorldTypeOK
<1>8. CASE Discover(m)
  BY <1>8, DiscoverTypes DEF Discover, StoreTypeOK, WorldTypeOK
<1>9. CASE Decide(m)
  BY <1>9, DecideTypes DEF Decide, StoreTypeOK, WorldTypeOK
<1>10. CASE Mark(m)
  BY <1>10, MarkTypes, GotoTypes DEF Mark, WorldTypeOK, MapSteps, LockedSteps, MarkedSteps
<1>11. CASE WriteManifest(m)
  BY <1>11, WriteManifestTypes, GotoTypes
     DEF WriteManifest, WorldTypeOK, MapSteps, LockedSteps, MarkedSteps
<1>12. CASE KeepGraph(m)
  BY <1>12, GotoTypes
     DEF KeepGraph, StoreTypeOK, WorldTypeOK, MapSteps, LockedSteps, MarkedSteps
<1>13. CASE WriteGraph(m)
  BY <1>13, WriteGraphTypes DEF WriteGraph, WorldTypeOK
<1>14. CASE WriteTransport(m)
  BY <1>14, WriteSidecarTypes, GotoTypes
     DEF WriteTransport, WorldTypeOK, MapSteps, LockedSteps, MarkedSteps
<1>15. CASE WriteUnits(m)
  BY <1>15, WriteSidecarTypes, GotoTypes
     DEF WriteUnits, WorldTypeOK, MapSteps, LockedSteps, MarkedSteps
<1>16. CASE WriteCrates(m)
  BY <1>16, WriteSidecarTypes, GotoTypes
     DEF WriteCrates, WorldTypeOK, MapSteps, LockedSteps, MarkedSteps
<1>17. CASE WriteCache(m)
  BY <1>17, WriteFragmentsTypes, GotoTypes
     DEF WriteCache, WorldTypeOK, MapSteps, LockedSteps, MarkedSteps
<1>18. CASE WriteIndex(m)
  BY <1>18, WriteFragmentsTypes, GotoTypes
     DEF WriteIndex, WorldTypeOK, MapSteps, LockedSteps, MarkedSteps
<1>19. CASE ReadStatus2(m)
  BY <1>19, ReadStatus2Types DEF ReadStatus2, StoreTypeOK, WorldTypeOK
<1>20. CASE WriteDigests(m)
  BY <1>20, WriteDigestsTypes, GotoTypes
     DEF WriteDigests, WorldTypeOK, MapSteps, LockedSteps, MarkedSteps
<1>21. CASE Publish(m)
  BY <1>21, PublishTypes, GotoTypes
     DEF Publish, WorldTypeOK, MapSteps, LockedSteps, MarkedSteps
<1>22. CASE Finish(m)
  BY <1>22, BackToIdleTypes DEF Finish, StoreTypeOK, WorldTypeOK
<1> QED
  BY <1>1, <1>2, <1>3, <1>4, <1>5, <1>6, <1>7, <1>8, <1>9, <1>10, <1>11, <1>12, <1>13,
     <1>14, <1>15, <1>16, <1>17, <1>18, <1>19, <1>20, <1>21, <1>22 DEF MapStep

-----------------------------------------------------------------------------
(* A query's memory.                                                         *)
LEMMA NoQueryTypes == NoQuery \in Asks
<1>1. NoGraph \in Graphs
  BY DEF NoGraph, Graphs, Bytes
<1>2. NoManifest \in Manifests
  BY DEF NoManifest, Manifests, Keys
<1>3. Missing \in Records
  BY DEF Records
<1> QED
  BY <1>1, <1>2, <1>3 DEF NoQuery, Asks

(* What a query holds in memory is always well formed.                       *)
LEMMA QueryMemory ==
    ASSUME QueryTypes, NEW q \in Queriers
    PROVE  ask[q] \in Asks /\ ActiveQuery(q)
  BY DEF QueryTypes, QueryTypeOK

(* A step that changes a query's memory and moves it on.                     *)
LEMMA AskTypes ==
    ASSUME QueryTypes, NEW q \in Queriers, NEW step \in QuerySteps, NEW mem \in Asks,
           ask' = [ask EXCEPT ![q] = mem], GotoQuery(q, step),
           step # "idle" => mem.root \in Worktrees,
           step \in JudgingSteps => IsPublished(mem.snapshot)
    PROVE  QueryTypes'
  BY DEF QueryTypes, QueryTypeOK, ActiveQuery, GotoQuery

(* A step that only moves a query on.                                        *)
LEMMA GotoQueryTypes ==
    ASSUME QueryTypes, NEW q \in Queriers, NEW step \in QuerySteps, UNCHANGED ask,
           GotoQuery(q, step), qpc[q] \in JudgingSteps
    PROVE  QueryTypes'
  BY DEF QueryTypes, QueryTypeOK, ActiveQuery, GotoQuery, JudgingSteps

(* A query that reaches a verdict.                                           *)
LEMMA ConcludeTypes ==
    ASSUME QueryTypes, NEW q \in Queriers, qpc[q] # "idle", NEW verdict \in Verdicts,
           Conclude(q, verdict)
    PROVE  QueryTypes'
<1> DEFINE mem == [ask[q] EXCEPT !.verdict = verdict]
<1>1. mem \in Asks
  BY QueryMemory DEF Asks
<1>2. mem.root \in Worktrees
  BY QueryMemory DEF Asks, ActiveQuery
<1>3. ask' = [ask EXCEPT ![q] = mem] /\ GotoQuery(q, "answered")
  BY DEF Conclude
<1> HIDE DEF mem
<1> QED
  BY <1>1, <1>2, <1>3, AskTypes DEF QuerySteps, JudgingSteps

(* A query starts with the record it snapshots.                              *)
LEMMA OpenTypes ==
    ASSUME QueryTypes, StoreTypeOK, NEW q \in Queriers, NEW w \in Worktrees,
           NEW a \in Worktrees, Open(q, w, a)
    PROVE  QueryTypes'
<1> DEFINE mem == [NoQuery EXCEPT !.root = w, !.asking = a, !.snapshot = record]
<1>1. mem \in Asks
  <2>1. [NoQuery EXCEPT !.root = w] \in Asks
    BY NoQueryTypes DEF Asks
  <2>2. [NoQuery EXCEPT !.root = w, !.asking = a] \in Asks
    BY <2>1 DEF Asks
  <2> QED
    BY <2>2 DEF Asks, StoreTypeOK
<1>2. mem.root = w
  BY DEF NoQuery
<1>3. ask' = [ask EXCEPT ![q] = mem] /\ GotoQuery(q, "graph")
  BY DEF Open
<1> HIDE DEF mem
<1> QED
  BY <1>1, <1>2, <1>3, AskTypes DEF QuerySteps, JudgingSteps

(* The query's reads of the graph and of the manifest.                       *)
LEMMA ReadArtifactTypes ==
    ASSUME QueryTypes, StoreTypeOK, NEW q \in Queriers, ReadGraph(q) \/ ReadManifest(q)
    PROVE  QueryTypes'
<1>1. CASE ReadGraph(q)
  <2> DEFINE mem == [ask[q] EXCEPT !.graph = graph]
  <2>1. mem \in Asks
    BY QueryMemory DEF Asks, StoreTypeOK
  <2>2. mem.root = ask[q].root /\ ask[q].root \in Worktrees
    BY <1>1, QueryMemory DEF Asks, ActiveQuery, ReadGraph, AtQuery
  <2>3. ask' = [ask EXCEPT ![q] = mem] /\ GotoQuery(q, "manifest")
    BY <1>1 DEF ReadGraph
  <2> HIDE DEF mem
  <2> QED
    BY <2>1, <2>2, <2>3, AskTypes DEF QuerySteps, JudgingSteps
<1>2. CASE ReadManifest(q)
  <2> DEFINE mem == [ask[q] EXCEPT !.manifest = manifest]
  <2>1. mem \in Asks
    BY QueryMemory DEF Asks, StoreTypeOK
  <2>2. mem.root = ask[q].root /\ ask[q].root \in Worktrees
    BY <1>2, QueryMemory DEF Asks, ActiveQuery, ReadManifest, AtQuery
  <2>3. ask' = [ask EXCEPT ![q] = mem] /\ GotoQuery(q, "certify")
    BY <1>2 DEF ReadManifest
  <2> HIDE DEF mem
  <2> QED
    BY <2>1, <2>2, <2>3, AskTypes DEF QuerySteps, JudgingSteps
<1> QED
  BY <1>1, <1>2

(* Only a published record gets past the record arms.                        *)
LEMMA RecordVerdictTypes ==
    ASSUME QueryTypes, NEW q \in Queriers
    PROVE  /\ RecordVerdict(q) \in Verdicts \cup {None}
           /\ RecordVerdict(q) = None => IsPublished(ask[q].snapshot)
           /\ RecordVerdict(q) # "fresh"
<1>1. ask[q].snapshot \in Records
  BY QueryMemory DEF Asks
<1>2. ask[q].snapshot.state \in {"missing", "uncertifiable", "in-progress", "published"}
  BY <1>1 DEF Records, Missing, Uncertifiable, InProgress, Certificates
<1> QED
  BY <1>2, ValidationAssumption
     DEF RecordVerdict, Certified, IsPublished, Verdicts, UnknownReasons

(* The query reads HEAD.                                                     *)
LEMMA ReadHeadTypes ==
    ASSUME QueryTypes, WorldTypeOK, NEW q \in Queriers, ReadHead(q)
    PROVE  QueryTypes'
<1> DEFINE h == head[ask[q].root]
           mem == [ask[q] EXCEPT !.head = h]
<1>1. ask[q].root \in Worktrees /\ qpc[q] # "idle"
  BY QueryMemory DEF ActiveQuery, ReadHead, AtQuery
<1>2. h \in Nat
  BY <1>1 DEF WorldTypeOK
<1>3. IsPublished(ask[q].snapshot)
  BY RecordVerdictTypes DEF ReadHead
<1>4. CASE h = 0
  BY <1>1, <1>4, ConcludeTypes DEF ReadHead, Verdicts, UnknownReasons
<1>5. CASE h # 0
  <2>1. ask' = [ask EXCEPT ![q] = mem] /\ GotoQuery(q, "status")
    BY <1>5 DEF ReadHead
  <2> HIDE DEF h
  <2>2. mem \in Asks
    BY <1>2, QueryMemory DEF Asks
  <2>3. mem.root = ask[q].root /\ mem.snapshot = ask[q].snapshot
    BY QueryMemory DEF Asks
  <2> HIDE DEF mem
  <2> QED
    BY <1>1, <1>3, <2>1, <2>2, <2>3, AskTypes DEF QuerySteps, JudgingSteps
<1> QED
  BY <1>4, <1>5

(* The candidates git and the record name.                                   *)
LEMMA ReadStatusTypes ==
    ASSUME QueryTypes, NEW q \in Queriers, ReadStatus(q)
    PROVE  QueryTypes'
<1> DEFINE mem == [ask[q] EXCEPT !.candidates = Candidates(q)]
<1>1. ask[q].root \in Worktrees /\ qpc[q] # "idle" /\ IsPublished(ask[q].snapshot)
  BY QueryMemory DEF ActiveQuery, ReadStatus, AtQuery, JudgingSteps
<1>2. ask[q].snapshot \in Certificates
  BY <1>1, QueryMemory
     DEF Asks, Records, IsPublished, Missing, Uncertifiable, InProgress
<1>3. Candidates(q) \in SUBSET Files
  BY <1>2, StoreAssumption DEF Candidates, GitStatus, Relevant, Certified, Certificates
<1>4. CASE Conclude(q, "validation-budget")
  BY <1>1, <1>4, ConcludeTypes DEF Verdicts, UnknownReasons
<1>5. CASE ask' = [ask EXCEPT ![q] = mem] /\ GotoQuery(q, "hash")
  <2>1. mem \in Asks
    BY <1>3, QueryMemory DEF Asks
  <2>2. mem.root = ask[q].root /\ mem.snapshot = ask[q].snapshot
    BY QueryMemory DEF Asks
  <2> HIDE DEF mem
  <2> QED
    BY <1>1, <1>5, <2>1, <2>2, AskTypes DEF QuerySteps, JudgingSteps
<1> QED
  BY <1>4, <1>5 DEF ReadStatus

(* Hashing the candidates.                                                   *)
LEMMA HashCandidatesTypes ==
    ASSUME QueryTypes, NEW q \in Queriers, HashCandidates(q)
    PROVE  QueryTypes'
<1> DEFINE changed == {f \in ask[q].candidates : Differs(q, f)}
           mem == [ask[q] EXCEPT !.changed = changed]
<1>1. ask[q].root \in Worktrees /\ qpc[q] # "idle" /\ IsPublished(ask[q].snapshot)
  BY QueryMemory DEF ActiveQuery, HashCandidates, AtQuery, JudgingSteps
<1>2. changed \in SUBSET Files
  BY QueryMemory DEF Asks
<1>3. CASE Conclude(q, "index-changed") \/ Conclude(q, "validation-budget")
  BY <1>1, <1>3, ConcludeTypes DEF Verdicts, UnknownReasons
<1>4. CASE ask' = [ask EXCEPT ![q] = mem] /\ GotoQuery(q, "record")
  <2> HIDE DEF changed
  <2>1. mem \in Asks
    BY <1>2, QueryMemory DEF Asks
  <2>2. mem.root = ask[q].root /\ mem.snapshot = ask[q].snapshot
    BY QueryMemory DEF Asks
  <2> HIDE DEF mem
  <2> QED
    BY <1>1, <1>4, <2>1, <2>2, AskTypes DEF QuerySteps, JudgingSteps
<1> QED
  BY <1>3, <1>4 DEF HashCandidates

(* Every step of a query keeps its memory well formed.                       *)
LEMMA QueryActsTypes ==
    ASSUME QueryTypes, WorldTypeOK, StoreTypeOK, NEW q \in Queriers,
           \/ QueryStep(q)
           \/ \E w, a \in Worktrees : Open(q, w, a)
           \/ Close(q)
    PROVE  QueryTypes' /\ StoreTypeOK' /\ WorldTypeOK'
<1>1. UNCHANGED <<worldVars, storeVars>>
  BY DEF QueryStep, ReadGraph, ReadManifest, Refuse, ReadHead, ReadStatus, StatusFailure,
         HashCandidates, ReadRecordAgain, StatGraph, Answer, Open, Close
<1>2. StoreTypeOK' /\ WorldTypeOK'
  BY <1>1 DEF StoreTypeOK, WorldTypeOK, worldVars, storeVars, certVars, sidecarVars,
              fragmentVars
<1> SUFFICES QueryTypes'
  BY <1>2
<1> USE DEF AtQuery
<1>3. CASE \E w, a \in Worktrees : Open(q, w, a)
  BY <1>3, OpenTypes
<1>4. CASE Close(q)
  BY <1>4, AskTypes, NoQueryTypes DEF Close, QuerySteps, JudgingSteps
<1>5. CASE ReadGraph(q) \/ ReadManifest(q)
  BY <1>5, ReadArtifactTypes
<1>6. CASE Refuse(q)
  BY <1>6, RecordVerdictTypes, ConcludeTypes DEF Refuse
<1>7. CASE ReadHead(q)
  BY <1>7, ReadHeadTypes
<1>8. CASE ReadStatus(q)
  BY <1>8, ReadStatusTypes
<1>9. CASE StatusFailure(q)
  BY <1>9, ConcludeTypes DEF StatusFailure, Verdicts, UnknownReasons
<1>10. CASE HashCandidates(q)
  BY <1>10, HashCandidatesTypes
<1>11. CASE ReadRecordAgain(q)
  BY <1>11, ConcludeTypes, GotoQueryTypes
     DEF ReadRecordAgain, Verdicts, UnknownReasons, QuerySteps, JudgingSteps
<1>12. CASE StatGraph(q)
  BY <1>12, ConcludeTypes, GotoQueryTypes
     DEF StatGraph, Verdicts, UnknownReasons, QuerySteps, JudgingSteps
<1>13. CASE Answer(q)
  BY <1>13, ConcludeTypes DEF Answer, Verdicts, UnknownReasons
<1> QED
  BY <1>3, <1>4, <1>5, <1>6, <1>7, <1>8, <1>9, <1>10, <1>11, <1>12, <1>13 DEF QueryStep

-----------------------------------------------------------------------------
(* The invariant.                                                            *)
LEMMA InitTypes == Init => TypeInv
<1> SUFFICES ASSUME Init
             PROVE  TypeInv
  OBVIOUS
<1>1. WorldTypeOK
  BY WorkTreeAssumption DEF Init, WorldInit, WorldTypeOK
<1>2. StoreTypeOK
  <2>1. NoGraph \in Graphs /\ NoManifest \in Manifests /\ NoFragments \in Stamps
    BY DEF NoGraph, NoManifest, NoFragments, Graphs, Manifests, Stamps, Fragmented, Bytes, Keys
  <2>2. NoModel(ProjectConfigs) \in [ProjectConfigs -> Bytes]
          /\ NoModel(CargoConfigs) \in [CargoConfigs -> Bytes]
    BY DEF NoModel, Bytes
  <2> QED
    BY <2>1, <2>2 DEF Init, StoreInit, StoreTypeOK, Records
<1>3. MapTypeOK /\ \A m \in Mappers : ActiveRun(m)
  <2>1. Blank.fresh = {}
    BY DEF Blank
  <2> QED
    BY <2>1, BlankRun DEF Init, MapInit, MapTypeOK, ActiveRun, MapSteps
<1>4. QueryTypeOK /\ \A q \in Queriers : ActiveQuery(q)
  BY NoQueryTypes DEF Init, QueryInit, QueryTypeOK, ActiveQuery, QuerySteps, JudgingSteps
<1>5. foreign \in 0 .. MaxForeign /\ calm \in [Worktrees -> Nat]
  BY EnvironmentAssumption DEF Init
<1> QED
  BY <1>1, <1>2, <1>3, <1>4, <1>5 DEF TypeInv, TypeOK

(* The steps that no process of the program takes.                           *)
LEMMA WorldActsTypes ==
    ASSUME TypeInv, WorldActs
    PROVE  TypeInv'
<1> USE DEF mapVars, queryVars
<1>1. ASSUME NEW w \in Worktrees, NEW f \in Files, NEW c \in Contents \cup {Absent},
             UserEdits(w, f, c)
      PROVE  TypeInv'
  <2>1. WorldTypeOK'
    BY <1>1, WorldTypes DEF UserEdits, TypeInv, TypeOK
  <2>2. StoreTypeOK'
    BY <1>1 DEF UserEdits, TypeInv, TypeOK, StoreTypeOK, storeVars, certVars, sidecarVars,
                fragmentVars
  <2> QED
    BY <1>1, <2>1, <2>2 DEF UserEdits, TypeInv, TypeOK, MapTypeOK, QueryTypeOK, ActiveRun,
                            ActiveQuery
<1>2. ASSUME NEW w \in Worktrees, HeadMoves(w)
      PROVE  TypeInv'
  <2>1. WorldTypeOK'
    BY <1>2, WorldTypes DEF HeadMoves, TypeInv, TypeOK
  <2>2. StoreTypeOK'
    BY <1>2 DEF HeadMoves, TypeInv, TypeOK, StoreTypeOK, storeVars, certVars, sidecarVars,
                fragmentVars
  <2> QED
    BY <1>2, <2>1, <2>2 DEF HeadMoves, TypeInv, TypeOK, MapTypeOK, QueryTypeOK, ActiveRun,
                            ActiveQuery
<1>3. ASSUME NEW w \in Worktrees, HookRaisesFlag(w)
      PROVE  TypeInv'
  <2>1. StoreTypeOK' /\ WorldTypeOK'
    BY <1>3 DEF HookRaisesFlag, TypeInv, TypeOK, StoreTypeOK, WorldTypeOK, worldVars,
                certVars, sidecarVars, fragmentVars
  <2> QED
    BY <1>3, <2>1 DEF HookRaisesFlag, TypeInv, TypeOK, MapTypeOK, QueryTypeOK, ActiveRun,
                      ActiveQuery
<1>4. ASSUME ForeignWrite
      PROVE  TypeInv'
  <2>1. ForeignInputs \in [Files -> Bytes \cup {None, Unread}]
    BY DEF ForeignInputs
  <2>2. graph' \in Graphs /\ manifest' \in Manifests /\ record' \in Records
    BY <1>4, <2>1 DEF ForeignWrite, TypeInv, TypeOK, StoreTypeOK, Graphs, Manifests, Keys,
                      Records
  <2>3. StoreTypeOK' /\ WorldTypeOK'
    BY <1>4, <2>2 DEF ForeignWrite, TypeInv, TypeOK, StoreTypeOK, WorldTypeOK, worldVars,
                      sidecarVars, fragmentVars
  <2>4. foreign' \in 0 .. MaxForeign /\ calm' \in [Worktrees -> Nat]
    BY <1>4, EnvironmentAssumption DEF ForeignWrite, TypeInv, TypeOK
  <2> QED
    BY <1>4, <2>3, <2>4 DEF ForeignWrite, TypeInv, TypeOK, MapTypeOK, QueryTypeOK, ActiveRun,
                            ActiveQuery
<1> QED
  BY <1>1, <1>2, <1>3, <1>4 DEF WorldActs

(* The type invariant is inductive.                                          *)
LEMMA NextTypes == TypeInv /\ [Next]_vars => TypeInv'
<1> SUFFICES ASSUME TypeInv, [Next]_vars
             PROVE  TypeInv'
  OBVIOUS
<1>1. MapTypes /\ QueryTypes /\ WorldTypeOK /\ StoreTypeOK
  BY DEF TypeInv, TypeOK, MapTypes, QueryTypes
<1>2. ASSUME NEW m \in Mappers, MapActs(m)
      PROVE  TypeInv'
  <2>1. MapTypes' /\ StoreTypeOK' /\ WorldTypeOK'
    BY <1>1, <1>2, MapActsTypes DEF MapActs
  <2>2. calm' \in [Worktrees -> Nat]
    BY <1>2, <2>1 DEF MapActs, MapTypes, MapTypeOK, TypeInv, TypeOK
  <2> QED
    BY <1>2, <2>1, <2>2
       DEF MapActs, MapTypes, TypeInv, TypeOK, QueryTypeOK, ActiveQuery, queryVars
<1>3. ASSUME NEW q \in Queriers, QueryActs(q)
      PROVE  TypeInv'
  <2>1. QueryTypes' /\ StoreTypeOK' /\ WorldTypeOK'
    BY <1>1, <1>3, QueryActsTypes DEF QueryActs
  <2> QED
    BY <1>3, <2>1 DEF QueryActs, QueryTypes, TypeInv, TypeOK, MapTypeOK, ActiveRun, mapVars
<1>4. CASE WorldActs
  BY <1>4, WorldActsTypes
<1>5. CASE UNCHANGED vars
  BY <1>5 DEF vars, worldVars, storeVars, certVars, sidecarVars, fragmentVars, mapVars,
              queryVars, TypeInv, TypeOK, WorldTypeOK, StoreTypeOK, MapTypeOK, QueryTypeOK,
              ActiveRun, ActiveQuery
<1> QED
  BY <1>2, <1>3, <1>4, <1>5 DEF Next

(* Every file, every run and every query keeps its shape through any         *)
(* interleaving of maps, queries, crashes, foreign writes and user actions.  *)
THEOREM TypeCorrect == Spec => []TypeOK
<1>1. TypeInv => TypeOK
  BY DEF TypeInv
<1> QED
  BY <1>1, InitTypes, NextTypes, PTL DEF Spec

-----------------------------------------------------------------------------
(* The lock.                                                                 *)

(* The run past the lock is the one that holds it.                           *)
LockInv == \A m \in Mappers : mpc[m] \in LockedSteps <=> lock = m

(* Which steps come after the lock.                                          *)
LEMMA LockedStepsFacts ==
    /\ "idle" \notin LockedSteps /\ "lock" \notin LockedSteps
    /\ \A step \in {"prior", "status0", "load", "plan", "decide", "mark", "finish"}
                   \cup MarkedSteps : step \in LockedSteps
  BY DEF LockedSteps, MarkedSteps

(* One case per way a run may move: into the lock's queue, past the lock, on *)
(* among the locked steps, or back to idle.                                  *)
LEMMA LockStep ==
    ASSUME Locking, TypeInv, LockInv, NEW m \in Mappers, MapActs(m)
    PROVE  LockInv'
<1> USE DEF At, Goto
<1>1. mpc \in [Mappers -> MapSteps] /\ lock \in Mappers \cup {Free} /\ Free \notin Mappers
  BY MapAssumption DEF TypeInv, TypeOK, MapTypeOK
<1>2. CASE \E w \in Worktrees, s \in Scopes : Start(m, w, s)
  BY <1>1, <1>2, LockedStepsFacts DEF Start, LockInv
<1>3. CASE Acquire(m)
  BY <1>1, <1>3, LockedStepsFacts DEF Acquire, LockInv
<1>4. CASE Finish(m) \/ Crash(m)
  BY <1>1, <1>4, LockedStepsFacts DEF Finish, Crash, Unlocked, LockInv
<1>5. CASE /\ mpc[m] \in LockedSteps /\ UNCHANGED lock
           /\ \E step \in LockedSteps : mpc' = [mpc EXCEPT ![m] = step]
  BY <1>1, <1>5 DEF LockInv
<1>6. CASE \/ ReadPrior(m) \/ ReadStatus0(m) \/ Load(m)
           \/ \E f \in Sources : PlanEntry(m, f)
           \/ Discover(m) \/ Decide(m) \/ Mark(m)
  <2>1. mpc[m] \in LockedSteps /\ UNCHANGED lock
    BY <1>6, LockedStepsFacts
       DEF ReadPrior, ReadStatus0, Load, PlanEntry, Discover, Decide, Mark
  <2>2. (\E f \in Sources : PlanEntry(m, f)) => mpc' = [mpc EXCEPT ![m] = "plan"]
    BY <1>1 DEF PlanEntry
  <2>3. \E step \in LockedSteps : mpc' = [mpc EXCEPT ![m] = step]
    BY <1>6, <2>2, LockedStepsFacts
       DEF ReadPrior, ReadStatus0, Load, Discover, Decide, Mark, MarkedSteps
  <2> QED
    BY <1>5, <2>1, <2>3
<1>7. CASE \/ WriteManifest(m) \/ KeepGraph(m) \/ WriteGraph(m) \/ WriteTransport(m)
           \/ WriteUnits(m) \/ WriteCrates(m) \/ WriteCache(m) \/ WriteIndex(m)
           \/ ReadStatus2(m) \/ WriteDigests(m) \/ Publish(m)
  <2>1. mpc[m] \in LockedSteps /\ UNCHANGED lock
    BY <1>7, LockedStepsFacts
       DEF WriteManifest, KeepGraph, WriteGraph, WriteTransport, WriteUnits, WriteCrates,
           WriteCache, WriteIndex, ReadStatus2, WriteDigests, Publish, MarkedSteps
  <2>2. \E step \in LockedSteps : mpc' = [mpc EXCEPT ![m] = step]
    BY <1>7, LockedStepsFacts
       DEF WriteManifest, KeepGraph, WriteGraph, WriteTransport, WriteUnits, WriteCrates,
           WriteCache, WriteIndex, ReadStatus2, WriteDigests, Publish, MarkedSteps
  <2> QED
    BY <1>5, <2>1, <2>2
<1> QED
  BY <1>2, <1>3, <1>4, <1>6, <1>7 DEF MapActs, MapStep

(* Where the lock works, the run past it is its holder, always.              *)
LEMMA LockHolds == Spec => [](Locking => LockInv)
<1>1. Init => (Locking => LockInv)
  BY MapAssumption, LockedStepsFacts DEF Init, MapInit, LockInv
<1>2. TypeInv /\ (Locking => LockInv) /\ [Next]_vars => (Locking => LockInv)'
  <2> SUFFICES ASSUME TypeInv, Locking, LockInv, [Next]_vars
               PROVE  LockInv'
    OBVIOUS
  <2>1. CASE \E m \in Mappers : MapActs(m)
    BY <2>1, LockStep
  <2>2. CASE UNCHANGED mapVars
    BY <2>2 DEF mapVars, LockInv
  <2> QED
    BY <2>1, <2>2
       DEF Next, QueryActs, WorldActs, UserEdits, HeadMoves, HookRaisesFlag, ForeignWrite, vars
<1> QED
  BY <1>1, <1>2, InitTypes, NextTypes, PTL DEF Spec

(* Where locks work, two maps of one repository never overlap, for any       *)
(* number of processes, worktrees and crashes.                               *)
THEOREM MapsSerializeHolds == Spec => [](Locking => MapsSerialize)
<1>1. (Locking => LockInv) => (Locking => MapsSerialize)
  BY DEF LockInv, MapsSerialize
<1> QED
  BY <1>1, LockHolds, PTL

(* One run at a time writes, and the first thing it writes is its marker.    *)
LEMMA MarkerStep ==
    ASSUME Locking, TypeInv, LockInv, NoCertificateMidRun, HasGit, NEW m \in Mappers,
           MapActs(m), NEW n \in Mappers, mpc'[n] \in MarkedSteps
    PROVE  ~IsPublished(record')
<1> USE DEF At, Goto
<1>1. mpc \in [Mappers -> MapSteps]
  BY DEF TypeInv, TypeOK, MapTypeOK
<1>2. CASE mpc[n] \in MarkedSteps
  <2>1. ~IsPublished(record)
    BY <1>2 DEF NoCertificateMidRun
  <2>2. CASE UNCHANGED record
    BY <2>1, <2>2
  <2>3. CASE Mark(m)
    BY <2>3 DEF Mark, IsPublished, InProgress
  <2>4. ~Publish(m)
    <3> SUFFICES ASSUME Publish(m)
                 PROVE  FALSE
      OBVIOUS
    <3>1. mpc[m] \in LockedSteps /\ mpc[n] \in LockedSteps
      BY <1>2, LockedStepsFacts DEF Publish, MarkedSteps
    <3>2. m = n
      BY <3>1 DEF LockInv
    <3> QED
      BY <1>1, <3>2 DEF Publish, MarkedSteps
  <2> QED
    BY <2>2, <2>3, <2>4
       DEF MapActs, MapStep, Acquire, ReadPrior, ReadStatus0, Load, PlanEntry, Discover, Decide,
           WriteManifest, KeepGraph, WriteGraph, WriteTransport, WriteUnits, WriteCrates,
           WriteCache, WriteIndex, ReadStatus2, WriteDigests, Finish, Crash, Start, storeVars,
           certVars
<1>3. CASE mpc[n] \notin MarkedSteps
  <2>1. mpc'[n] # mpc[n]
    BY <1>3
  <2>2. n = m
    BY <1>1, <2>1
       DEF MapActs, MapStep, Acquire, ReadPrior, ReadStatus0, Load, PlanEntry, Discover, Decide,
           Mark, WriteManifest, KeepGraph, WriteGraph, WriteTransport, WriteUnits, WriteCrates,
           WriteCache, WriteIndex, ReadStatus2, WriteDigests, Publish, Finish, Crash, Start
  <2>3. Mark(m)
    BY <1>1, <1>3, <2>1, <2>2
       DEF MapActs, MapStep, Acquire, ReadPrior, ReadStatus0, Load, PlanEntry, Discover, Decide,
           WriteManifest, KeepGraph, WriteGraph, WriteTransport, WriteUnits, WriteCrates,
           WriteCache, WriteIndex, ReadStatus2, WriteDigests, Publish, Finish, Crash, Start,
           MarkedSteps
  <2> QED
    BY <2>3 DEF Mark, IsPublished, InProgress
<1> QED
  BY <1>2, <1>3

(* Where locks work, no certificate is on disk while a run is between its    *)
(* first write and its record, whatever crashes and foreign writes happen.   *)
THEOREM NoCertificateMidRunHolds == Spec => [](Locking => NoCertificateMidRun)
<1>1. Init => NoCertificateMidRun
  BY DEF Init, MapInit, NoCertificateMidRun, MarkedSteps
<1>2. /\ TypeInv /\ (Locking => LockInv) /\ (Locking => NoCertificateMidRun)
      /\ [Next]_vars
      => (Locking => NoCertificateMidRun)'
  <2> SUFFICES ASSUME Locking, TypeInv, LockInv, NoCertificateMidRun, [Next]_vars, HasGit,
                      NEW n \in Mappers, mpc'[n] \in MarkedSteps
               PROVE  ~IsPublished(record')
    BY DEF NoCertificateMidRun
  <2>1. CASE \E m \in Mappers : MapActs(m)
    BY <2>1, MarkerStep
  <2>2. CASE UNCHANGED <<mpc, record>>
    BY <2>2 DEF NoCertificateMidRun
  <2>3. CASE ForeignWrite
    BY <2>3 DEF ForeignWrite, NoCertificateMidRun, IsPublished, Uncertifiable, mapVars
  <2>4. ASSUME NEW q \in Queriers, QueryActs(q)
        PROVE  UNCHANGED <<mpc, record>>
    BY <2>4 DEF QueryActs, QueryStep, ReadGraph, ReadManifest, Refuse, ReadHead, ReadStatus,
                StatusFailure, HashCandidates, ReadRecordAgain, StatGraph, Answer, Open, Close,
                storeVars, certVars, mapVars
  <2> QED
    BY <2>1, <2>2, <2>3, <2>4
       DEF Next, WorldActs, UserEdits, HeadMoves, HookRaisesFlag, vars, storeVars, certVars,
           mapVars
<1> QED
  BY <1>1, <1>2, LockHolds, InitTypes, NextTypes, PTL DEF Spec

-----------------------------------------------------------------------------
(* The bracket around a query.                                               *)

(* An artifact only ever moves to a later version, and a record that is      *)
(* published names versions no later than the ones on disk.                  *)
RecordBehindDisk ==
    IsPublished(record) => /\ record.graphId <= graph.id
                           /\ record.manifestId <= manifest.id

(* What a query has read lies between what its record names and the disk.    *)
InBracket(q) ==
    IsPublished(ask[q].snapshot) =>
      /\ ask[q].snapshot.graphId <= graph.id
      /\ ask[q].snapshot.manifestId <= manifest.id
      /\ qpc[q] \in {"manifest", "certify"} \cup JudgingSteps =>
            ask[q].snapshot.graphId <= ask[q].graph.id /\ ask[q].graph.id <= graph.id
      /\ qpc[q] \in {"certify"} \cup JudgingSteps =>
            /\ ask[q].snapshot.manifestId <= ask[q].manifest.id
            /\ ask[q].manifest.id <= manifest.id
      /\ qpc[q] = "answer" => ask[q].graph.id = ask[q].snapshot.graphId

BracketInv == RecordBehindDisk /\ \A q \in Queriers : InBracket(q)

(* What a step does to the two artifacts and the record.                     *)
DiskMovesOn ==
    /\ graph.id <= graph'.id
    /\ manifest.id <= manifest'.id
    /\ \/ UNCHANGED record
       \/ ~IsPublished(record')
       \/ /\ UNCHANGED <<graph, manifest>>
          /\ IsPublished(record') => /\ record'.graphId = graph.id
                                     /\ record'.manifestId = manifest.id

(* Identities are numbers, on disk and in a query's memory.                  *)
LEMMA VersionTypes ==
    ASSUME TypeInv
    PROVE  /\ graph.id \in Nat /\ manifest.id \in Nat
           /\ IsPublished(record) => record.graphId \in Nat /\ record.manifestId \in Nat
           /\ \A q \in Queriers :
                 /\ ask[q].graph.id \in Nat /\ ask[q].manifest.id \in Nat
                 /\ IsPublished(ask[q].snapshot) =>
                       ask[q].snapshot.graphId \in Nat /\ ask[q].snapshot.manifestId \in Nat
<1>1. \A r \in Records : IsPublished(r) => r.graphId \in Nat /\ r.manifestId \in Nat
  BY DEF Records, Certificates, IsPublished, Missing, Uncertifiable, InProgress
<1>2. \A q \in Queriers : ask[q] \in Asks
  BY DEF TypeInv, TypeOK, QueryTypeOK
<1> QED
  BY <1>1, <1>2 DEF TypeInv, TypeOK, StoreTypeOK, Graphs, Manifests, Asks

(* A map step only moves identities forward.                                 *)
LEMMA MapMovesDiskOn ==
    ASSUME TypeInv, NEW m \in Mappers, MapActs(m)
    PROVE  DiskMovesOn
<1> USE DEF DiskMovesOn, storeVars, certVars, sidecarVars, fragmentVars
<1>1. graph.id \in Nat /\ manifest.id \in Nat
  BY VersionTypes
<1>2. CASE UNCHANGED <<graph, manifest, record>>
  BY <1>1, <1>2
<1>3. CASE WriteGraph(m)
  BY <1>1, <1>3 DEF WriteGraph
<1>4. CASE WriteManifest(m)
  BY <1>1, <1>4 DEF WriteManifest
<1>5. CASE Mark(m)
  BY <1>1, <1>5 DEF Mark, IsPublished, InProgress, Missing
<1>6. CASE Publish(m)
  <2>1. UNCHANGED <<graph, manifest>>
    BY <1>6 DEF Publish
  <2>2. IsPublished(record') => record'.graphId = graph.id /\ record'.manifestId = manifest.id
    BY <1>6 DEF Publish, Certificate, IsPublished, Uncertifiable
  <2> QED
    BY <1>1, <2>1, <2>2
<1>7. CASE \/ Acquire(m) \/ ReadPrior(m) \/ ReadStatus0(m) \/ Load(m)
           \/ (\E f \in Sources : PlanEntry(m, f)) \/ Discover(m) \/ Decide(m) \/ KeepGraph(m)
           \/ ReadStatus2(m) \/ WriteDigests(m) \/ WriteTransport(m) \/ WriteUnits(m)
           \/ WriteCrates(m) \/ WriteCache(m) \/ WriteIndex(m) \/ Finish(m) \/ Crash(m)
           \/ \E w \in Worktrees, s \in Scopes : Start(m, w, s)
  BY <1>2, <1>7
     DEF Acquire, ReadPrior, ReadStatus0, Load, PlanEntry, Discover, Decide, KeepGraph,
         ReadStatus2, WriteDigests, WriteTransport, WriteUnits, WriteCrates, WriteCache,
         WriteIndex, Finish, Crash, Start
<1> QED
  BY <1>3, <1>4, <1>5, <1>6, <1>7 DEF MapActs, MapStep

(* A step outside the program only moves identities forward.                 *)
LEMMA WorldMovesDiskOn ==
    ASSUME TypeInv, WorldActs
    PROVE  DiskMovesOn
<1>1. graph.id \in Nat /\ manifest.id \in Nat
  BY VersionTypes
<1>2. CASE ForeignWrite
  BY <1>1, <1>2 DEF ForeignWrite, DiskMovesOn, IsPublished, Uncertifiable
<1>3. CASE UNCHANGED <<graph, manifest, record>>
  BY <1>1, <1>3 DEF DiskMovesOn
<1> QED
  BY <1>2, <1>3
     DEF WorldActs, UserEdits, HeadMoves, HookRaisesFlag, storeVars, certVars

(* A query's own step keeps what it read inside its bracket.                 *)
LEMMA QueryStaysBracketed ==
    ASSUME TypeInv, TypeInv', BracketInv, NEW q \in Queriers, QueryActs(q)
    PROVE  InBracket(q)'
<1> USE VersionTypes DEF AtQuery, GotoQuery, InBracket, JudgingSteps
<1>1. ask \in [Queriers -> Asks] /\ qpc \in [Queriers -> QuerySteps] /\ ask[q] \in Asks
  BY DEF TypeInv, TypeOK, QueryTypeOK
<1>2. InBracket(q) /\ RecordBehindDisk
  BY DEF BracketInv
<1>3. UNCHANGED <<graph, manifest, record>>
  BY DEF QueryActs, QueryStep, ReadGraph, ReadManifest, Refuse, ReadHead, ReadStatus,
         StatusFailure, HashCandidates, ReadRecordAgain, StatGraph, Answer, Open, Close,
         storeVars, certVars
<1>4. CASE \E w, a \in Worktrees : Open(q, w, a)
  <2>1. ask'[q].snapshot = record /\ qpc'[q] = "graph"
    BY <1>1, <1>4 DEF Open, NoQuery
  <2> QED
    BY <1>2, <1>3, <2>1 DEF RecordBehindDisk
<1>5. CASE Close(q)
  BY <1>1, <1>5 DEF Close, NoQuery, IsPublished, Missing
<1>6. CASE ReadGraph(q)
  <2>1. /\ ask'[q].snapshot = ask[q].snapshot /\ ask'[q].graph = graph
        /\ qpc'[q] = "manifest"
    BY <1>1, <1>6 DEF ReadGraph, Asks
  <2> QED
    BY <1>2, <1>3, <2>1
<1>7. CASE ReadManifest(q)
  <2>1. /\ ask'[q].snapshot = ask[q].snapshot /\ ask'[q].graph = ask[q].graph
        /\ ask'[q].manifest = manifest /\ qpc[q] = "manifest" /\ qpc'[q] = "certify"
    BY <1>1, <1>7 DEF ReadManifest, Asks
  <2> QED
    BY <1>2, <1>3, <2>1
<1>8. CASE StatGraph(q) /\ qpc'[q] = "answer"
  <2>1. UNCHANGED ask /\ qpc[q] = "stat" /\ graph.id = ask[q].snapshot.graphId
    BY <1>1, <1>8 DEF StatGraph, Conclude, Certified
  <2> QED
    BY <1>2, <1>3, <1>8, <2>1
<1>9. CASE /\ qpc[q] \in {"certify"} \cup JudgingSteps
           /\ qpc'[q] # "answer"
           /\ ask'[q].snapshot = ask[q].snapshot
           /\ ask'[q].graph = ask[q].graph /\ ask'[q].manifest = ask[q].manifest
  BY <1>2, <1>3, <1>9
<1>10. CASE \/ Refuse(q) \/ ReadHead(q) \/ ReadStatus(q) \/ StatusFailure(q)
            \/ HashCandidates(q) \/ ReadRecordAgain(q) \/ Answer(q)
            \/ StatGraph(q) /\ qpc'[q] # "answer"
  <2>1. qpc[q] \in {"certify"} \cup JudgingSteps
    BY <1>10 DEF Refuse, ReadHead, ReadStatus, StatusFailure, HashCandidates,
                 ReadRecordAgain, StatGraph, Answer
  <2>2. qpc'[q] # "answer"
    BY <1>1, <1>10 DEF Refuse, ReadHead, ReadStatus, StatusFailure, HashCandidates,
                       ReadRecordAgain, Answer, Conclude
  <2>3. /\ ask'[q].snapshot = ask[q].snapshot
        /\ ask'[q].graph = ask[q].graph /\ ask'[q].manifest = ask[q].manifest
    BY <1>1, <1>10 DEF Refuse, ReadHead, ReadStatus, StatusFailure, HashCandidates,
                       ReadRecordAgain, StatGraph, Answer, Conclude, Asks
  <2> QED
    BY <1>9, <2>1, <2>2, <2>3
<1> QED
  BY <1>4, <1>5, <1>6, <1>7, <1>8, <1>10 DEF QueryActs, QueryStep

(* A later version on disk leaves every bracket standing.                    *)
LEMMA DiskKeepsBrackets ==
    ASSUME TypeInv, TypeInv', BracketInv, DiskMovesOn, UNCHANGED queryVars
    PROVE  BracketInv'
<1>1. RecordBehindDisk'
  BY VersionTypes DEF BracketInv, RecordBehindDisk, DiskMovesOn, TypeInv, TypeOK, StoreTypeOK,
                      Graphs, Manifests
<1>2. graph'.id \in Nat /\ manifest'.id \in Nat
  BY DEF TypeInv, TypeOK, StoreTypeOK, Graphs, Manifests
<1>3. ASSUME NEW q \in Queriers
      PROVE  InBracket(q)'
  <2>1. InBracket(q) /\ ask'[q] = ask[q] /\ qpc'[q] = qpc[q]
    BY DEF BracketInv, queryVars
  <2> QED
    BY <1>2, <2>1, VersionTypes DEF InBracket, DiskMovesOn
<1> QED
  BY <1>1, <1>3 DEF BracketInv

(* The bracket invariant is inductive.                                       *)
LEMMA BracketStep ==
    ASSUME TypeInv, TypeInv', BracketInv, [Next]_vars
    PROVE  BracketInv'
<1>1. ASSUME NEW m \in Mappers, MapActs(m)
      PROVE  BracketInv'
  BY <1>1, MapMovesDiskOn, DiskKeepsBrackets DEF MapActs
<1>2. ASSUME NEW q \in Queriers, QueryActs(q)
      PROVE  BracketInv'
  <2>1. UNCHANGED <<graph, manifest, record>>
    BY <1>2 DEF QueryActs, QueryStep, ReadGraph, ReadManifest, Refuse, ReadHead, ReadStatus,
                StatusFailure, HashCandidates, ReadRecordAgain, StatGraph, Answer, Open, Close,
                storeVars, certVars
  <2>2. ASSUME NEW p \in Queriers, p # q
        PROVE  ask'[p] = ask[p] /\ qpc'[p] = qpc[p]
    BY <1>2, <2>2
       DEF QueryActs, QueryStep, ReadGraph, ReadManifest, Refuse, ReadHead, ReadStatus,
           StatusFailure, HashCandidates, ReadRecordAgain, StatGraph, Answer, Open, Close,
           Conclude, GotoQuery, TypeInv, TypeOK, QueryTypeOK
  <2>3. ASSUME NEW p \in Queriers
        PROVE  InBracket(p)'
    <3>1. CASE p = q
      BY <1>2, <3>1, QueryStaysBracketed
    <3>2. CASE p # q
      BY <2>1, <2>2, <3>2 DEF BracketInv, InBracket
    <3> QED
      BY <3>1, <3>2
  <2> QED
    BY <2>1, <2>3 DEF BracketInv, RecordBehindDisk
<1>3. CASE WorldActs
  BY <1>3, WorldMovesDiskOn, DiskKeepsBrackets
     DEF WorldActs, UserEdits, HeadMoves, HookRaisesFlag, ForeignWrite
<1>4. CASE UNCHANGED vars
  BY <1>4 DEF vars, storeVars, certVars, queryVars, BracketInv, InBracket, RecordBehindDisk
<1> QED
  BY <1>1, <1>2, <1>3, <1>4 DEF Next

(* What a query holds stays between its record and the disk.                 *)
LEMMA BracketHolds == Spec => []BracketInv
<1>1. Init => BracketInv
  BY DEF Init, StoreInit, QueryInit, NoQuery, BracketInv, RecordBehindDisk, InBracket,
         IsPublished, Missing
<1>2. TypeInv /\ TypeInv' /\ BracketInv /\ [Next]_vars => BracketInv'
  BY BracketStep
<1> QED
  BY <1>1, <1>2, InitTypes, NextTypes, PTL DEF Spec

(* Only the last step of the validation says fresh, and only when the        *)
(* manifest is still the record's, HEAD its own and no candidate changed.    *)
LEMMA FreshStep ==
    ASSUME TypeInv, [Next]_vars, NEW q \in Queriers, Answers(q, "fresh")
    PROVE  /\ qpc[q] = "answer" /\ manifest.id = ask[q].snapshot.manifestId
           /\ ask[q].snapshot.head = ask[q].head /\ ask[q].changed = {}
<1>1. ask \in [Queriers -> Asks] /\ qpc \in [Queriers -> QuerySteps]
  BY DEF TypeInv, TypeOK, QueryTypeOK
<1>2. QueryActs(q)
  <2>1. ASSUME NEW p \in Queriers, p # q, QueryActs(p)
        PROVE  qpc'[q] = qpc[q]
    BY <1>1, <2>1
       DEF QueryActs, QueryStep, ReadGraph, ReadManifest, Refuse, ReadHead, ReadStatus,
           StatusFailure, HashCandidates, ReadRecordAgain, StatGraph, Answer, Open, Close,
           Conclude, GotoQuery
  <2>2. ASSUME NEW m \in Mappers, MapActs(m)
        PROVE  UNCHANGED qpc
    BY <2>2 DEF MapActs, queryVars
  <2>3. WorldActs => UNCHANGED qpc
    BY DEF WorldActs, UserEdits, HeadMoves, HookRaisesFlag, ForeignWrite, queryVars
  <2>4. UNCHANGED vars => UNCHANGED qpc
    BY DEF vars, queryVars
  <2> QED
    BY <2>1, <2>2, <2>3, <2>4 DEF Next, Answers
<1>3. ASSUME NEW verdict, Conclude(q, verdict)
      PROVE  ask'[q].verdict = verdict
  BY <1>1, <1>3 DEF Conclude, Asks
<1>4. ASSUME Answer(q)
      PROVE  /\ qpc[q] = "answer" /\ manifest.id = ask[q].snapshot.manifestId
             /\ ask[q].snapshot.head = ask[q].head /\ ask[q].changed = {}
  BY <1>3, <1>4 DEF Answer, AtQuery, Certified, Answers
<1>5. ~Refuse(q)
  <2>1. RecordVerdict(q) # "fresh"
    BY RecordVerdictTypes DEF TypeInv, TypeOK, QueryTypes
  <2> QED
    BY <1>3, <2>1 DEF Refuse, Answers
<1>6. Answer(q)
  BY <1>1, <1>2, <1>3, <1>5
     DEF Answers, QueryActs, QueryStep, ReadGraph, ReadManifest, ReadHead, ReadStatus,
         StatusFailure, HashCandidates, ReadRecordAgain, StatGraph, Open, Close, GotoQuery
<1> QED
  BY <1>4, <1>6

(* What was answered as fresh was read from the two versions its record      *)
(* certifies, however many maps, foreign writes and crashes came between:    *)
(* versions only grow, so the one read and the one judged are the same.      *)
THEOREM FreshReadsCertifiedHolds == Spec => FreshReadsCertified
<1> DEFINE Certified2(q) == /\ IsPublished(ask[q].snapshot)
                            /\ ask[q].graph.id = ask[q].snapshot.graphId
                            /\ ask[q].manifest.id = ask[q].snapshot.manifestId
           Fresh == \A q \in Queriers : Answers(q, "fresh") => Certified2(q)
<1>1. TypeInv /\ BracketInv /\ [Next]_vars => Fresh
  <2> SUFFICES ASSUME TypeInv, BracketInv, [Next]_vars, NEW q \in Queriers,
                      Answers(q, "fresh")
               PROVE  Certified2(q)
    OBVIOUS
  <2>1. qpc[q] = "answer" /\ manifest.id = ask[q].snapshot.manifestId
    BY FreshStep
  <2>2. IsPublished(ask[q].snapshot)
    BY <2>1 DEF TypeInv, ActiveQuery, JudgingSteps
  <2>3. InBracket(q)
    BY DEF BracketInv
  <2> QED
    BY <2>1, <2>2, <2>3, VersionTypes DEF InBracket, JudgingSteps
<1> HIDE DEF Fresh
<1>2. Spec => [][Fresh]_vars
  BY <1>1, BracketHolds, InitTypes, NextTypes, PTL DEF Spec
<1> QED
  BY <1>2 DEF Fresh, FreshReadsCertified
=============================================================================
