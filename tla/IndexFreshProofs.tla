-------------------------- MODULE IndexFreshProofs --------------------------
(* What "fresh" means, for every value of the constants of IndexProtocol: an *)
(* answer so labelled was built from the bytes the asking worktree holds,    *)
(* and a checkout nothing has disturbed is answered fresh.                   *)
(* The argument joins a run's reads to the two statuses around them, the     *)
(* run's record to the graph it names, and the query's own status to both.   *)
EXTENDS IndexWholeProofs

-----------------------------------------------------------------------------
(* The index is undisturbed, nothing that is read twice changes between the  *)
(* two reads of a map, and a query judges a checkout that holds still.       *)
Quiet ==
    /\ HasGit /\ Locking
    /\ ResolverInputs = {}
    /\ Environment \subseteq {"crash", "hook"}

(* What m has seen of f so far is c; in the end, what it has read.           *)
SeenAs(m, f, c) ==
    /\ f \in Sources /\ mpc[m] # "load" => (f \in run[m].listed <=> c # Absent)
    /\ f \in run[m].planned => Contribution(run[m].keys[f]) = c
    /\ f \in Configs /\ mpc[m] \notin {"load", "plan"} => run[m].configs[f] = c
ReadAs(m, f, c) ==
    /\ f \in Sources => Contribution(run[m].keys[f]) = c
    /\ f \in Configs => run[m].configs[f] = c

(* HEAD stands from the first status to the second.                          *)
HeadKept(m) ==
    mpc[m] \in BetweenStatuses \cup {"status0"} => run[m].head = GitHead(Root(m))

(* A file neither status has reported was read as it is committed.           *)
ReadsClean(m) ==
    /\ mpc[m] \in BetweenStatuses /\ run[m].dirty0 # None =>
          \A f \in run[m].scope \ run[m].dirty0 :
              OnDisk(m)[f] = CommittedTree(Root(m))[f] => SeenAs(m, f, OnDisk(m)[f])
    /\ /\ mpc[m] \in FromDigests
       /\ None \notin {run[m].dirty0, run[m].dirty2, run[m].head}
       => /\ run[m].head \in 1 .. Len(commits)
          /\ \A f \in run[m].scope \ DirtyAtMap(m) : ReadAs(m, f, commits[run[m].head][f])

(* The settings resolution read are those that were listed and keyed.        *)
SettingsRead(m) ==
    /\ mpc[m] \in BetweenStatuses \ {"load"} =>
          \A s \in Settings \cap run[m].scope :
              /\ s \in run[m].listed <=> OnDisk(m)[s] # Absent
              /\ s \in run[m].planned => run[m].keys[s] = OnDisk(m)[s]
    /\ mpc[m] \in BetweenStatuses \ {"load", "plan", "decide"} =>
          run[m].settings = SettingsOnDisk(m)

(* The sidecar on disk is of the settings in the graph on disk.              *)
TransportTells ==
    \A s \in Settings : graph.inputs[s] = IF transport = None THEN None ELSE transport[s]

SettingsMine(m) ==
    \A s \in Settings : graph.inputs[s] \in {None, Contribution(run[m].keys[s])}

SettingsWritten(m) ==
    /\ mpc[m] \in {"mark", "manifest", "rebuild"} /\ ~run[m].changed =>
          TransportTells /\ transport \in {None, run[m].settings}
    /\ mpc[m] = "transport" =>
          \A s \in Settings :
              graph.inputs[s] = IF HasSite(run[m].frags) THEN run[m].settings[s] ELSE None
    /\ mpc[m] \in {"finish"} \cup FromUnits => TransportTells
    /\ mpc[m] \in {"finish"} \cup FromTransport => SettingsMine(m) /\ graph.id # 0

RunTrue(m) == HeadKept(m) /\ ReadsClean(m) /\ SettingsRead(m) /\ SettingsWritten(m)

(* Sources that feed neither fragments nor transport facts are not read.     *)
OthersUnread ==
    graph.id # 0 => \A f \in Sources \ (GraphSources \cup Settings) : graph.inputs[f] = None

(* A record against the graph it names.                                      *)
Truthful(r, g) ==
    /\ \A c \in r.scope \cap Configs :
          g.inputs[c] = IF r.configs[c] = None THEN Absent ELSE r.configs[c]
    /\ \A f \in Sources \ (GraphSources \cup Settings) : g.inputs[f] = None
    /\ r.head # None =>
          /\ r.head \in 1 .. Len(commits)
          /\ \A f \in r.scope \ r.dirty : g.inputs[f] \in {commits[r.head][f], None}
SettingsAgree(d, g) ==
    \A s \in Settings : g.inputs[s] \in {None, IF d.files[s] = None THEN Absent ELSE d.files[s]}

(* r vouches for g, and for the digest table as long as it is r's own.       *)
VouchesFor(r, g) ==
    IsPublished(r) /\ g.id = r.graphId =>
        Truthful(r, g) /\ (digests.gen = r.gen => SettingsAgree(digests, g))

DiskTrue ==
    /\ OthersUnread
    /\ IsPublished(record) => TransportTells
    /\ VouchesFor(record, graph)

(* What a query that judges its candidates has found.                        *)
Judged(q) ==
    /\ qpc[q] \in JudgingSteps =>
          /\ ask[q].asking = ask[q].root
          /\ ask[q].head = head[ask[q].root] /\ ask[q].head # 0
    /\ qpc[q] \in JudgingSteps \ {"status"} => ask[q].candidates = Candidates(q)
    /\ qpc[q] \in JudgingSteps \ {"status", "hash"}
         /\ ask[q].graph.id = ask[q].snapshot.graphId =>
          \A f \in (ask[q].candidates \cap ask[q].snapshot.scope) \ ask[q].changed :
              ask[q].graph.inputs[f] \in {tree[ask[q].root][f], None}

QueryTrue(q) ==
    /\ qpc[q] # "answered" => VouchesFor(ask[q].snapshot, graph)
    /\ qpc[q] \in {"manifest", "certify"} \cup JudgingSteps =>
          VouchesFor(ask[q].snapshot, ask[q].graph)
    /\ Judged(q)

FreshInv ==
    /\ AnswersInv /\ DiskTrue
    /\ \A m \in Mappers : RunTrue(m)
    /\ \A q \in Queriers : QueryTrue(q)

-----------------------------------------------------------------------------
(* Frames.                                                                   *)

(* What the restriction on the world rules out.                              *)
LEMMA QuietIs ==
    ASSUME Quiet
    PROVE  /\ Undisturbed
           /\ ~Allowed("restore-in-map") /\ ~Allowed("settings-in-map")
           /\ ~Allowed("head-moves-in-map") /\ ~Allowed("head-moves-in-query")
           /\ ~Allowed("edit-in-query")
  BY DEF Quiet, Undisturbed, Allowed

(* The steps from the first status to the second.                            *)
LEMMA BetweenIs ==
    BetweenStatuses = {"load", "plan", "decide", "mark", "manifest", "rebuild", "transport",
                       "units", "crates", "cache", "index", "status2"}
  BY DEF BetweenStatuses, LockedSteps, MarkedSteps

(* A run that does not move, in a world and over an index that do not.       *)
LEMMA RunStands ==
    ASSUME NEW m \in Mappers, RunTrue(m), mpc'[m] = mpc[m], run'[m] = run[m],
           UNCHANGED <<worldVars, graph, transport>>
    PROVE  RunTrue(m)'
<1>1. OnDisk(m)' = OnDisk(m) /\ Root(m)' = Root(m) /\ GitHead(Root(m))' = GitHead(Root(m))
        /\ CommittedTree(Root(m))' = CommittedTree(Root(m))
  BY DEF OnDisk, Root, GitHead, CommittedTree, worldVars
<1>2. HeadKept(m)'
  BY <1>1 DEF RunTrue, HeadKept
<1>3. ReadsClean(m)'
  BY <1>1 DEF RunTrue, ReadsClean, SeenAs, ReadAs, DirtyAtMap, worldVars
<1>4. SettingsRead(m)'
  BY <1>1 DEF RunTrue, SettingsRead, SettingsOnDisk
<1>5. SettingsWritten(m)'
  BY DEF RunTrue, SettingsWritten, TransportTells, SettingsMine
<1> QED
  BY <1>2, <1>3, <1>4, <1>5 DEF RunTrue

(* A disk that does not move.                                                *)
LEMMA DiskTrueStands ==
    ASSUME DiskTrue, UNCHANGED <<worldVars, record, graph, digests, transport>>
    PROVE  DiskTrue'
<1>1. OthersUnread' /\ (IsPublished(record') => TransportTells')
  BY DEF DiskTrue, OthersUnread, TransportTells
<1>2. VouchesFor(record, graph)'
  BY DEF DiskTrue, VouchesFor, Truthful, SettingsAgree, worldVars
<1> QED
  BY <1>1, <1>2 DEF DiskTrue

(* A run that has not reached its first status has nothing to answer for.    *)
LEMMA EarlyRunIsTrue ==
    ASSUME NEW m \in Mappers, mpc'[m] \in {"idle", "lock", "prior"}
    PROVE  RunTrue(m)'
  BY BetweenIs DEF RunTrue, HeadKept, ReadsClean, SettingsRead, SettingsWritten, FromDigests,
                   FromPublish, FromUnits, FromCrates, FromCache, FromIndex, FromStatus2,
                   FromTransport

(* A step between the reads and the second status keeps what was read.       *)
LEMMA ReadsStand ==
    ASSUME NEW m \in Mappers, HeadKept(m), ReadsClean(m), SettingsRead(m),
           UNCHANGED worldVars,
           mpc[m] \in BetweenStatuses \ {"load", "plan", "decide"},
           mpc'[m] \in BetweenStatuses \ {"load", "plan", "decide"},
           run'[m].wt = run[m].wt, run'[m].scope = run[m].scope, run'[m].head = run[m].head,
           run'[m].dirty0 = run[m].dirty0, run'[m].listed = run[m].listed,
           run'[m].planned = run[m].planned, run'[m].keys = run[m].keys,
           run'[m].configs = run[m].configs, run'[m].settings = run[m].settings
    PROVE  HeadKept(m)' /\ ReadsClean(m)' /\ SettingsRead(m)'
<1>1. HeadKept(m)'
  BY DEF HeadKept, GitHead, Root, worldVars
<1>2. mpc[m] # "load" /\ mpc'[m] # "load" /\ mpc[m] # "plan" /\ mpc'[m] # "plan"
        /\ mpc'[m] \notin FromDigests
  BY BetweenIs DEF FromDigests, FromPublish
<1>3. ReadsClean(m)'
  BY <1>2 DEF ReadsClean, SeenAs, OnDisk, CommittedTree, Root, worldVars
<1>4. SettingsRead(m)'
  BY DEF SettingsRead, SettingsOnDisk, OnDisk, Root, worldVars
<1> QED
  BY <1>1, <1>3, <1>4

-----------------------------------------------------------------------------
(* A run's reads.                                                            *)

(* HEAD is read first.                                                       *)
LEMMA ReadPriorTrue ==
    ASSUME Context, NEW m \in Mappers, ReadPrior(m)
    PROVE  RunTrue(m)'
<1> DEFINE mem == [run[m] EXCEPT !.prior = record, !.head = GitHead(Root(m))]
<1>1. run'[m] = mem /\ mpc'[m] = "status0" /\ UNCHANGED worldVars
  BY WholeTypes DEF ReadPrior, At, Goto, Context, Runs
<1>2. mem.head = GitHead(Root(m)) /\ mem.wt = run[m].wt
  BY RunFields DEF Runs, Context
<1> HIDE DEF mem
<1>3. HeadKept(m)'
  BY <1>1, <1>2 DEF HeadKept, GitHead, Root, worldVars
<1> QED
  BY <1>1, <1>3, BetweenIs
     DEF RunTrue, ReadsClean, SettingsRead, SettingsWritten, FromDigests,
         FromPublish, FromUnits, FromCrates, FromCache, FromIndex, FromStatus2, FromTransport

(* The first status: what it does not report is as committed, and nothing    *)
(* has been read yet.                                                        *)
LEMMA ReadStatus0True ==
    ASSUME Context, WholeInv, NEW m \in Mappers, RunTrue(m), ReadStatus0(m)
    PROVE  RunTrue(m)'
<1>1. PICK outcome \in StatusOutcomes(Root(m), run[m].scope) :
          run' = [run EXCEPT ![m].dirty0 = outcome]
  BY DEF ReadStatus0
<1> DEFINE mem == [run[m] EXCEPT !.dirty0 = outcome]
<1>2. run'[m] = mem /\ mpc'[m] = "load" /\ mpc[m] = "status0" /\ UNCHANGED worldVars
  BY <1>1, WholeTypes DEF ReadStatus0, At, Goto, Context, Runs
<1>3. mem.head = run[m].head /\ mem.wt = run[m].wt /\ mem.planned = run[m].planned
  BY RunFields DEF Runs, Context
<1> HIDE DEF mem
<1>4. HeadKept(m)'
  BY <1>2, <1>3 DEF RunTrue, HeadKept, GitHead, Root, worldVars
<1>5. run[m].planned = {}
  BY <1>2 DEF WholeInv, RunWhole, KeysRead
<1>6. ReadsClean(m)'
  BY <1>2, <1>3, <1>5 DEF ReadsClean, SeenAs, FromDigests, FromPublish
<1> QED
  BY <1>2, <1>4, <1>6, BetweenIs
     DEF RunTrue, SettingsRead, SettingsWritten,
         FromPublish, FromUnits, FromCrates, FromCache, FromIndex, FromStatus2, FromTransport,
         FromDigests

(* The walk lists what is there.                                             *)
LEMMA LoadTrue ==
    ASSUME Context, WholeInv, NEW m \in Mappers, RunTrue(m), Load(m)
    PROVE  RunTrue(m)'
<1> DEFINE listed == {f \in Sources \cap run[m].scope : OnDisk(m)[f] # Absent}
           entries == IF PriorMine(m) THEN manifest.entries ELSE NoManifest.entries
           reuse == OwnEntries(index, Root(m))
           mem == [run[m] EXCEPT !.listed = listed, !.entries = entries, !.reuse = reuse]
<1>1. run'[m] = mem /\ mpc'[m] = "plan" /\ mpc[m] = "load" /\ UNCHANGED worldVars
  BY WholeTypes DEF Load, At, Goto, Context, Runs
<1> HIDE DEF entries, reuse
<1>2. /\ mem.listed = listed /\ mem.wt = run[m].wt /\ mem.planned = run[m].planned
      /\ mem.scope = run[m].scope /\ mem.head = run[m].head /\ mem.dirty0 = run[m].dirty0
  BY RunFields DEF Runs, Context
<1> HIDE DEF mem
<1>3. HeadKept(m)'
  BY <1>1, <1>2, BetweenIs DEF RunTrue, HeadKept, GitHead, Root, worldVars
<1>4. run[m].planned = {}
  BY <1>1 DEF WholeInv, RunWhole, KeysRead
<1>5. OnDisk(m)' = OnDisk(m) /\ CommittedTree(Root(m))' = CommittedTree(Root(m))
  BY <1>1, <1>2 DEF OnDisk, Root, CommittedTree, worldVars
<1>6. ReadsClean(m)'
  BY <1>1, <1>2, <1>4, <1>5 DEF ReadsClean, SeenAs, FromDigests, FromPublish
<1>7. SettingsRead(m)'
  BY <1>1, <1>2, <1>4, <1>5, StoreAssumption DEF SettingsRead
<1> QED
  BY <1>1, <1>3, <1>6, <1>7
     DEF RunTrue, SettingsWritten,
         FromPublish, FromUnits, FromCrates, FromCache, FromIndex, FromStatus2, FromTransport,
         FromDigests

(* A file is read once; its key tells its bytes.                             *)
LEMMA PlanEntryTrue ==
    ASSUME Context, WholeInv, NEW m \in Mappers, RunTrue(m), NEW f \in Sources,
           PlanEntry(m, f)
    PROVE  RunTrue(m)'
<1> DEFINE bytes == OnDisk(m)[f]
           key == IF bytes = Absent THEN Unread ELSE bytes
           keys == [run[m].keys EXCEPT ![f] = key]
           fresh == IF f \in GraphSources /\ bytes # Absent /\ ~Reusable(m, f, bytes)
                    THEN run[m].fresh \cup {f} ELSE run[m].fresh
           planned == run[m].planned \cup {f}
           mem == [run[m] EXCEPT !.planned = planned, !.keys = keys, !.fresh = fresh]
<1>1. run'[m] = mem /\ mpc' = mpc /\ mpc[m] = "plan" /\ UNCHANGED worldVars
        /\ f \in run[m].listed \ run[m].planned
  BY WholeTypes DEF PlanEntry, At, Context, Runs
<1> HIDE DEF fresh
<1>2. /\ mem.listed = run[m].listed /\ mem.wt = run[m].wt /\ mem.planned = planned
      /\ mem.scope = run[m].scope /\ mem.head = run[m].head /\ mem.dirty0 = run[m].dirty0
      /\ mem.keys = keys
  BY RunFields DEF Runs, Context
<1>3. run[m].keys \in [Sources -> Keys]
  BY RunFields DEF Runs, Context
<1> HIDE DEF mem
<1>4. HeadKept(m)'
  BY <1>1, <1>2, BetweenIs DEF RunTrue, HeadKept, GitHead, Root, worldVars
<1>5. OnDisk(m)' = OnDisk(m) /\ CommittedTree(Root(m))' = CommittedTree(Root(m))
  BY <1>1, <1>2 DEF OnDisk, Root, CommittedTree, worldVars
<1>6. bytes \in Contents \cup {Absent}
  <2>1. Root(m) \in Worktrees /\ f \in Files
    BY <1>1, RunFields, StoreAssumption DEF Root, Context
  <2> QED
    BY <2>1 DEF OnDisk, Context, TypeInv, TypeOK, WorldTypeOK, Trees
<1>7. Contribution(keys[f]) = bytes
  BY <1>3, <1>6, StoreAssumption DEF Contribution
<1>8. \A g \in Sources : g # f => keys[g] = run[m].keys[g]
  BY <1>3
<1>9. /\ f \in Settings \cap run[m].scope => keys[f] = bytes
      /\ run[m].listed \subseteq Sources
  BY <1>1, <1>3, BetweenIs, RunFields DEF RunTrue, SettingsRead, Context, Runs
<1> HIDE DEF keys, bytes
<1>10. ReadsClean(m)'
  <2> SUFFICES ASSUME run[m].dirty0 # None, NEW g \in run[m].scope \ run[m].dirty0,
                      OnDisk(m)[g] = CommittedTree(Root(m))[g]
               PROVE  SeenAs(m, g, OnDisk(m)[g])'
    BY <1>1, <1>2, <1>5 DEF ReadsClean, FromDigests, FromPublish
  <2>1. SeenAs(m, g, OnDisk(m)[g])
    BY <1>1, BetweenIs DEF RunTrue, ReadsClean
  <2>2. run[m].planned \subseteq Sources
    BY RunFields DEF Context, Runs
  <2>3. g \in planned => Contribution(keys[g]) = OnDisk(m)[g]
    BY <1>7, <1>8, <2>1, <2>2 DEF SeenAs, bytes
  <2> QED
    BY <1>1, <1>2, <1>5, <2>1, <2>3 DEF SeenAs
<1>11. SettingsRead(m)'
  BY <1>1, <1>2, <1>5, <1>8, <1>9, BetweenIs, StoreAssumption DEF RunTrue, SettingsRead, bytes
<1> QED
  BY <1>1, <1>4, <1>10, <1>11
     DEF RunTrue, SettingsWritten,
         FromPublish, FromUnits, FromCrates, FromCache, FromIndex, FromStatus2, FromTransport,
         FromDigests

(* The configuration files are read once as well.                            *)
LEMMA DiscoverTrue ==
    ASSUME Context, NEW m \in Mappers, RunTrue(m), Discover(m)
    PROVE  RunTrue(m)'
<1>1. PICK l \in Lanes : run' = [run EXCEPT
           ![m].configs = [c \in Configs |->
               IF c \in run[m].scope THEN OnDisk(m)[c] ELSE Absent],
           ![m].lane = l]
  BY DEF Discover
<1> DEFINE configs == [c \in Configs |-> IF c \in run[m].scope THEN OnDisk(m)[c] ELSE Absent]
           mem == [run[m] EXCEPT !.configs = configs, !.lane = l]
<1>2. run'[m] = mem /\ mpc'[m] = "decide" /\ mpc[m] = "plan" /\ UNCHANGED worldVars
  BY <1>1, WholeTypes DEF Discover, At, Goto, Context, Runs
<1> HIDE DEF configs
<1>3. /\ mem.listed = run[m].listed /\ mem.wt = run[m].wt /\ mem.planned = run[m].planned
      /\ mem.scope = run[m].scope /\ mem.head = run[m].head /\ mem.dirty0 = run[m].dirty0
      /\ mem.keys = run[m].keys /\ mem.configs = configs
  BY RunFields DEF Runs, Context
<1> HIDE DEF mem
<1>4. HeadKept(m)'
  BY <1>2, <1>3, BetweenIs DEF RunTrue, HeadKept, GitHead, Root, worldVars
<1>5. OnDisk(m)' = OnDisk(m) /\ CommittedTree(Root(m))' = CommittedTree(Root(m))
  BY <1>2, <1>3 DEF OnDisk, Root, CommittedTree, worldVars
<1>6. ReadsClean(m)'
  BY <1>2, <1>3, <1>5, BetweenIs
     DEF RunTrue, ReadsClean, SeenAs, FromDigests, FromPublish, configs
<1>7. SettingsRead(m)'
  BY <1>2, <1>3, <1>5, BetweenIs DEF RunTrue, SettingsRead
<1> QED
  BY <1>2, <1>4, <1>6, <1>7
     DEF RunTrue, SettingsWritten,
         FromPublish, FromUnits, FromCrates, FromCache, FromIndex, FromStatus2, FromTransport,
         FromDigests

(* A run that sees nothing changed has looked at the settings a second time  *)
(* and found those of the sidecar, if there is one.                          *)
LEMMA DecideTrue ==
    ASSUME Context, WholeInv, DiskTrue, NEW m \in Mappers, RunTrue(m), Decide(m)
    PROVE  RunTrue(m)'
<1> DEFINE changed == \/ ~GraphTrusted(m)
                      \/ IndexIsStale(m)
                      \/ ModelsDiffer(m)
                      \/ TransportDiffers(SettingsOnDisk(m))
                      \/ run[m].lane # None
           mem == [run[m] EXCEPT !.settings = SettingsOnDisk(m), !.changed = changed]
<1>1. /\ run'[m] = mem /\ mpc'[m] = "mark" /\ mpc[m] = "decide"
      /\ UNCHANGED <<worldVars, graph, transport>>
  BY WholeTypes DEF Decide, At, Goto, Context, Runs, storeVars, sidecarVars
<1>2. ~changed => TransportTells /\ transport \in {None, SettingsOnDisk(m)}
  <2> SUFFICES ASSUME ~changed
               PROVE  TransportTells /\ transport \in {None, SettingsOnDisk(m)}
    OBVIOUS
  <2>1. PriorMine(m)
    BY DEF GraphTrusted
  <2>2. IsPublished(record)
    BY <1>1, <2>1 DEF PriorMine, WholeInv, RunWhole, PriorStands, Context, Undisturbed
  <2> QED
    BY <2>2 DEF DiskTrue, TransportDiffers
<1> HIDE DEF changed
<1>3. /\ mem.listed = run[m].listed /\ mem.wt = run[m].wt /\ mem.planned = run[m].planned
      /\ mem.scope = run[m].scope /\ mem.head = run[m].head /\ mem.dirty0 = run[m].dirty0
      /\ mem.keys = run[m].keys /\ mem.configs = run[m].configs
      /\ mem.settings = SettingsOnDisk(m) /\ mem.changed = changed
  BY RunFields DEF Runs, Context
<1> HIDE DEF mem
<1>4. HeadKept(m)'
  BY <1>1, <1>3, BetweenIs DEF RunTrue, HeadKept, GitHead, Root, worldVars
<1>5. OnDisk(m)' = OnDisk(m) /\ CommittedTree(Root(m))' = CommittedTree(Root(m))
  BY <1>1, <1>3 DEF OnDisk, Root, CommittedTree, worldVars
<1>6. ReadsClean(m)'
  BY <1>1, <1>3, <1>5, BetweenIs DEF RunTrue, ReadsClean, SeenAs, FromDigests, FromPublish
<1>7. SettingsOnDisk(m)' = SettingsOnDisk(m)
  BY <1>1, <1>3, <1>5 DEF SettingsOnDisk
<1>8. SettingsRead(m)'
  BY <1>1, <1>3, <1>5, <1>7, BetweenIs DEF RunTrue, SettingsRead
<1>9. SettingsWritten(m)'
  BY <1>1, <1>2, <1>3
     DEF SettingsWritten, TransportTells,
         FromPublish, FromUnits, FromCrates, FromCache, FromIndex, FromStatus2, FromTransport,
         FromDigests
<1> QED
  BY <1>4, <1>6, <1>8, <1>9 DEF RunTrue

-----------------------------------------------------------------------------
(* A run's writes.                                                           *)

(* The marker and the manifest leave graph and settings alone.               *)
LEMMA MarkTrue ==
    ASSUME Context, NEW m \in Mappers, RunTrue(m), Mark(m) \/ WriteManifest(m)
    PROVE  RunTrue(m)'
<1>1. /\ run' = run /\ UNCHANGED <<worldVars, graph, transport>>
      /\ mpc[m] \in {"mark", "manifest"} /\ mpc'[m] \in {"manifest", "rebuild"}
  BY WholeTypes DEF Mark, WriteManifest, At, Goto, Context, sidecarVars
<1>2. HeadKept(m)' /\ ReadsClean(m)' /\ SettingsRead(m)'
  BY <1>1, ReadsStand, BetweenIs DEF RunTrue
<1>3. SettingsWritten(m)'
  BY <1>1
     DEF RunTrue, SettingsWritten, TransportTells,
         FromPublish, FromUnits, FromCrates, FromCache, FromIndex, FromStatus2, FromTransport,
         FromDigests
<1> QED
  BY <1>2, <1>3 DEF RunTrue

(* Between the statuses the settings a run keyed are those it looks at when  *)
(* it resolves.                                                              *)
LEMMA SettingsAreKeyed ==
    ASSUME Context, WholeInv, NEW m \in Mappers, RunTrue(m),
           mpc[m] \in {"rebuild", "transport"}
    PROVE  /\ run[m].settings = SettingsOnDisk(m)
           /\ \A s \in Settings : SettingsOnDisk(m)[s] = Contribution(run[m].keys[s])
<1>1. mpc[m] \in BetweenStatuses \ {"load", "plan", "decide"}
  BY BetweenIs
<1>2. run[m].planned = run[m].listed /\ run[m].listed \subseteq run[m].scope
  BY DEF WholeInv, RunWhole, KeysRead, FromMark, FromRebuild, FromTransport
<1>3. run[m].settings = SettingsOnDisk(m)
  BY <1>1 DEF RunTrue, SettingsRead
<1>4. ASSUME NEW s \in Settings
      PROVE  SettingsOnDisk(m)[s] = Contribution(run[m].keys[s])
  <2>1. s \in Sources
    BY StoreAssumption
  <2>2. CASE s \in run[m].listed
    <3>1. run[m].keys[s] = OnDisk(m)[s] /\ run[m].keys[s] \in Contents \cup {Unread}
      BY <1>1, <1>2, <2>1, <2>2 DEF RunTrue, SettingsRead, WholeInv, RunWhole, KeysRead
    <3>2. OnDisk(m)[s] \in Contents \cup {Absent}
      <4>1. Root(m) \in Worktrees /\ s \in Files
        BY <1>1, <2>1, RunFields, StoreAssumption, BetweenIs DEF Root, Context
      <4> QED
        BY <4>1 DEF OnDisk, Context, TypeInv, TypeOK, WorldTypeOK, Trees
    <3> QED
      BY <2>2, <3>1, <3>2, StoreAssumption, WorkTreeAssumption DEF SettingsOnDisk, Contribution
  <2>3. CASE s \notin run[m].listed
    BY <1>2, <2>1, <2>3 DEF WholeInv, RunWhole, KeysRead, SettingsOnDisk, Contribution
  <2> QED
    BY <2>2, <2>3
<1> QED
  BY <1>3, <1>4

(* A graph that stands was resolved from the settings there still are.       *)
LEMMA KeepGraphTrue ==
    ASSUME Context, WholeInv, NEW m \in Mappers, RunTrue(m), KeepGraph(m)
    PROVE  RunTrue(m)'
<1>1. /\ run' = run /\ UNCHANGED <<worldVars, graph, transport>>
      /\ mpc[m] = "rebuild" /\ mpc'[m] = "status2" /\ ~run[m].changed /\ graph.id # 0
  BY WholeTypes DEF KeepGraph, At, Goto, Context, storeVars, sidecarVars
<1>2. HeadKept(m)' /\ ReadsClean(m)' /\ SettingsRead(m)'
  BY <1>1, ReadsStand, BetweenIs DEF RunTrue
<1>3. TransportTells /\ transport \in {None, run[m].settings}
  BY <1>1 DEF RunTrue, SettingsWritten
<1>4. SettingsMine(m)
  BY <1>1, <1>3, SettingsAreKeyed DEF TransportTells, SettingsMine
<1>5. TransportTells' /\ SettingsMine(m)'
  BY <1>1, <1>3, <1>4 DEF TransportTells, SettingsMine
<1> QED
  BY <1>1, <1>2, <1>5 DEF RunTrue, SettingsWritten

(* A graph that is written is resolved from them, when a fragment asks.      *)
LEMMA WriteGraphTrue ==
    ASSUME Context, WholeInv, NEW m \in Mappers, RunTrue(m), WriteGraph(m)
    PROVE  RunTrue(m)'
<1> DEFINE frags == Fragments(m)
           mem == [run[m] EXCEPT !.frags = frags]
<1>1. /\ run'[m] = mem /\ mpc'[m] = "transport" /\ mpc[m] = "rebuild"
      /\ UNCHANGED worldVars
      /\ graph'.inputs = ResolvedInputs(m) /\ graph'.id = graph.id + 1
  BY WholeTypes DEF WriteGraph, At, Goto, Context, Runs
<1>2. HasSite(frags) <=> AnySite(m)
  BY DEF HasSite, AnySite, Fragments
<1>3. ASSUME NEW s \in Settings
      PROVE  ResolvedInputs(m)[s] = IF HasSite(frags) THEN SettingsOnDisk(m)[s] ELSE None
  <2>1. s \in Files /\ s \notin GraphSources /\ s \notin Configs
    BY StoreAssumption
  <2>2. ResolvedInputs(m)[s] = IF AnySite(m) THEN SettingsOnDisk(m)[s] ELSE None
    BY <2>1, StoreAssumption DEF ResolvedInputs
  <2> HIDE DEF frags
  <2> QED
    BY <1>2, <2>2
<1> HIDE DEF frags
<1>4. /\ mem.listed = run[m].listed /\ mem.wt = run[m].wt /\ mem.planned = run[m].planned
      /\ mem.scope = run[m].scope /\ mem.head = run[m].head /\ mem.dirty0 = run[m].dirty0
      /\ mem.keys = run[m].keys /\ mem.configs = run[m].configs
      /\ mem.settings = run[m].settings /\ mem.frags = frags
  BY RunFields DEF Runs, Context
<1> HIDE DEF mem
<1>5. HeadKept(m)' /\ ReadsClean(m)' /\ SettingsRead(m)'
  BY <1>1, <1>4, ReadsStand, BetweenIs DEF RunTrue
<1>6. /\ run[m].settings = SettingsOnDisk(m)
      /\ \A s \in Settings : SettingsOnDisk(m)[s] = Contribution(run[m].keys[s])
  BY <1>1, SettingsAreKeyed
<1>7. \A s \in Settings :
         graph'.inputs[s] = IF HasSite(run'[m].frags) THEN run'[m].settings[s] ELSE None
  BY <1>1, <1>3, <1>4, <1>6
<1>8. SettingsMine(m)'
  BY <1>1, <1>3, <1>4, <1>6 DEF SettingsMine
<1>9. graph'.id # 0
  BY <1>1, VersionTypes DEF Context
<1> QED
  BY <1>1, <1>5, <1>7, <1>8, <1>9
     DEF RunTrue, SettingsWritten,
         FromPublish, FromUnits, FromCrates, FromCache, FromIndex, FromStatus2, FromTransport,
         FromDigests

(* The sidecar keeps them.                                                   *)
LEMMA WriteTransportTrue ==
    ASSUME Context, NEW m \in Mappers, RunTrue(m), WriteTransport(m)
    PROVE  RunTrue(m)'
<1>1. /\ run' = run /\ UNCHANGED <<worldVars, graph>>
      /\ mpc[m] = "transport" /\ mpc'[m] = "units"
      /\ transport' = IF HasSite(run[m].frags) THEN run[m].settings ELSE None
  BY WholeTypes DEF WriteTransport, At, Goto, Context
<1>2. HeadKept(m)' /\ ReadsClean(m)' /\ SettingsRead(m)'
  BY <1>1, ReadsStand, BetweenIs DEF RunTrue
<1>3. /\ \A s \in Settings :
            graph.inputs[s] = IF HasSite(run[m].frags) THEN run[m].settings[s] ELSE None
      /\ SettingsMine(m) /\ graph.id # 0
  BY <1>1 DEF RunTrue, SettingsWritten, FromTransport
<1>4. run[m].settings # None
  <2>1. run[m].settings = SettingsOnDisk(m) /\ Root(m) \in Worktrees
    BY <1>1, BetweenIs, RunFields DEF RunTrue, SettingsRead, Root, Context
  <2>2. tree[Root(m)] \in Trees
    BY <2>1 DEF Context, TypeInv, TypeOK, WorldTypeOK
  <2>3. SettingsOnDisk(m) \in [Settings -> Contents \cup {Absent}]
    BY <2>2, StoreAssumption DEF SettingsOnDisk, OnDisk, Trees
  <2> QED
    BY <2>1, <2>3, StoreAssumption
<1>5. TransportTells'
  BY <1>1, <1>3, <1>4 DEF TransportTells
<1>6. SettingsMine(m)'
  BY <1>1, <1>3 DEF SettingsMine
<1> QED
  BY <1>1, <1>2, <1>3, <1>5, <1>6 DEF RunTrue, SettingsWritten

(* The model sidecars and the fragments leave graph and settings alone.      *)
LEMMA WriteFragmentsTrue ==
    ASSUME Context, NEW m \in Mappers, RunTrue(m),
           WriteUnits(m) \/ WriteCrates(m) \/ WriteCache(m) \/ WriteIndex(m)
    PROVE  RunTrue(m)'
<1>1. /\ run' = run /\ UNCHANGED <<worldVars, graph, transport>>
      /\ mpc[m] \in {"units", "crates", "cache", "index"}
      /\ mpc'[m] \in {"crates", "cache", "index", "status2"}
  BY WholeTypes DEF WriteUnits, WriteCrates, WriteCache, WriteIndex, At, Goto, Context,
                    sidecarVars
<1>2. HeadKept(m)' /\ ReadsClean(m)' /\ SettingsRead(m)'
  BY <1>1, ReadsStand, BetweenIs DEF RunTrue
<1>3. SettingsWritten(m)'
  BY <1>1
     DEF RunTrue, SettingsWritten, TransportTells, SettingsMine,
         FromPublish, FromUnits, FromCrates, FromCache, FromIndex, FromStatus2, FromTransport,
         FromDigests
<1> QED
  BY <1>2, <1>3 DEF RunTrue

(* The second status: what neither has reported was read as it is committed. *)
LEMMA ReadStatus2True ==
    ASSUME Context, WholeInv, NEW m \in Mappers, RunTrue(m), ReadStatus2(m)
    PROVE  RunTrue(m)'
<1>1. PICK outcome \in StatusOutcomes(Root(m), run[m].scope) :
          run' = [run EXCEPT ![m].dirty2 = outcome]
  BY DEF ReadStatus2
<1> DEFINE mem == [run[m] EXCEPT !.dirty2 = outcome]
<1>2. /\ run'[m] = mem /\ mpc'[m] = "digests" /\ mpc[m] = "status2"
      /\ UNCHANGED <<worldVars, graph, transport>>
  BY <1>1, WholeTypes DEF ReadStatus2, At, Goto, Context, Undisturbed, storeVars, sidecarVars,
     Runs
<1>3. /\ mem.listed = run[m].listed /\ mem.wt = run[m].wt /\ mem.planned = run[m].planned
      /\ mem.scope = run[m].scope /\ mem.head = run[m].head /\ mem.dirty0 = run[m].dirty0
      /\ mem.keys = run[m].keys /\ mem.configs = run[m].configs
      /\ mem.settings = run[m].settings /\ mem.frags = run[m].frags /\ mem.dirty2 = outcome
  BY RunFields DEF Runs, Context
<1> HIDE DEF mem
<1>4. outcome \in {GitStatus(Root(m), run[m].scope), None}
  BY DEF StatusOutcomes, Relevant
<1>5. run[m].head = GitHead(Root(m)) /\ Root(m) \in Worktrees
        /\ run[m].planned = run[m].listed
  BY <1>2, BetweenIs, RunFields
     DEF RunTrue, HeadKept, Root, Context, WholeInv, RunWhole, KeysRead, FromMark,
         FromRebuild, FromTransport, FromUnits, FromCrates, FromCache, FromIndex, FromStatus2
<1>6. HeadKept(m)' /\ SettingsRead(m)'
  BY <1>2, BetweenIs DEF HeadKept, SettingsRead
<1>7. ReadsClean(m)'
  <2> SUFFICES ASSUME run[m].dirty0 # None, outcome # None, run[m].head # None
               PROVE  /\ run[m].head \in 1 .. Len(commits)
                      /\ \A f \in run[m].scope \ (run[m].dirty0 \cup outcome) :
                            ReadAs(m, f, commits[run[m].head][f])
    BY <1>2, <1>3, BetweenIs DEF ReadsClean, DirtyAtMap, ReadAs, worldVars
  <2>1. head[Root(m)] \in 0 .. Len(commits) /\ Len(commits) \in Nat
    BY <1>5 DEF Context, TypeInv, TypeOK, WorldTypeOK
  <2>2. run[m].head = head[Root(m)] /\ head[Root(m)] # 0
    BY <1>5 DEF GitHead
  <2>3. ASSUME NEW f \in run[m].scope \ (run[m].dirty0 \cup outcome)
        PROVE  ReadAs(m, f, commits[run[m].head][f])
    <3>1. CommittedTree(Root(m)) = commits[run[m].head]
      BY <2>2 DEF CommittedTree
    <3>2. OnDisk(m)[f] = CommittedTree(Root(m))[f]
      BY <1>4, <2>3 DEF GitStatus, OnDisk
    <3>3. SeenAs(m, f, OnDisk(m)[f])
      BY <1>2, <2>3, <3>2, BetweenIs DEF RunTrue, ReadsClean
    <3>4. f \in Sources /\ f \notin run[m].listed => run[m].keys[f] = None
      BY <1>5 DEF WholeInv, RunWhole, KeysRead
    <3> QED
      BY <1>2, <1>5, <3>1, <3>2, <3>3, <3>4 DEF SeenAs, ReadAs, Contribution
  <2> QED
    BY <2>1, <2>2, <2>3
<1>8. SettingsWritten(m)'
  BY <1>2, <1>3
     DEF RunTrue, SettingsWritten, TransportTells, SettingsMine,
         FromPublish, FromUnits, FromCrates, FromCache, FromIndex, FromStatus2, FromTransport,
         FromDigests
<1> QED
  BY <1>6, <1>7, <1>8 DEF RunTrue

(* After that the run's memory speaks for itself.                            *)
LEMMA PublishTrue ==
    ASSUME Context, NEW m \in Mappers, RunTrue(m), WriteDigests(m) \/ Publish(m)
    PROVE  RunTrue(m)'
<1>1. /\ run' = run /\ UNCHANGED <<worldVars, graph, transport>>
      /\ mpc[m] \in FromDigests /\ mpc'[m] \in {"publish", "finish"}
  BY WholeTypes DEF WriteDigests, Publish, At, Goto, Context, sidecarVars, FromDigests,
                    FromPublish
<1>2. HeadKept(m)' /\ SettingsRead(m)'
  BY <1>1, BetweenIs DEF HeadKept, SettingsRead
<1>3. ReadsClean(m)'
  BY <1>1, BetweenIs DEF RunTrue, ReadsClean, ReadAs, DirtyAtMap, worldVars
<1>4. SettingsWritten(m)'
  BY <1>1
     DEF RunTrue, SettingsWritten, TransportTells, SettingsMine,
         FromPublish, FromUnits, FromCrates, FromCache, FromIndex, FromStatus2, FromTransport,
         FromDigests
<1> QED
  BY <1>2, <1>3, <1>4 DEF RunTrue

(* A map's step, and the runs that wait meanwhile.                           *)
LEMMA RunsStayTrue ==
    ASSUME Core, DiskTrue, \A n \in Mappers : RunTrue(n), NEW m \in Mappers, MapActs(m),
           LockInv'
    PROVE  \A n \in Mappers : RunTrue(n)'
<1>1. Context /\ WholeInv /\ LockInv /\ TypeInv /\ Locking
  BY DEF Core, Context, Undisturbed
<1>2. RunTrue(m)'
  <2>1. CASE \/ Acquire(m) \/ Finish(m) \/ Crash(m)
             \/ \E w \in Worktrees, s \in Scopes : Start(m, w, s)
    <3>1. mpc'[m] \in {"idle", "lock", "prior"}
      BY <1>1, <2>1, WholeTypes DEF Acquire, Finish, Crash, Start, Goto
    <3> QED
      BY <3>1, EarlyRunIsTrue
  <2>2. CASE ReadPrior(m) \/ ReadStatus0(m) \/ Load(m)
    BY <1>1, <2>2, ReadPriorTrue, ReadStatus0True, LoadTrue
  <2>3. CASE (\E f \in Sources : PlanEntry(m, f)) \/ Discover(m) \/ Decide(m)
    BY <1>1, <2>3, PlanEntryTrue, DiscoverTrue, DecideTrue
  <2>4. CASE Mark(m) \/ WriteManifest(m) \/ KeepGraph(m) \/ WriteGraph(m) \/ WriteTransport(m)
    BY <1>1, <2>4, MarkTrue, KeepGraphTrue, WriteGraphTrue, WriteTransportTrue
  <2>5. CASE \/ WriteUnits(m) \/ WriteCrates(m) \/ WriteCache(m) \/ WriteIndex(m)
             \/ ReadStatus2(m) \/ WriteDigests(m) \/ Publish(m)
    BY <1>1, <2>5, WriteFragmentsTrue, ReadStatus2True, PublishTrue
  <2> QED
    BY <2>1, <2>2, <2>3, <2>4, <2>5 DEF MapActs, MapStep
<1>3. ASSUME NEW n \in Mappers, n # m
      PROVE  RunTrue(n)'
  <2>1. CASE mpc[m] \in LockedSteps
    <3>1. mpc[n] \notin LockedSteps /\ mpc'[n] = mpc[n] /\ mpc[n] \in MapSteps
      BY <1>1, <1>3, <2>1, OthersWait, OthersStand, WholeTypes
    <3>2. mpc'[n] \in {"idle", "lock", "prior"}
      BY <3>1 DEF MapSteps
    <3> QED
      BY <3>2, EarlyRunIsTrue
  <2>2. CASE mpc[m] \notin LockedSteps
    <3>1. UNCHANGED <<worldVars, storeVars>> /\ mpc'[n] = mpc[n] /\ run'[n] = run[n]
      <4>1. \/ Acquire(m) \/ Crash(m) \/ \E w \in Worktrees, s \in Scopes : Start(m, w, s)
        BY <2>2, LockedStepsFacts
           DEF MapActs, MapStep, ReadPrior, ReadStatus0, Load, PlanEntry, Discover, Decide,
               Mark, WriteManifest, KeepGraph, WriteGraph, WriteTransport, WriteUnits,
               WriteCrates, WriteCache, WriteIndex, ReadStatus2, WriteDigests, Publish,
               Finish, At, LockedSteps, MarkedSteps
      <4> QED
        BY <1>1, <1>3, <4>1, OthersStand DEF Acquire, Crash, Start
    <3> QED
      BY <3>1, RunStands DEF storeVars, sidecarVars
  <2> QED
    BY <2>1, <2>2
<1> QED
  BY <1>2, <1>3

-----------------------------------------------------------------------------
(* The index on disk.                                                        *)

(* A map reads the checkouts and writes none of them.                        *)
LEMMA MapsLeaveTheWorld ==
    ASSUME NEW m \in Mappers, MapActs(m)
    PROVE  UNCHANGED worldVars
  BY DEF MapActs, MapStep, Acquire, ReadPrior, ReadStatus0, Load, PlanEntry, Discover, Decide,
         Mark, WriteManifest, KeepGraph, WriteGraph, WriteTransport, WriteUnits, WriteCrates,
         WriteCache, WriteIndex, ReadStatus2, WriteDigests, Publish, Finish, Crash, Start

(* A graph holds nothing of the files no reader of the source opens.         *)
LEMMA OthersStayUnread ==
    ASSUME Context, ResolverInputs = {}, OthersUnread, NEW m \in Mappers, MapActs(m)
    PROVE  OthersUnread'
<1>1. graph' = graph \/ graph'.inputs = ResolvedInputs(m)
  <2>1. CASE WriteGraph(m)
    BY <2>1 DEF WriteGraph
  <2>2. CASE ~WriteGraph(m)
    BY <2>2
       DEF MapActs, MapStep, Acquire, ReadPrior, ReadStatus0, Load, PlanEntry, Discover,
           Decide, Mark, WriteManifest, KeepGraph, WriteTransport, WriteUnits, WriteCrates,
           WriteCache, WriteIndex, ReadStatus2, WriteDigests, Publish, Finish, Crash, Start,
           storeVars
  <2> QED
    BY <2>1, <2>2
<1>2. ASSUME NEW f \in Sources \ (GraphSources \cup Settings)
      PROVE  ResolvedInputs(m)[f] = None
  <2>1. f \in Files /\ f \notin Configs /\ f \notin ResolverInputs
    BY <1>2, StoreAssumption
  <2> QED
    BY <1>2, <2>1 DEF ResolvedInputs
<1> QED
  BY <1>1, <1>2 DEF OthersUnread

(* A record says of the graph it names what that graph was made of.          *)
LEMMA CertificateIsTrue ==
    ASSUME Context, WholeInv, OthersUnread, NEW m \in Mappers, RunTrue(m), Publish(m),
           IsPublished(record')
    PROVE  Truthful(record', graph) /\ SettingsAgree(digests, graph)
<1>1. mpc[m] = "publish" /\ record' = Certificate(m)
        /\ run[m].dirty0 # None /\ run[m].dirty2 # None
  BY DEF Publish, At, Certificate, IsPublished, Uncertifiable
<1>2. PICK r : r = record'
  OBVIOUS
<1>3. /\ r.head = run[m].head /\ r.scope = run[m].scope /\ r.dirty = DirtyAtMap(m)
      /\ r.configs = [c \in Configs |->
              IF run[m].configs[c] = Absent THEN None ELSE run[m].configs[c]]
  BY <1>1, <1>2 DEF Certificate
<1>4. GraphMine(m) /\ DigestsMine(m)
  BY <1>1 DEF WholeInv, RunWhole, Writes, FromPublish, FromTransport, FromUnits, FromCrates,
     FromCache, FromIndex, FromStatus2, FromDigests
<1>5. SettingsMine(m) /\ graph.id # 0
  BY <1>1 DEF RunTrue, SettingsWritten, FromPublish, FromTransport, FromUnits, FromCrates,
     FromCache, FromIndex, FromStatus2, FromDigests
<1>6. \A f \in Sources \ (GraphSources \cup Settings) : graph.inputs[f] = None
  BY <1>5 DEF OthersUnread
<1>7. ASSUME NEW c \in Configs
      PROVE  graph.inputs[c] = IF r.configs[c] = None THEN Absent ELSE r.configs[c]
  <2>1. run[m].configs[c] \in Contents \cup {Absent}
    BY RunFields DEF Context, Runs, Bytes
  <2> QED
    BY <1>3, <1>4, <2>1, StoreAssumption DEF GraphMine
<1>8. ASSUME r.head # None
      PROVE  /\ r.head \in 1 .. Len(commits)
             /\ \A f \in r.scope \ r.dirty : graph.inputs[f] \in {commits[r.head][f], None}
  <2>1. /\ run[m].head \in 1 .. Len(commits)
        /\ \A f \in run[m].scope \ DirtyAtMap(m) : ReadAs(m, f, commits[run[m].head][f])
    BY <1>1, <1>3, <1>8 DEF RunTrue, ReadsClean, FromDigests, FromPublish
  <2>2. ASSUME NEW f \in r.scope \ r.dirty
        PROVE  graph.inputs[f] \in {commits[r.head][f], None}
    <3>1. ReadAs(m, f, commits[r.head][f])
      BY <1>3, <2>1
    <3>2. f \in Sources \/ f \in Configs
      BY <1>1, <1>3, RunFields, StoreAssumption DEF Context
    <3>3. CASE f \in Configs
      BY <1>4, <3>1, <3>3 DEF ReadAs, GraphMine
    <3>4. CASE f \in GraphSources
      BY <1>4, <3>1, <3>4, StoreAssumption DEF ReadAs, GraphMine
    <3>5. CASE f \in Settings
      BY <1>5, <3>1, <3>5, StoreAssumption DEF ReadAs, SettingsMine
    <3> QED
      BY <1>6, <3>2, <3>3, <3>4, <3>5
  <2> QED
    BY <1>3, <2>1, <2>2
<1>9. SettingsAgree(digests, graph)
  <2> SUFFICES ASSUME NEW s \in Settings
               PROVE  graph.inputs[s] \in {None, IF digests.files[s] = None THEN Absent
                                                 ELSE digests.files[s]}
    BY DEF SettingsAgree
  <2>1. digests.files[s] = Kept(run[m].keys[s])
    BY <1>4, StoreAssumption DEF DigestsMine
  <2>2. graph.inputs[s] \in {None, Contribution(run[m].keys[s])}
    BY <1>5 DEF SettingsMine
  <2> QED
    BY <2>1, <2>2, StoreAssumption DEF Kept, Contribution
<1> QED
  BY <1>2, <1>6, <1>7, <1>8, <1>9 DEF Truthful

(* A map's step keeps the disk true.                                         *)
LEMMA MapKeepsDiskTrue ==
    ASSUME Core, ResolverInputs = {}, DiskTrue, NEW m \in Mappers, RunTrue(m), MapActs(m)
    PROVE  DiskTrue'
<1>1. OthersUnread'
  BY OthersStayUnread DEF Core, DiskTrue
<1>2. UNCHANGED worldVars
  BY MapsLeaveTheWorld
<1>3. CASE ~IsPublished(record')
  BY <1>1, <1>3 DEF DiskTrue, VouchesFor
<1>4. CASE IsPublished(record') /\ IsPublished(record)
  <2>1. record' = record /\ UNCHANGED <<digests, graph, transport>>
    BY <1>4, CertifiedStands
  <2> QED
    BY <1>1, <1>2, <1>4, <2>1
       DEF DiskTrue, VouchesFor, Truthful, SettingsAgree, TransportTells, worldVars
<1>5. CASE IsPublished(record') /\ ~IsPublished(record)
  <2>1. Publish(m)
    BY <1>5, StoreStep DEF Core
  <2>2. UNCHANGED <<digests, graph, transport>> /\ mpc[m] = "publish"
    BY <2>1 DEF Publish, At, sidecarVars
  <2>3. Truthful(record', graph) /\ SettingsAgree(digests, graph)
    BY <1>5, <2>1, CertificateIsTrue DEF Core, DiskTrue
  <2>4. TransportTells
    BY <2>2 DEF RunTrue, SettingsWritten, FromPublish, FromUnits, FromCrates,
       FromCache, FromIndex, FromStatus2, FromDigests
  <2>5. TransportTells'
    BY <2>2, <2>4 DEF TransportTells
  <2>6. Truthful(record, graph)' /\ SettingsAgree(digests, graph)'
    BY <1>2, <2>2, <2>3 DEF Truthful, SettingsAgree, worldVars
  <2> QED
    BY <1>1, <2>5, <2>6 DEF DiskTrue, VouchesFor
<1> QED
  BY <1>3, <1>4, <1>5

-----------------------------------------------------------------------------
(* The queries while a map moves.                                            *)

(* What a record still on its files vouches for, it goes on vouching for:    *)
(* another run's digests bear another number.                                *)
LEMMA VouchesMapStep ==
    ASSUME Core, NEW r \in Records, Backs(r), NEW g, VouchesFor(r, g),
           NEW m \in Mappers, MapActs(m)
    PROVE  VouchesFor(r, g)'
<1> SUFFICES ASSUME IsPublished(r), g.id = r.graphId
             PROVE  Truthful(r, g)' /\ (digests'.gen = r.gen => SettingsAgree(digests', g))
  BY DEF VouchesFor, SettingsAgree
<1>1. digests' = digests \/ digests'.gen # r.gen
  <2>1. mpc[m] = "digests" => run[m].gen = gens /\ r.gen < gens
    BY LockedStepsFacts DEF Core, LatestRun, MarkedSteps, Backs
  <2>2. r.gen \in Nat /\ gens \in Nat
    BY CertificateTypes DEF Core, Context, TypeInv, TypeOK, MapTypeOK
  <2> QED
    BY <2>1, <2>2, StoreStep DEF Core
<1>2. Truthful(r, g)'
  BY MapsLeaveTheWorld DEF VouchesFor, Truthful, worldVars
<1> QED
  BY <1>1, <1>2 DEF VouchesFor

(* A map's step moves nothing a query has judged.                            *)
LEMMA QueryMapStep ==
    ASSUME Core, NEW q \in Queriers, Backed(q), QueryTrue(q), NEW m \in Mappers, MapActs(m)
    PROVE  QueryTrue(q)'
<1>1. ask' = ask /\ qpc' = qpc /\ UNCHANGED worldVars
  BY MapsLeaveTheWorld DEF MapActs, queryVars
<1>2. PICK r : r = ask[q].snapshot
  OBVIOUS
<1>3. PICK g : g = ask[q].graph
  OBVIOUS
<1>4. PICK here : here = graph
  OBVIOUS
<1>5. r \in Records
  BY <1>2 DEF Core, Context, TypeInv, TypeOK, QueryTypeOK, Asks
<1>6. ASSUME IsPublished(r), NEW h, VouchesFor(r, h)
      PROVE  VouchesFor(r, h)'
  BY <1>2, <1>5, <1>6, VouchesMapStep DEF Backed
<1>7. ~IsPublished(r) => \A h : VouchesFor(r, h)'
  BY DEF VouchesFor
<1>8. qpc'[q] # "answered" => VouchesFor(r, graph)'
  <2> SUFFICES ASSUME qpc[q] # "answered", IsPublished(r)
               PROVE  VouchesFor(r, graph)'
    BY <1>1, <1>7
  <2>1. CASE graph' = graph
    <3>1. VouchesFor(r, here)'
      BY <1>2, <1>4, <1>6 DEF QueryTrue
    <3> QED
      BY <1>4, <2>1, <3>1 DEF VouchesFor
  <2>2. CASE graph' # graph
    <3>1. graph'.id = graph.id + 1 /\ r.graphId <= graph.id
      BY <1>2, <2>2, StoreStep DEF Core, Backed, Backs
    <3>2. r.graphId \in Nat /\ graph.id \in Nat
      BY <1>5, CertificateTypes, VersionTypes DEF Core, Context
    <3>3. graph'.id # r.graphId
      BY <3>1, <3>2
    <3> QED
      BY <3>3 DEF VouchesFor
  <2> QED
    BY <2>1, <2>2
<1>9. qpc'[q] \in {"manifest", "certify"} \cup JudgingSteps => VouchesFor(r, g)'
  BY <1>1, <1>2, <1>3, <1>6, <1>7 DEF QueryTrue
<1>10. Judged(q)'
  BY <1>1 DEF QueryTrue, Judged, Candidates, Certified, GitStatus, CommittedTree, Relevant,
     worldVars
<1> QED
  BY <1>1, <1>2, <1>3, <1>8, <1>9, <1>10 DEF QueryTrue

-----------------------------------------------------------------------------
(* The world.                                                                *)

(* History only grows.                                                       *)
LEMMA HistoryGrows ==
    ASSUME TypeInv, WorldActs
    PROVE  /\ Len(commits) \in Nat
           /\ \A i \in 1 .. Len(commits) :
                 i \in 1 .. Len(commits') /\ commits'[i] = commits[i]
<1>1. commits \in Seq(Trees) /\ tree \in [Worktrees -> Trees]
  BY DEF TypeInv, TypeOK, WorldTypeOK
<1>2. commits' = commits \/ \E w \in Worktrees : Commit(w)
  BY DEF WorldActs, UserEdits, HeadMoves, HookRaisesFlag, ForeignWrite, Edit, Switch, worldVars
<1> QED
  BY <1>1, <1>2 DEF Commit

(* The checkouts a step of the world leaves alone stay as they are.          *)
Still(w) == /\ tree'[w] = tree[w] /\ head'[w] = head[w]
            /\ CommittedTree(w)' = CommittedTree(w)

(* A step of the world moves one checkout at most: its user edits a file in  *)
(* it, or its HEAD moves.                                                    *)
LEMMA WorldMovesOne ==
    ASSUME TypeInv, ~Allowed("foreign"), WorldActs
    PROVE  \/ \A w \in Worktrees : Still(w)
           \/ \E w \in Worktrees :
                /\ \A v \in Worktrees \ {w} : Still(v)
                /\ \/ HeadMoves(w)
                   \/ \E f \in Files, c \in Contents \cup {Absent} : UserEdits(w, f, c)
<1>1. /\ tree \in [Worktrees -> Trees] /\ head \in [Worktrees -> 0 .. Len(commits)]
  BY DEF TypeInv, TypeOK, WorldTypeOK
<1>2. ASSUME NEW v \in Worktrees, tree'[v] = tree[v], head'[v] = head[v]
      PROVE  Still(v)
  <2>1. head[v] # 0 => head[v] \in 1 .. Len(commits)
    BY <1>1, HistoryGrows
  <2> QED
    BY <1>2, <2>1, HistoryGrows DEF Still, CommittedTree
<1>3. ASSUME NEW w \in Worktrees, NEW f \in Files, NEW c \in Contents \cup {Absent},
             UserEdits(w, f, c)
      PROVE  \A v \in Worktrees \ {w} : Still(v)
  BY <1>1, <1>2, <1>3 DEF UserEdits, Edit
<1>4. ASSUME NEW w \in Worktrees, HeadMoves(w)
      PROVE  \A v \in Worktrees \ {w} : Still(v)
  BY <1>1, <1>2, <1>4 DEF HeadMoves, Commit, Switch
<1>5. ASSUME NEW w \in Worktrees, HookRaisesFlag(w)
      PROVE  \A v \in Worktrees : Still(v)
  BY <1>2, <1>5 DEF HookRaisesFlag, worldVars
<1>6. ~ForeignWrite
  BY DEF ForeignWrite
<1> QED
  BY <1>3, <1>4, <1>5, <1>6 DEF WorldActs

(* A record speaks of commits that are there to stay.                        *)
LEMMA VouchesWorldStep ==
    ASSUME TypeInv, ~Allowed("foreign"), WorldActs, NEW r, NEW g, VouchesFor(r, g)
    PROVE  VouchesFor(r, g)'
<1>1. digests' = digests
  BY WorldLeavesCore DEF coreVars, indexVars
<1> QED
  BY <1>1, HistoryGrows DEF VouchesFor, Truthful, SettingsAgree

(* A run is not misled: what it has read stays what a status would vouch     *)
(* for, or the status reports it.                                            *)
LEMMA RunWorldStep ==
    ASSUME Quiet, TypeInv, WorldActs, NEW n \in Mappers, RunTrue(n)
    PROVE  RunTrue(n)'
<1>1. /\ UNCHANGED <<mpc, run, graph>> /\ transport' = transport
      /\ ~Allowed("restore-in-map") /\ ~Allowed("settings-in-map")
      /\ ~Allowed("head-moves-in-map") /\ ~Allowed("foreign")
  BY QuietIs, WorldLeavesCore
     DEF Undisturbed, coreVars, indexVars, WorldActs, UserEdits, HeadMoves, HookRaisesFlag,
         ForeignWrite, storeVars, sidecarVars
<1>2. PICK w : w = Root(n)
  OBVIOUS
<1>3. Root(n)' = w /\ DirtyAtMap(n)' = DirtyAtMap(n)
  BY <1>1, <1>2 DEF Root, DirtyAtMap
<1>4. mpc[n] # "idle" => w \in Worktrees
  BY <1>2, RunFields DEF Root
<1>5. SettingsWritten(n)'
  BY <1>1 DEF RunTrue, SettingsWritten, TransportTells, SettingsMine
<1>6. mpc[n] \in FromDigests /\ None \notin {run[n].dirty0, run[n].dirty2, run[n].head}
      => /\ run[n].head \in 1 .. Len(commits')
         /\ \A f \in run[n].scope \ DirtyAtMap(n) : ReadAs(n, f, commits'[run[n].head][f])
  <2> SUFFICES ASSUME mpc[n] \in FromDigests,
                      None \notin {run[n].dirty0, run[n].dirty2, run[n].head}
               PROVE  /\ run[n].head \in 1 .. Len(commits')
                      /\ \A f \in run[n].scope \ DirtyAtMap(n) :
                            ReadAs(n, f, commits'[run[n].head][f])
    OBVIOUS
  <2>1. /\ run[n].head \in 1 .. Len(commits)
        /\ \A f \in run[n].scope \ DirtyAtMap(n) : ReadAs(n, f, commits[run[n].head][f])
    BY DEF RunTrue, ReadsClean
  <2> QED
    BY <2>1, HistoryGrows
<1>7. CASE mpc[n] \notin BetweenStatuses \cup {"status0"}
  BY <1>1, <1>3, <1>5, <1>6, <1>7
     DEF RunTrue, HeadKept, ReadsClean, SettingsRead, ReadAs
<1>8. CASE mpc[n] \in BetweenStatuses \cup {"status0"} /\ Still(w)
  <2>1. OnDisk(n)' = OnDisk(n) /\ CommittedTree(Root(n))' = CommittedTree(Root(n))
    BY <1>2, <1>3, <1>8 DEF Still, OnDisk, CommittedTree
  <2>2. HeadKept(n)'
    BY <1>1, <1>2, <1>3, <1>8 DEF RunTrue, HeadKept, Still, GitHead
  <2>3. ReadsClean(n)'
    BY <1>1, <1>3, <1>6, <2>1 DEF RunTrue, ReadsClean, SeenAs, ReadAs
  <2>4. SettingsRead(n)'
    BY <1>1, <2>1 DEF RunTrue, SettingsRead, SettingsOnDisk
  <2> QED
    BY <1>5, <2>2, <2>3, <2>4 DEF RunTrue
<1>9. CASE mpc[n] \in BetweenStatuses \cup {"status0"} /\ ~Still(w)
  <2>1. w \in Worktrees
    BY <1>4, <1>9, BetweenIs
  <2>2. ~HeadMoves(w)
    BY <1>1, <1>2, <1>9 DEF HeadMoves
  <2>3. PICK f \in Files, c \in Contents \cup {Absent} : UserEdits(w, f, c)
    BY <1>1, <1>9, <2>1, <2>2, WorldMovesOne
  <2>4. /\ head' = head /\ commits' = commits /\ tree' = [tree EXCEPT ![w][f] = c]
        /\ ~Hides(w, f, c) /\ (MidMap(w) => f \notin Settings)
    BY <1>1, <2>3 DEF UserEdits, Edit
  <2>5. CommittedTree(w)' = CommittedTree(w) /\ GitHead(w)' = GitHead(w)
    BY <2>4 DEF CommittedTree, GitHead
  <2>6. tree[w] \in [Files -> Contents \cup {Absent}]
    BY <2>1 DEF TypeInv, TypeOK, WorldTypeOK, Trees
  <2>7. /\ OnDisk(n) = tree[w] /\ OnDisk(n)' = [tree[w] EXCEPT ![f] = c]
    <3>1. tree \in [Worktrees -> Trees]
      BY DEF TypeInv, TypeOK, WorldTypeOK
    <3> QED
      BY <1>2, <1>3, <2>1, <2>4, <3>1 DEF OnDisk
  <2>8. \A g \in Files \ {f} : OnDisk(n)'[g] = OnDisk(n)[g]
    BY <2>6, <2>7
  <2>9. OnDisk(n)'[f] = c
    BY <2>6, <2>7
  <2>10. HeadKept(n)'
    BY <1>1, <1>2, <1>3, <2>5 DEF RunTrue, HeadKept
  <2>11. ReadsClean(n)'
    <3> SUFFICES ASSUME mpc[n] \in BetweenStatuses, run[n].dirty0 # None,
                        NEW g \in run[n].scope \ run[n].dirty0,
                        OnDisk(n)'[g] = CommittedTree(w)[g]
                 PROVE  SeenAs(n, g, OnDisk(n)'[g])
      BY <1>1, <1>3, <1>6, <2>5 DEF ReadsClean, SeenAs, ReadAs
    <3>1. g # f
      BY <1>2, <2>4, <2>9 DEF Hides
    <3>2. g \in Files
      BY <1>9, RunFields, StoreAssumption, BetweenIs
    <3>3. OnDisk(n)'[g] = OnDisk(n)[g]
      BY <2>8, <3>1, <3>2
    <3> QED
      BY <1>2, <3>3 DEF RunTrue, ReadsClean
  <2>12. SettingsRead(n)'
    <3>1. mpc[n] \in BetweenStatuses => \A s \in Settings : OnDisk(n)'[s] = OnDisk(n)[s]
      BY <1>2, <2>4, <2>8, StoreAssumption DEF MidMap
    <3>2. mpc[n] \in BetweenStatuses => SettingsOnDisk(n)' = SettingsOnDisk(n)
      BY <1>1, <3>1 DEF SettingsOnDisk
    <3> QED
      BY <1>1, <3>1, <3>2 DEF RunTrue, SettingsRead
  <2> QED
    BY <1>5, <2>10, <2>11, <2>12 DEF RunTrue
<1> QED
  BY <1>7, <1>8, <1>9

(* The checkout a query judges holds still.                                  *)
LEMMA QueryWorldStep ==
    ASSUME Quiet, TypeInv, WorldActs, NEW q \in Queriers, QueryTrue(q)
    PROVE  QueryTrue(q)'
<1>1. /\ ask' = ask /\ qpc' = qpc /\ graph' = graph
      /\ ~Allowed("head-moves-in-query") /\ ~Allowed("edit-in-query") /\ ~Allowed("foreign")
  BY QuietIs, WorldLeavesCore DEF Undisturbed, coreVars, indexVars, queryVars
<1>2. PICK r : r = ask[q].snapshot
  OBVIOUS
<1>3. PICK g : g = ask[q].graph
  OBVIOUS
<1>4. PICK here : here = graph
  OBVIOUS
<1>5. \A h : VouchesFor(r, h) => VouchesFor(r, h)'
  BY <1>1, VouchesWorldStep
<1>6. qpc'[q] # "answered" => VouchesFor(r, here)'
  BY <1>1, <1>2, <1>4, <1>5 DEF QueryTrue
<1>7. qpc'[q] \in {"manifest", "certify"} \cup JudgingSteps => VouchesFor(r, g)'
  BY <1>1, <1>2, <1>3, <1>5 DEF QueryTrue
<1>8. Judged(q)'
  <2> SUFFICES ASSUME qpc[q] \in JudgingSteps
               PROVE  Judged(q)'
    BY <1>1 DEF Judged, JudgingSteps
  <2>1. PICK w \in Worktrees : w = ask[q].root
    BY DEF TypeInv, ActiveQuery, JudgingSteps
  <2>2. Judging(w)
    BY <2>1 DEF Judging
  <2>3. Still(w)
    BY <1>1, <2>2, WorldMovesOne DEF UserEdits, HeadMoves
  <2>4. Candidates(q)' = Candidates(q)
    BY <1>1, <2>1, <2>3 DEF Candidates, GitStatus, Certified, Relevant, Still, CommittedTree
  <2> QED
    BY <1>1, <2>1, <2>3, <2>4 DEF QueryTrue, Judged, Still
<1> QED
  BY <1>1, <1>2, <1>3, <1>4, <1>6, <1>7, <1>8 DEF QueryTrue, VouchesFor

-----------------------------------------------------------------------------
(* A query's own steps.                                                      *)

(* What a recorded digest says of a file, it says of the graph.              *)
LEMMA SameBytesIndexed ==
    ASSUME TypeInv, NEW q \in Queriers, Backed(q),
           VouchesFor(ask[q].snapshot, ask[q].graph),
           qpc[q] \in JudgingSteps, ask[q].graph.id = ask[q].snapshot.graphId,
           digests.gen = ask[q].snapshot.gen,
           NEW f \in ask[q].snapshot.scope, ~Differs(q, f)
    PROVE  ask[q].graph.inputs[f] \in {tree[ask[q].root][f], None}
<1>1. IsPublished(ask[q].snapshot)
  BY DEF TypeInv, ActiveQuery
<1>2. /\ Truthful(ask[q].snapshot, ask[q].graph) /\ SettingsAgree(digests, ask[q].graph)
      /\ Agree(digests, ask[q].graph)
  BY <1>1 DEF VouchesFor, Backed
<1>3. f \in Files
  <2>1. ask[q].snapshot \in Records
    BY DEF TypeInv, TypeOK, QueryTypeOK, Asks
  <2>2. ask[q].snapshot.scope \in Scopes
    BY <1>1, <2>1 DEF Records, Certificates, IsPublished, Missing, Uncertifiable, InProgress
  <2> QED
    BY <2>2, StoreAssumption
<1>4. tree[ask[q].root][f] = IF RecordedDigest(q, f) = None THEN Absent
                             ELSE RecordedDigest(q, f)
  BY DEF Differs
<1>5. CASE f \in Configs
  BY <1>2, <1>4, <1>5 DEF RecordedDigest, Certified, Truthful
<1>6. CASE f \in GraphSources
  BY <1>2, <1>4, <1>6, StoreAssumption DEF RecordedDigest, Agree
<1>7. CASE f \in Settings
  BY <1>2, <1>4, <1>7, StoreAssumption DEF RecordedDigest, SettingsAgree
<1>8. CASE f \in Sources \ (GraphSources \cup Settings)
  BY <1>2, <1>8 DEF Truthful
<1> QED
  BY <1>3, <1>5, <1>6, <1>7, <1>8, StoreAssumption

(* Steps that are none of its own and leave world, graph and digests alone.  *)
LEMMA QueryStands ==
    ASSUME NEW p \in Queriers, QueryTrue(p), ask'[p] = ask[p], qpc'[p] = qpc[p],
           UNCHANGED <<worldVars, graph, digests>>
    PROVE  QueryTrue(p)'
<1>1. PICK r : r = ask[p].snapshot
  OBVIOUS
<1>2. PICK g : g = ask[p].graph
  OBVIOUS
<1>3. \A h : VouchesFor(r, h) => VouchesFor(r, h)'
  BY DEF VouchesFor, Truthful, SettingsAgree, worldVars
<1>4. VouchesFor(r, graph) => VouchesFor(r, graph)'
  BY DEF VouchesFor, Truthful, SettingsAgree, worldVars
<1>5. Candidates(p)' = Candidates(p)
  BY DEF Candidates, Certified, GitStatus, Relevant, CommittedTree, worldVars
<1>6. Judged(p)'
  BY <1>5 DEF QueryTrue, Judged, worldVars
<1> QED
  BY <1>1, <1>2, <1>3, <1>4, <1>6 DEF QueryTrue

(* A query's own steps: its record speaks for the graph it reads, its        *)
(* candidates are what Git reports of the asking checkout, and a candidate   *)
(* with the recorded digest is in the graph as it is on disk.                *)
LEMMA QueryOwnStep ==
    ASSUME HasGit, TypeInv, DiskTrue, NEW q \in Queriers, Backed(q), QueryTrue(q),
           QueryActs(q)
    PROVE  QueryTrue(q)'
<1> USE DEF AtQuery, GotoQuery, JudgingSteps
<1>1. ask \in [Queriers -> Asks] /\ qpc \in [Queriers -> QuerySteps] /\ ask[q] \in Asks
  BY DEF TypeInv, TypeOK, QueryTypeOK
<1>2. /\ UNCHANGED <<graph, digests, record>> /\ UNCHANGED worldVars
  BY QueryLeavesCore
     DEF coreVars, indexVars, QueryActs, QueryStep, ReadGraph, ReadManifest, Refuse, ReadHead,
         ReadStatus, StatusFailure, HashCandidates, ReadRecordAgain, StatGraph, Answer, Open,
         Close
<1>3. PICK r : r = ask[q].snapshot
  OBVIOUS
<1>4. PICK g : g = ask[q].graph
  OBVIOUS
<1>5. PICK here : here = graph
  OBVIOUS
<1>6. \A p, h : VouchesFor(p, h) => VouchesFor(p, h)'
  BY <1>2 DEF VouchesFor, Truthful, SettingsAgree, worldVars
<1>7. CASE \E w, a \in Worktrees : Open(q, w, a)
  <2>1. ask'[q].snapshot = record /\ qpc'[q] = "graph"
    BY <1>1, <1>7 DEF Open, NoQuery
  <2>2. VouchesFor(record, graph)'
    BY <1>2 DEF DiskTrue, VouchesFor, Truthful, SettingsAgree, worldVars
  <2> QED
    BY <1>2, <2>1, <2>2 DEF QueryTrue, Judged, VouchesFor
<1>8. CASE Close(q)
  <2>1. ask'[q].snapshot = Missing /\ qpc'[q] = "idle"
    BY <1>1, <1>8 DEF Close, NoQuery
  <2> QED
    BY <2>1 DEF QueryTrue, Judged, VouchesFor, Missing, IsPublished
<1>9. CASE ReadGraph(q)
  <2>1. ask'[q].snapshot = r /\ ask'[q].graph = here /\ qpc'[q] = "manifest"
          /\ qpc[q] = "graph"
    BY <1>1, <1>3, <1>5, <1>9 DEF ReadGraph, Asks
  <2>2. VouchesFor(r, here)'
    BY <1>3, <1>5, <1>6, <2>1 DEF QueryTrue
  <2> QED
    BY <1>2, <1>5, <2>1, <2>2 DEF QueryTrue, Judged, VouchesFor
<1>10. ASSUME qpc[q] # "graph", qpc[q] # "answered",
              qpc[q] \in {"manifest", "certify"} \cup JudgingSteps,
              ask'[q].snapshot = r, ask'[q].graph = g, Judged(q)'
       PROVE  QueryTrue(q)'
  <2>1. VouchesFor(r, here)' /\ VouchesFor(r, g)'
    BY <1>3, <1>4, <1>5, <1>6, <1>10 DEF QueryTrue
  <2> QED
    BY <1>2, <1>5, <1>10, <2>1 DEF QueryTrue, VouchesFor
<1>11. CASE ReadManifest(q)
  <2>1. /\ ask'[q].snapshot = r /\ ask'[q].graph = g
        /\ qpc[q] = "manifest" /\ qpc'[q] = "certify"
    BY <1>1, <1>3, <1>4, <1>11 DEF ReadManifest, Asks
  <2> QED
    BY <1>10, <2>1 DEF Judged
<1>12. CASE /\ qpc[q] \in {"certify"} \cup JudgingSteps /\ qpc'[q] = "answered"
            /\ ask'[q].snapshot = r /\ ask'[q].graph = g
  BY <1>10, <1>12 DEF Judged
<1>13. ASSUME NEW verdict, Conclude(q, verdict)
       PROVE  ask'[q].snapshot = r /\ ask'[q].graph = g /\ qpc'[q] = "answered"
  BY <1>1, <1>3, <1>4, <1>13 DEF Conclude, Asks
<1>14. CASE Refuse(q) \/ StatusFailure(q) \/ Answer(q)
  BY <1>12, <1>13, <1>14 DEF Refuse, StatusFailure, Answer
<1>15. CASE ReadHead(q) /\ qpc'[q] # "answered"
  <2>1. /\ ask' = [ask EXCEPT ![q].head = head[ask[q].root]] /\ head[ask[q].root] # 0
        /\ qpc[q] = "certify" /\ qpc'[q] = "status" /\ RecordVerdict(q) = None
    BY <1>1, <1>13, <1>15 DEF ReadHead
  <2>2. /\ ask'[q].snapshot = r /\ ask'[q].graph = g /\ ask'[q].head = head[ask[q].root]
        /\ ask'[q].root = ask[q].root /\ ask'[q].asking = ask[q].asking
    BY <1>1, <1>3, <1>4, <2>1 DEF Asks
  <2>3. ask[q].asking = ask[q].root
    <3>1. r \in Records
      BY <1>1, <1>3 DEF Asks
    <3>2. r.state \in {"missing", "uncertifiable", "in-progress", "published"}
      BY <3>1 DEF Records, Certificates, Missing, Uncertifiable, InProgress
    <3>3. OwnerOf(ask[q].root) = r.owner /\ OwnerOf(ask[q].asking) = r.owner
      BY <1>3, <2>1, <3>2, ValidationAssumption
         DEF RecordVerdict, Certified, Verdicts, UnknownReasons
    <3> QED
      BY <3>3 DEF OwnerOf
  <2>4. Judged(q)'
    BY <1>2, <2>1, <2>2, <2>3 DEF Judged, worldVars
  <2> QED
    BY <1>10, <2>1, <2>2, <2>4
<1>16. CASE ReadStatus(q) /\ qpc'[q] # "answered"
  <2>1. /\ ask' = [ask EXCEPT ![q].candidates = Candidates(q)]
        /\ qpc[q] = "status" /\ qpc'[q] = "hash"
    BY <1>1, <1>13, <1>16 DEF ReadStatus
  <2>2. /\ ask'[q].snapshot = r /\ ask'[q].graph = g /\ ask'[q].head = ask[q].head
        /\ ask'[q].root = ask[q].root /\ ask'[q].asking = ask[q].asking
        /\ ask'[q].candidates = Candidates(q)
    BY <1>1, <1>3, <1>4, <2>1 DEF Asks
  <2>3. Candidates(q)' = Candidates(q)
    BY <1>2, <1>3, <2>2
       DEF Candidates, GitStatus, Certified, Relevant, CommittedTree, worldVars
  <2>4. Judged(q)'
    BY <1>2, <2>1, <2>2, <2>3 DEF QueryTrue, Judged, worldVars
  <2> QED
    BY <1>10, <2>1, <2>2, <2>4
<1>17. CASE HashCandidates(q) /\ qpc'[q] # "answered"
  <2>1. /\ ask' = [ask EXCEPT ![q].changed = {f \in ask[q].candidates : Differs(q, f)}]
        /\ qpc[q] = "hash" /\ qpc'[q] = "record"
        /\ ask[q].candidates # {} => digests.gen = r.gen
    BY <1>1, <1>3, <1>13, <1>17 DEF HashCandidates, Certified
  <2>2. /\ ask'[q].snapshot = r /\ ask'[q].graph = g /\ ask'[q].head = ask[q].head
        /\ ask'[q].root = ask[q].root /\ ask'[q].asking = ask[q].asking
        /\ ask'[q].candidates = ask[q].candidates
        /\ ask'[q].changed = {f \in ask[q].candidates : Differs(q, f)}
    BY <1>1, <1>3, <1>4, <2>1 DEF Asks
  <2>3. Candidates(q)' = Candidates(q)
    BY <1>2, <1>3, <2>2
       DEF Candidates, GitStatus, Certified, Relevant, CommittedTree, worldVars
  <2>4. ASSUME g.id = r.graphId,
               NEW f \in (ask[q].candidates \cap r.scope) \ ask'[q].changed
        PROVE  g.inputs[f] \in {tree[ask[q].root][f], None}
    BY <1>3, <1>4, <2>1, <2>2, <2>4, SameBytesIndexed DEF QueryTrue
  <2>5. Judged(q)'
    BY <1>2, <1>3, <1>4, <2>1, <2>2, <2>3, <2>4 DEF QueryTrue, Judged, worldVars
  <2> QED
    BY <1>10, <2>1, <2>2, <2>5
<1>18. CASE (ReadRecordAgain(q) \/ StatGraph(q)) /\ qpc'[q] # "answered"
  <2>1. ask' = ask /\ qpc[q] \in {"record", "stat"} /\ qpc'[q] \in {"stat", "answer"}
    BY <1>1, <1>13, <1>18 DEF ReadRecordAgain, StatGraph
  <2>2. Candidates(q)' = Candidates(q)
    BY <1>2, <2>1 DEF Candidates, GitStatus, Certified, Relevant, CommittedTree, worldVars
  <2>3. Judged(q)'
    BY <1>2, <2>1, <2>2 DEF QueryTrue, Judged, worldVars
  <2> QED
    BY <1>3, <1>4, <1>10, <2>1, <2>3
<1>19. CASE /\ ReadHead(q) \/ ReadStatus(q) \/ HashCandidates(q) \/ ReadRecordAgain(q)
               \/ StatGraph(q)
            /\ qpc'[q] = "answered"
  <2>1. qpc[q] \in {"certify"} \cup JudgingSteps
    BY <1>19 DEF ReadHead, ReadStatus, HashCandidates, ReadRecordAgain, StatGraph
  <2>2. \E verdict : Conclude(q, verdict)
    BY <1>1, <1>19 DEF ReadHead, ReadStatus, HashCandidates, ReadRecordAgain, StatGraph
  <2> QED
    BY <1>12, <1>13, <2>1, <2>2
<1> QED
  BY <1>7, <1>8, <1>9, <1>11, <1>14, <1>15, <1>16, <1>17, <1>18, <1>19
     DEF QueryActs, QueryStep

-----------------------------------------------------------------------------
(* A step keeps the invariant.                                               *)
LEMMA FreshInvStep ==
    ASSUME Quiet, FreshInv, TypeInv', [Next]_vars
    PROVE  FreshInv'
<1>1. AnswersInv'
  BY AnswersStep DEF FreshInv
<1>2. /\ Core /\ TypeInv /\ DiskTrue /\ HasGit /\ ResolverInputs = {} /\ LockInv'
      /\ ~Allowed("foreign")
  BY <1>1, QuietIs DEF FreshInv, AnswersInv, Core, Context, Quiet, Undisturbed
<1>3. ASSUME NEW m \in Mappers, MapActs(m)
      PROVE  FreshInv'
  <2>1. DiskTrue'
    BY <1>2, <1>3, MapKeepsDiskTrue DEF FreshInv
  <2>2. \A n \in Mappers : RunTrue(n)'
    BY <1>2, <1>3, RunsStayTrue DEF FreshInv
  <2>3. \A q \in Queriers : QueryTrue(q)'
    BY <1>2, <1>3, QueryMapStep DEF FreshInv, AnswersInv
  <2> QED
    BY <1>1, <2>1, <2>2, <2>3 DEF FreshInv
<1>4. ASSUME NEW q \in Queriers, QueryActs(q)
      PROVE  FreshInv'
  <2>1. UNCHANGED coreVars /\ UNCHANGED worldVars /\ transport' = transport
    BY <1>4, QueryLeavesCore
       DEF QueryActs, QueryStep, ReadGraph, ReadManifest, Refuse, ReadHead, ReadStatus,
           StatusFailure, HashCandidates, ReadRecordAgain, StatGraph, Answer, Open, Close,
           storeVars, sidecarVars
  <2>2. DiskTrue'
    BY <1>2, <2>1, DiskTrueStands DEF coreVars, indexVars
  <2>3. ASSUME NEW m \in Mappers
        PROVE  RunTrue(m)'
    BY <2>1, RunStands DEF FreshInv, coreVars, indexVars
  <2>4. QueryTrue(q)'
    BY <1>2, <1>4, QueryOwnStep DEF FreshInv, AnswersInv
  <2>5. ASSUME NEW p \in Queriers, p # q
        PROVE  QueryTrue(p)'
    <3>1. ask'[p] = ask[p] /\ qpc'[p] = qpc[p]
      BY <1>2, <1>4, <2>5, OtherQueriesStand
    <3> QED
      BY <2>1, <3>1, QueryStands DEF FreshInv, coreVars, indexVars
  <2> QED
    BY <1>1, <2>2, <2>3, <2>4, <2>5 DEF FreshInv
<1>5. CASE WorldActs
  <2>1. UNCHANGED coreVars /\ transport' = transport
    BY <1>2, <1>5, WorldLeavesCore
       DEF WorldActs, UserEdits, HeadMoves, HookRaisesFlag, ForeignWrite, storeVars,
           sidecarVars
  <2>2. OthersUnread' /\ (IsPublished(record') => TransportTells')
    BY <1>2, <2>1 DEF DiskTrue, OthersUnread, TransportTells, coreVars, indexVars
  <2>3. VouchesFor(record, graph)'
    <3>1. PICK r, g : r = record /\ g = graph
      OBVIOUS
    <3>2. VouchesFor(r, g)'
      BY <1>2, <1>5, <3>1, VouchesWorldStep DEF DiskTrue
    <3> QED
      BY <2>1, <3>1, <3>2 DEF VouchesFor, coreVars, indexVars
  <2>4. \A m \in Mappers : RunTrue(m)'
    BY <1>2, <1>5, RunWorldStep DEF FreshInv
  <2>5. \A q \in Queriers : QueryTrue(q)'
    BY <1>2, <1>5, QueryWorldStep DEF FreshInv
  <2> QED
    BY <1>1, <2>2, <2>3, <2>4, <2>5 DEF FreshInv, DiskTrue
<1>6. CASE UNCHANGED vars
  <2>1. DiskTrue'
    BY <1>2, <1>6, DiskTrueStands DEF vars, storeVars, certVars, sidecarVars
  <2>2. ASSUME NEW m \in Mappers
        PROVE  RunTrue(m)'
    BY <1>6, RunStands DEF FreshInv, vars, storeVars, sidecarVars, mapVars
  <2>3. ASSUME NEW p \in Queriers
        PROVE  QueryTrue(p)'
    BY <1>6, QueryStands DEF FreshInv, vars, storeVars, certVars, queryVars
  <2> QED
    BY <1>1, <2>1, <2>2, <2>3 DEF FreshInv
<1> QED
  BY <1>3, <1>4, <1>5, <1>6 DEF Next

(* Nothing is mapped and nothing asked at the start.                         *)
LEMMA FreshInvInit ==
    ASSUME Quiet, Init
    PROVE  FreshInv
<1>1. AnswersInv
  BY QuietIs, CoreInit DEF Init, QueryInit, NoQuery, AnswersInv, Backed, IsPublished, Missing
<1>2. DiskTrue
  BY DEF Init, StoreInit, DiskTrue, OthersUnread, VouchesFor, NoGraph, IsPublished, Missing
<1>3. ASSUME NEW m \in Mappers
      PROVE  RunTrue(m)
  BY BetweenIs DEF Init, MapInit, RunTrue, HeadKept, ReadsClean, SettingsRead,
     SettingsWritten, FromDigests, FromPublish, FromUnits, FromCrates, FromCache, FromIndex,
     FromStatus2, FromTransport
<1>4. ASSUME NEW q \in Queriers
      PROVE  QueryTrue(q)
  BY DEF Init, QueryInit, NoQuery, QueryTrue, VouchesFor, Judged, JudgingSteps, IsPublished,
     Missing
<1> QED
  BY <1>1, <1>2, <1>3, <1>4 DEF FreshInv

(* The invariant holds of every quiet behavior.                              *)
LEMMA FreshInvHolds ==
    ASSUME Quiet
    PROVE  Spec => []FreshInv
<1>1. Init => FreshInv
  BY FreshInvInit
<1>2. FreshInv /\ TypeInv' /\ [Next]_vars => FreshInv'
  BY FreshInvStep
<1> QED
  BY <1>1, <1>2, InitTypes, NextTypes, PTL DEF Spec

(* Fresh means that the graph the answer came from was built from the bytes  *)
(* the asking worktree holds: in a Git checkout with working locks, whatever *)
(* maps run, end or die in any of its worktrees and whatever is edited or    *)
(* committed, as long as nothing a map reads twice changes between its reads *)
(* and the checkout holds still while a query judges it.                     *)
THEOREM FreshMeansIndexedBytesHolds ==
    ASSUME Quiet
    PROVE  Spec => FreshMeansIndexedBytes
<1> DEFINE Indexed(q) == \A f \in ask[q].snapshot.scope :
                            ask[q].graph.inputs[f] \in {tree[ask[q].asking][f], None}
           Told == \A q \in Queriers : Answers(q, "fresh") => Indexed(q)
<1>1. TypeInv /\ BracketInv /\ FreshInv /\ [Next]_vars => Told
  <2> SUFFICES ASSUME TypeInv, BracketInv, FreshInv, [Next]_vars, NEW q \in Queriers,
                      Answers(q, "fresh")
               PROVE  Indexed(q)
    OBVIOUS
  <2>1. /\ qpc[q] = "answer"
        /\ ask[q].snapshot.head = ask[q].head /\ ask[q].changed = {}
    BY FreshStep
  <2>2. IsPublished(ask[q].snapshot) /\ ask[q].root \in Worktrees
    BY <2>1 DEF TypeInv, ActiveQuery, JudgingSteps
  <2>3. ask[q].graph.id = ask[q].snapshot.graphId
    BY <2>1, <2>2 DEF BracketInv, InBracket
  <2>4. Truthful(ask[q].snapshot, ask[q].graph)
    BY <2>1, <2>2, <2>3 DEF FreshInv, QueryTrue, VouchesFor, JudgingSteps
  <2>5. /\ ask[q].asking = ask[q].root
        /\ ask[q].head = head[ask[q].root] /\ ask[q].head # 0
        /\ ask[q].candidates = Candidates(q)
        /\ \A f \in (ask[q].candidates \cap ask[q].snapshot.scope) \ ask[q].changed :
              ask[q].graph.inputs[f] \in {tree[ask[q].root][f], None}
    BY <2>1, <2>3 DEF FreshInv, QueryTrue, Judged, JudgingSteps
  <2>6. ask[q].snapshot.head # None
    <3>1. head[ask[q].root] \in Nat
      BY <2>2 DEF TypeInv, TypeOK, WorldTypeOK
    <3> QED
      BY <2>1, <2>5, <3>1, StoreAssumption
  <2>7. ASSUME NEW f \in ask[q].snapshot.scope
        PROVE  ask[q].graph.inputs[f] \in {tree[ask[q].asking][f], None}
    <3>1. CASE f \in ask[q].candidates
      BY <2>1, <2>5, <2>7, <3>1
    <3>2. CASE f \notin ask[q].candidates
      <4>1. f \notin ask[q].snapshot.dirty /\ tree[ask[q].root][f] = CommittedTree(ask[q].root)[f]
        BY <2>5, <2>7, <3>2 DEF Candidates, Certified, Relevant, GitStatus
      <4>2. CommittedTree(ask[q].root) = commits[ask[q].snapshot.head]
        BY <2>1, <2>5 DEF CommittedTree
      <4> QED
        BY <2>4, <2>5, <2>6, <2>7, <4>1, <4>2 DEF Truthful
    <3> QED
      BY <3>1, <3>2
  <2> QED
    BY <2>7
<1> HIDE DEF Told
<1>2. Spec => [][Told]_vars
  BY <1>1, FreshInvHolds, BracketHolds, InitTypes, NextTypes, PTL DEF Spec
<1> QED
  BY <1>2 DEF Told, FreshMeansIndexedBytes

-----------------------------------------------------------------------------
(* The other direction: a checkout nothing has disturbed is answered fresh.  *)
(* The argument follows the number of the run that last locked a checkout    *)
(* from its reads to its record, its digests and the queries that hold it;   *)
(* whatever disturbs the checkout takes the number away.                     *)

(* The steps of a run that has not published, and of one that has not        *)
(* written its digests either.                                               *)
Unpublished == LockedSteps \ {"finish"}
Undigested == Unpublished \ {"publish"}

(* A number names one run, and what carries it was written by that run.      *)
RunNumbered(m) ==
    /\ mpc[m] \in LockedSteps => run[m].gen \in 1 .. gens
    /\ mpc[m] \in Undigested => digests.gen # run[m].gen
    /\ \A n \in Mappers : mpc[m] \in LockedSteps /\ mpc[n] \in LockedSteps
                          /\ run[m].gen = run[n].gen => m = n

CertNumbered(r) ==
    IsPublished(r) =>
        /\ HasGit /\ r.gen \in 1 .. gens /\ r.dirty \subseteq r.scope
        /\ \A m \in Mappers : mpc[m] \in Unpublished => r.gen # run[m].gen

Numbered ==
    /\ \A w \in Worktrees : calm[w] <= gens /\ (HasGit => head[w] # 0)
    /\ digests.gen <= gens
    /\ \A m \in Mappers : RunNumbered(m)
    /\ CertNumbered(record)
    /\ \A q \in Queriers : CertNumbered(ask[q].snapshot)

(* What the bytes of a checkout are recorded as.                             *)
DigestOf(bytes) == IF bytes = Absent THEN None ELSE bytes

(* The paths a run read dirty are paths of its scope, and only a Git         *)
(* checkout's run comes to publish.                                          *)
DirtyInScope(m) ==
    /\ \A d \in {run[m].dirty0, run[m].dirty2} : d # None => d \subseteq run[m].scope
    /\ mpc[m] \in {"digests", "publish"} => HasGit

(* Before the walk it has read no file.                                      *)
NothingRead(m) ==
    mpc[m] \in {"lock", "prior", "status0", "load"} =>
        run[m].planned = {} /\ \A f \in Sources : run[m].keys[f] = None
RunReads(m) == DirtyInScope(m) /\ NothingRead(m)

(* A run since whose lock its checkout was left alone has read it as it is.  *)
RunTells(m, w) ==
    /\ Root(m) = w
    /\ mpc[m] # "prior" => run[m].head = GitHead(w)
    /\ mpc[m] \notin {"prior", "status0", "load"} =>
          /\ run[m].listed = {f \in Sources \cap run[m].scope : tree[w][f] # Absent}
          /\ run[m].planned \subseteq run[m].listed
          /\ \A f \in Sources : run[m].keys[f] =
                IF f \in run[m].planned THEN tree[w][f] ELSE None
    /\ mpc[m] \notin {"prior", "status0", "load", "plan"} =>
          /\ run[m].planned = run[m].listed
          /\ \A c \in Configs \cap run[m].scope : run[m].configs[c] = tree[w][c]

(* So does its record, and its digests, over its scope.                      *)
CertTells(r, w) ==
    /\ r.owner = w /\ r.head = GitHead(w)
    /\ \A c \in Configs \cap r.scope : r.configs[c] = DigestOf(tree[w][c])

DigestsTell(s, w) == \A f \in Sources \cap s : digests.files[f] = DigestOf(tree[w][f])

CertCalm(r) ==
    IsPublished(r) => \A w \in Worktrees : r.gen = calm[w] =>
        CertTells(r, w) /\ (digests.gen = r.gen => DigestsTell(r.scope, w))

RunCalm(m) ==
    /\ RunReads(m)
    /\ mpc[m] \in LockedSteps => \A w \in Worktrees : run[m].gen = calm[w] =>
          /\ RunTells(m, w)
          /\ mpc[m] = "publish" /\ digests.gen = run[m].gen => DigestsTell(run[m].scope, w)

(* A query of such a checkout finds nothing changed.                         *)
QueryCalm(q) ==
    /\ CertCalm(ask[q].snapshot)
    /\ qpc[q] = "hash" => ask[q].candidates \subseteq ask[q].snapshot.scope
    /\ qpc[q] \in JudgingSteps /\ ask[q].snapshot.gen = calm[ask[q].root] =>
          /\ ask[q].head = head[ask[q].root]
          /\ qpc[q] \in {"record", "stat", "answer"} => ask[q].changed = {}

CalmInv ==
    /\ Numbered
    /\ CertCalm(record)
    /\ \A m \in Mappers : RunCalm(m)
    /\ \A q \in Queriers : QueryCalm(q)

(* The types this argument looks at.                                         *)
LEMMA CalmTypes ==
    ASSUME TypeInv
    PROVE  /\ gens \in Nat /\ calm \in [Worktrees -> Nat] /\ digests.gen \in Nat
           /\ tree \in [Worktrees -> Trees] /\ head \in [Worktrees -> Nat]
           /\ record \in Records /\ \A q \in Queriers : ask[q] \in Asks
           /\ \A m \in Mappers : run[m] \in Runs /\ run[m].gen \in Nat
<1>1. record \in Records /\ \A q \in Queriers : ask[q] \in Asks
  BY DEF TypeInv, TypeOK, StoreTypeOK, QueryTypeOK
<1>2. digests.gen \in Nat /\ gens \in Nat /\ calm \in [Worktrees -> Nat]
  BY DEF TypeInv, TypeOK, StoreTypeOK, MapTypeOK
<1>3. tree \in [Worktrees -> Trees] /\ head \in [Worktrees -> Nat]
  BY DEF TypeInv, TypeOK, WorldTypeOK
<1>4. \A m \in Mappers : run[m] \in Runs /\ run[m].gen \in Nat
  BY RunFields DEF Runs
<1> QED
  BY <1>1, <1>2, <1>3, <1>4

(* The files of a certificate.                                               *)
LEMMA CertificateFields ==
    ASSUME NEW r \in Records, IsPublished(r)
    PROVE  r \in Certificates
  BY DEF Records, IsPublished, Missing, Uncertifiable, InProgress

(* The steps a run has yet to take.                                          *)
LEMMA UnpublishedIs ==
    /\ LockedSteps = {"prior", "status0", "load", "plan", "decide", "mark", "manifest",
                      "rebuild", "transport", "units", "crates", "cache", "index",
                      "status2", "digests", "publish", "finish"}
    /\ Unpublished = LockedSteps \ {"finish"}
    /\ Undigested = LockedSteps \ {"finish", "publish"}
  BY DEF LockedSteps, MarkedSteps, Unpublished, Undigested

-----------------------------------------------------------------------------
(* Numbers.                                                                  *)

(* What a map step does to the record and to the digest table.               *)
LEMMA CertStep ==
    ASSUME NEW m \in Mappers, MapActs(m)
    PROVE  /\ \/ digests' = digests
              \/ WriteDigests(m)
              \/ digests'.gen = 0
           /\ \/ record' = record
              \/ ~IsPublished(record')
              \/ Publish(m)
<1> USE DEF At, storeVars, certVars, sidecarVars, fragmentVars
<1>1. CASE WriteGraph(m) \/ WriteManifest(m) \/ WriteDigests(m)
  BY <1>1 DEF WriteGraph, WriteManifest, WriteDigests
<1>2. CASE Mark(m)
  BY <1>2 DEF Mark, IsPublished, InProgress, Missing
<1>3. CASE Publish(m)
  BY <1>3 DEF Publish
<1>4. CASE \/ Acquire(m) \/ ReadPrior(m) \/ ReadStatus0(m) \/ Load(m)
           \/ (\E f \in Sources : PlanEntry(m, f)) \/ Discover(m) \/ Decide(m) \/ KeepGraph(m)
           \/ ReadStatus2(m) \/ WriteTransport(m) \/ WriteUnits(m)
           \/ WriteCrates(m) \/ WriteCache(m) \/ WriteIndex(m) \/ Finish(m) \/ Crash(m)
           \/ \E w \in Worktrees, s \in Scopes : Start(m, w, s)
  BY <1>4
     DEF Acquire, ReadPrior, ReadStatus0, Load, PlanEntry, Discover, Decide, KeepGraph,
         ReadStatus2, WriteTransport, WriteUnits, WriteCrates, WriteCache,
         WriteIndex, Finish, Crash, Start
<1> QED
  BY <1>1, <1>2, <1>3, <1>4 DEF MapActs, MapStep

(* A run takes its steps in order.                                           *)
LEMMA StepsInOrder ==
    ASSUME TypeInv, NEW m \in Mappers, MapActs(m)
    PROVE  /\ mpc'[m] \in Unpublished => Acquire(m) \/ mpc[m] \in Unpublished
           /\ mpc'[m] \in Undigested => Acquire(m) \/ mpc[m] \in Undigested
           /\ Acquire(m) <=> mpc[m] = "lock" /\ mpc'[m] = "prior"
           /\ Acquire(m) => mpc[m] \notin LockedSteps
           /\ WriteDigests(m) => /\ mpc[m] = "digests" /\ mpc'[m] = "publish"
                                 /\ digests'.gen = run[m].gen
           /\ Publish(m) => mpc[m] = "publish" /\ mpc'[m] = "finish"
<1> USE WholeTypes, UnpublishedIs DEF At, Goto
<1>1. CASE \/ (\E w \in Worktrees, s \in Scopes : Start(m, w, s)) \/ Finish(m) \/ Crash(m)
  <2>1. mpc'[m] \in {"lock", "idle"}
    BY <1>1 DEF Start, Finish, Crash
  <2> QED
    BY <2>1 DEF Acquire, Publish, WriteDigests
<1>4. CASE Acquire(m)
  BY <1>4 DEF Acquire, Publish, WriteDigests
<1>5. CASE Publish(m) \/ WriteDigests(m)
  BY <1>5 DEF Acquire, Publish, WriteDigests
<1>2. CASE \/ Mark(m) \/ WriteManifest(m) \/ KeepGraph(m) \/ WriteTransport(m)
           \/ WriteUnits(m) \/ WriteCrates(m) \/ WriteCache(m) \/ WriteIndex(m)
           \/ WriteGraph(m) \/ ReadStatus2(m)
  BY <1>2 DEF Mark, WriteManifest, KeepGraph, WriteTransport, WriteUnits, WriteCrates,
              WriteCache, WriteIndex, WriteGraph, ReadStatus2, Acquire, WriteDigests, Publish
<1>3. CASE \/ ReadPrior(m) \/ ReadStatus0(m) \/ Load(m)
           \/ (\E f \in Sources : PlanEntry(m, f)) \/ Discover(m) \/ Decide(m)
  BY <1>3 DEF ReadPrior, ReadStatus0, Load, PlanEntry, Discover, Decide, Acquire,
              WriteDigests, Publish
<1> QED
  BY <1>1, <1>2, <1>3, <1>4, <1>5 DEF MapActs, MapStep

(* A checkout keeps its number unless its lock is taken, which gives it one  *)
(* that nothing else bears.                                                  *)
LEMMA CalmMapStep ==
    ASSUME TypeInv, NEW m \in Mappers, MapActs(m), NEW w \in Worktrees, calm'[w] # calm[w]
    PROVE  Acquire(m) /\ w = Root(m) /\ calm'[w] = gens + 1
<1>1. calm \in [Worktrees -> Nat]
  BY CalmTypes
<1>2. Acquire(m)
  BY <1>1, StepsInOrder DEF MapActs, At
<1>3. calm' = [calm EXCEPT ![Root(m)] = gens'] /\ gens' = gens + 1
  BY <1>2, StepsInOrder DEF MapActs, Acquire, At
<1> QED
  BY <1>1, <1>2, <1>3

(* A number bears witness of one run, before and after a map's step.         *)
LEMMA RunNumberedStep ==
    ASSUME TypeInv, Numbered, NEW m \in Mappers, MapActs(m), NEW n \in Mappers
    PROVE  RunNumbered(n)'
<1>1. /\ gens \in Nat /\ gens' \in Nat /\ digests.gen \in Nat /\ run[n].gen \in Nat
      /\ digests.gen <= gens /\ gens <= gens'
  BY CalmTypes, NumberingStep DEF Numbered
<1>2. \A p \in Mappers : mpc'[p] \in LockedSteps =>
         /\ p = m /\ Acquire(m) => run'[p].gen = gens + 1
         /\ p # m \/ ~Acquire(m) => mpc[p] \in LockedSteps /\ run'[p].gen = run[p].gen
  <2> SUFFICES ASSUME NEW p \in Mappers, mpc'[p] \in LockedSteps
               PROVE  /\ p = m /\ Acquire(m) => run'[p].gen = gens + 1
                      /\ p # m \/ ~Acquire(m) =>
                            mpc[p] \in LockedSteps /\ run'[p].gen = run[p].gen
    OBVIOUS
  <2>1. CASE p = m
    <3>1. Acquire(m) => run'[m].gen = gens + 1
      BY NumberingStep
    <3>2. ~Acquire(m) => mpc[m] \in LockedSteps /\ run'[m].gen = run[m].gen
      BY <2>1, RunKeepsNumber
    <3> QED
      BY <2>1, <3>1, <3>2
  <2>2. CASE p # m
    BY <2>2, OthersStand
  <2> QED
    BY <2>1, <2>2
<1>3. /\ Acquire(m) => gens' = gens + 1 /\ mpc[m] \notin LockedSteps
      /\ ~Acquire(m) => gens' = gens
  BY NumberingStep, StepsInOrder
<1>4. \A p \in Mappers : mpc[p] \in LockedSteps => run[p].gen \in 1 .. gens
  BY DEF Numbered, RunNumbered
<1>5. mpc'[n] \in LockedSteps => run'[n].gen \in 1 .. gens'
  BY <1>1, <1>2, <1>3, <1>4
<1>6. ASSUME NEW p \in Mappers, mpc'[n] \in LockedSteps, mpc'[p] \in LockedSteps,
             run'[n].gen = run'[p].gen
      PROVE  n = p
  BY <1>1, <1>2, <1>4, <1>6 DEF Numbered, RunNumbered
<1>7. ASSUME mpc'[n] \in Undigested
      PROVE  digests'.gen # run'[n].gen
  <2>1. mpc'[n] \in LockedSteps
    BY <1>7, UnpublishedIs
  <2>2. CASE digests' = digests
    <3>1. CASE n = m /\ Acquire(m)
      BY <1>1, <1>2, <2>1, <2>2, <3>1
    <3>2. CASE ~(n = m /\ Acquire(m))
      <4>1. mpc[n] \in Undigested /\ run'[n].gen = run[n].gen
        BY <1>2, <1>7, <2>1, <3>2, StepsInOrder, OthersStand
      <4> QED
        BY <2>2, <4>1 DEF Numbered, RunNumbered
    <3> QED
      BY <3>1, <3>2
  <2>3. CASE WriteDigests(m)
    <3>1. mpc[m] = "digests" /\ mpc'[m] = "publish" /\ digests'.gen = run[m].gen
      BY <2>3, StepsInOrder
    <3>2. n # m /\ mpc[n] \in LockedSteps /\ mpc[m] \in LockedSteps /\ run'[n].gen = run[n].gen
      BY <1>7, <2>1, <3>1, OthersStand, UnpublishedIs
    <3> QED
      BY <3>1, <3>2 DEF Numbered, RunNumbered
  <2>4. CASE digests'.gen = 0
    BY <1>1, <1>5, <2>1, <2>4
  <2> QED
    BY <2>2, <2>3, <2>4, CertStep
<1> QED
  BY <1>5, <1>6, <1>7 DEF RunNumbered

(* A certificate that has been read stays a certificate of no run under way. *)
LEMMA CertNumberedStep ==
    ASSUME TypeInv, Numbered, NEW m \in Mappers, MapActs(m), NEW r \in Records,
           CertNumbered(r)
    PROVE  CertNumbered(r)'
<1> SUFFICES ASSUME IsPublished(r)
             PROVE  CertNumbered(r)'
  BY DEF CertNumbered
<1>1. /\ gens \in Nat /\ (gens' = gens \/ gens' = gens + 1)
      /\ Acquire(m) => run'[m].gen = gens + 1
  BY CalmTypes, NumberingStep
<1>2. HasGit /\ r.gen \in 1 .. gens /\ r.dirty \subseteq r.scope
  BY DEF CertNumbered
<1>3. ASSUME NEW n \in Mappers, mpc'[n] \in Unpublished
      PROVE  r.gen # run'[n].gen
  <2>1. CASE n = m /\ Acquire(m)
    BY <1>1, <1>2, <2>1
  <2>2. CASE n # m
    BY <1>3, <2>2, OthersStand DEF CertNumbered
  <2>3. CASE n = m /\ ~Acquire(m)
    <3>1. mpc[m] \in Unpublished /\ run'[m].gen = run[m].gen
      BY <1>3, <2>3, StepsInOrder, RunKeepsNumber, UnpublishedIs
    <3> QED
      BY <2>3, <3>1 DEF CertNumbered
  <2> QED
    BY <2>1, <2>2, <2>3
<1> QED
  BY <1>1, <1>2, <1>3 DEF CertNumbered

(* The record published bears the number of a run that has just ended.       *)
LEMMA PublishNumbered ==
    ASSUME TypeInv, Numbered, NEW m \in Mappers, DirtyInScope(m), Publish(m)
    PROVE  CertNumbered(record)'
<1> SUFFICES ASSUME IsPublished(record')
             PROVE  CertNumbered(record)'
  BY DEF CertNumbered
<1>1. mpc[m] = "publish" /\ mpc'[m] = "finish" /\ run' = run /\ gens' = gens
        /\ \A n \in Mappers \ {m} : mpc'[n] = mpc[n]
  BY WholeTypes DEF Publish, At, Goto
<1>2. /\ record'.gen = run[m].gen /\ record'.scope = run[m].scope
      /\ record'.dirty = DirtyAtMap(m)
      /\ run[m].dirty0 # None /\ run[m].dirty2 # None
  BY DEF Publish, Certificate, IsPublished, Uncertifiable
<1>3. HasGit /\ record'.dirty \subseteq record'.scope
  BY <1>1, <1>2 DEF DirtyInScope, DirtyAtMap
<1>4. record'.gen \in 1 .. gens'
  BY <1>1, <1>2, UnpublishedIs DEF Numbered, RunNumbered
<1>5. ASSUME NEW n \in Mappers, mpc'[n] \in Unpublished
      PROVE  record'.gen # run'[n].gen
  BY <1>1, <1>2, <1>5, UnpublishedIs DEF Numbered, RunNumbered
<1> QED
  BY <1>3, <1>4, <1>5 DEF CertNumbered

(* A map's step keeps the numbers apart.                                     *)
LEMMA NumberedMapStep ==
    ASSUME TypeInv, Numbered, NEW m \in Mappers, DirtyInScope(m), MapActs(m)
    PROVE  Numbered'
<1>1. /\ gens \in Nat /\ gens' \in Nat /\ gens <= gens' /\ digests.gen \in Nat
      /\ calm \in [Worktrees -> Nat]
      /\ Acquire(m) => gens' = gens + 1
  BY CalmTypes, NumberingStep
<1>2. ASSUME NEW w \in Worktrees
      PROVE  calm'[w] <= gens' /\ (HasGit => head'[w] # 0)
  <2>1. head'[w] = head[w]
    BY MapsLeaveTheWorld DEF worldVars
  <2>2. calm'[w] # calm[w] => Acquire(m) /\ calm'[w] = gens + 1
    BY CalmMapStep
  <2> QED
    BY <1>1, <2>1, <2>2 DEF Numbered
<1>3. digests'.gen <= gens'
  <2>1. WriteDigests(m) => digests'.gen = run[m].gen /\ run[m].gen \in 1 .. gens
    BY StepsInOrder, UnpublishedIs DEF Numbered, RunNumbered
  <2> QED
    BY <1>1, <2>1, CertStep DEF Numbered
<1>4. CertNumbered(record)'
  <2>1. CASE record' = record
    <3>1. PICK r \in Records : r = record
      BY CalmTypes
    <3>2. CertNumbered(r)'
      BY <3>1, CertNumberedStep DEF Numbered
    <3> QED
      BY <2>1, <3>1, <3>2 DEF CertNumbered
  <2>2. CASE ~IsPublished(record')
    BY <2>2 DEF CertNumbered
  <2>3. CASE Publish(m)
    BY <2>3, PublishNumbered
  <2> QED
    BY <2>1, <2>2, <2>3, CertStep
<1>5. ASSUME NEW q \in Queriers
      PROVE  CertNumbered(ask[q].snapshot)'
  <2>1. PICK r \in Records : r = ask[q].snapshot
    BY CalmTypes DEF Asks
  <2>2. CertNumbered(r)'
    BY <2>1, CertNumberedStep DEF Numbered
  <2>3. ask' = ask
    BY DEF MapActs, queryVars
  <2> QED
    BY <2>1, <2>2, <2>3 DEF CertNumbered
<1> QED
  BY <1>2, <1>3, <1>4, <1>5, RunNumberedStep DEF Numbered

-----------------------------------------------------------------------------
(* What the number of an undisturbed checkout says, from step to step of a   *)
(* map.                                                                      *)

(* A number already given out is a checkout's only if it was its before.     *)
LEMMA CalmStands ==
    ASSUME TypeInv, NEW m \in Mappers, MapActs(m), NEW w \in Worktrees,
           NEW k \in 1 .. gens, k = calm'[w]
    PROVE  k = calm[w]
<1>1. gens \in Nat
  BY CalmTypes
<1> QED
  BY <1>1, CalmMapStep

(* What a certificate tells of a checkout it goes on telling.                *)
LEMMA CertCalmMapStep ==
    ASSUME TypeInv, Numbered, NEW m \in Mappers, MapActs(m), NEW r \in Records,
           CertNumbered(r), CertCalm(r)
    PROVE  CertCalm(r)'
<1> SUFFICES ASSUME IsPublished(r), NEW w \in Worktrees, r.gen = calm'[w]
             PROVE  /\ CertTells(r, w)'
                    /\ digests'.gen = r.gen => DigestsTell(r.scope, w)'
  BY DEF CertCalm
<1>1. r.gen = calm[w]
  BY CalmStands DEF CertNumbered
<1>2. UNCHANGED worldVars
  BY MapsLeaveTheWorld
<1>3. CertTells(r, w)'
  BY <1>1, <1>2 DEF CertCalm, CertTells, GitHead, worldVars
<1>4. ASSUME digests'.gen = r.gen
      PROVE  digests' = digests
  <2>1. ~WriteDigests(m)
    BY <1>4, StepsInOrder, UnpublishedIs DEF CertNumbered
  <2>2. digests'.gen # 0
    BY <1>4, CalmTypes DEF CertNumbered
  <2> QED
    BY <2>1, <2>2, CertStep
<1>5. digests'.gen = r.gen => DigestsTell(r.scope, w)'
  BY <1>1, <1>2, <1>4 DEF CertCalm, DigestsTell, worldVars
<1> QED
  BY <1>3, <1>5

(* So does a run that does not move.                                         *)
LEMMA OtherRunCalm ==
    ASSUME TypeInv, Numbered, NEW m \in Mappers, MapActs(m), NEW n \in Mappers, n # m,
           RunCalm(n)
    PROVE  RunCalm(n)'
<1>1. mpc'[n] = mpc[n] /\ run'[n] = run[n] /\ UNCHANGED worldVars
  BY OthersStand, MapsLeaveTheWorld
<1>2. RunReads(n)'
  BY <1>1 DEF RunCalm, RunReads, DirtyInScope, NothingRead
<1>3. ASSUME mpc[n] \in LockedSteps, NEW w \in Worktrees, run[n].gen = calm'[w]
      PROVE  /\ RunTells(n, w)'
             /\ mpc[n] = "publish" /\ digests'.gen = run[n].gen
                  => DigestsTell(run[n].scope, w)'
  <2>1. run[n].gen = calm[w]
    BY <1>3, CalmStands DEF Numbered, RunNumbered
  <2>2. RunTells(n, w)'
    BY <1>1, <1>3, <2>1 DEF RunCalm, RunTells, Root, GitHead, worldVars
  <2>3. ASSUME digests'.gen = run[n].gen
        PROVE  digests' = digests
    <3>1. ~WriteDigests(m)
      BY <1>3, <2>3, StepsInOrder, UnpublishedIs DEF Numbered, RunNumbered
    <3>2. digests'.gen # 0
      BY <1>3, <2>3, CalmTypes DEF Numbered, RunNumbered
    <3> QED
      BY <3>1, <3>2, CertStep
  <2>4. mpc[n] = "publish" /\ digests'.gen = run[n].gen => DigestsTell(run[n].scope, w)'
    BY <1>1, <1>3, <2>1, <2>3 DEF RunCalm, DigestsTell, worldVars
  <2> QED
    BY <2>2, <2>4
<1> QED
  BY <1>1, <1>2, <1>3 DEF RunCalm

(* A run that ends, or has not started, has read nothing.                    *)
LEMMA OuterRunCalm ==
    ASSUME TypeInv, NEW m \in Mappers,
           \/ \E w \in Worktrees, s \in Scopes : Start(m, w, s)
           \/ Finish(m) \/ Crash(m)
    PROVE  RunCalm(m)'
<1>1. mpc'[m] \in {"lock", "idle"}
  BY WholeTypes DEF Start, Finish, Crash, Goto
<1>2. /\ run'[m].dirty0 = None /\ run'[m].dirty2 = None
      /\ run'[m].planned = {} /\ \A f \in Sources : run'[m].keys[f] = None
  <2>1. CASE \E w \in Worktrees, s \in Scopes : Start(m, w, s)
    <3>1. PICK w \in Worktrees, s \in Scopes :
             run' = [run EXCEPT ![m] = [Blank EXCEPT !.wt = w, !.scope = s]]
      BY <2>1 DEF Start
    <3>2. run'[m] = [Blank EXCEPT !.wt = w, !.scope = s]
      BY <3>1, WholeTypes
    <3> QED
      BY <3>2 DEF Blank
  <2>2. CASE Finish(m) \/ Crash(m)
    <3>1. run'[m] = Blank
      BY <2>2, WholeTypes DEF Finish, Crash
    <3> QED
      BY <3>1 DEF Blank
  <2> QED
    BY <2>1, <2>2
<1> QED
  BY <1>1, <1>2, UnpublishedIs DEF RunCalm, RunReads, DirtyInScope, NothingRead

(* A step of a run past the lock, given what it reads and what it then       *)
(* tells of its checkout.                                                    *)
LEMMA RunCalmStep ==
    ASSUME TypeInv, Numbered, NEW m \in Mappers, MapActs(m), mpc[m] \in LockedSteps,
           mpc'[m] # "publish", RunCalm(m), RunReads(m)',
           mpc'[m] \in LockedSteps =>
              \A w \in Worktrees : RunTells(m, w) => RunTells(m, w)'
    PROVE  RunCalm(m)'
<1> SUFFICES ASSUME mpc'[m] \in LockedSteps, NEW w \in Worktrees, run'[m].gen = calm'[w]
             PROVE  RunTells(m, w)'
  BY DEF RunCalm
<1>1. run'[m].gen = run[m].gen
  BY RunKeepsNumber, StepsInOrder
<1>2. run[m].gen = calm[w]
  BY <1>1, CalmStands DEF Numbered, RunNumbered
<1> QED
  BY <1>2 DEF RunCalm

(* The lock gives the checkout the run's number.                             *)
LEMMA AcquireCalm ==
    ASSUME TypeInv, Numbered, NEW m \in Mappers, MapActs(m), Acquire(m), RunCalm(m)
    PROVE  RunCalm(m)'
<1>1. mpc[m] = "lock" /\ mpc'[m] = "prior"
  BY StepsInOrder
<1> DEFINE mem == [run[m] EXCEPT !.gen = gens + 1]
<1>2. run'[m] = mem
  BY WholeTypes DEF Acquire
<1>3. /\ mem.planned = run[m].planned /\ mem.scope = run[m].scope /\ mem.keys = run[m].keys
      /\ mem.dirty0 = run[m].dirty0 /\ mem.dirty2 = run[m].dirty2 /\ mem.wt = run[m].wt
  BY RunFields DEF Runs
<1> HIDE DEF mem
<1>4. RunReads(m)'
  BY <1>1, <1>2, <1>3 DEF RunCalm, RunReads, DirtyInScope, NothingRead
<1>5. ASSUME NEW w \in Worktrees, run'[m].gen = calm'[w]
      PROVE  Root(m)' = w
  <2>1. run'[m].gen = gens + 1 /\ calm[w] \in Nat /\ calm[w] <= gens /\ gens \in Nat
    BY CalmTypes, NumberingStep DEF Numbered
  <2>3. calm'[w] # calm[w]
    BY <1>5, <2>1
  <2>2. w = Root(m)
    BY <2>3, CalmMapStep
  <2> QED
    BY <1>2, <1>3, <2>2 DEF Root
<1> QED
  BY <1>1, <1>4, <1>5 DEF RunCalm, RunTells

(* HEAD is the checkout's own.                                               *)
LEMMA ReadPriorCalm ==
    ASSUME TypeInv, Numbered, NEW m \in Mappers, MapActs(m), ReadPrior(m), RunCalm(m)
    PROVE  RunCalm(m)'
<1> DEFINE mem == [run[m] EXCEPT !.prior = record, !.head = GitHead(Root(m))]
<1>1. /\ run'[m] = mem /\ mpc'[m] = "status0" /\ mpc[m] = "prior" /\ UNCHANGED worldVars
  BY WholeTypes DEF ReadPrior, At, Goto, Runs
<1>2. /\ mem.planned = run[m].planned /\ mem.scope = run[m].scope /\ mem.keys = run[m].keys
      /\ mem.dirty0 = run[m].dirty0 /\ mem.dirty2 = run[m].dirty2 /\ mem.wt = run[m].wt
      /\ mem.head = GitHead(Root(m))
  BY RunFields DEF Runs
<1> HIDE DEF mem
<1>3. RunReads(m)'
  BY <1>1, <1>2 DEF RunCalm, RunReads, DirtyInScope, NothingRead
<1>4. ASSUME NEW w \in Worktrees, RunTells(m, w)
      PROVE  RunTells(m, w)'
  BY <1>1, <1>2, <1>4 DEF RunTells, Root, GitHead, worldVars
<1> QED
  BY <1>1, <1>3, <1>4, RunCalmStep, UnpublishedIs

(* A status reports paths of the scope it is asked for.                      *)
LEMMA StatusInScope ==
    ASSUME NEW w, NEW s, NEW outcome \in StatusOutcomes(w, s)
    PROVE  outcome # None => outcome \subseteq s
  BY DEF StatusOutcomes, GitStatus, Relevant

(* The first status says nothing of the tree.                                *)
LEMMA ReadStatus0Calm ==
    ASSUME TypeInv, Numbered, NEW m \in Mappers, MapActs(m), ReadStatus0(m), RunCalm(m)
    PROVE  RunCalm(m)'
<1>1. PICK outcome \in StatusOutcomes(Root(m), run[m].scope) :
          run' = [run EXCEPT ![m].dirty0 = outcome]
  BY DEF ReadStatus0
<1> DEFINE mem == [run[m] EXCEPT !.dirty0 = outcome]
<1>2. /\ run'[m] = mem /\ mpc'[m] = "load" /\ mpc[m] = "status0" /\ UNCHANGED worldVars
  BY <1>1, WholeTypes DEF ReadStatus0, At, Goto, Runs
<1>3. /\ mem.planned = run[m].planned /\ mem.scope = run[m].scope /\ mem.keys = run[m].keys
      /\ mem.dirty0 = outcome /\ mem.dirty2 = run[m].dirty2 /\ mem.wt = run[m].wt
      /\ mem.head = run[m].head
  BY RunFields DEF Runs
<1> HIDE DEF mem
<1>4. outcome # None => outcome \subseteq run[m].scope
  BY StatusInScope
<1>5. RunReads(m)'
  BY <1>2, <1>3, <1>4 DEF RunCalm, RunReads, DirtyInScope, NothingRead
<1>6. ASSUME NEW w \in Worktrees, RunTells(m, w)
      PROVE  RunTells(m, w)'
  BY <1>2, <1>3, <1>6 DEF RunTells, Root, GitHead, worldVars
<1> QED
  BY <1>2, <1>5, <1>6, RunCalmStep, UnpublishedIs

(* The walk lists what is there.                                             *)
LEMMA LoadCalm ==
    ASSUME TypeInv, Numbered, NEW m \in Mappers, MapActs(m), Load(m), RunCalm(m)
    PROVE  RunCalm(m)'
<1> DEFINE listed == {f \in Sources \cap run[m].scope : OnDisk(m)[f] # Absent}
           entries == IF PriorMine(m) THEN manifest.entries ELSE NoManifest.entries
           reuse == OwnEntries(index, Root(m))
           mem == [run[m] EXCEPT !.listed = listed, !.entries = entries, !.reuse = reuse]
<1>1. /\ run'[m] = mem /\ mpc'[m] = "plan" /\ mpc[m] = "load" /\ UNCHANGED worldVars
  BY WholeTypes DEF Load, At, Goto, Runs
<1> HIDE DEF entries, reuse
<1>2. /\ mem.planned = run[m].planned /\ mem.scope = run[m].scope /\ mem.keys = run[m].keys
      /\ mem.dirty0 = run[m].dirty0 /\ mem.dirty2 = run[m].dirty2 /\ mem.wt = run[m].wt
      /\ mem.head = run[m].head /\ mem.listed = listed
  BY RunFields DEF Runs
<1> HIDE DEF mem
<1>3. RunReads(m)'
  BY <1>1, <1>2 DEF RunCalm, RunReads, DirtyInScope, NothingRead
<1>4. run[m].planned = {} /\ \A f \in Sources : run[m].keys[f] = None
  BY <1>1 DEF RunCalm, RunReads, NothingRead
<1>5. ASSUME NEW w \in Worktrees, RunTells(m, w)
      PROVE  RunTells(m, w)'
  <2>1. OnDisk(m) = tree[w] /\ Root(m) = w
    BY <1>5 DEF RunTells, OnDisk
  <2> QED
    BY <1>1, <1>2, <1>4, <1>5, <2>1 DEF RunTells, Root, GitHead, worldVars
<1> QED
  BY <1>1, <1>3, <1>5, RunCalmStep, UnpublishedIs

(* A file that is listed is there, and its key is its bytes.                 *)
LEMMA PlanEntryCalm ==
    ASSUME TypeInv, Numbered, NEW m \in Mappers, MapActs(m), NEW f \in Sources,
           PlanEntry(m, f), RunCalm(m)
    PROVE  RunCalm(m)'
<1> DEFINE bytes == OnDisk(m)[f]
           key == IF bytes = Absent THEN Unread ELSE bytes
           keys == [run[m].keys EXCEPT ![f] = key]
           fresh == IF f \in GraphSources /\ bytes # Absent /\ ~Reusable(m, f, bytes)
                    THEN run[m].fresh \cup {f} ELSE run[m].fresh
           planned == run[m].planned \cup {f}
           mem == [run[m] EXCEPT !.planned = planned, !.keys = keys, !.fresh = fresh]
<1>1. run'[m] = mem /\ mpc' = mpc /\ mpc[m] = "plan" /\ UNCHANGED worldVars
        /\ f \in run[m].listed
  BY WholeTypes DEF PlanEntry, At, Runs
<1> HIDE DEF fresh
<1>2. /\ mem.planned = planned /\ mem.scope = run[m].scope /\ mem.keys = keys
      /\ mem.dirty0 = run[m].dirty0 /\ mem.dirty2 = run[m].dirty2 /\ mem.wt = run[m].wt
      /\ mem.head = run[m].head /\ mem.listed = run[m].listed
  BY RunFields DEF Runs
<1>3. run[m].keys \in [Sources -> Keys]
  BY RunFields DEF Runs
<1>4. keys[f] = key /\ \A g \in Sources : g # f => keys[g] = run[m].keys[g]
  BY <1>3
<1> HIDE DEF mem, keys
<1>5. RunReads(m)'
  BY <1>1, <1>2 DEF RunCalm, RunReads, DirtyInScope, NothingRead
<1>6. ASSUME NEW w \in Worktrees, RunTells(m, w)
      PROVE  RunTells(m, w)'
  <2>1. /\ Root(m) = w /\ run[m].head = GitHead(w)
        /\ run[m].listed = {g \in Sources \cap run[m].scope : tree[w][g] # Absent}
        /\ run[m].planned \subseteq run[m].listed
        /\ \A g \in Sources : run[m].keys[g] =
              IF g \in run[m].planned THEN tree[w][g] ELSE None
    BY <1>1, <1>6 DEF RunTells
  <2>2. key = tree[w][f]
    BY <1>1, <2>1 DEF OnDisk
  <2>3. \A g \in Sources : keys[g] = IF g \in planned THEN tree[w][g] ELSE None
    BY <1>4, <2>1, <2>2
  <2> QED
    BY <1>1, <1>2, <2>1, <2>3 DEF RunTells, Root, GitHead, worldVars
<1> QED
  BY <1>1, <1>5, <1>6, RunCalmStep, UnpublishedIs

(* When everything listed is read, the configuration files are too.          *)
LEMMA DiscoverCalm ==
    ASSUME TypeInv, Numbered, NEW m \in Mappers, MapActs(m), Discover(m), RunCalm(m)
    PROVE  RunCalm(m)'
<1>1. PICK l \in Lanes : run' = [run EXCEPT
           ![m].configs = [c \in Configs |->
               IF c \in run[m].scope THEN OnDisk(m)[c] ELSE Absent],
           ![m].lane = l]
  BY DEF Discover
<1> DEFINE configs == [c \in Configs |-> IF c \in run[m].scope THEN OnDisk(m)[c] ELSE Absent]
           mem == [run[m] EXCEPT !.configs = configs, !.lane = l]
<1>2. /\ run'[m] = mem /\ mpc'[m] = "decide" /\ mpc[m] = "plan" /\ UNCHANGED worldVars
      /\ run[m].planned = run[m].listed
  BY <1>1, WholeTypes DEF Discover, At, Goto, Runs
<1>3. \A c \in Configs \cap run[m].scope : configs[c] = OnDisk(m)[c]
  OBVIOUS
<1> HIDE DEF configs
<1>4. /\ mem.planned = run[m].planned /\ mem.scope = run[m].scope /\ mem.keys = run[m].keys
      /\ mem.dirty0 = run[m].dirty0 /\ mem.dirty2 = run[m].dirty2 /\ mem.wt = run[m].wt
      /\ mem.head = run[m].head /\ mem.listed = run[m].listed /\ mem.configs = configs
  BY RunFields DEF Runs
<1> HIDE DEF mem
<1>5. RunReads(m)'
  BY <1>2, <1>4 DEF RunCalm, RunReads, DirtyInScope, NothingRead
<1>6. ASSUME NEW w \in Worktrees, RunTells(m, w)
      PROVE  RunTells(m, w)'
  <2>1. OnDisk(m) = tree[w] /\ Root(m) = w
    BY <1>6 DEF RunTells, OnDisk
  <2> QED
    BY <1>2, <1>3, <1>4, <1>6, <2>1 DEF RunTells, Root, GitHead, worldVars
<1> QED
  BY <1>2, <1>5, <1>6, RunCalmStep, UnpublishedIs

(* From there to its record a run reads its checkout for the resolution and  *)
(* the second status only.                                                   *)
LEMMA WritingCalm ==
    ASSUME TypeInv, Numbered, NEW m \in Mappers, MapActs(m), RunCalm(m),
           \/ Decide(m) \/ Mark(m) \/ WriteManifest(m) \/ KeepGraph(m) \/ WriteGraph(m)
           \/ WriteTransport(m) \/ WriteUnits(m) \/ WriteCrates(m)
           \/ WriteCache(m) \/ WriteIndex(m) \/ ReadStatus2(m) \/ Publish(m)
    PROVE  RunCalm(m)'
<1> USE DEF At, Goto
<1>1. UNCHANGED worldVars
  BY MapsLeaveTheWorld
<1>2. /\ mpc[m] \in LockedSteps \ {"prior", "status0", "load", "plan"}
      /\ mpc'[m] \in LockedSteps \ {"prior", "status0", "load", "plan", "publish"}
      /\ mpc'[m] = "digests" => HasGit
  <2>1. CASE \/ Decide(m) \/ Mark(m) \/ WriteManifest(m) \/ KeepGraph(m) \/ WriteGraph(m)
    BY <2>1, WholeTypes, UnpublishedIs
       DEF Decide, Mark, WriteManifest, KeepGraph, WriteGraph
  <2>2. CASE \/ WriteTransport(m) \/ WriteUnits(m) \/ WriteCrates(m)
             \/ WriteCache(m) \/ WriteIndex(m) \/ ReadStatus2(m) \/ Publish(m)
    BY <2>2, WholeTypes, UnpublishedIs
       DEF WriteTransport, WriteUnits, WriteCrates, WriteCache, WriteIndex, ReadStatus2, Publish
  <2> QED
    BY <2>1, <2>2
<1>3. /\ run'[m].planned = run[m].planned /\ run'[m].scope = run[m].scope
      /\ run'[m].keys = run[m].keys /\ run'[m].dirty0 = run[m].dirty0
      /\ run'[m].wt = run[m].wt /\ run'[m].head = run[m].head
      /\ run'[m].listed = run[m].listed /\ run'[m].configs = run[m].configs
      /\ run'[m].dirty2 # None => \/ run'[m].dirty2 = run[m].dirty2
                                 \/ run'[m].dirty2 \subseteq run[m].scope
  <2>1. CASE run' = run
    BY <2>1
  <2>2. CASE Decide(m)
    <3>1. PICK s, c : run'[m] = [run[m] EXCEPT !.settings = s, !.changed = c]
      BY <2>2, WholeTypes DEF Decide, Runs
    <3> QED
      BY <3>1, RunFields DEF Runs
  <2>3. CASE WriteGraph(m)
    <3>1. run'[m] = [run[m] EXCEPT !.frags = Fragments(m)]
      BY <2>3, WholeTypes DEF WriteGraph, Runs
    <3> QED
      BY <3>1, RunFields DEF Runs
  <2>4. CASE ReadStatus2(m)
    <3>1. PICK outcome \in StatusOutcomes(Root(m), run[m].scope) :
             run'[m] = [run[m] EXCEPT !.dirty2 = outcome]
      BY <2>4, WholeTypes DEF ReadStatus2, Runs
    <3>2. outcome # None => outcome \subseteq run[m].scope
      BY StatusInScope
    <3> QED
      BY <3>1, <3>2, RunFields DEF Runs
  <2> QED
    BY <2>1, <2>2, <2>3, <2>4
       DEF Mark, WriteManifest, KeepGraph, WriteTransport, WriteUnits, WriteCrates,
           WriteCache, WriteIndex, Publish
<1>4. RunReads(m)'
  <2>1. NothingRead(m)'
    BY <1>2, UnpublishedIs DEF NothingRead
  <2>2. DirtyInScope(m)'
    BY <1>2, <1>3 DEF RunCalm, RunReads, DirtyInScope
  <2> QED
    BY <2>1, <2>2 DEF RunReads
<1>5. ASSUME NEW w \in Worktrees, RunTells(m, w)
      PROVE  RunTells(m, w)'
  BY <1>1, <1>2, <1>3, <1>5 DEF RunTells, Root, GitHead, worldVars
<1> QED
  BY <1>2, <1>4, <1>5, RunCalmStep

(* The digests are those of the bytes read.                                  *)
LEMMA WriteDigestsCalm ==
    ASSUME TypeInv, Numbered, NEW m \in Mappers, MapActs(m), WriteDigests(m), RunCalm(m)
    PROVE  RunCalm(m)'
<1>1. /\ run' = run /\ mpc[m] = "digests" /\ mpc'[m] = "publish" /\ UNCHANGED worldVars
      /\ digests'.files = [f \in Sources |->
            IF run[m].keys[f] = Unread THEN None ELSE run[m].keys[f]]
  BY WholeTypes DEF WriteDigests, At, Goto
<1>2. RunReads(m)'
  BY <1>1 DEF RunCalm, RunReads, DirtyInScope, NothingRead
<1>3. ASSUME NEW w \in Worktrees, run'[m].gen = calm'[w]
      PROVE  RunTells(m, w)' /\ DigestsTell(run[m].scope, w)'
  <2>1. RunTells(m, w)
    <3>1. run[m].gen = calm[w]
      BY <1>1, <1>3, CalmStands, UnpublishedIs DEF Numbered, RunNumbered
    <3> QED
      BY <1>1, <3>1, UnpublishedIs DEF RunCalm
  <2>2. RunTells(m, w)'
    BY <1>1, <2>1 DEF RunTells, Root, GitHead, worldVars
  <2>3. tree[w] \in Trees /\ \A f \in Sources : tree[w][f] \in Contents \cup {Absent}
    <3>1. tree[w] \in Trees /\ Sources \subseteq Files
      BY CalmTypes, StoreAssumption
    <3> QED
      BY <3>1 DEF Trees
  <2>4. ASSUME NEW f \in Sources \cap run[m].scope
        PROVE  digests'.files[f] = DigestOf(tree[w][f])
    <3>1. run[m].keys[f] = IF tree[w][f] = Absent THEN None ELSE tree[w][f]
      BY <1>1, <2>1 DEF RunTells
    <3>2. digests'.files[f] = IF run[m].keys[f] = Unread THEN None ELSE run[m].keys[f]
      BY <1>1
    <3> QED
      BY <2>3, <3>1, <3>2, StoreAssumption DEF DigestOf
  <2>5. DigestsTell(run[m].scope, w)'
    BY <1>1, <2>4 DEF DigestsTell, worldVars
  <2> QED
    BY <2>2, <2>5
<1> QED
  BY <1>1, <1>2, <1>3 DEF RunCalm

(* A map's step keeps every run's account.                                   *)
LEMMA RunsStayCalm ==
    ASSUME TypeInv, Numbered, NEW m \in Mappers, MapActs(m), NEW n \in Mappers,
           RunCalm(n)
    PROVE  RunCalm(n)'
<1>1. CASE n # m
  BY <1>1, OtherRunCalm
<1>2. CASE n = m
  <2>1. CASE \/ (\E w \in Worktrees, s \in Scopes : Start(m, w, s)) \/ Finish(m) \/ Crash(m)
    BY <1>2, <2>1, OuterRunCalm
  <2>2. CASE \/ Acquire(m) \/ ReadPrior(m) \/ ReadStatus0(m) \/ Load(m)
             \/ (\E f \in Sources : PlanEntry(m, f)) \/ Discover(m)
    BY <1>2, <2>2, AcquireCalm, ReadPriorCalm, ReadStatus0Calm, LoadCalm, PlanEntryCalm,
       DiscoverCalm
  <2>3. CASE \/ Decide(m) \/ Mark(m) \/ WriteManifest(m) \/ KeepGraph(m) \/ WriteGraph(m)
             \/ WriteTransport(m) \/ WriteUnits(m) \/ WriteCrates(m)
             \/ WriteCache(m) \/ WriteIndex(m) \/ ReadStatus2(m) \/ Publish(m)
    BY <1>2, <2>3, WritingCalm
  <2>4. CASE WriteDigests(m)
    BY <1>2, <2>4, WriteDigestsCalm
  <2> QED
    BY <2>1, <2>2, <2>3, <2>4 DEF MapActs, MapStep
<1> QED
  BY <1>1, <1>2

(* The record takes over what the run that publishes it tells.               *)
LEMMA PublishCalm ==
    ASSUME TypeInv, Numbered, NEW m \in Mappers, MapActs(m), Publish(m), RunCalm(m)
    PROVE  CertCalm(record)'
<1> SUFFICES ASSUME IsPublished(record'), NEW w \in Worktrees, record'.gen = calm'[w]
             PROVE  /\ CertTells(record, w)'
                    /\ digests'.gen = record'.gen => DigestsTell(record.scope, w)'
  BY DEF CertCalm
<1>1. mpc[m] = "publish" /\ digests' = digests /\ UNCHANGED worldVars
  BY DEF Publish, At
<1>2. /\ record'.gen = run[m].gen /\ record'.scope = run[m].scope
      /\ record'.owner = Root(m) /\ record'.head = run[m].head
      /\ record'.configs = [c \in Configs |->
            IF run[m].configs[c] = Absent THEN None ELSE run[m].configs[c]]
  BY DEF Publish, Certificate, IsPublished, Uncertifiable
<1>3. run[m].gen = calm[w]
  BY <1>1, <1>2, CalmStands, UnpublishedIs DEF Numbered, RunNumbered
<1>4. /\ RunTells(m, w)
      /\ digests.gen = run[m].gen => DigestsTell(run[m].scope, w)
  BY <1>1, <1>3, UnpublishedIs DEF RunCalm
<1>5. CertTells(record, w)'
  <2>1. \A c \in Configs \cap run[m].scope : run[m].configs[c] = tree[w][c]
    BY <1>1, <1>4 DEF RunTells
  <2>2. Root(m) = w /\ run[m].head = GitHead(w)
    BY <1>1, <1>4 DEF RunTells
  <2> QED
    BY <1>1, <1>2, <2>1, <2>2 DEF CertTells, DigestOf, GitHead, worldVars
<1>6. digests'.gen = record'.gen => DigestsTell(record.scope, w)'
  BY <1>1, <1>2, <1>4 DEF DigestsTell, worldVars
<1> QED
  BY <1>5, <1>6

(* A map's step leaves a query its clean bill.                               *)
LEMMA QueryCalmMapStep ==
    ASSUME TypeInv, Numbered, NEW m \in Mappers, MapActs(m), NEW q \in Queriers,
           QueryCalm(q)
    PROVE  QueryCalm(q)'
<1>1. ask' = ask /\ qpc' = qpc /\ UNCHANGED worldVars
  BY MapsLeaveTheWorld DEF MapActs, queryVars
<1>2. PICK r \in Records : r = ask[q].snapshot
  BY CalmTypes DEF Asks
<1>3. CertCalm(r)' /\ CertNumbered(r)
  BY <1>2, CertCalmMapStep DEF Numbered, QueryCalm
<1>4. CertCalm(ask[q].snapshot)'
  BY <1>1, <1>2, <1>3 DEF CertCalm, CertTells, DigestsTell, GitHead
<1>5. ASSUME qpc[q] \in JudgingSteps, r.gen = calm'[ask[q].root]
      PROVE  r.gen = calm[ask[q].root]
  <2>1. ask[q].root \in Worktrees /\ IsPublished(r)
    BY <1>2, <1>5 DEF TypeInv, ActiveQuery, JudgingSteps
  <2> QED
    BY <1>3, <1>5, <2>1, CalmStands DEF CertNumbered
<1> QED
  BY <1>1, <1>2, <1>4, <1>5 DEF QueryCalm, worldVars

(* A map's step keeps the invariant.                                         *)
LEMMA CalmMapInv ==
    ASSUME TypeInv, CalmInv, NEW m \in Mappers, MapActs(m)
    PROVE  CalmInv'
<1> USE DEF CalmInv
<1>1. Numbered'
  BY NumberedMapStep DEF RunCalm, RunReads
<1>2. CertCalm(record)'
  <2>1. CASE record' = record
    <3>1. PICK r \in Records : r = record
      BY CalmTypes
    <3>2. CertCalm(r)'
      BY <3>1, CertCalmMapStep DEF Numbered
    <3> QED
      BY <2>1, <3>1, <3>2 DEF CertCalm, CertTells, DigestsTell, GitHead
  <2>2. CASE ~IsPublished(record')
    BY <2>2 DEF CertCalm
  <2>3. CASE Publish(m)
    BY <2>3, PublishCalm
  <2> QED
    BY <2>1, <2>2, <2>3, CertStep
<1>3. \A n \in Mappers : RunCalm(n)'
  BY RunsStayCalm
<1>4. \A q \in Queriers : QueryCalm(q)'
  BY QueryCalmMapStep
<1> QED
  BY <1>1, <1>2, <1>3, <1>4

-----------------------------------------------------------------------------
(* The world.                                                                *)

(* A step of the world leaves a checkout as it is or takes its number away.  *)
LEMMA WorldDisturbs ==
    ASSUME TypeInv, Numbered, WorldActs \/ UNCHANGED vars, NEW v \in Worktrees
    PROVE  /\ \/ calm'[v] = 0
              \/ calm'[v] = calm[v] /\ tree'[v] = tree[v] /\ head'[v] = head[v]
           /\ HasGit => head'[v] # 0
<1>1. /\ calm \in [Worktrees -> Nat] /\ tree \in [Worktrees -> Trees]
      /\ head \in [Worktrees -> Nat] /\ Len(commits) \in Nat /\ commits \in Seq(Trees)
  BY CalmTypes DEF TypeInv, TypeOK, WorldTypeOK
<1>2. HasGit => head[v] # 0
  BY DEF Numbered
<1>3. ASSUME NEW w \in Worktrees, NEW f \in Files, NEW c \in Contents \cup {Absent},
             UserEdits(w, f, c)
      PROVE  /\ \/ calm'[v] = 0
                \/ calm'[v] = calm[v] /\ tree'[v] = tree[v] /\ head'[v] = head[v]
             /\ HasGit => head'[v] # 0
  BY <1>1, <1>2, <1>3 DEF UserEdits, Edit
<1>4. ASSUME NEW w \in Worktrees, HeadMoves(w)
      PROVE  /\ \/ calm'[v] = 0
                \/ calm'[v] = calm[v] /\ tree'[v] = tree[v] /\ head'[v] = head[v]
             /\ HasGit => head'[v] # 0
  <2>1. PICK k \in Nat : k # 0 /\ head' = [head EXCEPT ![w] = k]
    <3>1. CASE Commit(w)
      <4>1. Len(commits') \in Nat /\ Len(commits') # 0
        BY <1>1, <3>1 DEF Commit
      <4>2. head' = [head EXCEPT ![w] = Len(commits')]
        BY <3>1 DEF Commit
      <4> QED
        BY <4>1, <4>2
    <3>2. CASE \E c \in 1 .. Len(commits) : Switch(w, c)
      <4>1. PICK c \in 1 .. Len(commits) : Switch(w, c)
        BY <3>2
      <4>2. c \in Nat /\ c # 0
        BY <1>1
      <4>3. head' = [head EXCEPT ![w] = c]
        BY <4>1 DEF Switch
      <4> QED
        BY <4>2, <4>3
    <3> QED
      BY <1>4, <3>1, <3>2 DEF HeadMoves
  <2>2. v # w => tree'[v] = tree[v]
    BY <1>1, <1>4 DEF HeadMoves, Commit, Switch
  <2>3. calm' = [calm EXCEPT ![w] = 0]
    BY <1>4 DEF HeadMoves
  <2> QED
    BY <1>1, <1>2, <2>1, <2>2, <2>3
<1>5. CASE ForeignWrite
  BY <1>2, <1>5 DEF ForeignWrite, worldVars
<1>6. CASE (\E w \in Worktrees : HookRaisesFlag(w)) \/ UNCHANGED vars
  BY <1>2, <1>6 DEF HookRaisesFlag, vars, worldVars
<1> QED
  BY <1>3, <1>4, <1>5, <1>6 DEF WorldActs

(* What stands of the index and the processes when the world moves.          *)
LEMMA WorldLeaves ==
    ASSUME WorldActs \/ UNCHANGED vars
    PROVE  /\ UNCHANGED <<digests, mapVars, queryVars>>
           /\ record' = record \/ ~IsPublished(record')
<1>1. CASE ForeignWrite
  BY <1>1 DEF ForeignWrite, Uncertifiable, IsPublished, mapVars, queryVars
<1>2. CASE ~ForeignWrite
  BY <1>2 DEF WorldActs, UserEdits, HeadMoves, HookRaisesFlag, vars, storeVars, certVars,
              mapVars, queryVars
<1> QED
  BY <1>1, <1>2

(* The numbers that are left say what they said.                             *)
LEMMA CalmWorldInv ==
    ASSUME TypeInv, CalmInv, WorldActs \/ UNCHANGED vars
    PROVE  CalmInv'
<1>1. /\ digests' = digests /\ mpc' = mpc /\ run' = run /\ gens' = gens
      /\ ask' = ask /\ qpc' = qpc
      /\ record' = record \/ ~IsPublished(record')
  BY WorldLeaves DEF mapVars, queryVars
<1>2. gens \in Nat
  BY CalmTypes
<1>3. \A v \in Worktrees : HasGit => head'[v] # 0
  BY WorldDisturbs DEF CalmInv
<1>4. ASSUME NEW v \in Worktrees, calm'[v] # 0
      PROVE  calm'[v] = calm[v] /\ tree'[v] = tree[v] /\ head'[v] = head[v]
  BY <1>4, WorldDisturbs DEF CalmInv
<1>5. Numbered'
  <2>1. \A v \in Worktrees : calm'[v] <= gens'
    BY <1>1, <1>2, <1>4 DEF CalmInv, Numbered
  <2>2. \A m \in Mappers : RunNumbered(m)'
    BY <1>1 DEF CalmInv, Numbered, RunNumbered
  <2>3. CertNumbered(record)'
    BY <1>1 DEF CalmInv, Numbered, CertNumbered
  <2>4. \A q \in Queriers : CertNumbered(ask[q].snapshot)'
    BY <1>1 DEF CalmInv, Numbered, CertNumbered
  <2>5. digests'.gen <= gens'
    BY <1>1 DEF CalmInv, Numbered
  <2> QED
    BY <1>3, <2>1, <2>2, <2>3, <2>4, <2>5 DEF Numbered
<1>6. ASSUME NEW r, CertNumbered(r), CertCalm(r)
      PROVE  CertCalm(r)'
  <2> SUFFICES ASSUME IsPublished(r), NEW w \in Worktrees, r.gen = calm'[w]
               PROVE  /\ CertTells(r, w)'
                      /\ digests'.gen = r.gen => DigestsTell(r.scope, w)'
    BY DEF CertCalm
  <2>1. r.gen = calm[w] /\ tree'[w] = tree[w] /\ head'[w] = head[w]
    BY <1>2, <1>4, <1>6 DEF CertNumbered
  <2> QED
    BY <1>1, <1>6, <2>1 DEF CertCalm, CertTells, DigestsTell, GitHead
<1>7. CertCalm(record)'
  <2>1. PICK r : r = record
    OBVIOUS
  <2>2. CertCalm(r)'
    BY <1>6, <2>1 DEF CalmInv, Numbered
  <2> QED
    BY <1>1, <2>1, <2>2 DEF CertCalm, CertTells, DigestsTell, GitHead
<1>8. ASSUME NEW m \in Mappers
      PROVE  RunCalm(m)'
  <2>1. RunReads(m)'
    BY <1>1 DEF CalmInv, RunCalm, RunReads, DirtyInScope, NothingRead
  <2>2. ASSUME mpc[m] \in LockedSteps, NEW w \in Worktrees, run[m].gen = calm'[w]
        PROVE  /\ RunTells(m, w)'
               /\ mpc[m] = "publish" /\ digests.gen = run[m].gen
                    => DigestsTell(run[m].scope, w)'
    <3>1. run[m].gen = calm[w] /\ tree'[w] = tree[w] /\ head'[w] = head[w]
      <4>1. run[m].gen # 0
        BY <1>2, <2>2 DEF CalmInv, Numbered, RunNumbered
      <4> QED
        BY <1>4, <2>2, <4>1
    <3>2. RunTells(m, w)'
      BY <1>1, <2>2, <3>1 DEF CalmInv, RunCalm, RunTells, Root, GitHead
    <3>3. mpc[m] = "publish" /\ digests.gen = run[m].gen => DigestsTell(run[m].scope, w)'
      BY <1>1, <2>2, <3>1 DEF CalmInv, RunCalm, DigestsTell
    <3> QED
      BY <3>2, <3>3
  <2> QED
    BY <1>1, <2>1, <2>2 DEF RunCalm
<1>9. ASSUME NEW q \in Queriers
      PROVE  QueryCalm(q)'
  <2>1. PICK r : r = ask[q].snapshot
    OBVIOUS
  <2>2. CertNumbered(r) /\ CertCalm(r)'
    BY <1>6, <2>1 DEF CalmInv, Numbered, QueryCalm
  <2>3. CertCalm(ask[q].snapshot)'
    BY <1>1, <2>1, <2>2 DEF CertCalm, CertTells, DigestsTell, GitHead
  <2>4. ASSUME qpc[q] \in JudgingSteps, r.gen = calm'[ask[q].root]
        PROVE  r.gen = calm[ask[q].root] /\ head'[ask[q].root] = head[ask[q].root]
    <3>1. ask[q].root \in Worktrees /\ IsPublished(r)
      BY <2>1, <2>4 DEF TypeInv, ActiveQuery, JudgingSteps
    <3>2. r.gen # 0
      BY <1>2, <2>2, <3>1 DEF CertNumbered
    <3> QED
      BY <1>4, <2>4, <3>1, <3>2
  <2> QED
    BY <1>1, <2>1, <2>3, <2>4 DEF CalmInv, QueryCalm
<1> QED
  BY <1>5, <1>7, <1>8, <1>9 DEF CalmInv

-----------------------------------------------------------------------------
(* Queries.                                                                  *)

(* A query moves nothing but itself.                                         *)
LEMMA QueryLeaves ==
    ASSUME NEW q \in Queriers, QueryActs(q)
    PROVE  UNCHANGED <<worldVars, record, digests, graph, manifest, mapVars, calm>>
  BY DEF QueryActs, QueryStep, Open, Close, ReadGraph, ReadManifest, Refuse, ReadHead,
         ReadStatus, StatusFailure, HashCandidates, ReadRecordAgain, StatGraph, Answer,
         storeVars, certVars

(* A query asked about an undisturbed checkout finds HEAD where the record   *)
(* has it and no candidate changed.                                          *)
LEMMA FindsNothingChanged ==
    ASSUME TypeInv, CalmInv, NEW q \in Queriers, qpc[q] = "hash",
           ask[q].snapshot.gen = calm[ask[q].root],
           ask[q].candidates # {} => digests.gen = ask[q].snapshot.gen
    PROVE  {f \in ask[q].candidates : Differs(q, f)} = {}
<1> SUFFICES ASSUME NEW f \in ask[q].candidates
             PROVE  ~Differs(q, f)
  OBVIOUS
<1>1. PICK r \in Records, w \in Worktrees : r = ask[q].snapshot /\ w = ask[q].root
  BY CalmTypes DEF Asks, TypeInv, ActiveQuery
<1>2. IsPublished(r) /\ r.gen = calm[w] /\ digests.gen = r.gen
  BY <1>1 DEF TypeInv, ActiveQuery, JudgingSteps
<1>3. CertTells(r, w) /\ DigestsTell(r.scope, w) /\ f \in r.scope
  BY <1>1, <1>2 DEF CalmInv, QueryCalm, CertCalm
<1>4. r.scope \subseteq Sources \cup Configs
  <2>1. r.scope \in Scopes
    BY <1>2, CertificateFields DEF Certificates
  <2> QED
    BY <2>1, StoreAssumption
<1>5. tree[w][f] \in Contents \cup {Absent} /\ None \notin Contents \cup {Absent}
  <2>1. tree[w] \in Trees /\ f \in Files /\ None \notin Contents \cup {Absent}
    BY <1>3, <1>4, CalmTypes, StoreAssumption
  <2> QED
    BY <2>1 DEF Trees
<1>6. RecordedDigest(q, f) = DigestOf(tree[w][f])
  BY <1>1, <1>3, <1>4 DEF RecordedDigest, Certified, CertTells, DigestsTell
<1> QED
  BY <1>1, <1>5, <1>6 DEF Differs, DigestOf

(* A query's own step.                                                       *)
LEMMA QueryOwnCalm ==
    ASSUME TypeInv, CalmInv, NEW q \in Queriers, QueryActs(q)
    PROVE  CertNumbered(ask[q].snapshot)' /\ QueryCalm(q)'
<1> USE DEF AtQuery, GotoQuery, JudgingSteps
<1>1. /\ ask \in [Queriers -> Asks] /\ qpc \in [Queriers -> QuerySteps] /\ ask[q] \in Asks
  BY DEF TypeInv, TypeOK, QueryTypeOK
<1>2. /\ UNCHANGED worldVars /\ record' = record /\ digests' = digests /\ calm' = calm
      /\ mpc' = mpc /\ run' = run /\ gens' = gens
  BY QueryLeaves DEF mapVars
<1>3. \A r : /\ CertNumbered(r) => CertNumbered(r)'
             /\ CertCalm(r) => CertCalm(r)'
  BY <1>2 DEF CertNumbered, CertCalm, CertTells, DigestsTell, GitHead, worldVars
<1>4. PICK r, now : r = ask[q].snapshot /\ now = record
  OBVIOUS
<1>5. CertNumbered(r)' /\ CertCalm(r)' /\ CertNumbered(now)' /\ CertCalm(now)'
  BY <1>3, <1>4 DEF CalmInv, Numbered, QueryCalm
<1>6. CASE \E w, a \in Worktrees : Open(q, w, a)
  <2>1. ask'[q].snapshot = now /\ qpc'[q] = "graph"
    BY <1>1, <1>4, <1>6 DEF Open, NoQuery
  <2> QED
    BY <1>5, <2>1 DEF QueryCalm, CertNumbered, CertCalm
<1>7. CASE Close(q)
  <2>1. ask'[q].snapshot = Missing /\ qpc'[q] = "idle"
    BY <1>1, <1>7 DEF Close, NoQuery
  <2> QED
    BY <2>1 DEF QueryCalm, CertNumbered, CertCalm, IsPublished, Missing
<1>8. ASSUME ask'[q].snapshot = r,
             qpc'[q] = "hash" => ask'[q].candidates \subseteq r.scope,
             qpc'[q] \in JudgingSteps /\ r.gen = calm[ask'[q].root] =>
                /\ ask'[q].head = head[ask'[q].root]
                /\ qpc'[q] \in {"record", "stat", "answer"} => ask'[q].changed = {}
      PROVE  CertNumbered(ask[q].snapshot)' /\ QueryCalm(q)'
  BY <1>2, <1>5, <1>8 DEF QueryCalm, CertNumbered, CertCalm, worldVars
<1>9. ASSUME NEW verdict, Conclude(q, verdict)
      PROVE  CertNumbered(ask[q].snapshot)' /\ QueryCalm(q)'
  <2>1. ask'[q].snapshot = r /\ qpc'[q] = "answered"
    BY <1>1, <1>4, <1>9 DEF Conclude, Asks
  <2> QED
    BY <1>8, <2>1
<1>10. CASE Refuse(q) \/ StatusFailure(q) \/ Answer(q)
  BY <1>9, <1>10 DEF Refuse, StatusFailure, Answer
<1>11. CASE ReadGraph(q) \/ ReadManifest(q)
  <2>1. ask'[q].snapshot = r /\ qpc'[q] \in {"manifest", "certify"}
    BY <1>1, <1>4, <1>11 DEF ReadGraph, ReadManifest, Asks
  <2> QED
    BY <1>8, <2>1
<1>12. CASE ReadHead(q) /\ qpc'[q] # "answered"
  <2>1. ask' = [ask EXCEPT ![q].head = head[ask[q].root]] /\ qpc'[q] = "status"
    BY <1>1, <1>12 DEF ReadHead, Conclude
  <2>2. /\ ask'[q].snapshot = r /\ ask'[q].root = ask[q].root
        /\ ask'[q].head = head[ask[q].root]
    BY <1>1, <1>4, <2>1 DEF Asks
  <2> QED
    BY <1>8, <2>1, <2>2
<1>13. CASE ReadStatus(q) /\ qpc'[q] # "answered"
  <2>1. /\ ask' = [ask EXCEPT ![q].candidates = Candidates(q)]
        /\ qpc[q] = "status" /\ qpc'[q] = "hash"
    BY <1>1, <1>13 DEF ReadStatus, Conclude
  <2>2. /\ ask'[q].snapshot = r /\ ask'[q].root = ask[q].root
        /\ ask'[q].head = ask[q].head /\ ask'[q].candidates = Candidates(q)
    BY <1>1, <1>4, <2>1 DEF Asks
  <2>3. Candidates(q) \subseteq r.scope
    <3>1. IsPublished(r) /\ CertNumbered(r)
      BY <1>4, <2>1 DEF TypeInv, ActiveQuery, CalmInv, Numbered
    <3> QED
      BY <1>4, <3>1 DEF CertNumbered, Candidates, GitStatus, Certified, Relevant
  <2>4. r.gen = calm[ask[q].root] => ask[q].head = head[ask[q].root]
    BY <1>4, <2>1 DEF CalmInv, QueryCalm
  <2> QED
    BY <1>8, <2>1, <2>2, <2>3, <2>4
<1>14. CASE HashCandidates(q) /\ qpc'[q] # "answered"
  <2>1. /\ ask' = [ask EXCEPT ![q].changed = {f \in ask[q].candidates : Differs(q, f)}]
        /\ qpc[q] = "hash" /\ qpc'[q] = "record"
        /\ ask[q].candidates # {} => digests.gen = r.gen
    BY <1>1, <1>4, <1>14 DEF HashCandidates, Conclude, Certified
  <2>2. /\ ask'[q].snapshot = r /\ ask'[q].root = ask[q].root
        /\ ask'[q].head = ask[q].head
        /\ ask'[q].changed = {f \in ask[q].candidates : Differs(q, f)}
    BY <1>1, <1>4, <2>1 DEF Asks
  <2>3. r.gen = calm[ask[q].root] =>
           ask[q].head = head[ask[q].root] /\ ask'[q].changed = {}
    BY <1>4, <2>1, <2>2, FindsNothingChanged DEF CalmInv, QueryCalm
  <2> QED
    BY <1>8, <2>1, <2>2, <2>3
<1>15. CASE (ReadRecordAgain(q) \/ StatGraph(q)) /\ qpc'[q] # "answered"
  <2>1. ask' = ask /\ qpc[q] \in {"record", "stat"} /\ qpc'[q] \in {"stat", "answer"}
    BY <1>1, <1>15 DEF ReadRecordAgain, StatGraph, Conclude
  <2>2. r.gen = calm[ask[q].root] => ask[q].head = head[ask[q].root] /\ ask[q].changed = {}
    BY <1>4, <2>1 DEF CalmInv, QueryCalm
  <2> QED
    BY <1>4, <1>8, <2>1, <2>2
<1>16. CASE /\ ReadHead(q) \/ ReadStatus(q) \/ HashCandidates(q) \/ ReadRecordAgain(q)
               \/ StatGraph(q)
            /\ qpc'[q] = "answered"
  <2>1. \E verdict : Conclude(q, verdict)
    BY <1>1, <1>16 DEF ReadHead, ReadStatus, HashCandidates, ReadRecordAgain, StatGraph
  <2> QED
    BY <1>9, <2>1
<1> QED
  BY <1>6, <1>7, <1>10, <1>11, <1>12, <1>13, <1>14, <1>15, <1>16 DEF QueryActs, QueryStep

(* A query's step keeps the invariant.                                       *)
LEMMA CalmQueryInv ==
    ASSUME TypeInv, CalmInv, NEW q \in Queriers, QueryActs(q)
    PROVE  CalmInv'
<1>1. /\ UNCHANGED worldVars /\ record' = record /\ digests' = digests /\ calm' = calm
      /\ mpc' = mpc /\ run' = run /\ gens' = gens
  BY QueryLeaves DEF mapVars
<1>2. ASSUME NEW r
      PROVE  /\ CertNumbered(r) => CertNumbered(r)'
             /\ CertCalm(r) => CertCalm(r)'
  BY <1>1 DEF CertNumbered, CertCalm, CertTells, DigestsTell, GitHead, worldVars
<1>3. CertNumbered(record)' /\ CertCalm(record)'
  <2>1. PICK r : r = record
    OBVIOUS
  <2>2. CertNumbered(r)' /\ CertCalm(r)'
    BY <1>2, <2>1 DEF CalmInv, Numbered
  <2> QED
    BY <1>1, <2>1, <2>2 DEF CertNumbered, CertCalm, CertTells, DigestsTell, GitHead
<1>4. ASSUME NEW p \in Queriers
      PROVE  CertNumbered(ask[p].snapshot)' /\ QueryCalm(p)'
  <2>1. CASE p = q
    BY <2>1, QueryOwnCalm
  <2>2. CASE p # q
    <3>1. ask'[p] = ask[p] /\ qpc'[p] = qpc[p]
      BY <2>2, OtherQueriesStand
    <3>2. PICK r : r = ask[p].snapshot
      OBVIOUS
    <3>3. CertNumbered(r)' /\ CertCalm(r)'
      BY <1>2, <3>2 DEF CalmInv, Numbered, QueryCalm
    <3>4. CertNumbered(ask[p].snapshot)' /\ CertCalm(ask[p].snapshot)'
      BY <3>1, <3>2, <3>3 DEF CertNumbered, CertCalm
    <3> QED
      BY <1>1, <3>1, <3>4 DEF CalmInv, QueryCalm, worldVars
  <2> QED
    BY <2>1, <2>2
<1>5. ASSUME NEW m \in Mappers
      PROVE  RunCalm(m)'
  BY <1>1 DEF CalmInv, RunCalm, RunReads, DirtyInScope, NothingRead, RunTells, DigestsTell,
              Root, GitHead, worldVars
<1>6. Numbered'
  BY <1>1, <1>3, <1>4 DEF CalmInv, Numbered, RunNumbered, worldVars
<1> QED
  BY <1>3, <1>4, <1>5, <1>6 DEF CalmInv

(* No checkout has a number at the start.                                    *)
LEMMA CalmInit == Init => CalmInv
<1> SUFFICES ASSUME Init
             PROVE  CalmInv
  OBVIOUS
<1>1. /\ record = Missing /\ digests.gen = 0 /\ gens = 0
      /\ calm = [w \in Worktrees |-> 0]
      /\ \A m \in Mappers : mpc[m] = "idle" /\ run[m] = Blank
      /\ \A q \in Queriers : qpc[q] = "idle" /\ ask[q].snapshot = Missing
  BY DEF Init, StoreInit, MapInit, QueryInit, NoQuery
<1>2. ~IsPublished(Missing) /\ Blank.dirty0 = None /\ Blank.dirty2 = None
  BY DEF IsPublished, Missing, Blank
<1>3. \A w \in Worktrees : HasGit => head[w] # 0
  BY DEF Init, WorldInit
<1>4. Numbered
  BY <1>1, <1>2, <1>3, UnpublishedIs DEF Numbered, RunNumbered, CertNumbered
<1>5. \A m \in Mappers : RunCalm(m)
  BY <1>1, <1>2, UnpublishedIs DEF RunCalm, RunReads, DirtyInScope, NothingRead
<1>6. CertCalm(record) /\ \A q \in Queriers : QueryCalm(q)
  BY <1>1, <1>2 DEF CertCalm, QueryCalm, JudgingSteps
<1> QED
  BY <1>4, <1>5, <1>6 DEF CalmInv

(* The invariant holds of every behavior.                                    *)
LEMMA CalmInvHolds == Spec => []CalmInv
<1>1. TypeInv /\ CalmInv /\ [Next]_vars => CalmInv'
  BY CalmMapInv, CalmQueryInv, CalmWorldInv DEF Next
<1> QED
  BY <1>1, CalmInit, InitTypes, NextTypes, PTL DEF Spec

(* No candidate is too many for the limits.                                  *)
RoomForAll ==
    /\ STATUS_ENTRY_CAP >= Cardinality(Files)
    /\ CANDIDATE_PATH_CAP >= Cardinality(Files)
    /\ CANDIDATE_BYTE_CAP >= Cardinality(Files)

(* The answer a query of an undisturbed checkout comes out with.             *)
LEMMA CalmAnswer ==
    ASSUME ~StatusFails, RoomForAll, TypeInv, CalmInv, NEW q \in Queriers, QueryActs(q),
           qpc[q] # "answered", qpc'[q] = "answered", ask[q].asking = ask[q].root,
           IsPublished(ask[q].snapshot), ask[q].snapshot.gen = calm[ask[q].root]
    PROVE  ask'[q].verdict \in {"fresh", "index-changed"}
<1> USE DEF AtQuery, GotoQuery, JudgingSteps
<1>1. /\ ask \in [Queriers -> Asks] /\ qpc \in [Queriers -> QuerySteps] /\ ask[q] \in Asks
  BY DEF TypeInv, TypeOK, QueryTypeOK
<1>2. CASE \/ (\E w, a \in Worktrees : Open(q, w, a)) \/ Close(q) \/ ReadGraph(q)
           \/ ReadManifest(q)
  BY <1>1, <1>2 DEF Open, Close, ReadGraph, ReadManifest
<1>3. CASE \/ Refuse(q) \/ ReadHead(q) \/ ReadStatus(q) \/ StatusFailure(q)
           \/ HashCandidates(q) \/ ReadRecordAgain(q) \/ StatGraph(q) \/ Answer(q)
  <2>1. PICK r \in Records, w \in Worktrees : r = ask[q].snapshot /\ w = ask[q].root
    <3>1. qpc[q] # "idle"
      BY <1>3 DEF Refuse, ReadHead, ReadStatus, StatusFailure, HashCandidates,
                  ReadRecordAgain, StatGraph, Answer
    <3> QED
      BY <1>1, <3>1 DEF Asks, TypeInv, ActiveQuery
  <2>2. r \in Certificates /\ IsPublished(r) /\ r.gen = calm[w]
    BY <2>1, CertificateFields
  <2>3. HasGit /\ r.dirty \subseteq r.scope /\ CertTells(r, w) /\ head[w] # 0
    BY <2>1, <2>2 DEF CalmInv, Numbered, CertNumbered, QueryCalm, CertCalm
  <2>4. IsFiniteSet(Files) /\ r.scope \subseteq Files
    BY <2>2, WorkTreeAssumption, StoreAssumption DEF Certificates
  <2>5. \A S : S \subseteq r.scope =>
           /\ ~(Cardinality(S) > STATUS_ENTRY_CAP)
           /\ ~(Cardinality(S) > CANDIDATE_PATH_CAP)
           /\ ~(Cardinality(S) > CANDIDATE_BYTE_CAP)
    <3> SUFFICES ASSUME NEW S, S \subseteq r.scope
                 PROVE  /\ ~(Cardinality(S) > STATUS_ENTRY_CAP)
                        /\ ~(Cardinality(S) > CANDIDATE_PATH_CAP)
                        /\ ~(Cardinality(S) > CANDIDATE_BYTE_CAP)
      OBVIOUS
    <3>1. S \in SUBSET Files
      BY <2>4
    <3>2. IsFiniteSet(S) /\ Cardinality(S) <= Cardinality(Files)
      BY <2>4, <3>1, FS_Subset
    <3>3. Cardinality(S) \in Nat /\ Cardinality(Files) \in Nat
      BY <2>4, <3>2, FS_CardinalityType
    <3> QED
      BY <3>2, <3>3, ValidationAssumption DEF RoomForAll
  <2>6. RecordVerdict(q) = None
    BY <2>1, <2>2, <2>3 DEF RecordVerdict, Certified, CertTells, OwnerOf, IsPublished
  <2>7. ASSUME NEW verdict, Conclude(q, verdict)
        PROVE  ask'[q].verdict = verdict
    BY <1>1, <2>7 DEF Conclude, Asks
  <2>8. ~Refuse(q) /\ ~StatusFailure(q)
    BY <2>6 DEF Refuse, StatusFailure
  <2>9. ~ReadHead(q)
    BY <1>1, <2>1, <2>3 DEF ReadHead
  <2>10. ~ReadStatus(q)
    <3> SUFFICES ASSUME ReadStatus(q)
                 PROVE  FALSE
      OBVIOUS
    <3>1. /\ GitStatus(w, Relevant(r.scope)) \subseteq r.scope
          /\ Candidates(q) \subseteq r.scope
      BY <2>1, <2>3 DEF Candidates, GitStatus, Certified, Relevant
    <3> QED
      BY <1>1, <2>1, <2>5, <3>1 DEF ReadStatus, Certified
  <2>11. CASE HashCandidates(q)
    <3>1. BytesToRead(q) \subseteq r.scope
      BY <2>1, <2>11 DEF HashCandidates, BytesToRead, CalmInv, QueryCalm
    <3>2. Conclude(q, "index-changed")
      BY <1>1, <2>5, <2>11, <3>1 DEF HashCandidates
    <3> QED
      BY <2>7, <3>2
  <2>12. CASE ReadRecordAgain(q) \/ StatGraph(q)
    <3>1. Conclude(q, "index-changed")
      BY <1>1, <2>12 DEF ReadRecordAgain, StatGraph
    <3> QED
      BY <2>7, <3>1
  <2>13. CASE Answer(q)
    <3>1. ask[q].head = head[w] /\ ask[q].changed = {}
      BY <2>1, <2>2, <2>13 DEF Answer, CalmInv, QueryCalm
    <3>2. r.head = head[w]
      BY <2>3 DEF CertTells, GitHead
    <3>3. Conclude(q, "index-changed") \/ Conclude(q, "fresh")
      BY <2>1, <2>13, <3>1, <3>2 DEF Answer, Certified
    <3> QED
      BY <2>7, <3>3
  <2> QED
    BY <1>3, <2>8, <2>9, <2>10, <2>11, <2>12, <2>13
<1> QED
  BY <1>2, <1>3 DEF QueryActs, QueryStep

(* No false alarm: as long as nothing has disturbed a checkout since its map *)
(* took the lock, a query of it is told "fresh", or that the index changed   *)
(* under it, whether locks work or not, whoever else maps, dies or writes.   *)
(* Git must answer and the limits must leave room for the files there are.   *)
THEOREM CalmIndexIsFreshHolds ==
    ASSUME ~StatusFails, RoomForAll
    PROVE  Spec => CalmIndexIsFresh
<1> DEFINE Quietly(q) == /\ qpc[q] # "answered" /\ qpc'[q] = "answered"
                         /\ ask[q].asking = ask[q].root
                         /\ IsPublished(ask[q].snapshot)
                         /\ ask[q].snapshot.gen = calm[ask[q].root]
           Told == \A q \in Queriers :
                      Quietly(q) => ask'[q].verdict \in {"fresh", "index-changed"}
<1>1. TypeInv /\ CalmInv /\ [Next]_vars => Told
  <2> SUFFICES ASSUME TypeInv, CalmInv, [Next]_vars, NEW q \in Queriers, Quietly(q)
               PROVE  ask'[q].verdict \in {"fresh", "index-changed"}
    OBVIOUS
  <2>1. QueryActs(q)
    <3>1. qpc' # qpc
      OBVIOUS
    <3>2. PICK p \in Queriers : QueryActs(p)
      BY <3>1, WorldLeaves DEF Next, MapActs, queryVars
    <3>3. p = q
      BY <3>2, OtherQueriesStand
    <3> QED
      BY <3>2, <3>3
  <2> QED
    BY <2>1, CalmAnswer
<1> HIDE DEF Told
<1>2. Spec => [][Told]_vars
  BY <1>1, CalmInvHolds, InitTypes, NextTypes, PTL DEF Spec
<1> QED
  BY <1>2 DEF Told, CalmIndexIsFresh
=============================================================================
