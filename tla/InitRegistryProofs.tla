-------------------------- MODULE InitRegistryProofs --------------------------
(* Theorems about `devscout init` for every file system, every number of     *)
(* inits and every interleaving of them with the user: what is registered is *)
(* excluded and stays, the hooks find it, and the agent's settings survive.  *)
EXTENDS InitRegistry, WellFoundedInduction, TLAPS

-----------------------------------------------------------------------------
(* The climb.                                                                *)

(* Numbers have a least.                                                     *)
LEMMA LeastOf ==
    ASSUME NEW T \in SUBSET Nat, T # {}
    PROVE  \E n \in T : \A m \in T : n <= m
<1>1. PICK R : R = OpToRel(<, Nat)
  OBVIOUS
<1>2. IsWellFoundedOn(R, Nat)
  BY <1>1, NatLessThanWellFounded
<1>3. PICK n \in T : \A m \in T : <<m, n>> \notin R
  BY <1>2, WFMin
<1>4. \A m \in T : ~(m < n)
  BY <1>1, <1>3 DEF OpToRel
<1> QED
  BY <1>3, <1>4

(* It ends at the nearest mark, or nowhere where there is none.              *)
LEMMA ClimbIs ==
    ASSUME NEW d \in Dirs, NEW marked
    PROVE  /\ Hits(d, marked) = {} <=> Climb(d, marked) = NoDir
           /\ Hits(d, marked) # {} =>
                \E n \in Hits(d, marked) :
                    /\ Climb(d, marked) = Up[d][n]
                    /\ \A m \in Hits(d, marked) : n <= m
<1> DEFINE hits == Hits(d, marked)
<1>0. Up[d] \in Seq(Dirs)
  BY InitAssumption DEF FileSystem
<1>1. hits \in SUBSET Nat /\ \A n \in hits : Up[d][n] \in Dirs
  BY <1>0 DEF Hits
<1>2. CASE hits = {}
  BY <1>2 DEF Climb
<1>3. CASE hits # {}
  <2> HIDE DEF hits
  <2>1. \E n \in hits : \A m \in hits : n <= m
    BY <1>1, <1>3, LeastOf
  <2>2. Min(hits) \in hits /\ \A m \in hits : Min(hits) <= m
    BY <2>1 DEF Min
  <2>3. Climb(d, marked) = Up[d][Min(hits)]
    BY <1>3 DEF Climb, hits
  <2>4. Up[d][Min(hits)] \in Dirs
    BY <1>1, <2>2
  <2>5. Climb(d, marked) # NoDir
    BY <2>3, <2>4, InitAssumption DEF FileSystem
  <2> QED
    BY <1>3, <2>2, <2>3, <2>5 DEF hits
<1> QED
  BY <1>2, <1>3

(* A climb that finds nothing began where nothing is.                        *)
LEMMA ClimbFails ==
    ASSUME NEW d \in Dirs, NEW marked, Climb(d, marked) = NoDir
    PROVE  d \notin marked
<1>1. Hits(d, marked) = {}
  BY ClimbIs
<1>2. 1 \in DOMAIN Up[d] /\ Up[d][1] = d
  BY InitAssumption DEF FileSystem
<1> QED
  BY <1>1, <1>2 DEF Hits

(* One that finds something ends at a mark.                                  *)
LEMMA ClimbEnds ==
    ASSUME NEW d \in Dirs, NEW marked, Climb(d, marked) # NoDir
    PROVE  Climb(d, marked) \in marked
  BY ClimbIs DEF Hits

-----------------------------------------------------------------------------
(* The invariant.                                                            *)

RunSteps == {"exclude", "mkdir", "read_registry", "write_registry", "read_settings",
             "backup", "write_settings", "end"}

InitRuns == [step : RunSteps, root : Dirs, scope : ScopeArgs \cup {<<>>},
             noHooks : BOOLEAN, kind : Kinds, seen : Seq(Entries), file : SettingsFiles]

(* What init takes for a root: it has a .git, or nothing above it has one.   *)
IsRoot(d) == d \in GitEntries \/ FindRepoRoot(d) = NoDir

(* A root is in the list once.                                               *)
Once(entries) ==
    \A m, n \in DOMAIN entries : entries[m].root = entries[n].root => m = n

(* How far a running init has come with its root.                            *)
RootReady(i) ==
    LET r == run[i] IN
    /\ IsRoot(r.root)
    /\ r.step # "exclude" /\ r.root \in GitEntries => GitDir[r.root] \in excluded
    /\ r.step \notin {"exclude", "mkdir"} => r.root \in scoutDirs
    /\ r.step = "write_registry" => RootsOf(r.seen) \subseteq scoutDirs /\ Once(r.seen)

(* What a copy of the settings is, and that an untouched one is kept.        *)
SettingsKept(s) ==
    /\ s.shape = "ok" /\ s.read <= 1 /\ s.bash <= 1
    /\ s.bash = 1 => \E b \in backups : b.bash = 0

(* What a running init is about to write has been read and backed up.        *)
SettingsReady(i) ==
    LET r == run[i] IN
    /\ r.step \in {"backup", "write_settings"} =>
          SettingsKept(r.file) /\ settings.shape = "ok"
    /\ r.step = "write_settings" => r.file \in backups

RegistryTypes ==
    /\ run \in [Inits -> InitRuns \cup {Idle}]
    /\ \A i \in Inits : run[i].step \in {"backup", "write_settings"} => run[i].file.shape = "ok"
    /\ registry \in Seq(Entries)
    /\ settings \in SettingsFiles
    /\ scoutDirs \subseteq Dirs
    /\ userEdits \in 0 .. MaxUserEdits

RegistryInv ==
    /\ RegistryTypes
    /\ \A i \in Inits : ~InitAt(i, "idle") => RootReady(i)
    /\ \A d \in scoutDirs : IsRoot(d)
    /\ reported \subseteq scoutDirs
    /\ ScoutDirIsExcluded /\ ReportedRootsStay

SettingsInv ==
    /\ RegistryTypes
    /\ \A i \in Inits : ~InitAt(i, "idle") => SettingsReady(i)
    /\ settings.shape = "ok" => SettingsKept(settings) /\ (settings.keys = userEdits \/ raced)

-----------------------------------------------------------------------------
(* Steps of an init.                                                         *)

(* A running init's record.                                                  *)
LEMMA RunIs ==
    ASSUME RegistryTypes, NEW i \in Inits
    PROVE  /\ run[i] \in InitRuns \cup {Idle}
           /\ ~InitAt(i, "idle") => run[i] \in InitRuns
           /\ run \in [Inits -> InitRuns \cup {Idle}]
  BY DEF RegistryTypes, InitAt, Idle

(* A step of i that goes on: the same run at another step.                   *)
LEMMA GotoRun ==
    ASSUME RegistryTypes, NEW i \in Inits, ~InitAt(i, "idle"), NEW s \in RunSteps, InitGoto(i, s)
    PROVE  /\ run' \in [Inits -> InitRuns \cup {Idle}]
           /\ run'[i] \in InitRuns /\ run'[i].step = s
           /\ run'[i].root = run[i].root /\ run'[i].seen = run[i].seen
           /\ run'[i].file = run[i].file
           /\ \A j \in Inits \ {i} : run'[j] = run[j]
<1>1. run[i] \in InitRuns /\ run \in [Inits -> InitRuns \cup {Idle}]
  BY RunIs DEF RegistryTypes
<1>2. run' = [run EXCEPT ![i].step = s]
  BY DEF InitGoto
<1>3. run'[i] = [run[i] EXCEPT !.step = s]
  BY <1>1, <1>2
<1>4. run'[i] \in InitRuns /\ run'[i].step = s
      /\ run'[i].root = run[i].root /\ run'[i].seen = run[i].seen /\ run'[i].file = run[i].file
  BY <1>1, <1>3 DEF InitRuns
<1> QED
  BY <1>1, <1>2, <1>4

(* A registration adds its root, once, and drops nothing it read.            *)
LEMMA RegisteredIs ==
    ASSUME NEW entries \in Seq(Entries), NEW root \in Dirs, NEW kind \in Kinds,
           NEW scope \in ScopeArgs \cup {<<>>}
    PROVE  /\ Registered(entries, root, kind, scope) \in Seq(Entries)
           /\ RootsOf(Registered(entries, root, kind, scope)) = RootsOf(entries) \cup {root}
           /\ Once(entries) => Once(Registered(entries, root, kind, scope))
<1> DEFINE Updated(e) == [e EXCEPT !.kind = kind, !.scope = IF scope = <<>> THEN @ ELSE scope]
           new == Registered(entries, root, kind, scope)
<1>1. entries \in [1 .. Len(entries) -> Entries] /\ Len(entries) \in Nat
  OBVIOUS
<1>2. CASE \E n \in DOMAIN entries : entries[n].root = root
  <2>1. new = [n \in DOMAIN entries |->
                 IF entries[n].root = root THEN Updated(entries[n]) ELSE entries[n]]
    BY <1>2 DEF Registered
  <2>2. ASSUME NEW e \in Entries PROVE Updated(e) \in Entries /\ Updated(e).root = e.root
    BY DEF Entries
  <2> HIDE DEF new, Updated
  <2>3. \A n \in 1 .. Len(entries) : new[n] \in Entries /\ new[n].root = entries[n].root
    BY <1>1, <2>1, <2>2
  <2>4. new \in [1 .. Len(entries) -> Entries] /\ DOMAIN new = DOMAIN entries
    BY <1>1, <2>1, <2>3
  <2>5. new \in Seq(Entries)
    BY <1>1, <2>4
  <2>6. RootsOf(new) = RootsOf(entries) \cup {root}
    BY <1>1, <1>2, <2>3, <2>4 DEF RootsOf
  <2>7. Once(entries) => Once(new)
    BY <1>1, <2>3, <2>4 DEF Once
  <2> QED
    BY <2>5, <2>6, <2>7 DEF new
<1>3. CASE ~\E n \in DOMAIN entries : entries[n].root = root
  <2> DEFINE e == [root |-> root, kind |-> kind, scope |-> scope]
  <2>1. new = Append(entries, e)
    BY <1>3 DEF Registered
  <2>2. e \in Entries /\ e.root = root
    BY DEF Entries
  <2> HIDE DEF new, e
  <2>3. /\ new \in Seq(Entries) /\ DOMAIN new = 1 .. Len(entries) + 1
        /\ \A n \in 1 .. Len(entries) : new[n] = entries[n]
        /\ new[Len(entries) + 1] = e
    BY <1>1, <2>1, <2>2
  <2>4. RootsOf(new) = RootsOf(entries) \cup {root}
    BY <1>1, <2>2, <2>3 DEF RootsOf
  <2>5. Once(entries) => Once(new)
    BY <1>1, <1>3, <2>2, <2>3 DEF Once
  <2> QED
    BY <2>3, <2>4, <2>5 DEF new
<1> QED
  BY <1>2, <1>3

(* Every step keeps the types.                                               *)
LEMMA TypesKept ==
    ASSUME RegistryTypes, [RegistryNext]_registryVars
    PROVE  RegistryTypes'
<1>1. ASSUME NEW i \in Inits, NEW cwd \in Dirs, NEW scope \in ScopeArgs \cup {<<>>},
             NEW n \in BOOLEAN, StartInit(i, cwd, scope, n)
      PROVE  RegistryTypes'
  <2> DEFINE gitRoot == FindRepoRoot(cwd)
             root == IF gitRoot = NoDir THEN cwd ELSE gitRoot
             r == [step |-> IF gitRoot = NoDir THEN "mkdir" ELSE "exclude",
                   root |-> root, scope |-> scope, noHooks |-> n,
                   kind |-> IF gitRoot = NoDir THEN "plain" ELSE "git",
                   seen |-> <<>>, file |-> [shape |-> "missing"]]
  <2>1. root \in Dirs
    BY ClimbEnds, InitAssumption DEF FindRepoRoot, FileSystem
  <2>2. r \in InitRuns
    <3>1. <<>> \in Seq(Entries) /\ [shape |-> "missing"] \in SettingsFiles
      BY DEF SettingsFiles
    <3> HIDE DEF gitRoot, root
    <3> QED
      BY <2>1, <3>1 DEF InitRuns, RunSteps, Kinds
  <2>3. run' = [run EXCEPT ![i] = r] /\ UNCHANGED <<registry, settings, scoutDirs, userEdits>>
    BY <1>1 DEF StartInit, sharedFiles
  <2>4. r.step \notin {"backup", "write_settings"}
    BY DEF gitRoot
  <2> HIDE DEF r
  <2> QED
    BY <2>2, <2>3, <2>4 DEF RegistryTypes
<1>2. ASSUME NEW i \in Inits, Exclude(i) \/ MakeScoutDir(i) \/ Backup(i) PROVE RegistryTypes'
  <2>1. ~InitAt(i, "idle") /\ UNCHANGED <<registry, settings, userEdits>>
        /\ \E s \in RunSteps :
              InitGoto(i, s) /\ (s \in {"backup", "write_settings"} => run[i].step = "backup")
    BY <1>2 DEF Exclude, MakeScoutDir, Backup, InitAt, RunSteps, Quietly
  <2>2. /\ run' \in [Inits -> InitRuns \cup {Idle}]
        /\ \A j \in Inits : run'[j].step \in {"backup", "write_settings"}
                              => run'[j].file.shape = "ok"
    <3>1. PICK s \in RunSteps : InitGoto(i, s) /\ (s \in {"backup", "write_settings"} => run[i].step = "backup")
      BY <2>1
    <3>2. /\ run' \in [Inits -> InitRuns \cup {Idle}] /\ run'[i].step = s
          /\ run'[i].file = run[i].file /\ \A j \in Inits \ {i} : run'[j] = run[j]
      BY <2>1, <3>1, GotoRun
    <3> QED
      BY <3>1, <3>2 DEF RegistryTypes, InitAt
  <2>3. scoutDirs' \subseteq Dirs
    BY <1>2, <2>1, RunIs DEF Exclude, MakeScoutDir, Backup, RegistryTypes, InitRuns
  <2> QED
    BY <2>1, <2>2, <2>3 DEF RegistryTypes
<1>3. ASSUME NEW i \in Inits, ReadRegistry(i) PROVE RegistryTypes'
  <2>1. ~InitAt(i, "idle") /\ UNCHANGED <<registry, settings, scoutDirs, userEdits>>
        /\ run' = [run EXCEPT ![i].step = "write_registry", ![i].seen = registry]
    BY <1>3 DEF ReadRegistry, InitAt, Quietly, sharedFiles
  <2>2. PICK r : r = [run[i] EXCEPT !.step = "write_registry", !.seen = registry]
    OBVIOUS
  <2>3. r \in InitRuns /\ r.step = "write_registry"
    BY <2>1, <2>2, RunIs DEF InitRuns, RunSteps, RegistryTypes
  <2>4. run' = [run EXCEPT ![i] = r]
    BY <2>1, <2>2, RunIs
  <2> QED
    BY <2>1, <2>3, <2>4 DEF RegistryTypes
<1>4. ASSUME NEW i \in Inits, WriteRegistry(i) PROVE RegistryTypes'
  <2>1. /\ ~InitAt(i, "idle") /\ UNCHANGED <<settings, scoutDirs, userEdits>>
        /\ \E s \in {"end", "read_settings"} : InitGoto(i, s)
        /\ registry' = Registered(run[i].seen, run[i].root, run[i].kind, run[i].scope)
    BY <1>4 DEF WriteRegistry, InitAt
  <2>2. /\ run' \in [Inits -> InitRuns \cup {Idle}]
        /\ \A j \in Inits : run'[j].step \in {"backup", "write_settings"}
                              => run'[j].file.shape = "ok"
    <3>1. PICK s \in {"end", "read_settings"} : InitGoto(i, s)
      BY <2>1
    <3>2. /\ run' \in [Inits -> InitRuns \cup {Idle}] /\ run'[i].step = s
          /\ \A j \in Inits \ {i} : run'[j] = run[j]
      BY <2>1, <3>1, GotoRun DEF RunSteps
    <3> QED
      BY <3>1, <3>2 DEF RegistryTypes
  <2>3. registry' \in Seq(Entries)
    BY <2>1, RunIs, RegisteredIs DEF InitRuns
  <2> QED
    BY <2>1, <2>2, <2>3 DEF RegistryTypes
<1>5. ASSUME NEW i \in Inits, ReadSettings(i) PROVE RegistryTypes'
  <2>1. /\ ~InitAt(i, "idle") /\ UNCHANGED <<registry, settings, scoutDirs, userEdits>>
        /\ \E s \in {"end", "backup"} :
              /\ run' = [run EXCEPT ![i].step = s, ![i].file = settings]
              /\ s = "backup" => settings.shape = "ok"
    BY <1>5 DEF ReadSettings, InitAt, Quietly, sharedFiles
  <2>2. PICK s \in {"end", "backup"} :
              /\ run' = [run EXCEPT ![i].step = s, ![i].file = settings]
              /\ s = "backup" => settings.shape = "ok"
    BY <2>1
  <2>3. PICK r : r = [run[i] EXCEPT !.step = s, !.file = settings]
    OBVIOUS
  <2>4. r \in InitRuns /\ r.step = s /\ r.file = settings
    <3>1. run[i] \in InitRuns /\ settings \in SettingsFiles /\ s \in RunSteps
      BY <2>1, RunIs DEF RegistryTypes, RunSteps
    <3> QED
      BY <2>3, <3>1 DEF InitRuns
  <2>5. run' = [run EXCEPT ![i] = r]
    BY <2>2, <2>3, RunIs
  <2>6. run'[i] = r /\ (\A j \in Inits \ {i} : run'[j] = run[j])
        /\ run' \in [Inits -> InitRuns \cup {Idle}]
    BY <2>4, <2>5, RunIs
  <2>7. \A j \in Inits : run'[j].step \in {"backup", "write_settings"}
                         => run'[j].file.shape = "ok"
    BY <2>2, <2>4, <2>6 DEF RegistryTypes
  <2> QED
    BY <2>1, <2>6, <2>7 DEF RegistryTypes
<1>6. ASSUME NEW i \in Inits, End(i) \/ InitKilled(i) PROVE RegistryTypes'
  BY <1>6 DEF End, InitKilled, Quietly, sharedFiles, RegistryTypes, Idle
<1>9. ASSUME NEW i \in Inits, WriteSettings(i) PROVE RegistryTypes'
  <2>1. /\ InitAt(i, "write_settings") /\ InitGoto(i, "end") /\ UNCHANGED <<registry, scoutDirs, userEdits>>
        /\ settings' = MergeHooks(run[i].file)
    BY <1>9 DEF WriteSettings
  <2>2. run[i] \in InitRuns /\ run[i].file.shape = "ok"
    BY <2>1, RunIs DEF InitAt, RegistryTypes
  <2>3. settings' \in SettingsFiles
    BY <2>1, <2>2 DEF MergeHooks, InitRuns, SettingsFiles
  <2>4. /\ run' \in [Inits -> InitRuns \cup {Idle}] /\ run'[i].step = "end"
        /\ \A j \in Inits \ {i} : run'[j] = run[j]
    BY <2>1, GotoRun DEF RunSteps, InitAt
  <2> QED
    BY <2>1, <2>3, <2>4 DEF RegistryTypes
<1>7. ASSUME UserEditsSettings PROVE RegistryTypes'
  <2>1. /\ UNCHANGED <<registry, scoutDirs, run>> /\ userEdits' = userEdits + 1
        /\ userEdits < MaxUserEdits /\ settings.shape = "ok"
        /\ settings' = [settings EXCEPT !.keys = userEdits + 1]
    BY <1>7 DEF UserEditsSettings
  <2>2. userEdits' \in 0 .. MaxUserEdits
    BY <2>1, InitAssumption DEF RegistryTypes
  <2>3. settings' \in SettingsFiles
    BY <2>1, <2>2 DEF RegistryTypes, SettingsFiles
  <2> QED
    BY <2>1, <2>2, <2>3 DEF RegistryTypes
<1>8. CASE UNCHANGED registryVars
  BY <1>8 DEF registryVars, sharedFiles, RegistryTypes
<1> QED
  BY <1>1, <1>2, <1>3, <1>4, <1>5, <1>6, <1>7, <1>8, <1>9 DEF RegistryNext

-----------------------------------------------------------------------------
(* The registry, the exclude files and the roots.                            *)

(* The directories, the exclude files and what waits for them only grow.     *)
LEMMA OthersReady ==
    ASSUME NEW i \in Inits, NEW j \in Inits, run'[j] = run[j], ~InitAt(j, "idle") => RootReady(j),
           scoutDirs \subseteq scoutDirs', excluded \subseteq excluded'
    PROVE  ~InitAt(j, "idle")' => RootReady(j)'
  BY DEF InitAt, RootReady

(* What a step that moves neither relies on.                                 *)
LEMMA RootsUntouched ==
    ASSUME RegistryInv, RegistryTypes',
           UNCHANGED <<scoutDirs, excluded, registry, reported, overlapped>>,
           \A i \in Inits : ~InitAt(i, "idle")' => RootReady(i)'
    PROVE  RegistryInv'
  BY DEF RegistryInv, ScoutDirIsExcluded, ReportedRootsStay, IsRoot, FindRepoRoot

(* Every step keeps the invariant.                                           *)
LEMMA RegistryKept ==
    ASSUME RegistryInv, [RegistryNext]_registryVars
    PROVE  RegistryInv'
<1>1. RegistryTypes'
  BY TypesKept DEF RegistryInv
<1>2. ASSUME NEW i \in Inits, NEW cwd \in Dirs, NEW scope \in ScopeArgs \cup {<<>>},
             NEW n \in BOOLEAN, StartInit(i, cwd, scope, n)
      PROVE  RegistryInv'
  <2> DEFINE gitRoot == FindRepoRoot(cwd)
  <2> DEFINE r == [step |-> IF gitRoot = NoDir THEN "mkdir" ELSE "exclude",
                   root |-> IF gitRoot = NoDir THEN cwd ELSE gitRoot,
                   scope |-> scope, noHooks |-> n,
                   kind |-> IF gitRoot = NoDir THEN "plain" ELSE "git",
                   seen |-> <<>>, file |-> [shape |-> "missing"]]
  <2>0. run' = [run EXCEPT ![i] = r]
    BY <1>2 DEF StartInit
  <2>1. /\ run' = [run EXCEPT ![i] = r]
        /\ r.step = IF gitRoot = NoDir THEN "mkdir" ELSE "exclude"
        /\ r.root = IF gitRoot = NoDir THEN cwd ELSE gitRoot
    BY <2>0
  <2> HIDE DEF r
  <2>2. UNCHANGED <<scoutDirs, excluded, registry, reported, overlapped>>
    BY <1>2 DEF StartInit, sharedFiles
  <2>3. run'[i] = r /\ \A j \in Inits \ {i} : run'[j] = run[j]
    BY <2>1 DEF RegistryInv, RegistryTypes
  <2>4. gitRoot = NoDir => cwd \notin GitEntries
    BY ClimbFails DEF FindRepoRoot
  <2>5. gitRoot # NoDir => gitRoot \in GitEntries
    BY ClimbEnds DEF FindRepoRoot
  <2>6. RootReady(i)'
    <3>1. IsRoot(r.root)
      BY <2>1, <2>5 DEF IsRoot
    <3> QED
      BY <2>1, <2>3, <2>4, <3>1 DEF RootReady, IsRoot, FindRepoRoot
  <2>7. \A j \in Inits : ~InitAt(j, "idle")' => RootReady(j)'
    BY <2>2, <2>3, <2>6, OthersReady DEF RegistryInv
  <2> QED
    BY <1>1, <2>2, <2>7, RootsUntouched
<1>3. ASSUME NEW i \in Inits, Exclude(i) PROVE RegistryInv'
  <2>1. /\ InitAt(i, "exclude") /\ InitGoto(i, "mkdir")
        /\ excluded' = excluded \cup {GitDir[run[i].root]}
        /\ UNCHANGED <<scoutDirs, registry, reported, overlapped>>
    BY <1>3 DEF Exclude, Quietly, GitCommonDir
  <2>2. /\ run'[i].step = "mkdir" /\ run'[i].root = run[i].root
        /\ \A j \in Inits \ {i} : run'[j] = run[j]
    BY <2>1, GotoRun DEF RegistryInv, RunSteps, InitAt
  <2>3. RootReady(i)'
    BY <2>1, <2>2 DEF RegistryInv, RootReady, IsRoot, FindRepoRoot, InitAt
  <2>4. \A j \in Inits : ~InitAt(j, "idle")' => RootReady(j)'
    BY <2>1, <2>2, <2>3, OthersReady DEF RegistryInv
  <2> QED
    BY <1>1, <2>1, <2>4
       DEF RegistryInv, ScoutDirIsExcluded, ReportedRootsStay, IsRoot, FindRepoRoot
<1>4. ASSUME NEW i \in Inits, MakeScoutDir(i) PROVE RegistryInv'
  <2>1. /\ InitAt(i, "mkdir") /\ InitGoto(i, "read_registry")
        /\ scoutDirs' = scoutDirs \cup {run[i].root}
        /\ UNCHANGED <<excluded, registry, reported, overlapped>>
    BY <1>4 DEF MakeScoutDir, Quietly
  <2>2. /\ run'[i].step = "read_registry" /\ run'[i].root = run[i].root
        /\ \A j \in Inits \ {i} : run'[j] = run[j]
    BY <2>1, GotoRun DEF RegistryInv, RunSteps, InitAt
  <2>3. IsRoot(run[i].root) /\ (run[i].root \in GitEntries => GitDir[run[i].root] \in excluded)
    BY <2>1 DEF RegistryInv, RootReady, InitAt
  <2>4. RootReady(i)'
    BY <2>1, <2>2, <2>3 DEF RootReady, IsRoot, FindRepoRoot
  <2>5. \A j \in Inits : ~InitAt(j, "idle")' => RootReady(j)'
    BY <2>1, <2>2, <2>4, OthersReady DEF RegistryInv
  <2> QED
    BY <1>1, <2>1, <2>3, <2>5
       DEF RegistryInv, ScoutDirIsExcluded, ReportedRootsStay, IsRoot, FindRepoRoot
<1>5. ASSUME NEW i \in Inits, ReadRegistry(i) PROVE RegistryInv'
  <2>1. /\ InitAt(i, "read_registry")
        /\ run' = [run EXCEPT ![i].step = "write_registry", ![i].seen = registry]
        /\ UNCHANGED <<scoutDirs, excluded, registry, reported, overlapped>>
    BY <1>5 DEF ReadRegistry, Quietly, sharedFiles
  <2>2. run[i] \in InitRuns
    BY <2>1, RunIs DEF RegistryInv, InitAt
  <2>3. /\ run'[i].step = "write_registry" /\ run'[i].root = run[i].root
        /\ run'[i].seen = registry
        /\ \A j \in Inits \ {i} : run'[j] = run[j]
    BY <2>1, <2>2 DEF RegistryInv, RegistryTypes, InitRuns
  <2>4. RootReady(i)'
    <3>1. RootReady(i) /\ run[i].step = "read_registry"
      BY <2>1 DEF RegistryInv, InitAt
    <3>2. IsRoot(run[i].root)
      BY <3>1 DEF RootReady
    <3>3. run[i].root \in scoutDirs
          /\ (run[i].root \in GitEntries => GitDir[run[i].root] \in excluded)
      BY <3>1 DEF RootReady
    <3>4. RootsOf(registry) \subseteq scoutDirs /\ Once(registry)
      BY DEF RegistryInv, ScoutDirIsExcluded, ReportedRootsStay, Once
    <3>5. IsRoot(run'[i].root)
      BY <2>3, <3>2
    <3>6. IsRoot(run[i].root)'
      BY <2>1, <2>3, <3>5 DEF IsRoot, FindRepoRoot
    <3>7. RootsOf(run'[i].seen) \subseteq scoutDirs' /\ Once(run'[i].seen)
      BY <2>1, <2>3, <3>4
    <3>8. (RootsOf(run[i].seen) \subseteq scoutDirs /\ Once(run[i].seen))'
      BY <3>7 DEF RootsOf, Once
    <3>9. (run[i].root \in scoutDirs
           /\ (run[i].root \in GitEntries => GitDir[run[i].root] \in excluded))'
      BY <2>1, <2>3, <3>3
    <3> QED
      BY <3>6, <3>8, <3>9 DEF RootReady
  <2>5. \A j \in Inits : ~InitAt(j, "idle")' => RootReady(j)'
    BY <2>1, <2>3, <2>4, OthersReady DEF RegistryInv
  <2> QED
    BY <1>1, <2>1, <2>5, RootsUntouched
<1>6. ASSUME NEW i \in Inits, WriteRegistry(i) PROVE RegistryInv'
  <2> DEFINE r == run[i]
  <2>1. /\ InitAt(i, "write_registry") /\ \E s \in {"end", "read_settings"} : InitGoto(i, s)
        /\ registry' = Registered(r.seen, r.root, r.kind, r.scope)
        /\ overlapped' = overlapped \cup (RootsOf(registry) \ RootsOf(r.seen))
        /\ reported' = reported \cup {r.root}
        /\ UNCHANGED <<scoutDirs, excluded>>
    BY <1>6 DEF WriteRegistry
  <2>2. r \in InitRuns
    BY <2>1, RunIs DEF RegistryInv, InitAt
  <2>3. RootReady(i) /\ r.step = "write_registry"
    BY <2>1 DEF RegistryInv, InitAt
  <2>4. r.root \in scoutDirs /\ RootsOf(r.seen) \subseteq scoutDirs /\ Once(r.seen)
    BY <2>3 DEF RootReady
  <2>5. /\ RootsOf(registry') = RootsOf(r.seen) \cup {r.root}
        /\ Once(registry')
    BY <2>1, <2>2, <2>4, RegisteredIs DEF InitRuns
  <2>6. /\ run'[i].step \in {"end", "read_settings"} /\ run'[i].root = r.root
        /\ \A j \in Inits \ {i} : run'[j] = run[j]
    BY <2>1, GotoRun DEF RegistryInv, RunSteps, InitAt
  <2>7. RootReady(i)'
    BY <2>1, <2>3, <2>6 DEF RootReady, IsRoot, FindRepoRoot
  <2>8. \A j \in Inits : ~InitAt(j, "idle")' => RootReady(j)'
    BY <2>1, <2>6, <2>7, OthersReady DEF RegistryInv
  <2>9. reported' \subseteq RootsOf(registry') \cup overlapped'
    BY <2>1, <2>5 DEF RegistryInv, ReportedRootsStay
  <2>10. RootsOf(registry') \subseteq scoutDirs
    BY <2>4, <2>5
  <2>11. ScoutDirIsExcluded'
    BY <2>1, <2>10 DEF RegistryInv, ScoutDirIsExcluded, RootsOf
  <2>12. ReportedRootsStay'
    BY <2>5, <2>9 DEF ReportedRootsStay, Once, RootsOf
  <2> QED
    BY <1>1, <2>1, <2>4, <2>8, <2>11, <2>12 DEF RegistryInv, IsRoot, FindRepoRoot
<1>7. ASSUME NEW i \in Inits, ReadSettings(i) PROVE RegistryInv'
  <2>1. /\ InitAt(i, "read_settings")
        /\ \E s \in {"end", "backup"} : run' = [run EXCEPT ![i].step = s, ![i].file = settings]
        /\ UNCHANGED <<scoutDirs, excluded, registry, reported, overlapped>>
    BY <1>7 DEF ReadSettings, Quietly, sharedFiles
  <2>2. run[i] \in InitRuns
    BY <2>1, RunIs DEF RegistryInv, InitAt
  <2>3. /\ run'[i].step \in {"end", "backup"} /\ run'[i].root = run[i].root
        /\ \A j \in Inits \ {i} : run'[j] = run[j]
    BY <2>1, <2>2 DEF RegistryInv, RegistryTypes, InitRuns
  <2>4. RootReady(i)'
    BY <2>1, <2>3 DEF RegistryInv, RootReady, IsRoot, FindRepoRoot, InitAt
  <2>5. \A j \in Inits : ~InitAt(j, "idle")' => RootReady(j)'
    BY <2>1, <2>3, <2>4, OthersReady DEF RegistryInv
  <2> QED
    BY <1>1, <2>1, <2>5, RootsUntouched
<1>8. ASSUME NEW i \in Inits, Backup(i) \/ WriteSettings(i) PROVE RegistryInv'
  <2>1. /\ run[i].step \in {"backup", "write_settings"}
        /\ \E s \in {"end", "write_settings"} : InitGoto(i, s)
        /\ UNCHANGED <<scoutDirs, excluded, registry, reported, overlapped>>
    BY <1>8 DEF Backup, WriteSettings, Quietly, InitAt
  <2>2. /\ run'[i].step \in {"end", "write_settings"} /\ run'[i].root = run[i].root
        /\ \A j \in Inits \ {i} : run'[j] = run[j]
    BY <2>1, GotoRun DEF RegistryInv, RunSteps, InitAt
  <2>3. RootReady(i)'
    BY <2>1, <2>2 DEF RegistryInv, RootReady, IsRoot, FindRepoRoot, InitAt
  <2>4. \A j \in Inits : ~InitAt(j, "idle")' => RootReady(j)'
    BY <2>1, <2>2, <2>3, OthersReady DEF RegistryInv
  <2> QED
    BY <1>1, <2>1, <2>4, RootsUntouched
<1>9. ASSUME NEW i \in Inits, End(i) \/ InitKilled(i) PROVE RegistryInv'
  <2>1. /\ run' = [run EXCEPT ![i] = Idle]
        /\ UNCHANGED <<scoutDirs, excluded, registry, reported, overlapped>>
    BY <1>9 DEF End, InitKilled, Quietly, sharedFiles
  <2>2. run'[i].step = "idle" /\ \A j \in Inits \ {i} : run'[j] = run[j]
    BY <2>1 DEF RegistryInv, RegistryTypes, Idle
  <2>3. \A j \in Inits : ~InitAt(j, "idle")' => RootReady(j)'
    BY <2>1, <2>2, OthersReady DEF RegistryInv, InitAt
  <2> QED
    BY <1>1, <2>1, <2>3, RootsUntouched
<1>10. CASE UserEditsSettings \/ UNCHANGED registryVars
  <2>1. UNCHANGED <<run, scoutDirs, excluded, registry, reported, overlapped>>
    BY <1>10 DEF UserEditsSettings, registryVars, sharedFiles
  <2>2. \A j \in Inits : ~InitAt(j, "idle")' => RootReady(j)'
    BY <2>1, OthersReady DEF RegistryInv
  <2> QED
    BY <1>1, <2>1, <2>2, RootsUntouched
<1> QED
  BY <1>2, <1>3, <1>4, <1>5, <1>6, <1>7, <1>8, <1>9, <1>10 DEF RegistryNext

(* Nothing is registered at first.                                           *)
LEMMA InitRegistryInv ==
    ASSUME RegistryInit
    PROVE  RegistryInv
<1>1. RegistryTypes
  BY InitAssumption DEF RegistryInit, RegistryTypes, SettingsFiles, Idle
<1>2. RootsOf(registry) = {} /\ DOMAIN registry = {}
  BY DEF RegistryInit, RootsOf
<1> QED
  BY <1>1, <1>2 DEF RegistryInit, RegistryInv, InitAt, Idle, ScoutDirIsExcluded, ReportedRootsStay

(* Git ignores every .scout in a repository and every registered root has    *)
(* its .scout, at whatever step an init is killed and however many run.      *)
THEOREM ScoutDirIsExcludedHolds == RegistrySpec => []ScoutDirIsExcluded
<1>1. RegistryInit => RegistryInv
  BY InitRegistryInv
<1>2. RegistryInv /\ [RegistryNext]_registryVars => RegistryInv'
  BY RegistryKept
<1>3. RegistryInv => ScoutDirIsExcluded
  BY DEF RegistryInv
<1> QED
  BY <1>1, <1>2, <1>3, PTL DEF RegistrySpec

(* A root that an init reported is in the registry, once, unless a writer    *)
(* that had read the registry before it wrote over it.                       *)
THEOREM ReportedRootsStayHolds == RegistrySpec => []ReportedRootsStay
<1>1. RegistryInit => RegistryInv
  BY InitRegistryInv
<1>2. RegistryInv /\ [RegistryNext]_registryVars => RegistryInv'
  BY RegistryKept
<1>3. RegistryInv => ReportedRootsStay
  BY DEF RegistryInv
<1> QED
  BY <1>1, <1>2, <1>3, PTL DEF RegistrySpec

-----------------------------------------------------------------------------
(* The hooks' climb ends where init's did.                                   *)

(* What lies above a directory lies above everything below it.               *)
LEMMA AboveIsAbove ==
    ASSUME NEW d \in Dirs, NEW marked,
           NEW m \in DOMAIN Up[d], NEW n \in Hits(d, marked), m <= n
    PROVE  Climb(Up[d][m], marked) # NoDir
<1>0. Up[d] \in Seq(Dirs) /\ DOMAIN Up[d] = 1 .. Len(Up[d]) /\ Len(Up[d]) \in Nat
  BY InitAssumption DEF FileSystem
<1>1. m \in Nat /\ n \in Nat /\ n \in 1 .. Len(Up[d]) /\ Up[d][n] \in marked
  BY <1>0 DEF Hits
<1>2. Up[d][m] \in Dirs /\ Up[Up[d][m]] = SubSeq(Up[d], m, Len(Up[d]))
  <2>1. Up[d][m] \in Dirs
    BY <1>0
  <2>2. \A k \in DOMAIN Up[d] : Up[Up[d][k]] = SubSeq(Up[d], k, Len(Up[d]))
    BY InitAssumption DEF FileSystem
  <2> QED
    BY <2>1, <2>2
<1>3. n - m + 1 \in DOMAIN Up[Up[d][m]] /\ Up[Up[d][m]][n - m + 1] = Up[d][n]
  <2> DEFINE s == Up[d]
             above == SubSeq(s, m, Len(s))
             k == n - m + 1
  <2>1. m \in 1 .. Len(s) /\ k \in 1 .. Len(s) - m + 1 /\ m + k - 1 = n
    BY <1>0, <1>1
  <2>2. s \in Seq(Dirs)
    BY <1>0
  <2> HIDE DEF s, k
  <2>3. k \in DOMAIN above /\ above[k] = s[m + k - 1]
    BY <2>1, <2>2
  <2> QED
    BY <1>2, <2>1, <2>3 DEF s, k
<1>4. n - m + 1 \in Hits(Up[d][m], marked)
  BY <1>1, <1>3 DEF Hits
<1> QED
  BY <1>2, <1>4, ClimbIs

(* The nearest .scout is the root that init took, once it is there: any      *)
(* nearer one would be a root below it, with a .git of its own or none above.*)
LEMMA NearestIsTheRoot ==
    ASSUME RegistryInv, NEW d \in Dirs,
           NEW root, root = IF FindRepoRoot(d) = NoDir THEN d ELSE FindRepoRoot(d),
           root \in reported
    PROVE  FindScoutRoot(d) = root
<1>1. root \in scoutDirs /\ (\A e \in scoutDirs : IsRoot(e))
  BY DEF RegistryInv
<1>2. Up[d] \in Seq(Dirs) /\ 1 \in DOMAIN Up[d] /\ Up[d][1] = d
  BY InitAssumption DEF FileSystem
<1>3. CASE FindRepoRoot(d) = NoDir
  <2>1. 1 \in Hits(d, scoutDirs)
    BY <1>1, <1>2, <1>3 DEF Hits
  <2>2. PICK n \in Hits(d, scoutDirs) :
            Climb(d, scoutDirs) = Up[d][n] /\ \A m \in Hits(d, scoutDirs) : n <= m
    BY <2>1, ClimbIs
  <2>3. n = 1
    BY <1>2, <2>1, <2>2 DEF Hits
  <2> QED
    BY <1>2, <1>3, <2>2, <2>3 DEF FindScoutRoot
<1>4. CASE FindRepoRoot(d) # NoDir
  <2>1. PICK g \in Hits(d, GitEntries) :
            FindRepoRoot(d) = Up[d][g] /\ \A m \in Hits(d, GitEntries) : g <= m
    BY <1>4, ClimbIs DEF FindRepoRoot
  <2>2. g \in Hits(d, scoutDirs)
    BY <1>1, <1>4, <2>1 DEF Hits
  <2>3. PICK n \in Hits(d, scoutDirs) :
            Climb(d, scoutDirs) = Up[d][n] /\ \A m \in Hits(d, scoutDirs) : n <= m
    BY <2>2, ClimbIs
  <2>4. g \in Nat /\ n \in Nat /\ n <= g /\ n \in DOMAIN Up[d]
    BY <1>2, <2>2, <2>3 DEF Hits
  <2>5. IsRoot(Up[d][n])
    BY <1>1, <2>3 DEF Hits
  <2>6. CASE Up[d][n] \in GitEntries
    BY <1>4, <2>1, <2>3, <2>4, <2>6 DEF Hits, FindScoutRoot
  <2>7. FindRepoRoot(Up[d][n]) # NoDir
    BY <2>1, <2>4, AboveIsAbove DEF FindRepoRoot
  <2> QED
    BY <2>5, <2>6, <2>7 DEF IsRoot
<1> QED
  BY <1>3, <1>4

(* After an init reported the root of a directory, a hook that climbs from   *)
(* there ends at that root, in every file system: nested checkouts,          *)
(* submodules and linked worktrees included.                                 *)
THEOREM HooksFindTheRootHolds == RegistrySpec => []HooksFindTheRoot
<1>1. RegistryInit => RegistryInv
  BY InitRegistryInv
<1>2. RegistryInv /\ [RegistryNext]_registryVars => RegistryInv'
  BY RegistryKept
<1>3. RegistryInv => HooksFindTheRoot
  BY NearestIsTheRoot DEF HooksFindTheRoot
<1> QED
  BY <1>1, <1>2, <1>3, PTL DEF RegistrySpec

-----------------------------------------------------------------------------
(* The agent's settings.                                                     *)

(* An init that does not move is as ready as it was.                         *)
LEMMA OthersSettings ==
    ASSUME NEW j \in Inits, run'[j] = run[j], SettingsReady(j),
           backups \subseteq backups', settings.shape = "ok" => settings'.shape = "ok"
    PROVE  SettingsReady(j)'
<1>1. CASE run[j].step \in {"backup", "write_settings"}
  <2>1. SettingsKept(run[j].file) /\ settings.shape = "ok"
    BY <1>1 DEF SettingsReady
  <2>2. SettingsKept(run[j].file)'
    BY <2>1 DEF SettingsKept
  <2> QED
    BY <2>1, <2>2 DEF SettingsReady
<1>2. CASE run[j].step \notin {"backup", "write_settings"}
  BY <1>2 DEF SettingsReady
<1> QED
  BY <1>1, <1>2

(* A step that leaves the file and its edits alone relies on the inits only. *)
LEMMA SettingsUntouched ==
    ASSUME SettingsInv, RegistryTypes', UNCHANGED <<settings, userEdits, raced>>,
           backups \subseteq backups', \A j \in Inits : ~InitAt(j, "idle")' => SettingsReady(j)'
    PROVE  SettingsInv'
<1>1. settings.shape = "ok" => SettingsKept(settings) /\ (settings.keys = userEdits \/ raced)
  BY DEF SettingsInv
<1>2. SettingsKept(settings) => SettingsKept(settings)'
  BY DEF SettingsKept
<1> QED
  BY <1>1, <1>2 DEF SettingsInv

(* Every step keeps the settings.                                            *)
LEMMA SettingsAreKept ==
    ASSUME SettingsInv, [RegistryNext]_registryVars
    PROVE  SettingsInv'
<1>1. RegistryTypes'
  BY TypesKept DEF SettingsInv
<1>2. ASSUME NEW i \in Inits, UNCHANGED <<settings, userEdits, raced, backups>>,
             run'[i].step \notin {"backup", "write_settings"},
             \A j \in Inits \ {i} : run'[j] = run[j]
      PROVE  SettingsInv'
  <2>1. SettingsReady(i)'
    BY <1>2 DEF SettingsReady
  <2>2. \A j \in Inits : ~InitAt(j, "idle")' => SettingsReady(j)'
    BY <1>2, <2>1, OthersSettings DEF SettingsInv, InitAt
  <2> QED
    BY <1>1, <1>2, <2>2, SettingsUntouched
<1>3. ASSUME NEW i \in Inits, NEW cwd \in Dirs, NEW scope \in ScopeArgs \cup {<<>>},
             NEW n \in BOOLEAN, StartInit(i, cwd, scope, n)
      PROVE  SettingsInv'
  <2> DEFINE gitRoot == FindRepoRoot(cwd)
             r == [step |-> IF gitRoot = NoDir THEN "mkdir" ELSE "exclude",
                   root |-> IF gitRoot = NoDir THEN cwd ELSE gitRoot,
                   scope |-> scope, noHooks |-> n,
                   kind |-> IF gitRoot = NoDir THEN "plain" ELSE "git",
                   seen |-> <<>>, file |-> [shape |-> "missing"]]
  <2>1. run' = [run EXCEPT ![i] = r] /\ UNCHANGED <<settings, userEdits, raced, backups>>
    BY <1>3 DEF StartInit, sharedFiles
  <2>2. r.step \in {"mkdir", "exclude"}
    OBVIOUS
  <2> HIDE DEF r
  <2>3. run'[i] = r /\ \A j \in Inits \ {i} : run'[j] = run[j]
    BY <2>1 DEF SettingsInv, RegistryTypes
  <2> QED
    BY <1>2, <2>1, <2>2, <2>3
<1>4. ASSUME NEW i \in Inits, Exclude(i) \/ MakeScoutDir(i) \/ WriteRegistry(i)
      PROVE  SettingsInv'
  <2>1. /\ ~InitAt(i, "idle") /\ UNCHANGED <<settings, userEdits, raced, backups>>
        /\ \E s \in {"mkdir", "read_registry", "end", "read_settings"} : InitGoto(i, s)
    BY <1>4 DEF Exclude, MakeScoutDir, WriteRegistry, Quietly, InitAt
  <2>2. /\ run'[i].step \in {"mkdir", "read_registry", "end", "read_settings"}
        /\ \A j \in Inits \ {i} : run'[j] = run[j]
    BY <2>1, GotoRun DEF SettingsInv, RunSteps
  <2> QED
    BY <1>2, <2>1, <2>2
<1>5. ASSUME NEW i \in Inits, ReadRegistry(i) PROVE SettingsInv'
  <2>1. /\ ~InitAt(i, "idle") /\ UNCHANGED <<settings, userEdits, raced, backups>>
        /\ run' = [run EXCEPT ![i].step = "write_registry", ![i].seen = registry]
    BY <1>5 DEF ReadRegistry, Quietly, InitAt, sharedFiles
  <2>2. run[i] \in InitRuns
    BY <2>1, RunIs DEF SettingsInv
  <2>3. run'[i].step = "write_registry" /\ \A j \in Inits \ {i} : run'[j] = run[j]
    BY <2>1, <2>2 DEF SettingsInv, RegistryTypes, InitRuns
  <2> QED
    BY <1>2, <2>1, <2>3
<1>6. ASSUME NEW i \in Inits, End(i) \/ InitKilled(i) PROVE SettingsInv'
  <2>1. run' = [run EXCEPT ![i] = Idle] /\ UNCHANGED <<settings, userEdits, raced, backups>>
    BY <1>6 DEF End, InitKilled, Quietly, sharedFiles
  <2>2. run'[i].step = "idle" /\ \A j \in Inits \ {i} : run'[j] = run[j]
    BY <2>1 DEF SettingsInv, RegistryTypes, Idle
  <2> QED
    BY <1>2, <2>1, <2>2
<1>7. ASSUME NEW i \in Inits, ReadSettings(i) PROVE SettingsInv'
  <2>1. /\ ~InitAt(i, "idle") /\ UNCHANGED <<settings, userEdits, raced, backups>>
        /\ \E s \in {"end", "backup"} :
              /\ run' = [run EXCEPT ![i].step = s, ![i].file = settings]
              /\ s = "backup" => settings.shape = "ok"
    BY <1>7 DEF ReadSettings, InitAt, Quietly, sharedFiles
  <2>2. run[i] \in InitRuns
    BY <2>1, RunIs DEF SettingsInv
  <2>3. /\ run'[i].step \in {"end", "backup"} /\ run'[i].file = settings
        /\ run'[i].step = "backup" => settings.shape = "ok"
        /\ \A j \in Inits \ {i} : run'[j] = run[j]
    BY <2>1, <2>2 DEF SettingsInv, RegistryTypes, InitRuns
  <2>4. run'[i].step = "backup" => SettingsKept(settings)
    BY <2>3 DEF SettingsInv
  <2>5. SettingsReady(i)'
    BY <2>1, <2>3, <2>4 DEF SettingsReady, SettingsKept
  <2>6. \A j \in Inits : ~InitAt(j, "idle")' => SettingsReady(j)'
    BY <2>1, <2>3, <2>5, OthersSettings DEF SettingsInv, InitAt
  <2> QED
    BY <1>1, <2>1, <2>6, SettingsUntouched
<1>8. ASSUME NEW i \in Inits, Backup(i) PROVE SettingsInv'
  <2>1. /\ run[i].step = "backup" /\ InitGoto(i, "write_settings")
        /\ backups' = backups \cup {run[i].file}
        /\ UNCHANGED <<settings, userEdits, raced>>
    BY <1>8 DEF Backup, Quietly, InitAt
  <2>2. /\ run'[i].step = "write_settings" /\ run'[i].file = run[i].file
        /\ \A j \in Inits \ {i} : run'[j] = run[j]
    BY <2>1, GotoRun DEF SettingsInv, RunSteps, InitAt
  <2>3. SettingsKept(run[i].file) /\ settings.shape = "ok"
    BY <2>1 DEF SettingsInv, SettingsReady, InitAt
  <2>4. SettingsReady(i)'
    BY <2>1, <2>2, <2>3 DEF SettingsReady, SettingsKept
  <2>5. \A j \in Inits : ~InitAt(j, "idle")' => SettingsReady(j)'
    BY <2>1, <2>2, <2>4, OthersSettings DEF SettingsInv, InitAt
  <2> QED
    BY <1>1, <2>1, <2>5, SettingsUntouched
<1>9. ASSUME NEW i \in Inits, WriteSettings(i) PROVE SettingsInv'
  <2> DEFINE file == run[i].file
  <2>1. /\ run[i].step = "write_settings" /\ InitGoto(i, "end")
        /\ settings' = MergeHooks(file)
        /\ raced' = (raced \/ settings.keys # file.keys)
        /\ UNCHANGED <<userEdits, backups>>
    BY <1>9 DEF WriteSettings, InitAt
  <2>2. run'[i].step = "end" /\ \A j \in Inits \ {i} : run'[j] = run[j]
    BY <2>1, GotoRun DEF SettingsInv, RunSteps, InitAt
  <2>3. /\ SettingsKept(file) /\ file \in backups /\ settings.shape = "ok"
        /\ settings.keys = userEdits \/ raced
    BY <2>1 DEF SettingsInv, SettingsReady, InitAt
  <2>4. /\ file.shape = "ok" /\ file.read \in {0, 1} /\ file.bash \in {0, 1}
        /\ file \in [shape : {"ok"}, keys : 0 .. MaxUserEdits, read : Nat, bash : Nat]
    <3>1. file \in SettingsFiles
      BY <2>1, RunIs DEF SettingsInv, InitRuns, InitAt
    <3>2. file.shape = "ok" /\ file.read <= 1 /\ file.bash <= 1
      BY <2>3 DEF SettingsKept
    <3> QED
      BY <3>1, <3>2 DEF SettingsFiles
  <2>5. /\ settings'.shape = "ok" /\ settings'.keys = file.keys
        /\ settings'.read = 1 /\ settings'.bash = 1
    BY <2>1, <2>4 DEF MergeHooks
  <2>6. \E b \in backups : b.bash = 0
    BY <2>3, <2>4 DEF SettingsKept
  <2>7. SettingsKept(settings)'
    BY <2>1, <2>5, <2>6 DEF SettingsKept
  <2>8. settings'.keys = userEdits' \/ raced'
    BY <2>1, <2>3, <2>5
  <2>9. SettingsReady(i)'
    BY <2>2 DEF SettingsReady
  <2>10. \A j \in Inits : ~InitAt(j, "idle")' => SettingsReady(j)'
    BY <2>1, <2>2, <2>5, <2>9, OthersSettings DEF SettingsInv, InitAt
  <2> QED
    BY <1>1, <2>7, <2>8, <2>10 DEF SettingsInv
<1>10. ASSUME UserEditsSettings PROVE SettingsInv'
  <2>1. /\ settings.shape = "ok" /\ userEdits' = userEdits + 1
        /\ settings' = [settings EXCEPT !.keys = userEdits']
        /\ UNCHANGED <<backups, run, raced>>
    BY <1>10 DEF UserEditsSettings
  <2>2. settings \in [shape : {"ok"}, keys : 0 .. MaxUserEdits, read : Nat, bash : Nat]
    BY <2>1 DEF SettingsInv, RegistryTypes, SettingsFiles
  <2>3. /\ settings'.shape = "ok" /\ settings'.keys = userEdits'
        /\ settings'.read = settings.read /\ settings'.bash = settings.bash
    BY <2>1, <2>2
  <2>4. SettingsKept(settings)
    BY <2>1 DEF SettingsInv
  <2>5. SettingsKept(settings)'
    BY <2>1, <2>3, <2>4 DEF SettingsKept
  <2>6. \A j \in Inits : ~InitAt(j, "idle")' => SettingsReady(j)'
    BY <2>1, <2>3, OthersSettings DEF SettingsInv, InitAt
  <2> QED
    BY <1>1, <2>3, <2>5, <2>6 DEF SettingsInv
<1>11. CASE UNCHANGED registryVars
  <2>1. UNCHANGED <<settings, userEdits, raced, backups, run>>
    BY <1>11 DEF registryVars, sharedFiles
  <2>2. \A j \in Inits : ~InitAt(j, "idle")' => SettingsReady(j)'
    BY <2>1, OthersSettings DEF SettingsInv, InitAt
  <2> QED
    BY <1>1, <2>1, <2>2, SettingsUntouched
<1> QED
  BY <1>3, <1>4, <1>5, <1>6, <1>7, <1>8, <1>9, <1>10, <1>11 DEF RegistryNext

(* No hook is in the file twice, a key is lost only to an edit between an    *)
(* init's read and its write, and the file as it was before the hooks is in  *)
(* a backup, for any number of inits and edits.                              *)
THEOREM SettingsSurviveHolds == RegistrySpec => []SettingsSurvive
<1>1. RegistryInit => SettingsInv
  <2> SUFFICES ASSUME RegistryInit PROVE SettingsInv
    OBVIOUS
  <2>1. RegistryTypes
    BY InitAssumption DEF RegistryInit, RegistryTypes, SettingsFiles, Idle
  <2>2. settings.shape = "ok" => SettingsKept(settings) /\ settings.keys = userEdits
    BY DEF RegistryInit, SettingsKept
  <2> QED
    BY <2>1, <2>2 DEF RegistryInit, SettingsInv, InitAt, Idle
<1>2. SettingsInv /\ [RegistryNext]_registryVars => SettingsInv'
  BY SettingsAreKept
<1>3. SettingsInv => SettingsSurvive
  BY DEF SettingsInv, SettingsSurvive, SettingsKept
<1> QED
  BY <1>1, <1>2, <1>3, PTL DEF RegistrySpec

-----------------------------------------------------------------------------
(* The types.                                                                *)

(* Git's directory of a root an init is about to exclude .scout in.          *)
Heading == \A i \in Inits : InitAt(i, "exclude") => GitCommonDir(run[i].root) \in Dirs

(* What is excluded, copied, reported or overlapped is there.                *)
FilesKnown ==
    /\ excluded \subseteq Dirs /\ backups \subseteq SettingsFiles
    /\ inits \in 0 .. MaxInits /\ reported \subseteq Dirs
    /\ overlapped \subseteq Dirs /\ raced \in BOOLEAN

InitTypes == RegistryTypes /\ Heading /\ InitTypeOK

(* What an init keeps of its own, where it goes on from a step of these.     *)
LEMMA HeadingKept ==
    ASSUME InitTypes, NEW i \in Inits, \A j \in Inits \ {i} : run'[j] = run[j], ~InitAt(i, "exclude")'
    PROVE  Heading'
<1>1. ASSUME NEW j \in Inits, InitAt(j, "exclude")' PROVE GitCommonDir(run'[j].root) \in Dirs
  <2>1. j # i /\ run'[j] = run[j]
    BY <1>1
  <2> QED
    BY <1>1, <2>1 DEF InitTypes, Heading, InitAt
<1> QED
  BY <1>1 DEF Heading, InitAt

(* An init excludes .scout in the directory Git keeps the root's common      *)
(* files in, which it has found.                                             *)
LEMMA StartTypes ==
    ASSUME InitTypes, NEW i \in Inits, NEW cwd \in Dirs, NEW scope, NEW n, StartInit(i, cwd, scope, n)
    PROVE  Heading' /\ inits' \in 0 .. MaxInits
<1>1. inits' \in 0 .. MaxInits
  BY InitAssumption DEF StartInit, InitTypes, InitTypeOK
<1>2. PICK gitRoot : gitRoot = FindRepoRoot(cwd)
  OBVIOUS
<1>3. gitRoot # NoDir => gitRoot \in GitEntries /\ GitCommonDir(gitRoot) \in Dirs
  <2>1. gitRoot # NoDir => GitCommonDir(gitRoot) # NoDir
    BY <1>2 DEF StartInit
  <2> QED
    BY <1>2, <2>1, ClimbEnds, InitAssumption DEF FindRepoRoot, FileSystem, GitCommonDir
<1> DEFINE root == IF gitRoot = NoDir THEN cwd ELSE gitRoot
           record == [step |-> IF gitRoot = NoDir THEN "mkdir" ELSE "exclude",
                      root |-> root, scope |-> scope, noHooks |-> n,
                      kind |-> IF gitRoot = NoDir THEN "plain" ELSE "git",
                      seen |-> <<>>, file |-> [shape |-> "missing"]]
<1>4. PICK r : /\ run' = [run EXCEPT ![i] = r]
               /\ r.step = "exclude" => gitRoot # NoDir /\ r.root = gitRoot
  <2>1. run' = [run EXCEPT ![i] = record]
    BY <1>2 DEF StartInit
  <2>2. record.step = "exclude" => gitRoot # NoDir /\ record.root = gitRoot
    OBVIOUS
  <2> HIDE DEF record
  <2> QED
    BY <2>1, <2>2
<1>5. run \in [Inits -> InitRuns \cup {Idle}]
  BY RunIs DEF InitTypes
<1>6. ASSUME NEW j \in Inits, InitAt(j, "exclude")' PROVE GitCommonDir(run'[j].root) \in Dirs
  <2>1. CASE j = i
    BY <1>3, <1>4, <1>5, <1>6, <2>1 DEF InitAt
  <2>2. CASE j # i
    <3>1. run'[j] = run[j]
      BY <1>4, <1>5, <2>2
    <3> QED
      BY <1>6, <3>1 DEF InitTypes, Heading, InitAt
  <2> QED
    BY <2>1, <2>2
<1> QED
  BY <1>1, <1>6 DEF Heading

LEMMA InitTypesKept ==
    ASSUME InitTypes, [RegistryNext]_registryVars
    PROVE  InitTypes'
<1>1. RegistryTypes'
  BY TypesKept DEF InitTypes
<1>2. FilesKnown
  BY DEF InitTypes, InitTypeOK, FilesKnown
<1>3. ASSUME NEW i \in Inits, NEW cwd \in Dirs, NEW scope \in ScopeArgs \cup {<<>>},
             NEW n \in BOOLEAN, StartInit(i, cwd, scope, n)
      PROVE  Heading' /\ FilesKnown'
  BY <1>2, <1>3, StartTypes DEF StartInit, sharedFiles, FilesKnown
<1>4. ASSUME NEW i \in Inits, ~InitAt(i, "idle"), NEW s \in RunSteps, s # "exclude", InitGoto(i, s)
      PROVE  Heading' /\ run[i] \in InitRuns
  <2>1. run'[i].step = s /\ \A j \in Inits \ {i} : run'[j] = run[j]
    BY <1>4, GotoRun DEF InitTypes
  <2>2. run[i] \in InitRuns
    BY <1>4, RunIs DEF InitTypes
  <2> QED
    BY <1>4, <2>1, <2>2, HeadingKept DEF InitAt
<1>5. ASSUME NEW i \in Inits, Exclude(i) PROVE Heading' /\ FilesKnown'
  <2>1. ~InitAt(i, "idle") /\ InitGoto(i, "mkdir")
    BY <1>5 DEF Exclude, InitAt
  <2>2. Heading'
    BY <1>4, <2>1 DEF RunSteps
  <2>3. GitCommonDir(run[i].root) \in Dirs
    BY <1>5 DEF Exclude, InitTypes, Heading
  <2> QED
    BY <1>2, <1>5, <2>2, <2>3 DEF Exclude, Quietly, FilesKnown
<1>6. ASSUME NEW i \in Inits, MakeScoutDir(i) PROVE Heading' /\ FilesKnown'
  <2>1. ~InitAt(i, "idle") /\ InitGoto(i, "read_registry")
    BY <1>6 DEF MakeScoutDir, InitAt
  <2>2. Heading'
    BY <1>4, <2>1 DEF RunSteps
  <2> QED
    BY <1>2, <1>6, <2>2 DEF MakeScoutDir, Quietly, FilesKnown
<1>7. ASSUME NEW i \in Inits, ReadRegistry(i) \/ ReadSettings(i) \/ End(i) \/ InitKilled(i)
      PROVE  Heading' /\ FilesKnown'
  <2>1. run \in [Inits -> InitRuns \cup {Idle}]
    BY RunIs DEF InitTypes
  <2>2. (\A j \in Inits \ {i} : run'[j] = run[j]) /\ run'[i].step # "exclude"
    BY <1>7, <2>1 DEF ReadRegistry, ReadSettings, End, InitKilled, InitRuns, Idle
  <2>3. Heading'
    BY <2>2, HeadingKept DEF InitAt
  <2> QED
    BY <1>2, <1>7, <2>3 DEF ReadRegistry, ReadSettings, End, InitKilled, Quietly, sharedFiles, FilesKnown
<1>8. ASSUME NEW i \in Inits, WriteRegistry(i) PROVE Heading' /\ FilesKnown'
  <2>1. PICK s \in {"end", "read_settings"} : InitGoto(i, s) /\ ~InitAt(i, "idle")
    BY <1>8 DEF WriteRegistry, InitAt
  <2>2. Heading' /\ run[i].root \in Dirs
    BY <1>4, <2>1 DEF RunSteps, InitRuns
  <2>3. RootsOf(registry) \subseteq Dirs
    <3>1. registry \in Seq(Entries)
      BY DEF InitTypes, RegistryTypes
    <3>2. \A k \in DOMAIN registry : registry[k] \in Entries
      BY <3>1
    <3> QED
      BY <3>2 DEF RootsOf, Entries
  <2>4. overlapped' \subseteq Dirs /\ reported' \subseteq Dirs
    BY <1>2, <1>8, <2>2, <2>3 DEF WriteRegistry, FilesKnown
  <2> QED
    BY <1>2, <1>8, <2>2, <2>4 DEF WriteRegistry, FilesKnown
<1>9. ASSUME NEW i \in Inits, Backup(i) PROVE Heading' /\ FilesKnown'
  <2>1. ~InitAt(i, "idle") /\ InitGoto(i, "write_settings")
    BY <1>9 DEF Backup, InitAt
  <2>2. Heading' /\ run[i].file \in SettingsFiles
    BY <1>4, <2>1 DEF RunSteps, InitRuns
  <2> QED
    BY <1>2, <1>9, <2>2 DEF Backup, Quietly, FilesKnown
<1>10. ASSUME NEW i \in Inits, WriteSettings(i) PROVE Heading' /\ FilesKnown'
  <2>1. ~InitAt(i, "idle") /\ InitGoto(i, "end")
    BY <1>10 DEF WriteSettings, InitAt
  <2>2. Heading'
    BY <1>4, <2>1 DEF RunSteps
  <2> QED
    BY <1>2, <1>10, <2>2 DEF WriteSettings, FilesKnown
<1>11. ASSUME UserEditsSettings \/ UNCHANGED registryVars PROVE Heading' /\ FilesKnown'
  <2>1. run' = run
    BY <1>11 DEF UserEditsSettings, registryVars
  <2>2. Heading'
    BY <2>1 DEF InitTypes, Heading, InitAt
  <2>3. UNCHANGED <<excluded, backups, inits, reported, overlapped, raced>>
    BY <1>11 DEF UserEditsSettings, registryVars, sharedFiles
  <2> QED
    BY <1>2, <2>2, <2>3 DEF FilesKnown
<1>12. ASSUME RegistryNext, ~UserEditsSettings PROVE Heading' /\ FilesKnown'
  <2>1. PICK i \in Inits :
          \/ \E cwd \in Dirs, scope \in ScopeArgs \cup {<<>>}, n \in BOOLEAN :
                StartInit(i, cwd, scope, n)
          \/ Exclude(i) \/ MakeScoutDir(i) \/ ReadRegistry(i) \/ WriteRegistry(i)
          \/ ReadSettings(i) \/ Backup(i) \/ WriteSettings(i)
          \/ End(i) \/ InitKilled(i)
    BY <1>12 DEF RegistryNext
  <2> QED
    BY <1>3, <1>5, <1>6, <1>7, <1>8, <1>9, <1>10, <2>1
<1>13. Heading' /\ FilesKnown'
  BY <1>11, <1>12
<1> QED
  BY <1>1, <1>13 DEF InitTypes, FilesKnown, InitTypeOK, RegistryTypes

(* An init excludes, marks, registers and backs up only directories and      *)
(* files there are, whatever runs at the same time or is killed.             *)
THEOREM InitTypeOKHolds == RegistrySpec => []InitTypeOK
<1>1. RegistryInit => InitTypes
  <2> SUFFICES ASSUME RegistryInit PROVE InitTypes
    OBVIOUS
  <2>1. RegistryTypes
    BY InitRegistryInv DEF RegistryInv
  <2>2. Heading
    BY DEF RegistryInit, Heading, InitAt, Idle
  <2>3. FilesKnown
    <3>1. excluded = {} /\ backups = {} /\ inits = 0 /\ reported = {} /\ overlapped = {} /\ raced = FALSE
      BY DEF RegistryInit
    <3>2. 0 \in 0 .. MaxInits
      BY InitAssumption
    <3> QED
      BY <3>1, <3>2 DEF FilesKnown
  <2> QED
    BY <2>1, <2>2, <2>3 DEF InitTypes, FilesKnown, InitTypeOK, RegistryTypes
<1>2. InitTypes => InitTypeOK
  BY DEF InitTypes
<1> QED
  BY <1>1, <1>2, InitTypesKept, PTL DEF RegistrySpec
=============================================================================
