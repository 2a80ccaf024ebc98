---------------------------- MODULE InitRegistry ----------------------------
(* `devscout init` (initcmd.rs) and the directory climbs it and the hooks    *)
(* rest on (repo.rs).  Inits may run at the same time, in one checkout or in *)
(* several, and share three files none of them locks: the Git directory's    *)
(* info/exclude, the registry of roots, and the agent's settings.json, which *)
(* its user edits as well.  An init may be killed at any step.               *)
EXTENDS Integers, Sequences, FiniteSetsExt

CONSTANTS
    Dirs,           \* the directories of the file system
    Up,             \* Up[d]: d, its dirname, and so on to the top directory
    GitDir,         \* GitDir[d]: the common Git directory that d/.git leads
                    \*   to, NoDir for a link that leads nowhere
    GitEntries,     \* the directories that have a .git entry
    NoDir,
    Inits,          \* init processes
    ScopeArgs,      \* the scope arguments an init may be given
    MaxInits,       \* bound on inits
    MaxUserEdits    \* bound on the user's edits of settings.json

(* dirname stays at the top; every other directory is above no one of those  *)
(* above it.  A .git entry leads to a directory or nowhere.                  *)
FileSystem ==
    /\ NoDir \notin Dirs
    /\ GitEntries \subseteq Dirs
    /\ GitDir \in [GitEntries -> Dirs \cup {NoDir}]
    /\ Up \in [Dirs -> Seq(Dirs)]
    /\ \A d \in Dirs :
        /\ Up[d] # <<>> /\ Up[d][1] = d
        /\ \A n \in DOMAIN Up[d] : Up[Up[d][n]] = SubSeq(Up[d], n, Len(Up[d]))

ASSUME InitAssumption == FileSystem /\ MaxInits \in Nat /\ MaxUserEdits \in Nat

VARIABLES
    excluded,       \* the Git directories whose info/exclude lists .scout/
    scoutDirs,      \* the directories that have a .scout
    registry,       \* the registry's entries, in the file's order
    settings,       \* the agent's settings.json
    backups,        \* the copies of settings.json made so far
    run,            \* run[i]: what init i was asked and has read
    inits,          \* inits so far
    userEdits,      \* the user's edits of settings.json so far
    reported,       \* the roots an init has reported initialized
    overlapped,     \* the roots a registry writer had not read when it wrote
    raced           \* a settings writer had not read the file as it was

sharedFiles == <<excluded, scoutDirs, registry, settings, backups>>
registryVars == <<sharedFiles, run, inits, userEdits, reported, overlapped, raced>>

Idle == [step |-> "idle"]

(* What settings.json may hold: the user's keys, one number per edit, and    *)
(* how many hook entries of either kind are under PostToolUse.               *)
SettingsFiles == [shape : {"ok"}, keys : 0 .. MaxUserEdits, read : Nat, bash : Nat]
                    \cup {[shape |-> "missing"], [shape |-> "unexpected"]}

Kinds == {"git", "plain"}
Entries == [root : Dirs, kind : Kinds, scope : ScopeArgs \cup {<<>>}]

InitTypeOK ==
    /\ excluded \subseteq Dirs
    /\ scoutDirs \subseteq Dirs
    /\ registry \in Seq(Entries)
    /\ settings \in SettingsFiles
    /\ backups \subseteq SettingsFiles
    /\ inits \in 0 .. MaxInits
    /\ userEdits \in 0 .. MaxUserEdits
    /\ reported \subseteq Dirs
    /\ overlapped \subseteq Dirs
    /\ raced \in BOOLEAN

RegistryInit ==
    /\ excluded = {}
    /\ scoutDirs = {}
    /\ registry = <<>>
    /\ settings \in {[shape |-> "missing"], [shape |-> "unexpected"],
                     [shape |-> "ok", keys |-> 0, read |-> 0, bash |-> 0],
                     [shape |-> "ok", keys |-> 0, read |-> 1, bash |-> 0]}
    /\ backups = {}
    /\ run = [i \in Inits |-> Idle]
    /\ inits = 0
    /\ userEdits = 0
    /\ reported = {}
    /\ overlapped = {}
    /\ raced = FALSE

-----------------------------------------------------------------------------
(* repo.rs.                                                                  *)

(* How far above d the directories with a marker are.                        *)
Hits(d, marked) == {n \in DOMAIN Up[d] : Up[d][n] \in marked}

(* A climb that goes on past the first directory with the marker.            *)
FaultyClimb(d, marked) ==
    IF Hits(d, marked) = {} THEN NoDir ELSE Up[d][Max(Hits(d, marked))]

(* climb: the nearest directory at or above d that has the marker.           *)
Climb(d, marked) ==
    IF Hits(d, marked) = {} THEN NoDir ELSE Up[d][Min(Hits(d, marked))]

FindRepoRoot(d) == Climb(d, GitEntries)
FindScoutRoot(d) == Climb(d, scoutDirs)

(* nested_git_repos: the subdirectories of d, one level down, with a .git.   *)
NestedGitRepos(d) == {s \in GitEntries : Len(Up[s]) > 1 /\ Up[s][2] = d}

-----------------------------------------------------------------------------
(* git_common_dir without its last step: a linked worktree's own directory.  *)
FaultyGitCommonDir(root) == root

(* git_common_dir: through the .git file and commondir.                      *)
GitCommonDir(root) == GitDir[root]

-----------------------------------------------------------------------------
(* cmd_init.                                                                 *)

InitAt(i, s) == run[i].step = s
InitGoto(i, s) == run' = [run EXCEPT ![i].step = s]

StartInit(i, cwd, scope, noHooks) ==
    LET gitRoot == FindRepoRoot(cwd)
        root == IF gitRoot = NoDir THEN cwd ELSE gitRoot
    IN
    /\ InitAt(i, "idle")
    /\ inits < MaxInits
    /\ gitRoot = NoDir => NestedGitRepos(root) = {}
    /\ gitRoot # NoDir => GitCommonDir(gitRoot) # NoDir
    /\ inits' = inits + 1
    /\ run' = [run EXCEPT ![i] =
            [step |-> IF gitRoot = NoDir THEN "mkdir" ELSE "exclude",
             root |-> root, scope |-> scope, noHooks |-> noHooks,
             kind |-> IF gitRoot = NoDir THEN "plain" ELSE "git",
             seen |-> <<>>, file |-> [shape |-> "missing"]]]
    /\ UNCHANGED <<sharedFiles, userEdits, reported, overlapped, raced>>

Quietly == UNCHANGED <<inits, userEdits, reported, overlapped, raced>>

(* ensure_scout_excluded; two inits that both miss the line append it twice, *)
(* which Git reads as once.                                                  *)
Exclude(i) ==
    /\ InitAt(i, "exclude")
    /\ excluded' = excluded \cup {GitCommonDir(run[i].root)}
    /\ InitGoto(i, "mkdir")
    /\ UNCHANGED <<scoutDirs, registry, settings, backups>>
    /\ Quietly

MakeScoutDir(i) ==
    /\ InitAt(i, "mkdir")
    /\ scoutDirs' = scoutDirs \cup {run[i].root}
    /\ InitGoto(i, "read_registry")
    /\ UNCHANGED <<excluded, registry, settings, backups>>
    /\ Quietly

ReadRegistry(i) ==
    /\ InitAt(i, "read_registry")
    /\ run' = [run EXCEPT ![i].step = "write_registry", ![i].seen = registry]
    /\ UNCHANGED sharedFiles
    /\ Quietly

(* A registration that keeps nothing but its own root.                       *)
FaultyRegistered(entries, root, kind, scope) ==
    <<[root |-> root, kind |-> kind, scope |-> scope]>>

(* register_root on the entries it read: the root's entry is updated in its  *)
(* place, an empty scope leaving the old one, or appended.                   *)
Registered(entries, root, kind, scope) ==
    LET Updated(e) == [e EXCEPT !.kind = kind,
                                !.scope = IF scope = <<>> THEN @ ELSE scope]
    IN  IF \E n \in DOMAIN entries : entries[n].root = root
        THEN [n \in DOMAIN entries |->
                IF entries[n].root = root THEN Updated(entries[n]) ELSE entries[n]]
        ELSE Append(entries, [root |-> root, kind |-> kind, scope |-> scope])

RootsOf(entries) == {entries[n].root : n \in DOMAIN entries}

(* The write replaces the file by a rename.  The core of init is done.       *)
WriteRegistry(i) ==
    LET r == run[i] IN
    /\ InitAt(i, "write_registry")
    /\ registry' = Registered(r.seen, r.root, r.kind, r.scope)
    /\ overlapped' = overlapped \cup (RootsOf(registry) \ RootsOf(r.seen))
    /\ reported' = reported \cup {r.root}
    /\ InitGoto(i, IF r.noHooks THEN "end" ELSE "read_settings")
    /\ UNCHANGED <<excluded, scoutDirs, settings, backups, inits, userEdits, raced>>

-----------------------------------------------------------------------------
(* install_hooks.                                                            *)

(* A merge that takes every file for one without hooks.                      *)
FaultyMergeHooks(s) == [s EXCEPT !.read = @ + 1, !.bash = @ + 1]

(* merge_hooks: each entry is added only where no command has it.            *)
MergeHooks(s) == [s EXCEPT !.read = IF @ = 0 THEN 1 ELSE @,
                           !.bash = IF @ = 0 THEN 1 ELSE @]

(* Nothing is written to a file of a shape the code does not know, nor when  *)
(* both hooks are there.                                                     *)
ReadSettings(i) ==
    /\ InitAt(i, "read_settings")
    /\ run' = [run EXCEPT
            ![i].step = IF settings.shape # "ok" \/ MergeHooks(settings) = settings
                        THEN "end" ELSE "backup",
            ![i].file = settings]
    /\ UNCHANGED sharedFiles
    /\ Quietly

Backup(i) ==
    /\ InitAt(i, "backup")
    /\ backups' = backups \cup {run[i].file}
    /\ InitGoto(i, "write_settings")
    /\ UNCHANGED <<excluded, scoutDirs, registry, settings>>
    /\ Quietly

WriteSettings(i) ==
    /\ InitAt(i, "write_settings")
    /\ settings' = MergeHooks(run[i].file)
    /\ raced' = (raced \/ settings.keys # run[i].file.keys)
    /\ InitGoto(i, "end")
    /\ UNCHANGED <<excluded, scoutDirs, registry, backups, inits, userEdits,
                   reported, overlapped>>

(* Whatever became of the hooks, init goes on to the first map and exits 0.  *)
End(i) ==
    /\ InitAt(i, "end")
    /\ run' = [run EXCEPT ![i] = Idle]
    /\ UNCHANGED sharedFiles
    /\ Quietly

(* An I/O error in the core ends an init as a kill does.                     *)
InitKilled(i) ==
    /\ ~InitAt(i, "idle")
    /\ run' = [run EXCEPT ![i] = Idle]
    /\ UNCHANGED sharedFiles
    /\ Quietly

UserEditsSettings ==
    /\ userEdits < MaxUserEdits
    /\ settings.shape = "ok"
    /\ userEdits' = userEdits + 1
    /\ settings' = [settings EXCEPT !.keys = userEdits']
    /\ UNCHANGED <<excluded, scoutDirs, registry, backups, run, inits,
                   reported, overlapped, raced>>

RegistryNext ==
    \/ \E i \in Inits :
        \/ \E cwd \in Dirs, scope \in ScopeArgs \cup {<<>>}, n \in BOOLEAN :
              StartInit(i, cwd, scope, n)
        \/ Exclude(i) \/ MakeScoutDir(i) \/ ReadRegistry(i) \/ WriteRegistry(i)
        \/ ReadSettings(i) \/ Backup(i) \/ WriteSettings(i)
        \/ End(i) \/ InitKilled(i)
    \/ UserEditsSettings

RegistrySpec == RegistryInit /\ [][RegistryNext]_registryVars

-----------------------------------------------------------------------------
(* What holds.                                                               *)

(* cmd_init writes the exclude first, "so a failure here leaves nothing      *)
(* created and nothing registered": whatever step an init dies at, Git       *)
(* ignores every .scout in a repository, worktrees included, and every       *)
(* registered root has its .scout.                                           *)
ScoutDirIsExcluded ==
    /\ \A d \in scoutDirs \cap GitEntries : GitDir[d] \in excluded
    /\ RootsOf(registry) \subseteq scoutDirs

(* A root init reported stays registered, once, under whatever later inits   *)
(* do; it is lost only to a writer that had read the registry before.        *)
ReportedRootsStay ==
    /\ reported \subseteq RootsOf(registry) \cup overlapped
    /\ \A m, n \in DOMAIN registry : registry[m].root = registry[n].root => m = n

(* The hooks find what init made: after an init reported the root of a       *)
(* directory, a file read there belongs to that root and no nearer or        *)
(* farther one.                                                              *)
HooksFindTheRoot ==
    \A d \in Dirs :
        LET root == IF FindRepoRoot(d) = NoDir THEN d ELSE FindRepoRoot(d)
        IN  root \in reported => FindScoutRoot(d) = root

(* "Every other key in the file is kept" and each hook is installed once: no *)
(* interleaving of inits and edits adds a second entry, a key is lost only   *)
(* to an edit between an init's read and its write, and then the file that   *)
(* init read is in a backup.                                                 *)
SettingsSurvive ==
    settings.shape = "ok" =>
        /\ settings.read <= 1 /\ settings.bash <= 1
        /\ settings.keys = userEdits \/ raced
        /\ settings.bash = 1 => \E b \in backups : b.bash = 0
=============================================================================
