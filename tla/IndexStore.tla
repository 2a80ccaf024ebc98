----------------------------- MODULE IndexStore -----------------------------
(* The files of the index, all of them in the Git common directory and so    *)
(* shared by every checkout of a repository (a root without Git keeps them   *)
(* to itself): the freshness record, the digest table, manifest.json,        *)
(* graph.json, the staleness sidecars and the fragment cache with its index. *)
(*                                                                           *)
(* Every write is a temporary file renamed over the old one, so a reader     *)
(* sees one whole version or another.  A version is told apart by the file   *)
(* identity (length, mtime, device, inode) that `ArtifactIdentity::of` reads; *)
(* here a number that the next write of the same file increases.             *)
EXTENDS WorkTree

CONSTANTS
    Sources,        \* paths with an extension of SOURCE_EXT: the manifest's
    GraphSources,   \* those that contribute a fragment to the graph
    Settings,       \* appsettings*.json: sources the transport facts read
    ResolverInputs, \* tsconfig.json, package.json: sources the TS resolver reads
    ProjectConfigs, \* .csproj and Directory.Build.props
    CargoConfigs,   \* Cargo.toml
    SiteContents,   \* bytes whose fragment holds a transport site
    WeakContents,   \* bytes whose best purpose source is never reached
    Lanes,          \* the enriched-lane records a run may owe, None for no record
    Scopes,         \* the scopes a map may be given, each a set of paths
    None,           \* no value
    Unread          \* the key 0 of a file that could not be read

Configs == ProjectConfigs \cup CargoConfigs

ASSUME StoreAssumption ==
    /\ Files = Sources \cup Configs
    /\ Sources \cap Configs = {}
    /\ ProjectConfigs \cap CargoConfigs = {}
    /\ GraphSources \subseteq Sources
    /\ Settings \subseteq Sources \ GraphSources
    /\ ResolverInputs \subseteq Sources \ (GraphSources \cup Settings)
    /\ SiteContents \subseteq Contents
    /\ WeakContents \subseteq Contents
    /\ Scopes \subseteq SUBSET Files
    /\ None \notin Contents \cup {Absent} \cup Worktrees
    /\ None \notin Nat
    /\ \A paths \in SUBSET Files : None # paths
    /\ None \notin [Settings -> Contents \cup {Absent}]
    /\ Unread \notin Contents \cup {Absent, None}

VARIABLES
    record,     \* index-state.json
    digests,    \* index-digests.json
    manifest,   \* manifest.json
    graph,      \* graph.json
    units,      \* the project-model sidecar
    crates,     \* the Cargo-model sidecar
    transport,  \* the transport-input sidecar, None when there is no file
    cache,      \* the fragment cache
    index,      \* the fragment cache's index of reuse keys
    refresh     \* the checkouts whose private refresh-needed flag is up

certVars == <<record, digests>>
sidecarVars == <<units, crates, transport>>
fragmentVars == <<cache, index>>
storeVars == <<certVars, manifest, graph, sidecarVars, fragmentVars, refresh>>

Bytes == Contents \cup {Absent}

(* The worktree's canonical Git administrative directory; a root without one *)
(* owns nothing.                                                             *)
OwnerOf(w) == IF HasGit THEN w ELSE None

-----------------------------------------------------------------------------
(* The four readings of index-state.json.  A published record that lost its  *)
(* dirty_at_map reads as uncertifiable, and so does another build's shape.   *)
Missing == [state |-> "missing"]
Uncertifiable == [state |-> "uncertifiable"]
InProgress(o) == [state |-> "in-progress", owner |-> o]
IsPublished(r) == r.state = "published"

(* graph.inputs[f]: the bytes of f the graph was built from, Absent when f   *)
(* contributed nothing, None when the build had no reason to read f.         *)
(* `by` is the run that wrote the file (0: nobody, or another build); it is  *)
(* in no file and no action reads it, only the properties do.                *)
NoGraph == [id |-> 0, by |-> 0, inputs |-> [f \in Files |-> Absent], lane |-> None]
NoManifest == [id |-> 0, by |-> 0, head |-> None,
               entries |-> [f \in Sources |-> None]]
NoFragments == [owner |-> None, entries |-> [f \in GraphSources |-> None]]

(* A cache or index another worktree wrote reads as empty.                   *)
OwnEntries(stamped, w) ==
    IF stamped.owner = OwnerOf(w) THEN stamped.entries ELSE NoFragments.entries

(* Neither sidecar of a model is kept when no file of the model exists.      *)
NoModel(S) == [f \in S |-> Absent]

StoreInit ==
    /\ record = Missing
    /\ digests = [gen |-> 0, files |-> [f \in Sources |-> None]]
    /\ manifest = NoManifest
    /\ graph = NoGraph
    /\ units = NoModel(ProjectConfigs)
    /\ crates = NoModel(CargoConfigs)
    /\ transport = None
    /\ cache = NoFragments
    /\ index = NoFragments
    /\ refresh = {}

-----------------------------------------------------------------------------
(* Which paths a freshness verdict over scope s depends on: the sources and  *)
(* the configuration inputs the scope reaches.                               *)
Relevant(s) == s

Keys == Contents \cup {None, Unread}
Certificates ==
    [state : {"published"}, owner : Worktrees, gen : Nat, head : Nat \cup {None},
     scope : Scopes, dirty : SUBSET Files, configs : [Configs -> Contents \cup {None}],
     graphId : Nat, manifestId : Nat]
Records ==
    {Missing, Uncertifiable} \cup {InProgress(w) : w \in Worktrees} \cup Certificates
Manifests == [id : Nat, by : Nat, head : Nat \cup {None}, entries : [Sources -> Keys]]
Graphs == [id : Nat, by : Nat, inputs : [Files -> Bytes \cup {None, Unread}],
           lane : Lanes \cup {None}]
Fragmented == [GraphSources -> Contents \cup {None}]
Stamps == [owner : Worktrees \cup {None}, entries : Fragmented]

StoreTypeOK ==
    /\ record \in Records
    /\ digests \in [gen : Nat, files : [Sources -> Contents \cup {None}]]
    /\ manifest \in Manifests
    /\ graph \in Graphs
    /\ units \in [ProjectConfigs -> Bytes]
    /\ crates \in [CargoConfigs -> Bytes]
    /\ transport \in {None} \cup [Settings -> Bytes]
    /\ cache \in Stamps
    /\ index \in Stamps
    /\ refresh \subseteq Worktrees
=============================================================================
