--------------------------- MODULE IndexProtocol ----------------------------
(* Maps and queries of one repository running at once over one index, while  *)
(* the user edits, commits and switches branches, processes die and another  *)
(* build writes the same files.  Nothing but the files and the map lock      *)
(* connects the processes.                                                   *)
EXTENDS MapRun, Validation

CONSTANTS
    Environment,    \* which of EnvironmentEvents may happen
    MaxForeign      \* bound on the other build's writes

(* What a run may leave out, so that each property is checked with exactly   *)
(* the disturbances it is meant to survive:                                  *)
(*   "crash"             a map is killed or fails between two steps          *)
(*   "foreign"           a 0.9.0 build writes the index without the lock     *)
(*   "hook"              the read hook raises the refresh-needed flag        *)
(*   "restore-in-map"    a file read dirty is put back before the map ends   *)
(*   "settings-in-map"   a file resolution reads again changes during a map  *)
(*   "head-moves-in-map" HEAD moves between a map's two status reads         *)
(*   "head-moves-in-query" HEAD moves while a query judges its candidates    *)
(*   "edit-in-query"     a file changes while a query judges its candidates  *)
EnvironmentEvents == {"crash", "foreign", "hook", "restore-in-map", "settings-in-map",
                      "head-moves-in-map", "head-moves-in-query", "edit-in-query"}

ASSUME EnvironmentAssumption ==
    /\ Environment \subseteq EnvironmentEvents
    /\ MaxForeign \in Nat

VARIABLES
    foreign,    \* writes the other build has made
    calm        \* calm[w]: history; the run since whose lock no file, HEAD or
                \* foreign write has disturbed checkout w, 0 for none

vars == <<worldVars, storeVars, mapVars, queryVars, foreign, calm>>

Allowed(event) == event \in Environment

-----------------------------------------------------------------------------
(* The world's steps.                                                        *)

(* Between a run's two status reads.                                         *)
BetweenStatuses ==
    LockedSteps \ {"prior", "status0", "digests", "publish", "finish"}

MidMap(w) == \E m \in Mappers : Root(m) = w /\ mpc[m] \in BetweenStatuses

(* A file put back to its committed bytes, seen dirty by neither status read. *)
Hides(w, f, c) ==
    /\ c = CommittedTree(w)[f]
    /\ \E m \in Mappers :
         /\ Root(m) = w
         /\ mpc[m] \in BetweenStatuses
         /\ run[m].dirty0 # None /\ f \notin run[m].dirty0

Judging(w) == \E q \in Queriers : ask[q].root = w /\ qpc[q] \in JudgingSteps

UserEdits(w, f, c) ==
    /\ Hides(w, f, c) => Allowed("restore-in-map")
    /\ f \in Settings \cup ResolverInputs /\ MidMap(w) => Allowed("settings-in-map")
    /\ Judging(w) => Allowed("edit-in-query")
    /\ Edit(w, f, c)
    /\ calm' = [calm EXCEPT ![w] = 0]
    /\ UNCHANGED <<storeVars, mapVars, queryVars, foreign>>

HeadMoves(w) ==
    /\ Commit(w) \/ \E c \in 1 .. Len(commits) : Switch(w, c)
    /\ (\E m \in Mappers : Root(m) = w /\ mpc[m] \in BetweenStatuses \cup {"status0"})
          => Allowed("head-moves-in-map")
    /\ Judging(w) => Allowed("head-moves-in-query")
    /\ calm' = [calm EXCEPT ![w] = 0]
    /\ UNCHANGED <<storeVars, mapVars, queryVars, foreign>>

(* An older build renames its own graph, manifest or record into place; it   *)
(* takes no lock and its record is one this build cannot certify.            *)
ForeignInputs == [f \in Files |-> Unread]

ForeignWrite ==
    /\ Allowed("foreign")
    /\ foreign < MaxForeign
    /\ foreign' = foreign + 1
    /\ \/ /\ graph' = [id |-> graph.id + 1, by |-> 0, inputs |-> ForeignInputs,
                       lane |-> None]
          /\ UNCHANGED <<manifest, record>>
       \/ /\ manifest' = [id |-> manifest.id + 1, by |-> 0, head |-> None,
                          entries |-> [f \in Sources |-> Unread]]
          /\ UNCHANGED <<graph, record>>
       \/ record' = Uncertifiable /\ UNCHANGED <<graph, manifest>>
    /\ calm' = [w \in Worktrees |-> 0]
    /\ UNCHANGED <<worldVars, digests, sidecarVars, fragmentVars, refresh,
                   mapVars, queryVars>>

(* hookio.rs: a whole-file read finds HEAD away from the manifest's.         *)
HookRaisesFlag(w) ==
    /\ Allowed("hook")
    /\ w \notin refresh
    /\ manifest.head # None
    /\ manifest.head # GitHead(w)
    /\ refresh' = refresh \cup {w}
    /\ UNCHANGED <<worldVars, certVars, manifest, graph, sidecarVars, fragmentVars,
                   mapVars, queryVars, foreign, calm>>

-----------------------------------------------------------------------------
Init ==
    /\ WorldInit
    /\ StoreInit
    /\ MapInit
    /\ QueryInit
    /\ foreign = 0
    /\ calm = [w \in Worktrees |-> 0]

MapActs(m) ==
    /\ \/ MapStep(m)
       \/ \E w \in Worktrees, s \in Scopes : Start(m, w, s)
       \/ Allowed("crash") /\ Crash(m)
    /\ calm' = IF At(m, "lock") /\ mpc'[m] = "prior"
               THEN [calm EXCEPT ![Root(m)] = gens'] ELSE calm
    /\ UNCHANGED <<queryVars, foreign>>

QueryActs(q) ==
    /\ \/ QueryStep(q)
       \/ \E w, a \in Worktrees : Open(q, w, a)
       \/ Close(q)
    /\ UNCHANGED <<mapVars, foreign, calm>>

WorldActs ==
    \/ \E w \in Worktrees, f \in Files, c \in Contents \cup {Absent} : UserEdits(w, f, c)
    \/ \E w \in Worktrees : HeadMoves(w) \/ HookRaisesFlag(w)
    \/ ForeignWrite

Next ==
    \/ \E m \in Mappers : MapActs(m)
    \/ \E q \in Queriers : QueryActs(q)
    \/ WorldActs

Spec == Init /\ [][Next]_vars

(* A started run and an asked query go on by themselves: nothing in the code *)
(* waits but the lock.  Starting, asking, crashing and the world are free.   *)
FairSpec ==
    /\ Spec
    /\ \A m \in Mappers : WF_vars(MapStep(m) /\ MapActs(m))
    /\ \A q \in Queriers : WF_vars(QueryStep(q) /\ QueryActs(q))

-----------------------------------------------------------------------------
(* Properties.                                                               *)

TypeOK ==
    /\ WorldTypeOK
    /\ StoreTypeOK
    /\ MapTypeOK
    /\ QueryTypeOK
    /\ foreign \in 0 .. MaxForeign
    /\ calm \in [Worktrees -> Nat]

(* Two maps never hold the repository at once (publish.rs: two runs over one *)
(* repository serialize rather than interleave).                             *)
MapsSerialize ==
    \A m, n \in Mappers :
        mpc[m] \in LockedSteps /\ mpc[n] \in LockedSteps => m = n

(* From its first write to its record a run leaves no certificate on disk,   *)
(* so a query racing it, or one asked after it died, finds the marker        *)
(* (publish.rs: never a record certifying a half-written pair).              *)
NoCertificateMidRun ==
    HasGit => \A m \in Mappers : mpc[m] \in MarkedSteps => ~IsPublished(record)

(* While the artifacts a record names are the ones on disk, everything it    *)
(* certifies came from the same bytes: for each file of its scope, the       *)
(* digest, the manifest key and what the graph was resolved from, fragments  *)
(* kept from earlier runs included.  No file the digest table knows has      *)
(* dropped out of the graph.                                                 *)
CertifiedIndexIsWhole ==
    (IsPublished(record) /\ record.graphId = graph.id
                         /\ record.manifestId = manifest.id) =>
        /\ digests.gen = record.gen
        /\ \A f \in record.scope \cap Sources :
              \/ manifest.entries[f] = digests.files[f]
              \/ manifest.entries[f] = Unread /\ digests.files[f] = None
        /\ \A f \in record.scope \cap GraphSources :
              graph.inputs[f] = IF digests.files[f] = None THEN Absent
                                ELSE digests.files[f]
        /\ \A c \in record.scope \cap Configs :
              graph.inputs[c] = IF record.configs[c] = None THEN Absent
                                ELSE record.configs[c]

(* The step in which q's answer comes out, and its verdict.                  *)
Answers(q, verdict) ==
    /\ qpc[q] # "answered" /\ qpc'[q] = "answered"
    /\ ask'[q].verdict = verdict

(* An answer labelled fresh was read from exactly the two artifacts the      *)
(* record certifies, whatever maps, crashes or foreign writes came between   *)
(* (validate.rs: never certifying a graph it did not read).                  *)
FreshReadsCertified ==
    [][\A q \in Queriers : Answers(q, "fresh") =>
          /\ IsPublished(ask[q].snapshot)
          /\ ask[q].graph.id = ask[q].snapshot.graphId
          /\ ask[q].manifest.id = ask[q].snapshot.manifestId]_vars

(* ... and the manifest among them was written by the very run that          *)
(* published the record (publish.rs: never a half-written pair).             *)
FreshPairIsOneRuns ==
    [][\A q \in Queriers : Answers(q, "fresh") =>
          ask[q].manifest.by = ask[q].snapshot.gen]_vars

(* Fresh means the graph the answer came from was built from the bytes the   *)
(* asking worktree holds now, for every file of the published scope          *)
(* (freshness.rs: the bytes it indexed still match the working tree).        *)
FreshMeansIndexedBytes ==
    [][\A q \in Queriers : Answers(q, "fresh") =>
          \A f \in ask[q].snapshot.scope :
              ask[q].graph.inputs[f] \in {tree[ask[q].asking][f], None}]_vars

(* Once a map has run over an undisturbed checkout, a query of that checkout *)
(* is answered fresh until something changes or another map takes over: the  *)
(* validation raises no false alarm.                                         *)
CalmIndexIsFresh ==
    [][\A q \in Queriers :
          (/\ qpc[q] # "answered" /\ qpc'[q] = "answered"
           /\ ask[q].asking = ask[q].root
           /\ IsPublished(ask[q].snapshot)
           /\ ask[q].snapshot.gen = calm[ask[q].root])
          => ask'[q].verdict \in {"fresh", "index-changed"}]_vars

(* When a map ends, reused fragments and a graph it left alone included, the *)
(* graph on disk is the one a build from scratch would have made from the    *)
(* bytes this run read (concepts.md: re-parses only what changed and leaves  *)
(* the graph alone when nothing moved).                                      *)
FinishedMapOwnsGraph ==
    [][\A m \in Mappers : mpc[m] # "finish" /\ mpc'[m] = "finish" =>
          /\ \A f \in GraphSources : graph.inputs[f] =
                IF run[m].keys[f] \in {None, Unread} THEN Absent ELSE run[m].keys[f]
          /\ \A c \in Configs : graph.inputs[c] = run[m].configs[c]]_vars

(* The refresh-needed flag of a checkout comes down only over a manifest its *)
(* own map has put in place.                                                 *)
FlagFallsOverOwnManifest ==
    [][\A w \in Worktrees : w \in refresh /\ w \notin refresh' =>
          \E m \in Mappers : Root(m) = w /\ manifest.by = run[m].gen]_vars

(* A scoped map carries every manifest entry outside its scope through       *)
(* (mapcmd.rs header, "Scoped-merge behavior").                              *)
ScopedMapMerges ==
    [][\A m \in Mappers : mpc[m] = "manifest" /\ mpc'[m] = "rebuild" =>
          \A f \in Sources \ run[m].scope :
              manifest'.entries[f] = manifest.entries[f]]_vars

(* Every started map ends, and no query waits for a map, dead or alive.      *)
MapsEnd == \A m \in Mappers : mpc[m] # "idle" ~> mpc[m] = "idle"
QueriesEnd == \A q \in Queriers :
    qpc[q] \notin {"idle", "answered"} ~> qpc[q] = "answered"
=============================================================================
