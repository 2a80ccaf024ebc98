---------------------------- MODULE CompilerFacts ----------------------------
(* The compiler-facts artifact: the engine run that captures a candidate     *)
(* (graph/compiler_facts/run.rs), the admission both `run` and `import` go   *)
(* through (admit.rs), and the lane decision a map takes over what is on     *)
(* disk (semantic/lane.rs, semantic/freshness.rs).  The verbs, the engine,   *)
(* the thread that reads its output and the user's checkout all move at      *)
(* their own pace; no lock is held anywhere.                                 *)
EXTENDS Naturals, Sequences, FiniteSets

CONSTANTS
    Verbs,          \* `compiler-facts run` and `import` processes
    Produce,        \* what an engine or a build may produce
    Earlier,        \* what an earlier run may have left
    OutputCap,      \* the byte cap, in the pieces an output is written in
    MaxVerbs,       \* bound on runs and imports
    MaxLanes,       \* bound on lane decisions
    MaxMoves        \* bound on the user's edits, commits and switches

(* Every candidate has a size and either parses or does not.                 *)
ASSUME FactsAssumption ==
    /\ OutputCap \in Nat
    /\ \A c \in Produce : /\ {"size", "parses"} \subseteq DOMAIN c
                          /\ c.size \in Nat /\ c.parses \in BOOLEAN

VARIABLES
    checkout,       \* [head, dirty, import]: HEAD, whether the tree is dirty,
                    \*   and the content of an import outside the checkout
    moves,          \* the user's moves so far
    artifact,       \* the bytes at the compiler-facts path
    verb,           \* verb[v]: the step a verb is at and what it holds
    engine,         \* engine[v]: the engine process of a run
    reader,         \* reader[v]: the thread that drains the engine's stdout
    verbs, lanes,   \* verbs started and lanes decided so far
    lane,           \* the lane decision of a map
    seen,           \* history: what was checked out, as [head, dirty], at some
                    \*   instant between a decision's reads of artifact and HEAD
    lapses          \* history: how a dirty tree went by the decision's checks

history == <<seen, lapses>>
factsVars == <<checkout, moves, artifact, verb, engine, reader, verbs, lanes, lane, history>>

Heads == 0 .. MaxMoves
NoHead == MaxMoves + 1
NoArtifact == [size |-> 0]
Unreadable == [size |-> 1, parses |-> FALSE]
IdleVerb == [step |-> "idle"]
NoEngine == [phase |-> "none"]
NoReader == [msg |-> "off"]
IdleLane == [step |-> "idle", record |-> "none"]

-----------------------------------------------------------------------------
(* admit.rs: the checks in their fixed order; the first that fails names the *)
(* refusal.  A candidate's compilations map an identity to its fingerprint,  *)
(* "none" for an unsupported one, and its state; `declares` holds those of   *)
(* the build's own constants that the candidate states as the build does.    *)

Coherent(c) == c.processed \cap c.missing = {}

Fingerprints(c) == [i \in DOMAIN c.compilations |-> c.compilations[i].fingerprint]

SitesKnown(c) == c.sites \subseteq DOMAIN c.compilations

SitesSupported(c) ==
    \A i \in c.sites \cap DOMAIN c.compilations : c.compilations[i].fingerprint # "none"

Checks(c, expected) == <<
    [fails |-> ~c.parses,                        reason |-> "malformed-encoding"],
    [fails |-> ~c.terminal,                      reason |-> "missing-completion-record"],
    [fails |-> ~Coherent(c),                     reason |-> "incoherent-inventory"],
    [fails |-> c.hasSites # c.claimsSites,       reason |-> "occurrence-capability-mismatch"],
    [fails |-> ~SitesKnown(c),                   reason |-> "occurrence-compilation-unknown"],
    [fails |-> ~SitesSupported(c),               reason |-> "occurrence-compilation-unsupported"],
    [fails |-> "contract" \notin c.declares,     reason |-> "contract-version-mismatch"],
    [fails |-> "producer" \notin c.declares,     reason |-> "producer-mismatch"],
    [fails |-> "revision" \notin c.declares,     reason |-> "engine-revision-mismatch"],
    [fails |-> c.profile # expected.profile,     reason |-> "profile-mismatch"],
    [fails |-> "dependencies" \notin c.declares, reason |-> "dependency-fingerprint-mismatch"],
    [fails |-> "schema" \notin c.declares,       reason |-> "context-envelope-version-unrecognised"],
    [fails |-> c.summary # Fingerprints(c),      reason |-> "context-fingerprint-mismatch"],
    [fails |-> expected.known /\ c.head # expected.head,
                                                 reason |-> "source-snapshot-mismatch"] >>

Failing(c, expected) == {n \in 1 .. 14 : Checks(c, expected)[n].fails}

First(ns) == CHOOSE n \in ns : \A m \in ns : n <= m

(* An admission that leaves the source snapshot to the lane decision.        *)
FaultyRefusal(c, expected) ==
    LET failing == Failing(c, expected) \ {14}
    IN  IF failing = {} THEN "admitted" ELSE Checks(c, expected)[First(failing)].reason

Refusal(c, expected) ==
    IF Failing(c, expected) = {} THEN "admitted"
    ELSE Checks(c, expected)[First(Failing(c, expected))].reason

(* What an admission expects of a candidate; a HEAD that Git cannot name is  *)
(* expected of none.                                                         *)
ExpectedAt(head, known) == [profile |-> "asked", head |-> head, known |-> known]

(* Nothing runs; an earlier run may have published at the first commit.      *)
FactsInit ==
    /\ checkout = [head |-> 0, dirty |-> FALSE, import |-> 0]
    /\ moves = 0
    /\ \/ artifact \in {NoArtifact, Unreadable}
       \/ artifact \in Earlier /\ \E known \in BOOLEAN :
                                   Refusal(artifact, ExpectedAt(0, known)) = "admitted"
    /\ verb = [v \in Verbs |-> IdleVerb]
    /\ engine = [v \in Verbs |-> NoEngine]
    /\ reader = [v \in Verbs |-> NoReader]
    /\ verbs = 0 /\ lanes = 0
    /\ lane = IdleLane
    /\ seen = {} /\ lapses = {}

-----------------------------------------------------------------------------
(* run_engine.                                                               *)

VerbAt(v, s) == verb[v].step = s

(* The verb's end; an engine that still runs is killed and waited for first, *)
(* and what its reader sends finds nobody.                                   *)
Ends(v) ==
    /\ verb' = [verb EXCEPT ![v] = IdleVerb]
    /\ engine' = [engine EXCEPT ![v] = NoEngine]
    /\ reader' = [reader EXCEPT ![v] = NoReader]

Spawn(v, c) ==
    /\ VerbAt(v, "idle")
    /\ verbs < MaxVerbs
    /\ verbs' = verbs + 1
    /\ verb' = [verb EXCEPT ![v] = [step |-> "capture", late |-> FALSE]]
    /\ engine' = [engine EXCEPT ![v] = [phase |-> "writing", made |-> c, wrote |-> 0]]
    /\ reader' = [reader EXCEPT ![v] = [msg |-> "none", read |-> 0]]
    /\ UNCHANGED <<checkout, moves, artifact, lanes, lane, history>>

CaptureStep == UNCHANGED <<checkout, moves, artifact, verbs, lanes, lane, history>>

EngineWrites(v) ==
    /\ engine[v].phase = "writing"
    /\ engine[v].wrote < engine[v].made.size
    /\ engine' = [engine EXCEPT ![v].wrote = @ + 1]
    /\ CaptureStep /\ UNCHANGED <<verb, reader>>

(* It closes its stdout, having written all or not, and still runs.          *)
EngineCloses(v) ==
    /\ engine[v].phase = "writing"
    /\ engine' = [engine EXCEPT ![v].phase = "closed"]
    /\ CaptureStep /\ UNCHANGED <<verb, reader>>

EngineExits(v, success) ==
    /\ engine[v].phase = "closed"
    /\ engine' = [engine EXCEPT ![v] = [phase |-> "exited", success |-> success,
                                        made |-> @.made, wrote |-> @.wrote]]
    /\ CaptureStep /\ UNCHANGED <<verb, reader>>

(* spawn_reader: it reads on and gives its verdict once.                     *)
ReaderReads(v) ==
    /\ reader[v].msg = "none"
    /\ reader[v].read < engine[v].wrote
    /\ reader' = [reader EXCEPT ![v].read = @ + 1,
                                ![v].msg = IF reader[v].read + 1 > OutputCap THEN "cap"
                                           ELSE "none"]
    /\ CaptureStep /\ UNCHANGED <<verb, engine>>

ReaderEnds(v) ==
    /\ reader[v].msg = "none"
    /\ reader[v].read = engine[v].wrote
    /\ engine[v].phase \in {"closed", "exited"}
    /\ reader' = [reader EXCEPT ![v].msg = "done"]
    /\ CaptureStep /\ UNCHANGED <<verb, engine>>

ReaderFails(v) ==
    /\ reader[v].msg = "none"
    /\ reader' = [reader EXCEPT ![v].msg = "error"]
    /\ CaptureStep /\ UNCHANGED <<verb, engine>>

Deadline(v) ==
    /\ VerbAt(v, "capture") /\ ~verb[v].late
    /\ verb' = [verb EXCEPT ![v].late = TRUE]
    /\ CaptureStep /\ UNCHANGED <<engine, reader>>

TakeMessage(v) ==
    /\ VerbAt(v, "capture")
    /\ \/ /\ reader[v].msg = "done"
          /\ verb' = [verb EXCEPT ![v] = [step |-> "wait"]]
          /\ UNCHANGED <<engine, reader>>
       \/ /\ reader[v].msg \in {"cap", "error"}
          /\ Ends(v)
    /\ CaptureStep

(* A loop that gives up only where a message came.                           *)
FaultyTimeOut(v) ==
    /\ VerbAt(v, "capture") /\ verb[v].late
    /\ reader[v].msg \in {"cap", "error"}
    /\ Ends(v)
    /\ CaptureStep

(* The deadline is looked at where 25 ms brought no message.                 *)
TimeOut(v) ==
    /\ VerbAt(v, "capture") /\ verb[v].late
    /\ reader[v].msg = "none"
    /\ Ends(v)
    /\ CaptureStep

(* An output cut short does not parse.                                       *)
Captured(v) == [engine[v].made EXCEPT !.parses = @ /\ reader[v].read = engine[v].made.size]

(* A status that is not looked at.                                           *)
FaultyWait(v) ==
    /\ VerbAt(v, "wait")
    /\ engine[v].phase = "exited"
    /\ verb' = [verb EXCEPT ![v] = [step |-> "expect", bytes |-> Captured(v)]]
    /\ CaptureStep /\ UNCHANGED <<engine, reader>>

(* child.wait, which has no deadline.                                        *)
Wait(v) ==
    /\ VerbAt(v, "wait")
    /\ engine[v].phase = "exited"
    /\ IF engine[v].success
       THEN /\ verb' = [verb EXCEPT ![v] = [step |-> "expect", bytes |-> Captured(v)]]
            /\ UNCHANGED <<engine, reader>>
       ELSE Ends(v)
    /\ CaptureStep

-----------------------------------------------------------------------------
(* cmd_compiler_facts_import, and where the two producers meet.              *)

VerbStep == UNCHANGED <<checkout, moves, lanes, lane, history>>

Import(v, c) ==
    /\ VerbAt(v, "idle")
    /\ verbs < MaxVerbs
    /\ verbs' = verbs + 1
    /\ verb' = [verb EXCEPT ![v] = [step |-> "expect", bytes |-> c]]
    /\ VerbStep /\ UNCHANGED <<artifact, engine, reader>>

(* expectations_for: HEAD as it is once the bytes are in hand, where Git can *)
(* name it.                                                                  *)
Expect(v) ==
    /\ VerbAt(v, "expect")
    /\ \E known \in BOOLEAN :
          verb' = [verb EXCEPT ![v] = [step |-> "admit", bytes |-> verb[v].bytes,
                                       expected |-> ExpectedAt(checkout.head, known)]]
    /\ VerbStep /\ UNCHANGED <<artifact, verbs, engine, reader>>

(* admit_and_publish: a refused candidate, or a write that fails, leaves the *)
(* artifact that was there.                                                  *)
AdmitAndPublish(v) ==
    /\ VerbAt(v, "admit")
    /\ Ends(v)
    /\ \/ /\ Refusal(verb[v].bytes, verb[v].expected) = "admitted"
          /\ artifact' = verb[v].bytes
       \/ UNCHANGED artifact
    /\ VerbStep /\ UNCHANGED verbs

VerbKilled(v) ==
    /\ verb[v].step \in {"expect", "admit"}
    /\ Ends(v)
    /\ VerbStep /\ UNCHANGED <<artifact, verbs>>

-----------------------------------------------------------------------------
(* semantic/lane.rs decide and semantic/freshness.rs evaluate.               *)

LaneAct == UNCHANGED <<checkout, moves, artifact, verb, engine, reader, verbs>>
LaneStep(s) == lane' = [lane EXCEPT !.step = s]

(* A decision against the layer closes the history.                          *)
Forgets == seen' = {} /\ lapses' = {}
LaneIs(r) == lane' = [step |-> "recorded", record |-> r] /\ Forgets

Now == [head |-> checkout.head, dirty |-> checkout.dirty]

DecideLane(noSemantic) ==
    /\ lane.step = "idle"
    /\ lanes < MaxLanes
    /\ lanes' = lanes + 1
    /\ IF noSemantic THEN LaneIs("no-semantic")
       ELSE IF artifact = NoArtifact THEN LaneIs("none")
       ELSE lane' = [step |-> "load", record |-> "none"] /\ UNCHANGED history
    /\ LaneAct

(* SemanticLayer::load; the snapshot, a commit and its dirty flag, is part   *)
(* of the bytes.                                                             *)
LoadLayer ==
    /\ lane.step = "load"
    /\ IF ~artifact.parses THEN LaneIs("artifact-unreadable")
       ELSE IF artifact.dirty \/ artifact.head = NoHead THEN LaneIs("stale-artifact")
       ELSE /\ lane' = [step |-> "dirty", record |-> "none", layer |-> artifact]
            /\ seen' = {Now} /\ lapses' = {}
    /\ LaneAct /\ UNCHANGED lanes

(* A status that hides what the index does not hold.                         *)
FaultyCheckDirty ==
    /\ lane.step = "dirty"
    /\ LaneStep("head")
    /\ LaneAct /\ UNCHANGED <<lanes, history>>

(* is_working_tree_dirty: a status that lists anything, or more than its cap,*)
(* says dirty; one that fails, or cannot be read, says clean.                *)
CheckDirty ==
    /\ lane.step = "dirty"
    /\ \/ checkout.dirty /\ LaneIs("stale-artifact")
       \/ /\ LaneStep("head")
          /\ lapses' = IF checkout.dirty THEN {"status-failed"} ELSE {}
          /\ UNCHANGED seen
    /\ LaneAct /\ UNCHANGED lanes

(* A HEAD that Git cannot name is stale, too.                                *)
CheckHead ==
    /\ lane.step = "head"
    /\ \/ LaneIs("stale-artifact")
       \/ /\ checkout.head = lane.layer.head
          /\ LaneStep("imports") /\ UNCHANGED history
    /\ LaneAct /\ UNCHANGED lanes

Counted(c, states) == {i \in DOMAIN c.compilations : c.compilations[i].state \in states}

(* check_imports, and before_resolution: no compilation counted is complete. *)
CheckImports ==
    /\ lane.step = "imports"
    /\ IF checkout.import # lane.layer.import THEN LaneIs("imports-moved")
       ELSE IF /\ Counted(lane.layer, {"complete"}) = {}
               /\ Counted(lane.layer, {"partial", "failed"}) # {}
            THEN LaneIs("no-complete-compilation")
       ELSE LaneStep("resolve") /\ UNCHANGED history
    /\ LaneAct /\ UNCHANGED lanes

(* after_resolution, by whether the layer confirmed anything.                *)
RecordLane(used) ==
    /\ lane.step = "resolve"
    /\ lane' = [lane EXCEPT
         !.step = "recorded",
         !.record = IF ~used THEN "nothing-confirmed"
                    ELSE IF Counted(lane.layer, {"partial", "failed"}) # {} THEN "partial"
                    ELSE "applied"]
    /\ LaneAct /\ UNCHANGED <<lanes, history>>

LaneEnds ==
    /\ lane.step = "recorded"
    /\ lane' = IdleLane
    /\ Forgets
    /\ LaneAct /\ UNCHANGED lanes

-----------------------------------------------------------------------------
(* The user: an edit or its undoing, a commit, reset or switch, which may    *)
(* leave edits behind or carry them along, or a change of an imported file   *)
(* outside the checkout.                                                     *)
UserMoves ==
    /\ moves < MaxMoves
    /\ moves' = moves + 1
    /\ \/ checkout' = [checkout EXCEPT !.dirty = ~@]
       \/ \E h \in Heads \ {checkout.head}, d \in BOOLEAN :
             checkout' = [checkout EXCEPT !.head = h, !.dirty = d]
       \/ checkout' = [checkout EXCEPT !.import = 1 - @]
    /\ seen' = IF lane.step \in {"dirty", "head"} THEN seen \cup {Now'} ELSE seen
    /\ lapses' = IF lane.step = "head" /\ checkout'.dirty /\ checkout'.head # checkout.head
                 THEN lapses \cup {"moved-dirty"} ELSE lapses
    /\ UNCHANGED <<artifact, verb, engine, reader, verbs, lanes, lane>>

RunActs(v) ==
    \/ \E c \in Produce : Spawn(v, c) \/ Import(v, c)
    \/ EngineWrites(v) \/ EngineCloses(v) \/ \E s \in BOOLEAN : EngineExits(v, s)
    \/ ReaderReads(v) \/ ReaderEnds(v) \/ ReaderFails(v)
    \/ Deadline(v) \/ TakeMessage(v) \/ TimeOut(v) \/ Wait(v)
    \/ Expect(v) \/ AdmitAndPublish(v) \/ VerbKilled(v)

LaneActs ==
    \/ \E n \in BOOLEAN : DecideLane(n)
    \/ LoadLayer \/ CheckDirty \/ CheckHead \/ CheckImports
    \/ \E u \in BOOLEAN : RecordLane(u)
    \/ LaneEnds

FactsNext == (\E v \in Verbs : RunActs(v)) \/ LaneActs \/ UserMoves

(* The verb's own steps, its reader's and the clock's go on; a read need not *)
(* fail, and an engine need not write.                                       *)
RunFairness ==
    \A v \in Verbs :
        /\ WF_factsVars(ReaderReads(v) \/ ReaderEnds(v))
        /\ WF_factsVars(Deadline(v))
        /\ WF_factsVars(TakeMessage(v) \/ TimeOut(v) \/ Wait(v))
        /\ WF_factsVars(Expect(v)) /\ WF_factsVars(AdmitAndPublish(v))

(* All that is asked of the engine: done with its output, it exits.          *)
EngineFairness == \A v \in Verbs : WF_factsVars(\E s \in BOOLEAN : EngineExits(v, s))

FactsSpec == FactsInit /\ [][FactsNext]_factsVars /\ RunFairness
FactsFairSpec == FactsSpec /\ EngineFairness

-----------------------------------------------------------------------------
(* What the artifact and the lane promise.                                   *)

(* "A killed or truncated run never reaches" the artifact: what a run        *)
(* publishes is all an engine wrote, within the cap, and that engine ended   *)
(* well; and every artifact was made from the commit its admission expected, *)
(* where that had one to expect.                                             *)
PublishedIsWhole ==
    [][\A v \in Verbs : (VerbAt(v, "admit") /\ verb'[v] = IdleVerb /\ artifact' # artifact) =>
        /\ engine[v].phase # "none" =>
            /\ engine[v].phase = "exited" /\ engine[v].success
            /\ reader[v].read = engine[v].made.size
            /\ engine[v].made.size <= OutputCap
        /\ verb[v].expected.known => artifact'.head = verb[v].expected.head]_factsVars

(* freshness.rs: the facts apply where "the checkout is exactly as it was    *)
(* when the artifact was captured".  The dirty flag and HEAD are read one    *)
(* after the other, while the user and another import go on, so what the     *)
(* code does promise is: facts captured over a clean tree; their commit      *)
(* checked out at an instant of the decision; and clean at such an instant,  *)
(* unless the status failed over a dirty tree, or HEAD moved between the two *)
(* reads and left the tree dirty.                                            *)
AppliedLaneWasCurrent ==
    lane.record \in {"applied", "partial"} =>
        /\ ~lane.layer.dirty
        /\ \E d \in BOOLEAN : [head |-> lane.layer.head, dirty |-> d] \in seen
        /\ lapses = {} => [head |-> lane.layer.head, dirty |-> FALSE] \in seen

(* run.rs: a run is given a wall-clock budget: it ends, whatever its engine  *)
(* does with its output.                                                     *)
RunsEnd == \A v \in Verbs : VerbAt(v, "capture") ~> VerbAt(v, "idle")
=============================================================================
