----------------------------- MODULE Validation -----------------------------
(* A query (`refs`, `read`, `impact`, `tests`) and the one freshness         *)
(* validation that brackets it (freshness/validate.rs): begin snapshots the  *)
(* record, the verb reads its artifacts, finish judges them.  A query writes *)
(* nothing, so one process per concurrent query says everything.             *)
EXTENDS IndexStore

CONSTANTS
    Queriers,           \* processes that may ask a query
    StatusFails,        \* TRUE: a query's `git status` may fail
    STATUS_ENTRY_CAP,   \* the most status records a query accepts
    CANDIDATE_PATH_CAP, \* the most candidates it hashes
    CANDIDATE_BYTE_CAP  \* the most bytes it reads; here every file weighs 1

(* What a query is told of the answer it gets.                               *)
UnknownReasons == {"no-index-state", "git-unavailable", "other-worktree",
                   "validation-budget", "index-changed"}
Verdicts == {"fresh", "stale"} \cup UnknownReasons

ASSUME ValidationAssumption ==
    /\ None \notin Verdicts
    /\ StatusFails \in BOOLEAN
    /\ STATUS_ENTRY_CAP \in Nat
    /\ CANDIDATE_PATH_CAP \in Nat
    /\ CANDIDATE_BYTE_CAP \in Nat

VARIABLES
    qpc,    \* qpc[q]: the step q is about to take
    ask     \* ask[q]: what q's current query has in memory

queryVars == <<qpc, ask>>

(* From "status" on HEAD has been read and the candidates are being judged.  *)
JudgingSteps == {"status", "hash", "record", "stat", "answer"}
QuerySteps == {"idle", "graph", "manifest", "certify", "answered"} \cup JudgingSteps

NoQuery == [root |-> None, asking |-> None, snapshot |-> Missing,
            graph |-> NoGraph, manifest |-> NoManifest,
            head |-> None, candidates |-> {}, changed |-> {}, verdict |-> None]

Asks ==
    [root : Worktrees \cup {None}, asking : Worktrees \cup {None}, snapshot : Records,
     graph : Graphs, manifest : Manifests, head : Nat \cup {None},
     candidates : SUBSET Files, changed : SUBSET Files, verdict : Verdicts \cup {None}]

QueryTypeOK ==
    /\ qpc \in [Queriers -> QuerySteps]
    /\ ask \in [Queriers -> Asks]

QueryInit ==
    /\ qpc = [q \in Queriers |-> "idle"]
    /\ ask = [q \in Queriers |-> NoQuery]

AtQuery(q, step) == qpc[q] = step
GotoQuery(q, step) == qpc' = [qpc EXCEPT ![q] = step]
Certified(q) == ask[q].snapshot

(* Every early return of finish.                                             *)
Conclude(q, verdict) ==
    /\ ask' = [ask EXCEPT ![q].verdict = verdict]
    /\ GotoQuery(q, "answered")

-----------------------------------------------------------------------------
(* begin, asked from worktree a about root w.                                *)
Open(q, w, a) ==
    /\ AtQuery(q, "idle")
    /\ ask' = [ask EXCEPT ![q] = [NoQuery EXCEPT !.root = w, !.asking = a,
                                                 !.snapshot = record]]
    /\ GotoQuery(q, "graph")
    /\ UNCHANGED <<worldVars, storeVars>>

ReadGraph(q) ==
    /\ AtQuery(q, "graph")
    /\ ask' = [ask EXCEPT ![q].graph = graph]
    /\ GotoQuery(q, "manifest")
    /\ UNCHANGED <<worldVars, storeVars>>

ReadManifest(q) ==
    /\ AtQuery(q, "manifest")
    /\ ask' = [ask EXCEPT ![q].manifest = manifest]
    /\ GotoQuery(q, "certify")
    /\ UNCHANGED <<worldVars, storeVars>>

(* The worktree the question was asked from is not looked at.  (This module   *)
(* marks faulty forms as MapRun does.)                                       *)
FaultyRecordVerdict(q) ==
    LET r == Certified(q) IN
    CASE r.state \in {"missing", "uncertifiable"} -> "no-index-state"
      [] r.state = "in-progress" -> "index-changed"
      [] r.state = "published" ->
           IF OwnerOf(ask[q].root) = r.owner THEN None ELSE "other-worktree"

(* certifiable_record: the record arms that decide before any Git work, in   *)
(* their order; None when the record may certify.                            *)
RecordVerdict(q) ==
    LET r == Certified(q) IN
    CASE r.state \in {"missing", "uncertifiable"} -> "no-index-state"
      [] r.state = "in-progress" -> "index-changed"
      [] r.state = "published" ->
           IF OwnerOf(ask[q].root) = r.owner /\ OwnerOf(ask[q].asking) = r.owner
           THEN None ELSE "other-worktree"

Refuse(q) ==
    /\ AtQuery(q, "certify")
    /\ RecordVerdict(q) # None
    /\ Conclude(q, RecordVerdict(q))
    /\ UNCHANGED <<worldVars, storeVars>>

ReadHead(q) ==
    /\ AtQuery(q, "certify")
    /\ RecordVerdict(q) = None
    /\ LET h == head[ask[q].root] IN
       IF h = 0 THEN Conclude(q, "git-unavailable")
       ELSE /\ ask' = [ask EXCEPT ![q].head = h]
            /\ GotoQuery(q, "status")
    /\ UNCHANGED <<worldVars, storeVars>>

(* candidates: what status reports, and what the run recorded as dirty.      *)
Candidates(q) ==
    GitStatus(ask[q].root, Relevant(Certified(q).scope)) \cup Certified(q).dirty

(* Past a cap only what was recorded at map time is looked at.               *)
FaultyReadStatus(q) ==
    /\ AtQuery(q, "status")
    /\ ask' = [ask EXCEPT ![q].candidates =
                  IF Cardinality(Candidates(q)) > CANDIDATE_PATH_CAP
                  THEN Certified(q).dirty ELSE Candidates(q)]
    /\ GotoQuery(q, "hash")
    /\ UNCHANGED <<worldVars, storeVars>>

ReadStatus(q) ==
    /\ AtQuery(q, "status")
    /\ IF \/ Cardinality(GitStatus(ask[q].root, Relevant(Certified(q).scope)))
                > STATUS_ENTRY_CAP
          \/ Cardinality(Candidates(q)) > CANDIDATE_PATH_CAP
       THEN Conclude(q, "validation-budget")
       ELSE /\ ask' = [ask EXCEPT ![q].candidates = Candidates(q)]
            /\ GotoQuery(q, "hash")
    /\ UNCHANGED <<worldVars, storeVars>>

StatusFailure(q) ==
    /\ AtQuery(q, "status")
    /\ StatusFails
    /\ Conclude(q, "git-unavailable")
    /\ UNCHANGED <<worldVars, storeVars>>

(* A configuration input's digest is in the record, a source's in the table. *)
RecordedDigest(q, f) ==
    IF f \in Configs THEN Certified(q).configs[f] ELSE digests.files[f]

(* Recorded and different or gone, or never recorded and there now.          *)
Differs(q, f) ==
    LET bytes == tree[ask[q].root][f]
        recorded == RecordedDigest(q, f)
    IN  IF recorded = None THEN bytes # Absent ELSE bytes # recorded

BytesToRead(q) == {f \in ask[q].candidates : tree[ask[q].root][f] # Absent}

(* The digest table is opened only when there is something to compare.       *)
HashCandidates(q) ==
    /\ AtQuery(q, "hash")
    /\ CASE ask[q].candidates # {} /\ digests.gen # Certified(q).gen ->
              Conclude(q, "index-changed")
         [] ask[q].candidates # {} /\ digests.gen = Certified(q).gen
              /\ Cardinality(BytesToRead(q)) > CANDIDATE_BYTE_CAP ->
              Conclude(q, "validation-budget")
         [] OTHER ->
              /\ ask' = [ask EXCEPT ![q].changed =
                            {f \in ask[q].candidates : Differs(q, f)}]
              /\ GotoQuery(q, "record")
    /\ UNCHANGED <<worldVars, storeVars>>

(* A record that is not the one read first sends the query back to the start *)
(* of the validation, until the record holds still.                          *)
FaultyReadRecordAgain(q) ==
    /\ AtQuery(q, "record")
    /\ IF IsPublished(record) /\ record.gen = Certified(q).gen
       THEN GotoQuery(q, "stat") ELSE GotoQuery(q, "certify")
    /\ UNCHANGED <<worldVars, storeVars, ask>>

(* end_changed, in its three reads.                                          *)
ReadRecordAgain(q) ==
    /\ AtQuery(q, "record")
    /\ IF IsPublished(record) /\ record.gen = Certified(q).gen
       THEN GotoQuery(q, "stat") /\ UNCHANGED ask
       ELSE Conclude(q, "index-changed")
    /\ UNCHANGED <<worldVars, storeVars>>

(* The record is trusted to speak for the graph.                             *)
FaultyStatGraph(q) ==
    /\ AtQuery(q, "stat")
    /\ GotoQuery(q, "answer")
    /\ UNCHANGED <<worldVars, storeVars, ask>>

StatGraph(q) ==
    /\ AtQuery(q, "stat")
    /\ IF graph.id = Certified(q).graphId
       THEN GotoQuery(q, "answer") /\ UNCHANGED ask
       ELSE Conclude(q, "index-changed")
    /\ UNCHANGED <<worldVars, storeVars>>

(* A clean status is enough, wherever HEAD is.                               *)
FaultyAnswer(q) ==
    /\ AtQuery(q, "answer")
    /\ Conclude(q,
         IF manifest.id # Certified(q).manifestId THEN "index-changed"
         ELSE IF ask[q].changed = {} THEN "fresh" ELSE "stale")
    /\ UNCHANGED <<worldVars, storeVars>>

(* The manifest's identity, then the verdict.                                *)
Answer(q) ==
    /\ AtQuery(q, "answer")
    /\ Conclude(q,
         IF manifest.id # Certified(q).manifestId THEN "index-changed"
         ELSE IF Certified(q).head = ask[q].head /\ ask[q].changed = {} THEN "fresh"
         ELSE "stale")
    /\ UNCHANGED <<worldVars, storeVars>>

(* The answer is out; the process is free for another query.                 *)
Close(q) ==
    /\ AtQuery(q, "answered")
    /\ ask' = [ask EXCEPT ![q] = NoQuery]
    /\ GotoQuery(q, "idle")
    /\ UNCHANGED <<worldVars, storeVars>>

(* The steps an asked query takes by itself.                                 *)
QueryStep(q) ==
    \/ ReadGraph(q) \/ ReadManifest(q) \/ Refuse(q) \/ ReadHead(q)
    \/ ReadStatus(q) \/ StatusFailure(q) \/ HashCandidates(q)
    \/ ReadRecordAgain(q) \/ StatGraph(q) \/ Answer(q)
=============================================================================
