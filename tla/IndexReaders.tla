---------------------------- MODULE IndexReaders ----------------------------
(* The two readers of the index that publish what they read: `devscout       *)
(* export` (export/snapshot.rs), which writes one generation as a stream or  *)
(* refuses, and the read hook's offer (hookio.rs, hookio/offer.rs), which    *)
(* names a symbol of a file the index certifies.  Both run beside the maps,  *)
(* queries and edits of IndexProtocol and hold no lock.  An export validates *)
(* itself as a query does, so it is a process of Queriers in another role.   *)
EXTENDS IndexProtocol

VARIABLES
    rpc,        \* rpc[q]: the step q is about to take as an export or a hook
    got,        \* got[q]: what it has read
    replaced,   \* the exports whose compiler facts were replaced since they
                \*   read their identity
    whole       \* whole[q]: history; the indexes that were whole on disk since
                \*   q's export began

readerVars == <<rpc, got, replaced, whole>>
allVars == <<vars, readerVars>>

Nothing == [record |-> Missing, digests |-> [gen |-> 0], graph |-> NoGraph,
            cache |-> NoFragments, cacheId |-> NoFragments, head |-> None, file |-> None]

ExportSteps == {"x record", "x digests", "x graph", "x graph id", "x manifest id",
                "x cache", "x cache id", "x facts", "x validate", "x record again",
                "x graph again", "x manifest again", "x cache again",
                "x facts again", "x publish"}
(* The steps of an export that has the identity of its compiler facts.       *)
Bracketed == {"x validate", "x record again", "x graph again", "x manifest again",
              "x cache again", "x facts again"}
HookSteps == {"h manifest", "h flag", "h record", "h graph id", "h digests",
              "h bytes", "h offer"}

(* One index, as an export shows it: header, digests, graph and messaging.   *)
IndexOf(r, d, g, c) == <<r, d, g, c>>

(* The index on disk, when its certificate names the files that are there.   *)
WholeNow ==
    IF /\ IsPublished(record) /\ digests.gen = record.gen
       /\ record.graphId = graph.id /\ record.manifestId = manifest.id
    THEN {IndexOf(record, digests, graph, cache)} ELSE {}

ReadersInit ==
    /\ Init
    /\ rpc = [q \in Queriers |-> "none"]
    /\ got = [q \in Queriers |-> Nothing]
    /\ replaced = {}
    /\ whole = [q \in Queriers |-> {}]

-----------------------------------------------------------------------------
AtReader(q, s) == rpc[q] = s
GotoReader(q, s) == rpc' = [rpc EXCEPT ![q] = s]

(* A read that changes nothing but q's own memory.                           *)
Reads(q, field, value) ==
    /\ got' = [got EXCEPT ![q][field] = value]
    /\ UNCHANGED <<vars, replaced, whole>>

(* The end of a run, refused or done.                                        *)
Leave(q) ==
    /\ rpc' = [rpc EXCEPT ![q] = "none"]
    /\ got' = [got EXCEPT ![q] = Nothing]
    /\ whole' = [whole EXCEPT ![q] = {}]
    /\ replaced' = replaced \ {q}

(* An export that finds the index moved, or not there, refuses.              *)
Refuses(q) ==
    /\ Leave(q)
    /\ qpc' = [qpc EXCEPT ![q] = "idle"]
    /\ ask' = [ask EXCEPT ![q] = NoQuery]
    /\ UNCHANGED <<worldVars, storeVars, mapVars, foreign, calm>>

(* One step of the bracket: go on where the check holds, refuse elsewhere.   *)
Checks(q, step, holds, next) ==
    /\ AtReader(q, step)
    /\ IF holds
       THEN GotoReader(q, next) /\ UNCHANGED <<vars, got, replaced, whole>>
       ELSE Refuses(q)

-----------------------------------------------------------------------------
(* load_bracketed.                                                           *)

BeginExport(q, w, a) ==
    /\ AtReader(q, "none")
    /\ Open(q, w, a)
    /\ GotoReader(q, "x record")
    /\ whole' = [whole EXCEPT ![q] = WholeNow]
    /\ UNCHANGED <<mapVars, foreign, calm, got, replaced>>

(* published_record, a second read of the record after begin's.              *)
ReadRecordForExport(q) ==
    /\ AtReader(q, "x record")
    /\ IF IsPublished(record)
       THEN GotoReader(q, "x digests") /\ Reads(q, "record", record)
       ELSE Refuses(q)

ReadDigestsForExport(q) ==
    /\ AtReader(q, "x digests")
    /\ IF digests.gen = got[q].record.gen
       THEN GotoReader(q, "x graph") /\ Reads(q, "digests", digests)
       ELSE Refuses(q)

ReadGraphForExport(q) ==
    /\ AtReader(q, "x graph")
    /\ IF graph.id # 0
       THEN GotoReader(q, "x graph id") /\ Reads(q, "graph", graph)
       ELSE Refuses(q)

(* The identity is taken after the bytes: a graph replaced in between is not *)
(* the one the record names, and identities do not come back.                *)
CheckGraphId(q) ==
    Checks(q, "x graph id", graph.id = got[q].record.graphId, "x manifest id")

CheckManifestId(q) ==
    Checks(q, "x manifest id", manifest.id = got[q].record.manifestId, "x cache")

(* The strict reader takes only a cache the record's owner wrote.            *)
ReadCacheForExport(q) ==
    /\ AtReader(q, "x cache")
    /\ IF cache.owner = got[q].record.owner
       THEN GotoReader(q, "x cache id") /\ Reads(q, "cache", cache)
       ELSE Refuses(q)

(* Its identity is taken afterwards, and nothing is there to compare it with *)
(* yet.  A cache is told by its content here, which is less than its         *)
(* identity.                                                                 *)
IdentifyCache(q) ==
    /\ AtReader(q, "x cache id")
    /\ GotoReader(q, "x facts")
    /\ Reads(q, "cacheId", cache)

(* An export that rests on the identities it checked as it read.             *)
FaultyReadFactsForExport(q) ==
    /\ AtReader(q, "x facts")
    /\ GotoReader(q, "x publish")
    /\ UNCHANGED <<vars, got, replaced, whole>>

ReadFactsForExport(q) ==
    /\ AtReader(q, "x facts")
    /\ GotoReader(q, "x validate")
    /\ GotoQuery(q, "certify")
    /\ UNCHANGED <<worldVars, storeVars, mapVars, ask, foreign, calm, got, replaced,
                   whole>>

(* validate's finish.                                                        *)
Validate(q) ==
    /\ AtReader(q, "x validate")
    /\ QueryStep(q)
    /\ UNCHANGED <<mapVars, foreign, calm, readerVars>>

(* confirm_unchanged: the verdict, then every identity once more.            *)
ConfirmVerdict(q) ==
    /\ AtQuery(q, "answered")
    /\ Checks(q, "x validate",
              ask[q].verdict \notin {"index-changed", "no-index-state"},
              "x record again")

ConfirmRecord(q) ==
    Checks(q, "x record again",
           IsPublished(record) /\ record.gen = got[q].record.gen, "x graph again")

ConfirmGraph(q) ==
    Checks(q, "x graph again", graph.id = got[q].record.graphId, "x manifest again")

ConfirmManifest(q) ==
    Checks(q, "x manifest again", manifest.id = got[q].record.manifestId, "x cache again")

ConfirmCache(q) == Checks(q, "x cache again", cache = got[q].cacheId, "x facts again")

ConfirmFacts(q) == Checks(q, "x facts again", q \notin replaced, "x publish")

(* The stream is rendered and written as one unit.                           *)
PublishExport(q) ==
    /\ AtReader(q, "x publish")
    /\ Refuses(q)

ExportStep(q) ==
    \/ ReadRecordForExport(q) \/ ReadDigestsForExport(q) \/ ReadGraphForExport(q)
    \/ CheckGraphId(q) \/ CheckManifestId(q) \/ ReadCacheForExport(q) \/ IdentifyCache(q)
    \/ ReadFactsForExport(q) \/ Validate(q) \/ ConfirmVerdict(q) \/ ConfirmRecord(q)
    \/ ConfirmGraph(q) \/ ConfirmManifest(q) \/ ConfirmCache(q) \/ ConfirmFacts(q)
    \/ PublishExport(q)

-----------------------------------------------------------------------------
(* The end of handle_read: the stale-manifest note, or an offer.             *)

HookRoot(q) == ask[q].root

HookLeaves(q) == Refuses(q)

(* git_head, of a read of file f in worktree a below root w.                 *)
HookReadsHead(q, w, a, f) ==
    /\ AtReader(q, "none") /\ AtQuery(q, "idle")
    /\ ask' = [ask EXCEPT ![q].root = w, ![q].asking = a]
    /\ got' = [got EXCEPT ![q].head = GitHead(w), ![q].file = f]
    /\ GotoReader(q, "h manifest")
    /\ UNCHANGED <<worldVars, storeVars, mapVars, qpc, foreign, calm, replaced, whole>>

(* A partial read ends without a flag.                                       *)
HookReadsManifest(q, partial) ==
    /\ AtReader(q, "h manifest")
    /\ IF partial /\ manifest.head \notin {None, got[q].head}
       THEN HookLeaves(q)
       ELSE /\ GotoReader(q, IF manifest.head \in {None, got[q].head} THEN "h record"
                             ELSE "h flag")
            /\ UNCHANGED <<vars, got, replaced, whole>>

(* HEAD has moved since that manifest: the flag goes up, unless it is there. *)
(* Another's may go up between the look and the write: it is the same flag.  *)
HookWritesFlag(q) ==
    /\ AtReader(q, "h flag")
    /\ refresh' = refresh \cup {HookRoot(q)}
    /\ Leave(q)
    /\ ask' = [ask EXCEPT ![q] = NoQuery]
    /\ UNCHANGED <<worldVars, certVars, manifest, graph, sidecarVars, fragmentVars,
                   mapVars, qpc, foreign, calm>>

HookFindsFlag(q) ==
    /\ AtReader(q, "h flag")
    /\ HookRoot(q) \in refresh
    /\ GotoReader(q, "h record")
    /\ UNCHANGED <<vars, got, replaced, whole>>

(* offer_permitted, a read at a time.                                        *)
HookReadsRecord(q) ==
    /\ AtReader(q, "h record")
    /\ IF /\ HookRoot(q) \notin refresh
          /\ got[q].head # None
          /\ IsPublished(record)
          /\ OwnerOf(HookRoot(q)) = record.owner
          /\ OwnerOf(ask[q].asking) = record.owner
          /\ record.head = got[q].head
       THEN GotoReader(q, "h graph id") /\ Reads(q, "record", record)
       ELSE HookLeaves(q)

HookChecksGraph(q) ==
    /\ AtReader(q, "h graph id")
    /\ IF graph.id = got[q].record.graphId
       THEN GotoReader(q, "h digests") /\ Reads(q, "graph", graph)
       ELSE HookLeaves(q)

(* A table of any generation will do.                                        *)
FaultyHookReadsDigests(q) ==
    /\ AtReader(q, "h digests")
    /\ GotoReader(q, "h bytes")
    /\ Reads(q, "digests", digests)

HookReadsDigests(q) ==
    /\ AtReader(q, "h digests")
    /\ IF digests.gen = got[q].record.gen /\ digests.files[got[q].file] # None
       THEN GotoReader(q, "h bytes") /\ Reads(q, "digests", digests)
       ELSE HookLeaves(q)

HookHashesFile(q) ==
    Checks(q, "h bytes",
           tree[ask[q].asking][got[q].file] = got[q].digests.files[got[q].file],
           "h offer")

(* first_read_offer: the graph is opened again for the symbol.               *)
HookOffers(q) ==
    /\ AtReader(q, "h offer")
    /\ HookLeaves(q)

HookStep(q) ==
    \/ \E partial \in BOOLEAN : HookReadsManifest(q, partial)
    \/ HookWritesFlag(q) \/ HookFindsFlag(q) \/ HookReadsRecord(q)
    \/ HookChecksGraph(q) \/ HookReadsDigests(q) \/ HookHashesFile(q) \/ HookOffers(q)

-----------------------------------------------------------------------------
(* `compiler-facts import` renames a new artifact into place.                *)
Import ==
    /\ replaced' = {q \in Queriers : rpc[q] \in Bracketed}
    /\ replaced' # replaced
    /\ UNCHANGED <<vars, rpc, got, whole>>

(* A step of IndexProtocol that is no step of an export's validation.        *)
ProtocolActs ==
    /\ \/ \E m \in Mappers : MapActs(m)
       \/ \E q \in Queriers : AtReader(q, "none") /\ QueryActs(q)
       \/ WorldActs
    /\ UNCHANGED <<rpc, got, replaced>>

Exporting(q) == rpc[q] \in ExportSteps

ReadersNext ==
    \/ /\ ProtocolActs
       /\ whole' = [q \in Queriers |-> IF Exporting(q) THEN whole[q] \cup WholeNow'
                                       ELSE whole[q]]
    \/ \E q \in Queriers :
        \/ \E w, a \in Worktrees : BeginExport(q, w, a)
        \/ ExportStep(q)
        \/ \E w, a \in Worktrees, f \in Sources : HookReadsHead(q, w, a, f)
        \/ HookStep(q)
    \/ Import

ReadersSpec == ReadersInit /\ [][ReadersNext]_allVars

-----------------------------------------------------------------------------
(* What a reader publishes.                                                  *)

(* What an export that got past its last check publishes.                    *)
Taken(q) ==
    IF AtReader(q, "x publish")
    THEN {IndexOf(got[q].record, got[q].digests, got[q].graph, got[q].cache)} ELSE {}

Abstract == INSTANCE CertifiedIndex WITH
    Readers <- Queriers,
    index <- WholeNow,
    open <- {q \in Queriers : Exporting(q)},
    seen <- whole,
    taken <- [q \in Queriers |-> Taken(q)]

(* snapshot.rs: "Everything the export publishes comes from a single         *)
(* published generation, or the run refuses": header, digests, graph and     *)
(* messaging are what one certificate described at one instant of the run,   *)
(* and no certificate gives way to another but through a marker, whatever    *)
(* maps, crashes and edits came between the reads.                           *)
ExportIsSnapshot == Abstract!Spec

(* ... and the cache is the one that graph was built from.                   *)
ExportedCacheBuiltGraph ==
    \A q \in Queriers : AtReader(q, "x publish") =>
        \A f \in GraphSources :
            got[q].graph.inputs[f] = IF got[q].cache.entries[f] = None THEN Absent
                                     ELSE got[q].cache.entries[f]

(* offer.rs: an offer is only made where "the index describes the very bytes *)
(* the reader is looking at": the graph the record named when it was checked *)
(* was built from the bytes the hook hashed.  Only a file that gives the     *)
(* graph a fragment has a definition to offer.                               *)
OfferIsCertified ==
    \A q \in Queriers : AtReader(q, "h offer") /\ got[q].file \in GraphSources =>
        got[q].graph.inputs[got[q].file] \in {got[q].digests.files[got[q].file], None}
=============================================================================
