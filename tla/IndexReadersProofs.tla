------------------------- MODULE IndexReadersProofs -------------------------
(* Theorems about the export and the read hook of IndexReaders: an export    *)
(* implements CertifiedIndex, and what either of them puts out is of one     *)
(* piece, for every value of the constants.                                  *)
EXTENDS IndexReaders, IndexWholeProofs

-----------------------------------------------------------------------------
(* Types and roles.                                                          *)

DigestTables == [gen : Nat, files : [Sources -> Contents \cup {None}]]

(* What a process has read as an export or a hook.                           *)
Gots == [record : Records, digests : DigestTables \cup {[gen |-> 0]}, graph : Graphs,
         cache : Stamps, cacheId : Stamps, head : Nat \cup {None},
         file : Sources \cup {None}]

ReaderTypes ==
    /\ rpc \in [Queriers -> {"none"} \cup ExportSteps \cup HookSteps]
    /\ got \in [Queriers -> Gots]
    /\ whole = [q \in Queriers |-> whole[q]]
    /\ \A q \in Queriers :
          /\ rpc[q] \in ExportSteps => qpc[q] # "idle"
          /\ rpc[q] \in HookSteps => /\ qpc[q] = "idle" /\ ask[q].root \in Worktrees
                                    /\ got[q].file \in Sources

(* A process that has read nothing is well typed.                            *)
LEMMA NothingTypes == Nothing \in Gots
<1>1. Missing \in Records
  BY DEF Records
<1>2. NoGraph \in Graphs
  BY DEF NoGraph, Graphs, Bytes
<1>3. NoFragments \in Stamps
  BY DEF NoFragments, Stamps, Fragmented
<1> QED
  BY <1>1, <1>2, <1>3 DEF Nothing, Gots

(* One read into the process's memory.                                       *)
LEMMA ReadsInto ==
    ASSUME ReaderTypes, NEW q \in Queriers
    PROVE  /\ \A v \in Records : Reads(q, "record", v) =>
                 got' = [got EXCEPT ![q] = [got[q] EXCEPT !.record = v]]
           /\ \A v \in DigestTables : Reads(q, "digests", v) =>
                 got' = [got EXCEPT ![q] = [got[q] EXCEPT !.digests = v]]
           /\ \A v \in Graphs : Reads(q, "graph", v) =>
                 got' = [got EXCEPT ![q] = [got[q] EXCEPT !.graph = v]]
           /\ \A v \in Stamps : Reads(q, "cache", v) =>
                 got' = [got EXCEPT ![q] = [got[q] EXCEPT !.cache = v]]
           /\ \A v \in Stamps : Reads(q, "cacheId", v) =>
                 got' = [got EXCEPT ![q] = [got[q] EXCEPT !.cacheId = v]]
  BY DEF Reads

(* A process moves on with new memory and the others stay.                   *)
LEMMA MovesOn ==
    ASSUME ReaderTypes, NEW q \in Queriers, NEW mem \in Gots,
           NEW step \in {"none"} \cup ExportSteps \cup HookSteps,
           rpc' = [rpc EXCEPT ![q] = step], got' = [got EXCEPT ![q] = mem],
           whole' = [p \in Queriers |-> whole'[p]],
           \A p \in Queriers : p # q => ask'[p] = ask[p] /\ qpc'[p] = qpc[p],
           step \in ExportSteps => qpc'[q] # "idle",
           step \in HookSteps => /\ qpc'[q] = "idle" /\ ask'[q].root \in Worktrees
                                 /\ mem.file \in Sources
    PROVE  ReaderTypes'
<1>1. rpc' \in [Queriers -> {"none"} \cup ExportSteps \cup HookSteps]
        /\ got' \in [Queriers -> Gots]
  BY DEF ReaderTypes
<1>2. ASSUME NEW p \in Queriers
      PROVE  /\ rpc'[p] \in ExportSteps => qpc'[p] # "idle"
             /\ rpc'[p] \in HookSteps => /\ qpc'[p] = "idle" /\ ask'[p].root \in Worktrees
                                         /\ got'[p].file \in Sources
  <2>1. CASE p = q
    BY <2>1 DEF ReaderTypes
  <2>2. CASE p # q
    BY <2>2 DEF ReaderTypes
  <2> QED
    BY <2>1, <2>2
<1> QED
  BY <1>1, <1>2 DEF ReaderTypes

(* The stores, the maps and the world are as they were.                      *)
LEMMA OnlyQueriesMove ==
    ASSUME TypeInv, QueryTypes',
           UNCHANGED <<worldVars, storeVars, mapVars, foreign, calm>>
    PROVE  TypeInv'
  BY DEF QueryTypes, TypeInv, TypeOK, WorldTypeOK, StoreTypeOK, MapTypeOK, ActiveRun,
         worldVars, storeVars, certVars, sidecarVars, fragmentVars, mapVars

(* A reader that refuses leaves its process free for the next one.           *)
LEMMA RefusesTypes ==
    ASSUME TypeInv, ReaderTypes, NEW q \in Queriers, Refuses(q)
    PROVE  TypeInv' /\ ReaderTypes' /\ UNCHANGED coreVars
<1>1. QueryTypes'
  BY AskTypes, NoQueryTypes
     DEF Refuses, GotoQuery, TypeInv, TypeOK, QueryTypes, QuerySteps, JudgingSteps
<1>2. TypeInv'
  BY <1>1, OnlyQueriesMove DEF Refuses
<1>3. \A p \in Queriers : p # q => ask'[p] = ask[p] /\ qpc'[p] = qpc[p]
  BY DEF Refuses, TypeInv, TypeOK, QueryTypeOK
<1>4. whole' = [p \in Queriers |-> whole'[p]]
  BY DEF Refuses, Leave, ReaderTypes
<1>5. "none" \notin ExportSteps \cup HookSteps
  BY DEF ExportSteps, HookSteps
<1>6. ReaderTypes'
  BY <1>3, <1>4, <1>5, MovesOn, NothingTypes DEF Refuses, Leave
<1> QED
  BY <1>2, <1>6 DEF Refuses, storeVars, certVars, sidecarVars, fragmentVars, mapVars, coreVars,
                    indexVars

(* A check that holds moves an export or a hook to its next step.            *)
LEMMA GoesOnTypes ==
    ASSUME TypeInv, ReaderTypes, NEW q \in Queriers, NEW mem \in Gots,
           NEW next \in ExportSteps \cup HookSteps,
           rpc[q] \in ExportSteps <=> next \in ExportSteps, rpc[q] # "none",
           GotoReader(q, next), got' = [got EXCEPT ![q] = mem], mem.file = got[q].file,
           UNCHANGED <<vars, whole>>
    PROVE  TypeInv' /\ ReaderTypes' /\ UNCHANGED coreVars
<1>1. TypeInv'
  BY NextTypes
<1>2. next \in HookSteps => rpc[q] \in HookSteps
  BY DEF ReaderTypes, ExportSteps, HookSteps
<1>3. UNCHANGED <<ask, qpc>>
  BY DEF vars, queryVars
<1>4. whole' = [p \in Queriers |-> whole'[p]]
  BY DEF ReaderTypes
<1>5. ReaderTypes'
  BY <1>2, <1>3, <1>4, MovesOn DEF GotoReader, ReaderTypes
<1> QED
  BY <1>1, <1>5 DEF vars, storeVars, certVars, sidecarVars, fragmentVars, mapVars, coreVars,
                    indexVars

(* A check moves its reader on or refuses.                                   *)
LEMMA ChecksTypes ==
    ASSUME TypeInv, ReaderTypes, NEW q \in Queriers, NEW step, NEW holds,
           NEW next \in ExportSteps \cup HookSteps, Checks(q, step, holds, next),
           step \in ExportSteps <=> next \in ExportSteps, step # "none"
    PROVE  TypeInv' /\ ReaderTypes' /\ UNCHANGED coreVars
<1>1. CASE Refuses(q)
  BY <1>1, RefusesTypes
<1>2. CASE GotoReader(q, next) /\ UNCHANGED <<vars, got, whole>>
  <2>1. got[q] \in Gots /\ got' = [got EXCEPT ![q] = got[q]] /\ rpc[q] = step
    BY <1>2 DEF ReaderTypes, Checks, AtReader
  <2> QED
    BY <1>2, <2>1, GoesOnTypes
<1> QED
  BY <1>1, <1>2 DEF Checks

(* The digests and the graph on disk can be read into memory.                *)
LEMMA DiskTypes ==
    ASSUME TypeInv
    PROVE  /\ record \in Records /\ digests \in DigestTables /\ graph \in Graphs
           /\ cache \in Stamps
  BY DEF TypeInv, TypeOK, StoreTypeOK, DigestTables

(* A read is followed by the next step, or the export refuses.               *)
LEMMA ReadTypes ==
    ASSUME TypeInv, ReaderTypes, NEW q \in Queriers, NEW next \in ExportSteps \cup HookSteps,
           rpc[q] \in ExportSteps <=> next \in ExportSteps, rpc[q] # "none",
           GotoReader(q, next),
           \/ Reads(q, "record", record) \/ Reads(q, "digests", digests)
           \/ Reads(q, "graph", graph) \/ Reads(q, "cache", cache)
           \/ Reads(q, "cacheId", cache)
    PROVE  TypeInv' /\ ReaderTypes' /\ UNCHANGED coreVars
<1>1. UNCHANGED <<vars, whole>>
  BY DEF Reads
<1>2. got[q] \in Gots
  BY DEF ReaderTypes
<1>3. \E mem \in Gots : got' = [got EXCEPT ![q] = mem] /\ mem.file = got[q].file
  <2>1. CASE Reads(q, "record", record)
    <3>1. [got[q] EXCEPT !.record = record] \in Gots
      BY <1>2, DiskTypes DEF Gots
    <3> QED
      BY <1>2, <2>1, <3>1, ReadsInto, DiskTypes DEF Gots
  <2>2. CASE Reads(q, "digests", digests)
    <3>1. [got[q] EXCEPT !.digests = digests] \in Gots
      BY <1>2, DiskTypes DEF Gots
    <3> QED
      BY <1>2, <2>2, <3>1, ReadsInto, DiskTypes DEF Gots
  <2>3. CASE Reads(q, "graph", graph)
    <3>1. [got[q] EXCEPT !.graph = graph] \in Gots
      BY <1>2, DiskTypes DEF Gots
    <3> QED
      BY <1>2, <2>3, <3>1, ReadsInto, DiskTypes DEF Gots
  <2>4. CASE Reads(q, "cache", cache)
    <3>1. [got[q] EXCEPT !.cache = cache] \in Gots
      BY <1>2, DiskTypes DEF Gots
    <3> QED
      BY <1>2, <2>4, <3>1, ReadsInto, DiskTypes DEF Gots
  <2>5. CASE Reads(q, "cacheId", cache)
    <3>1. [got[q] EXCEPT !.cacheId = cache] \in Gots
      BY <1>2, DiskTypes DEF Gots
    <3> QED
      BY <1>2, <2>5, <3>1, ReadsInto, DiskTypes DEF Gots
  <2> QED
    BY <2>1, <2>2, <2>3, <2>4, <2>5
<1> QED
  BY <1>1, <1>3, GoesOnTypes

(* A step of IndexProtocol moves no export or hook.                          *)
LEMMA ProtocolTypes ==
    ASSUME TypeInv, ReaderTypes, ProtocolActs, whole' = [q \in Queriers |-> whole'[q]]
    PROVE  TypeInv' /\ ReaderTypes'
<1>1. TypeInv'
  BY NextTypes DEF ProtocolActs, Next
<1>2. ASSUME NEW p \in Queriers, rpc[p] # "none"
      PROVE  ask'[p] = ask[p] /\ qpc'[p] = qpc[p]
  <2>1. CASE \E m \in Mappers : MapActs(m)
    BY <2>1 DEF MapActs, queryVars
  <2>2. CASE WorldActs
    BY <2>2 DEF WorldActs, UserEdits, HeadMoves, HookRaisesFlag, ForeignWrite, queryVars
  <2>3. CASE \E q \in Queriers : AtReader(q, "none") /\ QueryActs(q)
    BY <1>2, <2>3, OtherQueriesStand DEF AtReader
  <2> QED
    BY <2>1, <2>2, <2>3 DEF ProtocolActs
<1>3. "none" \notin ExportSteps \cup HookSteps
  BY DEF ExportSteps, HookSteps
<1> QED
  BY <1>1, <1>2, <1>3 DEF ReaderTypes, ProtocolActs

(* The two steps at which an export starts validating itself, and its        *)
(* validation.                                                               *)
LEMMA BeginExportTypes ==
    ASSUME TypeInv, ReaderTypes, NEW q \in Queriers, NEW w \in Worktrees, NEW a \in Worktrees,
           BeginExport(q, w, a)
    PROVE  TypeInv' /\ ReaderTypes' /\ UNCHANGED coreVars
<1>1. QueryActs(q)
  BY DEF BeginExport, QueryActs
<1>2. TypeInv' /\ UNCHANGED coreVars
  BY <1>1, NextTypes, QueryLeavesCore DEF Next
<1>3. qpc'[q] # "idle"
  BY DEF BeginExport, Open, GotoQuery, TypeInv, TypeOK, QueryTypeOK
<1>4. "x record" \in ExportSteps \ HookSteps
  BY DEF ExportSteps, HookSteps
<1>5. got[q] \in Gots /\ got' = [got EXCEPT ![q] = got[q]]
        /\ whole' = [p \in Queriers |-> whole'[p]]
  BY DEF BeginExport, ReaderTypes
<1>6. ReaderTypes'
  BY <1>1, <1>3, <1>4, <1>5, MovesOn, OtherQueriesStand DEF BeginExport, GotoReader
<1> QED
  BY <1>2, <1>6

(* The export's reads keep the types.                                        *)
LEMMA ReadFactsTypes ==
    ASSUME TypeInv, ReaderTypes, NEW q \in Queriers, ReadFactsForExport(q)
    PROVE  TypeInv' /\ ReaderTypes' /\ UNCHANGED coreVars
<1>1. UNCHANGED <<worldVars, storeVars, mapVars, foreign, calm, ask>>
  BY DEF ReadFactsForExport
<1>2. qpc[q] # "idle"
  BY DEF ReadFactsForExport, AtReader, ReaderTypes, ExportSteps
<1>3. QueryTypes'
  BY <1>1, <1>2
     DEF ReadFactsForExport, GotoQuery, TypeInv, TypeOK, QueryTypes, QueryTypeOK, QuerySteps,
         JudgingSteps, ActiveQuery
<1>4. TypeInv'
  BY <1>1, <1>3, OnlyQueriesMove
<1>5. qpc'[q] # "idle" /\ \A p \in Queriers : p # q => ask'[p] = ask[p] /\ qpc'[p] = qpc[p]
  BY <1>1 DEF ReadFactsForExport, GotoQuery, TypeInv, TypeOK, QueryTypeOK
<1>6. "x validate" \in ExportSteps \ HookSteps
  BY DEF ExportSteps, HookSteps
<1>7. got[q] \in Gots /\ got' = [got EXCEPT ![q] = got[q]]
        /\ whole' = [p \in Queriers |-> whole'[p]]
  BY DEF ReadFactsForExport, ReaderTypes
<1>8. ReaderTypes'
  BY <1>5, <1>6, <1>7, MovesOn DEF ReadFactsForExport, GotoReader
<1> QED
  BY <1>1, <1>4, <1>8
     DEF storeVars, certVars, sidecarVars, fragmentVars, mapVars, coreVars, indexVars

(* So does its validation.                                                   *)
LEMMA ValidateTypes ==
    ASSUME TypeInv, ReaderTypes, NEW q \in Queriers, Validate(q)
    PROVE  TypeInv' /\ ReaderTypes' /\ UNCHANGED coreVars
<1>1. QueryActs(q) /\ UNCHANGED readerVars /\ QueryStep(q)
  BY DEF Validate, QueryActs
<1>2. TypeInv' /\ UNCHANGED coreVars
  BY <1>1, NextTypes, QueryLeavesCore DEF Next
<1>3. qpc'[q] # "idle"
  BY <1>1
     DEF QueryStep, ReadGraph, ReadManifest, Refuse, ReadHead, ReadStatus, StatusFailure,
         HashCandidates, ReadRecordAgain, StatGraph, Answer, Conclude, GotoQuery, TypeInv,
         TypeOK, QueryTypeOK
<1>4. rpc[q] = "x validate" /\ "x validate" \notin HookSteps
  BY DEF Validate, AtReader, HookSteps
<1>5. ReaderTypes'
  BY <1>1, <1>3, <1>4, OtherQueriesStand DEF ReaderTypes, readerVars
<1> QED
  BY <1>2, <1>5

(* Every step of an export.                                                  *)
LEMMA ExportTypes ==
    ASSUME TypeInv, ReaderTypes, NEW q \in Queriers, ExportStep(q)
    PROVE  TypeInv' /\ ReaderTypes' /\ UNCHANGED coreVars
<1> USE DEF ExportSteps, AtReader
<1>1. CASE ReadRecordForExport(q)
  BY <1>1, RefusesTypes, ReadTypes DEF ReadRecordForExport
<1>2. CASE ReadDigestsForExport(q)
  BY <1>2, RefusesTypes, ReadTypes DEF ReadDigestsForExport
<1>3. CASE ReadGraphForExport(q)
  BY <1>3, RefusesTypes, ReadTypes DEF ReadGraphForExport
<1>4. CASE ReadCacheForExport(q)
  BY <1>4, RefusesTypes, ReadTypes DEF ReadCacheForExport
<1>5. CASE IdentifyCache(q)
  BY <1>5, ReadTypes DEF IdentifyCache
<1>6. CASE CheckGraphId(q) \/ CheckManifestId(q)
  BY <1>6, ChecksTypes DEF CheckGraphId, CheckManifestId
<1>7. CASE ConfirmVerdict(q) \/ ConfirmRecord(q) \/ ConfirmGraph(q)
  BY <1>7, ChecksTypes DEF ConfirmVerdict, ConfirmRecord, ConfirmGraph
<1>8. CASE ConfirmManifest(q) \/ ConfirmCache(q) \/ ConfirmFacts(q)
  BY <1>8, ChecksTypes DEF ConfirmManifest, ConfirmCache, ConfirmFacts
<1>9. CASE ReadFactsForExport(q) \/ Validate(q)
  BY <1>9, ReadFactsTypes, ValidateTypes
<1>10. CASE PublishExport(q)
  BY <1>10, RefusesTypes DEF PublishExport
<1> QED
  BY <1>1, <1>2, <1>3, <1>4, <1>5, <1>6, <1>7, <1>8, <1>9, <1>10 DEF ExportStep

(* A read of a file starts a hook.                                           *)
LEMMA HookReadsHeadTypes ==
    ASSUME TypeInv, ReaderTypes, NEW q \in Queriers, NEW w \in Worktrees,
           NEW a \in Worktrees, NEW f \in Sources, HookReadsHead(q, w, a, f)
    PROVE  TypeInv' /\ ReaderTypes' /\ UNCHANGED coreVars
<1> DEFINE asked == [ask[q] EXCEPT !.root = w, !.asking = a]
           mem == [got[q] EXCEPT !.head = GitHead(w), !.file = f]
<1>1. ask[q] \in Asks /\ asked \in Asks /\ asked.root = w /\ asked.snapshot = ask[q].snapshot
  <2>1. ask[q] \in Asks
    BY DEF TypeInv, TypeOK, QueryTypeOK
  <2>2. [ask[q] EXCEPT !.root = w] \in Asks
    BY <2>1 DEF Asks
  <2> QED
    BY <2>1, <2>2 DEF Asks
<1>2. got[q] \in Gots /\ mem \in Gots /\ mem.file = f
  <2>1. got[q] \in Gots
    BY DEF ReaderTypes
  <2>2. GitHead(w) \in Nat \cup {None}
    BY DEF GitHead, TypeInv, TypeOK, WorldTypeOK
  <2>3. [got[q] EXCEPT !.head = GitHead(w)] \in Gots
    BY <2>1, <2>2 DEF Gots
  <2> QED
    BY <2>1, <2>2, <2>3 DEF Gots
<1>3. ask' = [ask EXCEPT ![q] = asked] /\ got' = [got EXCEPT ![q] = mem]
  BY <1>1, <1>2 DEF HookReadsHead, TypeInv, TypeOK, QueryTypeOK, ReaderTypes
<1>4. UNCHANGED <<worldVars, storeVars, mapVars, foreign, calm, qpc>> /\ qpc[q] = "idle"
        /\ rpc' = [rpc EXCEPT ![q] = "h manifest"]
        /\ whole' = [p \in Queriers |-> whole'[p]]
  BY DEF HookReadsHead, AtQuery, GotoReader, ReaderTypes
<1> HIDE DEF asked, mem
<1>5. QueryTypes'
  BY <1>1, <1>3, <1>4
     DEF TypeInv, TypeOK, QueryTypes, QueryTypeOK, ActiveQuery, JudgingSteps
<1>6. TypeInv'
  BY <1>4, <1>5, OnlyQueriesMove
<1>7. "h manifest" \in HookSteps \ ExportSteps
  BY DEF ExportSteps, HookSteps
<1>8. ask'[q] = asked /\ qpc'[q] = "idle"
        /\ \A p \in Queriers : p # q => ask'[p] = ask[p] /\ qpc'[p] = qpc[p]
  BY <1>3, <1>4 DEF TypeInv, TypeOK, QueryTypeOK
<1>9. ReaderTypes'
  BY <1>1, <1>2, <1>3, <1>4, <1>7, <1>8, MovesOn
<1> QED
  BY <1>4, <1>6, <1>9
     DEF storeVars, certVars, sidecarVars, fragmentVars, mapVars, coreVars, indexVars

(* The flag goes up and the hook is done.                                    *)
LEMMA HookWritesFlagTypes ==
    ASSUME TypeInv, ReaderTypes, NEW q \in Queriers, HookWritesFlag(q)
    PROVE  TypeInv' /\ ReaderTypes' /\ UNCHANGED coreVars
<1>1. qpc[q] = "idle" /\ ask[q].root \in Worktrees
  BY DEF HookWritesFlag, AtReader, ReaderTypes, HookSteps
<1>2. /\ qpc' = [qpc EXCEPT ![q] = "idle"] /\ ask' = [ask EXCEPT ![q] = NoQuery]
  BY <1>1 DEF HookWritesFlag, TypeInv, TypeOK, QueryTypeOK
<1>3. QueryTypes'
  BY <1>2, AskTypes, NoQueryTypes
     DEF GotoQuery, TypeInv, TypeOK, QueryTypes, QuerySteps, JudgingSteps
<1>4. StoreTypeOK'
  BY <1>1 DEF HookWritesFlag, HookRoot, TypeInv, TypeOK, StoreTypeOK, certVars, sidecarVars,
              fragmentVars
<1>5. TypeInv'
  BY <1>3, <1>4 DEF HookWritesFlag, TypeInv, TypeOK, WorldTypeOK, MapTypeOK, ActiveRun,
                    QueryTypes, worldVars, mapVars
<1>6. \A p \in Queriers : p # q => ask'[p] = ask[p] /\ qpc'[p] = qpc[p]
  BY <1>2 DEF TypeInv, TypeOK, QueryTypeOK
<1>7. "none" \notin ExportSteps \cup HookSteps
  BY DEF ExportSteps, HookSteps
<1>8. whole' = [p \in Queriers |-> whole'[p]]
  BY DEF HookWritesFlag, Leave, ReaderTypes
<1>9. ReaderTypes'
  BY <1>6, <1>7, <1>8, MovesOn, NothingTypes DEF HookWritesFlag, Leave
<1> QED
  BY <1>5, <1>9 DEF HookWritesFlag, certVars, sidecarVars, fragmentVars, mapVars, coreVars,
                    indexVars

(* Every other step of a hook.                                               *)
LEMMA HookTypes ==
    ASSUME TypeInv, ReaderTypes, NEW q \in Queriers, HookStep(q)
    PROVE  TypeInv' /\ ReaderTypes' /\ UNCHANGED coreVars
<1> USE DEF HookSteps, ExportSteps, AtReader, HookLeaves
<1>1. CASE HookWritesFlag(q)
  BY <1>1, HookWritesFlagTypes
<1>2. CASE \E partial \in BOOLEAN : HookReadsManifest(q, partial)
  <2>1. CASE Refuses(q)
    BY <2>1, RefusesTypes
  <2>2. ASSUME NEW next \in {"h record", "h flag"}, GotoReader(q, next),
               UNCHANGED <<vars, got, whole>>
        PROVE  TypeInv' /\ ReaderTypes' /\ UNCHANGED coreVars
    <3>1. got[q] \in Gots /\ got' = [got EXCEPT ![q] = got[q]] /\ rpc[q] = "h manifest"
      BY <1>2, <2>2 DEF ReaderTypes, HookReadsManifest
    <3> QED
      BY <2>2, <3>1, GoesOnTypes
  <2> QED
    BY <1>2, <2>1, <2>2 DEF HookReadsManifest
<1>3. CASE HookReadsRecord(q)
  BY <1>3, RefusesTypes, ReadTypes DEF HookReadsRecord
<1>4. CASE HookChecksGraph(q)
  BY <1>4, RefusesTypes, ReadTypes DEF HookChecksGraph
<1>5. CASE HookReadsDigests(q)
  BY <1>5, RefusesTypes, ReadTypes DEF HookReadsDigests
<1>6. CASE HookHashesFile(q)
  BY <1>6, ChecksTypes DEF HookHashesFile
<1>7. CASE HookOffers(q)
  BY <1>7, RefusesTypes DEF HookOffers
<1>8. CASE HookFindsFlag(q)
  <2>1. /\ got[q] \in Gots /\ got' = [got EXCEPT ![q] = got[q]] /\ rpc[q] = "h flag"
        /\ GotoReader(q, "h record") /\ UNCHANGED <<vars, whole>>
    BY <1>8 DEF ReaderTypes, HookFindsFlag
  <2> QED
    BY <2>1, GoesOnTypes
<1> QED
  BY <1>1, <1>2, <1>3, <1>4, <1>5, <1>6, <1>7, <1>8 DEF HookStep

(* One process's step, as an export or a hook.                               *)
ReaderActs(q) ==
    \/ \E w, a \in Worktrees : BeginExport(q, w, a)
    \/ ExportStep(q)
    \/ \E w, a \in Worktrees, f \in Sources : HookReadsHead(q, w, a, f)
    \/ HookStep(q)

(* So does every step of an export or a hook.                                *)
LEMMA ReaderActsTypes ==
    ASSUME TypeInv, ReaderTypes, NEW q \in Queriers, ReaderActs(q)
    PROVE  TypeInv' /\ ReaderTypes' /\ UNCHANGED coreVars
  BY BeginExportTypes, ExportTypes, HookReadsHeadTypes, HookTypes DEF ReaderActs

(* Types are kept by every step, of the protocol or of a reader.             *)
LEMMA ReadersNextTypes ==
    ASSUME TypeInv, ReaderTypes, [ReadersNext]_allVars
    PROVE  TypeInv' /\ ReaderTypes'
<1>1. ASSUME ProtocolActs,
             whole' = [q \in Queriers |-> IF Exporting(q) THEN whole[q] \cup WholeNow'
                                          ELSE whole[q]]
      PROVE  TypeInv' /\ ReaderTypes'
  <2>1. whole' = [q \in Queriers |-> whole'[q]]
    BY <1>1
  <2> QED
    BY <1>1, <2>1, ProtocolTypes
<1>2. CASE UNCHANGED <<vars, rpc, got, whole>>
  <2>1. TypeInv'
    BY <1>2, NextTypes
  <2> QED
    BY <1>2, <2>1 DEF ReaderTypes, vars, queryVars
<1>3. ReadersNext =>
        \/ /\ ProtocolActs
           /\ whole' = [q \in Queriers |-> IF Exporting(q) THEN whole[q] \cup WholeNow'
                                          ELSE whole[q]]
        \/ \E q \in Queriers : ReaderActs(q)
        \/ Import
  BY DEF ReadersNext, ReaderActs
<1> QED
  BY <1>1, <1>2, <1>3, ReaderActsTypes DEF Import, allVars, readerVars

-----------------------------------------------------------------------------
(* What a reader has in memory, against the disk.                            *)

(* The steps of an export that has read its record, and so on.               *)
PastRecord == ExportSteps \ {"x record"}
PastDigests == PastRecord \ {"x digests"}
PastGraph == PastDigests \ {"x graph"}
PastCache == PastGraph \ {"x graph id", "x manifest id", "x cache"}
(* The steps at which it has found its record again, after all its reads.    *)
Confirmed == {"x graph again", "x manifest again", "x cache again", "x facts again",
              "x publish"}

TakenBy(q) == IndexOf(got[q].record, got[q].digests, got[q].graph, got[q].cache)

(* A graph and the cache it was built from.                                  *)
Builds(c, g) ==
    \A f \in GraphSources :
        g.inputs[f] = IF c.entries[f] = None THEN Absent ELSE c.entries[f]

(* As long as an export's record is the one on disk, what it has read is     *)
(* what is there; when it finds it again, that becomes a fact of its own.    *)
ExportHolds(q) ==
    /\ rpc[q] \in PastRecord => IsPublished(got[q].record) /\ Backs(got[q].record)
    /\ record = got[q].record =>
          /\ rpc[q] \in PastDigests => got[q].digests = digests
          /\ rpc[q] \in PastGraph => got[q].graph = graph
          /\ rpc[q] \in PastCache => got[q].cache = cache
    /\ rpc[q] \in Confirmed => /\ TakenBy(q) \in whole[q]
                               /\ Builds(got[q].cache, got[q].graph)

(* A hook's graph was built from the bytes its record's digests name.        *)
HookHolds(q) ==
    /\ rpc[q] \in {"h graph id", "h digests", "h bytes", "h offer"} =>
          IsPublished(got[q].record) /\ Backs(got[q].record)
    /\ rpc[q] = "h digests" /\ digests.gen = got[q].record.gen =>
          Agree(digests, got[q].graph)
    /\ rpc[q] \in {"h bytes", "h offer"} =>
          /\ Agree(got[q].digests, got[q].graph)
          /\ got[q].digests.files[got[q].file] # None

(* An export has seen every index there was since it began.                  *)
SeesWhole(q) == IF Exporting(q) THEN WholeNow \subseteq whole[q] ELSE whole[q] = {}

ReaderHolds(q) == ExportHolds(q) /\ HookHolds(q) /\ SeesWhole(q)

ReadersInv == /\ Core /\ Backs(record) /\ ReaderTypes
              /\ \A q \in Queriers : ReaderHolds(q)

-----------------------------------------------------------------------------
(* The certified index on disk.                                              *)

(* A published record names what is there.                                   *)
LEMMA WholeNowIs ==
    ASSUME WholeInv
    PROVE  WholeNow = IF IsPublished(record)
                      THEN {IndexOf(record, digests, graph, cache)} ELSE {}
  BY DEF WholeInv, DiskWhole, WholeNow, CertifiedIndexIsWhole

(* Under a record the fragments on disk are those the graph was built from.  *)
LEMMA CertifiedCacheBuilds ==
    ASSUME Core, IsPublished(record)
    PROVE  Builds(cache, graph)
<1>1. \A f \in GraphSources : index.entries[f] # Unread
  BY WholeTypes, StoreAssumption DEF Core, Context, Stamps, Fragmented
<1> QED
  BY <1>1 DEF Core, WholeInv, DiskWhole, Contribution, Builds

(* A record that is gone does not come back.                                 *)
LEMMA RecordStaysGone ==
    ASSUME Core, NEW r \in Records, IsPublished(r), Backs(r), NEW m \in Mappers, MapActs(m),
           record' = r
    PROVE  record = r
<1>1. CASE mpc[m] = "publish" /\ record'.gen = run[m].gen
  <2>1. run[m].gen = gens /\ r.gen < gens
    BY <1>1, LockedStepsFacts DEF Core, LatestRun, MarkedSteps, Backs
  <2>2. r.gen \in Nat /\ gens \in Nat
    BY CertificateTypes DEF Core, Context, TypeInv, TypeOK, MapTypeOK
  <2> QED
    BY <1>1, <2>1, <2>2
<1> QED
  BY <1>1, StoreStep DEF Core

-----------------------------------------------------------------------------
(* Steps of the maps and of the world.                                       *)

SeesOn == whole' = [q \in Queriers |-> IF Exporting(q) THEN whole[q] \cup WholeNow'
                                       ELSE whole[q]]

(* A map's step leaves what an export knows true, and adds to what it could  *)
(* have seen whole.                                                          *)
LEMMA ExportMapStep ==
    ASSUME Core, ReaderTypes, NEW p \in Queriers, ExportHolds(p), NEW m \in Mappers,
           MapActs(m), UNCHANGED <<rpc, got>>, SeesOn
    PROVE  ExportHolds(p)'
<1>1. PICK r : r = got[p].record
  OBVIOUS
<1>2. PICK s : s = rpc[p]
  OBVIOUS
<1>3. r \in Records
  BY <1>1 DEF ReaderTypes, Gots
<1>4. s \in PastRecord => IsPublished(r) /\ Backs(r) /\ Backs(r)'
  BY <1>1, <1>2, <1>3, BacksMapStep DEF ExportHolds
<1>5. s \in PastRecord /\ record' = r =>
        record = r /\ UNCHANGED <<digests, graph, cache>>
  BY <1>3, <1>4, RecordStaysGone, CertifiedStands
<1>6. s \in Confirmed => TakenBy(p)' \in whole'[p]
  BY <1>2 DEF ExportHolds, TakenBy, IndexOf, SeesOn, Exporting, ExportSteps, Confirmed
<1> QED
  BY <1>1, <1>2, <1>4, <1>5, <1>6
     DEF ExportHolds, Builds, PastDigests, PastGraph, PastCache

(* A map's step leaves what a hook has read backed by its record.            *)
LEMMA HookMapStep ==
    ASSUME Core, ReaderTypes, NEW p \in Queriers, HookHolds(p), NEW m \in Mappers,
           MapActs(m), UNCHANGED <<rpc, got>>
    PROVE  HookHolds(p)'
<1>1. PICK r : r = got[p].record
  OBVIOUS
<1>2. PICK s : s = rpc[p]
  OBVIOUS
<1>3. r \in Records
  BY <1>1 DEF ReaderTypes, Gots
<1>4. s \in {"h graph id", "h digests", "h bytes", "h offer"} =>
        IsPublished(r) /\ Backs(r) /\ Backs(r)'
  BY <1>1, <1>2, <1>3, BacksMapStep DEF HookHolds
<1>5. ASSUME s = "h digests", digests' # digests
      PROVE  digests'.gen # r.gen
  <2>1. IsPublished(r) /\ Backs(r)
    BY <1>4, <1>5
  <2>2. mpc[m] = "digests" /\ digests'.gen = run[m].gen
    BY <1>5, StoreStep DEF Core
  <2>3. run[m].gen = gens /\ r.gen < gens
    BY <2>1, <2>2, LockedStepsFacts DEF Core, LatestRun, MarkedSteps, Backs
  <2>4. r.gen \in Nat /\ gens \in Nat
    BY <1>3, <2>1, CertificateTypes DEF Core, Context, TypeInv, TypeOK, MapTypeOK
  <2> QED
    BY <2>2, <2>3, <2>4
<1> QED
  BY <1>1, <1>2, <1>4, <1>5 DEF HookHolds, Agree

(* What could have been seen whole is kept up with the disk.                 *)
LEMMA SeesWholeOn ==
    ASSUME ReaderTypes, NEW p \in Queriers, SeesWhole(p), UNCHANGED rpc, SeesOn
    PROVE  SeesWhole(p)'
  BY DEF SeesWhole, SeesOn, Exporting

(* A step that leaves the index, and this process, alone.                    *)
LEMMA ReaderStands ==
    ASSUME NEW p \in Queriers, ReaderHolds(p), UNCHANGED coreVars,
           rpc'[p] = rpc[p], got'[p] = got[p], whole'[p] = whole[p]
    PROVE  ReaderHolds(p)'
<1>1. PICK r : r = got[p].record
  OBVIOUS
<1>2. UNCHANGED <<record, digests, manifest, graph, cache, mpc, gens>>
  BY DEF coreVars, indexVars
<1>3. Backs(r) => Backs(r)'
  BY <1>2, BacksStands
<1>4. ExportHolds(p)'
  BY <1>1, <1>2, <1>3 DEF ReaderHolds, ExportHolds, TakenBy, IndexOf, Builds
<1>5. HookHolds(p)'
  BY <1>1, <1>2, <1>3 DEF ReaderHolds, HookHolds, Agree
<1>6. WholeNow' = WholeNow
  BY <1>2 DEF WholeNow, IndexOf
<1> QED
  BY <1>4, <1>5, <1>6 DEF ReaderHolds, SeesWhole, Exporting

(* Nor does the history miss anything when the index stands.                 *)
LEMMA StandingWholeSeen ==
    ASSUME ReaderTypes, \A p \in Queriers : SeesWhole(p), UNCHANGED coreVars, SeesOn
    PROVE  UNCHANGED whole
<1>1. WholeNow' = WholeNow
  BY DEF WholeNow, IndexOf, coreVars, indexVars
<1>2. \A p \in Queriers : whole'[p] = whole[p]
  BY <1>1 DEF SeesOn, SeesWhole
<1>3. whole' = [p \in Queriers |-> whole[p]]
  BY <1>2 DEF SeesOn
<1> QED
  BY <1>3 DEF ReaderTypes

-----------------------------------------------------------------------------
(* An export's and a hook's own steps.                                       *)

(* One that has left holds nothing.                                          *)
LEMMA LeaveHolds ==
    ASSUME ReaderTypes, NEW q \in Queriers, Leave(q)
    PROVE  ReaderHolds(q)'
<1>1. rpc'[q] = "none" /\ whole'[q] = {}
  BY DEF Leave, ReaderTypes
<1> QED
  BY <1>1 DEF ReaderHolds, ExportHolds, HookHolds, SeesWhole, Exporting, ExportSteps,
              PastRecord, PastDigests, PastGraph, PastCache, Confirmed

(* One whose record is not on disk any more knows only that it was.          *)
LEMMA OwnRecordStands ==
    ASSUME Backs(record), UNCHANGED coreVars
    PROVE  \A r : Backs(r) => Backs(r)'
<1>1. UNCHANGED <<record, digests, manifest, graph, mpc, gens>>
  BY DEF coreVars, indexVars
<1> QED
  BY <1>1, BacksStands

(* An export that goes on without reading.                                   *)
LEMMA ExportGoesOn ==
    ASSUME Core, NEW q \in Queriers, ReaderTypes, ReaderHolds(q), UNCHANGED coreVars,
           NEW next \in PastRecord, rpc[q] \in PastRecord, rpc'[q] = next,
           got'[q] = got[q], whole'[q] = whole[q],
           next \in PastDigests => rpc[q] \in PastDigests,
           next \in PastGraph => rpc[q] \in PastGraph,
           next \in PastCache => rpc[q] \in PastCache,
           next \in Confirmed => rpc[q] \in Confirmed
    PROVE  ReaderHolds(q)'
<1>1. PICK r : r = got[q].record
  OBVIOUS
<1>2. UNCHANGED <<record, digests, manifest, graph, cache, mpc, gens>>
  BY DEF coreVars, indexVars
<1>3. Backs(r) => Backs(r)'
  BY <1>2, BacksStands
<1>4. ExportHolds(q)'
  BY <1>1, <1>2, <1>3 DEF ReaderHolds, ExportHolds, TakenBy, IndexOf, Builds
<1>5. HookHolds(q)'
  BY DEF HookHolds, PastRecord, ExportSteps
<1>6. WholeNow' = WholeNow
  BY <1>2 DEF WholeNow, IndexOf
<1> QED
  BY <1>4, <1>5, <1>6 DEF ReaderHolds, SeesWhole, Exporting, PastRecord

(* An export's own steps: each read is compared with the record it started   *)
(* from.                                                                     *)
LEMMA ExportOwnStep ==
    ASSUME Core, Backs(record), ReaderTypes, NEW q \in Queriers, ReaderHolds(q),
           UNCHANGED coreVars, ExportStep(q)
    PROVE  ReaderHolds(q)'
<1> USE DEF AtReader, GotoReader, PastRecord, PastDigests, PastGraph, PastCache, Confirmed,
            ExportSteps
<1>1. rpc[q] \in ExportSteps /\ got[q] \in Gots
        /\ rpc \in [Queriers -> {"none"} \cup ExportSteps \cup HookSteps]
        /\ got \in [Queriers -> Gots]
  BY DEF ReaderTypes, ExportStep, ReadRecordForExport, ReadDigestsForExport,
         ReadGraphForExport, CheckGraphId, CheckManifestId, ReadCacheForExport, IdentifyCache,
         ReadFactsForExport, Validate, ConfirmVerdict, ConfirmRecord, ConfirmGraph,
         ConfirmManifest, ConfirmCache, ConfirmFacts, PublishExport, Checks
<1>2. UNCHANGED <<record, digests, manifest, graph, cache, mpc, gens>>
  BY DEF coreVars, indexVars
<1>3. CASE Refuses(q)
  BY <1>3, LeaveHolds DEF Refuses
<1>4. ASSUME NEW step \in ExportSteps, NEW next \in ExportSteps, NEW holds,
             Checks(q, step, holds, next), ~Refuses(q)
      PROVE  /\ rpc[q] = step /\ rpc'[q] = next /\ got'[q] = got[q] /\ whole'[q] = whole[q]
             /\ holds
  BY <1>1, <1>4 DEF Checks
<1>5. CASE CheckGraphId(q) \/ CheckManifestId(q)
  <2>1. CASE CheckGraphId(q)
    BY <1>3, <1>4, <2>1, ExportGoesOn DEF CheckGraphId
  <2>2. CASE CheckManifestId(q)
    BY <1>3, <1>4, <2>2, ExportGoesOn DEF CheckManifestId
  <2> QED
    BY <1>5, <2>1, <2>2
<1>6. CASE ConfirmVerdict(q)
  BY <1>3, <1>4, <1>6, ExportGoesOn DEF ConfirmVerdict
<1>7. CASE ConfirmGraph(q) \/ ConfirmManifest(q)
  <2>1. CASE ConfirmGraph(q)
    BY <1>3, <1>4, <2>1, ExportGoesOn DEF ConfirmGraph
  <2>2. CASE ConfirmManifest(q)
    BY <1>3, <1>4, <2>2, ExportGoesOn DEF ConfirmManifest
  <2> QED
    BY <1>7, <2>1, <2>2
<1>8. CASE ConfirmCache(q) \/ ConfirmFacts(q)
  <2>1. CASE ConfirmCache(q)
    BY <1>3, <1>4, <2>1, ExportGoesOn DEF ConfirmCache
  <2>2. CASE ConfirmFacts(q)
    BY <1>3, <1>4, <2>2, ExportGoesOn DEF ConfirmFacts
  <2> QED
    BY <1>8, <2>1, <2>2
<1>9. CASE ReadFactsForExport(q) \/ Validate(q)
  <2>1. got'[q] = got[q] /\ whole'[q] = whole[q] /\ rpc[q] \in {"x facts", "x validate"}
          /\ rpc'[q] = "x validate"
    BY <1>1, <1>9 DEF ReadFactsForExport, Validate, readerVars
  <2> QED
    BY <2>1, ExportGoesOn
<1>10. CASE PublishExport(q)
  BY <1>3, <1>10 DEF PublishExport
<1>11. PICK r : r = got[q].record
  OBVIOUS
<1>12. rpc[q] \in PastRecord => IsPublished(r) /\ Backs(r) /\ Backs(r)'
  BY <1>11, OwnRecordStands DEF ReaderHolds, ExportHolds
<1>13. SeesWhole(q) /\ WholeNow' = WholeNow
  BY <1>2 DEF WholeNow, IndexOf, ReaderHolds
<1>14. CASE ReadRecordForExport(q) /\ ~Refuses(q)
  <2>1. IsPublished(record) /\ Reads(q, "record", record) /\ rpc'[q] = "x digests"
    BY <1>1, <1>14 DEF ReadRecordForExport
  <2>2. got'[q].record = record /\ whole'[q] = whole[q]
    BY <1>1, <2>1, ReadsInto, DiskTypes DEF Reads, Gots, Core, Context
  <2>3. Backs(record)'
    BY <1>2 DEF Backs, Agree
  <2> QED
    BY <1>1, <1>2, <1>13, <2>1, <2>2, <2>3 DEF ReaderHolds, ExportHolds, HookHolds, SeesWhole,
       Exporting, Backs
<1>15. CASE ReadDigestsForExport(q) /\ ~Refuses(q)
  <2>1. Reads(q, "digests", digests) /\ rpc[q] = "x digests" /\ rpc'[q] = "x graph"
    BY <1>1, <1>15 DEF ReadDigestsForExport
  <2>2. got'[q].record = r /\ got'[q].digests = digests /\ whole'[q] = whole[q]
    BY <1>1, <1>11, <2>1, ReadsInto, DiskTypes DEF Reads, Gots, Core, Context
  <2> QED
    BY <1>1, <1>2, <1>12, <1>13, <2>1, <2>2 DEF ReaderHolds, ExportHolds, HookHolds, SeesWhole,
       Exporting
<1>16. CASE ReadGraphForExport(q) /\ ~Refuses(q)
  <2>1. Reads(q, "graph", graph) /\ rpc[q] = "x graph" /\ rpc'[q] = "x graph id"
    BY <1>1, <1>16 DEF ReadGraphForExport
  <2>2. got'[q].record = r /\ got'[q].digests = got[q].digests /\ got'[q].graph = graph
          /\ whole'[q] = whole[q]
    BY <1>1, <1>11, <2>1, ReadsInto, DiskTypes DEF Reads, Gots, Core, Context
  <2> QED
    BY <1>1, <1>2, <1>11, <1>12, <1>13, <2>1, <2>2
       DEF ReaderHolds, ExportHolds, HookHolds, SeesWhole, Exporting
<1>17. CASE ReadCacheForExport(q) /\ ~Refuses(q)
  <2>1. Reads(q, "cache", cache) /\ rpc[q] = "x cache" /\ rpc'[q] = "x cache id"
    BY <1>1, <1>17 DEF ReadCacheForExport
  <2>2. got'[q].record = r /\ got'[q].digests = got[q].digests
          /\ got'[q].graph = got[q].graph /\ got'[q].cache = cache /\ whole'[q] = whole[q]
    BY <1>1, <1>11, <2>1, ReadsInto, DiskTypes DEF Reads, Gots, Core, Context
  <2> QED
    BY <1>1, <1>2, <1>11, <1>12, <1>13, <2>1, <2>2
       DEF ReaderHolds, ExportHolds, HookHolds, SeesWhole, Exporting
<1>18. CASE IdentifyCache(q)
  <2>1. Reads(q, "cacheId", cache) /\ rpc[q] = "x cache id" /\ rpc'[q] = "x facts"
    BY <1>1, <1>18 DEF IdentifyCache
  <2>2. got'[q].record = r /\ got'[q].digests = got[q].digests
          /\ got'[q].graph = got[q].graph /\ got'[q].cache = got[q].cache
          /\ whole'[q] = whole[q]
    BY <1>1, <1>11, <2>1, ReadsInto, DiskTypes DEF Reads, Gots, Core, Context
  <2> QED
    BY <1>1, <1>2, <1>11, <1>12, <1>13, <2>1, <2>2
       DEF ReaderHolds, ExportHolds, HookHolds, SeesWhole, Exporting
<1>19. CASE ConfirmRecord(q) /\ ~Refuses(q)
  <2>1. /\ rpc[q] = "x record again" /\ rpc'[q] = "x graph again"
        /\ got'[q] = got[q] /\ whole'[q] = whole[q]
        /\ IsPublished(record) /\ record.gen = r.gen
    BY <1>1, <1>11, <1>19 DEF ConfirmRecord, Checks
  <2>2. record = r
    BY <1>12, <2>1 DEF Backs
  <2>3. TakenBy(q) = IndexOf(record, digests, graph, cache)
          /\ got[q].graph = graph /\ got[q].cache = cache
    BY <1>11, <2>1, <2>2 DEF ReaderHolds, ExportHolds, TakenBy
  <2>4. TakenBy(q) \in whole[q]
    BY <1>13, <2>1, <2>3, WholeNowIs DEF SeesWhole, Exporting, Core
  <2>5. Builds(got[q].cache, got[q].graph)
    BY <2>1, <2>3, CertifiedCacheBuilds
  <2>6. TakenBy(q)' = TakenBy(q)
    BY <2>1 DEF TakenBy, IndexOf
  <2>7. ExportHolds(q)'
    BY <1>2, <1>11, <1>12, <2>1, <2>2, <2>3, <2>4, <2>5, <2>6
       DEF ReaderHolds, ExportHolds, Builds
  <2> QED
    BY <1>13, <2>1, <2>7 DEF ReaderHolds, HookHolds, SeesWhole, Exporting
<1> QED
  BY <1>3, <1>5, <1>6, <1>7, <1>8, <1>9, <1>10, <1>14, <1>15, <1>16, <1>17, <1>18, <1>19
     DEF ExportStep

(* An export begins with the index there is.                                 *)
LEMMA BeginExportHolds ==
    ASSUME Core, ReaderTypes, NEW q \in Queriers, UNCHANGED coreVars,
           NEW w \in Worktrees, NEW a \in Worktrees, BeginExport(q, w, a)
    PROVE  ReaderHolds(q)'
<1>1. rpc'[q] = "x record" /\ whole'[q] = WholeNow
  BY DEF BeginExport, GotoReader, ReaderTypes
<1>2. WholeNow' = WholeNow
  BY DEF WholeNow, IndexOf, coreVars, indexVars
<1> QED
  BY <1>1, <1>2 DEF ReaderHolds, ExportHolds, HookHolds, SeesWhole, Exporting, ExportSteps,
                    PastRecord, PastDigests, PastGraph, PastCache, Confirmed

(* A hook is at no step of an export.                                        *)
LEMMA HookIsNoExport ==
    ASSUME NEW q \in Queriers, rpc[q] \in HookSteps
    PROVE  /\ ~Exporting(q) /\ rpc[q] \notin PastRecord /\ rpc[q] \notin PastDigests
           /\ rpc[q] \notin PastGraph /\ rpc[q] \notin PastCache /\ rpc[q] \notin Confirmed
  BY DEF Exporting, ExportSteps, HookSteps, PastRecord, PastDigests, PastGraph, PastCache,
         Confirmed

(* A hook's own steps: the graph's identity, then the digests, then the      *)
(* bytes.                                                                    *)
LEMMA HookOwnStep ==
    ASSUME Core, Backs(record), ReaderTypes, NEW q \in Queriers, ReaderHolds(q),
           UNCHANGED coreVars,
           \/ HookStep(q)
           \/ \E w, a \in Worktrees, f \in Sources : HookReadsHead(q, w, a, f)
    PROVE  ReaderHolds(q)'
<1> USE DEF AtReader, GotoReader, HookLeaves
<1>1. got[q] \in Gots
        /\ rpc \in [Queriers -> {"none"} \cup ExportSteps \cup HookSteps]
        /\ got \in [Queriers -> Gots]
  BY DEF ReaderTypes
<1>2. UNCHANGED <<record, digests, manifest, graph, cache, mpc, gens>>
  BY DEF coreVars, indexVars
<1>3. CASE Refuses(q) \/ HookWritesFlag(q)
  BY <1>3, LeaveHolds DEF Refuses, HookWritesFlag
<1>4. whole[q] = {}
  <2>1. rpc[q] \in {"none"} \cup HookSteps
    BY DEF HookStep, HookReadsHead, HookReadsManifest, HookWritesFlag, HookFindsFlag,
           HookReadsRecord, HookChecksGraph, HookReadsDigests, HookHashesFile, HookOffers, Checks, HookSteps
  <2> QED
    BY <2>1 DEF ReaderHolds, SeesWhole, Exporting, HookSteps, ExportSteps
<1>5. ASSUME rpc'[q] \in HookSteps, whole'[q] = {}, HookHolds(q)'
      PROVE  ReaderHolds(q)'
  BY <1>5 DEF ReaderHolds, ExportHolds, SeesWhole, Exporting, ExportSteps,
       HookSteps, PastRecord, PastDigests, PastGraph, PastCache, Confirmed
<1>6. PICK r : r = got[q].record
  OBVIOUS
<1>7. rpc[q] \in {"h graph id", "h digests", "h bytes", "h offer"} =>
        IsPublished(r) /\ Backs(r) /\ Backs(r)'
  BY <1>6, OwnRecordStands DEF ReaderHolds, HookHolds
<1>8. CASE /\ ~Refuses(q)
           /\ \/ \E w, a \in Worktrees, f \in Sources : HookReadsHead(q, w, a, f)
              \/ \E partial \in BOOLEAN : HookReadsManifest(q, partial)
              \/ HookFindsFlag(q)
  <2>1. rpc'[q] \in {"h manifest", "h record", "h flag"} /\ whole'[q] = {}
    BY <1>1, <1>4, <1>8 DEF HookReadsHead, HookReadsManifest, HookFindsFlag
  <2> QED
    BY <1>5, <2>1 DEF HookSteps, HookHolds
<1>9. CASE HookReadsRecord(q) /\ ~Refuses(q)
  <2>1. IsPublished(record) /\ Reads(q, "record", record) /\ rpc'[q] = "h graph id"
    BY <1>1, <1>9 DEF HookReadsRecord
  <2>2. got'[q].record = record /\ whole'[q] = {}
    BY <1>1, <1>4, <2>1, ReadsInto, DiskTypes DEF Reads, Gots, Core, Context
  <2>3. Backs(record)'
    BY <1>2 DEF Backs, Agree
  <2>4. IsPublished(record') /\ record' = record
    BY <1>2, <2>1
  <2> QED
    BY <1>5, <2>1, <2>2, <2>3, <2>4 DEF HookSteps, HookHolds, Backs
<1>10. CASE HookChecksGraph(q) /\ ~Refuses(q)
  <2>1. /\ graph.id = r.graphId /\ Reads(q, "graph", graph) /\ rpc[q] = "h graph id"
        /\ rpc'[q] = "h digests"
    BY <1>1, <1>6, <1>10 DEF HookChecksGraph
  <2>2. got'[q].record = r /\ got'[q].graph = graph /\ whole'[q] = {}
    BY <1>1, <1>4, <1>6, <2>1, ReadsInto, DiskTypes DEF Reads, Gots, Core, Context
  <2>3. digests.gen = r.gen => Agree(digests, graph)
    BY <1>7, <2>1 DEF Backs
  <2> QED
    BY <1>2, <1>5, <1>7, <2>1, <2>2, <2>3 DEF HookSteps, HookHolds, Agree
<1>11. CASE HookReadsDigests(q) /\ ~Refuses(q)
  <2>1. /\ digests.gen = r.gen /\ digests.files[got[q].file] # None
        /\ Reads(q, "digests", digests) /\ rpc[q] = "h digests" /\ rpc'[q] = "h bytes"
    BY <1>1, <1>6, <1>11 DEF HookReadsDigests
  <2>2. /\ got'[q].record = r /\ got'[q].graph = got[q].graph /\ whole'[q] = {}
        /\ got'[q].digests = digests /\ got'[q].file = got[q].file
    BY <1>1, <1>4, <1>6, <2>1, ReadsInto, DiskTypes DEF Reads, Gots, Core, Context
  <2>3. Agree(digests, got[q].graph)
    BY <1>6, <2>1 DEF ReaderHolds, HookHolds
  <2> QED
    BY <1>2, <1>5, <1>7, <2>1, <2>2, <2>3 DEF HookSteps, HookHolds, Agree
<1>12. CASE HookHashesFile(q) /\ ~Refuses(q)
  <2>1. /\ got'[q] = got[q] /\ whole'[q] = {} /\ rpc[q] = "h bytes" /\ rpc'[q] = "h offer"
    BY <1>1, <1>4, <1>12 DEF HookHashesFile, Checks
  <2> QED
    BY <1>2, <1>5, <1>6, <1>7, <2>1 DEF HookSteps, ReaderHolds, HookHolds, Agree
<1>13. CASE HookOffers(q)
  BY <1>3, <1>13 DEF HookOffers
<1> QED
  BY <1>3, <1>8, <1>9, <1>10, <1>11, <1>12, <1>13 DEF HookStep

(* An export's or a hook's step is nobody else's.                            *)
LEMMA OtherReadersStand ==
    ASSUME ReaderTypes, NEW q \in Queriers, ReaderActs(q), NEW p \in Queriers, p # q
    PROVE  rpc'[p] = rpc[p] /\ got'[p] = got[p] /\ whole'[p] = whole[p]
<1> USE DEF ReaderTypes, AtReader, GotoReader, Leave, Refuses, Checks, Reads, HookLeaves
<1>1. CASE ExportStep(q)
  BY <1>1 DEF ExportStep, ReadRecordForExport, ReadDigestsForExport,
         ReadGraphForExport, CheckGraphId, CheckManifestId, ReadCacheForExport, IdentifyCache,
         ReadFactsForExport, Validate, ConfirmVerdict, ConfirmRecord, ConfirmGraph,
         ConfirmManifest, ConfirmCache, ConfirmFacts, PublishExport, readerVars
<1>2. CASE HookStep(q)
  BY <1>2 DEF HookStep, HookReadsManifest, HookWritesFlag, HookFindsFlag, HookReadsRecord, HookChecksGraph,
              HookReadsDigests, HookHashesFile, HookOffers
<1> QED
  BY <1>1, <1>2 DEF ReaderActs, BeginExport, HookReadsHead

-----------------------------------------------------------------------------
(* The invariant.                                                            *)

(* At the start nothing is exported and no hook runs.                        *)
LEMMA ReadersInitHolds ==
    ASSUME Undisturbed, ReadersInit
    PROVE  ReadersInv
<1>1. Core /\ Backs(record)
  BY CoreInit DEF ReadersInit
<1>2. ReaderTypes
  BY NothingTypes DEF ReadersInit, ReaderTypes, ExportSteps, HookSteps
<1>3. ASSUME NEW q \in Queriers
      PROVE  ReaderHolds(q)
  BY DEF ReadersInit, ReaderHolds, ExportHolds, HookHolds, SeesWhole, Exporting, ExportSteps,
         PastRecord, PastDigests, PastGraph, PastCache, Confirmed
<1> QED
  BY <1>1, <1>2, <1>3 DEF ReadersInv

(* Every step keeps the invariant.                                           *)
LEMMA ReadersStep ==
    ASSUME ReadersInv, [ReadersNext]_allVars
    PROVE  ReadersInv'
<1>1. TypeInv /\ Core /\ Backs(record) /\ ReaderTypes /\ ~Allowed("foreign")
        /\ \A q \in Queriers : ReaderHolds(q)
  BY DEF ReadersInv, Core, Context, Undisturbed
<1>2. TypeInv' /\ ReaderTypes'
  BY <1>1, ReadersNextTypes
<1>3. ASSUME UNCHANGED coreVars
      PROVE  Core' /\ Backs(record)'
  <2>1. Core'
    BY <1>1, <1>2, <1>3, CoreStands
  <2>2. Backs(record)'
    BY <1>1, <1>3 DEF Backs, Agree, coreVars, indexVars
  <2> QED
    BY <2>1, <2>2
<1>4. ASSUME NEW m \in Mappers, MapActs(m), UNCHANGED <<rpc, got>>, SeesOn
      PROVE  ReadersInv'
  <2>1. Core' /\ Backs(record)'
    BY <1>1, <1>2, <1>4, CoreMapStep, RecordBacksItself
  <2>2. ASSUME NEW p \in Queriers
        PROVE  ReaderHolds(p)'
    BY <1>1, <1>4, ExportMapStep, HookMapStep, SeesWholeOn DEF ReaderHolds
  <2> QED
    BY <1>2, <2>1, <2>2 DEF ReadersInv
<1>5. ASSUME UNCHANGED coreVars, UNCHANGED <<rpc, got>>, SeesOn \/ UNCHANGED whole
      PROVE  ReadersInv'
  <2>1. UNCHANGED whole
    BY <1>1, <1>5, StandingWholeSeen DEF ReaderHolds
  <2>2. ASSUME NEW p \in Queriers
        PROVE  ReaderHolds(p)'
    BY <1>1, <1>5, <2>1, ReaderStands
  <2> QED
    BY <1>2, <1>3, <1>5, <2>2 DEF ReadersInv
<1>6. ASSUME NEW q \in Queriers, ReaderActs(q)
      PROVE  ReadersInv'
  <2>1. UNCHANGED coreVars
    BY <1>1, <1>6, ReaderActsTypes
  <2>2. ASSUME NEW p \in Queriers
        PROVE  ReaderHolds(p)'
    <3>1. CASE p = q
      BY <1>1, <1>6, <2>1, <3>1, BeginExportHolds, ExportOwnStep, HookOwnStep DEF ReaderActs
    <3>2. CASE p # q
      BY <1>1, <1>6, <2>1, <3>2, OtherReadersStand, ReaderStands
    <3> QED
      BY <3>1, <3>2
  <2> QED
    BY <1>2, <1>3, <2>1, <2>2 DEF ReadersInv
<1>7. ASSUME ProtocolActs, SeesOn
      PROVE  ReadersInv'
  <2>1. UNCHANGED <<rpc, got>>
    BY <1>7 DEF ProtocolActs
  <2>2. (\E m \in Mappers : MapActs(m)) \/ UNCHANGED coreVars
    BY <1>1, <1>7, QueryLeavesCore, WorldLeavesCore DEF ProtocolActs
  <2> QED
    BY <1>4, <1>5, <1>7, <2>1, <2>2
<1>8. CASE Import \/ UNCHANGED allVars
  <2>1. UNCHANGED <<coreVars, rpc, got, whole>>
    BY <1>8 DEF Import, allVars, readerVars, vars, storeVars, certVars, sidecarVars,
                fragmentVars, mapVars, indexVars, coreVars
  <2> QED
    BY <1>5, <2>1
<1> QED
  BY <1>6, <1>7, <1>8 DEF ReadersNext, ReaderActs, SeesOn

(* The invariant holds of every undisturbed behavior.                        *)
LEMMA ReadersHold ==
    ASSUME Undisturbed
    PROVE  ReadersSpec => []ReadersInv
<1>1. ReadersInit => ReadersInv
  BY ReadersInitHolds
<1>2. ReadersInv /\ [ReadersNext]_allVars => ReadersInv'
  BY ReadersStep
<1> QED
  BY <1>1, <1>2, PTL DEF ReadersSpec

-----------------------------------------------------------------------------
(* What an export publishes names one graph and the very cache that graph    *)
(* was built from, in a Git checkout whose locks work and whose index no     *)
(* other build writes.                                                       *)
THEOREM ExportedCacheBuiltGraphHolds ==
    ASSUME Undisturbed
    PROVE  ReadersSpec => []ExportedCacheBuiltGraph
<1>1. ReadersInv => ExportedCacheBuiltGraph
  BY DEF ReadersInv, ReaderHolds, ExportHolds, Confirmed, Builds, ExportedCacheBuiltGraph,
         AtReader
<1> QED
  BY <1>1, ReadersHold, PTL

(* The hook offers a symbol only of a graph built from the bytes it hashed.  *)
THEOREM OfferIsCertifiedHolds ==
    ASSUME Undisturbed
    PROVE  ReadersSpec => []OfferIsCertified
<1>1. ReadersInv => OfferIsCertified
  <2> SUFFICES ASSUME ReadersInv, NEW q \in Queriers, AtReader(q, "h offer"),
                      got[q].file \in GraphSources
               PROVE  got[q].graph.inputs[got[q].file]
                         = got[q].digests.files[got[q].file]
    BY DEF OfferIsCertified
  <2> QED
    BY DEF ReadersInv, ReaderHolds, HookHolds, AtReader, Agree
<1> QED
  BY <1>1, ReadersHold, PTL

-----------------------------------------------------------------------------
(* The refinement.                                                           *)

(* The export with the last check behind it publishes what it has read.      *)
LEMMA TakenIs ==
    ASSUME NEW q \in Queriers
    PROVE  /\ AtReader(q, "x publish") => Taken(q) = {TakenBy(q)}
           /\ ~AtReader(q, "x publish") => Taken(q) = {}
  BY DEF Taken, TakenBy

OpenNow == {q \in Queriers : Exporting(q)}
TakenNow == [q \in Queriers |-> Taken(q)]

(* A step of IndexProtocol leaves the index as it is, withdraws it, or puts  *)
(* one where there was none.                                                 *)
LEMMA ProtocolRefines ==
    ASSUME ReadersInv, ReadersInv', ProtocolActs, SeesOn
    PROVE  [Abstract!Next]_(Abstract!absVars)
<1> USE DEF Abstract!Next, Abstract!absVars
<1>1. Core /\ Core' /\ ReaderTypes /\ ReaderTypes' /\ ~Allowed("foreign")
        /\ \A q \in Queriers : SeesWhole(q)
  BY DEF ReadersInv, ReaderHolds, Core, Context, Undisturbed
<1>2. OpenNow' = OpenNow /\ TakenNow' = TakenNow
  BY DEF ProtocolActs, OpenNow, TakenNow, Exporting, Taken, AtReader, IndexOf
<1>3. whole' = [q \in Queriers |-> IF q \in OpenNow THEN whole[q] \cup WholeNow' ELSE {}]
  BY <1>1 DEF SeesOn, OpenNow, SeesWhole
<1>4. Abstract!Moves
  BY <1>2, <1>3 DEF Abstract!Moves, OpenNow, TakenNow
<1>5. ASSUME NEW m \in Mappers, MapActs(m)
      PROVE  \/ WholeNow' = WholeNow
             \/ WholeNow # {} /\ WholeNow' = {}
             \/ WholeNow = {} /\ \E v \in WholeNow' : WholeNow' = {v}
  <2>1. WholeNow = IF IsPublished(record)
                   THEN {IndexOf(record, digests, graph, cache)} ELSE {}
    BY <1>1, WholeNowIs DEF Core
  <2>2. WholeNow' = IF IsPublished(record')
                    THEN {IndexOf(record', digests', graph', cache')} ELSE {}
    BY <1>1 DEF Core, WholeInv, DiskWhole, WholeNow, CertifiedIndexIsWhole
  <2> QED
    BY <1>1, <1>5, <2>1, <2>2, CertifiedStands DEF IndexOf
<1>6. ASSUME UNCHANGED coreVars
      PROVE  WholeNow' = WholeNow /\ UNCHANGED whole
  BY <1>1, <1>6, StandingWholeSeen DEF WholeNow, IndexOf, coreVars, indexVars
<1>7. CASE \E m \in Mappers : MapActs(m)
  <2>1. CASE WholeNow' = WholeNow
    <3>1. \A q \in Queriers : whole'[q] = whole[q]
      BY <1>1, <2>1 DEF SeesOn, SeesWhole
    <3>2. UNCHANGED whole
      BY <1>1, <3>1 DEF ReaderTypes
    <3> QED
      BY <1>2, <2>1, <3>2 DEF OpenNow, TakenNow
  <2> QED
    BY <1>4, <1>5, <1>7, <2>1 DEF Abstract!Withdraw, Abstract!Put
<1>8. CASE UNCHANGED coreVars
  BY <1>2, <1>6, <1>8 DEF OpenNow, TakenNow
<1> QED
  BY <1>1, <1>7, <1>8, QueryLeavesCore, WorldLeavesCore DEF ProtocolActs

(* An export's step opens, takes or closes; a hook's step is none of the     *)
(* abstract reader's.                                                        *)
LEMMA ReaderRefines ==
    ASSUME ReadersInv, ReadersInv', NEW q \in Queriers, ReaderActs(q)
    PROVE  [Abstract!Next]_(Abstract!absVars)
<1> USE DEF AtReader, GotoReader
<1>1. /\ ReaderTypes /\ ReaderTypes' /\ UNCHANGED coreVars
      /\ \A p \in Queriers : ReaderHolds(p)
      /\ rpc \in [Queriers -> {"none"} \cup ExportSteps \cup HookSteps]
  BY ReaderActsTypes DEF ReadersInv, Core, Context, ReaderTypes
<1>2. WholeNow' = WholeNow
  BY <1>1 DEF WholeNow, IndexOf, coreVars, indexVars
<1>3. ASSUME NEW p \in Queriers, p # q
      PROVE  (Exporting(p)' <=> Exporting(p)) /\ Taken(p)' = Taken(p) /\ whole'[p] = whole[p]
  BY <1>1, <1>3, OtherReadersStand DEF Exporting, Taken, IndexOf
<1>4. ASSUME Exporting(q)' <=> Exporting(q), Taken(q)' = Taken(q), whole'[q] = whole[q]
      PROVE  UNCHANGED Abstract!absVars
  <2>1. OpenNow' = OpenNow /\ TakenNow' = TakenNow
    BY <1>3, <1>4 DEF OpenNow, TakenNow
  <2>2. whole' = whole
    BY <1>1, <1>3, <1>4 DEF ReaderTypes
  <2> QED
    BY <1>2, <2>1, <2>2 DEF Abstract!absVars, OpenNow, TakenNow
<1>5. CASE \E w, a \in Worktrees : BeginExport(q, w, a)
  <2>1. rpc[q] = "none" /\ rpc'[q] = "x record" /\ whole' = [whole EXCEPT ![q] = WholeNow]
    BY <1>1, <1>5 DEF BeginExport
  <2>2. ~Exporting(q) /\ Exporting(q)' /\ Taken(q) = {} /\ Taken(q)' = {}
    BY <2>1 DEF Exporting, ExportSteps, Taken
  <2>3. OpenNow' = OpenNow \cup {q} /\ q \notin OpenNow
    BY <1>3, <2>2 DEF OpenNow
  <2>4. TakenNow' = TakenNow
    BY <1>3, <2>2 DEF TakenNow
  <2>5. Abstract!Open(q)
    BY <1>2, <2>1, <2>3, <2>4 DEF Abstract!Open, OpenNow, TakenNow
  <2> QED
    BY <2>5 DEF Abstract!Next
<1>6. CASE Exporting(q) /\ Leave(q)
  <2>1. rpc'[q] = "none" /\ whole' = [whole EXCEPT ![q] = {}]
    BY <1>1, <1>6 DEF Leave
  <2>2. ~Exporting(q)' /\ Taken(q)' = {}
    BY <2>1 DEF Exporting, ExportSteps, Taken
  <2>3. OpenNow' = OpenNow \ {q} /\ q \in OpenNow
    BY <1>3, <1>6, <2>2 DEF OpenNow
  <2>4. TakenNow' = [TakenNow EXCEPT ![q] = {}]
    BY <1>3, <2>2 DEF TakenNow
  <2>5. Abstract!Close(q)
    BY <1>2, <2>1, <2>3, <2>4 DEF Abstract!Close, OpenNow, TakenNow
  <2> QED
    BY <2>5 DEF Abstract!Next
<1>7. CASE ~Exporting(q) /\ Leave(q)
  <2>1. rpc'[q] = "none" /\ whole'[q] = {} /\ whole[q] = {}
    BY <1>1, <1>7 DEF Leave, ReaderTypes, ReaderHolds, SeesWhole
  <2>2. ~Exporting(q)' /\ Taken(q)' = {} /\ Taken(q) = {}
    BY <1>7, <2>1 DEF Exporting, ExportSteps, Taken
  <2> QED
    BY <1>4, <1>7, <2>1, <2>2 DEF Exporting
<1>8. CASE ConfirmFacts(q) /\ ~Leave(q)
  <2>1. /\ rpc[q] = "x facts again" /\ rpc'[q] = "x publish" /\ UNCHANGED <<got, whole>>
    BY <1>1, <1>8 DEF ConfirmFacts, Checks, Refuses
  <2>2. Exporting(q) /\ Exporting(q)' /\ Taken(q) = {} /\ Taken(q)' = {TakenBy(q)}
    BY <2>1 DEF Exporting, ExportSteps, Taken, TakenBy, IndexOf
  <2>3. TakenBy(q) \in whole[q]
    BY <1>1, <2>1 DEF ReaderHolds, ExportHolds, Confirmed
  <2>4. OpenNow' = OpenNow /\ q \in OpenNow
    BY <1>3, <2>2 DEF OpenNow
  <2>5. TakenNow' = [TakenNow EXCEPT ![q] = {TakenBy(q)}] /\ TakenNow[q] = {}
    BY <1>3, <2>2 DEF TakenNow
  <2>6. Abstract!Take(q)
    BY <1>2, <2>1, <2>3, <2>4, <2>5 DEF Abstract!Take, OpenNow, TakenNow
  <2> QED
    BY <2>6 DEF Abstract!Next
<1>9. CASE /\ rpc[q] # "x publish" /\ rpc'[q] # "x publish" /\ whole'[q] = whole[q]
           /\ rpc[q] \in ExportSteps <=> rpc'[q] \in ExportSteps
  <2>1. Taken(q) = {} /\ Taken(q)' = {}
    BY <1>9 DEF Taken
  <2>2. Exporting(q)' <=> Exporting(q)
    BY <1>9 DEF Exporting
  <2> QED
    BY <1>4, <1>9, <2>1, <2>2
<1>10. CASE ExportStep(q) /\ ~ConfirmFacts(q) /\ ~Leave(q)
  BY <1>1, <1>9, <1>10
     DEF ExportStep, ReadRecordForExport, ReadDigestsForExport,
         ReadGraphForExport, CheckGraphId, CheckManifestId, ReadCacheForExport, IdentifyCache,
         ReadFactsForExport, Validate, ConfirmVerdict, ConfirmRecord, ConfirmGraph,
         ConfirmManifest, ConfirmCache, PublishExport, Checks, Refuses, Reads, readerVars,
         ExportSteps
<1>11. CASE /\ ~Leave(q)
            /\ \/ HookStep(q)
               \/ \E w, a \in Worktrees, f \in Sources : HookReadsHead(q, w, a, f)
  BY <1>1, <1>9, <1>11
     DEF HookStep, HookReadsHead, HookReadsManifest, HookWritesFlag, HookFindsFlag, HookReadsRecord,
         HookChecksGraph, HookReadsDigests, HookHashesFile, HookOffers, HookLeaves, Checks,
         Refuses, Reads, ExportSteps, HookSteps
<1> QED
  BY <1>5, <1>6, <1>7, <1>8, <1>10, <1>11 DEF ReaderActs

(* Every step maps to a step of CertifiedIndex or to a stutter.              *)
LEMMA ReadersRefine ==
    ASSUME ReadersInv, ReadersInv', [ReadersNext]_allVars
    PROVE  [Abstract!Next]_(Abstract!absVars)
<1>1. CASE Import \/ UNCHANGED allVars
  <2>1. UNCHANGED <<WholeNow, OpenNow, whole, TakenNow>>
    BY <1>1 DEF Import, allVars, readerVars, vars, storeVars, certVars, sidecarVars,
                fragmentVars, WholeNow, OpenNow, TakenNow, Exporting, Taken, AtReader,
                IndexOf
  <2> QED
    BY <2>1 DEF Abstract!absVars, OpenNow, TakenNow
<1> QED
  BY <1>1, ProtocolRefines, ReaderRefines DEF ReadersNext, ReaderActs, SeesOn

(* What an export publishes is one index that was whole on disk at one       *)
(* instant of the export, whatever maps, crashes, edits and other exports    *)
(* came between its reads: exports implement CertifiedIndex.                 *)
THEOREM ExportIsSnapshotHolds ==
    ASSUME Undisturbed
    PROVE  ReadersSpec => ExportIsSnapshot
<1>1. ReadersInit => Abstract!Init
  <2> SUFFICES ASSUME ReadersInit
               PROVE  Abstract!Init
    OBVIOUS
  <2>1. WholeNow = {} /\ OpenNow = {} /\ TakenNow = [q \in Queriers |-> {}]
    BY DEF ReadersInit, Init, StoreInit, WholeNow, IsPublished, Missing, OpenNow, TakenNow,
           Taken, Exporting, AtReader, ExportSteps
  <2> QED
    BY <2>1 DEF Abstract!Init, ReadersInit, OpenNow, TakenNow
<1>2. ReadersInv /\ ReadersInv' /\ [ReadersNext]_allVars
        => [Abstract!Next]_(Abstract!absVars)
  BY ReadersRefine
<1> QED
  BY <1>1, <1>2, ReadersHold, PTL DEF ReadersSpec, ExportIsSnapshot, Abstract!Spec
=============================================================================
