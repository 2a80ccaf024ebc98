----------------------------- MODULE HookStores -----------------------------
(* The agent hooks' SQLite stores (store.rs): every root has a cache.db with *)
(* the tables `reads` and `bash_reads`, and one content.db, shared by all    *)
(* roots, has the table `content`.  A table is a function from the primary   *)
(* keys it holds to rows.  One statement is one operator, because SQLite     *)
(* runs a statement atomically: nothing here spans two of them except the    *)
(* agent-scope rebuild, which the code wraps in a transaction.               *)
EXTENDS Naturals, FiniteSets, Functions

CONSTANTS
    Roots,          \* the roots whose files are read
    Rels,           \* the relative paths read below them
    Commands,       \* the normalised shell commands that are cached
    Sessions,
    Agents,         \* agent scopes
    Main,           \* the main thread's scope, agent_id ''
    Texts,          \* the outputs a tool may deliver; a text is its SHA
    NoText,         \* the sha256 '' of a row nothing was cached in
    TextSize,       \* bytes of each text
    LegacyRoots     \* roots whose cache.db an older devscout wrote

ASSUME HookStoresAssumption ==
    /\ Main \in Agents
    /\ NoText \notin Texts
    /\ TextSize \in [Texts -> Nat]
    /\ LegacyRoots \subseteq Roots

VARIABLES
    reads,      \* reads[r]: the table reads of r's cache.db
    bash,       \* bash[r]: the table bash_reads of r's cache.db
    layout,     \* layout[r]: which late columns r's table reads has
    content     \* the table content

storeVars == <<reads, bash, layout, content>>

Scopes == [session : Sessions, agent : Agents]
ReadKeys == [session : Sessions, agent : Agents, rel : Rels]
BashKeys == [session : Sessions, agent : Agents, command : Commands]
ContentKeys == [session : Sessions, agent : Agents, text : Texts]

ReadRows == [text : Texts \cup {NoText}, size : Nat, stubs : Nat,
             count : Nat, bytes : Nat]
BashRows == [text : Texts, stubs : Nat]
ContentRows == [root : Roots, rel : Rels, stubs : Nat]

LateColumns == {"last_read_ts", "read_count", "bytes_delivered", "agent_id"}

(* The tables over keys K with rows R.                                       *)
Tables(K, R) == UNION {[D -> R] : D \in SUBSET K}

NoRows == [k \in {} |-> k]

(* Table t with the row of key k inserted or replaced.                       *)
Upsert(t, k, row) == [x \in DOMAIN t \cup {k} |-> IF x = k THEN row ELSE t[x]]

(* A table that has no agent_id yet knows the main thread only.              *)
StoresTypeOK ==
    /\ \A r \in Roots :
        /\ DOMAIN reads[r] \subseteq ReadKeys
        /\ \A k \in DOMAIN reads[r] : reads[r][k] \in ReadRows
        /\ DOMAIN bash[r] \subseteq BashKeys
        /\ \A k \in DOMAIN bash[r] : bash[r][k] \in BashRows
        /\ layout[r] \subseteq LateColumns
        /\ "agent_id" \notin layout[r] => \A k \in DOMAIN reads[r] : k.agent = Main
    /\ DOMAIN content \subseteq ContentKeys
    /\ \A k \in DOMAIN content : content[k] \in ContentRows

LegacyRow(x) == [text |-> x, size |-> TextSize[x], stubs |-> 0, count |-> 0, bytes |-> 0]
LegacyTable(s, rel, x) ==
    [k \in {[session |-> s, agent |-> Main, rel |-> rel]} |-> LegacyRow(x)]
LegacyTables ==
    {NoRows} \cup {LegacyTable(s, rel, x) : s \in Sessions, rel \in Rels, x \in Texts}

(* A store an older devscout left has the first columns only; it may hold a  *)
(* row, which its reader, whoever that was, now holds for the main thread.   *)
StoresInit ==
    /\ \E old \in LegacyTables :
            reads = [r \in Roots |-> IF r \in LegacyRoots THEN old ELSE NoRows]
    /\ bash = [r \in Roots |-> NoRows]
    /\ layout = [r \in Roots |->
                    IF r \in LegacyRoots THEN {} ELSE LateColumns]
    /\ content = NoRows

-----------------------------------------------------------------------------
(* Statements on `reads`.                                                    *)

(* lookup_read, as far as the hook looks at the row: the text it caches.     *)
CachedText(t, k) == IF k \in DOMAIN t THEN t[k].text ELSE NoText

(* A record_fresh that charges a stub for the text it stands for.            *)
FaultyRecordFresh(t, k, x, delivered) ==
    LET old == IF k \in DOMAIN t THEN t[k] ELSE [count |-> 0, bytes |-> 0]
    IN  Upsert(t, k, [text |-> x, size |-> TextSize[x], stubs |-> 0,
                      count |-> old.count + 1, bytes |-> old.bytes + TextSize[x]])

(* record_fresh: the row now caches text x, whatever it cached before; the   *)
(* read is counted, its bytes only if they reached the model.                *)
RecordFresh(t, k, x, delivered) ==
    LET spent == IF delivered THEN TextSize[x] ELSE 0
        old == IF k \in DOMAIN t THEN t[k] ELSE [count |-> 0, bytes |-> 0]
    IN  Upsert(t, k, [text |-> x, size |-> TextSize[x], stubs |-> 0,
                      count |-> old.count + 1, bytes |-> old.bytes + spent])

(* record_spend: a slice was paid for and nothing may be cached of it.       *)
RecordSpend(t, k, size) ==
    IF k \in DOMAIN t
    THEN [t EXCEPT ![k].count = @ + 1, ![k].bytes = @ + size]
    ELSE Upsert(t, k, [text |-> NoText, size |-> 0, stubs |-> 0,
                       count |-> 1, bytes |-> size])

(* bump_stub, an UPDATE: it does nothing where the row has been pruned.      *)
BumpStub(t, k) ==
    IF k \in DOMAIN t
    THEN [t EXCEPT ![k].stubs = @ + 1, ![k].count = @ + 1]
    ELSE t

(* prune: the rows of one session.                                           *)
PruneSession(t, s) == Restrict(t, {k \in DOMAIN t : k.session # s})

-----------------------------------------------------------------------------
(* Statements on `bash_reads` and `content`.                                 *)

RecordBashFresh(t, k, x) == Upsert(t, k, [text |-> x, stubs |-> 0])

BumpRow(t, k) == IF k \in DOMAIN t THEN [t EXCEPT ![k].stubs = @ + 1] ELSE t

ContentKey(scope, x) ==
    [session |-> scope.session, agent |-> scope.agent, text |-> x]

(* A lookup_content that finds another scope's row: its WHERE has lost the   *)
(* agent_id.                                                                 *)
FaultyContentHits(scope, x) ==
    {k \in DOMAIN content : k.session = scope.session /\ k.text = x}

(* lookup_content: at most the one row of the key.                           *)
ContentHits(scope, x) == {ContentKey(scope, x)} \cap DOMAIN content

(* record_content: the first path to carry a text keeps the naming rights.   *)
RecordContent(t, k, r, rel) ==
    IF k \in DOMAIN t THEN t
    ELSE Upsert(t, k, [root |-> r, rel |-> rel, stubs |-> 0])

-----------------------------------------------------------------------------
(* open_store's migrations of `reads`, one operator per statement.           *)

(* Before read_count existed only full reads made rows: each counts as one   *)
(* read that delivered its size.                                             *)
BackfillCounts(t) ==
    [k \in DOMAIN t |->
        IF t[k].text = NoText THEN t[k]
        ELSE [t[k] EXCEPT !.count = 1, !.bytes = t[k].size]]

AsMain(k) == [k EXCEPT !.agent = Main]

(* add_agent_scope copies every row under agent_id '' into a table keyed by  *)
(* (session, agent, path): two rows of one session and path collide and the  *)
(* transaction fails.                                                        *)
RebuildFits(t) == \A j, k \in DOMAIN t : AsMain(j) = AsMain(k) => j = k

AgentScoped(t) ==
    [k \in {AsMain(j) : j \in DOMAIN t} |->
        t[CHOOSE j \in DOMAIN t : AsMain(j) = k]]

(* Every INSERT into `reads` names bytes_delivered, and so does the rebuild; *)
(* a table without that column refuses both.                                 *)
Writable(r) == "bytes_delivered" \in layout[r]
=============================================================================
