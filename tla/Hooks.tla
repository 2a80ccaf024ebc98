------------------------------- MODULE Hooks -------------------------------
(* `devscout hook read` and `devscout hook bash` (hookio.rs): a process per  *)
(* tool call, which decides whether the tool's output reaches the model as   *)
(* it is or as a one-line stub saying the model already has it.  Several     *)
(* tool calls of one session may be in flight at once, and every hook talks  *)
(* to the stores one statement at a time.  A hook fails open: an error, a    *)
(* panic or a kill leaves the tool's output as it was.                       *)
EXTENDS HookStores, FiniteSetsExt

CONSTANTS
    Hooks,          \* hook processes
    MaxCalls,       \* bound on tool calls and `devscout clear`s together
    World           \* which of "busy", "kill", "kill-in-migration" and
                    \* "rival-migration" may happen

ASSUME HooksAssumption == MaxCalls \in Nat /\ IsFiniteSet(Hooks)

VARIABLES
    step,       \* step[h]: the statement hook h runs next, or "idle"
    call,       \* call[h]: the tool call it answers
    calls,      \* tool calls and `clear`s so far
    inContext,  \* the texts delivered whole, as [session, agent, text]
    paid,       \* paid[r][k]: bytes of reads of k that reached the model
    exact       \* no row was pruned, and no hook failed before its writes
                \* were done and its stub, if it had one, was out

hookVars == <<step, call, calls, inContext, paid, exact>>
vars == <<storeVars, hookVars>>

(* What the model holds; a text lasts as long as the session.                *)
Held(h) == [session |-> call[h].session, agent |-> call[h].agent,
            text |-> call[h].text]

ReadKey(h) == [session |-> call[h].session, agent |-> call[h].agent,
               rel |-> call[h].target]
BashKey(h) == [session |-> call[h].session, agent |-> call[h].agent,
               command |-> call[h].target]

Calls ==
    [tool : {"read", "slice"}, root : Roots, session : Sessions,
     agent : Agents, target : Rels, text : Texts]
    \cup [tool : {"bash"}, root : Roots, session : Sessions,
          agent : Agents, target : Commands, text : Texts]

Writes == {"spend", "bump", "bump_content", "record_content", "record",
           "record_stubbed", "bump_bash", "record_bash"}
Migration == {"open", "add_count", "add_bytes", "backfill", "scope", "rebuild"}
Steps == {"idle", "lookup", "lookup_content", "lookup_bash", "deliver", "stub"}
            \cup Writes \cup Migration

HooksTypeOK ==
    /\ StoresTypeOK
    /\ step \in [Hooks -> Steps]
    /\ \A h \in Hooks : step[h] # "idle" => call[h] \in Calls
    /\ calls \in 0 .. MaxCalls
    /\ inContext \subseteq ContentKeys
    /\ paid \in [Roots -> [ReadKeys -> Nat]]
    /\ exact \in BOOLEAN

Init ==
    /\ StoresInit
    /\ step = [h \in Hooks |-> "idle"]
    /\ call = [h \in Hooks |-> <<>>]
    /\ calls = 0
    /\ inContext = UNION {{ContentKey(k, reads[r][k].text) : k \in DOMAIN reads[r]} :
                            r \in Roots}
    /\ paid = [r \in Roots |-> [k \in ReadKeys |->
                  IF k \in DOMAIN reads[r] THEN reads[r][k].size ELSE 0]]
    /\ exact = TRUE

-----------------------------------------------------------------------------
(* Control.                                                                  *)

At(h, s) == step[h] = s
Goto(h, s) == step' = [step EXCEPT ![h] = s]

Bystanders == UNCHANGED <<call, calls, paid, exact, inContext>>

(* The hook ends and the tool's output goes to the model untouched.          *)
PassThrough(h) ==
    /\ step' = [step EXCEPT ![h] = "idle"]
    /\ call' = [call EXCEPT ![h] = <<>>]
    /\ inContext' = IF call[h].tool = "slice" THEN inContext
                    ELSE inContext \cup {Held(h)}
    /\ paid' = IF call[h].tool = "bash" THEN paid
               ELSE [paid EXCEPT ![call[h].root][ReadKey(h)] = @ + TextSize[call[h].text]]
    /\ UNCHANGED <<calls>>

Migrating(r) == \E h \in Hooks : step[h] \in Migration /\ call[h].root = r

(* A tool call ends and its hook starts: what was read or printed may be any *)
(* text, since files change as they like between two reads.                  *)
Start(h, c) ==
    /\ At(h, "idle")
    /\ calls < MaxCalls
    /\ "rival-migration" \in World \/ ~Migrating(c.root)
    /\ call' = [call EXCEPT ![h] = c]
    /\ calls' = calls + 1
    /\ Goto(h, "open")
    /\ UNCHANGED <<storeVars, inContext, paid, exact>>

-----------------------------------------------------------------------------
(* open_store.                                                               *)

Opened(h) ==
    CASE call[h].tool = "slice" -> "spend"
      [] call[h].tool = "read" -> "lookup"
      [] call[h].tool = "bash" -> "lookup_bash"

AddColumn(h, c, next) ==
    /\ layout' = [layout EXCEPT ![call[h].root] = @ \cup {c}]
    /\ Goto(h, next)
    /\ UNCHANGED <<reads, bash, content>>
    /\ Bystanders

(* Columns are only ever added, so a store that has them all passes every    *)
(* check at once.                                                            *)
OpenCurrent(h) ==
    /\ At(h, "open")
    /\ layout[call[h].root] = LateColumns
    /\ Goto(h, Opened(h))
    /\ UNCHANGED storeVars
    /\ Bystanders

(* The check of a column and its ALTER are one step: a rival's ALTER between *)
(* them is an error, and the hook fails open.                                *)
OpenOld(h) ==
    /\ At(h, "open")
    /\ layout[call[h].root] # LateColumns
    /\ AddColumn(h, "last_read_ts", "add_count")

SkipBackfill(h) ==
    /\ At(h, "add_count")
    /\ "read_count" \in layout[call[h].root]
    /\ Goto(h, "scope")
    /\ UNCHANGED storeVars
    /\ Bystanders

AddCount(h) ==
    /\ At(h, "add_count")
    /\ "read_count" \notin layout[call[h].root]
    /\ AddColumn(h, "read_count", "add_bytes")

AddBytes(h) ==
    /\ At(h, "add_bytes")
    /\ AddColumn(h, "bytes_delivered", "backfill")

Backfill(h) ==
    /\ At(h, "backfill")
    /\ reads' = [reads EXCEPT ![call[h].root] = BackfillCounts(@)]
    /\ Goto(h, "scope")
    /\ UNCHANGED <<bash, layout, content>>
    /\ Bystanders

(* An open that takes the table's primary key for scoped already.            *)
FaultyCheckScope(h) ==
    /\ At(h, "scope")
    /\ Goto(h, Opened(h))
    /\ UNCHANGED storeVars
    /\ Bystanders

CheckScope(h) ==
    /\ At(h, "scope")
    /\ Goto(h, IF "agent_id" \in layout[call[h].root] THEN Opened(h) ELSE "rebuild")
    /\ UNCHANGED storeVars
    /\ Bystanders

Rebuild(h) ==
    LET r == call[h].root IN
    /\ At(h, "rebuild")
    /\ Writable(r) /\ RebuildFits(reads[r])
    /\ reads' = [reads EXCEPT ![r] = AgentScoped(@)]
    /\ layout' = [layout EXCEPT ![r] = @ \cup {"agent_id"}]
    /\ Goto(h, Opened(h))
    /\ UNCHANGED <<bash, content>>
    /\ Bystanders

-----------------------------------------------------------------------------
(* handle_read.                                                              *)

(* A partial read: the bytes are counted and nothing is cached.              *)
Spend(h) ==
    LET r == call[h].root IN
    /\ At(h, "spend")
    /\ Writable(r)
    /\ reads' = [reads EXCEPT ![r] =
                    RecordSpend(@, ReadKey(h), TextSize[call[h].text])]
    /\ Goto(h, "deliver")
    /\ UNCHANGED <<bash, layout, content>>
    /\ Bystanders

LookupRead(h) ==
    /\ At(h, "lookup")
    /\ Goto(h, IF CachedText(reads[call[h].root], ReadKey(h)) = call[h].text
               THEN "bump" ELSE "lookup_content")
    /\ UNCHANGED storeVars
    /\ Bystanders

Bump(h) ==
    /\ At(h, "bump")
    /\ reads' = [reads EXCEPT ![call[h].root] = BumpStub(@, ReadKey(h))]
    /\ Goto(h, "stub")
    /\ UNCHANGED <<bash, layout, content>>
    /\ Bystanders

(* content_dedup: a text another path delivered is stubbed; one this path    *)
(* delivered is not, since the path cache missed.                            *)
LookupContent(h) ==
    LET hits == ContentHits(call[h], call[h].text)
        elsewhere == {k \in hits : content[k].root # call[h].root
                                    \/ content[k].rel # call[h].target}
    IN
    /\ At(h, "lookup_content")
    /\ Goto(h, IF elsewhere # {} THEN "bump_content"
               ELSE IF hits # {} THEN "record" ELSE "record_content")
    /\ UNCHANGED storeVars
    /\ Bystanders

BumpContent(h) ==
    /\ At(h, "bump_content")
    /\ content' = BumpRow(content, ContentKey(call[h], call[h].text))
    /\ Goto(h, "record_stubbed")
    /\ UNCHANGED <<reads, bash, layout>>
    /\ Bystanders

RecordNewContent(h) ==
    /\ At(h, "record_content")
    /\ content' = RecordContent(content, ContentKey(call[h], call[h].text),
                                call[h].root, call[h].target)
    /\ Goto(h, "record")
    /\ UNCHANGED <<reads, bash, layout>>
    /\ Bystanders

RecordStubbed(h) ==
    LET r == call[h].root IN
    /\ At(h, "record_stubbed")
    /\ Writable(r)
    /\ reads' = [reads EXCEPT ![r] =
                    RecordFresh(@, ReadKey(h), call[h].text, FALSE)]
    /\ Goto(h, "stub")
    /\ UNCHANGED <<bash, layout, content>>
    /\ Bystanders

Record(h) ==
    LET r == call[h].root IN
    /\ At(h, "record")
    /\ Writable(r)
    /\ reads' = [reads EXCEPT ![r] =
                    RecordFresh(@, ReadKey(h), call[h].text, TRUE)]
    /\ Goto(h, "deliver")
    /\ UNCHANGED <<bash, layout, content>>
    /\ Bystanders

-----------------------------------------------------------------------------
(* handle_bash, past its guards.                                             *)

LookupBash(h) ==
    LET t == bash[call[h].root] IN
    /\ At(h, "lookup_bash")
    /\ Goto(h, IF BashKey(h) \in DOMAIN t /\ t[BashKey(h)].text = call[h].text
               THEN "bump_bash" ELSE "record_bash")
    /\ UNCHANGED storeVars
    /\ Bystanders

BumpBash(h) ==
    /\ At(h, "bump_bash")
    /\ bash' = [bash EXCEPT ![call[h].root] = BumpRow(@, BashKey(h))]
    /\ Goto(h, "stub")
    /\ UNCHANGED <<reads, layout, content>>
    /\ Bystanders

RecordBash(h) ==
    /\ At(h, "record_bash")
    /\ bash' = [bash EXCEPT ![call[h].root] =
                    RecordBashFresh(@, BashKey(h), call[h].text)]
    /\ Goto(h, "deliver")
    /\ UNCHANGED <<reads, layout, content>>
    /\ Bystanders

-----------------------------------------------------------------------------
(* How a hook ends.                                                          *)

(* The model gets a stub instead of the text.                                *)
PrintStub(h) ==
    /\ At(h, "stub")
    /\ step' = [step EXCEPT ![h] = "idle"]
    /\ call' = [call EXCEPT ![h] = <<>>]
    /\ UNCHANGED <<storeVars, calls, inContext, paid, exact>>

Deliver(h) ==
    /\ At(h, "deliver")
    /\ PassThrough(h)
    /\ UNCHANGED <<storeVars, exact>>

(* An error outside content_dedup, a panic, or the agent's time limit: the   *)
(* output stands.  Only a hook about to deliver has recorded that; one about *)
(* to print its stub has recorded the stub.                                  *)
FailOpen(h) ==
    /\ PassThrough(h)
    /\ exact' = (exact /\ At(h, "deliver"))
    /\ UNCHANGED storeVars

Killed(h) ==
    /\ "kill" \in World
    /\ ~At(h, "idle")
    /\ At(h, "add_bytes") => "kill-in-migration" \in World
    /\ FailOpen(h)

Refused(h) ==
    /\ \/ step[h] \in {"spend", "record", "record_stubbed"}
            /\ ~Writable(call[h].root)
       \/ At(h, "rebuild")
            /\ ~(Writable(call[h].root) /\ RebuildFits(reads[call[h].root]))
    /\ FailOpen(h)

(* with_busy_retry: a busy write is tried again, up to five times, and a     *)
(* busy try changes nothing; when the last is busy too the write is given    *)
(* up.  content_dedup swallows that error and the read is recorded as fresh; *)
(* elsewhere the hook fails open.                                            *)
BusyContent(h) ==
    /\ "busy" \in World
    /\ step[h] \in {"bump_content", "record_content"}
    /\ Goto(h, "record")
    /\ UNCHANGED storeVars
    /\ Bystanders

BusyStore(h) ==
    /\ "busy" \in World
    /\ step[h] \in Writes \ {"bump_content", "record_content"}
    /\ FailOpen(h)

-----------------------------------------------------------------------------
(* devscout clear: one session's rows of one root, or the rows a cutoff      *)
(* takes; a root's whole store (a hook that still has it open would go on    *)
(* with the unlinked file: not modelled).                                    *)
Forget(r, kept, keptBash) ==
    /\ calls < MaxCalls
    /\ calls' = calls + 1
    /\ reads' = [reads EXCEPT ![r] = kept]
    /\ bash' = [bash EXCEPT ![r] = keptBash]
    /\ exact' = FALSE
    /\ UNCHANGED <<layout, content, step, call, inContext, paid>>

ClearSession(r, s) ==
    /\ layout[r] = LateColumns
    /\ Forget(r, PruneSession(reads[r], s), bash[r])

ClearOlder(r, old) ==
    /\ layout[r] = LateColumns
    /\ Forget(r, Restrict(reads[r], DOMAIN reads[r] \ old), bash[r])

ClearStore(r) ==
    /\ \A h \in Hooks : ~At(h, "idle") => call[h].root # r
    /\ Forget(r, NoRows, NoRows)

Next ==
    \/ \E h \in Hooks :
        \/ \E c \in Calls : Start(h, c)
        \/ OpenCurrent(h) \/ OpenOld(h) \/ SkipBackfill(h) \/ AddCount(h)
        \/ AddBytes(h) \/ Backfill(h) \/ CheckScope(h) \/ Rebuild(h)
        \/ Spend(h) \/ LookupRead(h) \/ Bump(h) \/ LookupContent(h)
        \/ BumpContent(h) \/ RecordNewContent(h) \/ RecordStubbed(h)
        \/ Record(h) \/ LookupBash(h) \/ BumpBash(h) \/ RecordBash(h)
        \/ PrintStub(h) \/ Deliver(h) \/ Killed(h) \/ Refused(h) \/ BusyContent(h)
        \/ BusyStore(h)
    \/ \E r \in Roots :
        \/ \E s \in Sessions : ClearSession(r, s)
        \/ \E old \in SUBSET DOMAIN reads[r] : ClearOlder(r, old)
        \/ ClearStore(r)

Spec == Init /\ [][Next]_vars

-----------------------------------------------------------------------------
(* What holds.                                                               *)

(* The hooks whose output will reach the model whole, whatever happens next. *)
Delivering == {h \in Hooks : step[h] \in {"record", "deliver", "record_bash"}
                                /\ call[h].tool # "slice"}

(* The hooks that end with a stub, unless they fail first.                   *)
Stubbing == {"bump", "bump_content", "record_stubbed", "bump_bash", "stub"}

(* The model holds this text, or the hook that will hand it over is running. *)
Certain(k) == k \in inContext \/ \E h \in Delivering : Held(h) = k

(* "Full content already in context": a stub is only ever printed for a text *)
(* delivered whole to the same agent of the same session, and no row caches  *)
(* any other text, however the hooks of a session interleave and whichever   *)
(* of their writes are lost.                                                 *)
StubStandsForDelivered ==
    /\ \A h \in Hooks : step[h] \in Stubbing => Certain(Held(h))
    /\ \A k \in DOMAIN content : Certain(k)
    /\ \A r \in Roots : \A k \in DOMAIN reads[r] :
        reads[r][k].text # NoText => Certain(ContentKey(k, reads[r][k].text))
    /\ \A r \in Roots : \A k \in DOMAIN bash[r] :
        Certain(ContentKey(k, bash[r][k].text))

(* The bytes recorded for a file and not yet handed over.                    *)
Pending(r, k) ==
    LET owing == {h \in Hooks : At(h, "deliver") /\ call[h].tool # "bash"
                                  /\ call[h].root = r /\ ReadKey(h) = k}
    IN  MapThenSumSet(LAMBDA h : TextSize[call[h].text], owing)

(* bytes_delivered never exceeds what the model was given, stubs and rivals  *)
(* included, and is exactly that as long as nothing was pruned and no hook   *)
(* failed with a write to do or a stub to print: concurrent upserts lose no  *)
(* count.                                                                    *)
SpendMatchesDelivery ==
    \A r \in Roots : \A k \in ReadKeys :
        LET owed == paid[r][k] + Pending(r, k) IN
        IF k \notin DOMAIN reads[r] THEN exact => owed = 0
        ELSE /\ reads[r][k].bytes <= owed
             /\ exact /\ "agent_id" \in layout[r] => reads[r][k].bytes = owed

(* store.rs says open_store "runs every standing migration ... idempotently":*)
(* a store that once took inserts again takes them, whatever cut a migration *)
(* short, unless some hook is just migrating it.                             *)
MigrationResumes ==
    \A r \in Roots :
        "read_count" \in layout[r] /\ ~Migrating(r) => Writable(r)
=============================================================================
