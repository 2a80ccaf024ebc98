----------------------------- MODULE HooksProofs -----------------------------
(* Theorems about Hooks for every value of its constants: whatever hooks of  *)
(* whatever sessions run, are killed or find a store busy, a stub stands for *)
(* a text its reader was given whole, and the bytes counted for a file are   *)
(* those its readers were given.                                             *)
EXTENDS Hooks, FiniteSetTheorems, WellFoundedInduction, TLAPS

(* A hook at one of these steps has found its store current, or made it so.  *)
Opening == Migration \cup {"idle"}

ReadSteps == {"lookup", "bump", "lookup_content", "bump_content", "record_content",
              "record", "record_stubbed"}
BashSteps == {"lookup_bash", "bump_bash", "record_bash"}

(* Which statement a hook may be at says which tool it answers, and whether  *)
(* the table it is about to write knows agents.                              *)
HookAt(h) ==
    /\ step[h] # "idle" => call[h] \in Calls
    /\ step[h] \in ReadSteps => call[h].tool = "read"
    /\ step[h] \in BashSteps => call[h].tool = "bash"
    /\ step[h] = "spend" => call[h].tool = "slice"
    /\ step[h] \notin Opening => "agent_id" \in layout[call[h].root]
    /\ step[h] = "rebuild" => "agent_id" \notin layout[call[h].root]

(* One process at a time brings a store up to date.                          *)
OneMigrates ==
    \A g, h \in Hooks :
        step[g] \in Migration /\ step[h] \in Migration /\ call[g].root = call[h].root
        => g = h

StubInv ==
    /\ step \in [Hooks -> Steps] /\ DOMAIN call = Hooks
    /\ DOMAIN reads = Roots /\ DOMAIN bash = Roots /\ DOMAIN layout = Roots
    /\ StoresTypeOK
    /\ \A h \in Hooks : HookAt(h)
    /\ OneMigrates
    /\ StubStandsForDelivered

HookActs(h) ==
    \/ \E c \in Calls : Start(h, c)
    \/ OpenCurrent(h) \/ OpenOld(h) \/ SkipBackfill(h) \/ AddCount(h)
    \/ AddBytes(h) \/ Backfill(h) \/ CheckScope(h) \/ Rebuild(h)
    \/ Spend(h) \/ LookupRead(h) \/ Bump(h) \/ LookupContent(h)
    \/ BumpContent(h) \/ RecordNewContent(h) \/ RecordStubbed(h)
    \/ Record(h) \/ LookupBash(h) \/ BumpBash(h) \/ RecordBash(h)
    \/ PrintStub(h) \/ Deliver(h) \/ Killed(h) \/ Refused(h) \/ BusyContent(h)
    \/ BusyStore(h)

UserActs(r) ==
    \/ \E s \in Sessions : ClearSession(r, s)
    \/ \E old \in SUBSET DOMAIN reads[r] : ClearOlder(r, old)
    \/ ClearStore(r)

-----------------------------------------------------------------------------
(* The tables.                                                               *)

IsReads(t) == DOMAIN t \subseteq ReadKeys /\ \A k \in DOMAIN t : t[k] \in ReadRows
IsBash(t) == DOMAIN t \subseteq BashKeys /\ \A k \in DOMAIN t : t[k] \in BashRows
IsContent(t) == DOMAIN t \subseteq ContentKeys /\ \A k \in DOMAIN t : t[k] \in ContentRows

(* Row k of table u caches what it cached in table t.                        *)
Kept(t, u, k) == k \in DOMAIN t /\ u[k].text = t[k].text

(* What a tool call is about.                                                *)
LEMMA CallIs ==
    ASSUME NEW h \in Hooks, call[h] \in Calls
    PROVE  /\ call[h].tool \in {"read", "slice", "bash"}
           /\ call[h].root \in Roots /\ call[h].text \in Texts
           /\ call[h].session \in Sessions /\ call[h].agent \in Agents
           /\ call[h].tool # "bash" => ReadKey(h) \in ReadKeys
           /\ call[h].tool = "bash" => BashKey(h) \in BashKeys
           /\ Held(h) \in ContentKeys
           /\ Held(h) = ContentKey(call[h], call[h].text)
           /\ Held(h) = ContentKey(ReadKey(h), call[h].text)
           /\ Held(h) = ContentKey(BashKey(h), call[h].text)
  BY DEF Calls, ReadKey, BashKey, Held, ReadKeys, BashKeys, ContentKeys, ContentKey

(* record_fresh caches the text in its row and nothing in any other.         *)
LEMMA RecordFreshIs ==
    ASSUME NEW t, IsReads(t), NEW k \in ReadKeys, NEW x \in Texts, NEW b
    PROVE  /\ IsReads(RecordFresh(t, k, x, b))
           /\ \A j \in DOMAIN RecordFresh(t, k, x, b) :
                 \/ Kept(t, RecordFresh(t, k, x, b), j)
                 \/ j = k /\ RecordFresh(t, k, x, b)[j].text = x
<1> DEFINE old == IF k \in DOMAIN t THEN t[k] ELSE [count |-> 0, bytes |-> 0]
           spent == IF b THEN TextSize[x] ELSE 0
           row == [text |-> x, size |-> TextSize[x], stubs |-> 0,
                   count |-> old.count + 1, bytes |-> old.bytes + spent]
<1>1. old.count \in Nat /\ old.bytes \in Nat
  BY DEF IsReads, ReadRows
<1>2. TextSize[x] \in Nat /\ spent \in Nat
  BY HookStoresAssumption
<1> HIDE DEF old, spent
<1>3. row \in ReadRows /\ row.text = x
  BY <1>1, <1>2 DEF ReadRows
<1>4. RecordFresh(t, k, x, b) = Upsert(t, k, row)
  BY DEF RecordFresh, old, spent
<1> HIDE DEF row
<1> DEFINE u == Upsert(t, k, row)
<1>5. /\ DOMAIN u = DOMAIN t \cup {k} /\ u[k] = row
      /\ \A j \in DOMAIN t \ {k} : u[j] = t[j]
  BY DEF Upsert
<1> HIDE DEF u
<1>6. RecordFresh(t, k, x, b) = u
  BY <1>4 DEF u
<1> QED
  BY <1>3, <1>5, <1>6 DEF IsReads, Kept

(* record_spend caches nothing.                                              *)
LEMMA RecordSpendIs ==
    ASSUME NEW t, IsReads(t), NEW k \in ReadKeys, NEW n \in Nat
    PROVE  /\ IsReads(RecordSpend(t, k, n))
           /\ \A j \in DOMAIN RecordSpend(t, k, n) :
                 \/ Kept(t, RecordSpend(t, k, n), j)
                 \/ RecordSpend(t, k, n)[j].text = NoText
<1>1. CASE k \in DOMAIN t
  <2>1. RecordSpend(t, k, n) = [t EXCEPT ![k].count = @ + 1, ![k].bytes = @ + n]
    BY <1>1 DEF RecordSpend
  <2>2. t[k] \in ReadRows
    BY <1>1 DEF IsReads
  <2> QED
    BY <1>1, <2>1, <2>2 DEF IsReads, Kept, ReadRows
<1>2. CASE k \notin DOMAIN t
  <2> DEFINE row == [text |-> NoText, size |-> 0, stubs |-> 0, count |-> 1, bytes |-> n]
  <2>1. row \in ReadRows /\ row.text = NoText
    BY DEF ReadRows
  <2>2. RecordSpend(t, k, n) = Upsert(t, k, row)
    BY <1>2 DEF RecordSpend
  <2> HIDE DEF row
  <2> DEFINE u == Upsert(t, k, row)
  <2>3. /\ DOMAIN u = DOMAIN t \cup {k} /\ u[k] = row
        /\ \A j \in DOMAIN t \ {k} : u[j] = t[j]
    BY DEF Upsert
  <2> HIDE DEF u
  <2>4. RecordSpend(t, k, n) = u
    BY <2>2 DEF u
  <2> QED
    BY <2>1, <2>3, <2>4 DEF IsReads, Kept
<1> QED
  BY <1>1, <1>2

(* The updates that count a stub or a backfilled read keep every text.       *)
LEMMA BumpStubIs ==
    ASSUME NEW t, IsReads(t), NEW k
    PROVE  /\ IsReads(BumpStub(t, k)) /\ DOMAIN BumpStub(t, k) = DOMAIN t
           /\ \A j \in DOMAIN t : Kept(t, BumpStub(t, k), j)
<1>1. CASE k \in DOMAIN t
  <2>1. BumpStub(t, k) = [t EXCEPT ![k].stubs = @ + 1, ![k].count = @ + 1]
    BY <1>1 DEF BumpStub
  <2>2. t[k] \in ReadRows
    BY <1>1 DEF IsReads
  <2> QED
    BY <1>1, <2>1, <2>2 DEF IsReads, Kept, ReadRows
<1>2. CASE k \notin DOMAIN t
  BY <1>2 DEF BumpStub, Kept
<1> QED
  BY <1>1, <1>2

(* The backfill keeps every row's text.                                      *)
LEMMA BackfillIs ==
    ASSUME NEW t, IsReads(t)
    PROVE  /\ IsReads(BackfillCounts(t)) /\ DOMAIN BackfillCounts(t) = DOMAIN t
           /\ \A j \in DOMAIN t : Kept(t, BackfillCounts(t), j)
<1>1. ASSUME NEW j \in DOMAIN t
      PROVE  BackfillCounts(t)[j] \in ReadRows /\ BackfillCounts(t)[j].text = t[j].text
  <2>1. t[j] \in ReadRows
    BY DEF IsReads
  <2>2. BackfillCounts(t)[j] = IF t[j].text = NoText THEN t[j]
                               ELSE [t[j] EXCEPT !.count = 1, !.bytes = t[j].size]
    BY DEF BackfillCounts
  <2>3. CASE t[j].text = NoText
    BY <2>1, <2>2, <2>3
  <2>4. CASE t[j].text # NoText
    <3>1. BackfillCounts(t)[j] = [t[j] EXCEPT !.count = 1, !.bytes = t[j].size]
      BY <2>2, <2>4
    <3>2. t[j].size \in Nat /\ 1 \in Nat
      BY <2>1 DEF ReadRows
    <3> QED
      BY <2>1, <3>1, <3>2 DEF ReadRows
  <2> QED
    BY <2>3, <2>4
<1>2. DOMAIN BackfillCounts(t) = DOMAIN t
  BY DEF BackfillCounts
<1> QED
  BY <1>1, <1>2 DEF IsReads, Kept

(* A table of the main thread's rows is rebuilt as it was.                   *)
LEMMA AgentScopedIs ==
    ASSUME NEW t, IsReads(t), \A k \in DOMAIN t : k.agent = Main
    PROVE  /\ IsReads(AgentScoped(t)) /\ DOMAIN AgentScoped(t) = DOMAIN t
           /\ \A j \in DOMAIN t : Kept(t, AgentScoped(t), j)
<1>1. \A k \in DOMAIN t : AsMain(k) = k
  BY DEF IsReads, ReadKeys, AsMain
<1>2. DOMAIN AgentScoped(t) = {AsMain(j) : j \in DOMAIN t}
  BY DEF AgentScoped
<1>3. DOMAIN AgentScoped(t) = DOMAIN t
  BY <1>1, <1>2
<1>4. \A k \in DOMAIN t : AgentScoped(t)[k] = t[CHOOSE j \in DOMAIN t : AsMain(j) = k]
  BY <1>1 DEF AgentScoped
<1>5. \A k \in DOMAIN t : (CHOOSE j \in DOMAIN t : AsMain(j) = k) = k
  BY <1>1
<1> QED
  BY <1>3, <1>4, <1>5 DEF IsReads, Kept

-----------------------------------------------------------------------------
(* Control: one hook moves, to a statement its tool and its store allow.     *)

(* What a step of h does to where hooks are.                                 *)
Moves(h) ==
    /\ step' \in [Hooks -> Steps] /\ DOMAIN call' = Hooks
    /\ \A g \in Hooks \ {h} : step'[g] = step[g] /\ call'[g] = call[g]
    /\ inContext \subseteq inContext'
    /\ HookAt(h)'

(* What it does to the columns of the stores.                                *)
Columns(h) ==
    /\ DOMAIN layout' = Roots
    /\ \A r \in Roots : layout[r] \subseteq layout'[r] /\ layout'[r] \subseteq LateColumns
    /\ \A r \in Roots : \/ layout'[r] = layout[r]
                        \/ step[h] \in Migration /\ call[h].root = r
    /\ \A r \in Roots : layout'[r] \cap {"agent_id"} = layout[r] \cap {"agent_id"}
                        \/ step[h] = "rebuild"

(* It enters a migration only where none is under way.                       *)
Enters(h) ==
    \/ step'[h] \notin Migration
    \/ step[h] \in Migration /\ call'[h] = call[h]
    \/ ~Migrating(call'[h].root)

(* What a step by h relies on.                                               *)
LEMMA HookIs ==
    ASSUME StubInv, NEW h \in Hooks
    PROVE  /\ step \in [Hooks -> Steps] /\ DOMAIN call = Hooks /\ DOMAIN layout = Roots
           /\ HookAt(h) /\ step[h] \in Steps
           /\ \A r \in Roots : layout[r] \subseteq LateColumns
  BY DEF StubInv, StoresTypeOK

(* A hook that ends, with a stub or without, is nowhere.                     *)
LEMMA EndMoves ==
    ASSUME StubInv, NEW h \in Hooks, PassThrough(h) \/ PrintStub(h)
    PROVE  /\ Moves(h) /\ step'[h] = "idle"
           /\ PassThrough(h) /\ call[h].tool # "slice" => Held(h) \in inContext'
<1>1. /\ step' = [step EXCEPT ![h] = "idle"] /\ call' = [call EXCEPT ![h] = <<>>]
      /\ inContext \subseteq inContext'
      /\ PassThrough(h) /\ call[h].tool # "slice" => Held(h) \in inContext'
  BY DEF PassThrough, PrintStub
<1>2. step'[h] = "idle" /\ step' \in [Hooks -> Steps]
  BY <1>1, HookIs DEF Steps
<1>3. HookAt(h)'
  BY <1>2 DEF HookAt, ReadSteps, BashSteps, Opening
<1> QED
  BY <1>1, <1>2, <1>3, HookIs DEF Moves

(* A hook that goes on answers the same call.                                *)
LEMMA GotoMoves ==
    ASSUME StubInv, NEW h \in Hooks, NEW s \in Steps, Goto(h, s), Bystanders
    PROVE  /\ step' \in [Hooks -> Steps] /\ DOMAIN call' = Hooks /\ step'[h] = s
           /\ \A g \in Hooks \ {h} : step'[g] = step[g]
           /\ call' = call /\ inContext' = inContext
  BY HookIs DEF Goto, Bystanders

(* A new tool call's hook opens its store, alone if need be.                 *)
LEMMA StartMoves ==
    ASSUME StubInv, NEW h \in Hooks, NEW c \in Calls, Start(h, c),
           "rival-migration" \notin World
    PROVE  Moves(h) /\ Columns(h) /\ Enters(h)
<1>1. /\ step' = [step EXCEPT ![h] = "open"] /\ call' = [call EXCEPT ![h] = c]
      /\ layout' = layout /\ inContext' = inContext /\ ~Migrating(c.root)
  BY DEF Start, Goto, storeVars
<1>2. step'[h] = "open" /\ call'[h] = c /\ step' \in [Hooks -> Steps]
  BY <1>1, HookIs DEF Steps, Migration
<1>3. HookAt(h)'
  BY <1>2 DEF HookAt, ReadSteps, BashSteps, Opening, Migration
<1> QED
  BY <1>1, <1>2, <1>3, HookIs DEF Moves, Columns, Enters

(* The migrations.                                                           *)
LEMMA OpeningMoves ==
    ASSUME StubInv, NEW h \in Hooks,
           \/ OpenCurrent(h) \/ OpenOld(h) \/ SkipBackfill(h) \/ AddCount(h)
           \/ AddBytes(h) \/ Backfill(h) \/ CheckScope(h) \/ Rebuild(h)
    PROVE  Moves(h) /\ Columns(h) /\ Enters(h)
<1> DEFINE r == call[h].root
<1>1. /\ step[h] \in Migration /\ call[h] \in Calls /\ r \in Roots
      /\ call[h].tool \in {"read", "slice", "bash"}
  <2>1. step[h] \in Migration
    BY DEF OpenCurrent, OpenOld, SkipBackfill, AddCount, AddBytes, Backfill, CheckScope,
           Rebuild, At, Migration
  <2> QED
    BY <2>1, HookIs, CallIs DEF HookAt, Migration
<1>2. Opened(h) \in Steps \ Opening
  BY <1>1 DEF Opened, Steps, Opening, Writes, Migration
<1>3. /\ \E s \in Steps : Goto(h, s)
      /\ Bystanders
  BY <1>2 DEF OpenCurrent, OpenOld, SkipBackfill, AddCount, AddBytes, Backfill, CheckScope,
         Rebuild, AddColumn, Steps, Migration
<1>4. /\ step' \in [Hooks -> Steps] /\ DOMAIN call' = Hooks
      /\ \A g \in Hooks \ {h} : step'[g] = step[g]
      /\ call' = call /\ inContext' = inContext
  BY <1>3, GotoMoves
<1>5. \/ layout' = layout /\ step[h] # "rebuild"
      \/ \E c \in {"last_read_ts", "read_count", "bytes_delivered"} :
            layout' = [layout EXCEPT ![r] = @ \cup {c}]
      \/ step[h] = "rebuild" /\ layout' = [layout EXCEPT ![r] = @ \cup {"agent_id"}]
  BY DEF OpenCurrent, OpenOld, SkipBackfill, AddCount, AddBytes, Backfill, CheckScope,
         Rebuild, AddColumn, storeVars, At
<1>6. Columns(h)
  BY <1>1, <1>5, HookIs DEF Columns, LateColumns
<1>7. \/ step'[h] \in Migration \ {"rebuild"}
      \/ step'[h] = "rebuild" /\ "agent_id" \notin layout'[r]
      \/ step'[h] = Opened(h) /\ "agent_id" \in layout'[r]
  <2>1. CASE OpenCurrent(h)
    BY <2>1, HookIs DEF OpenCurrent, Goto, storeVars, LateColumns
  <2>2. CASE OpenOld(h) \/ SkipBackfill(h) \/ AddCount(h) \/ AddBytes(h) \/ Backfill(h)
    BY <2>2, HookIs DEF OpenOld, SkipBackfill, AddCount, AddBytes, Backfill, AddColumn, Goto,
           Migration
  <2>3. CASE CheckScope(h)
    BY <2>3, HookIs DEF CheckScope, Goto, storeVars
  <2>4. CASE Rebuild(h)
    BY <1>1, <2>4, HookIs DEF Rebuild, Goto
  <2> QED
    BY <2>1, <2>2, <2>3, <2>4
<1>8. HookAt(h)'
  <2>1. CASE step'[h] \in Migration
    BY <1>1, <1>4, <1>7, <2>1 DEF HookAt, ReadSteps, BashSteps, Opening, Migration, Opened
  <2>2. CASE step'[h] = Opened(h) /\ "agent_id" \in layout'[r]
    BY <1>1, <1>4, <2>2 DEF HookAt, ReadSteps, BashSteps, Opening, Migration, Opened
  <2> QED
    BY <1>7, <2>1, <2>2 DEF Migration
<1> QED
  BY <1>1, <1>4, <1>6, <1>8 DEF Moves, Enters

(* The statements after them leave the columns alone.                        *)
LEMMA StatementMoves ==
    ASSUME StubInv, NEW h \in Hooks,
           \/ Spend(h) \/ LookupRead(h) \/ LookupContent(h) \/ BumpContent(h)
           \/ RecordNewContent(h) \/ Record(h) \/ LookupBash(h) \/ RecordBash(h)
           \/ Bump(h) \/ RecordStubbed(h) \/ BumpBash(h) \/ BusyContent(h)
    PROVE  Moves(h) /\ Columns(h) /\ Enters(h)
<1>1. /\ layout' = layout /\ Bystanders
      /\ \/ step[h] \in ReadSteps /\ \E s \in ReadSteps \cup {"deliver", "stub"} : Goto(h, s)
         \/ step[h] \in BashSteps /\ \E s \in BashSteps \cup {"deliver", "stub"} : Goto(h, s)
         \/ step[h] = "spend" /\ Goto(h, "deliver")
  <2>1. CASE Spend(h) \/ BumpContent(h) \/ RecordNewContent(h) \/ Record(h) \/ RecordBash(h)
    BY <2>1 DEF Spend, BumpContent, RecordNewContent, Record, RecordBash, At, ReadSteps, BashSteps
  <2>2. CASE LookupRead(h)
    BY <2>2 DEF LookupRead, At, storeVars, ReadSteps
  <2>3. CASE LookupContent(h)
    BY <2>3 DEF LookupContent, At, storeVars, ReadSteps
  <2>4. CASE LookupBash(h)
    BY <2>4 DEF LookupBash, At, storeVars, BashSteps
  <2>5. CASE BusyContent(h)
    BY <2>5 DEF BusyContent, storeVars, ReadSteps
  <2>6. CASE Bump(h) \/ RecordStubbed(h) \/ BumpBash(h)
    BY <2>6 DEF Bump, RecordStubbed, BumpBash, At, ReadSteps, BashSteps
  <2> QED
    BY <2>1, <2>2, <2>3, <2>4, <2>5, <2>6
<1>2. /\ step' \in [Hooks -> Steps] /\ DOMAIN call' = Hooks
      /\ \A g \in Hooks \ {h} : step'[g] = step[g]
      /\ call' = call /\ inContext' = inContext
      /\ \/ step[h] \in ReadSteps /\ step'[h] \in ReadSteps \cup {"deliver", "stub"}
         \/ step[h] \in BashSteps /\ step'[h] \in BashSteps \cup {"deliver", "stub"}
         \/ step[h] = "spend" /\ step'[h] = "deliver"
  <2>1. ReadSteps \cup BashSteps \cup {"deliver", "stub"} \subseteq Steps
    BY DEF Steps, Writes, ReadSteps, BashSteps
  <2> QED
    BY <1>1, <2>1, GotoMoves
<1>3. HookAt(h)' /\ step'[h] \notin Migration
  BY <1>1, <1>2, HookIs DEF HookAt, ReadSteps, BashSteps, Opening, Migration
<1> QED
  BY <1>1, <1>2, <1>3, HookIs DEF Moves, Columns, Enters

(* So do the steps a hook ends with.                                         *)
Endings(h) == \/ PrintStub(h) \/ Deliver(h) \/ Killed(h) \/ Refused(h)
              \/ BusyStore(h)

(* A step that ends a hook moves it nowhere but to its end.                  *)
LEMMA EndingMoves ==
    ASSUME StubInv, NEW h \in Hooks, Endings(h)
    PROVE  Moves(h) /\ Columns(h) /\ Enters(h)
<1>1. layout' = layout /\ (PassThrough(h) \/ PrintStub(h))
  BY DEF Endings, PrintStub, Deliver, Killed, Refused, BusyStore, FailOpen, storeVars
<1> QED
  BY <1>1, EndMoves, HookIs DEF Columns, Enters, Migration

-----------------------------------------------------------------------------
(* What is certain to reach the model.                                       *)

(* A hook that will hand its text over has done so or still will.            *)
HandsOver(h) ==
    h \in Delivering =>
        \/ Held(h) \in inContext'
        \/ call'[h] = call[h] /\ step'[h] = "deliver"

(* Nothing a hook does takes back what is certain.                           *)
LEMMA CertainStands ==
    ASSUME NEW h \in Hooks, Moves(h), HandsOver(h), NEW k, Certain(k)
    PROVE  Certain(k)'
<1>1. CASE k \in inContext
  BY <1>1 DEF Certain, Moves
<1>2. CASE \E g \in Delivering : Held(g) = k
  <2>1. PICK g \in Delivering : Held(g) = k
    BY <1>2
  <2>2. g \in Hooks /\ step[g] \in {"record", "deliver", "record_bash"} /\ call[g].tool # "slice"
    BY <2>1 DEF Delivering
  <2>3. CASE g # h
    <3>1. step'[g] = step[g] /\ call'[g] = call[g]
      BY <2>2, <2>3 DEF Moves
    <3>2. g \in Delivering' /\ Held(g)' = k
      BY <2>1, <2>2, <3>1 DEF Delivering, Held
    <3> QED
      BY <3>2 DEF Certain
  <2>4. CASE g = h /\ k \in inContext'
    BY <2>4 DEF Certain
  <2>5. CASE g = h /\ call'[h] = call[h] /\ step'[h] = "deliver"
    <3>1. h \in Delivering' /\ Held(h)' = k
      BY <2>1, <2>2, <2>5 DEF Delivering, Held
    <3> QED
      BY <3>1 DEF Certain
  <2> QED
    BY <2>1, <2>3, <2>4, <2>5 DEF HandsOver
<1> QED
  BY <1>1, <1>2 DEF Certain

(* Whoever delivers and ends, delivers.                                      *)
LEMMA ActsHandOver ==
    ASSUME StubInv, NEW h \in Hooks, HookActs(h)
    PROVE  HandsOver(h)
<1> SUFFICES ASSUME h \in Delivering
             PROVE  \/ Held(h) \in inContext'
                    \/ call'[h] = call[h] /\ step'[h] = "deliver"
  BY DEF HandsOver
<1>1. step[h] \in {"record", "deliver", "record_bash"} /\ call[h].tool # "slice"
  BY DEF Delivering
<1>2. CASE PassThrough(h)
  BY <1>1, <1>2, EndMoves
<1>3. CASE Record(h) \/ RecordBash(h)
  BY <1>3, HookIs DEF Record, RecordBash, Goto, Bystanders
<1>4. PassThrough(h) \/ Record(h) \/ RecordBash(h)
  BY <1>1 DEF HookActs, Start, OpenCurrent, OpenOld, SkipBackfill, AddCount, AddBytes,
         Backfill, CheckScope, Rebuild, Spend, LookupRead, Bump, LookupContent, BumpContent,
         RecordNewContent, RecordStubbed, LookupBash, BumpBash, PrintStub, Deliver, Killed,
         Refused, BusyContent, BusyStore, FailOpen, At
<1> QED
  BY <1>2, <1>3, <1>4

-----------------------------------------------------------------------------
(* Data: what a step of h puts in the tables.                                *)

ReadsStep(h) ==
    /\ DOMAIN reads' = Roots
    /\ \A r \in Roots :
        /\ IsReads(reads'[r])
        /\ \A k \in DOMAIN reads'[r] :
            \/ Kept(reads[r], reads'[r], k)
            \/ /\ "agent_id" \in layout[r]
               /\ \/ reads'[r][k].text = NoText
                  \/ Certain(ContentKey(k, reads[r][k].text))'

BashStep(h) ==
    /\ DOMAIN bash' = Roots
    /\ \A r \in Roots :
        /\ IsBash(bash'[r])
        /\ \A k \in DOMAIN bash'[r] :
            \/ Kept(bash[r], bash'[r], k)
            \/ Certain(ContentKey(k, bash[r][k].text))'

ContentStep(h) ==
    /\ IsContent(content')
    /\ \A k \in DOMAIN content' : k \in DOMAIN content \/ Certain(k)'

StubStep(h) == step'[h] \in Stubbing => Certain(Held(h))'

Caches(h) == ReadsStep(h) /\ BashStep(h) /\ ContentStep(h) /\ StubStep(h)

(* What is in the tables now.                                                *)
LEMMA TablesAre ==
    ASSUME StubInv
    PROVE  /\ DOMAIN reads = Roots /\ DOMAIN bash = Roots
           /\ \A r \in Roots : IsReads(reads[r]) /\ IsBash(bash[r])
           /\ \A r \in Roots : \A k \in DOMAIN reads[r] :
                 "agent_id" \notin layout[r] => k.agent = Main
           /\ IsContent(content)
  BY DEF StubInv, StoresTypeOK, IsReads, IsBash, IsContent

(* Such a step keeps the invariant.                                          *)
LEMMA StubInvKept ==
    ASSUME StubInv, NEW h \in Hooks, Moves(h), Columns(h), Enters(h), HandsOver(h), Caches(h)
    PROVE  StubInv'
<1>1. \A k : Certain(k) => Certain(k)'
  BY CertainStands
<1>2. StoresTypeOK'
  <2>1. ASSUME NEW r \in Roots, "agent_id" \notin layout'[r], NEW k \in DOMAIN reads'[r]
        PROVE  k.agent = Main
    <3>1. "agent_id" \notin layout[r]
      BY <2>1 DEF Columns
    <3>2. k \in DOMAIN reads[r]
      BY <3>1 DEF Caches, ReadsStep, Kept
    <3> QED
      BY <3>1, <3>2, TablesAre
  <2> QED
    BY <2>1 DEF StoresTypeOK, Caches, ReadsStep, BashStep, ContentStep, IsReads, IsBash,
           IsContent, Columns
<1>3. ASSUME NEW g \in Hooks PROVE HookAt(g)'
  <2>1. CASE g = h
    BY <2>1 DEF Moves
  <2>2. CASE g # h
    <3>1. step'[g] = step[g] /\ call'[g] = call[g] /\ HookAt(g)
      BY <2>2, HookIs DEF Moves
    <3>2. step[g] # "idle" => call[g].root \in Roots
      BY <3>1, CallIs DEF HookAt
    <3>3. step[g] \notin Opening => "agent_id" \in layout'[call[g].root]
      BY <3>1, <3>2 DEF HookAt, Columns, Opening
    <3>4. ASSUME step[g] = "rebuild" PROVE "agent_id" \notin layout'[call[g].root]
      <4>1. "agent_id" \notin layout[call[g].root]
        BY <3>1, <3>4 DEF HookAt
      <4>2. step[h] = "rebuild" => call[h].root # call[g].root
        BY <2>2, <3>4 DEF StubInv, OneMigrates, Migration
      <4>3. call[h].root # call[g].root => layout'[call[g].root] = layout[call[g].root]
        BY <3>2, <3>4 DEF Columns
      <4> QED
        BY <3>2, <3>4, <4>1, <4>2, <4>3 DEF Columns
    <3> QED
      BY <3>1, <3>3, <3>4 DEF HookAt
  <2> QED
    BY <2>1, <2>2
<1>4. OneMigrates'
  <2> SUFFICES ASSUME NEW f \in Hooks, NEW g \in Hooks, f # g,
                      step'[f] \in Migration, step'[g] \in Migration,
                      call'[f].root = call'[g].root
               PROVE  FALSE
    BY DEF OneMigrates
  <2>1. f # h /\ g # h => FALSE
    BY DEF Moves, StubInv, OneMigrates
  <2>2. ASSUME NEW i \in Hooks, i # h, step'[i] \in Migration, step'[h] \in Migration,
               call'[i].root = call'[h].root
        PROVE  FALSE
    <3>1. step[i] \in Migration /\ call[i] = call'[i]
      BY <2>2 DEF Moves
    <3>2. CASE step[h] \in Migration /\ call'[h] = call[h]
      BY <2>2, <3>1, <3>2 DEF StubInv, OneMigrates
    <3>3. CASE ~Migrating(call'[h].root)
      BY <2>2, <3>1, <3>3 DEF Migrating
    <3> QED
      BY <2>2, <3>2, <3>3 DEF Enters
  <2> QED
    BY <2>1, <2>2
<1>5. StubStandsForDelivered'
  <2>1. ASSUME NEW g \in Hooks, step'[g] \in Stubbing PROVE Certain(Held(g))'
    <3>1. CASE g = h
      BY <2>1, <3>1 DEF Caches, StubStep
    <3>2. CASE g # h
      <4>1. step[g] \in Stubbing /\ Held(g)' = Held(g)
        BY <2>1, <3>2 DEF Moves, Held
      <4>2. Certain(Held(g))
        BY <4>1 DEF StubInv, StubStandsForDelivered
      <4>3. PICK k : k = Held(g)
        OBVIOUS
      <4>4. Certain(k)'
        BY <1>1, <4>2, <4>3
      <4> QED
        BY <4>1, <4>3, <4>4 DEF Certain
    <3> QED
      BY <3>1, <3>2
  <2>2. \A k \in DOMAIN content' : Certain(k)'
    BY <1>1 DEF Caches, ContentStep, StubInv, StubStandsForDelivered
  <2>3. ASSUME NEW r \in Roots, NEW k \in DOMAIN reads'[r], reads'[r][k].text # NoText
        PROVE  Certain(ContentKey(k, reads[r][k].text))'
    <3>1. CASE Kept(reads[r], reads'[r], k)
      <4>1. Certain(ContentKey(k, reads[r][k].text))
        BY <2>3, <3>1 DEF Kept, StubInv, StubStandsForDelivered
      <4>2. PICK c : c = ContentKey(k, reads[r][k].text)
        OBVIOUS
      <4>3. Certain(c)' /\ c = ContentKey(k, reads'[r][k].text)
        BY <1>1, <3>1, <4>1, <4>2 DEF Kept
      <4> QED
        BY <4>3 DEF Certain
    <3> QED
      BY <2>3, <3>1 DEF Caches, ReadsStep
  <2>4. ASSUME NEW r \in Roots, NEW k \in DOMAIN bash'[r]
        PROVE  Certain(ContentKey(k, bash[r][k].text))'
    <3>1. CASE Kept(bash[r], bash'[r], k)
      <4>1. Certain(ContentKey(k, bash[r][k].text))
        BY <3>1 DEF Kept, StubInv, StubStandsForDelivered
      <4>2. PICK c : c = ContentKey(k, bash[r][k].text)
        OBVIOUS
      <4>3. Certain(c)' /\ c = ContentKey(k, bash'[r][k].text)
        BY <1>1, <3>1, <4>1, <4>2 DEF Kept
      <4> QED
        BY <4>3 DEF Certain
    <3> QED
      BY <3>1 DEF Caches, BashStep
  <2> QED
    BY <2>1, <2>2, <2>3, <2>4 DEF StubStandsForDelivered
<1> QED
  BY <1>2, <1>3, <1>4, <1>5 DEF StubInv, Moves, Columns, Caches, ReadsStep, BashStep

-----------------------------------------------------------------------------
(* One statement after the other.                                            *)

(* A table that is not written keeps its rows.                               *)
LEMMA ReadsStay ==
    ASSUME StubInv, NEW h \in Hooks, reads' = reads
    PROVE  ReadsStep(h)
  BY TablesAre DEF ReadsStep, Kept

(* A step that leaves the table of commands alone.                           *)
LEMMA BashStays ==
    ASSUME StubInv, NEW h \in Hooks, bash' = bash
    PROVE  BashStep(h)
  BY TablesAre DEF BashStep, Kept

(* A step that leaves the tables of contents alone.                          *)
LEMMA ContentStays ==
    ASSUME StubInv, NEW h \in Hooks, content' = content
    PROVE  ContentStep(h)
  BY TablesAre DEF ContentStep

(* A statement on one store's table `reads`.                                 *)
LEMMA ReadsChange ==
    ASSUME StubInv, NEW h \in Hooks, NEW r \in Roots, NEW u, IsReads(u),
           reads' = [reads EXCEPT ![r] = u],
           \A k \in DOMAIN u :
              \/ Kept(reads[r], u, k)
              \/ /\ "agent_id" \in layout[r]
                 /\ \/ u[k].text = NoText
                    \/ \E c : c = ContentKey(k, u[k].text) /\ Certain(c)'
    PROVE  ReadsStep(h)
<1>1. DOMAIN reads' = Roots /\ reads'[r] = u /\ \A s \in Roots \ {r} : reads'[s] = reads[s]
  BY TablesAre
<1>2. ASSUME NEW s \in Roots, NEW k \in DOMAIN reads'[s]
      PROVE  \/ Kept(reads[s], reads'[s], k)
             \/ /\ "agent_id" \in layout[s]
                /\ \/ reads'[s][k].text = NoText
                   \/ Certain(ContentKey(k, reads[s][k].text))'
  <2>1. CASE s # r
    BY <1>1, <1>2, <2>1 DEF Kept
  <2>2. CASE s = r /\ ~Kept(reads[r], u, k) /\ u[k].text # NoText
    <3>1. PICK c : c = ContentKey(k, u[k].text) /\ Certain(c)'
      BY <1>1, <1>2, <2>2
    <3>2. c = ContentKey(k, reads[s][k].text)'
      BY <1>1, <2>2, <3>1
    <3> QED
      BY <1>1, <1>2, <2>2, <3>1, <3>2 DEF Certain
  <2> QED
    BY <1>1, <1>2, <2>1, <2>2
<1> QED
  BY <1>1, <1>2, TablesAre DEF ReadsStep

(* The migrations cache nothing.                                             *)
LEMMA OpeningCaches ==
    ASSUME StubInv, NEW h \in Hooks,
           \/ OpenCurrent(h) \/ OpenOld(h) \/ SkipBackfill(h) \/ AddCount(h)
           \/ AddBytes(h) \/ Backfill(h) \/ CheckScope(h) \/ Rebuild(h)
    PROVE  Caches(h)
<1> DEFINE r == call[h].root
<1>1. /\ step[h] \in Migration /\ call[h] \in Calls /\ r \in Roots
      /\ call[h].tool \in {"read", "slice", "bash"}
  <2>1. step[h] \in Migration
    BY DEF OpenCurrent, OpenOld, SkipBackfill, AddCount, AddBytes, Backfill, CheckScope,
           Rebuild, At, Migration
  <2> QED
    BY <2>1, HookIs, CallIs DEF HookAt, Migration
<1>2. bash' = bash /\ content' = content
  BY DEF OpenCurrent, OpenOld, SkipBackfill, AddCount, AddBytes, Backfill, CheckScope,
         Rebuild, AddColumn, storeVars
<1>3. StubStep(h)
  <2>1. \E s \in Migration \cup {Opened(h)} : Goto(h, s)
    BY DEF OpenCurrent, OpenOld, SkipBackfill, AddCount, AddBytes, Backfill, CheckScope,
           Rebuild, AddColumn, Migration
  <2>2. step'[h] \in Migration \cup {Opened(h)}
    BY <2>1, HookIs DEF Goto
  <2> QED
    BY <1>1, <2>2 DEF StubStep, Stubbing, Migration, Opened
<1>4. ReadsStep(h)
  <2>1. CASE Backfill(h)
    <3>1. reads' = [reads EXCEPT ![r] = BackfillCounts(reads[r])]
      BY <2>1 DEF Backfill
    <3>2. PICK t : t = reads[r]
      OBVIOUS
    <3>3. IsReads(t)
      BY <1>1, <3>2, TablesAre
    <3>4. PICK u : u = BackfillCounts(t)
      OBVIOUS
    <3>5. IsReads(u) /\ \A k \in DOMAIN u : Kept(reads[r], u, k)
      BY <3>2, <3>3, <3>4, BackfillIs
    <3>6. reads' = [reads EXCEPT ![r] = u]
      BY <3>1, <3>2, <3>4
    <3> QED
      BY <1>1, <3>5, <3>6, ReadsChange
  <2>2. CASE Rebuild(h)
    <3>1. reads' = [reads EXCEPT ![r] = AgentScoped(reads[r])]
      BY <2>2 DEF Rebuild
    <3>2. PICK t : t = reads[r]
      OBVIOUS
    <3>3. "agent_id" \notin layout[r]
      BY <2>2, HookIs DEF Rebuild, At, HookAt
    <3>4. IsReads(t) /\ \A k \in DOMAIN t : k.agent = Main
      BY <1>1, <3>2, <3>3, TablesAre
    <3>5. PICK u : u = AgentScoped(t)
      OBVIOUS
    <3>6. IsReads(u) /\ \A k \in DOMAIN u : Kept(reads[r], u, k)
      BY <3>2, <3>4, <3>5, AgentScopedIs
    <3>7. reads' = [reads EXCEPT ![r] = u]
      BY <3>1, <3>2, <3>5
    <3> QED
      BY <1>1, <3>6, <3>7, ReadsChange
  <2>3. CASE ~Backfill(h) /\ ~Rebuild(h)
    <3>1. reads' = reads
      BY <2>3 DEF OpenCurrent, OpenOld, SkipBackfill, AddCount, AddBytes, CheckScope, AddColumn,
             storeVars
    <3> QED
      BY <3>1, ReadsStay
  <2> QED
    BY <2>1, <2>2, <2>3
<1> QED
  BY <1>2, <1>3, <1>4, BashStays, ContentStays DEF Caches

(* A read or a slice that is recorded: its text is on its way.               *)
LEMMA RecordCaches ==
    ASSUME StubInv, NEW h \in Hooks, NEW b,
           reads' = [reads EXCEPT ![call[h].root] =
                        RecordFresh(@, ReadKey(h), call[h].text, b)],
           step[h] \notin Opening, call[h].tool = "read",
           \E c : c = Held(h) /\ Certain(c)'
    PROVE  ReadsStep(h)
<1> DEFINE r == call[h].root
<1>1. /\ call[h] \in Calls /\ r \in Roots /\ ReadKey(h) \in ReadKeys /\ call[h].text \in Texts
      /\ "agent_id" \in layout[r] /\ Held(h) = ContentKey(ReadKey(h), call[h].text)
  BY HookIs, CallIs DEF HookAt, Opening
<1>2. PICK t, k, x : t = reads[r] /\ k = ReadKey(h) /\ x = call[h].text
  OBVIOUS
<1>3. IsReads(t) /\ k \in ReadKeys /\ x \in Texts
  BY <1>1, <1>2, TablesAre
<1>4. PICK u : u = RecordFresh(t, k, x, b)
  OBVIOUS
<1>5. IsReads(u) /\ \A j \in DOMAIN u : Kept(t, u, j) \/ (j = k /\ u[j].text = x)
  <2>1. /\ IsReads(RecordFresh(t, k, x, b))
        /\ \A j \in DOMAIN RecordFresh(t, k, x, b) :
              \/ Kept(t, RecordFresh(t, k, x, b), j)
              \/ j = k /\ RecordFresh(t, k, x, b)[j].text = x
    BY <1>3, RecordFreshIs
  <2> QED
    BY <1>4, <2>1
<1>6. reads' = [reads EXCEPT ![r] = u]
  BY <1>2, <1>4
<1>7. PICK c : c = Held(h) /\ Certain(c)'
  OBVIOUS
<1>8. \A j \in DOMAIN u : \/ Kept(reads[r], u, j)
                          \/ c = ContentKey(j, u[j].text)
  BY <1>1, <1>2, <1>5, <1>7
<1> QED
  BY <1>1, <1>5, <1>6, <1>7, <1>8, ReadsChange

(* handle_read.                                                              *)
LEMMA ReadCaches ==
    ASSUME StubInv, NEW h \in Hooks, Moves(h), HandsOver(h),
           \/ Spend(h) \/ LookupRead(h) \/ LookupContent(h) \/ BumpContent(h)
           \/ RecordNewContent(h) \/ Record(h) \/ BusyContent(h)
    PROVE  Caches(h)
<1> DEFINE r == call[h].root
<1>1. /\ step[h] \in ReadSteps \cup {"spend"} /\ call[h] \in Calls /\ r \in Roots
      /\ call[h].tool \in {"read", "slice"} /\ "agent_id" \in layout[r]
      /\ ReadKey(h) \in ReadKeys /\ call[h].text \in Texts /\ Held(h) \in ContentKeys
      /\ Held(h) = ContentKey(call[h], call[h].text)
      /\ Held(h) = ContentKey(ReadKey(h), call[h].text)
      /\ step[h] # "spend" => call[h].tool = "read"
  <2>1. step[h] \in ReadSteps \cup {"spend"}
    BY DEF Spend, LookupRead, LookupContent, BumpContent, RecordNewContent, Record,
           BusyContent, At, ReadSteps
  <2> QED
    BY <2>1, HookIs, CallIs DEF HookAt, ReadSteps, Opening, Migration
<1>2. call' = call /\ bash' = bash
  BY DEF Spend, LookupRead, LookupContent, BumpContent, RecordNewContent, Record, BusyContent,
         Bystanders, storeVars
<1>3. \A k : Certain(k) => Certain(k)'
  BY CertainStands
<1>4. CASE Spend(h)
  <2>1. /\ step'[h] = "deliver" /\ content' = content
        /\ reads' = [reads EXCEPT ![r] = RecordSpend(reads[r], ReadKey(h), TextSize[call[h].text])]
    BY <1>1, <1>4, HookIs DEF Spend, Goto
  <2>2. PICK t, k, n : t = reads[r] /\ k = ReadKey(h) /\ n = TextSize[call[h].text]
    OBVIOUS
  <2>3. IsReads(t) /\ k \in ReadKeys /\ n \in Nat
    BY <1>1, <2>2, TablesAre, HookStoresAssumption
  <2>4. PICK u : u = RecordSpend(t, k, n)
    OBVIOUS
  <2>5. IsReads(u) /\ \A j \in DOMAIN u : Kept(t, u, j) \/ u[j].text = NoText
    BY <2>3, <2>4, RecordSpendIs
  <2>6. reads' = [reads EXCEPT ![r] = u]
    BY <2>1, <2>2, <2>4
  <2>7. ReadsStep(h)
    BY <1>1, <2>2, <2>5, <2>6, ReadsChange
  <2> QED
    BY <1>2, <2>1, <2>7, BashStays, ContentStays DEF Caches, StubStep, Stubbing
<1>5. CASE LookupRead(h)
  <2>1. /\ reads' = reads /\ content' = content
        /\ step'[h] = IF CachedText(reads[r], ReadKey(h)) = call[h].text
                      THEN "bump" ELSE "lookup_content"
    BY <1>5, HookIs DEF LookupRead, Goto, storeVars
  <2>2. ASSUME step'[h] = "bump" PROVE Certain(Held(h))
    <3>1. CachedText(reads[r], ReadKey(h)) = call[h].text /\ call[h].text # NoText
      BY <1>1, <2>1, <2>2, HookStoresAssumption
    <3>2. ReadKey(h) \in DOMAIN reads[r] /\ reads[r][ReadKey(h)].text = call[h].text
      BY <3>1 DEF CachedText
    <3> QED
      BY <1>1, <3>1, <3>2 DEF StubInv, StubStandsForDelivered
  <2>3. StubStep(h)
    <3>1. step'[h] \in Stubbing => step'[h] = "bump"
      BY <2>1 DEF Stubbing
    <3>2. PICK k : k = Held(h)
      OBVIOUS
    <3>3. Held(h)' = k
      BY <1>2, <3>2 DEF Held
    <3> QED
      BY <1>3, <2>2, <3>1, <3>2, <3>3 DEF StubStep, Certain
  <2> QED
    BY <1>2, <2>1, <2>3, ReadsStay, BashStays, ContentStays DEF Caches
<1>6. CASE LookupContent(h)
  <2>1. /\ reads' = reads /\ content' = content
        /\ step'[h] \in {"bump_content", "record", "record_content"}
        /\ step'[h] = "bump_content" => ContentHits(call[h], call[h].text) # {}
    BY <1>6, HookIs DEF LookupContent, Goto, storeVars
  <2>2. ASSUME step'[h] = "bump_content" PROVE Certain(Held(h))
    <3>1. Held(h) \in DOMAIN content
      BY <1>1, <2>1, <2>2 DEF ContentHits
    <3> QED
      BY <3>1 DEF StubInv, StubStandsForDelivered
  <2>3. StubStep(h)
    <3>1. step'[h] \in Stubbing => step'[h] = "bump_content"
      BY <2>1 DEF Stubbing
    <3>2. PICK k : k = Held(h)
      OBVIOUS
    <3>3. Held(h)' = k
      BY <1>2, <3>2 DEF Held
    <3> QED
      BY <1>3, <2>2, <3>1, <3>2, <3>3 DEF StubStep, Certain
  <2> QED
    BY <1>2, <2>1, <2>3, ReadsStay, BashStays, ContentStays DEF Caches
<1>7. CASE BumpContent(h)
  <2>1. /\ reads' = reads /\ step[h] = "bump_content"
        /\ content' = BumpRow(content, ContentKey(call[h], call[h].text))
    BY <1>7 DEF BumpContent, At
  <2>2. ContentStep(h)
    <3>1. DOMAIN content' = DOMAIN content
      BY <2>1 DEF BumpRow
    <3>2. \A k \in DOMAIN content : content'[k] \in ContentRows
      BY <2>1, TablesAre DEF BumpRow, IsContent, ContentRows
    <3> QED
      BY <3>1, <3>2, TablesAre DEF ContentStep, IsContent
  <2>3. Certain(Held(h))
    BY <2>1 DEF StubInv, StubStandsForDelivered, Stubbing
  <2>4. StubStep(h)
    <3>1. PICK k : k = Held(h)
      OBVIOUS
    <3>2. Held(h)' = k
      BY <1>2, <3>1 DEF Held
    <3> QED
      BY <1>3, <2>3, <3>1, <3>2 DEF StubStep, Certain
  <2> QED
    BY <1>2, <2>1, <2>2, <2>4, ReadsStay, BashStays DEF Caches
<1>8. CASE RecordNewContent(h)
  <2>1. /\ reads' = reads /\ step'[h] = "record"
        /\ content' = RecordContent(content, Held(h), call[h].root, call[h].target)
    BY <1>1, <1>8, HookIs DEF RecordNewContent, Goto
  <2>2. h \in Delivering' /\ Held(h)' = Held(h)
    BY <1>1, <1>2, <1>8, <2>1 DEF Delivering, Held, RecordNewContent, At
  <2>3. PICK k : k = Held(h)
    OBVIOUS
  <2>4. Certain(k)'
    BY <2>2, <2>3 DEF Certain
  <2>5. call[h].target \in Rels
    BY <1>1 DEF Calls
  <2>6. ContentStep(h)
    <3>1. [root |-> call[h].root, rel |-> call[h].target, stubs |-> 0] \in ContentRows
      BY <1>1, <2>5 DEF ContentRows
    <3>2. /\ DOMAIN content' \subseteq DOMAIN content \cup {k}
          /\ \A j \in DOMAIN content' : content'[j] \in ContentRows
      BY <2>1, <2>3, <3>1, TablesAre DEF RecordContent, Upsert, IsContent
    <3> QED
      BY <1>1, <2>3, <2>4, <3>2, TablesAre DEF ContentStep, IsContent, Certain
  <2> QED
    BY <1>2, <2>1, <2>6, ReadsStay, BashStays DEF Caches, StubStep, Stubbing
<1>9. CASE Record(h)
  <2>1. /\ step[h] = "record" /\ step'[h] = "deliver" /\ content' = content
        /\ reads' = [reads EXCEPT ![r] = RecordFresh(@, ReadKey(h), call[h].text, TRUE)]
    BY <1>9, HookIs DEF Record, Goto, At
  <2>2. h \in Delivering' /\ Held(h)' = Held(h)
    BY <1>1, <1>2, <2>1 DEF Delivering, Held
  <2>3. PICK k : k = Held(h)
    OBVIOUS
  <2>4. Certain(k)'
    BY <2>2, <2>3 DEF Certain
  <2>5. step[h] \notin Opening
    BY <2>1 DEF Opening, Migration
  <2>6. ReadsStep(h)
    BY <1>1, <2>1, <2>3, <2>4, <2>5, RecordCaches
  <2> QED
    BY <1>2, <2>1, <2>6, BashStays, ContentStays DEF Caches, StubStep, Stubbing
<1>10. CASE BusyContent(h)
  <2>1. reads' = reads /\ content' = content /\ step'[h] = "record"
    BY <1>10, HookIs DEF BusyContent, Goto, storeVars
  <2> QED
    BY <1>2, <2>1, ReadsStay, BashStays, ContentStays DEF Caches, StubStep, Stubbing
<1> QED
  BY <1>4, <1>5, <1>6, <1>7, <1>8, <1>9, <1>10

(* handle_bash.                                                              *)
LEMMA BashCaches ==
    ASSUME StubInv, NEW h \in Hooks, Moves(h), HandsOver(h), LookupBash(h) \/ RecordBash(h)
    PROVE  Caches(h)
<1> DEFINE r == call[h].root
<1>1. /\ call[h] \in Calls /\ call[h].tool = "bash" /\ r \in Roots /\ BashKey(h) \in BashKeys
      /\ call[h].text \in Texts /\ Held(h) = ContentKey(BashKey(h), call[h].text)
  BY HookIs, CallIs DEF HookAt, LookupBash, RecordBash, At, BashSteps
<1>2. call' = call /\ reads' = reads /\ content' = content
  BY DEF LookupBash, RecordBash, Bystanders, storeVars
<1>3. CASE LookupBash(h)
  <2>1. /\ bash' = bash /\ step'[h] \in {"bump_bash", "record_bash"}
        /\ step'[h] = "bump_bash" =>
              BashKey(h) \in DOMAIN bash[r] /\ bash[r][BashKey(h)].text = call[h].text
    BY <1>3, HookIs DEF LookupBash, Goto, storeVars
  <2>2. ASSUME step'[h] = "bump_bash" PROVE Certain(Held(h))
    BY <1>1, <2>1, <2>2 DEF StubInv, StubStandsForDelivered
  <2>3. StubStep(h)
    <3>1. step'[h] \in Stubbing => step'[h] = "bump_bash"
      BY <2>1 DEF Stubbing
    <3>2. PICK k : k = Held(h)
      OBVIOUS
    <3>3. Held(h)' = k
      BY <1>2, <3>2 DEF Held
    <3>4. Certain(k) => Certain(k)'
      BY CertainStands
    <3> QED
      BY <2>2, <3>1, <3>2, <3>3, <3>4 DEF StubStep, Certain
  <2> QED
    BY <1>2, <2>1, <2>3, ReadsStay, BashStays, ContentStays DEF Caches
<1>4. CASE RecordBash(h)
  <2>1. /\ step'[h] = "deliver"
        /\ bash' = [bash EXCEPT ![r] = RecordBashFresh(bash[r], BashKey(h), call[h].text)]
    BY <1>4, HookIs DEF RecordBash, Goto
  <2>2. h \in Delivering' /\ Held(h)' = Held(h)
    BY <1>1, <1>2, <2>1 DEF Delivering, Held
  <2>3. /\ DOMAIN bash' = Roots
        /\ \A s \in Roots \ {r} : bash'[s] = bash[s]
        /\ bash'[r] = RecordBashFresh(bash[r], BashKey(h), call[h].text)
    BY <1>1, <2>1, TablesAre
  <2>4. /\ DOMAIN bash'[r] = DOMAIN bash[r] \cup {BashKey(h)}
        /\ bash'[r][BashKey(h)] = [text |-> call[h].text, stubs |-> 0]
        /\ \A k \in DOMAIN bash[r] \ {BashKey(h)} : bash'[r][k] = bash[r][k]
    BY <2>3 DEF RecordBashFresh, Upsert
  <2>5. [text |-> call[h].text, stubs |-> 0] \in BashRows
    BY <1>1 DEF BashRows
  <2>6. ASSUME NEW s \in Roots PROVE IsBash(bash'[s])
    <3>1. CASE s = r
      BY <1>1, <2>4, <2>5, <3>1, TablesAre DEF IsBash
    <3>2. CASE s # r
      BY <2>3, <3>2, TablesAre
    <3> QED
      BY <3>1, <3>2
  <2>7. ASSUME NEW s \in Roots, NEW k \in DOMAIN bash'[s], ~Kept(bash[s], bash'[s], k)
        PROVE  Certain(ContentKey(k, bash[s][k].text))'
    <3>1. s = r /\ k = BashKey(h)
      BY <2>3, <2>4, <2>7 DEF Kept
    <3>2. bash'[s][k].text = call[h].text
      BY <2>4, <3>1
    <3>3. ContentKey(k, bash[s][k].text)' = Held(h)'
      BY <1>1, <2>2, <3>1, <3>2
    <3> QED
      BY <2>2, <3>3 DEF Certain
  <2>8. BashStep(h)
    BY <2>3, <2>6, <2>7 DEF BashStep
  <2> QED
    BY <1>2, <2>1, <2>8, ReadsStay, ContentStays DEF Caches, StubStep, Stubbing
<1> QED
  BY <1>3, <1>4

(* A hook about to print a stub has counted it, or has recorded under its    *)
(* path the text that is in context.                                         *)
LEMMA StubCaches ==
    ASSUME StubInv, NEW h \in Hooks, Moves(h), HandsOver(h),
           Bump(h) \/ RecordStubbed(h) \/ BumpBash(h)
    PROVE  Caches(h)
<1> DEFINE r == call[h].root
<1>1. /\ step[h] \in Stubbing /\ call' = call /\ content' = content
  BY DEF Bump, RecordStubbed, BumpBash, Bystanders, At, Stubbing
<1>2. StubStep(h)
  <2>1. Certain(Held(h))
    BY <1>1 DEF StubInv, StubStandsForDelivered
  <2>2. PICK k : k = Held(h)
    OBVIOUS
  <2>3. Held(h)' = k
    BY <1>1, <2>2 DEF Held
  <2>4. Certain(k)'
    BY <2>1, <2>2, CertainStands
  <2> QED
    BY <2>3, <2>4 DEF StubStep, Certain
<1>3. CASE Bump(h)
  <2>1. /\ bash' = bash /\ step[h] = "bump"
        /\ reads' = [reads EXCEPT ![r] = BumpStub(reads[r], ReadKey(h))]
    BY <1>3 DEF Bump, At
  <2>2. r \in Roots
    BY <2>1, HookIs, CallIs DEF HookAt
  <2>3. PICK t, k : t = reads[r] /\ k = ReadKey(h)
    OBVIOUS
  <2>4. IsReads(t)
    BY <2>2, <2>3, TablesAre
  <2>5. PICK u : u = BumpStub(t, k)
    OBVIOUS
  <2>6. IsReads(u) /\ \A j \in DOMAIN u : Kept(reads[r], u, j)
    BY <2>3, <2>4, <2>5, BumpStubIs
  <2>7. reads' = [reads EXCEPT ![r] = u]
    BY <2>1, <2>3, <2>5
  <2>8. ReadsStep(h)
    BY <2>2, <2>6, <2>7, ReadsChange
  <2> QED
    BY <1>1, <1>2, <2>1, <2>8, BashStays, ContentStays DEF Caches
<1>4. CASE RecordStubbed(h)
  <2>1. /\ bash' = bash /\ step[h] = "record_stubbed"
        /\ reads' = [reads EXCEPT ![r] = RecordFresh(@, ReadKey(h), call[h].text, FALSE)]
    BY <1>4 DEF RecordStubbed, At
  <2>2. step[h] \notin Opening /\ call[h].tool = "read"
    BY <2>1, HookIs DEF HookAt, Opening, Migration, ReadSteps
  <2>3. Certain(Held(h))
    BY <2>1 DEF StubInv, StubStandsForDelivered, Stubbing
  <2>4. PICK c : c = Held(h)
    OBVIOUS
  <2>5. Certain(c)'
    BY <2>3, <2>4, CertainStands
  <2>6. ReadsStep(h)
    BY <2>1, <2>2, <2>4, <2>5, RecordCaches
  <2> QED
    BY <1>1, <1>2, <2>1, <2>6, BashStays, ContentStays DEF Caches
<1>5. CASE BumpBash(h)
  <2>1. /\ reads' = reads /\ bash' = [bash EXCEPT ![r] = BumpRow(bash[r], BashKey(h))]
    BY <1>5 DEF BumpBash
  <2>2. DOMAIN bash' = Roots
    BY <2>1, TablesAre
  <2>3. ASSUME NEW s \in Roots
        PROVE  IsBash(bash'[s]) /\ \A k \in DOMAIN bash'[s] : Kept(bash[s], bash'[s], k)
    <3>1. bash'[s] = bash[s] \/ bash'[s] = [bash[s] EXCEPT ![BashKey(h)].stubs = @ + 1]
      BY <2>1, TablesAre DEF BumpRow
    <3>2. \A k \in DOMAIN bash[s] : bash[s][k] \in BashRows
      BY TablesAre DEF IsBash
    <3>3. /\ DOMAIN bash'[s] = DOMAIN bash[s]
          /\ \A k \in DOMAIN bash[s] : bash'[s][k] \in BashRows /\ bash'[s][k].text = bash[s][k].text
      BY <3>1, <3>2 DEF BashRows
    <3> QED
      BY <3>3, TablesAre DEF IsBash, Kept
  <2>4. BashStep(h)
    BY <2>2, <2>3 DEF BashStep
  <2> QED
    BY <1>1, <1>2, <2>1, <2>4, ReadsStay, ContentStays DEF Caches
<1> QED
  BY <1>3, <1>4, <1>5

(* A hook that ends writes nothing as it does.                               *)
LEMMA EndingCaches ==
    ASSUME StubInv, NEW h \in Hooks, Endings(h)
    PROVE  Caches(h)
<1>1. StubStep(h)
  BY EndMoves DEF Endings, PrintStub, Deliver, Killed, Refused, BusyStore, FailOpen,
     StubStep, Stubbing
<1>2. reads' = reads /\ bash' = bash /\ content' = content
  BY DEF Endings, PrintStub, Deliver, Killed, Refused, BusyStore, FailOpen, storeVars
<1> QED
  BY <1>1, <1>2, ReadsStay, BashStays, ContentStays DEF Caches

-----------------------------------------------------------------------------
(* The theorem.                                                              *)

(* Every step of a hook keeps the invariant.                                 *)
LEMMA ActsKeepStubInv ==
    ASSUME StubInv, "rival-migration" \notin World, NEW h \in Hooks, HookActs(h)
    PROVE  StubInv'
<1>1. HandsOver(h)
  BY ActsHandOver
<1>2. CASE \E c \in Calls : Start(h, c)
  <2>1. PICK c \in Calls : Start(h, c)
    BY <1>2
  <2>2. Moves(h) /\ Columns(h) /\ Enters(h)
    BY <2>1, StartMoves
  <2>3. reads' = reads /\ bash' = bash /\ content' = content /\ step'[h] = "open"
    BY <2>1, HookIs DEF Start, Goto, storeVars
  <2>4. Caches(h)
    BY <2>3, ReadsStay, BashStays, ContentStays DEF Caches, StubStep, Stubbing
  <2> QED
    BY <1>1, <2>2, <2>4, StubInvKept
<1>3. CASE \/ OpenCurrent(h) \/ OpenOld(h) \/ SkipBackfill(h) \/ AddCount(h)
           \/ AddBytes(h) \/ Backfill(h) \/ CheckScope(h) \/ Rebuild(h)
  BY <1>1, <1>3, OpeningMoves, OpeningCaches, StubInvKept
<1>4. CASE \/ Spend(h) \/ LookupRead(h) \/ LookupContent(h) \/ BumpContent(h)
           \/ RecordNewContent(h) \/ Record(h) \/ BusyContent(h)
  BY <1>1, <1>4, StatementMoves, ReadCaches, StubInvKept
<1>5. CASE LookupBash(h) \/ RecordBash(h)
  BY <1>1, <1>5, StatementMoves, BashCaches, StubInvKept
<1>6. CASE Bump(h) \/ RecordStubbed(h) \/ BumpBash(h)
  BY <1>1, <1>6, StatementMoves, StubCaches, StubInvKept
<1>7. CASE Endings(h)
  BY <1>1, <1>7, EndingMoves, EndingCaches, StubInvKept
<1> QED
  BY <1>2, <1>3, <1>4, <1>5, <1>6, <1>7 DEF HookActs, Endings

(* `devscout clear` only forgets.                                            *)
LEMMA UserKeepsStubInv ==
    ASSUME StubInv, NEW r \in Roots, UserActs(r)
    PROVE  StubInv'
<1>1. \E t, b : Forget(r, t, b) /\ DOMAIN t \subseteq DOMAIN reads[r]
                /\ (\A k \in DOMAIN t : t[k] = reads[r][k])
                /\ DOMAIN b \subseteq DOMAIN bash[r]
                /\ (\A k \in DOMAIN b : b[k] = bash[r][k])
  <2>1. CASE \E s \in Sessions : ClearSession(r, s)
    BY <2>1 DEF ClearSession, PruneSession, Restrict
  <2>2. CASE \E old \in SUBSET DOMAIN reads[r] : ClearOlder(r, old)
    BY <2>2 DEF ClearOlder, Restrict
  <2>3. CASE ClearStore(r)
    BY <2>3 DEF ClearStore, NoRows
  <2> QED
    BY <2>1, <2>2, <2>3 DEF UserActs
<1>2. /\ DOMAIN reads' = Roots /\ DOMAIN bash' = Roots
      /\ \A s \in Roots : /\ DOMAIN reads'[s] \subseteq DOMAIN reads[s]
                          /\ \A k \in DOMAIN reads'[s] : reads'[s][k] = reads[s][k]
                          /\ DOMAIN bash'[s] \subseteq DOMAIN bash[s]
                          /\ \A k \in DOMAIN bash'[s] : bash'[s][k] = bash[s][k]
      /\ UNCHANGED <<layout, content, step, call, inContext>>
  BY <1>1, TablesAre DEF Forget
<1>3. \A k : Certain(k)' <=> Certain(k)
  BY <1>2 DEF Certain, Delivering, Held
<1>4. StoresTypeOK'
  BY <1>2 DEF StubInv, StoresTypeOK
<1>5. (\A h \in Hooks : HookAt(h)') /\ OneMigrates'
  BY <1>2 DEF StubInv, HookAt, OneMigrates
<1>6. ASSUME NEW s \in Roots, NEW k \in DOMAIN reads'[s], reads'[s][k].text # NoText
      PROVE  Certain(ContentKey(k, reads[s][k].text))'
  <2>1. PICK c : c = ContentKey(k, reads[s][k].text)
    OBVIOUS
  <2>2. c = ContentKey(k, reads[s][k].text)' /\ Certain(c)
    BY <1>2, <1>6, <2>1 DEF StubInv, StubStandsForDelivered
  <2>3. Certain(c)'
    BY <1>3, <2>2
  <2> QED
    BY <2>2, <2>3 DEF Certain
<1>7. ASSUME NEW s \in Roots, NEW k \in DOMAIN bash'[s]
      PROVE  Certain(ContentKey(k, bash[s][k].text))'
  <2>1. PICK c : c = ContentKey(k, bash[s][k].text)
    OBVIOUS
  <2>2. c = ContentKey(k, bash[s][k].text)' /\ Certain(c)
    BY <1>2, <1>7, <2>1 DEF StubInv, StubStandsForDelivered
  <2>3. Certain(c)'
    BY <1>3, <2>2
  <2> QED
    BY <2>2, <2>3 DEF Certain
<1>8. \A h \in Hooks : step'[h] \in Stubbing => Certain(Held(h))'
  BY <1>2 DEF StubInv, StubStandsForDelivered, Certain, Delivering, Held
<1>9. \A k \in DOMAIN content' : Certain(k)'
  BY <1>2, <1>3 DEF StubInv, StubStandsForDelivered
<1>10. StubStandsForDelivered'
  BY <1>6, <1>7, <1>8, <1>9 DEF StubStandsForDelivered
<1> QED
  BY <1>2, <1>4, <1>5, <1>10 DEF StubInv

(* What an older devscout left: a row of the main thread, never stubbed.     *)
LEMMA LegacyTablesAre ==
    ASSUME NEW old \in LegacyTables
    PROVE  /\ DOMAIN old \subseteq ReadKeys
           /\ \A k \in DOMAIN old : /\ old[k] \in ReadRows /\ k.agent = Main
                                    /\ old[k].text \in Texts /\ old[k].bytes = 0
<1>1. CASE old = NoRows
  BY <1>1 DEF NoRows
<1>2. CASE old # NoRows
  <2>0. PICK s \in Sessions, rel \in Rels, x \in Texts : old = LegacyTable(s, rel, x)
    BY <1>2 DEF LegacyTables
  <2>1. PICK key : key = [session |-> s, agent |-> Main, rel |-> rel]
    OBVIOUS
  <2>2. key \in ReadKeys /\ key.agent = Main
    BY <2>1, HookStoresAssumption DEF ReadKeys
  <2>3. PICK row : row = LegacyRow(x)
    OBVIOUS
  <2>4. row \in ReadRows /\ row.text \in Texts /\ row.bytes = 0
    BY <2>3, HookStoresAssumption DEF LegacyRow, ReadRows
  <2>5. DOMAIN old = {key} /\ old[key] = row
    BY <2>0, <2>1, <2>3 DEF LegacyTable
  <2> QED
    BY <2>2, <2>4, <2>5
<1> QED
  BY <1>1, <1>2

(* A legacy row stands for what its reader read.                             *)
LEMMA InitStubInv == ASSUME Init PROVE StubInv
<1>1. /\ step = [h \in Hooks |-> "idle"] /\ call = [h \in Hooks |-> <<>>]
      /\ bash = [r \in Roots |-> NoRows] /\ content = NoRows
      /\ layout = [r \in Roots |-> IF r \in LegacyRoots THEN {} ELSE LateColumns]
  BY DEF Init, StoresInit
<1>5. PICK old \in LegacyTables :
        reads = [r \in Roots |-> IF r \in LegacyRoots THEN old ELSE NoRows]
  BY DEF Init, StoresInit
<1>6. /\ DOMAIN old \subseteq ReadKeys
      /\ \A k \in DOMAIN old : old[k] \in ReadRows /\ k.agent = Main /\ old[k].text \in Texts
  BY LegacyTablesAre
<1>7. DOMAIN NoRows = {}
  BY DEF NoRows
<1>8. \A r \in Roots : /\ DOMAIN reads[r] \subseteq ReadKeys
                       /\ \A k \in DOMAIN reads[r] :
                             reads[r][k] \in ReadRows /\ k.agent = Main
  BY <1>5, <1>6, <1>7
<1>9. StoresTypeOK
  BY <1>1, <1>7, <1>8 DEF StoresTypeOK, LateColumns
<1>10. \A r \in Roots : \A k \in DOMAIN reads[r] :
           ContentKey(k, reads[r][k].text) \in inContext
  BY DEF Init
<1>11. StubStandsForDelivered
  BY <1>1, <1>7, <1>10 DEF StubStandsForDelivered, Certain, Stubbing
<1>12. (\A h \in Hooks : HookAt(h)) /\ OneMigrates
  BY <1>1 DEF HookAt, OneMigrates, ReadSteps, BashSteps, Opening, Migration
<1>13. step \in [Hooks -> Steps] /\ DOMAIN call = Hooks
  BY <1>1 DEF Steps
<1> QED
  BY <1>1, <1>5, <1>9, <1>11, <1>12, <1>13 DEF StubInv

LEMMA StubInvInductive ==
    ASSUME "rival-migration" \notin World
    PROVE  StubInv /\ [Next]_vars => StubInv'
<1> SUFFICES ASSUME StubInv, [Next]_vars PROVE StubInv'
  OBVIOUS
<1>1. CASE \E h \in Hooks : HookActs(h)
  BY <1>1, ActsKeepStubInv
<1>2. CASE \E r \in Roots : UserActs(r)
  BY <1>2, UserKeepsStubInv
<1>3. CASE UNCHANGED vars
  <2>1. UNCHANGED <<reads, bash, layout, content, step, call, inContext>>
    BY <1>3 DEF vars, storeVars, hookVars
  <2>2. StoresTypeOK' /\ (\A h \in Hooks : HookAt(h)') /\ OneMigrates'
    BY <2>1 DEF StubInv, StoresTypeOK, HookAt, OneMigrates
  <2>3. StubStandsForDelivered' <=> StubStandsForDelivered
    BY <2>1 DEF StubStandsForDelivered, Certain, Delivering, Held
  <2> QED
    BY <2>1, <2>2, <2>3 DEF StubInv
<1> QED
  BY <1>1, <1>2, <1>3 DEF Next, HookActs, UserActs

(* A stub is printed only for a text delivered whole to the same agent of    *)
(* the same session (hookio.rs), for any number of hooks, sessions and       *)
(* stores, however they interleave, fail open, are killed, find a store busy *)
(* or are cleared: with one process at a time migrating a store.             *)
THEOREM StubStandsForDeliveredHolds ==
    ASSUME "rival-migration" \notin World
    PROVE  Spec => []StubStandsForDelivered
<1>1. StubInv => StubStandsForDelivered
  BY DEF StubInv
<1> QED
  BY <1>1, InitStubInv, StubInvInductive, PTL DEF Spec

-----------------------------------------------------------------------------
(* Sums over sets of hooks.  MapThenSumSet adds up a recursive function over *)
(* the subsets; that there is one, and what it does when a hook joins or     *)
(* leaves, follows from the least number of hooks it would fail for.         *)

(* Numbers have a least.                                                     *)
LEMMA LeastOf ==
    ASSUME NEW T \in SUBSET Nat, T # {}
    PROVE  \E n \in T : \A m \in T : n <= m
<1>1. PICK R : R = OpToRel(<, Nat)
  OBVIOUS
<1>2. IsWellFoundedOn(R, Nat)
  BY <1>1, NatLessThanWellFounded
<1>3. PICK n \in T : \A m \in T : <<m, n>> \notin R
  BY <1>2, WFMin
<1>4. \A m \in T : ~(m < n)
  BY <1>1, <1>3 DEF OpToRel
<1> QED
  BY <1>3, <1>4

(* The bytes of the texts the hooks of S answer with, where c says what they *)
(* answer.                                                                   *)
SizeOf(c, h) == TextSize[c[h].text]
SumOf(c, S) == MapThenSumSet(LAMBDA h : TextSize[c[h].text], S)

Any(s) == CHOOSE x \in s : TRUE
Adds(c, f, s) == f[s] = IF s = {} THEN 0 ELSE SizeOf(c, Any(s)) + f[s \ {Any(s)}]

Adder(c, f, S) == \A s \in SUBSET S : Adds(c, f, s)
SameSizes(c, d, S) == \A h \in S : SizeOf(c, h) = SizeOf(d, h)

(* A function that adds up the sets of at most n hooks.                      *)
LEMMA SumsUpTo ==
    ASSUME NEW c, NEW S, IsFiniteSet(S), NEW n \in Nat
    PROVE  \E f : \A s \in SUBSET S : Cardinality(s) <= n => Adds(c, f, s)
<1> DEFINE Good(m) == \E f : \A s \in SUBSET S : Cardinality(s) <= m => Adds(c, f, s)
           Bad == {m \in Nat : ~Good(m)}
<1> SUFFICES ASSUME Bad # {} PROVE FALSE
  OBVIOUS
<1>1. PICK m \in Bad : \A k \in Bad : m <= k
  BY LeastOf
<1>2. \A s \in SUBSET S : IsFiniteSet(s) /\ Cardinality(s) \in Nat
  BY FS_Subset, FS_CardinalityType
<1>3. CASE m = 0
  <2> DEFINE f == [s \in SUBSET S |-> 0]
  <2>1. ASSUME NEW s \in SUBSET S, Cardinality(s) <= m
        PROVE  Adds(c, f, s)
    <3>1. s = {}
      BY <1>2, <1>3, <2>1, FS_EmptySet
    <3> QED
      BY <3>1 DEF Adds
  <2> QED
    BY <1>1, <2>1
<1>4. CASE m # 0
  <2>1. m - 1 \in Nat /\ m - 1 \notin Bad
    BY <1>1, <1>4
  <2>2. PICK g : \A s \in SUBSET S : Cardinality(s) <= m - 1 => Adds(c, g, s)
    BY <2>1
  <2> DEFINE f == [s \in SUBSET S |-> IF s = {} THEN 0
                                      ELSE SizeOf(c, Any(s)) + g[s \ {Any(s)}]]
  <2>3. ASSUME NEW s \in SUBSET S, Cardinality(s) <= m
        PROVE  Adds(c, f, s)
    <3>1. CASE s = {}
      BY <3>1 DEF Adds
    <3>2. CASE s # {}
      <4> DEFINE t == s \ {Any(s)}
      <4>1. Any(s) \in s /\ t \in SUBSET S
        BY <3>2 DEF Any
      <4>2. Cardinality(t) = Cardinality(s) - 1
        BY <1>2, <4>1, FS_RemoveElement
      <4>3. Cardinality(t) <= m - 1
        BY <1>2, <2>1, <2>3, <4>2
      <4>4. Adds(c, g, t)
        BY <2>2, <4>1, <4>3
      <4>5. f[t] = g[t]
        BY <4>1, <4>4 DEF Adds
      <4> QED
        BY <3>2, <4>5 DEF Adds
    <3> QED
      BY <3>1, <3>2
  <2> QED
    BY <1>1, <2>3
<1> QED
  BY <1>3, <1>4

(* The sum is what such a function says.                                     *)
LEMMA SumIs ==
    ASSUME NEW c, NEW S, IsFiniteSet(S)
    PROVE  \E f : SumOf(c, S) = f[S] /\ Adder(c, f, S)
<1> DEFINE F(f) == [s \in SUBSET S |-> IF s = {} THEN 0
                        ELSE TextSize[c[CHOOSE x \in s : TRUE].text]
                                + f[s \ {CHOOSE x \in s : TRUE}]]
           iter == CHOOSE f : f = F(f)
<1>1. SumOf(c, S) = iter[S]
  BY DEF SumOf, MapThenSumSet, MapThenFoldSet
<1>2. Cardinality(S) \in Nat
  BY FS_CardinalityType
<1>3. PICK f : \A s \in SUBSET S : Cardinality(s) <= Cardinality(S) => Adds(c, f, s)
  BY <1>2, SumsUpTo
<1>4. \A s \in SUBSET S : Adds(c, f, s)
  BY <1>2, <1>3, FS_Subset
<1> DEFINE g == [s \in SUBSET S |-> f[s]]
<1>5. g = F(g)
  BY <1>4 DEF Adds, SizeOf, Any
<1> HIDE DEF g
<1>6. iter = F(iter)
  BY <1>5
<1> HIDE DEF iter
<1>7. \A s \in SUBSET S : Adds(c, iter, s)
  BY <1>6 DEF Adds, SizeOf, Any
<1> QED
  BY <1>1, <1>7 DEF Adder

(* Two such functions agree on the sets whose hooks answer the same.         *)
LEMMA SumsAgree ==
    ASSUME NEW c, NEW d, NEW S, IsFiniteSet(S), NEW f, NEW g,
           SameSizes(c, d, S), Adder(c, f, S), Adder(d, g, S)
    PROVE  f[S] = g[S]
<1> DEFINE Bad == {n \in Nat : \E s \in SUBSET S : Cardinality(s) = n /\ f[s] # g[s]}
<1> SUFFICES ASSUME f[S] # g[S] PROVE FALSE
  OBVIOUS
<1> DEFINE s == S
<1>1. \A t \in SUBSET S : IsFiniteSet(t) /\ Cardinality(t) \in Nat
  BY FS_Subset, FS_CardinalityType
<1>2. PICK n \in Bad : \A k \in Bad : n <= k
  <2>1. Cardinality(s) \in Bad
    BY <1>1
  <2> HIDE DEF Bad
  <2>2. Bad \in SUBSET Nat
    BY DEF Bad
  <2> QED
    BY <2>1, <2>2, LeastOf
<1>3. PICK t \in SUBSET S : Cardinality(t) = n /\ f[t] # g[t]
  OBVIOUS
<1>4. t # {}
  BY <1>3 DEF Adder, Adds
<1>5. Any(t) \in t /\ t \ {Any(t)} \in SUBSET S
  BY <1>4 DEF Any
<1>6. Cardinality(t \ {Any(t)}) = n - 1 /\ n - 1 \in Nat
  <2>1. PICK u : u = t \ {Any(t)}
    OBVIOUS
  <2>2. Cardinality(u) = Cardinality(t) - 1
    BY <1>1, <1>5, <2>1, FS_RemoveElement
  <2>3. Cardinality(u) \in Nat
    BY <1>1, <1>5, <2>1
  <2> QED
    BY <1>3, <2>1, <2>2, <2>3
<1>7. f[t \ {Any(t)}] = g[t \ {Any(t)}]
  BY <1>2, <1>5, <1>6
<1>8. SizeOf(c, Any(t)) = SizeOf(d, Any(t))
  BY <1>5 DEF SameSizes
<1> QED
  BY <1>3, <1>4, <1>7, <1>8 DEF Adder, Adds

(* Nothing to hand over; hooks that answer the same.                         *)
LEMMA SumEmpty == ASSUME NEW c PROVE SumOf(c, {}) = 0
  BY SumIs, FS_EmptySet DEF Adder, Adds

LEMMA SumSame ==
    ASSUME NEW c, NEW d, NEW S, IsFiniteSet(S), SameSizes(c, d, S)
    PROVE  SumOf(c, S) = SumOf(d, S)
<1>1. PICK f : SumOf(c, S) = f[S] /\ Adder(c, f, S)
  BY SumIs
<1>2. PICK g : SumOf(d, S) = g[S] /\ Adder(d, g, S)
  BY SumIs
<1>3. f[S] = g[S]
  BY <1>1, <1>2, SumsAgree
<1> QED
  BY <1>1, <1>2, <1>3

(* A sum is a number, and whichever hook is taken out counts for its text.   *)
LEMMA SumsCount ==
    ASSUME NEW c, NEW S, IsFiniteSet(S), NEW f, \A h \in S : SizeOf(c, h) \in Nat,
           Adder(c, f, S)
    PROVE  \A s \in SUBSET S :
              f[s] \in Nat /\ \A h \in s : f[s] = SizeOf(c, h) + f[s \ {h}]
<1> DEFINE Fine(s) == f[s] \in Nat /\ \A h \in s : f[s] = SizeOf(c, h) + f[s \ {h}]
           Bad == {n \in Nat : \E s \in SUBSET S : Cardinality(s) = n /\ ~Fine(s)}
<1> SUFFICES ASSUME NEW s \in SUBSET S, ~Fine(s) PROVE FALSE
  OBVIOUS
<1>1. \A t \in SUBSET S : IsFiniteSet(t) /\ Cardinality(t) \in Nat
  BY FS_Subset, FS_CardinalityType
<1>2. PICK n \in Bad : \A k \in Bad : n <= k
  <2>1. Cardinality(s) \in Bad
    BY <1>1
  <2> HIDE DEF Bad
  <2>2. Bad \in SUBSET Nat
    BY DEF Bad
  <2> QED
    BY <2>1, <2>2, LeastOf
<1>3. PICK t \in SUBSET S : Cardinality(t) = n /\ ~Fine(t)
  BY <1>2
<1>4. n \in Nat
  BY <1>2
<1>5. ASSUME NEW u \in SUBSET S, Cardinality(u) < n
      PROVE  Fine(u)
  <2> SUFFICES ASSUME ~Fine(u) PROVE FALSE
    OBVIOUS
  <2>1. Cardinality(u) \in Nat
    BY <1>1
  <2> HIDE DEF Fine
  <2>2. Cardinality(u) \in Bad
    BY <2>1
  <2> HIDE DEF Bad
  <2> QED
    BY <1>2, <1>4, <1>5, <2>1, <2>2
<1>6. ASSUME NEW u \in SUBSET S, NEW h \in u
      PROVE  /\ u \ {h} \in SUBSET S /\ Cardinality(u \ {h}) \in Nat
             /\ Cardinality(u \ {h}) = Cardinality(u) - 1
             /\ Cardinality(u) \in Nat
  <2>1. u \ {h} \in SUBSET S
    OBVIOUS
  <2> QED
    BY <1>1, <2>1, FS_RemoveElement
<1>7. t # {}
  <2> SUFFICES ASSUME t = {} PROVE Fine(t)
    BY <1>3
  <2>1. f[t] = 0
    BY Zenon DEF Adder, Adds
  <2> QED
    BY <2>1
<1>8. PICK y \in t : y = Any(t)
  BY <1>7 DEF Any
<1>9. PICK u : u = t \ {y}
  OBVIOUS
<1>10. u \in SUBSET S /\ Cardinality(u) < n
  BY <1>3, <1>4, <1>6, <1>8, <1>9
<1>11. Fine(u)
  BY <1>5, <1>10
<1>12. f[t] = SizeOf(c, y) + f[u] /\ f[u] \in Nat /\ SizeOf(c, y) \in Nat
  BY <1>7, <1>8, <1>9, <1>11 DEF Adder, Adds
<1>13. ASSUME NEW h \in t, h # y
      PROVE  f[t] = SizeOf(c, h) + f[t \ {h}]
  <2>1. h \in u /\ y \in t \ {h} /\ t \ {h} \in SUBSET S
    BY <1>9, <1>13
  <2>2. f[u] = SizeOf(c, h) + f[u \ {h}]
    BY <1>11, <2>1
  <2>3. Cardinality(t \ {h}) < n
    BY <1>3, <1>4, <1>6
  <2>4. Fine(t \ {h})
    BY <1>5, <2>1, <2>3
  <2>5. f[t \ {h}] = SizeOf(c, y) + f[(t \ {h}) \ {y}]
    BY <2>1, <2>4
  <2>6. PICK v : v = u \ {h}
    OBVIOUS
  <2>7. v = (t \ {h}) \ {y}
    BY <1>9, <2>6
  <2>8. v \in SUBSET S /\ Cardinality(v) < n
    BY <1>3, <1>4, <1>6, <1>10, <2>1, <2>6
  <2>9. Fine(v)
    BY <1>5, <2>8
  <2>10. SizeOf(c, h) \in Nat /\ f[v] \in Nat
    BY <2>9
  <2>11. f[u] = SizeOf(c, h) + f[v] /\ f[t \ {h}] = SizeOf(c, y) + f[v]
    BY <2>2, <2>5, <2>6, <2>7
  <2> QED
    BY <1>12, <2>10, <2>11
<1>14. Fine(t)
  <2>1. f[t] \in Nat
    BY <1>12
  <2>2. f[t] = SizeOf(c, y) + f[t \ {y}]
    BY <1>9, <1>12
  <2>3. \A h \in t : f[t] = SizeOf(c, h) + f[t \ {h}]
    BY <1>13, <2>2, Zenon
  <2> QED
    BY <2>1, <2>3
<1> QED
  BY <1>3, <1>14

LEMMA SumLess ==
    ASSUME NEW c, NEW S, IsFiniteSet(S), \A h \in S : SizeOf(c, h) \in Nat
    PROVE  /\ SumOf(c, S) \in Nat
           /\ \A h \in S : SumOf(c, S) = SizeOf(c, h) + SumOf(c, S \ {h})
<1>1. PICK f : SumOf(c, S) = f[S] /\ Adder(c, f, S)
  BY SumIs
<1>2. f[S] \in Nat /\ \A h \in S : f[S] = SizeOf(c, h) + f[S \ {h}]
  BY <1>1, SumsCount
<1>3. ASSUME NEW h \in S
      PROVE  SumOf(c, S \ {h}) = f[S \ {h}]
  <2>1. PICK u : u = S \ {h}
    OBVIOUS
  <2>2. IsFiniteSet(u)
    BY <2>1, FS_RemoveElement
  <2>3. PICK g : SumOf(c, u) = g[u] /\ Adder(c, g, u)
    BY <2>2, SumIs
  <2>4. Adder(c, f, u) /\ SameSizes(c, c, u)
    BY <1>1, <2>1 DEF Adder, SameSizes
  <2>5. f[u] = g[u]
    BY <2>2, <2>3, <2>4, SumsAgree
  <2> QED
    BY <2>1, <2>3, <2>5
<1> QED
  BY <1>1, <1>2, <1>3
-----------------------------------------------------------------------------
(* What a hook owes.                                                         *)

(* The hooks that have recorded bytes of k and are about to hand them over.  *)
Owing(r, k) == {h \in Hooks : At(h, "deliver") /\ call[h].tool # "bash"
                                 /\ call[h].root = r /\ ReadKey(h) = k}

Owed(r, k) == paid[r][k] + Pending(r, k)

(* What a hook of the set counts for, and one outside it does not.           *)
Share(c, h, S) == IF h \in S THEN SizeOf(c, h) ELSE 0

Answers(c, S) == \A g \in S : c[g] \in Calls
SameAnswers(c, d, S) == \A g \in S : d[g] = c[g]

LEMMA SizeIsNat ==
    ASSUME NEW c, NEW h, c[h] \in Calls
    PROVE  SizeOf(c, h) \in Nat
  BY HookStoresAssumption DEF SizeOf, Calls

(* The hooks of a set, but for one.                                          *)
LEMMA SumShare ==
    ASSUME NEW c, NEW S \in SUBSET Hooks, Answers(c, S), NEW h
    PROVE  /\ SumOf(c, S \ {h}) \in Nat /\ Share(c, h, S) \in Nat
           /\ SumOf(c, S) = Share(c, h, S) + SumOf(c, S \ {h})
<1>1. IsFiniteSet(S) /\ \A g \in S : SizeOf(c, g) \in Nat
  BY HooksAssumption, FS_Subset, SizeIsNat DEF Answers
<1>2. PICK T : T = S \ {h}
  OBVIOUS
<1>3. IsFiniteSet(T) /\ \A g \in T : SizeOf(c, g) \in Nat
  BY <1>1, <1>2, FS_RemoveElement
<1>4. SumOf(c, S) \in Nat /\ SumOf(c, T) \in Nat
  BY <1>1, <1>3, SumLess
<1>5. CASE h \in S
  BY <1>1, <1>2, <1>4, <1>5, SumLess DEF Share
<1>6. CASE h \notin S
  <2>1. S \ {h} = S /\ Share(c, h, S) = 0
    BY <1>6 DEF Share
  <2> QED
    BY <1>4, <2>1
<1> QED
  BY <1>5, <1>6

(* Two answers that differ in h's alone.                                     *)
LEMMA SharesDiffer ==
    ASSUME NEW c, NEW d, NEW S \in SUBSET Hooks, NEW T \in SUBSET Hooks, NEW h,
           Answers(c, S), Answers(d, T), S \ {h} = T \ {h}, SameAnswers(c, d, S \ {h})
    PROVE  \E n \in Nat : /\ SumOf(c, S) = Share(c, h, S) + n
                          /\ SumOf(d, T) = Share(d, h, T) + n
                          /\ Share(c, h, S) \in Nat /\ Share(d, h, T) \in Nat
<1>1. PICK U : U = S \ {h}
  OBVIOUS
<1>2. SumOf(c, U) = SumOf(d, U)
  <2>1. IsFiniteSet(U) /\ SameSizes(c, d, U)
    BY <1>1, HooksAssumption, FS_Subset DEF SameSizes, SizeOf, SameAnswers
  <2> QED
    BY <2>1, SumSame
<1>3. /\ SumOf(c, S \ {h}) \in Nat /\ Share(c, h, S) \in Nat
      /\ SumOf(c, S) = Share(c, h, S) + SumOf(c, S \ {h})
  BY SumShare
<1>4. Share(d, h, T) \in Nat /\ SumOf(d, T) = Share(d, h, T) + SumOf(d, T \ {h})
  BY SumShare
<1> QED
  BY <1>1, <1>2, <1>3, <1>4

LEMMA PendingIsSum ==
    ASSUME NEW r, NEW k
    PROVE  /\ Pending(r, k) = SumOf(call, Owing(r, k))
           /\ Pending(r, k)' = SumOf(call', Owing(r, k)')
<1>1. Pending(r, k) = SumOf(call, Owing(r, k))
  BY DEF Pending, SumOf, Owing
<1>2. (Pending(r, k) = SumOf(call, Owing(r, k)))'
  BY <1>1, PTL
<1> QED
  BY <1>1, <1>2

(* A step of h changes h's share and no other.                               *)
LEMMA PendingStep ==
    ASSUME StubInv, NEW h \in Hooks, Moves(h), NEW r, NEW k
    PROVE  \E n \in Nat :
              /\ Pending(r, k) = Share(call, h, Owing(r, k)) + n
              /\ Pending(r, k)' = Share(call', h, Owing(r, k)') + n
              /\ Share(call, h, Owing(r, k)) \in Nat
              /\ Share(call', h, Owing(r, k)') \in Nat
<1>1. PICK c, d, S, T : /\ c = call /\ d = call'
                        /\ S = Owing(r, k) /\ T = Owing(r, k)'
  OBVIOUS
<1>2. Pending(r, k) = SumOf(c, S) /\ Pending(r, k)' = SumOf(d, T)
  BY <1>1, PendingIsSum
<1>4. /\ S \in SUBSET Hooks /\ T \in SUBSET Hooks
      /\ Answers(c, S) /\ Answers(d, T)
  <2>1. ASSUME NEW g \in S PROVE c[g] \in Calls
    BY <1>1, <2>1, HookIs DEF Owing, At, HookAt
  <2>2. ASSUME NEW g \in T PROVE d[g] \in Calls
    <3>1. g \in Hooks /\ step'[g] = "deliver"
      BY <1>1, <2>2 DEF Owing, At
    <3>2. CASE g = h
      BY <1>1, <3>1, <3>2 DEF Moves, HookAt
    <3>3. CASE g # h
      BY <1>1, <3>1, <3>3, HookIs DEF Moves, HookAt
    <3> QED
      BY <3>2, <3>3
  <2> QED
    BY <1>1, <2>1, <2>2 DEF Owing, Answers
<1>5. S \ {h} = T \ {h} /\ SameAnswers(c, d, S \ {h})
  BY <1>1 DEF Owing, At, ReadKey, Moves, SameAnswers
<1>6. \E n \in Nat : /\ SumOf(c, S) = Share(c, h, S) + n
                     /\ SumOf(d, T) = Share(d, h, T) + n
                     /\ Share(c, h, S) \in Nat /\ Share(d, h, T) \in Nat
  BY <1>4, <1>5, SharesDiffer
<1> QED
  BY <1>1, <1>2, <1>6

-----------------------------------------------------------------------------
(* What the rows say was spent.                                              *)

(* The steps that make up a migration's column of counts.                    *)
Counting == {"add_bytes", "backfill"}

(* A store not yet scoped by agent holds the rows an older devscout wrote:   *)
(* each was delivered whole, once, and says so as soon as it has been        *)
(* backfilled.                                                               *)
LegacyCounted(r) ==
    /\ \A k \in DOMAIN reads[r] :
          /\ reads[r][k].text \in Texts
          /\ reads[r][k].size <= paid[r][k]
          /\ exact => reads[r][k].size = paid[r][k]
    /\ exact /\ "read_count" \in layout[r] =>
          \/ \E h \in Hooks : step[h] \in Counting /\ call[h].root = r
          \/ \A k \in DOMAIN reads[r] : reads[r][k].bytes = reads[r][k].size

(* Which columns a migration has added when it has come so far.              *)
Adding(h) ==
    /\ step[h] \in Migration \ {"open"} => "last_read_ts" \in layout[call[h].root]
    /\ step[h] \in {"add_bytes", "backfill", "scope", "rebuild"}
          => "read_count" \in layout[call[h].root]
    /\ step[h] \in {"add_count", "add_bytes", "backfill"}
          => "agent_id" \notin layout[call[h].root]

SpendInv ==
    /\ StubInv
    /\ calls \in 0 .. MaxCalls /\ inContext \subseteq ContentKeys
    /\ paid \in [Roots -> [ReadKeys -> Nat]] /\ exact \in BOOLEAN
    /\ \A h \in Hooks : Adding(h)
    /\ \A r \in Roots : IF "agent_id" \in layout[r] THEN layout[r] = LateColumns
                        ELSE LegacyCounted(r)
    /\ SpendMatchesDelivery

Bytes(t, k) == IF k \in DOMAIN t THEN t[k].bytes ELSE 0

(* SpendMatchesDelivery of one file.                                         *)
Balanced(r, k) ==
    /\ Bytes(reads[r], k) <= Owed(r, k)
    /\ exact /\ ("agent_id" \in layout[r] \/ k \notin DOMAIN reads[r])
          => Bytes(reads[r], k) = Owed(r, k)

LEMMA BytesAre ==
    ASSUME NEW t, IsReads(t), NEW k
    PROVE  Bytes(t, k) \in Nat
  BY DEF Bytes, IsReads, ReadRows

(* What is owed is a number.                                                 *)
LEMMA PendingIsNat ==
    ASSUME StubInv, NEW r, NEW k
    PROVE  Pending(r, k) \in Nat
<1>1. PICK c, S : c = call /\ S = Owing(r, k)
  OBVIOUS
<1>2. S \in SUBSET Hooks /\ \A g \in S : SizeOf(c, g) \in Nat
  BY <1>1, HookIs, SizeIsNat DEF Owing, At, HookAt
<1>3. IsFiniteSet(S)
  BY <1>2, HooksAssumption, FS_Subset
<1>4. SumOf(c, S) \in Nat
  BY <1>2, <1>3, SumLess
<1> QED
  BY <1>1, <1>4, PendingIsSum

LEMMA BalancedIs ==
    ASSUME StubInv, paid \in [Roots -> [ReadKeys -> Nat]]
    PROVE  SpendMatchesDelivery <=> \A r \in Roots : \A k \in ReadKeys : Balanced(r, k)
<1>1. ASSUME NEW r \in Roots, NEW k \in ReadKeys
      PROVE  Balanced(r, k) <=>
                IF k \notin DOMAIN reads[r] THEN exact => Owed(r, k) = 0
                ELSE /\ reads[r][k].bytes <= Owed(r, k)
                     /\ exact /\ "agent_id" \in layout[r]
                           => reads[r][k].bytes = Owed(r, k)
  <2>1. Owed(r, k) \in Nat
    BY PendingIsNat DEF Owed
  <2> QED
    BY <2>1 DEF Balanced, Bytes
<1> QED
  BY <1>1 DEF SpendMatchesDelivery, Owed

LEMMA BalancedNext ==
    ASSUME StubInv', paid' \in [Roots -> [ReadKeys -> Nat]],
           \A r \in Roots : \A k \in ReadKeys : Balanced(r, k)'
    PROVE  SpendMatchesDelivery'
<1>1. (StubInv /\ paid \in [Roots -> [ReadKeys -> Nat]]
        => (SpendMatchesDelivery <=> \A r \in Roots : \A k \in ReadKeys : Balanced(r, k)))'
  BY BalancedIs, PTL
<1> QED
  BY <1>1

(* What each statement adds to a row's bytes.                                *)
LEMMA BytesFresh ==
    ASSUME NEW t, IsReads(t), NEW k, NEW x \in Texts, NEW b \in BOOLEAN, NEW j
    PROVE  /\ DOMAIN t \subseteq DOMAIN RecordFresh(t, k, x, b)
           /\ Bytes(RecordFresh(t, k, x, b), j)
                 = Bytes(t, j) + (IF b /\ j = k THEN TextSize[x] ELSE 0)
<1> DEFINE old == IF k \in DOMAIN t THEN t[k] ELSE [count |-> 0, bytes |-> 0]
           spent == IF b THEN TextSize[x] ELSE 0
           row == [text |-> x, size |-> TextSize[x], stubs |-> 0,
                   count |-> old.count + 1, bytes |-> old.bytes + spent]
<1>1. old.bytes = Bytes(t, k) /\ row.bytes = old.bytes + spent
  BY DEF Bytes
<1>2. RecordFresh(t, k, x, b) = Upsert(t, k, row)
  BY DEF RecordFresh
<1>3. spent = IF b THEN TextSize[x] ELSE 0
  OBVIOUS
<1> HIDE DEF row, old, spent
<1> DEFINE u == Upsert(t, k, row)
<1>4. /\ DOMAIN u = DOMAIN t \cup {k} /\ u[k] = row
      /\ \A i \in DOMAIN t \ {k} : u[i] = t[i]
  BY DEF Upsert
<1> HIDE DEF u
<1>5. RecordFresh(t, k, x, b) = u
  BY <1>2 DEF u
<1>6. Bytes(u, k) = Bytes(t, k) + spent
  BY <1>1, <1>4 DEF Bytes
<1>7. j # k => Bytes(u, j) = Bytes(t, j)
  BY <1>4 DEF Bytes
<1>8. Bytes(t, j) \in Nat /\ TextSize[x] \in Nat
  BY BytesAre, HookStoresAssumption
<1> QED
  BY <1>3, <1>4, <1>5, <1>6, <1>7, <1>8

LEMMA BytesSpend ==
    ASSUME NEW t, IsReads(t), NEW k, NEW n \in Nat, NEW j
    PROVE  /\ DOMAIN t \subseteq DOMAIN RecordSpend(t, k, n)
           /\ Bytes(RecordSpend(t, k, n), j) = Bytes(t, j) + (IF j = k THEN n ELSE 0)
<1>1. Bytes(t, j) \in Nat
  BY BytesAre
<1>2. CASE k \in DOMAIN t
  <2>1. RecordSpend(t, k, n) = [t EXCEPT ![k].count = @ + 1, ![k].bytes = @ + n]
    BY <1>2 DEF RecordSpend
  <2>2. t[k] \in ReadRows
    BY <1>2 DEF IsReads
  <2>3. PICK u : u = RecordSpend(t, k, n)
    OBVIOUS
  <2>4. DOMAIN u = DOMAIN t /\ u[k].bytes = t[k].bytes + n /\ \A i \in DOMAIN t \ {k} : u[i] = t[i]
    BY <1>2, <2>1, <2>2, <2>3 DEF ReadRows
  <2> QED
    BY <1>1, <1>2, <2>3, <2>4 DEF Bytes
<1>3. CASE k \notin DOMAIN t
  <2> DEFINE row == [text |-> NoText, size |-> 0, stubs |-> 0, count |-> 1, bytes |-> n]
  <2>1. row.bytes = n
    OBVIOUS
  <2>2. RecordSpend(t, k, n) = Upsert(t, k, row)
    BY <1>3 DEF RecordSpend
  <2> HIDE DEF row
  <2> DEFINE u == Upsert(t, k, row)
  <2>3. /\ DOMAIN u = DOMAIN t \cup {k} /\ u[k] = row
        /\ \A i \in DOMAIN t \ {k} : u[i] = t[i]
    BY DEF Upsert
  <2> HIDE DEF u
  <2>4. RecordSpend(t, k, n) = u
    BY <2>2 DEF u
  <2> QED
    BY <1>1, <1>3, <2>1, <2>3, <2>4 DEF Bytes
<1> QED
  BY <1>2, <1>3

LEMMA BytesBump ==
    ASSUME NEW t, IsReads(t), NEW k, NEW j
    PROVE  /\ DOMAIN t \subseteq DOMAIN BumpStub(t, k)
           /\ Bytes(BumpStub(t, k), j) = Bytes(t, j)
<1>1. CASE k \in DOMAIN t
  <2>1. BumpStub(t, k) = [t EXCEPT ![k].stubs = @ + 1, ![k].count = @ + 1]
    BY <1>1 DEF BumpStub
  <2>2. t[k] \in ReadRows
    BY <1>1 DEF IsReads
  <2>3. PICK u : u = BumpStub(t, k)
    OBVIOUS
  <2>4. DOMAIN u = DOMAIN t /\ \A i \in DOMAIN t : u[i].bytes = t[i].bytes
    BY <1>1, <2>1, <2>2, <2>3 DEF ReadRows
  <2> QED
    BY <2>3, <2>4 DEF Bytes
<1>2. CASE k \notin DOMAIN t
  BY <1>2 DEF BumpStub
<1> QED
  BY <1>1, <1>2

(* What h records or hands over is of this file.                             *)
Mine(h, r, k) == call[h].tool # "bash" /\ call[h].root = r /\ ReadKey(h) = k
Amount(h, r, k) == IF Mine(h, r, k) THEN TextSize[call[h].text] ELSE 0

LEMMA AmountIs ==
    ASSUME NEW h \in Hooks, NEW r, NEW k
    PROVE  /\ Share(call, h, Owing(r, k)) = IF step[h] = "deliver" THEN Amount(h, r, k) ELSE 0
           /\ Share(call', h, Owing(r, k)')
                 = IF step'[h] = "deliver" THEN Amount(h, r, k)' ELSE 0
           /\ call'[h] = call[h] => Amount(h, r, k)' = Amount(h, r, k)
           /\ call'[h].tool = "bash" => Amount(h, r, k)' = 0
           /\ call[h] \in Calls => Amount(h, r, k) \in Nat
<1>1. h \in Owing(r, k) <=> step[h] = "deliver" /\ Mine(h, r, k)
  BY DEF Owing, At, Mine
<1>2. h \in Owing(r, k)' <=> step'[h] = "deliver" /\ Mine(h, r, k)'
  BY DEF Owing, At, Mine
<1>3. Share(call, h, Owing(r, k)) = IF step[h] = "deliver" THEN Amount(h, r, k) ELSE 0
  BY <1>1 DEF Share, SizeOf, Amount
<1>4. Share(call', h, Owing(r, k)')
         = IF step'[h] = "deliver" THEN Amount(h, r, k)' ELSE 0
  BY <1>2 DEF Share, SizeOf, Amount
<1>5. call'[h] = call[h] => Amount(h, r, k)' = Amount(h, r, k)
  BY DEF Amount, Mine, ReadKey
<1>6. call'[h].tool = "bash" => Amount(h, r, k)' = 0
  BY DEF Amount, Mine
<1>7. call[h] \in Calls => Amount(h, r, k) \in Nat
  BY HookStoresAssumption DEF Amount, Calls
<1> QED
  BY <1>3, <1>4, <1>5, <1>6, <1>7

(* What is owed, before and after a step of h.                               *)
LEMMA OwedStep ==
    ASSUME SpendInv, NEW h \in Hooks, Moves(h), NEW r \in Roots, NEW k \in ReadKeys,
           paid' \in [Roots -> [ReadKeys -> Nat]]
    PROVE  \E n \in Nat :
              /\ Owed(r, k) = paid[r][k]
                                + (IF step[h] = "deliver" THEN Amount(h, r, k) ELSE 0) + n
              /\ Owed(r, k)' = paid'[r][k]
                                + (IF step'[h] = "deliver" THEN Amount(h, r, k)' ELSE 0) + n
              /\ paid[r][k] \in Nat /\ paid'[r][k] \in Nat
              /\ step[h] # "idle" => Amount(h, r, k) \in Nat
              /\ call'[h] = call[h] => Amount(h, r, k)' = Amount(h, r, k)
              /\ call'[h].tool = "bash" => Amount(h, r, k)' = 0
              /\ step'[h] = "deliver" => Amount(h, r, k)' \in Nat
<1>1. StubInv /\ paid[r][k] \in Nat /\ (step[h] # "idle" => call[h] \in Calls)
  BY HookIs DEF SpendInv, HookAt
<1>2. PICK n \in Nat :
         /\ Pending(r, k) = Share(call, h, Owing(r, k)) + n
         /\ Pending(r, k)' = Share(call', h, Owing(r, k)') + n
         /\ Share(call, h, Owing(r, k)) \in Nat
         /\ Share(call', h, Owing(r, k)') \in Nat
  BY <1>1, PendingStep
<1>3. PICK p, q, s, t : /\ p = Pending(r, k) /\ q = Pending(r, k)'
                        /\ s = Share(call, h, Owing(r, k)) /\ t = Share(call', h, Owing(r, k)')
  OBVIOUS
<1>4. /\ s = IF step[h] = "deliver" THEN Amount(h, r, k) ELSE 0
      /\ t = IF step'[h] = "deliver" THEN Amount(h, r, k)' ELSE 0
      /\ p = s + n /\ q = t + n /\ s \in Nat /\ t \in Nat
  BY <1>2, <1>3, AmountIs
<1>5. Owed(r, k) = paid[r][k] + p /\ Owed(r, k)' = paid'[r][k] + q
  BY <1>3 DEF Owed
<1>6. /\ step[h] # "idle" => Amount(h, r, k) \in Nat
      /\ call'[h] = call[h] => Amount(h, r, k)' = Amount(h, r, k)
      /\ call'[h].tool = "bash" => Amount(h, r, k)' = 0
      /\ step'[h] = "deliver" => Amount(h, r, k)' \in Nat
  BY <1>1, <1>4, AmountIs
<1>7. paid[r][k] + p = paid[r][k] + s + n
  BY <1>1, <1>4
<1>8. paid'[r][k] + q = paid'[r][k] + t + n /\ paid'[r][k] \in Nat
  BY <1>4
<1> QED
  BY <1>1, <1>4, <1>5, <1>6, <1>7, <1>8

(* A step that records and hands over nothing leaves every account as it is. *)
LEMMA OwedStays ==
    ASSUME SpendInv, NEW h \in Hooks, Moves(h), NEW r \in Roots, NEW k \in ReadKeys,
           paid' = paid, step[h] # "deliver",
           step'[h] = "deliver" => call'[h].tool = "bash"
    PROVE  Owed(r, k)' = Owed(r, k)
<1>1. paid' \in [Roots -> [ReadKeys -> Nat]]
  BY DEF SpendInv
<1> QED
  BY <1>1, OwedStep

(* Bytes recorded are owed from then on ...                                  *)
LEMMA OwedRecorded ==
    ASSUME SpendInv, NEW h \in Hooks, Moves(h), NEW r \in Roots, NEW k \in ReadKeys,
           paid' = paid, step[h] \notin {"idle", "deliver"}, step'[h] = "deliver",
           call'[h] = call[h]
    PROVE  /\ Owed(r, k)' = Owed(r, k) + Amount(h, r, k)
           /\ Owed(r, k) \in Nat /\ Amount(h, r, k) \in Nat
<1>1. paid' \in [Roots -> [ReadKeys -> Nat]]
  BY DEF SpendInv
<1> QED
  BY <1>1, OwedStep

LEMMA PassThroughPays ==
    ASSUME SpendInv, NEW h \in Hooks, step[h] # "idle", PassThrough(h)
    PROVE  /\ paid' \in [Roots -> [ReadKeys -> Nat]] /\ step'[h] = "idle"
           /\ \A r \in Roots : \A k \in ReadKeys :
                 paid'[r][k] = paid[r][k] + Amount(h, r, k) /\ Amount(h, r, k) \in Nat
<1>1. /\ call[h] \in Calls /\ call[h].root \in Roots
      /\ call[h].tool # "bash" => ReadKey(h) \in ReadKeys
      /\ TextSize[call[h].text] \in Nat
  BY HookIs, CallIs, HookStoresAssumption DEF SpendInv, HookAt
<1>2. step'[h] = "idle"
  BY HookIs DEF SpendInv, PassThrough
<1>3. paid \in [Roots -> [ReadKeys -> Nat]]
  BY DEF SpendInv
<1>4. CASE call[h].tool = "bash"
  BY <1>2, <1>3, <1>4 DEF PassThrough, Amount, Mine
<1>5. CASE call[h].tool # "bash"
  <2>1. paid' = [paid EXCEPT ![call[h].root][ReadKey(h)] = @ + TextSize[call[h].text]]
    BY <1>5 DEF PassThrough
  <2>2. paid' \in [Roots -> [ReadKeys -> Nat]]
    BY <1>1, <1>3, <1>5, <2>1
  <2>3. ASSUME NEW r \in Roots, NEW k \in ReadKeys
        PROVE  paid'[r][k] = paid[r][k] + Amount(h, r, k) /\ Amount(h, r, k) \in Nat
    <3>1. paid[r][k] \in Nat
      BY <1>3
    <3>2. CASE Mine(h, r, k)
      BY <1>1, <1>3, <2>1, <3>2 DEF Amount, Mine
    <3>3. CASE ~Mine(h, r, k)
      BY <1>1, <1>3, <1>5, <2>1, <3>1, <3>3 DEF Amount, Mine
    <3> QED
      BY <3>2, <3>3
  <2> QED
    BY <1>2, <2>2, <2>3
<1> QED
  BY <1>4, <1>5

(* ... until the output reaches the model; one that was not recorded counts  *)
(* on top.                                                                   *)
LEMMA OwedPaid ==
    ASSUME SpendInv, NEW h \in Hooks, Moves(h), step[h] # "idle", PassThrough(h),
           NEW r \in Roots, NEW k \in ReadKeys
    PROVE  \E lost \in Nat : /\ Owed(r, k)' = Owed(r, k) + lost
                             /\ step[h] = "deliver" => lost = 0
<1>1. /\ paid' \in [Roots -> [ReadKeys -> Nat]] /\ step'[h] = "idle"
      /\ paid'[r][k] = paid[r][k] + Amount(h, r, k) /\ Amount(h, r, k) \in Nat
  BY PassThroughPays
<1>2. PICK n \in Nat :
        /\ Owed(r, k) = paid[r][k] + (IF step[h] = "deliver" THEN Amount(h, r, k) ELSE 0) + n
        /\ Owed(r, k)' = paid'[r][k] + (IF step'[h] = "deliver" THEN Amount(h, r, k)' ELSE 0) + n
        /\ paid[r][k] \in Nat
  BY <1>1, OwedStep
<1> DEFINE lost == IF step[h] = "deliver" THEN 0 ELSE Amount(h, r, k)
<1>3. lost \in Nat /\ Owed(r, k)' = Owed(r, k) + lost
  BY <1>1, <1>2
<1> QED
  BY <1>3

(* How a step of h keeps the books: a row's bytes grow by what it records,   *)
(* what is owed grows by that and by what is handed over unrecorded, and     *)
(* nothing is recorded in a store not yet scoped.                            *)
Books(h) ==
    /\ paid' \in [Roots -> [ReadKeys -> Nat]]
    /\ exact' \in BOOLEAN /\ (exact' => exact)
    /\ \A r \in Roots : \A k \in ReadKeys :
          /\ k \in DOMAIN reads[r] => k \in DOMAIN reads'[r]
          /\ \E inc, lost \in Nat :
                /\ Bytes(reads'[r], k) = Bytes(reads[r], k) + inc
                /\ Owed(r, k)' = Owed(r, k) + inc + lost
                /\ exact' => lost = 0
    /\ \A r \in Roots : "agent_id" \notin layout[r] =>
          /\ reads'[r] = reads[r]
          /\ \A k \in ReadKeys : /\ paid[r][k] <= paid'[r][k]
                                 /\ exact' => paid'[r][k] = paid[r][k]

LEMMA AccountsAre ==
    ASSUME SpendInv
    PROVE  /\ paid \in [Roots -> [ReadKeys -> Nat]] /\ exact \in BOOLEAN /\ StubInv
           /\ DOMAIN reads = Roots
           /\ \A r \in Roots : \A k \in ReadKeys :
                Bytes(reads[r], k) \in Nat /\ Owed(r, k) \in Nat
<1>1. paid \in [Roots -> [ReadKeys -> Nat]] /\ exact \in BOOLEAN /\ StubInv
  BY DEF SpendInv
<1>2. ASSUME NEW r \in Roots, NEW k \in ReadKeys
      PROVE  Bytes(reads[r], k) \in Nat /\ Owed(r, k) \in Nat
  <2>1. PICK t : t = reads[r]
    OBVIOUS
  <2>2. IsReads(t)
    BY <1>1, <2>1, TablesAre
  <2>3. Bytes(t, k) \in Nat
    BY <2>2, BytesAre
  <2>4. Pending(r, k) \in Nat
    BY <1>1, PendingIsNat
  <2> QED
    BY <1>1, <2>1, <2>3, <2>4 DEF Owed
<1> QED
  BY <1>1, <1>2 DEF StubInv

(* A statement that changes no row of reads.                                 *)
LEMMA QuietBooks ==
    ASSUME SpendInv, NEW h \in Hooks, Moves(h), reads' = reads, paid' = paid, exact' = exact,
           step[h] # "deliver", step'[h] = "deliver" => call'[h].tool = "bash"
    PROVE  Books(h)
<1>1. ASSUME NEW r \in Roots, NEW k \in ReadKeys
      PROVE  \E inc, lost \in Nat :
                /\ Bytes(reads'[r], k) = Bytes(reads[r], k) + inc
                /\ Owed(r, k)' = Owed(r, k) + inc + lost
                /\ exact' => lost = 0
  <2>1. Owed(r, k)' = Owed(r, k)
    BY OwedStays
  <2>2. Bytes(reads'[r], k) = Bytes(reads[r], k)
    OBVIOUS
  <2>3. Bytes(reads[r], k) \in Nat /\ Owed(r, k) \in Nat /\ 0 \in Nat
    BY AccountsAre
  <2>4. /\ Bytes(reads'[r], k) = Bytes(reads[r], k) + 0
        /\ Owed(r, k)' = Owed(r, k) + 0 + 0
    BY <2>1, <2>2, <2>3
  <2> QED
    BY <2>3, <2>4
<1>2. paid \in [Roots -> [ReadKeys -> Nat]] /\ exact \in BOOLEAN
  BY DEF SpendInv
<1> QED
  BY <1>1, <1>2 DEF Books

(* A statement that writes the row of its file, and whose hook goes on to    *)
(* deliver exactly if it records bytes.                                      *)
LEMMA WriteBooks ==
    ASSUME SpendInv, NEW h \in Hooks, Moves(h), step[h] \notin {"idle", "deliver"},
           "agent_id" \in layout[call[h].root], paid' = paid, exact' = exact,
           NEW u, reads' = [reads EXCEPT ![call[h].root] = u],
           DOMAIN reads[call[h].root] \subseteq DOMAIN u,
           NEW b \in BOOLEAN,
           IF b THEN step'[h] = "deliver" /\ call'[h] = call[h] /\ call[h].tool # "bash"
           ELSE step'[h] # "deliver",
           \A k \in ReadKeys : Bytes(u, k) = Bytes(reads[call[h].root], k)
                                  + (IF b /\ k = ReadKey(h) THEN TextSize[call[h].text] ELSE 0)
    PROVE  Books(h)
<1>1. call[h] \in Calls /\ call[h].root \in Roots /\ TextSize[call[h].text] \in Nat
  BY HookIs, CallIs, HookStoresAssumption DEF SpendInv, HookAt
<1>2. \A r \in Roots : reads'[r] = IF r = call[h].root THEN u ELSE reads[r]
  BY AccountsAre
<1>3. ASSUME NEW r \in Roots, NEW k \in ReadKeys
      PROVE  \E inc, lost \in Nat :
                /\ Bytes(reads'[r], k) = Bytes(reads[r], k) + inc
                /\ Owed(r, k)' = Owed(r, k) + inc + lost
                /\ exact' => lost = 0
  <2>1. Bytes(reads[r], k) \in Nat /\ Owed(r, k) \in Nat /\ 0 \in Nat
    BY AccountsAre
  <2>2. CASE b
    <3>1. Owed(r, k)' = Owed(r, k) + Amount(h, r, k) /\ Amount(h, r, k) \in Nat
      BY <2>2, OwedRecorded
    <3>2. Bytes(reads'[r], k) = Bytes(reads[r], k) + Amount(h, r, k)
      <4>1. CASE r = call[h].root
        BY <1>2, <2>2, <4>1 DEF Amount, Mine
      <4>2. CASE r # call[h].root
        BY <1>2, <2>1, <4>2 DEF Amount, Mine
      <4> QED
        BY <4>1, <4>2
    <3>3. Owed(r, k)' = Owed(r, k) + Amount(h, r, k) + 0
      BY <2>1, <3>1
    <3> QED
      BY <2>1, <3>1, <3>2, <3>3
  <2>3. CASE ~b
    <3>1. Owed(r, k)' = Owed(r, k)
      BY <2>3, OwedStays
    <3>2. Bytes(reads'[r], k) = Bytes(reads[r], k)
      BY <1>2, <2>1, <2>3
    <3> QED
      BY <2>1, <3>1, <3>2
  <2> QED
    BY <2>2, <2>3
<1>4. \A r \in Roots : \A k \in ReadKeys : k \in DOMAIN reads[r] => k \in DOMAIN reads'[r]
  BY <1>2
<1>5. \A r \in Roots : "agent_id" \notin layout[r] => reads'[r] = reads[r]
  BY <1>2
<1>6. paid \in [Roots -> [ReadKeys -> Nat]] /\ exact \in BOOLEAN
  BY DEF SpendInv
<1> QED
  BY <1>3, <1>4, <1>5, <1>6 DEF Books

(* A hook that lets its output through: recorded before, or no longer exact. *)
LEMMA PassBooks ==
    ASSUME SpendInv, NEW h \in Hooks, Moves(h), step[h] # "idle", PassThrough(h),
           reads' = reads, exact' = (exact /\ step[h] = "deliver")
    PROVE  Books(h)
<1>1. ASSUME NEW r \in Roots, NEW k \in ReadKeys
      PROVE  \E inc, lost \in Nat :
                /\ Bytes(reads'[r], k) = Bytes(reads[r], k) + inc
                /\ Owed(r, k)' = Owed(r, k) + inc + lost
                /\ exact' => lost = 0
  <2>1. PICK lost \in Nat : /\ Owed(r, k)' = Owed(r, k) + lost
                            /\ step[h] = "deliver" => lost = 0
    BY OwedPaid
  <2>2. Bytes(reads[r], k) \in Nat /\ Owed(r, k) \in Nat /\ 0 \in Nat
    BY AccountsAre
  <2>3. /\ Bytes(reads'[r], k) = Bytes(reads[r], k) + 0
        /\ Owed(r, k)' = Owed(r, k) + 0 + lost
    BY <2>1, <2>2
  <2> QED
    BY <2>1, <2>2, <2>3
<1>2. /\ paid' \in [Roots -> [ReadKeys -> Nat]]
      /\ \A r \in Roots : \A k \in ReadKeys :
            paid'[r][k] = paid[r][k] + Amount(h, r, k) /\ Amount(h, r, k) \in Nat
  BY PassThroughPays
<1>3. paid \in [Roots -> [ReadKeys -> Nat]] /\ exact \in BOOLEAN
  BY DEF SpendInv
<1>4. ASSUME NEW r \in Roots, "agent_id" \notin layout[r], NEW k \in ReadKeys
      PROVE  paid[r][k] <= paid'[r][k] /\ (exact' => paid'[r][k] = paid[r][k])
  <2>1. paid[r][k] <= paid'[r][k]
    BY <1>2, <1>3
  <2>2. ASSUME exact' PROVE paid'[r][k] = paid[r][k]
    <3>1. step[h] = "deliver"
      BY <2>2
    <3>2. "agent_id" \in layout[call[h].root]
      BY <3>1, HookIs DEF SpendInv, HookAt, Opening, Migration
    <3>3. Amount(h, r, k) = 0
      BY <1>4, <3>2 DEF Amount, Mine
    <3> QED
      BY <1>2, <1>3, <3>3
  <2> QED
    BY <2>1, <2>2
<1> QED
  BY <1>1, <1>2, <1>3, <1>4 DEF Books

LEMMA ActsMove ==
    ASSUME StubInv, "rival-migration" \notin World, NEW h \in Hooks, HookActs(h)
    PROVE  Moves(h) /\ Columns(h)
<1>1. CASE \E c \in Calls : Start(h, c)
  BY <1>1, StartMoves
<1>2. CASE \/ OpenCurrent(h) \/ OpenOld(h) \/ SkipBackfill(h) \/ AddCount(h)
           \/ AddBytes(h) \/ Backfill(h) \/ CheckScope(h) \/ Rebuild(h)
  BY <1>2, OpeningMoves
<1>3. CASE \/ Spend(h) \/ LookupRead(h) \/ LookupContent(h) \/ BumpContent(h)
           \/ RecordNewContent(h) \/ Record(h) \/ LookupBash(h) \/ RecordBash(h)
           \/ Bump(h) \/ RecordStubbed(h) \/ BumpBash(h) \/ BusyContent(h)
  BY <1>3, StatementMoves
<1>4. CASE Endings(h)
  BY <1>4, EndingMoves
<1> QED
  BY <1>1, <1>2, <1>3, <1>4 DEF HookActs, Endings

(* Every step but those that rewrite the whole table keeps the books.        *)
LEMMA ActsKeepBooks ==
    ASSUME SpendInv, "rival-migration" \notin World, NEW h \in Hooks, HookActs(h),
           ~Backfill(h), ~Rebuild(h)
    PROVE  Books(h)
<1> DEFINE r == call[h].root
           x == call[h].text
<1>1. StubInv /\ Moves(h) /\ step \in [Hooks -> Steps]
  BY ActsMove, HookIs DEF SpendInv
<1>2. CASE \/ \E c \in Calls : Start(h, c)
           \/ OpenCurrent(h) \/ OpenOld(h) \/ SkipBackfill(h) \/ AddCount(h)
           \/ AddBytes(h) \/ CheckScope(h)
  <2>1. reads' = reads /\ paid' = paid /\ exact' = exact
    BY <1>2 DEF Start, OpenCurrent, OpenOld, SkipBackfill, AddCount, AddBytes, CheckScope,
           AddColumn, Bystanders, storeVars
  <2>2. step[h] \in Opening
    BY <1>2 DEF Start, OpenCurrent, OpenOld, SkipBackfill, AddCount, AddBytes, CheckScope,
           At, Opening, Migration
  <2>3. step'[h] # "deliver"
    <3>1. CASE \E c \in Calls : Start(h, c)
      BY <1>1, <3>1 DEF Start, Goto
    <3>2. CASE OpenOld(h) \/ SkipBackfill(h) \/ AddCount(h) \/ AddBytes(h)
      BY <1>1, <3>2 DEF OpenOld, SkipBackfill, AddCount, AddBytes, AddColumn, Goto
    <3>3. CASE OpenCurrent(h) \/ CheckScope(h)
      <4>1. step'[h] \in {Opened(h), "rebuild"}
        BY <1>1, <3>3 DEF OpenCurrent, CheckScope, Goto
      <4>2. call[h].tool \in {"read", "slice", "bash"}
        BY <1>1, <3>3, HookIs, CallIs DEF HookAt, OpenCurrent, CheckScope, At
      <4> QED
        BY <4>1, <4>2 DEF Opened
    <3> QED
      BY <1>2, <3>1, <3>2, <3>3
  <2>4. step[h] # "deliver"
    BY <2>2 DEF Opening, Migration
  <2> QED
    BY <1>1, <2>1, <2>3, <2>4, QuietBooks
<1>3. CASE \/ LookupRead(h) \/ LookupContent(h) \/ BumpContent(h) \/ RecordNewContent(h)
           \/ LookupBash(h) \/ BusyContent(h)
  <2>1. reads' = reads /\ paid' = paid /\ exact' = exact
    BY <1>3 DEF LookupRead, LookupContent, BumpContent, RecordNewContent, LookupBash,
           BusyContent, Bystanders, storeVars
  <2>2. step[h] # "deliver"
    BY <1>3 DEF LookupRead, LookupContent, BumpContent, RecordNewContent, LookupBash,
           BusyContent, At
  <2>3. step'[h] # "deliver"
    BY <1>1, <1>3 DEF LookupRead, LookupContent, BumpContent, RecordNewContent, LookupBash,
           BusyContent, Goto
  <2> QED
    BY <1>1, <2>1, <2>2, <2>3, QuietBooks
<1>4. CASE RecordBash(h)
  <2>1. /\ reads' = reads /\ paid' = paid /\ exact' = exact /\ call' = call
        /\ step[h] = "record_bash"
    BY <1>4 DEF RecordBash, Bystanders, At
  <2>2. call[h].tool = "bash"
    BY <1>1, <2>1, HookIs DEF HookAt, BashSteps
  <2> QED
    BY <1>1, <2>1, <2>2, QuietBooks
<1>5. CASE BumpBash(h)
  <2>1. /\ reads' = reads /\ paid' = paid /\ exact' = exact /\ step[h] = "bump_bash"
        /\ step'[h] = "stub"
    BY <1>1, <1>5 DEF BumpBash, Goto, Bystanders, At
  <2> QED
    BY <1>1, <2>1, QuietBooks
<1>6. CASE Spend(h) \/ Record(h) \/ RecordStubbed(h) \/ Bump(h)
  <2>1. /\ step[h] \in {"spend", "record", "record_stubbed", "bump"}
        /\ paid' = paid /\ exact' = exact
    BY <1>6 DEF Spend, Record, RecordStubbed, Bump, Bystanders, At
  <2>2. /\ call[h] \in Calls /\ r \in Roots /\ x \in Texts /\ TextSize[x] \in Nat
        /\ call[h].tool # "bash" /\ "agent_id" \in layout[r] /\ ReadKey(h) \in ReadKeys
    BY <1>1, <2>1, HookIs, CallIs, HookStoresAssumption
       DEF HookAt, Opening, Migration, ReadSteps
  <2>3. PICK t, k, n, y : t = reads[r] /\ k = ReadKey(h) /\ n = TextSize[x] /\ y = x
    OBVIOUS
  <2>4. IsReads(t) /\ n \in Nat
    BY <1>1, <2>2, <2>3, TablesAre
  <2>5. CASE Spend(h)
    <3>1. PICK u : u = RecordSpend(t, k, n)
      OBVIOUS
    <3>2. reads' = [reads EXCEPT ![r] = u] /\ step'[h] = "deliver" /\ call' = call
      BY <1>1, <2>3, <2>5, <3>1 DEF Spend, Goto, Bystanders
    <3>3. DOMAIN t \subseteq DOMAIN u /\ \A j \in ReadKeys :
             Bytes(u, j) = Bytes(t, j) + (IF j = k THEN n ELSE 0)
      BY <2>4, <3>1, BytesSpend
    <3>4. \A j \in ReadKeys :
             Bytes(u, j) = Bytes(reads[r], j) + (IF TRUE /\ j = ReadKey(h) THEN TextSize[x] ELSE 0)
      BY <2>3, <3>3
    <3> QED
      BY <1>1, <2>1, <2>2, <2>3, <3>2, <3>3, <3>4, WriteBooks
  <2>6. CASE Record(h)
    <3>1. PICK b \in BOOLEAN : b = TRUE
      OBVIOUS
    <3>2. PICK u : u = RecordFresh(t, k, y, b)
      OBVIOUS
    <3>3. reads' = [reads EXCEPT ![r] = u] /\ step'[h] = "deliver" /\ call' = call
      BY <1>1, <2>3, <2>6, <3>1, <3>2 DEF Record, Goto, Bystanders
    <3>4. y \in Texts
      BY <2>2, <2>3
    <3>5. DOMAIN t \subseteq DOMAIN u /\ \A j \in ReadKeys :
             Bytes(u, j) = Bytes(t, j) + (IF b /\ j = k THEN TextSize[y] ELSE 0)
      BY <2>4, <3>2, <3>4, BytesFresh
    <3>6. \A j \in ReadKeys :
             Bytes(u, j) = Bytes(reads[r], j) + (IF TRUE /\ j = ReadKey(h) THEN TextSize[x] ELSE 0)
      BY <2>3, <3>1, <3>5
    <3> QED
      BY <1>1, <2>1, <2>2, <2>3, <3>3, <3>5, <3>6, WriteBooks
  <2>7. CASE RecordStubbed(h)
    <3>1. PICK b \in BOOLEAN : b = FALSE
      OBVIOUS
    <3>2. PICK u : u = RecordFresh(t, k, y, b)
      OBVIOUS
    <3>3. reads' = [reads EXCEPT ![r] = u] /\ step'[h] = "stub"
      BY <1>1, <2>3, <2>7, <3>1, <3>2 DEF RecordStubbed, Goto
    <3>4. y \in Texts
      BY <2>2, <2>3
    <3>5. DOMAIN t \subseteq DOMAIN u /\ \A j \in ReadKeys :
             Bytes(u, j) = Bytes(t, j) + (IF b /\ j = k THEN TextSize[y] ELSE 0)
      BY <2>4, <3>2, <3>4, BytesFresh
    <3>6. \A j \in ReadKeys :
             Bytes(u, j) = Bytes(reads[r], j) + (IF FALSE /\ j = ReadKey(h) THEN TextSize[x] ELSE 0)
      BY <2>3, <3>1, <3>5
    <3> QED
      BY <1>1, <2>1, <2>2, <2>3, <3>3, <3>5, <3>6, WriteBooks
  <2>8. CASE Bump(h)
    <3>1. PICK u : u = BumpStub(t, k)
      OBVIOUS
    <3>2. reads' = [reads EXCEPT ![r] = u] /\ step'[h] = "stub"
      BY <1>1, <2>3, <2>8, <3>1 DEF Bump, Goto
    <3>3. DOMAIN t \subseteq DOMAIN u /\ \A j \in ReadKeys :
             Bytes(u, j) = Bytes(t, j) /\ Bytes(t, j) \in Nat
      BY <2>4, <3>1, BytesBump, BytesAre
    <3>4. \A j \in ReadKeys :
             Bytes(u, j) = Bytes(reads[r], j) + (IF FALSE /\ j = ReadKey(h) THEN TextSize[x] ELSE 0)
      BY <2>3, <3>3
    <3> QED
      BY <1>1, <2>1, <2>2, <2>3, <3>2, <3>3, <3>4, WriteBooks
  <2> QED
    BY <1>6, <2>5, <2>6, <2>7, <2>8
<1>7. CASE Deliver(h)
  BY <1>1, <1>7, PassBooks, AccountsAre DEF Deliver, At, storeVars
<1>8. CASE Killed(h) \/ Refused(h) \/ BusyStore(h)
  <2>1. FailOpen(h) /\ step[h] # "idle"
    BY <1>8 DEF Killed, Refused, BusyStore, At, Writes
  <2> QED
    BY <1>1, <2>1, PassBooks DEF FailOpen, At, storeVars
<1>9. CASE PrintStub(h)
  BY <1>1, <1>9, QuietBooks DEF PrintStub, At, storeVars
<1> QED
  BY <1>2, <1>3, <1>4, <1>5, <1>6, <1>7, <1>8, <1>9 DEF HookActs

(* What a step other than the rebuild adds to a store's columns.             *)
LEMMA ColumnsAdded ==
    ASSUME StubInv, "rival-migration" \notin World, NEW h \in Hooks, HookActs(h),
           NEW r \in Roots
    PROVE  /\ ~Rebuild(h) => ("agent_id" \in layout'[r] <=> "agent_id" \in layout[r])
           /\ "read_count" \in layout'[r] \ layout[r] => AddCount(h) /\ call[h].root = r
           /\ OpenOld(h) => layout'[call[h].root]
                               = layout[call[h].root] \cup {"last_read_ts"}
           /\ AddCount(h) => layout'[call[h].root]
                               = layout[call[h].root] \cup {"read_count"}
<1>1. CASE OpenOld(h) \/ AddCount(h) \/ AddBytes(h)
  <2>1. \E c \in {"last_read_ts", "read_count", "bytes_delivered"} :
           /\ layout' = [layout EXCEPT ![call[h].root] = @ \cup {c}]
           /\ OpenOld(h) => c = "last_read_ts" /\ At(h, "open")
           /\ AddCount(h) => c = "read_count" /\ At(h, "add_count")
           /\ c = "read_count" => AddCount(h)
    BY <1>1 DEF OpenOld, AddCount, AddBytes, AddColumn, At
  <2>2. call[h].root \in Roots
    BY <1>1, HookIs, CallIs DEF HookAt, OpenOld, AddCount, AddBytes, At
  <2> QED
    BY <2>1, <2>2, HookIs DEF At
<1>2. CASE Rebuild(h)
  BY <1>2, HookIs DEF Rebuild, OpenOld, AddCount, At
<1>3. CASE ~(OpenOld(h) \/ AddCount(h) \/ AddBytes(h) \/ Rebuild(h))
  <2>1. layout' = layout
    BY <1>3 DEF HookActs, Start, OpenCurrent, SkipBackfill, Backfill, CheckScope, Spend,
           LookupRead, Bump, LookupContent, BumpContent, RecordNewContent, RecordStubbed,
           Record, LookupBash, BumpBash, RecordBash, PrintStub, Deliver, Killed, Refused,
           BusyContent, BusyStore, FailOpen, storeVars
  <2> QED
    BY <1>3, <2>1
<1> QED
  BY <1>1, <1>2, <1>3

(* A migration adds the columns in their order, alone.                       *)
LEMMA AddingKept ==
    ASSUME SpendInv, "rival-migration" \notin World, NEW h \in Hooks, HookActs(h),
           NEW g \in Hooks
    PROVE  Adding(g)'
<1>1. /\ StubInv /\ Moves(h) /\ Columns(h) /\ Adding(g) /\ Adding(h)
      /\ step \in [Hooks -> Steps]
  BY ActsMove, HookIs DEF SpendInv
<1>2. CASE g # h
  <2>1. step'[g] = step[g] /\ call'[g] = call[g]
    BY <1>1, <1>2 DEF Moves
  <2>2. CASE step[g] \notin Migration
    BY <2>1, <2>2 DEF Adding, Migration
  <2>3. CASE step[g] \in Migration
    <3>1. call[g].root \in Roots /\ layout[call[g].root] \subseteq layout'[call[g].root]
      BY <1>1, <2>3, HookIs, CallIs DEF HookAt, Migration, Columns
    <3>2. Rebuild(h) => call[h].root # call[g].root
      BY <1>1, <1>2, <2>3 DEF StubInv, OneMigrates, Rebuild, At, Migration
    <3>3. "agent_id" \in layout'[call[g].root] => "agent_id" \in layout[call[g].root]
      <4>1. CASE Rebuild(h)
        BY <1>1, <3>1, <3>2, <4>1 DEF Columns
      <4>2. CASE ~Rebuild(h)
        BY <1>1, <3>1, <4>2, ColumnsAdded
      <4> QED
        BY <4>1, <4>2
    <3> QED
      BY <1>1, <2>1, <3>1, <3>3 DEF Adding
  <2> QED
    BY <2>2, <2>3
<1>3. CASE g = h
  <2>1. CASE step'[h] \notin Migration \ {"open"}
    BY <1>3, <2>1 DEF Adding, Migration
  <2>2. CASE step'[h] \in Migration \ {"open"}
    <3>1. \/ OpenOld(h) \/ SkipBackfill(h) \/ AddCount(h) \/ AddBytes(h)
          \/ Backfill(h) \/ CheckScope(h)
      <4>1. CASE \E c \in Calls : Start(h, c)
        BY <1>1, <2>2, <4>1 DEF Start, Goto, Migration
      <4>2. CASE Endings(h)
        BY <1>1, <2>2, <4>2, EndMoves DEF Endings, PrintStub, Deliver, Killed,
               Refused, BusyStore, FailOpen, Migration
      <4>3. CASE OpenCurrent(h) \/ Rebuild(h)
        <5>1. /\ call[h].tool \in {"read", "slice", "bash"}
              /\ step'[h] = Opened(h)
          BY <1>1, <4>3, HookIs, CallIs DEF HookAt, OpenCurrent, Rebuild, At, Goto
        <5> QED
          BY <2>2, <5>1 DEF Opened, Migration
      <4>4. CASE \/ Spend(h) \/ LookupRead(h) \/ LookupContent(h) \/ BumpContent(h)
                 \/ RecordNewContent(h) \/ Record(h) \/ LookupBash(h) \/ RecordBash(h)
                 \/ Bump(h) \/ RecordStubbed(h) \/ BumpBash(h) \/ BusyContent(h)
        BY <1>1, <2>2, <4>4 DEF Spend, LookupRead, LookupContent, BumpContent,
               RecordNewContent, Record, LookupBash, RecordBash, Bump, RecordStubbed, BumpBash,
               BusyContent, Goto, Migration
      <4> QED
        BY <4>1, <4>2, <4>3, <4>4 DEF HookActs, Endings
    <3>2. /\ call[h].root \in Roots /\ call' = call
          /\ layout[call[h].root] \subseteq LateColumns
          /\ layout[call[h].root] \subseteq layout'[call[h].root]
          /\ ("agent_id" \in layout'[call[h].root] <=> "agent_id" \in layout[call[h].root])
      <4>1. call[h].root \in Roots /\ call' = call
        BY <3>1, HookIs, CallIs DEF HookAt, SpendInv, OpenOld, SkipBackfill, AddCount, AddBytes,
               Backfill, CheckScope, AddColumn, Bystanders, At
      <4>2. ~Rebuild(h)
        BY <3>1 DEF OpenOld, SkipBackfill, AddCount, AddBytes, Backfill, CheckScope, Rebuild, At
      <4> QED
        BY <1>1, <4>1, <4>2, ColumnsAdded, HookIs DEF Columns
    <3>3. "agent_id" \in layout[call[h].root] => layout[call[h].root] = LateColumns
      BY <3>2 DEF SpendInv
    <3>4. CASE OpenOld(h)
      <4>1. step'[h] = "add_count" /\ "agent_id" \notin layout[call[h].root]
        BY <1>1, <3>3, <3>4 DEF OpenOld, AddColumn, Goto
      <4>2. "last_read_ts" \in layout'[call[h].root]
        BY <1>1, <3>2, <3>4, ColumnsAdded
      <4> QED
        BY <1>3, <3>2, <4>1, <4>2 DEF Adding
    <3>5. CASE SkipBackfill(h)
      <4>1. step'[h] = "scope" /\ step[h] = "add_count" /\ "read_count" \in layout[call[h].root]
        BY <1>1, <3>5 DEF SkipBackfill, Goto, At
      <4> QED
        BY <1>1, <1>3, <3>2, <4>1 DEF Adding, Migration
    <3>6. CASE AddCount(h)
      <4>1. step'[h] = "add_bytes" /\ step[h] = "add_count"
        BY <1>1, <3>6 DEF AddCount, AddColumn, Goto, At
      <4>2. "read_count" \in layout'[call[h].root]
        BY <1>1, <3>2, <3>6, ColumnsAdded
      <4> QED
        BY <1>1, <1>3, <3>2, <4>1, <4>2 DEF Adding, Migration
    <3>7. CASE AddBytes(h) \/ Backfill(h) \/ CheckScope(h)
      <4>1. \/ step[h] = "add_bytes" /\ step'[h] = "backfill"
            \/ step[h] = "backfill" /\ step'[h] = "scope"
            \/ step[h] = "scope" /\ step'[h] \in {Opened(h), "rebuild"}
        BY <1>1, <3>7 DEF AddBytes, Backfill, CheckScope, AddColumn, Goto, At
      <4>2. step[h] = "scope" => Opened(h) \notin Migration
        BY <3>2, HookIs, CallIs DEF SpendInv, HookAt, Opened, Migration
      <4> QED
        BY <1>1, <1>3, <2>2, <3>2, <4>1, <4>2 DEF Adding, Migration
    <3> QED
      BY <3>1, <3>4, <3>5, <3>6, <3>7
  <2> QED
    BY <2>1, <2>2
<1> QED
  BY <1>2, <1>3

(* The rows of a store not yet scoped, past a step that leaves them alone.   *)
LEMMA LegacyKept ==
    ASSUME SpendInv, "rival-migration" \notin World, NEW h \in Hooks, HookActs(h), Books(h),
           ~Backfill(h), ~Rebuild(h), NEW r \in Roots, "agent_id" \notin layout'[r]
    PROVE  LegacyCounted(r)'
<1>1. StubInv /\ Moves(h) /\ Columns(h) /\ step \in [Hooks -> Steps]
  BY ActsMove, HookIs DEF SpendInv
<1>2. "agent_id" \notin layout[r]
  BY <1>1 DEF Columns
<1>3. /\ reads'[r] = reads[r] /\ DOMAIN reads[r] \subseteq ReadKeys
      /\ (exact' => exact)
      /\ \A k \in DOMAIN reads[r] : /\ reads[r][k] \in ReadRows
                                    /\ paid[r][k] \in Nat /\ paid'[r][k] \in Nat
                                    /\ paid[r][k] <= paid'[r][k]
                                    /\ exact' => paid'[r][k] = paid[r][k]
  BY <1>1, <1>2, TablesAre DEF Books, IsReads, SpendInv
<1>4. LegacyCounted(r)
  BY <1>2 DEF SpendInv
<1>5. ASSUME NEW k \in DOMAIN reads'[r]
      PROVE  /\ reads'[r][k].text \in Texts
             /\ reads'[r][k].size <= paid'[r][k]
             /\ exact' => reads'[r][k].size = paid'[r][k]
  <2>1. /\ reads[r][k].text \in Texts /\ reads[r][k].size \in Nat
        /\ reads[r][k].size <= paid[r][k]
        /\ exact => reads[r][k].size = paid[r][k]
    BY <1>3, <1>4 DEF LegacyCounted, ReadRows
  <2> QED
    BY <1>3, <2>1
<1>6. ASSUME exact', "read_count" \in layout'[r]
      PROVE  \/ \E g \in Hooks : step'[g] \in Counting /\ call'[g].root = r
             \/ \A k \in DOMAIN reads'[r] : reads'[r][k].bytes = reads'[r][k].size
  <2>1. CASE "read_count" \notin layout[r]
    <3>1. AddCount(h) /\ call[h].root = r
      BY <1>1, <1>6, <2>1, ColumnsAdded
    <3>2. step'[h] = "add_bytes" /\ call' = call
      BY <1>1, <3>1 DEF AddCount, AddColumn, Goto, Bystanders
    <3> QED
      BY <3>1, <3>2 DEF Counting
  <2>2. CASE \A k \in DOMAIN reads[r] : reads[r][k].bytes = reads[r][k].size
    BY <1>3, <2>2
  <2>3. CASE \E g \in Hooks : step[g] \in Counting /\ call[g].root = r
    <3>1. PICK g \in Hooks : step[g] \in Counting /\ call[g].root = r
      BY <2>3
    <3>2. CASE g # h
      BY <1>1, <3>1, <3>2 DEF Moves
    <3>3. CASE g = h
      <4>1. AddBytes(h) \/ Killed(h)
        BY <3>1, <3>3 DEF HookActs, Counting, Start, OpenCurrent, OpenOld, SkipBackfill,
               AddCount, CheckScope, Spend, LookupRead, Bump, LookupContent, BumpContent,
               RecordNewContent, RecordStubbed, Record, LookupBash, BumpBash, RecordBash,
               PrintStub, Deliver, Refused, BusyContent, BusyStore, Writes, At
      <4>2. AddBytes(h)
        BY <1>6, <3>1, <3>3, <4>1 DEF Killed, FailOpen, At, Counting
      <4>3. step'[h] = "backfill" /\ call' = call
        BY <1>1, <4>2 DEF AddBytes, AddColumn, Goto, Bystanders
      <4> QED
        BY <3>1, <3>3, <4>3 DEF Counting
    <3> QED
      BY <3>2, <3>3
  <2> QED
    BY <1>3, <1>4, <1>6, <2>1, <2>2, <2>3 DEF LegacyCounted
<1> QED
  BY <1>5, <1>6 DEF LegacyCounted

(* What a step leaves of the types.                                          *)
LEMMA ActsCount ==
    ASSUME SpendInv, NEW h \in Hooks, HookActs(h)
    PROVE  calls' \in 0 .. MaxCalls /\ inContext' \subseteq ContentKeys
<1>1. CASE \E c \in Calls : Start(h, c)
  BY <1>1, HooksAssumption DEF Start, SpendInv
<1>2. CASE PassThrough(h) /\ step[h] # "idle"
  <2>1. Held(h) \in ContentKeys
    BY <1>2, HookIs, CallIs DEF SpendInv, HookAt
  <2> QED
    BY <1>2, <2>1 DEF PassThrough, SpendInv
<1>3. CASE calls' = calls /\ inContext' = inContext
  BY <1>3 DEF SpendInv
<1>4. \/ \E c \in Calls : Start(h, c)
      \/ PassThrough(h) /\ step[h] # "idle"
      \/ calls' = calls /\ inContext' = inContext
  <2>1. CASE Deliver(h) \/ Killed(h) \/ Refused(h) \/ BusyStore(h)
    BY <2>1 DEF Deliver, Killed, Refused, BusyStore, FailOpen, At, Writes
  <2>2. CASE PrintStub(h)
    BY <2>2 DEF PrintStub
  <2>3. CASE ~(\/ Deliver(h) \/ Killed(h) \/ Refused(h) \/ BusyStore(h)
               \/ PrintStub(h) \/ \E c \in Calls : Start(h, c))
    BY <2>3 DEF HookActs, OpenCurrent, OpenOld, SkipBackfill, AddCount, AddBytes,
           Backfill, CheckScope, Rebuild, Spend, LookupRead, LookupContent, BumpContent,
           RecordNewContent, Record, LookupBash, RecordBash, Bump, RecordStubbed, BumpBash,
           BusyContent, AddColumn, Bystanders
  <2> QED
    BY <2>1, <2>2, <2>3
<1> QED
  BY <1>1, <1>2, <1>3, <1>4

(* A step that keeps the books keeps the invariant.                          *)
LEMMA SpendInvKept ==
    ASSUME SpendInv, "rival-migration" \notin World, NEW h \in Hooks, HookActs(h),
           ~Backfill(h), ~Rebuild(h)
    PROVE  SpendInv'
<1>1. /\ StubInv /\ StubInv' /\ Moves(h) /\ Columns(h) /\ Books(h)
  BY ActsMove, ActsKeepBooks, ActsKeepStubInv DEF SpendInv
<1>2. \A g \in Hooks : Adding(g)'
  BY AddingKept
<1>3. ASSUME NEW r \in Roots
      PROVE  IF "agent_id" \in layout'[r] THEN layout'[r] = LateColumns
             ELSE LegacyCounted(r)'
  <2>1. CASE "agent_id" \in layout'[r]
    <3>1. "agent_id" \in layout[r]
      BY <1>1, <2>1, ColumnsAdded
    <3> QED
      BY <1>1, <3>1 DEF SpendInv, Columns
  <2>2. CASE "agent_id" \notin layout'[r]
    BY <1>1, <2>2, LegacyKept
  <2> QED
    BY <2>1, <2>2
<1>4. ASSUME NEW r \in Roots, NEW k \in ReadKeys
      PROVE  Balanced(r, k)'
  <2>1. Balanced(r, k) /\ Bytes(reads[r], k) \in Nat /\ Owed(r, k) \in Nat
    BY AccountsAre, BalancedIs DEF SpendInv
  <2>2. PICK inc, lost \in Nat :
          /\ Bytes(reads'[r], k) = Bytes(reads[r], k) + inc
          /\ Owed(r, k)' = Owed(r, k) + inc + lost
          /\ exact' => lost = 0
    BY <1>1 DEF Books
  <2>3. Bytes(reads[r], k)' = Bytes(reads'[r], k)
    BY DEF Bytes
  <2>4. Bytes(reads'[r], k) <= Owed(r, k)'
    BY <2>1, <2>2 DEF Balanced
  <2>5. ASSUME exact', "agent_id" \in layout'[r] \/ k \notin DOMAIN reads'[r]
        PROVE  Bytes(reads'[r], k) = Owed(r, k)'
    <3>1. exact /\ ("agent_id" \in layout[r] \/ k \notin DOMAIN reads[r])
      BY <1>1, <2>5, ColumnsAdded DEF Books
    <3> QED
      BY <2>1, <2>2, <2>5, <3>1 DEF Balanced
  <2> QED
    BY <2>3, <2>4, <2>5 DEF Balanced
<1>5. paid' \in [Roots -> [ReadKeys -> Nat]] /\ exact' \in BOOLEAN
  BY <1>1 DEF Books
<1>6. SpendMatchesDelivery'
  BY <1>1, <1>4, <1>5, BalancedNext
<1> QED
  BY <1>1, <1>2, <1>3, <1>5, <1>6, ActsCount DEF SpendInv

(* A step that moves no bytes keeps what the accounts of a store say.        *)
LEMMA BalanceStays ==
    ASSUME SpendInv, NEW h \in Hooks, Moves(h), paid' = paid, exact' = exact,
           step[h] # "deliver", step'[h] # "deliver", NEW r \in Roots,
           reads'[r] = reads[r], layout'[r] = layout[r], NEW k \in ReadKeys
    PROVE  Balanced(r, k)'
<1>1. Balanced(r, k) /\ Owed(r, k)' = Owed(r, k)
  BY BalancedIs, OwedStays DEF SpendInv
<1> QED
  BY <1>1 DEF Balanced, Bytes

LEMMA LegacyStays ==
    ASSUME SpendInv, NEW h \in Hooks, Moves(h), paid' = paid, exact' = exact,
           NEW r \in Roots, call[h].root # r, reads'[r] = reads[r], layout'[r] = layout[r],
           "agent_id" \notin layout[r]
    PROVE  LegacyCounted(r)'
<1>1. LegacyCounted(r)
  BY DEF SpendInv
<1>2. ASSUME NEW g \in Hooks, step[g] \in Counting, call[g].root = r
      PROVE  step'[g] \in Counting /\ call'[g].root = r
  BY <1>2 DEF Moves
<1> QED
  BY <1>1, <1>2 DEF LegacyCounted

LEMMA BackfillKeeps ==
    ASSUME SpendInv, "rival-migration" \notin World, NEW h \in Hooks, Backfill(h)
    PROVE  SpendInv'
<1> PICK r : r = call[h].root
  OBVIOUS
<1>1. /\ StubInv /\ StubInv' /\ Moves(h) /\ HookActs(h)
  BY ActsMove, ActsKeepStubInv DEF SpendInv, HookActs
<1>2. /\ step[h] = "backfill" /\ step'[h] = "scope" /\ layout' = layout
      /\ paid' = paid /\ exact' = exact /\ calls' = calls /\ inContext' = inContext
      /\ reads' = [reads EXCEPT ![r] = BackfillCounts(reads[r])]
  BY <1>1, HookIs DEF Backfill, Goto, Bystanders, At
<1>3. call[h] \in Calls /\ r \in Roots /\ "agent_id" \notin layout[r]
  BY <1>1, <1>2, HookIs, CallIs DEF SpendInv, Adding, HookAt
<1>4. PICK t, u : t = reads[r] /\ u = BackfillCounts(t)
  OBVIOUS
<1>5. /\ reads'[r] = u /\ \A s \in Roots \ {r} : reads'[s] = reads[s]
  BY <1>1, <1>2, <1>3, <1>4, TablesAre
<1>6. LegacyCounted(r) /\ IsReads(t)
  BY <1>1, <1>3, <1>4, TablesAre DEF SpendInv
<1>7. DOMAIN u = DOMAIN t /\ \A k \in DOMAIN t :
         /\ t[k].text \in Texts /\ t[k].size \in Nat /\ t[k].size <= paid[r][k]
         /\ (exact => t[k].size = paid[r][k])
         /\ u[k].text = t[k].text /\ u[k].size = t[k].size /\ u[k].bytes = t[k].size
  <2>1. DOMAIN u = DOMAIN t
    BY <1>4 DEF BackfillCounts
  <2>2. ASSUME NEW k \in DOMAIN t
        PROVE  /\ t[k].text \in Texts /\ t[k].size \in Nat /\ t[k].size <= paid[r][k]
               /\ exact => t[k].size = paid[r][k]
               /\ t[k] \in ReadRows
    BY <1>4, <1>6 DEF LegacyCounted, IsReads, ReadRows
  <2>3. ASSUME NEW k \in DOMAIN t
        PROVE  u[k].text = t[k].text /\ u[k].size = t[k].size /\ u[k].bytes = t[k].size
    <3>1. u[k] = [t[k] EXCEPT !.count = 1, !.bytes = t[k].size]
      BY <1>4, <2>2, HookStoresAssumption DEF BackfillCounts
    <3> QED
      BY <2>2, <3>1 DEF ReadRows
  <2> QED
    BY <2>1, <2>2, <2>3
<1>8. ASSUME NEW s \in Roots, NEW k \in ReadKeys
      PROVE  Balanced(s, k)'
  <2>1. CASE s # r
    BY <1>1, <1>2, <1>5, <2>1, BalanceStays
  <2>2. CASE s = r
    <3>1. Balanced(r, k) /\ Owed(r, k)' = Owed(r, k)
      BY <1>1, <1>2, <1>3, BalancedIs, OwedStays DEF SpendInv
    <3>2. k \in DOMAIN t => Bytes(u, k) = t[k].size /\ t[k].size <= paid[r][k]
      BY <1>7 DEF Bytes
    <3>3. paid[r][k] \in Nat /\ paid[r][k] <= Owed(r, k)
      <4>1. paid[r][k] \in Nat /\ Pending(r, k) \in Nat
        BY <1>1, <1>3, PendingIsNat DEF SpendInv
      <4> QED
        BY <4>1 DEF Owed
    <3>4. k \notin DOMAIN t => Bytes(u, k) = Bytes(t, k)
      BY <1>7 DEF Bytes
    <3>5. Bytes(u, k) <= Owed(r, k)
      <4>1. Owed(r, k) \in Nat
        BY <1>3, AccountsAre
      <4> QED
        BY <1>4, <1>7, <3>1, <3>2, <3>3, <3>4, <4>1 DEF Balanced
    <3>6. ASSUME exact', "agent_id" \in layout'[r] \/ k \notin DOMAIN u
          PROVE  Bytes(u, k) = Owed(r, k)
      <4>1. k \notin DOMAIN t /\ exact
        BY <1>2, <1>3, <1>7, <3>6
      <4> QED
        BY <1>4, <3>1, <3>4, <4>1 DEF Balanced
    <3>7. Bytes(reads[r], k)' = Bytes(u, k)
      BY <1>5 DEF Bytes
    <3>8. Balanced(r, k)' <=>
             /\ Bytes(reads[r], k)' <= Owed(r, k)'
             /\ exact' /\ ("agent_id" \in layout[r]' \/ k \notin DOMAIN reads[r]')
                   => Bytes(reads[r], k)' = Owed(r, k)'
      BY DEF Balanced
    <3>9. layout[r]' = layout'[r] /\ reads[r]' = u
      BY <1>2, <1>5 DEF Backfill, Bystanders
    <3>10. Balanced(r, k)'
      BY <3>1, <3>5, <3>6, <3>7, <3>8, <3>9
    <3> QED
      BY <2>2, <3>10
  <2> QED
    BY <2>1, <2>2
<1>9. ASSUME NEW s \in Roots
      PROVE  IF "agent_id" \in layout'[s] THEN layout'[s] = LateColumns
             ELSE LegacyCounted(s)'
  <2>1. CASE "agent_id" \in layout'[s]
    BY <1>2, <2>1 DEF SpendInv
  <2>2. CASE "agent_id" \notin layout'[s] /\ s # r
    BY <1>1, <1>2, <1>5, <2>2, LegacyStays
  <2>3. CASE s = r
    <3>1. /\ \A k \in DOMAIN reads'[s] :
                /\ reads'[s][k].text \in Texts
                /\ reads'[s][k].size <= paid'[s][k]
                /\ exact' => reads'[s][k].size = paid'[s][k]
          /\ \A k \in DOMAIN reads'[s] : reads'[s][k].bytes = reads'[s][k].size
      BY <1>2, <1>5, <1>7, <2>3
    <3>2. LegacyCounted(s)'
      BY <3>1 DEF LegacyCounted
    <3> QED
      BY <1>2, <1>3, <2>3, <3>2
  <2> QED
    BY <2>1, <2>2, <2>3
<1>10. \A g \in Hooks : Adding(g)'
  BY <1>1, AddingKept
<1>11. paid' \in [Roots -> [ReadKeys -> Nat]] /\ exact' \in BOOLEAN
  BY <1>2 DEF SpendInv
<1>12. SpendMatchesDelivery'
  BY <1>1, <1>8, <1>11, BalancedNext
<1> QED
  BY <1>1, <1>9, <1>10, <1>11, <1>12, ActsCount DEF SpendInv

(* The rebuild copies a store whose rows are all the main thread's.          *)
LEMMA RebuildKeeps ==
    ASSUME SpendInv, "rival-migration" \notin World, NEW h \in Hooks, Rebuild(h)
    PROVE  SpendInv'
<1> PICK r : r = call[h].root
  OBVIOUS
<1>1. /\ StubInv /\ StubInv' /\ Moves(h) /\ HookActs(h)
  BY ActsMove, ActsKeepStubInv DEF SpendInv, HookActs
<1>2. /\ step[h] = "rebuild" /\ step'[h] = Opened(h)
      /\ layout' = [layout EXCEPT ![r] = @ \cup {"agent_id"}] /\ Writable(r)
      /\ paid' = paid /\ exact' = exact /\ call' = call
      /\ reads' = [reads EXCEPT ![r] = AgentScoped(reads[r])]
  BY <1>1, HookIs DEF Rebuild, Goto, Bystanders, At
<1>3. /\ call[h] \in Calls /\ r \in Roots /\ "agent_id" \notin layout[r]
      /\ step'[h] # "deliver"
  BY <1>1, <1>2, HookIs, CallIs DEF HookAt, Opened
<1>4. /\ \A s \in Roots \ {r} : reads'[s] = reads[s]
      /\ DOMAIN reads'[r] = DOMAIN reads[r]
      /\ \A k \in DOMAIN reads[r] : reads'[r][k] = reads[r][k]
  <2>1. PICK t : t = reads[r]
    OBVIOUS
  <2>2. IsReads(t) /\ \A k \in DOMAIN t : k.agent = Main
    BY <1>1, <1>3, <2>1, TablesAre
  <2>3. \A k \in DOMAIN t : AsMain(k) = k
    BY <2>2 DEF AsMain, IsReads, ReadKeys
  <2>4. {AsMain(j) : j \in DOMAIN t} = DOMAIN t
    BY <2>3
  <2>5. \A k \in DOMAIN t : (CHOOSE j \in DOMAIN t : AsMain(j) = k) = k
    BY <2>3
  <2>6. AgentScoped(t) = [k \in DOMAIN t |-> t[k]]
    BY <2>4, <2>5 DEF AgentScoped
  <2> QED
    BY <1>1, <1>2, <1>3, <2>1, <2>6, TablesAre
<1>5. /\ layout'[r] = LateColumns /\ \A s \in Roots \ {r} : layout'[s] = layout[s]
  <2>1. {"last_read_ts", "read_count"} \subseteq layout[r] /\ layout[r] \subseteq LateColumns
    BY <1>1, <1>2, <1>3, HookIs DEF SpendInv, Adding, Migration
  <2> QED
    BY <1>1, <1>2, <1>3, <2>1, HookIs DEF Writable, LateColumns
<1>6. LegacyCounted(r)
  BY <1>3 DEF SpendInv
<1>7. ASSUME exact, NEW k \in DOMAIN reads[r]
      PROVE  reads[r][k].bytes = paid[r][k]
  <2>1. ASSUME NEW g \in Hooks, step[g] \in Counting, call[g].root = r PROVE FALSE
    BY <1>1, <1>2, <2>1 DEF StubInv, OneMigrates, Counting, Migration
  <2>2. "read_count" \in layout[r]
    BY <1>2 DEF SpendInv, Adding
  <2> QED
    BY <1>6, <1>7, <2>1, <2>2 DEF LegacyCounted
<1>8. ASSUME NEW s \in Roots, NEW k \in ReadKeys
      PROVE  Balanced(s, k)'
  <2>1. CASE s # r
    BY <1>1, <1>2, <1>3, <1>4, <1>5, <2>1, BalanceStays
  <2>2. CASE s = r
    <3>1. Balanced(s, k) /\ Owed(s, k)' = Owed(s, k)
      BY <1>1, <1>2, <1>3, BalancedIs, OwedStays DEF SpendInv
    <3>2. Pending(s, k) = 0
      <4>1. ASSUME NEW g \in Owing(s, k) PROVE FALSE
        BY <1>1, <1>3, <2>2, <4>1, HookIs DEF Owing, At, HookAt, Opening, Migration
      <4>2. PICK c, S : c = call /\ S = Owing(s, k)
        OBVIOUS
      <4>3. S = {}
        BY <4>1, <4>2
      <4>4. SumOf(c, S) = 0
        BY <4>3, SumEmpty
      <4> QED
        BY <4>2, <4>4, PendingIsSum
    <3>3. Owed(s, k) = paid[s][k]
      BY <3>2 DEF Owed, SpendInv
    <3>4. ASSUME exact PROVE Bytes(reads[s], k) = Owed(s, k)
      <4>1. CASE k \in DOMAIN reads[s]
        BY <1>7, <2>2, <3>3, <3>4, <4>1 DEF Bytes
      <4>2. CASE k \notin DOMAIN reads[s]
        BY <3>1, <3>4, <4>2 DEF Balanced
      <4> QED
        BY <4>1, <4>2
    <3>5. Bytes(reads[s], k)' = Bytes(reads[s], k)
      BY <1>4, <2>2 DEF Bytes
    <3>6. k \in DOMAIN reads'[s] <=> k \in DOMAIN reads[s]
      BY <1>4, <2>2
    <3> QED
      BY <1>2, <3>1, <3>4, <3>5, <3>6 DEF Balanced
  <2> QED
    BY <2>1, <2>2
<1>9. ASSUME NEW s \in Roots
      PROVE  IF "agent_id" \in layout'[s] THEN layout'[s] = LateColumns
             ELSE LegacyCounted(s)'
  <2>1. CASE s = r
    BY <1>5, <2>1 DEF LateColumns
  <2>2. CASE s # r /\ "agent_id" \in layout'[s]
    BY <1>5, <2>2 DEF SpendInv
  <2>3. CASE s # r /\ "agent_id" \notin layout'[s]
    BY <1>1, <1>2, <1>4, <1>5, <2>3, LegacyStays
  <2> QED
    BY <2>1, <2>2, <2>3
<1>10. \A g \in Hooks : Adding(g)'
  BY <1>1, AddingKept
<1>11. paid' \in [Roots -> [ReadKeys -> Nat]] /\ exact' \in BOOLEAN
  BY <1>2 DEF SpendInv
<1>12. SpendMatchesDelivery'
  BY <1>1, <1>8, <1>11, BalancedNext
<1> QED
  BY <1>1, <1>9, <1>10, <1>11, <1>12, ActsCount DEF SpendInv

(* What is owed changes only with the hooks and what was paid.               *)
LEMMA OwedSame ==
    ASSUME UNCHANGED <<step, call, paid>>, NEW r, NEW k
    PROVE  Owed(r, k)' = Owed(r, k)
<1>1. Owing(r, k)' = Owing(r, k)
  BY DEF Owing, At, ReadKey
<1>2. Pending(r, k)' = Pending(r, k)
  BY <1>1, PendingIsSum
<1> QED
  BY <1>2 DEF Owed

(* `devscout clear` forgets what was spent, and says so no longer.           *)
LEMMA UserKeepsSpendInv ==
    ASSUME SpendInv, NEW q \in Roots, UserActs(q)
    PROVE  SpendInv'
<1>1. \E t, b : Forget(q, t, b) /\ DOMAIN t \subseteq DOMAIN reads[q]
                /\ \A k \in DOMAIN t : t[k] = reads[q][k]
  <2>1. CASE \E s \in Sessions : ClearSession(q, s)
    BY <2>1 DEF ClearSession, PruneSession, Restrict
  <2>2. CASE \E old \in SUBSET DOMAIN reads[q] : ClearOlder(q, old)
    BY <2>2 DEF ClearOlder, Restrict
  <2>3. CASE ClearStore(q)
    BY <2>3 DEF ClearStore, NoRows
  <2> QED
    BY <2>1, <2>2, <2>3 DEF UserActs
<1>2. /\ StubInv /\ StubInv' /\ DOMAIN reads = Roots
  BY UserKeepsStubInv DEF SpendInv, StubInv
<1>3. /\ \A r \in Roots : /\ DOMAIN reads'[r] \subseteq DOMAIN reads[r]
                          /\ \A k \in DOMAIN reads'[r] : reads'[r][k] = reads[r][k]
      /\ UNCHANGED <<layout, step, call, inContext, paid>> /\ exact' = FALSE
      /\ calls' \in 0 .. MaxCalls
  BY <1>1, <1>2, HooksAssumption DEF Forget, SpendInv
<1>4. \A g \in Hooks : Adding(g)'
  BY <1>3 DEF SpendInv, Adding
<1>5. ASSUME NEW r \in Roots, "agent_id" \notin layout'[r]
      PROVE  LegacyCounted(r)'
  <2>1. LegacyCounted(r)
    BY <1>3, <1>5 DEF SpendInv
  <2> QED
    BY <1>3, <2>1 DEF LegacyCounted
<1>6. ASSUME NEW r \in Roots, NEW k \in ReadKeys
      PROVE  Balanced(r, k)'
  <2>1. Owed(r, k)' = Owed(r, k) /\ Owed(r, k) \in Nat
    BY <1>3, OwedSame, AccountsAre
  <2>2. Bytes(reads[r], k) <= Owed(r, k)
    BY BalancedIs DEF SpendInv, Balanced
  <2>3. Bytes(reads'[r], k) = Bytes(reads[r], k) \/ Bytes(reads'[r], k) = 0
    BY <1>3 DEF Bytes
  <2>4. Bytes(reads[r], k)' <= Owed(r, k)'
    BY <2>1, <2>2, <2>3 DEF Bytes
  <2> QED
    BY <1>3, <2>4 DEF Balanced
<1>7. SpendMatchesDelivery'
  BY <1>2, <1>3, <1>6, BalancedNext DEF SpendInv
<1> QED
  BY <1>2, <1>3, <1>4, <1>5, <1>7 DEF SpendInv

(* The rows an older devscout left are what their readers were given.        *)
LEMMA InitSpendInv == ASSUME Init PROVE SpendInv
<1>1. StubInv
  BY InitStubInv
<1>2. /\ step = [h \in Hooks |-> "idle"] /\ calls = 0 /\ exact = TRUE
      /\ layout = [r \in Roots |-> IF r \in LegacyRoots THEN {} ELSE LateColumns]
      /\ inContext = UNION {{ContentKey(k, reads[r][k].text) : k \in DOMAIN reads[r]} :
                               r \in Roots}
      /\ paid = [r \in Roots |-> [k \in ReadKeys |->
                     IF k \in DOMAIN reads[r] THEN reads[r][k].size ELSE 0]]
  BY DEF Init, StoresInit
<1>5. PICK old : /\ reads = [r \in Roots |-> IF r \in LegacyRoots THEN old ELSE NoRows]
                 /\ \A k \in DOMAIN old : old[k].text \in Texts /\ old[k].bytes = 0
  <2>1. PICK old \in LegacyTables :
          reads = [r \in Roots |-> IF r \in LegacyRoots THEN old ELSE NoRows]
    BY DEF Init, StoresInit
  <2> QED
    BY <2>1, LegacyTablesAre
<1>6. \A r \in Roots : /\ DOMAIN reads[r] \subseteq ReadKeys
                       /\ \A k \in DOMAIN reads[r] :
                             /\ reads[r][k].text \in Texts /\ reads[r][k].bytes = 0
                             /\ reads[r][k].size \in Nat
  <2>1. \A r \in Roots : IsReads(reads[r])
    BY <1>1, TablesAre
  <2>2. \A r \in Roots : \A k \in DOMAIN reads[r] :
           reads[r][k].text \in Texts /\ reads[r][k].bytes = 0
    BY <1>5 DEF NoRows
  <2> QED
    BY <2>1, <2>2 DEF IsReads, ReadRows
<1>7. paid \in [Roots -> [ReadKeys -> Nat]] /\ exact \in BOOLEAN
  BY <1>2, <1>6
<1>8. calls \in 0 .. MaxCalls
  BY <1>2, HooksAssumption
<1>9. inContext \subseteq ContentKeys
  BY <1>2, <1>6 DEF ContentKey, ContentKeys, ReadKeys
<1>10. \A h \in Hooks : Adding(h)
  BY <1>2 DEF Adding, Migration
<1>11. ASSUME NEW r \in Roots
       PROVE  IF "agent_id" \in layout[r] THEN layout[r] = LateColumns ELSE LegacyCounted(r)
  <2>1. CASE r \in LegacyRoots
    <3>1. layout[r] = {}
      BY <1>2, <2>1
    <3>2. \A k \in DOMAIN reads[r] : reads[r][k].size <= paid[r][k]
                                        /\ reads[r][k].size = paid[r][k]
      BY <1>2, <1>6
    <3> QED
      BY <1>6, <3>1, <3>2 DEF LegacyCounted
  <2>2. CASE r \notin LegacyRoots
    BY <1>2, <2>2 DEF LateColumns
  <2> QED
    BY <2>1, <2>2
<1>12. ASSUME NEW r \in Roots, NEW k \in ReadKeys
       PROVE  Balanced(r, k)
  <2>1. Pending(r, k) = 0
    <3>1. PICK c, S : c = call /\ S = Owing(r, k)
      OBVIOUS
    <3>2. S = {}
      BY <1>2, <3>1 DEF Owing, At
    <3>3. SumOf(c, S) = 0
      BY <3>2, SumEmpty
    <3> QED
      BY <3>1, <3>3, PendingIsSum
  <2>2. Owed(r, k) = paid[r][k] /\ paid[r][k] \in Nat
    BY <1>7, <2>1 DEF Owed
  <2>3. Bytes(reads[r], k) = 0
    BY <1>6 DEF Bytes
  <2>4. k \notin DOMAIN reads[r] => paid[r][k] = 0
    BY <1>2
  <2>5. "agent_id" \in layout[r] => DOMAIN reads[r] = {}
    BY <1>2, <1>5 DEF NoRows
  <2> QED
    BY <2>2, <2>3, <2>4, <2>5 DEF Balanced
<1>13. SpendMatchesDelivery
  BY <1>1, <1>7, <1>12, BalancedIs
<1> QED
  BY <1>1, <1>7, <1>8, <1>9, <1>10, <1>11, <1>13 DEF SpendInv

LEMMA SpendInvInductive ==
    ASSUME "rival-migration" \notin World
    PROVE  SpendInv /\ [Next]_vars => SpendInv'
<1> SUFFICES ASSUME SpendInv, [Next]_vars PROVE SpendInv'
  OBVIOUS
<1>1. CASE \E h \in Hooks : HookActs(h)
  BY <1>1, SpendInvKept, BackfillKeeps, RebuildKeeps
<1>2. CASE \E r \in Roots : UserActs(r)
  BY <1>2, UserKeepsSpendInv
<1>3. CASE UNCHANGED vars
  <2>1. UNCHANGED <<reads, bash, layout, content, step, call, calls, inContext, paid, exact>>
    BY <1>3 DEF vars, storeVars, hookVars
  <2>2. StubInv'
    BY StubInvInductive DEF SpendInv
  <2>3. (\A h \in Hooks : Adding(h)') /\ \A r \in Roots : LegacyCounted(r)' <=> LegacyCounted(r)
    BY <2>1 DEF SpendInv, Adding, LegacyCounted
  <2>4. ASSUME NEW r \in Roots, NEW k \in ReadKeys
        PROVE  Balanced(r, k)'
    <3>1. Owed(r, k)' = Owed(r, k) /\ Balanced(r, k)
      BY <2>1, OwedSame, BalancedIs DEF SpendInv
    <3> QED
      BY <2>1, <3>1 DEF Balanced, Bytes
  <2>5. SpendMatchesDelivery'
    BY <2>1, <2>2, <2>4, BalancedNext DEF SpendInv
  <2> QED
    BY <2>1, <2>2, <2>3, <2>5 DEF SpendInv
<1> QED
  BY <1>1, <1>2, <1>3 DEF Next, HookActs, UserActs

(* bytes_delivered never exceeds what the model was given, and is exactly    *)
(* that as long as nothing was pruned and no hook failed with a write to do  *)
(* or a stub to print (store.rs record_fresh, record_spend, the              *)
(* bytes_delivered backfill; hookio.rs prints after the last commit), for    *)
(* any number of hooks and sessions whose upserts interleave as they like.   *)
THEOREM SpendMatchesDeliveryHolds ==
    ASSUME "rival-migration" \notin World
    PROVE  Spec => []SpendMatchesDelivery
<1>1. SpendInv => SpendMatchesDelivery
  BY DEF SpendInv
<1> QED
  BY <1>1, InitSpendInv, SpendInvInductive, PTL DEF Spec

(* Every store, hook and account keeps its type; above all a store not yet   *)
(* scoped by agent holds the main thread's rows only (store.rs               *)
(* add_agent_scope copies them all under agent_id '').                       *)
THEOREM HooksTypeOKHolds ==
    ASSUME "rival-migration" \notin World
    PROVE  Spec => []HooksTypeOK
<1>1. SpendInv => HooksTypeOK
  BY DEF SpendInv, StubInv, HooksTypeOK, HookAt
<1> QED
  BY <1>1, InitSpendInv, SpendInvInductive, PTL DEF Spec
=============================================================================
