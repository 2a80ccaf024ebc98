------------------------- MODULE CompilerFactsProofs -------------------------
(* Theorems about CompilerFacts for every value of its constants: whatever   *)
(* candidates, checkouts and bounds, facts are applied only over a commit    *)
(* that was checked out, and unless a named lapse hid it clean, while the    *)
(* lane was being decided, and what a run publishes is all that an engine    *)
(* wrote before it ended well.                                               *)
EXTENDS CompilerFacts, WellFoundedInduction, TLAPS

(* The steps of a lane decision that holds a loaded layer.                   *)
Deciding == {"dirty", "head", "imports", "resolve"}

(* A layer that got past the snapshot check was captured clean.              *)
LayerLoaded ==
    lane.step \in Deciding =>
        /\ lane = [step |-> lane.step, record |-> "none", layer |-> lane.layer]
        /\ ~lane.layer.dirty

Clean(head) == [head |-> head, dirty |-> FALSE]

(* What each check leaves known.  While HEAD may still be compared what is   *)
(* checked out now was seen; past the dirty check the commit now checked out *)
(* was seen clean if nothing lapsed, and past the HEAD check the layer's.    *)
Watched ==
    /\ lane.step \in {"dirty", "head"} => Now \in seen
    /\ lane.step = "head" /\ lapses = {} => Clean(checkout.head) \in seen

LayerSeen ==
    /\ \E d \in BOOLEAN : [head |-> lane.layer.head, dirty |-> d] \in seen
    /\ lapses = {} => Clean(lane.layer.head) \in seen

IsCheckout(c) ==
    /\ c = [head |-> c.head, dirty |-> c.dirty, import |-> c.import]
    /\ c.dirty \in BOOLEAN

LaneInv ==
    /\ IsCheckout(checkout)
    /\ LayerLoaded
    /\ Watched
    /\ lane.step \in {"imports", "resolve"} => LayerSeen
    /\ lane.step = "load" => lane.record = "none"
    /\ lane.record \in {"applied", "partial"} => lane.step = "recorded"
    /\ AppliedLaneWasCurrent

(* A verb, its engine and its reader move nothing a lane decision compares.  *)
LEMMA VerbsLeaveTheLane ==
    ASSUME NEW v \in Verbs, RunActs(v)
    PROVE  UNCHANGED <<checkout, lane, seen, lapses>>
  BY DEF RunActs, CaptureStep, VerbStep, history, Spawn, Import, EngineWrites, EngineCloses,
         EngineExits, ReaderReads, ReaderEnds, ReaderFails, Deadline, TakeMessage,
         TimeOut, Wait, Expect, AdmitAndPublish, VerbKilled

(* A move of HEAD past the dirty check leaves its commit clean on record, or *)
(* a lapse; an edit leaves HEAD where it was.                                *)
LEMMA UserKeepsLane ==
    ASSUME LaneInv, UserMoves
    PROVE  LaneInv'
<1>1. IsCheckout(checkout)'
  <2>1. CASE checkout' = [checkout EXCEPT !.dirty = ~@]
    BY <2>1 DEF LaneInv, IsCheckout
  <2>2. CASE \E h \in Heads \ {checkout.head}, d \in BOOLEAN :
                checkout' = [checkout EXCEPT !.head = h, !.dirty = d]
    BY <2>2 DEF LaneInv, IsCheckout
  <2>3. CASE checkout' = [checkout EXCEPT !.import = 1 - @]
    BY <2>3 DEF LaneInv, IsCheckout
  <2> QED
    BY <2>1, <2>2, <2>3 DEF UserMoves
<1>2. UNCHANGED lane /\ seen \subseteq seen' /\ lapses \subseteq lapses'
  BY DEF UserMoves
<1>3. lane.step \in {"dirty", "head"} => Now' \in seen'
  BY DEF UserMoves
<1>4. ASSUME lane.step = "head", lapses' = {}
      PROVE  Clean(checkout'.head) \in seen'
  <2>1. CASE checkout'.head = checkout.head
    BY <1>2, <1>4, <2>1 DEF LaneInv, Watched, Clean
  <2>2. CASE checkout'.head # checkout.head
    <3>1. ~checkout'.dirty
      BY <1>4, <2>2 DEF UserMoves
    <3>2. Now' = Clean(checkout'.head)
      BY <1>1, <3>1 DEF IsCheckout, Now, Clean
    <3> QED
      BY <1>3, <1>4, <3>2
  <2> QED
    BY <2>1, <2>2
<1>5. Watched'
  BY <1>2, <1>3, <1>4 DEF Watched, Clean
<1>6. lane.step \notin {"dirty", "head"} => seen' = seen /\ lapses' = lapses
  BY DEF UserMoves
<1>7. LayerLoaded' /\ (lane'.step \in {"imports", "resolve"} => LayerSeen')
  BY <1>2, <1>6 DEF LaneInv, LayerLoaded, LayerSeen, Deciding, Clean
<1>8. AppliedLaneWasCurrent'
  BY <1>2, <1>6 DEF LaneInv, AppliedLaneWasCurrent
<1> QED
  BY <1>1, <1>2, <1>5, <1>7, <1>8 DEF LaneInv

(* A lane recorded against the layer promises nothing.                       *)
LEMMA AgainstTheLayer ==
    ASSUME LaneInv, UNCHANGED checkout, NEW r, LaneIs(r), r \notin {"applied", "partial"}
    PROVE  LaneInv'
  BY DEF LaneInv, LaneIs, LayerLoaded, Watched, Deciding, AppliedLaneWasCurrent, IsCheckout

(* Each step of a decision, from what the one before it left known.          *)
LEMMA LaneKeepsLane ==
    ASSUME LaneInv, LaneActs
    PROVE  LaneInv'
<1>1. CASE \E n \in BOOLEAN : DecideLane(n)
  <2>1. UNCHANGED checkout
    BY <1>1 DEF DecideLane, LaneAct
  <2>2. CASE LaneIs("no-semantic") \/ LaneIs("none")
    BY <2>1, <2>2, AgainstTheLayer
  <2>3. CASE lane' = [step |-> "load", record |-> "none"]
    BY <2>1, <2>3 DEF LaneInv, LayerLoaded, Watched, Deciding, AppliedLaneWasCurrent, IsCheckout
  <2> QED
    BY <1>1, <2>2, <2>3 DEF DecideLane
<1>2. CASE LoadLayer
  <2>1. UNCHANGED checkout
    BY <1>2 DEF LoadLayer, LaneAct
  <2>2. CASE LaneIs("artifact-unreadable") \/ LaneIs("stale-artifact")
    BY <2>1, <2>2, AgainstTheLayer
  <2>3. CASE /\ ~artifact.dirty
             /\ lane' = [step |-> "dirty", record |-> "none", layer |-> artifact]
             /\ seen' = {Now}
    BY <2>1, <2>3 DEF LaneInv, LayerLoaded, Watched, Now, Deciding, AppliedLaneWasCurrent,
                      IsCheckout
  <2> QED
    BY <1>2, <2>2, <2>3 DEF LoadLayer
<1>3. CASE CheckDirty
  <2>1. UNCHANGED checkout /\ lane.step = "dirty"
    BY <1>3 DEF CheckDirty, LaneAct
  <2>2. CASE LaneIs("stale-artifact")
    BY <2>1, <2>2, AgainstTheLayer
  <2>3. CASE /\ LaneStep("head") /\ seen' = seen
             /\ lapses' = IF checkout.dirty THEN {"status-failed"} ELSE {}
    <3>1. lane' = [lane EXCEPT !.step = "head"] /\ LayerLoaded'
      BY <2>1, <2>3 DEF LaneStep, LaneInv, LayerLoaded, Deciding
    <3>2. lane'.step = "head" /\ lane'.record = "none"
      BY <2>1, <3>1 DEF LaneInv, LayerLoaded, Deciding
    <3>3. lapses' = {} => Now = Clean(checkout.head)
      BY <2>3 DEF LaneInv, IsCheckout, Now, Clean
    <3>4. Now \in seen /\ Now' = Now
      BY <2>1 DEF LaneInv, Watched, Now
    <3>5. Watched'
      BY <2>1, <2>3, <3>2, <3>3, <3>4 DEF Watched, Clean
    <3> QED
      BY <2>1, <3>1, <3>2, <3>5 DEF LaneInv, IsCheckout, AppliedLaneWasCurrent
  <2> QED
    BY <1>3, <2>2, <2>3 DEF CheckDirty
<1>4. CASE CheckHead
  <2>1. UNCHANGED checkout /\ lane.step = "head"
    BY <1>4 DEF CheckHead, LaneAct
  <2>2. CASE LaneIs("stale-artifact")
    BY <2>1, <2>2, AgainstTheLayer
  <2>3. CASE checkout.head = lane.layer.head /\ LaneStep("imports") /\ UNCHANGED history
    <3>1. lane' = [lane EXCEPT !.step = "imports"] /\ LayerLoaded'
      BY <2>1, <2>3 DEF LaneStep, LaneInv, LayerLoaded, Deciding
    <3>2. lane'.step = "imports" /\ lane'.record = "none" /\ lane'.layer = lane.layer
      BY <2>1, <3>1 DEF LaneInv, LayerLoaded, Deciding
    <3>3. Now = [head |-> lane.layer.head, dirty |-> checkout.dirty] /\ checkout.dirty \in BOOLEAN
      BY <2>3 DEF LaneInv, IsCheckout, Now
    <3>4. LayerSeen'
      BY <2>1, <2>3, <3>2, <3>3 DEF LaneInv, Watched, LayerSeen, Clean, history
    <3> QED
      BY <2>1, <3>1, <3>2, <3>4 DEF LaneInv, IsCheckout, Watched, AppliedLaneWasCurrent
  <2> QED
    BY <1>4, <2>2, <2>3 DEF CheckHead
<1>5. CASE CheckImports
  <2>1. UNCHANGED checkout /\ lane.step = "imports"
    BY <1>5 DEF CheckImports, LaneAct
  <2>2. CASE LaneIs("imports-moved") \/ LaneIs("no-complete-compilation")
    BY <2>1, <2>2, AgainstTheLayer
  <2>3. CASE LaneStep("resolve") /\ UNCHANGED history
    <3>1. lane' = [lane EXCEPT !.step = "resolve"] /\ LayerLoaded'
      BY <2>1, <2>3 DEF LaneStep, LaneInv, LayerLoaded, Deciding
    <3>2. lane'.step = "resolve" /\ lane'.record = "none" /\ lane'.layer = lane.layer
      BY <2>1, <3>1 DEF LaneInv, LayerLoaded, Deciding
    <3>3. LayerSeen'
      BY <2>1, <2>3, <3>2 DEF LaneInv, LayerSeen, Clean, history
    <3> QED
      BY <2>1, <3>1, <3>2, <3>3 DEF LaneInv, IsCheckout, Watched, AppliedLaneWasCurrent
  <2> QED
    BY <1>5, <2>2, <2>3 DEF CheckImports
<1>6. CASE \E u \in BOOLEAN : RecordLane(u)
  <2>1. lane.step = "resolve" /\ UNCHANGED <<checkout, seen, lapses>>
    BY <1>6 DEF RecordLane, LaneAct, history
  <2>2. LayerSeen /\ ~lane.layer.dirty
        /\ lane = [step |-> lane.step, record |-> "none", layer |-> lane.layer]
    BY <2>1 DEF LaneInv, LayerLoaded, Deciding
  <2>3. lane'.step = "recorded" /\ lane'.layer = lane.layer
    BY <1>6, <2>2 DEF RecordLane
  <2>4. LayerSeen' /\ ~lane'.layer.dirty
    BY <2>1, <2>2, <2>3 DEF LayerSeen, Clean
  <2> QED
    BY <2>1, <2>3, <2>4
       DEF LaneInv, IsCheckout, LayerLoaded, Watched, LayerSeen, Clean, Deciding, AppliedLaneWasCurrent
<1>7. CASE LaneEnds
  BY <1>7 DEF LaneInv, LaneEnds, IdleLane, LaneAct, LayerLoaded, Watched, Deciding,
              AppliedLaneWasCurrent, IsCheckout
<1> QED
  BY <1>1, <1>2, <1>3, <1>4, <1>5, <1>6, <1>7 DEF LaneActs

(* Facts are applied only where they were captured over a clean tree and     *)
(* their commit was checked out at some instant of the decision, clean       *)
(* unless git status failed over a dirty tree or HEAD moved between the two  *)
(* reads and left the tree dirty: the dirty flag and HEAD are read one after *)
(* the other and no lock is held (semantic/freshness.rs).                    *)
THEOREM AppliedLaneWasCurrentHolds == FactsSpec => []AppliedLaneWasCurrent
<1>1. FactsInit => LaneInv
  BY DEF FactsInit, IdleLane, LaneInv, IsCheckout, LayerLoaded, Watched, Deciding,
         AppliedLaneWasCurrent
<1>2. LaneInv /\ [FactsNext]_factsVars => LaneInv'
  <2> SUFFICES ASSUME LaneInv, [FactsNext]_factsVars PROVE LaneInv'
    OBVIOUS
  <2>1. CASE \E v \in Verbs : RunActs(v)
    <3>1. UNCHANGED <<checkout, lane, seen, lapses>>
      BY <2>1, VerbsLeaveTheLane
    <3> QED
      BY <3>1 DEF LaneInv, LayerLoaded, Watched, LayerSeen, Now, Clean, IsCheckout,
                  AppliedLaneWasCurrent
  <2>2. CASE UNCHANGED factsVars
    BY <2>2 DEF factsVars, history, LaneInv, LayerLoaded, Watched, LayerSeen, Now, Clean,
                IsCheckout, AppliedLaneWasCurrent
  <2> QED
    BY <2>1, <2>2, LaneKeepsLane, UserKeepsLane DEF FactsNext
<1>3. LaneInv => AppliedLaneWasCurrent
  BY DEF LaneInv
<1> QED
  BY <1>1, <1>2, <1>3, PTL DEF FactsSpec

-----------------------------------------------------------------------------
(* What an admission lets through.                                           *)

(* Numbers have a least.                                                     *)
LEMMA FirstIs ==
    ASSUME NEW ns \in SUBSET Nat, ns # {}
    PROVE  First(ns) \in ns
<1>1. PICK R : R = OpToRel(<, Nat)
  OBVIOUS
<1>2. IsWellFoundedOn(R, Nat)
  BY <1>1, NatLessThanWellFounded
<1>3. PICK n \in ns : \A m \in ns : <<m, n>> \notin R
  BY <1>2, WFMin
<1>4. \A m \in ns : ~(m < n)
  BY <1>1, <1>3 DEF OpToRel
<1>5. \A m \in ns : n <= m
  BY <1>4
<1> QED
  BY <1>3, <1>5 DEF First

(* No refusal is called an admission.                                        *)
LEMMA AdmittedFailsNothing ==
    ASSUME NEW c, NEW expected, Refusal(c, expected) = "admitted"
    PROVE  c.parses /\ (expected.known => c.head = expected.head)
<1>1. \A n \in 1 .. 14 : Checks(c, expected)[n].reason # "admitted"
  BY DEF Checks
<1>2. Failing(c, expected) = {}
  <2> SUFFICES ASSUME Failing(c, expected) # {} PROVE FALSE
    OBVIOUS
  <2>1. Failing(c, expected) \in SUBSET Nat /\ Failing(c, expected) \subseteq 1 .. 14
    BY DEF Failing
  <2>2. First(Failing(c, expected)) \in 1 .. 14
    BY <2>1, FirstIs
  <2> QED
    BY <1>1, <2>2 DEF Refusal
<1>3. ~Checks(c, expected)[1].fails /\ ~Checks(c, expected)[14].fails
  BY <1>2 DEF Failing
<1> QED
  BY <1>3 DEF Checks

-----------------------------------------------------------------------------
(* A run, its engine and its reader.                                         *)

Engines == [phase : {"writing", "closed"}, made : Produce, wrote : Nat]
               \cup [phase : {"exited"}, success : BOOLEAN, made : Produce, wrote : Nat]

Readers == [msg : {"none", "done", "cap", "error"}, read : Nat]

(* What the reader has taken without a complaint is within the cap.          *)
Draining(v) ==
    /\ engine[v] \in Engines /\ reader[v] \in Readers
    /\ reader[v].msg \in {"none", "done"} => reader[v].read <= OutputCap

(* A run that holds bytes took them from an engine that ended well, after    *)
(* its reader saw the end of them; an import has neither.                    *)
HoldsOutput(v) ==
    /\ engine[v] \in Engines /\ engine[v].phase = "exited" /\ engine[v].success
    /\ reader[v] \in Readers /\ reader[v].msg = "done" /\ reader[v].read <= OutputCap
    /\ verb[v].bytes = Captured(v)

VerbIs(v) ==
    \/ verb[v] = IdleVerb /\ engine[v] = NoEngine /\ reader[v] = NoReader
    \/ verb[v].step = "capture" /\ Draining(v)
    \/ verb[v].step = "wait" /\ Draining(v) /\ reader[v].msg = "done"
    \/ /\ verb[v].step \in {"expect", "admit"}
       /\ (engine[v] = NoEngine /\ reader[v] = NoReader) \/ HoldsOutput(v)

VerbInv ==
    /\ DOMAIN verb = Verbs /\ DOMAIN engine = Verbs /\ DOMAIN reader = Verbs
    /\ \A v \in Verbs : VerbIs(v)

(* What a step of v leaves of the others.                                    *)
Others(v) ==
    /\ DOMAIN verb' = Verbs /\ DOMAIN engine' = Verbs /\ DOMAIN reader' = Verbs
    /\ \A w \in Verbs \ {v} :
          verb'[w] = verb[w] /\ engine'[w] = engine[w] /\ reader'[w] = reader[w]

(* A step of a verb, its engine, its reader or the clock moves no other verb.*)
LEMMA OthersStand ==
    ASSUME VerbInv, NEW v \in Verbs, RunActs(v)
    PROVE  Others(v)
<1>1. CASE \E c \in Produce : Spawn(v, c) \/ Import(v, c)
  BY <1>1 DEF Spawn, Import, VerbInv, Others
<1>2. CASE EngineWrites(v) \/ EngineCloses(v) \/ \E s \in BOOLEAN : EngineExits(v, s)
  BY <1>2 DEF EngineWrites, EngineCloses, EngineExits, VerbInv, Others
<1>3. CASE ReaderReads(v) \/ ReaderEnds(v) \/ ReaderFails(v)
  BY <1>3 DEF ReaderReads, ReaderEnds, ReaderFails, VerbInv, Others
<1>4. CASE Deadline(v) \/ TakeMessage(v) \/ TimeOut(v) \/ Wait(v)
  BY <1>4 DEF Deadline, TakeMessage, TimeOut, Wait, Ends, VerbInv, Others
<1>5. CASE Expect(v) \/ AdmitAndPublish(v) \/ VerbKilled(v)
  BY <1>5 DEF Expect, AdmitAndPublish, VerbKilled, Ends, VerbInv, Others
<1> QED
  BY <1>1, <1>2, <1>3, <1>4, <1>5 DEF RunActs

(* A verb that is not moved is where it was.                                 *)
LEMMA StandsAs ==
    ASSUME NEW w, VerbIs(w), verb'[w] = verb[w], engine'[w] = engine[w], reader'[w] = reader[w]
    PROVE  VerbIs(w)'
  BY DEF VerbIs, Draining, HoldsOutput, Captured

(* An engine's steps, while somebody drains it.                              *)
LEMMA EngineMoves ==
    ASSUME VerbInv, NEW v \in Verbs,
           EngineWrites(v) \/ EngineCloses(v) \/ \E s \in BOOLEAN : EngineExits(v, s)
    PROVE  VerbIs(v)'
<1>1. engine[v].phase \in {"writing", "closed"} /\ UNCHANGED <<verb, reader>>
  BY DEF EngineWrites, EngineCloses, EngineExits
<1>2. VerbIs(v)
  BY DEF VerbInv
<1>3. verb[v].step \in {"capture", "wait"} /\ Draining(v)
      /\ (verb[v].step = "wait" => reader[v].msg = "done")
  BY <1>1, <1>2 DEF VerbIs, NoEngine, HoldsOutput
<1>4. engine[v] \in [phase : {"writing", "closed"}, made : Produce, wrote : Nat]
  BY <1>1, <1>3 DEF Draining, Engines
<1>5. engine'[v] \in Engines
  <2>1. CASE EngineWrites(v)
    <3>1. engine'[v] = [engine[v] EXCEPT !.wrote = @ + 1]
      BY <2>1 DEF EngineWrites, VerbInv
    <3> QED
      BY <1>4, <3>1 DEF Engines
  <2>2. CASE EngineCloses(v)
    <3>1. engine'[v] = [engine[v] EXCEPT !.phase = "closed"]
      BY <2>2 DEF EngineCloses, VerbInv
    <3> QED
      BY <1>4, <3>1 DEF Engines
  <2>3. CASE \E s \in BOOLEAN : EngineExits(v, s)
    <3>1. PICK s \in BOOLEAN :
             engine'[v] = [phase |-> "exited", success |-> s,
                           made |-> engine[v].made, wrote |-> engine[v].wrote]
      BY <2>3 DEF EngineExits, VerbInv
    <3> QED
      BY <1>4, <3>1 DEF Engines
  <2> QED
    BY <2>1, <2>2, <2>3
<1> QED
  BY <1>1, <1>3, <1>5 DEF VerbIs, Draining

(* The reader's steps: it gives its verdict once.                            *)
LEMMA ReaderMoves ==
    ASSUME VerbInv, NEW v \in Verbs, ReaderReads(v) \/ ReaderEnds(v) \/ ReaderFails(v)
    PROVE  VerbIs(v)'
<1>1. reader[v].msg = "none" /\ UNCHANGED <<verb, engine>>
  BY DEF ReaderReads, ReaderEnds, ReaderFails
<1>2. VerbIs(v)
  BY DEF VerbInv
<1>3. verb[v].step = "capture" /\ Draining(v)
  BY <1>1, <1>2 DEF VerbIs, NoReader, HoldsOutput
<1>4. reader[v] \in Readers /\ reader[v].read \in Nat /\ reader[v].read <= OutputCap
  BY <1>1, <1>3 DEF Draining, Readers
<1>5. reader'[v] \in Readers
      /\ (reader'[v].msg \in {"none", "done"} => reader'[v].read <= OutputCap)
  <2>1. CASE ReaderReads(v)
    <3> DEFINE read == reader[v].read + 1
               msg == IF read > OutputCap THEN "cap" ELSE "none"
    <3>1. reader'[v] = [reader[v] EXCEPT !.read = @ + 1, !.msg = msg]
      BY <2>1 DEF ReaderReads, VerbInv
    <3>2. reader'[v] = [msg |-> msg, read |-> read]
      BY <1>4, <3>1 DEF Readers
    <3>3. read \in Nat /\ ((msg = "none" /\ read <= OutputCap) \/ msg = "cap")
      BY <1>4, FactsAssumption
    <3> QED
      BY <1>4, <3>2, FactsAssumption DEF Readers
  <2>2. CASE ReaderEnds(v)
    <3>1. reader'[v] = [reader[v] EXCEPT !.msg = "done"]
      BY <2>2 DEF ReaderEnds, VerbInv
    <3> QED
      BY <1>4, <3>1 DEF Readers
  <2>3. CASE ReaderFails(v)
    <3>1. reader'[v] = [reader[v] EXCEPT !.msg = "error"]
      BY <2>3 DEF ReaderFails, VerbInv
    <3> QED
      BY <1>4, <3>1 DEF Readers
  <2> QED
    BY <2>1, <2>2, <2>3
<1> QED
  BY <1>1, <1>3, <1>5 DEF VerbIs, Draining

(* The verb's own steps.                                                     *)
LEMMA VerbMoves ==
    ASSUME VerbInv, NEW v \in Verbs,
           \/ \E c \in Produce : Spawn(v, c) \/ Import(v, c)
           \/ Deadline(v) \/ TakeMessage(v) \/ TimeOut(v) \/ Wait(v)
           \/ Expect(v) \/ AdmitAndPublish(v) \/ VerbKilled(v)
    PROVE  VerbIs(v)'
<1>1. VerbIs(v) /\ DOMAIN verb = Verbs /\ DOMAIN engine = Verbs /\ DOMAIN reader = Verbs
  BY DEF VerbInv
<1>2. CASE \E c \in Produce : Spawn(v, c)
  <2>1. PICK c \in Produce : Spawn(v, c)
    BY <1>2
  <2>2. /\ verb'[v].step = "capture"
        /\ engine'[v] = [phase |-> "writing", made |-> c, wrote |-> 0]
        /\ reader'[v] = [msg |-> "none", read |-> 0]
    BY <1>1, <2>1 DEF Spawn
  <2>3. engine'[v] \in Engines /\ reader'[v] \in Readers
    BY <2>2 DEF Engines, Readers
  <2> QED
    BY <2>2, <2>3, FactsAssumption DEF VerbIs, Draining
<1>3. CASE \E c \in Produce : Import(v, c)
  <2>1. VerbAt(v, "idle") /\ verb'[v].step = "expect" /\ UNCHANGED <<engine, reader>>
    BY <1>1, <1>3 DEF Import
  <2>2. engine[v] = NoEngine /\ reader[v] = NoReader
    BY <1>1, <2>1 DEF VerbIs, VerbAt
  <2> QED
    BY <2>1, <2>2 DEF VerbIs
<1>4. CASE Ends(v)
  <2>1. verb'[v] = IdleVerb /\ engine'[v] = NoEngine /\ reader'[v] = NoReader
    BY <1>1, <1>4 DEF Ends
  <2> QED
    BY <2>1 DEF VerbIs
<1>5. CASE Deadline(v)
  <2>1. verb[v].step = "capture" /\ UNCHANGED <<engine, reader>>
        /\ verb'[v] = [verb[v] EXCEPT !.late = TRUE]
    BY <1>1, <1>5 DEF Deadline, VerbAt
  <2>2. Draining(v)
    BY <1>1, <2>1 DEF VerbIs, IdleVerb
  <2>3. verb'[v].step = "capture"
    BY <2>1
  <2> QED
    BY <2>1, <2>2, <2>3 DEF VerbIs, Draining
<1>6. CASE TakeMessage(v) /\ ~Ends(v)
  <2>1. verb[v].step = "capture" /\ UNCHANGED <<engine, reader>>
        /\ reader[v].msg = "done" /\ verb'[v].step = "wait"
    BY <1>1, <1>6 DEF TakeMessage, VerbAt
  <2>2. Draining(v)
    BY <1>1, <2>1 DEF VerbIs, IdleVerb
  <2> QED
    BY <2>1, <2>2 DEF VerbIs, Draining
<1>7. CASE Wait(v) /\ ~Ends(v)
  <2>1. /\ verb[v].step = "wait" /\ UNCHANGED <<engine, reader>>
        /\ engine[v].phase = "exited" /\ engine[v].success
        /\ verb'[v].step = "expect" /\ verb'[v].bytes = Captured(v)
    BY <1>1, <1>7 DEF Wait, VerbAt
  <2>2. Draining(v) /\ reader[v].msg = "done"
    BY <1>1, <2>1 DEF VerbIs, IdleVerb
  <2> QED
    BY <2>1, <2>2 DEF VerbIs, Draining, HoldsOutput, Captured
<1>8. CASE Expect(v)
  <2>1. /\ verb[v].step = "expect" /\ UNCHANGED <<engine, reader>>
        /\ verb'[v].step = "admit" /\ verb'[v].bytes = verb[v].bytes
    BY <1>1, <1>8 DEF Expect, VerbAt
  <2>2. (engine[v] = NoEngine /\ reader[v] = NoReader) \/ HoldsOutput(v)
    BY <1>1, <2>1 DEF VerbIs, IdleVerb
  <2> QED
    BY <2>1, <2>2 DEF VerbIs, HoldsOutput, Captured
<1> QED
  BY <1>2, <1>3, <1>4, <1>5, <1>6, <1>7, <1>8 DEF TimeOut, AdmitAndPublish, VerbKilled

(* Every step keeps every verb with its engine and reader.                   *)
LEMMA VerbsKept ==
    ASSUME VerbInv, [FactsNext]_factsVars
    PROVE  VerbInv'
<1>1. CASE \E v \in Verbs : RunActs(v)
  <2>1. PICK v \in Verbs : RunActs(v)
    BY <1>1
  <2>2. Others(v)
    BY <2>1, OthersStand
  <2>3. VerbIs(v)'
    BY <2>1, EngineMoves, ReaderMoves, VerbMoves DEF RunActs
  <2>4. \A w \in Verbs \ {v} : VerbIs(w)'
    BY <2>2, StandsAs DEF Others, VerbInv
  <2> QED
    BY <2>2, <2>3, <2>4 DEF VerbInv, Others
<1>2. CASE LaneActs \/ UserMoves \/ UNCHANGED factsVars
  <2>1. UNCHANGED <<verb, engine, reader>>
    BY <1>2 DEF LaneActs, LaneAct, DecideLane, LoadLayer, CheckDirty, CheckHead, CheckImports,
                RecordLane, LaneEnds, UserMoves, factsVars
  <2> QED
    BY <2>1, StandsAs DEF VerbInv
<1> QED
  BY <1>1, <1>2 DEF FactsNext

(* What a verb publishes.                                                    *)
PublishesWhole ==
    \A v \in Verbs : (VerbAt(v, "admit") /\ verb'[v] = IdleVerb /\ artifact' # artifact) =>
        /\ engine[v].phase # "none" =>
            /\ engine[v].phase = "exited" /\ engine[v].success
            /\ reader[v].read = engine[v].made.size
            /\ engine[v].made.size <= OutputCap
        /\ verb[v].expected.known => artifact'.head = verb[v].expected.head

(* A step that ends a verb and moves the artifact is that verb's admission.  *)
LEMMA EveryPublication ==
    ASSUME VerbInv, FactsNext
    PROVE  PublishesWhole
<1> SUFFICES ASSUME NEW v \in Verbs,
                    VerbAt(v, "admit"), verb'[v] = IdleVerb, artifact' # artifact
             PROVE  /\ engine[v].phase # "none" =>
                        /\ engine[v].phase = "exited" /\ engine[v].success
                        /\ reader[v].read = engine[v].made.size
                        /\ engine[v].made.size <= OutputCap
                    /\ verb[v].expected.known => artifact'.head = verb[v].expected.head
  BY DEF PublishesWhole
<1>1. verb'[v] # verb[v]
  BY DEF VerbAt, IdleVerb
<1>2. PICK w \in Verbs : RunActs(w)
  BY <1>1 DEF FactsNext, LaneActs, LaneAct, DecideLane, LoadLayer, CheckDirty, CheckHead,
              CheckImports, RecordLane, LaneEnds, UserMoves
<1>3. w = v
  BY <1>1, <1>2, OthersStand DEF Others
<1>4. AdmitAndPublish(v)
  BY <1>2, <1>3 DEF RunActs, CaptureStep, Spawn, Import, EngineWrites, EngineCloses, EngineExits,
       ReaderReads, ReaderEnds, ReaderFails, Deadline, TakeMessage, TimeOut, Wait, Expect, VerbKilled
<1>5. Refusal(verb[v].bytes, verb[v].expected) = "admitted" /\ artifact' = verb[v].bytes
  BY <1>4 DEF AdmitAndPublish
<1>6. verb[v].bytes.parses
      /\ (verb[v].expected.known => verb[v].bytes.head = verb[v].expected.head)
  BY <1>5, AdmittedFailsNothing
<1>7. (engine[v] = NoEngine /\ reader[v] = NoReader) \/ HoldsOutput(v)
  BY DEF VerbInv, VerbIs, VerbAt, IdleVerb
<1>8. ASSUME HoldsOutput(v)
      PROVE  reader[v].read = engine[v].made.size /\ engine[v].made.size <= OutputCap
  <2>1. engine[v].made \in Produce /\ reader[v].read <= OutputCap
    BY <1>8 DEF HoldsOutput, Engines
  <2>2. verb[v].bytes.parses
           = (engine[v].made.parses /\ reader[v].read = engine[v].made.size)
    BY <1>8, <2>1, FactsAssumption DEF HoldsOutput, Captured
  <2> QED
    BY <1>6, <2>1, <2>2
<1> QED
  BY <1>5, <1>6, <1>7, <1>8 DEF NoEngine, HoldsOutput

(* "A killed or truncated run never reaches" the artifact (run.rs): what a   *)
(* run publishes is all that an engine wrote, within the cap, and that       *)
(* engine ended well, wherever the deadline, the reader and the engine fall; *)
(* every artifact was made from the commit its admission expected, if any.   *)
THEOREM PublishedIsWholeHolds == FactsSpec => PublishedIsWhole
<1>1. FactsInit => VerbInv
  BY DEF FactsInit, VerbInv, VerbIs
<1>2. VerbInv /\ [FactsNext]_factsVars => VerbInv'
  BY VerbsKept
<1>3. VerbInv /\ [FactsNext]_factsVars => [PublishesWhole]_factsVars
  BY EveryPublication
<1>4. FactsSpec => [][PublishesWhole]_factsVars
  BY <1>1, <1>2, <1>3, PTL DEF FactsSpec
<1> QED
  BY <1>4 DEF PublishesWhole, PublishedIsWhole
=============================================================================
