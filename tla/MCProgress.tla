----------------------------- MODULE MCProgress ------------------------------
(* Two parts of devscout whose runs must end, on small instances: maps and   *)
(* queries over one index, and the compiler-facts verbs over one artifact.   *)
(* They share no state, so a behaviour is one of either: Init chooses which  *)
(* component moves.                                                          *)
EXTENDS MCIndexProtocol, CompilerFacts

VARIABLE component

(* What an engine may produce: an artifact of one complete compilation, and  *)
(* each way one may differ that an admission or a lane decision looks at.    *)
Compiled(state) == [fingerprint |-> IF state = "complete" THEN "fp" ELSE "none",
                    state |-> state]
Good == [size |-> 1, parses |-> TRUE, terminal |-> TRUE, processed |-> {"u"},
         missing |-> {}, hasSites |-> TRUE, claimsSites |-> TRUE, sites |-> {"c"},
         compilations |-> [i \in {"c"} |-> Compiled("complete")],
         summary |-> [i \in {"c"} |-> "fp"], profile |-> "asked",
         declares |-> {"contract", "producer", "revision", "dependencies", "schema"},
         head |-> 0, dirty |-> FALSE, import |-> 0]
HalfBuilt == [Good EXCEPT
    !.compilations = [i \in {"c", "d"} |-> Compiled(IF i = "c" THEN "complete" ELSE "failed")],
    !.summary = [i \in {"c", "d"} |-> IF i = "c" THEN "fp" ELSE "none"]]
Produced == {[Good EXCEPT !.head = 1], [Good EXCEPT !.size = 2, !.dirty = TRUE]}

LeftBehind == {HalfBuilt}

all == <<vars, factsVars, component>>
Index(A) == component = "index" /\ A /\ UNCHANGED <<factsVars, component>>
OfFacts(A) == component = "facts" /\ A /\ UNCHANGED <<vars, component>>

MCInit == Init /\ FactsInit /\ component \in {"index", "facts"}

MCNext == Index(Next) \/ OfFacts(FactsNext)

(* What is fair in each component, as it is stated there.                    *)
FairIndex ==
    /\ \A m \in Mappers : WF_all(Index(MapStep(m) /\ MapActs(m)))
    /\ \A q \in Queriers : WF_all(Index(QueryStep(q) /\ QueryActs(q)))

FairRuns ==
    \A v \in Verbs :
        /\ WF_all(OfFacts(ReaderReads(v) \/ ReaderEnds(v)))
        /\ WF_all(OfFacts(Deadline(v)))
        /\ WF_all(OfFacts(TakeMessage(v) \/ TimeOut(v) \/ Wait(v)))
        /\ WF_all(OfFacts(Expect(v)))
        /\ WF_all(OfFacts(AdmitAndPublish(v)))

FairEngines ==
    \A v \in Verbs : WF_all(OfFacts(\E s \in BOOLEAN : EngineExits(v, s)))

MCSpec == MCInit /\ [][MCNext]_all /\ FairIndex /\ FairRuns
MCFairSpec == MCSpec /\ FairEngines
=============================================================================
