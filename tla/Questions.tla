------------------------------ MODULE Questions ------------------------------
(* A question put to the graph, and what its answer owes the reader.  It is  *)
(* one record, by what it is about; answering changes nothing.               *)
EXTENDS Impact, SemanticOverlay, TsExports, CSharpNames

VARIABLE question

About(kind) == question.about = kind

QuestionOK ==
    /\ About("impact") => WellFormedWalk(question.g, question.opt, question.seeds)
    /\ About("overlay") => WellFormedLayer(question.sites, question.refs)
    /\ About("name") => /\ WellFormedNames(question.repo) /\ question.r.ns \in Seq(STRING)
                        /\ question.r.file \in DOMAIN question.repo.frags
    /\ About("bases") => WellFormedNames(question.repo)
    /\ About("exports") => WellFormedExports(question.repo) /\ question.cap \in Nat

(* impact.rs: every file the index leads to within the hops is in the answer *)
(* and no other, each at its first hop.                                      *)
ImpactIsReach ==
    About("impact") => WalkIsReach(question.g, question.opt, question.seeds)

(* impact.rs: what the brakes kept out is never kept out in silence.         *)
NarrowingIsReported ==
    About("impact") => WalkReportsNarrowing(question.g, question.opt, question.seeds)

(* impact_why.rs: a row carries no bus mark only where a path without a bus  *)
(* hop leads to it.                                                          *)
UnmarkedHasCleanPath ==
    About("impact") => WalkKeepsCleanPaths(question.g, question.opt, question.seeds)

(* precedence.rs, assembly.rs: the counts `map` reports are those of the     *)
(* graph it writes.                                                          *)
CountsMatch ==
    About("overlay") => CountsAreOfEdges(RunLayer(question.sites, question.refs))

(* precedence.rs, layer.rs: a compiler fact overrides the ladder exactly     *)
(* where it names one target, and nothing later takes that back.             *)
FollowsTheCompiler ==
    About("overlay") => EdgesFollow(RunLayer(question.sites, question.refs),
                                    question.sites, question.refs)

(* bindings.rs: a name is found exactly where a chain of barrels within the  *)
(* cap leads to a file that declares it.                                     *)
LookupFollowsBarrels ==
    About("exports") => \A f \in DOMAIN question.repo, n \in question.names :
        LookupIsChained(question.repo, f, n, question.cap)

(* bindings.rs: what a reference resolves to is bound on an edge of its      *)
(* import to the file that declares it.                                      *)
ReferencesRideImports ==
    About("exports") => \A f \in DOMAIN question.repo, n \in question.names :
        ReferenceRides(question.repo, f, n, question.cap)

(* bindings.rs: a namespace's members are looked up only in a file that some *)
(* chain re-exports under that name.                                         *)
NamespacesAreReexported ==
    About("exports") => \A f \in DOMAIN question.repo, n \in question.names :
        NamespaceIsReexported(question.repo, f, n, question.cap)

(* reach.rs: a type of a project the site does not reference shadows no type *)
(* of one it does.                                                           *)
OutOfReachShadowsNothing == About("name") => ScopeIsInReach(question.repo, question.r)

(* members.rs: a member read through the bases of a type is found exactly    *)
(* where one of them declares it.                                            *)
BasesAnswerForMembers ==
    About("bases") =>
        LET index == DefIndex(question.repo)
        IN  \A start \in DOMAIN index, skip \in BOOLEAN :
                BasesAnswer(question.repo, index, start, skip)
=============================================================================
