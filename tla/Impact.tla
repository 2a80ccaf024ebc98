-------------------------------- MODULE Impact --------------------------------
(* The blast radius of a definition: the index a query builds over the       *)
(* graph's edges (query/index.rs, dispatch.rs, bus.rs), the reverse walk     *)
(* with its two brakes (query/impact.rs), and the row each file gets         *)
(* (impact_why.rs).                                                          *)
EXTENDS Naturals, FiniteSets

(* A graph is [primary, also, interfaces, infra, edges, order]: the file of  *)
(* each def and the further files of a partial one, the defs that are        *)
(* interfaces, the files whose path names infrastructure, the edges, and the *)
(* rank of each file in the order the walk meets files.  An edge is          *)
(* [kind, from, to, iface]: from a file to a def; "ctor" edges name the      *)
(* injected interface.  An ambiguous edge is one edge per candidate here, as *)
(* in the index.  Options are [hops, iface, maxFanin, maxHub, guesses, bus]. *)
FilesOf(g, d) == {g.primary[d]} \cup g.also[d]
DefsIn(g, f) == {d \in DOMAIN g.primary : f \in FilesOf(g, d)}

Precise == {"uses", "inherits", "implements", "bus"}
Guesses == {"guess", "ext"}

(* IndexOptions: what --no-guess and --no-bus leave out of the adjacency.    *)
Admitted(opt, e) == /\ e.kind = "guess" => opt.guesses
                    /\ e.kind = "bus" => opt.bus

(* hub_indegree: distinct other files, over every kind the walk crosses, the *)
(* guesses --no-guess refuses included.                                      *)
InDegree(g, opt, f) ==
    Cardinality({e.from : e \in {e \in g.edges :
        /\ e.kind \in Precise \cup Guesses
        /\ e.kind = "bus" => opt.bus
        /\ g.primary[e.to] = f /\ e.from # f}})

IsHub(g, opt, f) == f \in g.infra \/ (opt.maxHub > 0 /\ InDegree(g, opt, f) >= opt.maxHub)

(* ctor_di_fanin: the distinct constructor sites that inject an interface.   *)
FanIn(g, i) == Cardinality({e \in g.edges : e.kind = "ctor" /\ e.iface = i})

IsBroad(g, opt, i) == opt.maxFanin > 0 /\ FanIn(g, i) > opt.maxFanin

(* implemented_interfaces: by the def's files, so a neighbour's base counts. *)
Implemented(g, d) ==
    {e.to : e \in {e \in g.edges : /\ e.kind \in {"inherits", "implements"}
                                   /\ e.from \in FilesOf(g, d)}} \cap g.interfaces

(* The interfaces the walk meets from d: those it is injected as, and those  *)
(* it implements that anything refers to.                                    *)
Interfaces(g, opt, d) ==
    IF ~ opt.iface THEN {}
    ELSE {e.iface : e \in {e \in g.edges : e.kind = "ctor" /\ e.to = d}}
         \cup {i \in Implemented(g, d) : \E e \in g.edges : /\ e.kind \in Precise /\ e.to = i
                                                            /\ Admitted(opt, e)}

-----------------------------------------------------------------------------
(* What one frontier def hits: files, by the slot of the hit.                *)

ReverseHits(g, opt, d) ==
    {[file |-> e.from, slot |-> CASE e.kind = "amb" -> "amb"
                                  [] e.kind \in Guesses -> "guess"
                                  [] e.kind = "bus" -> "bus"
                                  [] OTHER -> "via"] :
        e \in {e \in g.edges : e.kind # "ctor" /\ e.to = d /\ Admitted(opt, e)}}

ForwardHits(g, opt, d) ==
    {[file |-> g.primary[e.to], slot |-> "bus"] :
        e \in {e \in g.edges : /\ e.kind = "bus" /\ e.from \in FilesOf(g, d)
                               /\ Admitted(opt, e)}}

(* ctor-di, and references to an implemented interface by type or member:    *)
(* a sibling's base list is a fact about the sibling.                        *)
IfaceHits(g, opt, d) ==
    IF ~ opt.iface THEN {}
    ELSE {[file |-> e.from, slot |-> "iface"] :
            e \in {e \in g.edges :
                    \/ e.kind = "ctor" /\ e.to = d /\ ~ IsBroad(g, opt, e.iface)
                    \/ /\ e.kind = "uses" /\ e.to \in Implemented(g, d)
                       /\ ~ IsBroad(g, opt, e.to)}}

HitsOf(g, opt, d) == ReverseHits(g, opt, d) \cup ForwardHits(g, opt, d) \cup IfaceHits(g, opt, d)

(* A hop that clears the mark whatever reached the file.                     *)
FaultyIsClean(hit, tainted, d) == hit.slot # "bus"

(* note_taint: any edge that is no bus hop, from a def with a clean path.    *)
IsClean(hit, tainted, d) == hit.slot # "bus" /\ d \notin tainted

(* Hit: what this hop found at a file.                                       *)
HitAt(g, opt, w, f) ==
    LET own(d) == {h \in HitsOf(g, opt, d) : h.file = f}
    IN  [slots |-> UNION {{h.slot : h \in own(d)} : d \in w.frontier},
         clean |-> \E d \in w.frontier : \E h \in own(d) : IsClean(h, w.tainted, d)]

-----------------------------------------------------------------------------

Row(hop, infra, hit) == [hop |-> hop, slots |-> hit.slots, infra |-> infra,
                         busOnly |-> ~ hit.clean]

WalkStart(g, seeds) == [hop |-> 1, frontier |-> seeds, seen |-> seeds, tainted |-> {},
                    rows |-> [f \in {} |-> 0], braked |-> {}, brakedFiles |-> {}]

(* A walk that goes on through a file only guesses reached.                  *)
FaultyExpands(g, opt, f, hit) == ~ IsHub(g, opt, f)

(* A guess reaches a file and stops there; so does anything at a hub.        *)
Expands(g, opt, f, hit) == ~ (hit.slots \subseteq {"guess"}) /\ ~ IsHub(g, opt, f)

(* A hub is reported only on the hop after the one it held back.             *)
FaultyHoldsBack(g, opt, hop, f, hit) ==
    /\ ~ (hit.slots \subseteq {"guess"}) /\ IsHub(g, opt, f)
    /\ 1 < hop /\ hop < opt.hops

(* Reported only where the walk was going to expand.                         *)
HoldsBack(g, opt, hop, f, hit) ==
    ~ (hit.slots \subseteq {"guess"}) /\ IsHub(g, opt, f) /\ hop < opt.hops

(* One hop.  A file keeps the row of its first hop; a new def takes its mark *)
(* from the first of its files the hop hit.                                  *)
Hop(g, opt, seedFiles, w) ==
    LET files == UNION {{h.file : h \in HitsOf(g, opt, d)} : d \in w.frontier}
        hit == [f \in files |-> HitAt(g, opt, w, f)]
        through == {f \in files : Expands(g, opt, f, hit[f])}
        new == (UNION {DefsIn(g, f) : f \in through}) \ w.seen
        source(d) == CHOOSE f \in through \cap FilesOf(g, d) :
                        \A e \in through \cap FilesOf(g, d) : g.order[f] <= g.order[e]
        found == files \ (DOMAIN w.rows \cup seedFiles)
    IN  [hop |-> w.hop + 1, frontier |-> new, seen |-> w.seen \cup new,
         tainted |-> w.tainted \cup {d \in new : ~ hit[source(d)].clean},
         rows |-> [f \in DOMAIN w.rows \cup found |->
                     IF f \in found THEN Row(w.hop, IsHub(g, opt, f), hit[f]) ELSE w.rows[f]],
         braked |-> w.braked \cup {i \in UNION {Interfaces(g, opt, d) : d \in w.frontier} :
                                     IsBroad(g, opt, i)},
         brakedFiles |-> w.brakedFiles \cup
                           {f \in files : HoldsBack(g, opt, w.hop, f, hit[f])}]

(* impact_walk: to the hop bound; an empty frontier hits nothing more.       *)
ImpactWalk(g, opt, seeds) ==
    LET seedFiles == UNION {FilesOf(g, d) : d \in seeds}
        walk[n \in 0 .. opt.hops] ==
            IF n = 0 THEN WalkStart(g, seeds) ELSE Hop(g, opt, seedFiles, walk[n - 1])
    IN  walk[opt.hops]

-----------------------------------------------------------------------------
(* The answer, said without a walk.                                          *)

(* What a query may be asked about: every edge runs from a file to a def of  *)
(* the graph, and every file has its rank.                                   *)
NoInterface == 0
WellFormedWalk(g, opt, seeds) ==
    LET defs == DOMAIN g.primary
        files == DOMAIN g.order
    IN  /\ g \in [primary : [defs -> files], also : [defs -> SUBSET files],
                  interfaces : SUBSET defs, infra : SUBSET files,
                  edges : SUBSET [kind : Precise \cup Guesses \cup {"ctor", "amb"},
                                  from : files, to : defs, iface : defs \cup {NoInterface}],
                  order : [files -> Nat]]
        /\ opt \in [hops : Nat, iface : BOOLEAN, maxFanin : Nat, maxHub : Nat,
                    guesses : BOOLEAN, bus : BOOLEAN]
        /\ seeds \subseteq defs

(* The files the defs of D lead to, and the defs beyond those that are no    *)
(* hubs and are met by more than the barred kind of link.                    *)
LedTo(g, opt, D) == UNION {{h.file : h \in HitsOf(g, opt, d)} : d \in D}

GoesOn(g, opt, d, f, barred) ==
    \E h \in HitsOf(g, opt, d) : h.file = f /\ h.slot # barred /\ ~ IsHub(g, opt, f)

Beyond(g, opt, D, barred) ==
    UNION {DefsIn(g, f) : f \in {f \in DOMAIN g.order : \E d \in D : GoesOn(g, opt, d, f, barred)}}

(* Every def n links from a seed.                                            *)
Reach(g, opt, seeds, barred) ==
    LET reach[n \in 0 .. opt.hops] ==
            IF n = 0 THEN seeds
            ELSE reach[n - 1] \cup Beyond(g, opt, reach[n - 1], barred)
    IN  reach

(* "recorded at most once, at its first (minimum) hop"; "the walk cannot     *)
(* continue THROUGH a guess".                                                *)
WalkIsReach(g, opt, seeds) ==
    LET rows == ImpactWalk(g, opt, seeds).rows
        reach == Reach(g, opt, seeds, "guess")
        links == [n \in 1 .. opt.hops |-> LedTo(g, opt, reach[n - 1])]
    IN  \A f \in DOMAIN g.order \ UNION {FilesOf(g, d) : d \in seeds} :
          /\ f \in DOMAIN rows <=> \E n \in DOMAIN links : f \in links[n]
          /\ f \in DOMAIN rows => /\ rows[f].hop \in DOMAIN links
                                  /\ f \in links[rows[f].hop]
                                  /\ \A n \in 1 .. rows[f].hop - 1 : f \notin links[n]

(* "the narrowing is REPORTED, never silent": a walk with no brakes that     *)
(* finds another set of files leaves something named in a trailer.           *)
WalkReportsNarrowing(g, opt, seeds) ==
    LET w == ImpactWalk(g, opt, seeds)
        free == ImpactWalk([g EXCEPT !.infra = {}],
                           [opt EXCEPT !.maxFanin = 0, !.maxHub = 0], seeds)
    IN  DOMAIN w.rows # DOMAIN free.rows => w.braked \cup w.brakedFiles # {}

(* A row without the bus mark stands on a path that crosses no bus hop.      *)
WalkKeepsCleanPaths(g, opt, seeds) ==
    LET rows == ImpactWalk(g, opt, seeds).rows
        reach == Reach(g, opt, seeds, "bus")
    IN  \A f \in DOMAIN rows : ~ rows[f].busOnly =>
          /\ rows[f].hop \in 1 .. opt.hops
          /\ \E d \in reach[rows[f].hop - 1] :
                \E h \in HitsOf(g, opt, d) : h.file = f /\ h.slot # "bus"
=============================================================================
