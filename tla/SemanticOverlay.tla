--------------------------- MODULE SemanticOverlay ---------------------------
(* What a fresh compiler-facts layer does to the member edges of one run:    *)
(* the lookup at a reference's site (semantic/layer.rs), the override of     *)
(* what the ladder pushed for it (semantic/precedence.rs), the sites the     *)
(* extractor never saw (semantic/discovered.rs), and the last pass over the  *)
(* guesses (resolve/assembly.rs).                                            *)
EXTENDS Naturals, Sequences, FiniteSets

(* An occurrence at a site is [resolution, state, def, sig, args]: the       *)
(* compiler's word, the state of its compilation ("absent" where the         *)
(* envelope names none), the def its type translates to, and its signature   *)
(* with the arguments that takes.  The occurrences of a site are numbered.   *)
(* A reference is [site, args, pushed], where the ladder pushed              *)
(* [to, tier]s; an edge is [site, to, sig, tier, by, at, nth]: at and nth    *)
(* are its place, the reference (or site) it was pushed for and its number   *)
(* there.                                                                    *)
NoDef == "no def"
NoSig == "no signature"
NoArgs == 99            \* a property read carries no argument count

(* uncertainty.rs: an occurrence of a compilation that is not complete       *)
(* inherits its state, any other has its own.                                *)
Uncertainty(o) ==
    CASE o.state \in {"complete", "absent"} ->
            (CASE o.resolution \in {"confirmed", "ambiguous", "unresolved"} -> o.resolution
               [] o.resolution = "dynamic" -> "unsupported"
               [] o.resolution = "inaccessible" -> "excluded"
               [] OTHER -> "candidate")
      [] o.state = "unsupported" -> "unsupported"
      [] OTHER -> "incomplete"

(* The caller's argument count narrows only where it leaves exactly one.     *)
NarrowedSites(occs, want) ==
    LET matching == {n \in DOMAIN occs : occs[n].args = want}
    IN  IF Cardinality(DOMAIN occs) > 1 /\ want # NoArgs /\ Cardinality(matching) = 1
        THEN [n \in matching |-> occs[n]] ELSE occs

(* A lookup that asks only whether the compiler chose.                       *)
FaultyPlaces(o) == o.resolution = "confirmed" /\ o.def # NoDef

Places(o) == Uncertainty(o) = "confirmed" /\ o.def # NoDef
Placed(occs) == {n \in DOMAIN occs : Places(occs[n])}
Target(o) == [to |-> o.def, sig |-> o.sig]

(* Vec::dedup: neighbours only.                                              *)
Repeats(occs, n) ==
    \E m \in Placed(occs) : /\ m < n /\ Target(occs[m]) = Target(occs[n])
                            /\ \A k \in Placed(occs) : k <= m \/ n <= k

(* lookup: the confirmed targets at a site that the graph has a def for.     *)
Targets(occs) == [n \in {n \in Placed(occs) : ~ Repeats(occs, n)} |-> Target(occs[n])]

Lookup(sites, site, want) == Targets(NarrowedSites(sites[site], want))

-----------------------------------------------------------------------------
(* The resolver's ledger: the edges and their running counts.                *)

EmptyLedger == [edges |-> {}, precise |-> 0, ext |-> 0, guess |-> 0,
                confirmed |-> 0, disagreements |-> 0, discovered |-> 0]

CountOf(edges, tier) == Cardinality({e \in edges : e.tier = tier})

(* What the ladder does with reference n, before any fact is looked at.      *)
Pushed(n, r) ==
    {[site |-> r.site, to |-> r.pushed[k].to, sig |-> NoSig, tier |-> r.pushed[k].tier,
      by |-> "ladder", at |-> n, nth |-> k] : k \in DOMAIN r.pushed}

LadderPushes(ledger, pushed) ==
    [ledger EXCEPT !.edges = @ \cup pushed,
                   !.precise = @ + CountOf(pushed, "precise"),
                   !.ext = @ + CountOf(pushed, "ext"),
                   !.guess = @ + CountOf(pushed, "guess")]

SemanticEdge(t, site, by, at, nth) ==
    [site |-> site, to |-> t.to, sig |-> t.sig, tier |-> "precise",
     by |-> by, at |-> at, nth |-> nth]

(* The bookkeeping undone by the length of what is cut.                      *)
FaultyOverride(before, after, pushed, vouched) ==
    [after EXCEPT !.edges = before.edges \cup {vouched},
                  !.precise = @ - Cardinality(pushed) + 1,
                  !.confirmed = @ + 1]

(* apply: the pushes of this reference are undone, each in the count it      *)
(* went to, and the one vouched edge replaces them.                          *)
Override(before, after, pushed, vouched) ==
    [after EXCEPT !.edges = before.edges \cup {vouched},
                  !.precise = @ - CountOf(pushed, "precise") + 1,
                  !.ext = @ - CountOf(pushed, "ext"),
                  !.guess = @ - CountOf(pushed, "guess"),
                  !.confirmed = @ + 1,
                  !.disagreements = @ + IF \E e \in pushed : e.to # vouched.to THEN 1 ELSE 0]

(* decide: only a single confirmed target overrides.                         *)
ResolveReference(ledger, sites, n, r) ==
    LET pushed == Pushed(n, r)
        after == LadderPushes(ledger, pushed)
        targets == Lookup(sites, r.site, r.args)
        only == targets[CHOOSE k \in DOMAIN targets : TRUE]
    IN  IF Cardinality(DOMAIN targets) = 1
        THEN Override(ledger, after, pushed, SemanticEdge(only, r.site, "semantic", n, 1))
        ELSE after

(* project: a site no reference names; several targets only where they       *)
(* share the def.                                                            *)
Project(ledger, sites, site) ==
    LET targets == Lookup(sites, site, NoArgs)
        oneDef == \A m, n \in DOMAIN targets : targets[m].to = targets[n].to
    IN  IF oneDef
        THEN [ledger EXCEPT
                !.edges = @ \cup {SemanticEdge(targets[k], site, "discovered", site, k) :
                                    k \in DOMAIN targets},
                !.discovered = @ + Cardinality(DOMAIN targets)]
        ELSE ledger

(* heuristic_edge_key, and the order of the edges.                           *)
SameGuess(d, e) == d.site = e.site /\ d.to = e.to /\ d.tier = e.tier
ComesBefore(d, e) == d.at < e.at \/ (d.at = e.at /\ d.nth < e.nth)

(* A guess that repeats an earlier one is dropped, and its count with it.    *)
DropRepeats(ledger) ==
    LET again == {e \in ledger.edges : /\ e.tier # "precise"
                                       /\ \E d \in ledger.edges : SameGuess(d, e) /\ ComesBefore(d, e)}
    IN  [ledger EXCEPT !.edges = @ \ again,
                       !.ext = @ - CountOf(again, "ext"),
                       !.guess = @ - CountOf(again, "guess")]

(* The references in the order of their files, then the sites in the order   *)
(* of their keys.                                                            *)
ResolveAll(sites, refs) ==
    LET ledger[n \in 0 .. Len(refs)] ==
            IF n = 0 THEN EmptyLedger ELSE ResolveReference(ledger[n - 1], sites, n, refs[n])
    IN  ledger[Len(refs)]

ProjectUnseen(resolved, sites, seen) ==
    LET ledger[s \in 0 .. Len(sites)] ==
            IF s = 0 THEN resolved
            ELSE IF s \in seen THEN ledger[s - 1] ELSE Project(ledger[s - 1], sites, s)
    IN  ledger[Len(sites)]

RunLayer(sites, refs) ==
    DropRepeats(ProjectUnseen(ResolveAll(sites, refs), sites, {refs[n].site : n \in DOMAIN refs}))

-----------------------------------------------------------------------------
(* What a run may be given: numbered references, each at a site, what the    *)
(* ladder pushed for each, and what the compiler recorded at each site.      *)
Numbered(s) == Len(s) \in Nat /\ DOMAIN s = 1 .. Len(s)

WellFormedLayer(sites, refs) ==
    /\ Numbered(refs) /\ Numbered(sites)
    /\ \A n \in DOMAIN refs : refs[n].site \in DOMAIN sites /\ Numbered(refs[n].pushed)
    /\ \A s \in DOMAIN sites : Numbered(sites[s])

(* The counts `map` reports are those of the graph it writes, whatever the   *)
(* overrides cut: "subtracting the slice's raw length unconditionally        *)
(* underflows" (precedence.rs).  A discovered edge is counted apart.         *)
CountsAreOfEdges(l) ==
    LET By(b) == Cardinality({e \in l.edges : e.by = b})
    IN  /\ l.ext = CountOf(l.edges, "ext") /\ l.guess = CountOf(l.edges, "guess")
        /\ l.precise + l.discovered = CountOf(l.edges, "precise")
        /\ l.confirmed = By("semantic") /\ l.discovered = By("discovered")
        /\ l.disagreements <= l.confirmed

(* The targets that complete compilations confirm for a reference.           *)
Vouched(sites, r) ==
    LET occs == NarrowedSites(sites[r.site], r.args)
    IN  {Target(occs[n]) : n \in {n \in DOMAIN occs : /\ occs[n].resolution = "confirmed"
                                                      /\ occs[n].def # NoDef
                                                      /\ occs[n].state \in {"complete", "absent"}}}

(* "Absence of a record is never a negative fact": a reference keeps all the *)
(* ladder gave it, a guess only once to a target and site, unless complete   *)
(* compilations confirm exactly one target for it, and then that target is   *)
(* all it gets.                                                              *)
EdgesFollow(l, sites, refs) ==
    \A n \in DOMAIN refs :
      LET own == {e \in l.edges : e.at = n /\ e.by # "discovered"}
          pushed == Pushed(n, refs[n])
          vouched == Vouched(sites, refs[n])
      IN  IF Cardinality(vouched) = 1
          THEN /\ Cardinality(own) = 1
               /\ {[to |-> e.to, sig |-> e.sig] : e \in own} = vouched
          ELSE /\ own \subseteq pushed
               /\ \A e \in pushed \ own : /\ e.tier # "precise"
                                          /\ \E d \in l.edges : SameGuess(d, e)
=============================================================================
