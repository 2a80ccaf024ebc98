--------------------------- MODULE QuestionsProofs ---------------------------
(* Theorems about the answers to questions, for every graph, option and      *)
(* bound.  A walk is a recursive function of its hops, a ledger one of its   *)
(* references: that there is one, and what holds after each of its steps, is *)
(* shown by least counterexample.                                            *)
EXTENDS Questions, WellFoundedInduction, FiniteSetTheorems, TLAPS

-----------------------------------------------------------------------------
(* Induction over hops.                                                      *)

(* A set of hops that has a member has a first one.                          *)
LEMMA FirstOf ==
    ASSUME NEW T \in SUBSET Nat, T # {}
    PROVE  \E n \in T : \A m \in T : n <= m
<1>1. PICK R : R = OpToRel(<, Nat)
  OBVIOUS
<1>2. IsWellFoundedOn(R, Nat)
  BY <1>1, NatLessThanWellFounded
<1>3. PICK n \in T : \A m \in T : <<m, n>> \notin R
  BY <1>2, WFMin
<1>4. \A m \in T : ~(m < n)
  BY <1>1, <1>3 DEF OpToRel
<1> QED
  BY <1>3, <1>4

(* What holds at first and from each hop to the next holds up to the last.   *)
LEMMA HopByHop ==
    ASSUME NEW N \in Nat, NEW S, 0 \in S,
           \A n \in 1 .. N : n - 1 \in S => n \in S
    PROVE  \A n \in 0 .. N : n \in S
<1> SUFFICES ASSUME NEW k \in 0 .. N, k \notin S PROVE FALSE
  OBVIOUS
<1>1. {n \in 0 .. N : n \notin S} # {}
  OBVIOUS
<1>2. {n \in 0 .. N : n \notin S} \in SUBSET Nat
  OBVIOUS
<1>3. PICK n \in {n \in 0 .. N : n \notin S} : \A m \in {m \in 0 .. N : m \notin S} : n <= m
  BY <1>1, <1>2, FirstOf
<1>4. n \in 1 .. N /\ n - 1 \in 0 .. N /\ ~(n <= n - 1)
  BY <1>3
<1> QED
  BY <1>3, <1>4

-----------------------------------------------------------------------------
(* The two recursive functions.                                              *)

Seeded(g, seeds) == UNION {FilesOf(g, d) : d \in seeds}

WalkStep(g, opt, seeds, W, n) ==
    W[n] = IF n = 0 THEN WalkStart(g, seeds) ELSE Hop(g, opt, Seeded(g, seeds), W[n - 1])
IsWalk(g, opt, seeds, N, W) ==
    W = [n \in 0 .. N |-> IF n = 0 THEN WalkStart(g, seeds)
                          ELSE Hop(g, opt, Seeded(g, seeds), W[n - 1])]

ReachStep(g, opt, seeds, barred, R, n) ==
    R[n] = IF n = 0 THEN seeds ELSE R[n - 1] \cup Beyond(g, opt, R[n - 1], barred)
IsReach(g, opt, seeds, barred, N, R) ==
    R = [n \in 0 .. N |-> IF n = 0 THEN seeds
                          ELSE R[n - 1] \cup Beyond(g, opt, R[n - 1], barred)]

(* There is a walk of any number of hops.                                    *)
LEMMA WalkExists ==
    ASSUME NEW g, NEW opt, NEW seeds, NEW N \in Nat
    PROVE  \E W : IsWalk(g, opt, seeds, N, W)
<1> DEFINE S == {n \in 0 .. N : \E W : IsWalk(g, opt, seeds, n, W)}
<1>1. 0 \in S
  <2>1. PICK W : W = [n \in 0 .. 0 |-> WalkStart(g, seeds)]
    OBVIOUS
  <2>2. IsWalk(g, opt, seeds, 0, W)
    BY <2>1 DEF IsWalk
  <2> QED
    BY <2>2
<1>2. \A n \in 1 .. N : n - 1 \in S => n \in S
  <2> SUFFICES ASSUME NEW n \in 1 .. N, n - 1 \in S PROVE n \in S
    OBVIOUS
  <2>1. PICK V : IsWalk(g, opt, seeds, n - 1, V)
    OBVIOUS
  <2>2. PICK next : next = Hop(g, opt, Seeded(g, seeds), V[n - 1])
    OBVIOUS
  <2>3. PICK W : W = [m \in 0 .. n |-> IF m = n THEN next ELSE V[m]]
    OBVIOUS
  <2>4. W = [m \in 0 .. n |-> IF m = 0 THEN WalkStart(g, seeds)
                              ELSE Hop(g, opt, Seeded(g, seeds), W[m - 1])]
    <3> SUFFICES ASSUME NEW m \in 0 .. n
                 PROVE  W[m] = IF m = 0 THEN WalkStart(g, seeds)
                               ELSE Hop(g, opt, Seeded(g, seeds), W[m - 1])
      BY <2>3
    <3>1. CASE m = n
      <4>1. W[m] = next /\ m # 0 /\ W[m - 1] = V[n - 1]
        BY <2>3, <3>1
      <4> QED
        BY <4>1, <2>2
    <3>2. CASE m # n
      <4>1. m \in 0 .. n - 1 /\ W[m] = V[m] /\ (m # 0 => W[m - 1] = V[m - 1])
        BY <2>3, <3>2
      <4>2. V[m] = IF m = 0 THEN WalkStart(g, seeds)
                   ELSE Hop(g, opt, Seeded(g, seeds), V[m - 1])
        BY <2>1, <4>1 DEF IsWalk
      <4> QED
        BY <4>1, <4>2
    <3> QED
      BY <3>1, <3>2
  <2>5. IsWalk(g, opt, seeds, n, W)
    BY <2>4 DEF IsWalk
  <2> QED
    BY <2>5
<1>3. N \in S
  <2> HIDE DEF S
  <2>1. \A n \in 0 .. N : n \in S
    BY <1>1, <1>2, HopByHop
  <2> QED
    BY <2>1
<1> QED
  BY <1>3

(* So has what is within reach.                                              *)
LEMMA ReachExists ==
    ASSUME NEW g, NEW opt, NEW seeds, NEW barred, NEW N \in Nat
    PROVE  \E R : IsReach(g, opt, seeds, barred, N, R)
<1> DEFINE S == {n \in 0 .. N : \E R : IsReach(g, opt, seeds, barred, n, R)}
<1>1. 0 \in S
  <2>1. PICK R : R = [n \in 0 .. 0 |-> seeds]
    OBVIOUS
  <2>2. IsReach(g, opt, seeds, barred, 0, R)
    BY <2>1 DEF IsReach
  <2> QED
    BY <2>2
<1>2. \A n \in 1 .. N : n - 1 \in S => n \in S
  <2> SUFFICES ASSUME NEW n \in 1 .. N, n - 1 \in S PROVE n \in S
    OBVIOUS
  <2>1. PICK V : IsReach(g, opt, seeds, barred, n - 1, V)
    OBVIOUS
  <2>2. PICK next : next = V[n - 1] \cup Beyond(g, opt, V[n - 1], barred)
    OBVIOUS
  <2>3. PICK R : R = [m \in 0 .. n |-> IF m = n THEN next ELSE V[m]]
    OBVIOUS
  <2>4. R = [m \in 0 .. n |-> IF m = 0 THEN seeds
                              ELSE R[m - 1] \cup Beyond(g, opt, R[m - 1], barred)]
    <3> SUFFICES ASSUME NEW m \in 0 .. n
                 PROVE  R[m] = IF m = 0 THEN seeds
                               ELSE R[m - 1] \cup Beyond(g, opt, R[m - 1], barred)
      BY <2>3
    <3>1. CASE m = n
      <4>1. R[m] = next /\ m # 0 /\ R[m - 1] = V[n - 1]
        BY <2>3, <3>1
      <4> QED
        BY <4>1, <2>2
    <3>2. CASE m # n
      <4>1. m \in 0 .. n - 1 /\ R[m] = V[m] /\ (m # 0 => R[m - 1] = V[m - 1])
        BY <2>3, <3>2
      <4>2. V[m] = IF m = 0 THEN seeds
                   ELSE V[m - 1] \cup Beyond(g, opt, V[m - 1], barred)
        BY <2>1, <4>1 DEF IsReach
      <4> QED
        BY <4>1, <4>2
    <3> QED
      BY <3>1, <3>2
  <2>5. IsReach(g, opt, seeds, barred, n, R)
    BY <2>4 DEF IsReach
  <2> QED
    BY <2>5
<1>3. N \in S
  <2> HIDE DEF S
  <2>1. \A n \in 0 .. N : n \in S
    BY <1>1, <1>2, HopByHop
  <2> QED
    BY <2>1
<1> QED
  BY <1>3

(* What the walk and the reach of the model are, hop by hop.                 *)
Walked(g, opt, seeds, W) ==
    /\ W[0] = WalkStart(g, seeds)
    /\ \A n \in 1 .. opt.hops : W[n] = Hop(g, opt, Seeded(g, seeds), W[n - 1])

Reached(g, opt, seeds, barred, R) ==
    /\ R[0] = seeds
    /\ \A n \in 1 .. opt.hops : R[n] = R[n - 1] \cup Beyond(g, opt, R[n - 1], barred)

LEMMA WalkIs ==
    ASSUME NEW g, NEW opt, NEW seeds, opt.hops \in Nat
    PROVE  \E W : Walked(g, opt, seeds, W) /\ ImpactWalk(g, opt, seeds) = W[opt.hops]
<1>1. PICK N : N = opt.hops
  OBVIOUS
<1>2. PICK V : IsWalk(g, opt, seeds, N, V)
  BY <1>1, WalkExists
<1>3. PICK W : W = CHOOSE U : IsWalk(g, opt, seeds, N, U)
  OBVIOUS
<1>4. IsWalk(g, opt, seeds, N, W)
  BY <1>2, <1>3
<1>5. ImpactWalk(g, opt, seeds) = W[N]
  BY <1>1, <1>3 DEF ImpactWalk, IsWalk, Seeded
<1>6. Walked(g, opt, seeds, W)
  <2>1. W[0] = WalkStart(g, seeds)
    BY <1>1, <1>4 DEF IsWalk
  <2>2. ASSUME NEW n \in 1 .. N PROVE W[n] = Hop(g, opt, Seeded(g, seeds), W[n - 1])
    <3>1. n \in 0 .. N /\ n # 0
      BY <1>1
    <3> QED
      BY <3>1, <1>4 DEF IsWalk
  <2> QED
    BY <2>1, <2>2, <1>1 DEF Walked
<1> QED
  BY <1>1, <1>5, <1>6

LEMMA ReachIs ==
    ASSUME NEW g, NEW opt, NEW seeds, NEW barred, opt.hops \in Nat
    PROVE  Reached(g, opt, seeds, barred, Reach(g, opt, seeds, barred))
<1>1. PICK N : N = opt.hops
  OBVIOUS
<1>2. PICK V : IsReach(g, opt, seeds, barred, N, V)
  BY <1>1, ReachExists
<1>3. PICK R : R = CHOOSE U : IsReach(g, opt, seeds, barred, N, U)
  OBVIOUS
<1>4. IsReach(g, opt, seeds, barred, N, R)
  BY <1>2, <1>3
<1>5. Reach(g, opt, seeds, barred) = R
  BY <1>1, <1>3 DEF Reach, IsReach
<1>6. Reached(g, opt, seeds, barred, R)
  <2>1. R[0] = seeds
    BY <1>1, <1>4 DEF IsReach
  <2>2. ASSUME NEW n \in 1 .. N PROVE R[n] = R[n - 1] \cup Beyond(g, opt, R[n - 1], barred)
    <3>1. n \in 0 .. N /\ n # 0
      BY <1>1
    <3> QED
      BY <3>1, <1>4 DEF IsReach
  <2> QED
    BY <2>1, <2>2, <1>1 DEF Reached
<1> QED
  BY <1>5, <1>6

-----------------------------------------------------------------------------
(* What is met by several defs is what is met by each.                       *)

LEMMA LedToBoth ==
    ASSUME NEW g, NEW opt, NEW A, NEW B
    PROVE  LedTo(g, opt, A \cup B) = LedTo(g, opt, A) \cup LedTo(g, opt, B)
  BY DEF LedTo

LEMMA BeyondBoth ==
    ASSUME NEW g, NEW opt, NEW barred, NEW A, NEW B
    PROVE  Beyond(g, opt, A \cup B, barred)
             = Beyond(g, opt, A, barred) \cup Beyond(g, opt, B, barred)
  BY DEF Beyond

(* Membership in them, with the sets spelt out once.                         *)
LEMMA InLedTo ==
    ASSUME NEW g, NEW opt, NEW D, NEW f
    PROVE  f \in LedTo(g, opt, D) <=> \E d \in D : \E h \in HitsOf(g, opt, d) : h.file = f
  BY DEF LedTo

LEMMA InBeyond ==
    ASSUME NEW g, NEW opt, NEW barred, NEW D, NEW x
    PROVE  x \in Beyond(g, opt, D, barred) <=>
             \E f \in DOMAIN g.order : x \in DefsIn(g, f)
                                       /\ \E d \in D : GoesOn(g, opt, d, f, barred)
  BY DEF Beyond

(* What is within reach at one hop is at every later one.                    *)
LEMMA ReachGrows ==
    ASSUME NEW g, NEW opt, NEW seeds, NEW barred, NEW R, opt.hops \in Nat,
           Reached(g, opt, seeds, barred, R)
    PROVE  \A n \in 0 .. opt.hops : \A m \in 0 .. n : R[m] \subseteq R[n]
<1>1. PICK N : N = opt.hops
  OBVIOUS
<1> DEFINE S == {n \in 0 .. N : \A m \in 0 .. n : R[m] \subseteq R[n]}
<1>2. 0 \in S
  <2>1. \A m \in 0 .. 0 : m = 0
    OBVIOUS
  <2> QED
    BY <1>1, <2>1
<1>3. \A n \in 1 .. N : n - 1 \in S => n \in S
  <2> SUFFICES ASSUME NEW n \in 1 .. N, n - 1 \in S, NEW m \in 0 .. n PROVE R[m] \subseteq R[n]
    BY <1>1
  <2>1. R[n - 1] \subseteq R[n]
    BY <1>1 DEF Reached
  <2>2. m = n \/ m \in 0 .. n - 1
    BY <1>1
  <2> QED
    BY <2>1, <2>2
<1> HIDE DEF S
<1>4. \A n \in 0 .. N : n \in S
  BY <1>1, <1>2, <1>3, HopByHop
<1> QED
  BY <1>1, <1>4 DEF S

(* A link leads to a file of the graph.                                      *)
LEMMA LinksLeadToFiles ==
    ASSUME NEW g, NEW opt, NEW seeds, WellFormedWalk(g, opt, seeds),
           NEW d, NEW h \in HitsOf(g, opt, d)
    PROVE  h.file \in DOMAIN g.order
<1>1. \A e \in g.edges : e.from \in DOMAIN g.order /\ g.primary[e.to] \in DOMAIN g.order
  BY DEF WellFormedWalk
<1>2. CASE h \in ReverseHits(g, opt, d)
  BY <1>1, <1>2 DEF ReverseHits
<1>3. CASE h \in ForwardHits(g, opt, d)
  BY <1>1, <1>3 DEF ForwardHits
<1>4. CASE h \in IfaceHits(g, opt, d)
  BY <1>1, <1>4 DEF IfaceHits
<1> QED
  BY <1>2, <1>3, <1>4 DEF HitsOf

-----------------------------------------------------------------------------
(* One hop.                                                                  *)

(* What a row says.                                                          *)
LEMMA RowIs ==
    ASSUME NEW hop, NEW infra, NEW hit
    PROVE  Row(hop, infra, hit).hop = hop /\ (~ Row(hop, infra, hit).busOnly => hit.clean)
  BY DEF Row

(* The kinds of the links from the frontier that meet at a file.             *)
LEMMA SlotsAt ==
    ASSUME NEW g, NEW opt, NEW w, NEW f
    PROVE  HitAt(g, opt, w, f).slots \subseteq {"guess"} <=>
             \A d \in w.frontier : \A h \in HitsOf(g, opt, d) : h.file = f => h.slot = "guess"
<1>1. PICK own : own = [d \in w.frontier |-> {h \in HitsOf(g, opt, d) : h.file = f}]
  OBVIOUS
<1>2. HitAt(g, opt, w, f).slots = UNION {{h.slot : h \in own[d]} : d \in w.frontier}
  BY <1>1 DEF HitAt
<1>3. \A s : s \in HitAt(g, opt, w, f).slots <=>
                \E d \in w.frontier : \E h \in own[d] : s = h.slot
  BY <1>2
<1>4. \A d \in w.frontier : \A h : h \in own[d] <=> h \in HitsOf(g, opt, d) /\ h.file = f
  BY <1>1
<1>5. HitAt(g, opt, w, f).slots \subseteq {"guess"} <=>
        \A d \in w.frontier : \A h \in own[d] : h.slot = "guess"
  BY <1>3
<1> QED
  BY <1>4, <1>5

(* The mark of a file is cleared by a link that is no bus hop from a def     *)
(* with a clean path.                                                        *)
LEMMA CleanAt ==
    ASSUME NEW g, NEW opt, NEW w, NEW f, HitAt(g, opt, w, f).clean
    PROVE  \E d \in w.frontier \ w.tainted :
             \E h \in HitsOf(g, opt, d) : h.file = f /\ h.slot # "bus"
  BY DEF HitAt, IsClean

(* The files a hop goes on through.                                          *)
Through(g, opt, w) ==
    {f \in LedTo(g, opt, w.frontier) : Expands(g, opt, f, HitAt(g, opt, w, f))}

LEMMA ThroughIs ==
    ASSUME NEW g, NEW opt, NEW seeds, WellFormedWalk(g, opt, seeds), NEW w, NEW f
    PROVE  f \in Through(g, opt, w) <=>
             f \in DOMAIN g.order /\ \E d \in w.frontier : GoesOn(g, opt, d, f, "guess")
<1>1. Expands(g, opt, f, HitAt(g, opt, w, f)) <=>
        ~ IsHub(g, opt, f) /\ \E d \in w.frontier : \E h \in HitsOf(g, opt, d) :
                                h.file = f /\ h.slot # "guess"
  BY SlotsAt DEF Expands
<1>2. f \in LedTo(g, opt, w.frontier) => f \in DOMAIN g.order
  BY InLedTo, LinksLeadToFiles
<1> QED
  BY <1>1, <1>2, InLedTo DEF Through, GoesOn

(* The first of a new def's files that the hop went on through.              *)
Source(g, through, d) ==
    CHOOSE f \in through \cap FilesOf(g, d) :
        \A e \in through \cap FilesOf(g, d) : g.order[f] <= g.order[e]

LEMMA SourceIsMet ==
    ASSUME NEW g, g.order \in [DOMAIN g.order -> Nat], NEW through \in SUBSET DOMAIN g.order,
           NEW f \in through, NEW d \in DefsIn(g, f)
    PROVE  Source(g, through, d) \in through \cap FilesOf(g, d)
<1>1. PICK T : T = through \cap FilesOf(g, d)
  OBVIOUS
<1>2. f \in T /\ T \subseteq DOMAIN g.order
  BY <1>1 DEF DefsIn
<1>3. PICK n \in {g.order[e] : e \in T} : \A m \in {g.order[e] : e \in T} : n <= m
  <2>1. {g.order[e] : e \in T} \in SUBSET Nat /\ {g.order[e] : e \in T} # {}
    BY <1>2
  <2> QED
    BY <2>1, FirstOf
<1>4. \E e \in T : \A x \in T : g.order[e] <= g.order[x]
  BY <1>3
<1> QED
  BY <1>1, <1>4 DEF Source

(* What a hop leaves.                                                        *)
Found(g, opt, seedFiles, w) == LedTo(g, opt, w.frontier) \ (DOMAIN w.rows \cup seedFiles)

New(g, opt, w) == Beyond(g, opt, w.frontier, "guess") \ w.seen

MarksAre(g, opt, w, v) ==
    v.tainted = w.tainted \cup
      {d \in New(g, opt, w) : ~ HitAt(g, opt, w, Source(g, Through(g, opt, w), d)).clean}

RowsAre(g, opt, seedFiles, w, v) ==
    /\ DOMAIN v.rows = DOMAIN w.rows \cup Found(g, opt, seedFiles, w)
    /\ \A f \in DOMAIN w.rows : v.rows[f] = w.rows[f]
    /\ \A f \in Found(g, opt, seedFiles, w) :
         v.rows[f] = Row(w.hop, IsHub(g, opt, f), HitAt(g, opt, w, f))

BrakesAre(g, opt, w, v) ==
    /\ v.braked = w.braked \cup
         {i \in UNION {Interfaces(g, opt, d) : d \in w.frontier} : IsBroad(g, opt, i)}
    /\ v.brakedFiles = w.brakedFiles \cup
         {f \in LedTo(g, opt, w.frontier) : HoldsBack(g, opt, w.hop, f, HitAt(g, opt, w, f))}

HopLeaves(g, opt, seedFiles, w, v) ==
    /\ v.hop = w.hop + 1 /\ v.frontier = New(g, opt, w) /\ v.seen = w.seen \cup New(g, opt, w)
    /\ MarksAre(g, opt, w, v) /\ RowsAre(g, opt, seedFiles, w, v) /\ BrakesAre(g, opt, w, v)

LEMMA HopIs ==
    ASSUME NEW g, NEW opt, NEW seeds, WellFormedWalk(g, opt, seeds), NEW seedFiles, NEW w
    PROVE  HopLeaves(g, opt, seedFiles, w, Hop(g, opt, seedFiles, w))
<1> PICK v : v = Hop(g, opt, seedFiles, w)
  OBVIOUS
<1> PICK new : new = New(g, opt, w)
  OBVIOUS
<1>1. PICK files : files = UNION {{h.file : h \in HitsOf(g, opt, d)} : d \in w.frontier}
  OBVIOUS
<1>2. PICK hit : hit = [f \in files |-> HitAt(g, opt, w, f)]
  OBVIOUS
<1>3. PICK through : through = {f \in files : Expands(g, opt, f, hit[f])}
  OBVIOUS
<1>4. files = LedTo(g, opt, w.frontier)
  BY <1>1 DEF LedTo
<1>5. through = Through(g, opt, w)
  BY <1>2, <1>3, <1>4 DEF Through
<1>6. new = (UNION {DefsIn(g, f) : f \in through}) \ w.seen
  <2>1. \A f : f \in through <=> f \in DOMAIN g.order
                                  /\ \E d \in w.frontier : GoesOn(g, opt, d, f, "guess")
    BY <1>5, ThroughIs
  <2>2. \A x : x \in Beyond(g, opt, w.frontier, "guess") <=> \E f \in through : x \in DefsIn(g, f)
    BY <2>1, InBeyond
  <2> QED
    BY <2>2 DEF New
<1>7. PICK found : found = files \ (DOMAIN w.rows \cup seedFiles)
  OBVIOUS
<1>8. v = [hop |-> w.hop + 1, frontier |-> new, seen |-> w.seen \cup new,
           tainted |-> w.tainted \cup {d \in new : ~ hit[Source(g, through, d)].clean},
           rows |-> [f \in DOMAIN w.rows \cup found |->
                       IF f \in found THEN Row(w.hop, IsHub(g, opt, f), hit[f]) ELSE w.rows[f]],
           braked |-> w.braked \cup {i \in UNION {Interfaces(g, opt, d) : d \in w.frontier} :
                                       IsBroad(g, opt, i)},
           brakedFiles |-> w.brakedFiles \cup
                             {f \in files : HoldsBack(g, opt, w.hop, f, hit[f])}]
  BY <1>1, <1>2, <1>3, <1>6, <1>7 DEF Hop, Source
<1>9. found = Found(g, opt, seedFiles, w)
  BY <1>4, <1>7 DEF Found
<1>10. \A d \in new : Source(g, through, d) \in files
  <2> SUFFICES ASSUME NEW d \in new PROVE Source(g, through, d) \in files
    OBVIOUS
  <2>1. PICK f \in through : d \in DefsIn(g, f)
    BY <1>6
  <2>2. g.order \in [DOMAIN g.order -> Nat]
    BY DEF WellFormedWalk
  <2>3. through \in SUBSET DOMAIN g.order
    BY <1>5, ThroughIs
  <2>4. Source(g, through, d) \in through
    BY <2>1, <2>2, <2>3, SourceIsMet
  <2> QED
    BY <2>4, <1>3
<1>11. {d \in new : ~ hit[Source(g, through, d)].clean}
         = {d \in new : ~ HitAt(g, opt, w, Source(g, Through(g, opt, w), d)).clean}
  BY <1>2, <1>5, <1>10
<1>12. {f \in files : HoldsBack(g, opt, w.hop, f, hit[f])}
         = {f \in LedTo(g, opt, w.frontier) : HoldsBack(g, opt, w.hop, f, HitAt(g, opt, w, f))}
  BY <1>2, <1>4
<1>13. found \cap DOMAIN w.rows = {} /\ found \subseteq files
  BY <1>7
<1>14. \A f \in found : v.rows[f] = Row(w.hop, IsHub(g, opt, f), HitAt(g, opt, w, f))
  BY <1>2, <1>8, <1>13
<1>15. \A f \in DOMAIN w.rows : v.rows[f] = w.rows[f]
  BY <1>8, <1>13
<1>16. DOMAIN v.rows = DOMAIN w.rows \cup found
  BY <1>8
<1>17. v.hop = w.hop + 1 /\ v.frontier = new /\ v.seen = w.seen \cup new
  BY <1>8
<1>18. MarksAre(g, opt, w, v)
  BY <1>8, <1>11 DEF MarksAre
<1>19. BrakesAre(g, opt, w, v)
  BY <1>8, <1>12 DEF BrakesAre
<1>20. RowsAre(g, opt, seedFiles, w, v)
  BY <1>9, <1>14, <1>15, <1>16 DEF RowsAre
<1> QED
  BY <1>17, <1>18, <1>19, <1>20 DEF HopLeaves

-----------------------------------------------------------------------------
(* The walk against the reach, hop by hop.                                   *)

(* What is met at hop n and was not before.                                  *)
NewAt(R, n) == IF n = 0 THEN R[0] ELSE R[n] \ R[n - 1]
MetBefore(R, n) == IF n = 0 THEN {} ELSE R[n - 1]

LEMMA NewAtIs ==
    ASSUME NEW g, NEW opt, NEW seeds, NEW barred, NEW R, opt.hops \in Nat,
           Reached(g, opt, seeds, barred, R), NEW n \in 0 .. opt.hops
    PROVE  /\ R[n] = NewAt(R, n) \cup MetBefore(R, n)
           /\ Beyond(g, opt, MetBefore(R, n), barred) \subseteq R[n]
<1>1. CASE n = 0
  BY <1>1, InBeyond DEF NewAt, MetBefore
<1>2. CASE n # 0
  <2>1. n \in 1 .. opt.hops
    BY <1>2
  <2>2. R[n] = R[n - 1] \cup Beyond(g, opt, R[n - 1], barred)
    BY <2>1 DEF Reached
  <2> QED
    BY <1>2, <2>2 DEF NewAt, MetBefore
<1> QED
  BY <1>1, <1>2

(* The walk has met what is within reach, and goes on from what is new.      *)
MetIsReach(W, R, n) ==
    W[n].hop = n + 1 /\ W[n].seen = R[n] /\ W[n].frontier = NewAt(R, n)

LEMMA WalkMeetsReach ==
    ASSUME NEW g, NEW opt, NEW seeds, WellFormedWalk(g, opt, seeds),
           NEW W, Walked(g, opt, seeds, W),
           NEW R, Reached(g, opt, seeds, "guess", R)
    PROVE  \A n \in 0 .. opt.hops : MetIsReach(W, R, n)
<1>1. PICK N \in Nat : N = opt.hops
  BY DEF WellFormedWalk
<1> DEFINE S == {n \in 0 .. N : MetIsReach(W, R, n)}
<1>2. 0 \in S
  BY <1>1 DEF MetIsReach, Walked, Reached, WalkStart, NewAt
<1>3. \A n \in 1 .. N : n - 1 \in S => n \in S
  <2> SUFFICES ASSUME NEW n \in 1 .. N, MetIsReach(W, R, n - 1) PROVE MetIsReach(W, R, n)
    OBVIOUS
  <2>1. n - 1 \in 0 .. N /\ n \in 0 .. N /\ n # 0
    OBVIOUS
  <2>2. PICK w : w = W[n - 1]
    OBVIOUS
  <2>3. W[n] = Hop(g, opt, Seeded(g, seeds), w)
    BY <1>1, <2>2 DEF Walked
  <2>4. w.hop = (n - 1) + 1 /\ w.seen = R[n - 1] /\ w.frontier = NewAt(R, n - 1)
    BY <2>2 DEF MetIsReach
  <2>5. PICK new : new = Beyond(g, opt, w.frontier, "guess") \ w.seen
    OBVIOUS
  <2>6. W[n].hop = w.hop + 1 /\ W[n].frontier = new /\ W[n].seen = w.seen \cup new
    <3>1. HopLeaves(g, opt, Seeded(g, seeds), w, W[n])
      BY <2>3, HopIs
    <3> QED
      BY <3>1, <2>5 DEF HopLeaves, New
  <2>7. R[n] = R[n - 1] \cup Beyond(g, opt, R[n - 1], "guess")
    BY <1>1 DEF Reached
  <2>8. R[n - 1] = NewAt(R, n - 1) \cup MetBefore(R, n - 1)
        /\ Beyond(g, opt, MetBefore(R, n - 1), "guess") \subseteq R[n - 1]
    BY <1>1, <2>1, NewAtIs
  <2>9. Beyond(g, opt, R[n - 1], "guess")
          = Beyond(g, opt, NewAt(R, n - 1), "guess")
              \cup Beyond(g, opt, MetBefore(R, n - 1), "guess")
    BY <2>8, BeyondBoth
  <2>10. new = R[n] \ R[n - 1] /\ w.seen \cup new = R[n]
    BY <2>4, <2>5, <2>7, <2>8, <2>9
  <2>11. w.hop + 1 = n + 1
    BY <2>4
  <2>12. NewAt(R, n) = R[n] \ R[n - 1]
    BY <2>1 DEF NewAt
  <2> QED
    BY <2>6, <2>10, <2>11, <2>12 DEF MetIsReach
<1> HIDE DEF S
<1>4. \A n \in 0 .. N : n \in S
  BY <1>1, <1>2, <1>3, HopByHop
<1> QED
  BY <1>1, <1>4 DEF S

(* A row stands at the first hop that leads to its file.                     *)
FirstLed(g, opt, R, f, k) ==
    /\ f \in LedTo(g, opt, R[k - 1])
    /\ \A m \in 1 .. k - 1 : f \notin LedTo(g, opt, R[m - 1])

RowsAreFirst(g, opt, seeds, W, R, n) ==
    /\ DOMAIN W[n].rows = LedTo(g, opt, MetBefore(R, n)) \ Seeded(g, seeds)
    /\ \A f \in DOMAIN W[n].rows :
         W[n].rows[f].hop \in 1 .. n /\ FirstLed(g, opt, R, f, W[n].rows[f].hop)

LEMMA WalkRowsAreFirst ==
    ASSUME NEW g, NEW opt, NEW seeds, WellFormedWalk(g, opt, seeds),
           NEW W, Walked(g, opt, seeds, W),
           NEW R, Reached(g, opt, seeds, "guess", R)
    PROVE  \A n \in 0 .. opt.hops : RowsAreFirst(g, opt, seeds, W, R, n)
<1>1. PICK N \in Nat : N = opt.hops
  BY DEF WellFormedWalk
<1> DEFINE S == {n \in 0 .. N : RowsAreFirst(g, opt, seeds, W, R, n)}
<1>2. 0 \in S
  <2>1. DOMAIN W[0].rows = {}
    BY DEF Walked, WalkStart
  <2>2. LedTo(g, opt, MetBefore(R, 0)) = {}
    BY DEF LedTo, MetBefore
  <2> QED
    BY <1>1, <2>1, <2>2 DEF RowsAreFirst
<1>3. \A n \in 1 .. N : n - 1 \in S => n \in S
  <2> SUFFICES ASSUME NEW n \in 1 .. N, RowsAreFirst(g, opt, seeds, W, R, n - 1)
               PROVE  RowsAreFirst(g, opt, seeds, W, R, n)
    OBVIOUS
  <2>1. n - 1 \in 0 .. N /\ n \in 0 .. N /\ n # 0
    OBVIOUS
  <2>2. PICK w : w = W[n - 1]
    OBVIOUS
  <2>3. PICK v : v = W[n]
    OBVIOUS
  <2>4. v = Hop(g, opt, Seeded(g, seeds), w)
    BY <1>1, <2>2, <2>3 DEF Walked
  <2>5. MetIsReach(W, R, n - 1)
    BY <1>1, <2>1, WalkMeetsReach
  <2>6. w.hop = n /\ w.frontier = NewAt(R, n - 1)
    BY <2>2, <2>5 DEF MetIsReach
  <2>7. PICK found : found = Found(g, opt, Seeded(g, seeds), w)
    OBVIOUS
  <2>8. /\ DOMAIN v.rows = DOMAIN w.rows \cup found
        /\ \A f \in DOMAIN w.rows : v.rows[f] = w.rows[f]
        /\ \A f \in found : v.rows[f] = Row(w.hop, IsHub(g, opt, f), HitAt(g, opt, w, f))
    <3>1. HopLeaves(g, opt, Seeded(g, seeds), w, v)
      BY <2>4, HopIs
    <3> QED
      BY <3>1, <2>7 DEF HopLeaves, RowsAre
  <2>9. MetBefore(R, n) = R[n - 1]
    BY <2>1 DEF MetBefore
  <2>10. R[n - 1] = NewAt(R, n - 1) \cup MetBefore(R, n - 1)
    BY <1>1, <2>1, NewAtIs
  <2>11. LedTo(g, opt, R[n - 1])
           = LedTo(g, opt, w.frontier) \cup LedTo(g, opt, MetBefore(R, n - 1))
    BY <2>6, <2>10, LedToBoth
  <2>12. DOMAIN w.rows = LedTo(g, opt, MetBefore(R, n - 1)) \ Seeded(g, seeds)
    BY <2>2 DEF RowsAreFirst
  <2>13. found = LedTo(g, opt, w.frontier) \ (DOMAIN w.rows \cup Seeded(g, seeds))
    BY <2>7 DEF Found
  <2>14. DOMAIN v.rows = LedTo(g, opt, MetBefore(R, n)) \ Seeded(g, seeds)
    BY <2>8, <2>9, <2>11, <2>12, <2>13
  <2>15. ASSUME NEW f \in DOMAIN w.rows
         PROVE  v.rows[f].hop \in 1 .. n /\ FirstLed(g, opt, R, f, v.rows[f].hop)
    <3>1. w.rows[f].hop \in 1 .. n - 1 /\ FirstLed(g, opt, R, f, w.rows[f].hop)
      BY <2>2 DEF RowsAreFirst
    <3> QED
      BY <2>8, <3>1
  <2>16. ASSUME NEW f \in found
         PROVE  v.rows[f].hop \in 1 .. n /\ FirstLed(g, opt, R, f, v.rows[f].hop)
    <3>1. v.rows[f].hop = n
      BY <2>6, <2>8, RowIs
    <3>2. f \in LedTo(g, opt, R[n - 1]) /\ f \notin LedTo(g, opt, MetBefore(R, n - 1))
      BY <2>11, <2>12, <2>13
    <3>3. ASSUME NEW m \in 1 .. n - 1 PROVE f \notin LedTo(g, opt, R[m - 1])
      <4>1. MetBefore(R, n - 1) = R[n - 2]
        BY DEF MetBefore
      <4>2. n - 2 \in 0 .. N /\ m - 1 \in 0 .. n - 2
        OBVIOUS
      <4>3. R[m - 1] \subseteq R[n - 2]
        BY <1>1, <4>2, ReachGrows
      <4> QED
        BY <3>2, <4>1, <4>3, InLedTo
    <3>4. FirstLed(g, opt, R, f, n)
      BY <3>2, <3>3 DEF FirstLed
    <3> QED
      BY <3>1, <3>4
  <2> QED
    BY <2>3, <2>8, <2>14, <2>15, <2>16 DEF RowsAreFirst
<1> HIDE DEF S
<1>4. \A n \in 0 .. N : n \in S
  BY <1>1, <1>2, <1>3, HopByHop
<1> QED
  BY <1>1, <1>4 DEF S

(* impact_walk: a file is in the answer exactly if a link leads to it within *)
(* the hops from a def that no hub and no guess stands before, and its row   *)
(* is that of the first hop that does.                                       *)
THEOREM ImpactIsReachHolds ==
    ASSUME QuestionOK
    PROVE  ImpactIsReach
<1> SUFFICES ASSUME About("impact")
             PROVE  WalkIsReach(question.g, question.opt, question.seeds)
  BY DEF ImpactIsReach
<1>1. PICK g, opt, seeds : g = question.g /\ opt = question.opt /\ seeds = question.seeds
  OBVIOUS
<1>2. WellFormedWalk(g, opt, seeds)
  BY <1>1 DEF QuestionOK
<1>3. PICK N \in Nat : N = opt.hops
  BY <1>2 DEF WellFormedWalk
<1>4. PICK W : Walked(g, opt, seeds, W) /\ ImpactWalk(g, opt, seeds) = W[N]
  BY <1>3, WalkIs
<1>5. PICK R : R = Reach(g, opt, seeds, "guess") /\ Reached(g, opt, seeds, "guess", R)
  BY <1>3, ReachIs
<1>6. RowsAreFirst(g, opt, seeds, W, R, N)
  BY <1>2, <1>3, <1>4, <1>5, WalkRowsAreFirst
<1>7. PICK rows : rows = W[N].rows
  OBVIOUS
<1>8. PICK links : links = [n \in 1 .. N |-> LedTo(g, opt, R[n - 1])]
  OBVIOUS
<1>9. ASSUME NEW f \in DOMAIN g.order \ Seeded(g, seeds)
      PROVE  /\ f \in DOMAIN rows <=> \E n \in DOMAIN links : f \in links[n]
             /\ f \in DOMAIN rows => /\ rows[f].hop \in DOMAIN links
                                     /\ f \in links[rows[f].hop]
                                     /\ \A n \in 1 .. rows[f].hop - 1 : f \notin links[n]
  <2>1. f \in DOMAIN rows <=> f \in LedTo(g, opt, MetBefore(R, N))
    BY <1>6, <1>7 DEF RowsAreFirst
  <2>2. ASSUME NEW n \in DOMAIN links, f \in links[n] PROVE f \in DOMAIN rows
    <3>1. n \in 1 .. N /\ f \in LedTo(g, opt, R[n - 1])
      BY <1>8, <2>2
    <3>2. MetBefore(R, N) = R[N - 1]
      BY <3>1 DEF MetBefore
    <3>3. R[n - 1] \subseteq R[N - 1]
      <4>1. N - 1 \in 0 .. N /\ n - 1 \in 0 .. N - 1
        BY <3>1
      <4> QED
        BY <1>3, <1>5, <4>1, ReachGrows
    <3> QED
      BY <2>1, <3>1, <3>2, <3>3, InLedTo
  <2>3. ASSUME f \in DOMAIN rows
        PROVE  /\ rows[f].hop \in DOMAIN links
               /\ f \in links[rows[f].hop]
               /\ \A n \in 1 .. rows[f].hop - 1 : f \notin links[n]
    <3>1. PICK k \in 1 .. N : k = rows[f].hop /\ FirstLed(g, opt, R, f, k)
      BY <1>6, <1>7, <2>3 DEF RowsAreFirst
    <3>2. f \in links[k]
      BY <1>8, <3>1 DEF FirstLed
    <3>3. ASSUME NEW n \in 1 .. k - 1 PROVE f \notin links[n]
      <4>1. f \notin LedTo(g, opt, R[n - 1])
        BY <3>1 DEF FirstLed
      <4>2. n \in 1 .. N
        BY <3>1
      <4> QED
        BY <1>8, <4>1, <4>2
    <3> QED
      BY <1>8, <3>1, <3>2, <3>3
  <2> QED
    BY <2>2, <2>3
<1>10. WalkIsReach(g, opt, seeds)
  <2>1. Reach(g, opt, seeds, "guess") = R /\ ImpactWalk(g, opt, seeds).rows = rows
    BY <1>4, <1>5, <1>7
  <2>2. [n \in 1 .. opt.hops |-> LedTo(g, opt, R[n - 1])] = links
    BY <1>3, <1>8
  <2>3. Seeded(g, seeds) = UNION {FilesOf(g, d) : d \in seeds}
    BY DEF Seeded
  <2>4. \A f \in DOMAIN g.order \ UNION {FilesOf(g, d) : d \in seeds} :
          /\ f \in DOMAIN rows <=> \E n \in DOMAIN links : f \in links[n]
          /\ f \in DOMAIN rows => /\ rows[f].hop \in DOMAIN links
                                  /\ f \in links[rows[f].hop]
                                  /\ \A n \in 1 .. rows[f].hop - 1 : f \notin links[n]
    BY <1>9, <2>3
  <2> QED
    BY <2>1, <2>2, <2>4, Zenon DEF WalkIsReach
<1> QED
  BY <1>1, <1>10

-----------------------------------------------------------------------------
(* The bus mark.                                                             *)

(* A def without the mark is reached by a path that crosses no bus hop.      *)
UnmarkedIsReached(W, C, n) ==
    W[n].frontier \subseteq W[n].seen /\ W[n].seen \ W[n].tainted \subseteq C[n]

(* A def new to the walk was met through a file that is no hub.              *)
LEMMA NewIsMetThrough ==
    ASSUME NEW g, NEW opt, NEW seeds, WellFormedWalk(g, opt, seeds), NEW w,
           NEW d \in New(g, opt, w), NEW f, f = Source(g, Through(g, opt, w), d)
    PROVE  f \in DOMAIN g.order /\ d \in DefsIn(g, f) /\ ~ IsHub(g, opt, f)
<1>1. PICK through : through = Through(g, opt, w)
  OBVIOUS
<1>2. \A e : e \in through <=>
               e \in DOMAIN g.order /\ \E x \in w.frontier : GoesOn(g, opt, x, e, "guess")
  BY <1>1, ThroughIs
<1>3. PICK e \in through : d \in DefsIn(g, e)
  BY <1>2, InBeyond DEF New
<1>4. f \in through \cap FilesOf(g, d)
  <2>1. g.order \in [DOMAIN g.order -> Nat]
    BY DEF WellFormedWalk
  <2>2. through \in SUBSET DOMAIN g.order
    BY <1>2
  <2> QED
    BY <1>1, <1>3, <2>1, <2>2, SourceIsMet
<1>5. d \in DefsIn(g, f)
  BY <1>3, <1>4 DEF DefsIn
<1> QED
  BY <1>2, <1>4, <1>5 DEF GoesOn

LEMMA UnmarkedAreReached ==
    ASSUME NEW g, NEW opt, NEW seeds, WellFormedWalk(g, opt, seeds),
           NEW W, Walked(g, opt, seeds, W),
           NEW C, Reached(g, opt, seeds, "bus", C)
    PROVE  \A n \in 0 .. opt.hops : UnmarkedIsReached(W, C, n)
<1>1. PICK N \in Nat : N = opt.hops
  BY DEF WellFormedWalk
<1> DEFINE S == {n \in 0 .. N : UnmarkedIsReached(W, C, n)}
<1>2. 0 \in S
  BY <1>1 DEF UnmarkedIsReached, Walked, Reached, WalkStart
<1>3. \A n \in 1 .. N : n - 1 \in S => n \in S
  <2> SUFFICES ASSUME NEW n \in 1 .. N, UnmarkedIsReached(W, C, n - 1)
               PROVE  UnmarkedIsReached(W, C, n)
    OBVIOUS
  <2>1. PICK w : w = W[n - 1]
    OBVIOUS
  <2>2. PICK v : v = W[n]
    OBVIOUS
  <2>3. HopLeaves(g, opt, Seeded(g, seeds), w, v)
    <3>1. v = Hop(g, opt, Seeded(g, seeds), w)
      BY <1>1, <2>1, <2>2 DEF Walked
    <3> QED
      BY <3>1, HopIs
  <2>4. w.frontier \subseteq w.seen /\ w.seen \ w.tainted \subseteq C[n - 1]
    BY <2>1 DEF UnmarkedIsReached
  <2>5. C[n] = C[n - 1] \cup Beyond(g, opt, C[n - 1], "bus")
    BY <1>1 DEF Reached
  <2>6. v.frontier = New(g, opt, w) /\ v.seen = w.seen \cup New(g, opt, w)
    BY <2>3 DEF HopLeaves
  <2>7. MarksAre(g, opt, w, v)
    BY <2>3 DEF HopLeaves
  <2>8. ASSUME NEW d \in v.seen \ v.tainted PROVE d \in C[n]
    <3>1. CASE d \in w.seen
      <4>1. d \notin w.tainted
        BY <2>7, <2>8 DEF MarksAre
      <4> QED
        BY <2>4, <2>5, <3>1, <4>1
    <3>2. CASE d \notin w.seen
      <4>1. d \in New(g, opt, w)
        BY <2>6, <3>2
      <4>2. PICK f : f = Source(g, Through(g, opt, w), d)
        OBVIOUS
      <4>3. HitAt(g, opt, w, f).clean
        BY <2>7, <4>1, <4>2 DEF MarksAre
      <4>4. PICK x \in w.frontier \ w.tainted :
              \E h \in HitsOf(g, opt, x) : h.file = f /\ h.slot # "bus"
        BY <4>3, CleanAt
      <4>5. f \in DOMAIN g.order /\ d \in DefsIn(g, f) /\ ~ IsHub(g, opt, f)
        BY <4>1, <4>2, NewIsMetThrough
      <4>6. GoesOn(g, opt, x, f, "bus")
        BY <4>4, <4>5 DEF GoesOn
      <4>7. x \in C[n - 1]
        BY <2>4, <4>4
      <4> QED
        BY <2>5, <4>5, <4>6, <4>7, InBeyond
    <3> QED
      BY <3>1, <3>2
  <2> QED
    BY <2>2, <2>6, <2>8 DEF UnmarkedIsReached
<1> HIDE DEF S
<1>4. \A n \in 0 .. N : n \in S
  BY <1>1, <1>2, <1>3, HopByHop
<1> QED
  BY <1>1, <1>4 DEF S

(* A row without the mark has such a def a link that is no bus hop before it. *)
CleanRow(g, opt, C, f, k) ==
    \E d \in C[k - 1] : \E h \in HitsOf(g, opt, d) : h.file = f /\ h.slot # "bus"

RowsAreClean(g, opt, W, C, n) ==
    \A f \in DOMAIN W[n].rows : ~ W[n].rows[f].busOnly =>
        W[n].rows[f].hop \in 1 .. n /\ CleanRow(g, opt, C, f, W[n].rows[f].hop)

LEMMA WalkRowsAreClean ==
    ASSUME NEW g, NEW opt, NEW seeds, WellFormedWalk(g, opt, seeds),
           NEW W, Walked(g, opt, seeds, W),
           NEW C, Reached(g, opt, seeds, "bus", C)
    PROVE  \A n \in 0 .. opt.hops : RowsAreClean(g, opt, W, C, n)
<1>1. PICK N \in Nat : N = opt.hops
  BY DEF WellFormedWalk
<1>2. PICK R : Reached(g, opt, seeds, "guess", R)
  BY <1>1, ReachIs
<1> DEFINE S == {n \in 0 .. N : RowsAreClean(g, opt, W, C, n)}
<1>3. 0 \in S
  <2>1. DOMAIN W[0].rows = {}
    BY DEF Walked, WalkStart
  <2> QED
    BY <1>1, <2>1 DEF RowsAreClean
<1>4. \A n \in 1 .. N : n - 1 \in S => n \in S
  <2> SUFFICES ASSUME NEW n \in 1 .. N, RowsAreClean(g, opt, W, C, n - 1)
               PROVE  RowsAreClean(g, opt, W, C, n)
    OBVIOUS
  <2>1. PICK w : w = W[n - 1]
    OBVIOUS
  <2>2. PICK v : v = W[n]
    OBVIOUS
  <2>3. HopLeaves(g, opt, Seeded(g, seeds), w, v)
    <3>1. v = Hop(g, opt, Seeded(g, seeds), w)
      BY <1>1, <2>1, <2>2 DEF Walked
    <3> QED
      BY <3>1, HopIs
  <2>4. n - 1 \in 0 .. N
    OBVIOUS
  <2>5. w.hop = n
    <3>1. MetIsReach(W, R, n - 1)
      BY <1>1, <1>2, <2>4, WalkMeetsReach
    <3> QED
      BY <2>1, <3>1 DEF MetIsReach
  <2>6. UnmarkedIsReached(W, C, n - 1)
    BY <1>1, <2>4, UnmarkedAreReached
  <2>7. w.frontier \ w.tainted \subseteq C[n - 1]
    BY <2>1, <2>6 DEF UnmarkedIsReached
  <2>8. PICK found : found = Found(g, opt, Seeded(g, seeds), w)
    OBVIOUS
  <2>9. /\ DOMAIN v.rows = DOMAIN w.rows \cup found
        /\ \A f \in DOMAIN w.rows : v.rows[f] = w.rows[f]
        /\ \A f \in found : v.rows[f] = Row(w.hop, IsHub(g, opt, f), HitAt(g, opt, w, f))
    BY <2>3, <2>8 DEF HopLeaves, RowsAre
  <2>10. ASSUME NEW f \in DOMAIN w.rows, ~ v.rows[f].busOnly
         PROVE  v.rows[f].hop \in 1 .. n /\ CleanRow(g, opt, C, f, v.rows[f].hop)
    <3>1. v.rows[f] = w.rows[f]
      BY <2>9
    <3>2. w.rows[f].hop \in 1 .. n - 1 /\ CleanRow(g, opt, C, f, w.rows[f].hop)
      BY <2>1, <2>10, <3>1 DEF RowsAreClean
    <3> QED
      BY <3>1, <3>2
  <2>11. ASSUME NEW f \in found, ~ v.rows[f].busOnly
         PROVE  v.rows[f].hop \in 1 .. n /\ CleanRow(g, opt, C, f, v.rows[f].hop)
    <3>1. v.rows[f].hop = n /\ HitAt(g, opt, w, f).clean
      <4>1. PICK row : row = Row(w.hop, IsHub(g, opt, f), HitAt(g, opt, w, f))
        OBVIOUS
      <4>2. v.rows[f] = row
        BY <2>9, <4>1
      <4>3. row.hop = n /\ (~ row.busOnly => HitAt(g, opt, w, f).clean)
        BY <2>5, <4>1, RowIs
      <4>4. ~ row.busOnly
        BY <2>11, <4>2
      <4> QED
        BY <4>2, <4>3, <4>4
    <3>2. PICK d \in w.frontier \ w.tainted :
            \E h \in HitsOf(g, opt, d) : h.file = f /\ h.slot # "bus"
      BY <3>1, CleanAt
    <3>3. CleanRow(g, opt, C, f, n)
      BY <2>7, <3>2 DEF CleanRow
    <3> QED
      BY <3>1, <3>3
  <2> QED
    BY <2>2, <2>9, <2>10, <2>11 DEF RowsAreClean
<1> HIDE DEF S
<1>5. \A n \in 0 .. N : n \in S
  BY <1>1, <1>3, <1>4, HopByHop
<1> QED
  BY <1>1, <1>5 DEF S

(* note_bus, note_taint: a row without the bus mark stands on a path that    *)
(* crosses no bus hop.                                                       *)
THEOREM UnmarkedHasCleanPathHolds ==
    ASSUME QuestionOK
    PROVE  UnmarkedHasCleanPath
<1> SUFFICES ASSUME About("impact")
             PROVE  WalkKeepsCleanPaths(question.g, question.opt, question.seeds)
  BY DEF UnmarkedHasCleanPath
<1>1. PICK g, opt, seeds : g = question.g /\ opt = question.opt /\ seeds = question.seeds
  OBVIOUS
<1>2. WellFormedWalk(g, opt, seeds)
  BY <1>1 DEF QuestionOK
<1>3. PICK N \in Nat : N = opt.hops
  BY <1>2 DEF WellFormedWalk
<1>4. PICK W : Walked(g, opt, seeds, W) /\ ImpactWalk(g, opt, seeds) = W[N]
  BY <1>3, WalkIs
<1>5. PICK C : C = Reach(g, opt, seeds, "bus") /\ Reached(g, opt, seeds, "bus", C)
  BY <1>3, ReachIs
<1>6. RowsAreClean(g, opt, W, C, N)
  BY <1>2, <1>3, <1>4, <1>5, WalkRowsAreClean
<1>7. WalkKeepsCleanPaths(g, opt, seeds)
  BY <1>3, <1>4, <1>5, <1>6 DEF RowsAreClean, CleanRow, WalkKeepsCleanPaths
<1> QED
  BY <1>1, <1>7

-----------------------------------------------------------------------------
(* The brakes.                                                               *)

(* A walk with no brakes.                                                    *)
Freed(g) == [g EXCEPT !.infra = {}]
FreeOf(opt) == [opt EXCEPT !.maxFanin = 0, !.maxHub = 0]

Unbraked(w) == w.braked = {} /\ w.brakedFiles = {}

(* What has been braked stays reported.                                      *)
LEMMA BrakesStay ==
    ASSUME NEW g, NEW opt, NEW seeds, WellFormedWalk(g, opt, seeds),
           NEW W, Walked(g, opt, seeds, W), Unbraked(W[opt.hops])
    PROVE  \A n \in 0 .. opt.hops : Unbraked(W[n])
<1>1. PICK N \in Nat : N = opt.hops
  BY DEF WellFormedWalk
<1> DEFINE S == {n \in 0 .. N : Unbraked(W[N - n])}
<1>2. 0 \in S
  BY <1>1
<1>3. \A n \in 1 .. N : n - 1 \in S => n \in S
  <2> SUFFICES ASSUME NEW n \in 1 .. N, Unbraked(W[N - (n - 1)]) PROVE Unbraked(W[N - n])
    OBVIOUS
  <2>1. PICK m \in 1 .. N : m = N - (n - 1) /\ m - 1 = N - n
    BY <1>1
  <2>2. HopLeaves(g, opt, Seeded(g, seeds), W[m - 1], W[m])
    <3>1. W[m] = Hop(g, opt, Seeded(g, seeds), W[m - 1])
      BY <1>1 DEF Walked
    <3> QED
      BY <3>1, HopIs
  <2>3. W[m - 1].braked \subseteq W[m].braked /\ W[m - 1].brakedFiles \subseteq W[m].brakedFiles
    BY <2>2 DEF HopLeaves, BrakesAre
  <2> QED
    BY <2>1, <2>3 DEF Unbraked
<1> HIDE DEF S
<1>4. \A n \in 0 .. N : n \in S
  BY <1>1, <1>2, <1>3, HopByHop
<1>5. ASSUME NEW n \in 0 .. N PROVE Unbraked(W[n])
  <2>1. N - n \in 0 .. N /\ N - (N - n) = n
    OBVIOUS
  <2> QED
    BY <1>4, <2>1 DEF S
<1> QED
  BY <1>1, <1>5

LEMMA FreedIs ==
    ASSUME NEW g, NEW opt, NEW seeds, WellFormedWalk(g, opt, seeds)
    PROVE  /\ Freed(g).primary = g.primary /\ Freed(g).also = g.also
           /\ Freed(g).interfaces = g.interfaces /\ Freed(g).infra = {}
           /\ Freed(g).edges = g.edges /\ Freed(g).order = g.order
           /\ FreeOf(opt).hops = opt.hops /\ FreeOf(opt).iface = opt.iface
           /\ FreeOf(opt).maxFanin = 0 /\ FreeOf(opt).maxHub = 0
           /\ FreeOf(opt).guesses = opt.guesses /\ FreeOf(opt).bus = opt.bus
<1>1. DOMAIN g = {"primary", "also", "interfaces", "infra", "edges", "order"}
  BY DEF WellFormedWalk
<1>2. DOMAIN opt = {"hops", "iface", "maxFanin", "maxHub", "guesses", "bus"}
  BY DEF WellFormedWalk
<1>3. /\ Freed(g).primary = g.primary /\ Freed(g).also = g.also
      /\ Freed(g).interfaces = g.interfaces /\ Freed(g).infra = {}
      /\ Freed(g).edges = g.edges /\ Freed(g).order = g.order
  BY <1>1 DEF Freed
<1>4. /\ FreeOf(opt).hops = opt.hops /\ FreeOf(opt).iface = opt.iface
      /\ FreeOf(opt).maxFanin = 0 /\ FreeOf(opt).maxHub = 0
      /\ FreeOf(opt).guesses = opt.guesses /\ FreeOf(opt).bus = opt.bus
  BY <1>2 DEF FreeOf
<1> QED
  BY <1>3, <1>4

LEMMA FreedIsWellFormed ==
    ASSUME NEW g, NEW opt, NEW seeds, WellFormedWalk(g, opt, seeds)
    PROVE  WellFormedWalk(Freed(g), FreeOf(opt), seeds)
  BY DEF WellFormedWalk, Freed, FreeOf

(* Links, files and defs are the same to a walk with no brakes, but for the  *)
(* interfaces it does not refuse.                                            *)
LEMMA FreedFiles ==
    ASSUME NEW g, NEW opt, NEW seeds, WellFormedWalk(g, opt, seeds)
    PROVE  /\ \A d : FilesOf(Freed(g), d) = FilesOf(g, d)
           /\ \A f : DefsIn(Freed(g), f) = DefsIn(g, f)
           /\ Seeded(Freed(g), seeds) = Seeded(g, seeds)
           /\ \A f : ~ IsHub(Freed(g), FreeOf(opt), f)
<1>1. \A d : FilesOf(Freed(g), d) = FilesOf(g, d)
  BY FreedIs DEF FilesOf
<1>2. \A f : DefsIn(Freed(g), f) = DefsIn(g, f)
  BY <1>1, FreedIs DEF DefsIn
<1>3. Seeded(Freed(g), seeds) = Seeded(g, seeds)
  BY <1>1 DEF Seeded
<1>4. \A f : ~ IsHub(Freed(g), FreeOf(opt), f)
  <2>1. Freed(g).infra = {} /\ ~(FreeOf(opt).maxHub > 0)
    BY FreedIs
  <2> QED
    BY <2>1 DEF IsHub
<1> QED
  BY <1>1, <1>2, <1>3, <1>4

LEMMA FreedHits ==
    ASSUME NEW g, NEW opt, NEW seeds, WellFormedWalk(g, opt, seeds),
           NEW d, \A i \in Interfaces(g, opt, d) : ~ IsBroad(g, opt, i)
    PROVE  HitsOf(Freed(g), FreeOf(opt), d) = HitsOf(g, opt, d)
<1>1. PICK G, O : G = Freed(g) /\ O = FreeOf(opt)
  OBVIOUS
<1>2. /\ G.primary = g.primary /\ G.also = g.also /\ G.interfaces = g.interfaces
      /\ G.edges = g.edges
      /\ O.iface = opt.iface /\ O.maxFanin = 0 /\ O.guesses = opt.guesses /\ O.bus = opt.bus
  BY <1>1, FreedIs
<1>3. FilesOf(G, d) = FilesOf(g, d)
  BY <1>1, FreedFiles
<1>4. \A e : Admitted(O, e) <=> Admitted(opt, e)
  BY <1>2 DEF Admitted
<1>5. ReverseHits(G, O, d) = ReverseHits(g, opt, d)
  BY <1>2, <1>4 DEF ReverseHits
<1>6. ForwardHits(G, O, d) = ForwardHits(g, opt, d)
  BY <1>2, <1>3, <1>4 DEF ForwardHits
<1>7. Implemented(G, d) = Implemented(g, d)
  BY <1>2, <1>3 DEF Implemented
<1>8. IfaceHits(G, O, d) = IfaceHits(g, opt, d)
  <2>1. CASE ~ opt.iface
    BY <1>2, <2>1 DEF IfaceHits
  <2>2. CASE opt.iface
    <3>1. \A i : ~ IsBroad(G, O, i)
      <4>1. ~(O.maxFanin > 0)
        BY <1>2
      <4> QED
        BY <4>1 DEF IsBroad
    <3>2. ASSUME NEW e \in g.edges, e.kind = "ctor" /\ e.to = d
          PROVE  ~ IsBroad(g, opt, e.iface)
      BY <2>2, <3>2 DEF Interfaces
    <3>3. ASSUME NEW e \in g.edges, e.kind = "uses" /\ e.to \in Implemented(g, d)
          PROVE  ~ IsBroad(g, opt, e.to)
      <4>1. e.kind \in Precise /\ Admitted(opt, e)
        BY <3>3 DEF Precise, Admitted
      <4>2. e.to \in Interfaces(g, opt, d)
        BY <2>2, <3>3, <4>1 DEF Interfaces
      <4> QED
        BY <4>2
    <3>4. PICK E : E = {e \in g.edges : \/ e.kind = "ctor" /\ e.to = d
                                        \/ e.kind = "uses" /\ e.to \in Implemented(g, d)}
      OBVIOUS
    <3>5. {e \in g.edges : \/ e.kind = "ctor" /\ e.to = d /\ ~ IsBroad(g, opt, e.iface)
                           \/ /\ e.kind = "uses" /\ e.to \in Implemented(g, d)
                              /\ ~ IsBroad(g, opt, e.to)} = E
      BY <3>2, <3>3, <3>4
    <3>6. {e \in G.edges : \/ e.kind = "ctor" /\ e.to = d /\ ~ IsBroad(G, O, e.iface)
                           \/ /\ e.kind = "uses" /\ e.to \in Implemented(G, d)
                              /\ ~ IsBroad(G, O, e.to)} = E
      BY <1>2, <1>7, <3>1, <3>4
    <3>7. IfaceHits(g, opt, d) = {[file |-> e.from, slot |-> "iface"] : e \in E}
      BY <2>2, <3>5 DEF IfaceHits
    <3>8. IfaceHits(G, O, d) = {[file |-> e.from, slot |-> "iface"] : e \in E}
      BY <1>2, <2>2, <3>6 DEF IfaceHits
    <3> QED
      BY <3>7, <3>8
  <2> QED
    BY <2>1, <2>2
<1> QED
  BY <1>1, <1>5, <1>6, <1>8 DEF HitsOf

(* A hop that reports nothing is the hop of a walk with no brakes.           *)
LEMMA UnbrakedHop ==
    ASSUME NEW g, NEW opt, NEW seeds, WellFormedWalk(g, opt, seeds), NEW w, NEW v,
           HopLeaves(g, opt, Seeded(g, seeds), w, v), Unbraked(v),
           NEW fw, fw.frontier = w.frontier, fw.seen = w.seen, DOMAIN fw.rows = DOMAIN w.rows,
           NEW fv, HopLeaves(Freed(g), FreeOf(opt), Seeded(g, seeds), fw, fv)
    PROVE  /\ DOMAIN fv.rows = DOMAIN v.rows
           /\ w.hop < opt.hops => fv.frontier = v.frontier /\ fv.seen = v.seen
<1>1. PICK G, O : G = Freed(g) /\ O = FreeOf(opt)
  OBVIOUS
<1>2. ASSUME NEW d \in w.frontier PROVE HitsOf(G, O, d) = HitsOf(g, opt, d)
  <2>1. \A i \in Interfaces(g, opt, d) : ~ IsBroad(g, opt, i)
    BY DEF HopLeaves, BrakesAre, Unbraked
  <2> QED
    BY <1>1, <2>1, FreedHits
<1>3. LedTo(G, O, w.frontier) = LedTo(g, opt, w.frontier)
  BY <1>2 DEF LedTo
<1>4. DOMAIN fv.rows = DOMAIN v.rows
  <2>1. DOMAIN v.rows = DOMAIN w.rows \cup Found(g, opt, Seeded(g, seeds), w)
    BY DEF HopLeaves, RowsAre
  <2>2. DOMAIN fv.rows = DOMAIN fw.rows \cup Found(G, O, Seeded(g, seeds), fw)
    BY <1>1 DEF HopLeaves, RowsAre
  <2>3. Found(G, O, Seeded(g, seeds), fw) = Found(g, opt, Seeded(g, seeds), w)
    BY <1>3 DEF Found
  <2> QED
    BY <2>1, <2>2, <2>3
<1>5. ASSUME w.hop < opt.hops PROVE New(G, O, fw) = New(g, opt, w)
  <2>1. ASSUME NEW f, NEW d \in w.frontier
        PROVE  GoesOn(G, O, d, f, "guess") <=> GoesOn(g, opt, d, f, "guess")
    <3>1. ASSUME NEW h \in HitsOf(g, opt, d), h.file = f, h.slot # "guess"
          PROVE  ~ IsHub(g, opt, f)
      <4>1. f \in LedTo(g, opt, w.frontier)
        BY <3>1, InLedTo
      <4>2. ~ HoldsBack(g, opt, w.hop, f, HitAt(g, opt, w, f))
        BY <4>1 DEF HopLeaves, BrakesAre, Unbraked
      <4>3. ~ (HitAt(g, opt, w, f).slots \subseteq {"guess"})
        BY <3>1, SlotsAt
      <4> QED
        BY <1>5, <4>2, <4>3 DEF HoldsBack
    <3>2. ~ IsHub(G, O, f)
      BY <1>1, FreedFiles
    <3> QED
      BY <1>2, <3>1, <3>2 DEF GoesOn
  <2>2. DOMAIN G.order = DOMAIN g.order /\ \A f : DefsIn(G, f) = DefsIn(g, f)
    BY <1>1, FreedIs, FreedFiles
  <2>3. \A x : x \in Beyond(G, O, w.frontier, "guess") <=> x \in Beyond(g, opt, w.frontier, "guess")
    BY <2>1, <2>2, InBeyond
  <2> QED
    BY <2>3 DEF New
<1>6. /\ v.frontier = New(g, opt, w) /\ v.seen = w.seen \cup New(g, opt, w)
      /\ fv.frontier = New(G, O, fw) /\ fv.seen = fw.seen \cup New(G, O, fw)
  BY <1>1 DEF HopLeaves
<1> QED
  BY <1>4, <1>5, <1>6

SameSoFar(N, W, F, n) ==
    /\ DOMAIN F[n].rows = DOMAIN W[n].rows
    /\ n < N => F[n].frontier = W[n].frontier /\ F[n].seen = W[n].seen

LEMMA UnbrakedWalksAgree ==
    ASSUME NEW g, NEW opt, NEW seeds, WellFormedWalk(g, opt, seeds),
           NEW W, Walked(g, opt, seeds, W), Unbraked(W[opt.hops]),
           NEW F, Walked(Freed(g), FreeOf(opt), seeds, F)
    PROVE  DOMAIN F[opt.hops].rows = DOMAIN W[opt.hops].rows
<1>1. PICK N \in Nat : N = opt.hops /\ N = FreeOf(opt).hops
  <2>1. opt.hops \in Nat
    BY DEF WellFormedWalk
  <2> QED
    BY <2>1, FreedIs
<1>2. PICK R : Reached(g, opt, seeds, "guess", R)
  BY <1>1, ReachIs
<1> DEFINE S == {n \in 0 .. N : SameSoFar(N, W, F, n)}
<1>3. 0 \in S
  <2>1. F[0] = WalkStart(Freed(g), seeds) /\ W[0] = WalkStart(g, seeds)
    BY DEF Walked
  <2>2. WalkStart(Freed(g), seeds) = WalkStart(g, seeds)
    BY DEF WalkStart
  <2> QED
    BY <2>1, <2>2 DEF SameSoFar
<1>4. \A n \in 1 .. N : n - 1 \in S => n \in S
  <2> SUFFICES ASSUME NEW n \in 1 .. N, SameSoFar(N, W, F, n - 1) PROVE SameSoFar(N, W, F, n)
    OBVIOUS
  <2>1. n - 1 \in 0 .. N /\ n - 1 < N /\ n \in 0 .. N
    OBVIOUS
  <2>2. PICK w, v, fw, fv : w = W[n - 1] /\ v = W[n] /\ fw = F[n - 1] /\ fv = F[n]
    OBVIOUS
  <2>3. HopLeaves(g, opt, Seeded(g, seeds), w, v)
    <3>1. v = Hop(g, opt, Seeded(g, seeds), w)
      BY <1>1, <2>2 DEF Walked
    <3> QED
      BY <3>1, HopIs
  <2>4. HopLeaves(Freed(g), FreeOf(opt), Seeded(g, seeds), fw, fv)
    <3>1. fv = Hop(Freed(g), FreeOf(opt), Seeded(Freed(g), seeds), fw)
      BY <1>1, <2>2 DEF Walked
    <3>2. Seeded(Freed(g), seeds) = Seeded(g, seeds)
      BY FreedFiles
    <3>3. WellFormedWalk(Freed(g), FreeOf(opt), seeds)
      BY FreedIsWellFormed
    <3> QED
      BY <3>1, <3>2, <3>3, HopIs
  <2>5. Unbraked(v)
    BY <1>1, <2>1, <2>2, BrakesStay
  <2>6. fw.frontier = w.frontier /\ fw.seen = w.seen /\ DOMAIN fw.rows = DOMAIN w.rows
    BY <2>1, <2>2 DEF SameSoFar
  <2>7. w.hop = n
    <3>1. MetIsReach(W, R, n - 1)
      BY <1>1, <1>2, <2>1, WalkMeetsReach
    <3> QED
      BY <2>2, <3>1 DEF MetIsReach
  <2>8. /\ DOMAIN fv.rows = DOMAIN v.rows
        /\ w.hop < opt.hops => fv.frontier = v.frontier /\ fv.seen = v.seen
    BY <2>3, <2>4, <2>5, <2>6, UnbrakedHop
  <2> QED
    BY <1>1, <2>2, <2>7, <2>8 DEF SameSoFar
<1> HIDE DEF S
<1>5. \A n \in 0 .. N : n \in S
  BY <1>1, <1>3, <1>4, HopByHop
<1>6. SameSoFar(N, W, F, N)
  BY <1>5 DEF S
<1> QED
  BY <1>1, <1>6 DEF SameSoFar

(* brake_fanin, is_infra_file: whatever the brakes keep out of the answer,   *)
(* the answer names an interface or a file it did not go on through.         *)
THEOREM NarrowingIsReportedHolds ==
    ASSUME QuestionOK
    PROVE  NarrowingIsReported
<1> SUFFICES ASSUME About("impact")
             PROVE  WalkReportsNarrowing(question.g, question.opt, question.seeds)
  BY DEF NarrowingIsReported
<1>1. PICK g, opt, seeds : g = question.g /\ opt = question.opt /\ seeds = question.seeds
  OBVIOUS
<1>2. WellFormedWalk(g, opt, seeds)
  BY <1>1 DEF QuestionOK
<1>3. PICK N \in Nat : N = opt.hops /\ N = FreeOf(opt).hops
  <2>1. opt.hops \in Nat
    BY <1>2 DEF WellFormedWalk
  <2> QED
    BY <1>2, <2>1, FreedIs
<1>4. PICK W : Walked(g, opt, seeds, W) /\ ImpactWalk(g, opt, seeds) = W[N]
  <2>1. opt.hops \in Nat
    BY <1>3
  <2>2. \E W : Walked(g, opt, seeds, W) /\ ImpactWalk(g, opt, seeds) = W[opt.hops]
    BY <2>1, WalkIs
  <2> QED
    BY <1>3, <2>2
<1>5. PICK F : /\ Walked(Freed(g), FreeOf(opt), seeds, F)
               /\ ImpactWalk(Freed(g), FreeOf(opt), seeds) = F[N]
  <2>1. PICK G, O : G = Freed(g) /\ O = FreeOf(opt)
    OBVIOUS
  <2>2. \E F : Walked(G, O, seeds, F) /\ ImpactWalk(G, O, seeds) = F[O.hops]
    BY <1>3, <2>1, WalkIs
  <2> QED
    BY <1>3, <2>1, <2>2
<1>6. ASSUME Unbraked(W[N]) PROVE DOMAIN F[N].rows = DOMAIN W[N].rows
  <2>1. Unbraked(W[opt.hops]) /\ Walked(g, opt, seeds, W)
    BY <1>3, <1>4, <1>6
  <2>2. DOMAIN F[opt.hops].rows = DOMAIN W[opt.hops].rows
    BY <1>2, <1>5, <2>1, UnbrakedWalksAgree
  <2> QED
    BY <1>3, <2>2
<1>7. DOMAIN W[N].rows # DOMAIN F[N].rows => W[N].braked \cup W[N].brakedFiles # {}
  BY <1>6 DEF Unbraked
<1>8. WalkReportsNarrowing(g, opt, seeds)
  BY <1>4, <1>5, <1>7 DEF WalkReportsNarrowing, Freed, FreeOf
<1> QED
  BY <1>1, <1>8
-----------------------------------------------------------------------------
(* The two ledgers of a run with compiler facts.                             *)

IsResolving(sites, refs, N, L) ==
    L = [n \in 0 .. N |-> IF n = 0 THEN EmptyLedger
                          ELSE ResolveReference(L[n - 1], sites, n, refs[n])]
IsProjecting(resolved, sites, seen, N, L) ==
    L = [n \in 0 .. N |-> IF n = 0 THEN resolved
                          ELSE IF n \in seen THEN L[n - 1] ELSE Project(L[n - 1], sites, n)]

Resolving(sites, refs, L) ==
    /\ L[0] = EmptyLedger
    /\ \A n \in 1 .. Len(refs) : L[n] = ResolveReference(L[n - 1], sites, n, refs[n])
Projecting(resolved, sites, seen, L) ==
    /\ L[0] = resolved
    /\ \A n \in 1 .. Len(sites) :
          L[n] = IF n \in seen THEN L[n - 1] ELSE Project(L[n - 1], sites, n)

LEMMA ResolvingExists ==
    ASSUME NEW sites, NEW refs, NEW N \in Nat
    PROVE  \E L : IsResolving(sites, refs, N, L)
<1> DEFINE S == {n \in 0 .. N : \E L : IsResolving(sites, refs, n, L)}
<1>1. 0 \in S
  <2>1. PICK L : L = [n \in 0 .. 0 |-> EmptyLedger]
    OBVIOUS
  <2>2. IsResolving(sites, refs, 0, L)
    BY <2>1 DEF IsResolving
  <2> QED
    BY <2>2
<1>2. \A n \in 1 .. N : n - 1 \in S => n \in S
  <2> SUFFICES ASSUME NEW n \in 1 .. N, n - 1 \in S PROVE n \in S
    OBVIOUS
  <2>1. PICK V : IsResolving(sites, refs, n - 1, V)
    OBVIOUS
  <2>2. PICK next : next = ResolveReference(V[n - 1], sites, n, refs[n])
    OBVIOUS
  <2>3. PICK L : L = [m \in 0 .. n |-> IF m = n THEN next ELSE V[m]]
    OBVIOUS
  <2>4. L = [m \in 0 .. n |-> IF m = 0 THEN EmptyLedger
                              ELSE ResolveReference(L[m - 1], sites, m, refs[m])]
    <3> SUFFICES ASSUME NEW m \in 0 .. n
                 PROVE  L[m] = IF m = 0 THEN EmptyLedger
                               ELSE ResolveReference(L[m - 1], sites, m, refs[m])
      BY <2>3
    <3>1. CASE m = n
      <4>1. L[m] = next /\ m # 0 /\ L[m - 1] = V[n - 1]
        BY <2>3, <3>1
      <4> QED
        BY <4>1, <2>2, <3>1
    <3>2. CASE m # n
      <4>1. m \in 0 .. n - 1 /\ L[m] = V[m] /\ (m # 0 => L[m - 1] = V[m - 1])
        BY <2>3, <3>2
      <4>2. V[m] = IF m = 0 THEN EmptyLedger
                   ELSE ResolveReference(V[m - 1], sites, m, refs[m])
        BY <2>1, <4>1 DEF IsResolving
      <4> QED
        BY <4>1, <4>2
    <3> QED
      BY <3>1, <3>2
  <2>5. IsResolving(sites, refs, n, L)
    BY <2>4 DEF IsResolving
  <2> QED
    BY <2>5
<1>3. N \in S
  <2> HIDE DEF S
  <2>1. \A n \in 0 .. N : n \in S
    BY <1>1, <1>2, HopByHop
  <2> QED
    BY <2>1
<1> QED
  BY <1>3

LEMMA ResolvingIs ==
    ASSUME NEW sites, NEW refs, Len(refs) \in Nat
    PROVE  \E L : Resolving(sites, refs, L) /\ ResolveAll(sites, refs) = L[Len(refs)]
<1>1. PICK N : N = Len(refs)
  OBVIOUS
<1>2. PICK V : IsResolving(sites, refs, N, V)
  BY <1>1, ResolvingExists
<1>3. PICK L : L = CHOOSE U : IsResolving(sites, refs, N, U)
  OBVIOUS
<1>4. IsResolving(sites, refs, N, L)
  BY <1>2, <1>3
<1>5. ResolveAll(sites, refs) = L[N]
  BY <1>1, <1>3 DEF ResolveAll, IsResolving
<1>6. Resolving(sites, refs, L)
  <2>1. L[0] = EmptyLedger
    BY <1>1, <1>4 DEF IsResolving
  <2>2. ASSUME NEW n \in 1 .. N PROVE L[n] = ResolveReference(L[n - 1], sites, n, refs[n])
    <3>1. n \in 0 .. N /\ n # 0
      BY <1>1
    <3> QED
      BY <3>1, <1>4 DEF IsResolving
  <2> QED
    BY <2>1, <2>2, <1>1 DEF Resolving
<1> QED
  BY <1>1, <1>5, <1>6

LEMMA ProjectingExists ==
    ASSUME NEW resolved, NEW sites, NEW seen, NEW N \in Nat
    PROVE  \E L : IsProjecting(resolved, sites, seen, N, L)
<1> DEFINE S == {n \in 0 .. N : \E L : IsProjecting(resolved, sites, seen, n, L)}
<1>1. 0 \in S
  <2>1. PICK L : L = [n \in 0 .. 0 |-> resolved]
    OBVIOUS
  <2>2. IsProjecting(resolved, sites, seen, 0, L)
    BY <2>1 DEF IsProjecting
  <2> QED
    BY <2>2
<1>2. \A n \in 1 .. N : n - 1 \in S => n \in S
  <2> SUFFICES ASSUME NEW n \in 1 .. N, n - 1 \in S PROVE n \in S
    OBVIOUS
  <2>1. PICK V : IsProjecting(resolved, sites, seen, n - 1, V)
    OBVIOUS
  <2>2. PICK next : next = IF n \in seen THEN V[n - 1] ELSE Project(V[n - 1], sites, n)
    OBVIOUS
  <2>3. PICK L : L = [m \in 0 .. n |-> IF m = n THEN next ELSE V[m]]
    OBVIOUS
  <2>4. L = [m \in 0 .. n |-> IF m = 0 THEN resolved
                              ELSE IF m \in seen THEN L[m - 1] ELSE Project(L[m - 1], sites, m)]
    <3> SUFFICES ASSUME NEW m \in 0 .. n
                 PROVE  L[m] = IF m = 0 THEN resolved
                               ELSE IF m \in seen THEN L[m - 1] ELSE Project(L[m - 1], sites, m)
      BY <2>3
    <3>1. CASE m = n
      <4>1. L[m] = next /\ m # 0 /\ L[m - 1] = V[n - 1]
        BY <2>3, <3>1
      <4> QED
        BY <4>1, <2>2, <3>1
    <3>2. CASE m # n
      <4>1. m \in 0 .. n - 1 /\ L[m] = V[m] /\ (m # 0 => L[m - 1] = V[m - 1])
        BY <2>3, <3>2
      <4>2. V[m] = IF m = 0 THEN resolved
                   ELSE IF m \in seen THEN V[m - 1] ELSE Project(V[m - 1], sites, m)
        BY <2>1, <4>1 DEF IsProjecting
      <4> QED
        BY <4>1, <4>2
    <3> QED
      BY <3>1, <3>2
  <2>5. IsProjecting(resolved, sites, seen, n, L)
    BY <2>4 DEF IsProjecting
  <2> QED
    BY <2>5
<1>3. N \in S
  <2> HIDE DEF S
  <2>1. \A n \in 0 .. N : n \in S
    BY <1>1, <1>2, HopByHop
  <2> QED
    BY <2>1
<1> QED
  BY <1>3

LEMMA ProjectingIs ==
    ASSUME NEW resolved, NEW sites, NEW seen, Len(sites) \in Nat
    PROVE  \E L : Projecting(resolved, sites, seen, L) /\ ProjectUnseen(resolved, sites, seen) = L[Len(sites)]
<1>1. PICK N : N = Len(sites)
  OBVIOUS
<1>2. PICK V : IsProjecting(resolved, sites, seen, N, V)
  BY <1>1, ProjectingExists
<1>3. PICK L : L = CHOOSE U : IsProjecting(resolved, sites, seen, N, U)
  OBVIOUS
<1>4. IsProjecting(resolved, sites, seen, N, L)
  BY <1>2, <1>3
<1>5. ProjectUnseen(resolved, sites, seen) = L[N]
  BY <1>1, <1>3 DEF ProjectUnseen, IsProjecting
<1>6. Projecting(resolved, sites, seen, L)
  <2>1. L[0] = resolved
    BY <1>1, <1>4 DEF IsProjecting
  <2>2. ASSUME NEW n \in 1 .. N PROVE L[n] = IF n \in seen THEN L[n - 1] ELSE Project(L[n - 1], sites, n)
    <3>1. n \in 0 .. N /\ n # 0
      BY <1>1
    <3> QED
      BY <3>1, <1>4 DEF IsProjecting
  <2> QED
    BY <2>1, <2>2, <1>1 DEF Projecting
<1> QED
  BY <1>1, <1>5, <1>6

-----------------------------------------------------------------------------
(* Counting edges.                                                           *)

BySource(edges, b) == Cardinality({e \in edges : e.by = b})

LEMMA CountType ==
    ASSUME NEW E, IsFiniteSet(E)
    PROVE  /\ \A t : CountOf(E, t) \in Nat
           /\ \A b : BySource(E, b) \in Nat
<1>1. ASSUME NEW t PROVE CountOf(E, t) \in Nat
  <2>1. {e \in E : e.tier = t} \in SUBSET E
    OBVIOUS
  <2>2. IsFiniteSet({e \in E : e.tier = t})
    BY <2>1, FS_Subset
  <2> QED
    BY <2>2, FS_CardinalityType DEF CountOf
<1>2. ASSUME NEW b PROVE BySource(E, b) \in Nat
  <2>1. {e \in E : e.by = b} \in SUBSET E
    OBVIOUS
  <2>2. IsFiniteSet({e \in E : e.by = b})
    BY <2>1, FS_Subset
  <2> QED
    BY <2>2, FS_CardinalityType DEF BySource
<1> QED
  BY <1>1, <1>2

LEMMA DisjointSum ==
    ASSUME NEW A, NEW B, IsFiniteSet(A), IsFiniteSet(B), A \cap B = {}
    PROVE  Cardinality(A \cup B) = Cardinality(A) + Cardinality(B)
<1>1. Cardinality(A \cup B) = Cardinality(A) + Cardinality(B) - Cardinality(A \cap B)
  BY FS_Union
<1>2. Cardinality(A \cap B) = 0
  BY FS_EmptySet
<1>3. Cardinality(A) \in Nat /\ Cardinality(B) \in Nat
  BY FS_CardinalityType
<1> QED
  BY <1>1, <1>2, <1>3

SumsOf(E, F) ==
    /\ IsFiniteSet(E \cup F)
    /\ \A t : CountOf(E \cup F, t) = CountOf(E, t) + CountOf(F, t)
    /\ \A b : BySource(E \cup F, b) = BySource(E, b) + BySource(F, b)

LEMMA CountsAdd ==
    ASSUME NEW E, NEW F, IsFiniteSet(E), IsFiniteSet(F), E \cap F = {}
    PROVE  SumsOf(E, F)
<1>1. IsFiniteSet(E \cup F)
  BY FS_Union
<1>2. ASSUME NEW t PROVE CountOf(E \cup F, t) = CountOf(E, t) + CountOf(F, t)
  <2>1. PICK A, B : A = {e \in E : e.tier = t} /\ B = {e \in F : e.tier = t}
    OBVIOUS
  <2>2. A \in SUBSET E /\ B \in SUBSET F /\ A \cap B = {}
    BY <2>1
  <2>3. IsFiniteSet(A) /\ IsFiniteSet(B)
    BY <2>2, FS_Subset
  <2>4. {e \in E \cup F : e.tier = t} = A \cup B
    BY <2>1
  <2>5. Cardinality(A \cup B) = Cardinality(A) + Cardinality(B)
    BY <2>2, <2>3, DisjointSum
  <2> QED
    BY <2>1, <2>4, <2>5 DEF CountOf
<1>3. ASSUME NEW b PROVE BySource(E \cup F, b) = BySource(E, b) + BySource(F, b)
  <2>1. PICK A, B : A = {e \in E : e.by = b} /\ B = {e \in F : e.by = b}
    OBVIOUS
  <2>2. A \in SUBSET E /\ B \in SUBSET F /\ A \cap B = {}
    BY <2>1
  <2>3. IsFiniteSet(A) /\ IsFiniteSet(B)
    BY <2>2, FS_Subset
  <2>4. {e \in E \cup F : e.by = b} = A \cup B
    BY <2>1
  <2>5. Cardinality(A \cup B) = Cardinality(A) + Cardinality(B)
    BY <2>2, <2>3, DisjointSum
  <2> QED
    BY <2>1, <2>4, <2>5 DEF BySource
<1> QED
  BY <1>1, <1>2, <1>3 DEF SumsOf

(* Precise edges of one source are counted there and nowhere else.           *)
PreciseBy(E, by) ==
    /\ CountOf(E, "precise") = Cardinality(E) /\ BySource(E, by) = Cardinality(E)
    /\ CountOf(E, "ext") = 0 /\ CountOf(E, "guess") = 0
    /\ \A b : b # by => BySource(E, b) = 0

LEMMA CountsOfAKind ==
    ASSUME NEW E, NEW by, \A e \in E : e.tier = "precise" /\ e.by = by
    PROVE  PreciseBy(E, by)
<1>1. {e \in E : e.tier = "precise"} = E /\ {e \in E : e.by = by} = E
  OBVIOUS
<1>2. ASSUME NEW t, t # "precise" PROVE CountOf(E, t) = 0
  <2>1. {e \in E : e.tier = t} = {}
    BY <1>2
  <2> QED
    BY <2>1, FS_EmptySet DEF CountOf
<1>3. ASSUME NEW b, b # by PROVE BySource(E, b) = 0
  <2>1. {e \in E : e.by = b} = {}
    BY <1>3
  <2> QED
    BY <2>1, FS_EmptySet DEF BySource
<1> QED
  BY <1>1, <1>2, <1>3 DEF CountOf, BySource, PreciseBy

-----------------------------------------------------------------------------
(* A lookup at a site.                                                       *)

LEMMA PlacesIs ==
    ASSUME NEW o
    PROVE  Places(o) <=> /\ o.resolution = "confirmed" /\ o.def # NoDef
                         /\ o.state \in {"complete", "absent"}
<1>1. CASE o.state \in {"complete", "absent"}
  <2>1. CASE o.resolution \in {"confirmed", "ambiguous", "unresolved"}
    BY <1>1, <2>1 DEF Places, Uncertainty
  <2>2. CASE o.resolution = "dynamic"
    BY <1>1, <2>2 DEF Places, Uncertainty
  <2>3. CASE o.resolution = "inaccessible"
    BY <1>1, <2>3 DEF Places, Uncertainty
  <2>4. CASE o.resolution \notin {"confirmed", "ambiguous", "unresolved", "dynamic", "inaccessible"}
    BY <1>1, <2>4 DEF Places, Uncertainty
  <2> QED
    BY <2>1, <2>2, <2>3, <2>4
<1>2. CASE o.state \notin {"complete", "absent"}
  <2>1. CASE o.state = "unsupported"
    BY <1>2, <2>1 DEF Places, Uncertainty
  <2>2. CASE o.state # "unsupported"
    BY <1>2, <2>2 DEF Places, Uncertainty
  <2> QED
    BY <2>1, <2>2
<1> QED
  BY <1>1, <1>2

(* Occurrences are numbered, and narrowing keeps their numbers.              *)
IsSite(occs) == \E n \in Nat : DOMAIN occs \subseteq 1 .. n

LEMMA NarrowedIsSite ==
    ASSUME NEW occs, NEW want, Numbered(occs)
    PROVE  IsSite(NarrowedSites(occs, want))
<1>1. DOMAIN NarrowedSites(occs, want) \subseteq DOMAIN occs
  BY DEF NarrowedSites
<1> QED
  BY <1>1 DEF IsSite, Numbered

LEMMA SiteIsFinite ==
    ASSUME NEW occs, IsSite(occs)
    PROVE  /\ DOMAIN occs \in SUBSET Nat
           /\ IsFiniteSet(DOMAIN occs)
           /\ IsFiniteSet(Placed(occs))
           /\ IsFiniteSet(DOMAIN Targets(occs))
<1>1. PICK n \in Nat : DOMAIN occs \subseteq 1 .. n
  BY DEF IsSite
<1>2. IsFiniteSet(1 .. n)
  BY FS_Interval
<1>3. Placed(occs) \subseteq DOMAIN occs /\ DOMAIN Targets(occs) \subseteq Placed(occs)
  BY DEF Placed, Targets
<1>4. DOMAIN occs \in SUBSET (1 .. n) /\ Placed(occs) \in SUBSET (1 .. n)
      /\ DOMAIN Targets(occs) \in SUBSET (1 .. n)
  BY <1>1, <1>3
<1>5. IsFiniteSet(DOMAIN occs)
  BY <1>2, <1>4, FS_Subset
<1>6. IsFiniteSet(Placed(occs))
  BY <1>2, <1>4, FS_Subset
<1>7. IsFiniteSet(DOMAIN Targets(occs))
  BY <1>2, <1>4, FS_Subset
<1> QED
  BY <1>1, <1>5, <1>6, <1>7

(* A bounded set of numbers that has a member has a last one.                *)
LEMMA LastOf ==
    ASSUME NEW T, NEW n \in Nat, T \subseteq 0 .. n, T # {}
    PROVE  \E k \in T : \A m \in T : m <= k
<1>1. PICK U : U = {j \in 0 .. n : n - j \in T}
  OBVIOUS
<1>2. \A m \in T : n - m \in U
  <2> SUFFICES ASSUME NEW m \in T PROVE n - m \in U
    OBVIOUS
  <2>1. m \in 0 .. n
    OBVIOUS
  <2>2. n - m \in 0 .. n /\ n - (n - m) = m
    BY <2>1
  <2> QED
    BY <1>1, <2>2
<1>3. U \in SUBSET Nat /\ U # {}
  <2>1. PICK m : m \in T
    OBVIOUS
  <2>2. n - m \in U
    BY <1>2, <2>1
  <2> QED
    BY <1>1, <2>2
<1>4. PICK j \in U : \A i \in U : j <= i
  BY <1>3, FirstOf
<1>5. j \in 0 .. n /\ n - j \in T
  BY <1>1, <1>4
<1>6. ASSUME NEW m \in T PROVE m <= n - j
  <2>1. j <= n - m
    BY <1>2, <1>4
  <2>2. m \in 0 .. n
    OBVIOUS
  <2> QED
    BY <1>5, <2>1, <2>2
<1> QED
  BY <1>5, <1>6

(* What the compiler vouches for at a site.                                  *)
VouchedAt(occs) == {Target(occs[n]) : n \in Placed(occs)}

(* Where neighbours are the same all are, so one target is left exactly when *)
(* there is one.                                                             *)
LEMMA OneLeftIsOneVouched ==
    ASSUME NEW occs, IsSite(occs)
    PROVE  /\ Cardinality(DOMAIN Targets(occs)) = 1 <=> Cardinality(VouchedAt(occs)) = 1
           /\ \A k \in DOMAIN Targets(occs) :
                Cardinality(DOMAIN Targets(occs)) = 1 => VouchedAt(occs) = {Targets(occs)[k]}
<1>1. PICK P, K, V : P = Placed(occs) /\ K = DOMAIN Targets(occs) /\ V = VouchedAt(occs)
  OBVIOUS
<1>2. P \in SUBSET Nat /\ IsFiniteSet(P) /\ IsFiniteSet(K)
  <2>1. Placed(occs) \subseteq DOMAIN occs
    BY DEF Placed
  <2> QED
    BY <1>1, <2>1, SiteIsFinite
<1>3. /\ K = {n \in P : ~ Repeats(occs, n)}
      /\ \A k \in K : Targets(occs)[k] = Target(occs[k])
  BY <1>1 DEF Targets
<1>4. V = {Target(occs[n]) : n \in P}
  BY <1>1 DEF VouchedAt
<1>5. IsFiniteSet(V)
  <2>1. PICK f : f = [n \in P |-> Target(occs[n])]
    OBVIOUS
  <2>2. f \in Surjection(P, V)
    BY <1>4, <2>1 DEF Surjection
  <2> QED
    BY <1>2, <2>2, FS_Surjection
<1>6. ASSUME NEW k, K = {k} PROVE V = {Target(occs[k])}
  <2>1. k \in P
    BY <1>3, <1>6
  <2>2. ASSUME {n \in P : Target(occs[n]) # Target(occs[k])} # {} PROVE FALSE
    <3>1. PICK n \in {n \in P : Target(occs[n]) # Target(occs[k])} :
            \A m \in {m \in P : Target(occs[m]) # Target(occs[k])} : n <= m
      <4>1. {n \in P : Target(occs[n]) # Target(occs[k])} \in SUBSET Nat
        BY <1>2
      <4> QED
        BY <4>1, <2>2, FirstOf
    <3>2. n \in P /\ n \in Nat
      BY <1>2, <3>1
    <3>3. ~ Repeats(occs, n)
      <4> SUFFICES ASSUME NEW m \in P, m < n, Target(occs[m]) = Target(occs[n]) PROVE FALSE
        BY <1>1 DEF Repeats
      <4>1. m \in Nat /\ ~(n <= m)
        BY <1>2, <3>2
      <4> QED
        BY <3>1, <4>1
    <3> QED
      BY <1>3, <1>6, <3>1, <3>2, <3>3
  <2> QED
    BY <1>4, <2>1, <2>2
<1>7. ASSUME NEW v, V = {v} PROVE \E k : K = {k}
  <2>1. P # {} /\ \A n \in P : Target(occs[n]) = v
    BY <1>4, <1>7
  <2>2. PICK k \in P : \A m \in P : k <= m
    BY <1>2, <2>1, FirstOf
  <2>3. k \in K
    <3> SUFFICES ASSUME NEW m \in P, m < k PROVE FALSE
      BY <1>1, <1>3 DEF Repeats
    <3> QED
      BY <1>2, <2>2
  <2>4. ASSUME NEW n \in K, n # k PROVE FALSE
    <3>1. n \in P /\ n \in Nat /\ k \in Nat
      BY <1>2, <1>3
    <3>2. k < n
      BY <2>2, <2>4, <3>1
    <3>3. PICK m \in {m \in P : m < n} : \A j \in {j \in P : j < n} : j <= m
      <4>1. PICK T : T = {m \in P : m < n}
        OBVIOUS
      <4>2. k \in T
        BY <2>2, <3>2, <4>1
      <4>3. ASSUME NEW m \in T PROVE m \in 0 .. n
        <5>1. m \in P /\ m < n
          BY <4>1, <4>3
        <5>2. m \in Nat
          BY <1>2, <5>1
        <5> QED
          BY <3>1, <5>1, <5>2
      <4>4. \E m \in T : \A j \in T : j <= m
        BY <3>1, <4>2, <4>3, LastOf
      <4> QED
        BY <4>1, <4>4
    <3>4. \A j \in P : j <= m \/ n <= j
      BY <1>2, <3>1, <3>3
    <3>5. Repeats(occs, n)
      BY <1>1, <2>1, <3>1, <3>3, <3>4 DEF Repeats
    <3> QED
      BY <1>3, <3>5
  <2> QED
    BY <2>3, <2>4
<1>8. Cardinality(K) = 1 <=> \E k : K = {k}
  BY <1>2, FS_Singleton
<1>9. Cardinality(V) = 1 <=> \E v : V = {v}
  BY <1>5, FS_Singleton
<1>10. Cardinality(K) = 1 <=> Cardinality(V) = 1
  BY <1>6, <1>7, <1>8, <1>9
<1>11. ASSUME NEW k \in K, Cardinality(K) = 1 PROVE V = {Targets(occs)[k]}
  <2>1. K = {k}
    BY <1>8, <1>11
  <2> QED
    BY <1>3, <1>6, <2>1
<1> QED
  BY <1>1, <1>10, <1>11

LEMMA VouchedIs ==
    ASSUME NEW sites, NEW r
    PROVE  Vouched(sites, r) = VouchedAt(NarrowedSites(sites[r.site], r.args))
<1>1. PICK occs : occs = NarrowedSites(sites[r.site], r.args)
  OBVIOUS
<1>2. {n \in DOMAIN occs : /\ occs[n].resolution = "confirmed" /\ occs[n].def # NoDef
                           /\ occs[n].state \in {"complete", "absent"}} = Placed(occs)
  BY PlacesIs DEF Placed
<1> QED
  BY <1>1, <1>2 DEF Vouched, VouchedAt

-----------------------------------------------------------------------------
(* One reference, and one site no reference names.                           *)

Fields == {"edges", "precise", "ext", "guess", "confirmed", "disagreements", "discovered"}
IsLedger(l) ==
    /\ DOMAIN l = Fields /\ IsFiniteSet(l.edges)
    /\ l.precise \in Nat /\ l.ext \in Nat /\ l.guess \in Nat
    /\ l.confirmed \in Nat /\ l.disagreements \in Nat /\ l.discovered \in Nat

(* Every edge has its place, and only the ladder guesses.                    *)
EdgesPlaced(l) ==
    \A e \in l.edges : /\ e.at \in Nat /\ e.nth \in Nat
                       /\ e.by \in {"ladder", "semantic", "discovered"}
                       /\ e.by # "ladder" => e.tier = "precise"

LedgerInv(l) == IsLedger(l) /\ CountsAreOfEdges(l) /\ EdgesPlaced(l)

LEMMA CountsAre ==
    ASSUME NEW l
    PROVE  CountsAreOfEdges(l) <=>
             /\ l.ext = CountOf(l.edges, "ext") /\ l.guess = CountOf(l.edges, "guess")
             /\ l.precise + l.discovered = CountOf(l.edges, "precise")
             /\ l.confirmed = BySource(l.edges, "semantic")
             /\ l.discovered = BySource(l.edges, "discovered")
             /\ l.disagreements <= l.confirmed
  BY DEF CountsAreOfEdges, BySource

LEMMA PushedIs ==
    ASSUME NEW n \in Nat, NEW r, Numbered(r.pushed)
    PROVE  /\ IsFiniteSet(Pushed(n, r))
           /\ \A e \in Pushed(n, r) : e.at = n /\ e.nth \in Nat /\ e.by = "ladder"
<1>1. PICK f : f = [k \in DOMAIN r.pushed |->
                      [site |-> r.site, to |-> r.pushed[k].to, sig |-> NoSig,
                       tier |-> r.pushed[k].tier, by |-> "ladder", at |-> n, nth |-> k]]
  OBVIOUS
<1>2. f \in Surjection(DOMAIN r.pushed, Pushed(n, r))
  BY <1>1 DEF Surjection, Pushed
<1>3. IsFiniteSet(DOMAIN r.pushed)
  BY FS_Interval DEF Numbered
<1>4. IsFiniteSet(Pushed(n, r))
  BY <1>2, <1>3, FS_Surjection
<1>5. DOMAIN r.pushed \subseteq Nat
  BY DEF Numbered
<1> QED
  BY <1>4, <1>5 DEF Pushed

SameButOne(l, e, v) ==
    /\ v.edges = l.edges \cup {e}
    /\ v.precise = l.precise + 1 /\ v.ext = l.ext /\ v.guess = l.guess
    /\ v.confirmed = l.confirmed + 1 /\ v.discovered = l.discovered
    /\ v.disagreements \in {l.disagreements, l.disagreements + 1}

AllOf(l, pushed, v) ==
    /\ v.edges = l.edges \cup pushed
    /\ v.precise = l.precise + CountOf(pushed, "precise")
    /\ v.ext = l.ext + CountOf(pushed, "ext") /\ v.guess = l.guess + CountOf(pushed, "guess")
    /\ v.confirmed = l.confirmed /\ v.discovered = l.discovered
    /\ v.disagreements = l.disagreements

(* A reference leaves what the ladder pushed, or the one vouched edge.       *)
LEMMA ReferenceLeaves ==
    ASSUME NEW sites, NEW n \in Nat, NEW r, Numbered(sites[r.site]), Numbered(r.pushed),
           NEW l, IsLedger(l), NEW v, v = ResolveReference(l, sites, n, r)
    PROVE  /\ DOMAIN v = Fields
           /\ Cardinality(Vouched(sites, r)) = 1 =>
                \E t : /\ Vouched(sites, r) = {t}
                       /\ SameButOne(l, SemanticEdge(t, r.site, "semantic", n, 1), v)
           /\ Cardinality(Vouched(sites, r)) # 1 => AllOf(l, Pushed(n, r), v)
<1>1. PICK pushed, after, targets : /\ pushed = Pushed(n, r)
                                    /\ after = LadderPushes(l, pushed)
                                    /\ targets = Lookup(sites, r.site, r.args)
  OBVIOUS
<1>2. PICK only : only = targets[CHOOSE k \in DOMAIN targets : TRUE]
  OBVIOUS
<1>3. DOMAIN l = Fields
  BY DEF IsLedger
<1>4. DOMAIN after = Fields /\ AllOf(l, pushed, after)
  BY <1>1, <1>3 DEF LadderPushes, AllOf, Fields
<1>5. /\ Cardinality(DOMAIN targets) = 1 <=> Cardinality(Vouched(sites, r)) = 1
      /\ \A k \in DOMAIN targets :
           Cardinality(DOMAIN targets) = 1 => Vouched(sites, r) = {targets[k]}
  <2>1. PICK occs : occs = NarrowedSites(sites[r.site], r.args)
    OBVIOUS
  <2>2. IsSite(occs) /\ targets = Targets(occs) /\ Vouched(sites, r) = VouchedAt(occs)
    BY <1>1, <2>1, NarrowedIsSite, VouchedIs DEF Lookup
  <2> QED
    BY <2>2, OneLeftIsOneVouched
<1>6. CASE Cardinality(Vouched(sites, r)) = 1
  <2>1. PICK e : e = SemanticEdge(only, r.site, "semantic", n, 1)
    OBVIOUS
  <2>2. v = Override(l, after, pushed, e)
    BY <1>1, <1>2, <1>5, <1>6, <2>1 DEF ResolveReference
  <2>3. /\ DOMAIN v = Fields /\ v.edges = l.edges \cup {e}
        /\ v.precise = after.precise - CountOf(pushed, "precise") + 1
        /\ v.ext = after.ext - CountOf(pushed, "ext")
        /\ v.guess = after.guess - CountOf(pushed, "guess")
        /\ v.confirmed = after.confirmed + 1
        /\ v.disagreements = after.disagreements
                             + IF \E p \in pushed : p.to # e.to THEN 1 ELSE 0
        /\ v.discovered = after.discovered
    BY <1>4, <2>2 DEF Override, Fields
  <2>4. /\ CountOf(pushed, "precise") \in Nat /\ CountOf(pushed, "ext") \in Nat
        /\ CountOf(pushed, "guess") \in Nat
    BY <1>1, PushedIs, CountType
  <2>5. /\ after.precise = l.precise + CountOf(pushed, "precise")
        /\ after.ext = l.ext + CountOf(pushed, "ext")
        /\ after.guess = l.guess + CountOf(pushed, "guess")
        /\ after.confirmed = l.confirmed /\ after.discovered = l.discovered
        /\ after.disagreements = l.disagreements
    BY <1>4 DEF AllOf
  <2>6. /\ l.precise \in Nat /\ l.ext \in Nat /\ l.guess \in Nat /\ l.disagreements \in Nat
    BY DEF IsLedger
  <2>7. v.precise = l.precise + 1 /\ v.ext = l.ext /\ v.guess = l.guess
    BY <2>3, <2>4, <2>5, <2>6
  <2>8. v.disagreements \in {l.disagreements, l.disagreements + 1}
    BY <2>3, <2>5, <2>6
  <2>9. SameButOne(l, e, v)
    BY <2>3, <2>5, <2>7, <2>8 DEF SameButOne
  <2>10. Vouched(sites, r) = {only}
    <3>1. DOMAIN targets # {}
      BY <1>5, <1>6, FS_EmptySet
    <3> QED
      BY <1>2, <1>5, <1>6, <3>1
  <2> QED
    BY <1>6, <2>1, <2>3, <2>9, <2>10
<1>7. CASE Cardinality(Vouched(sites, r)) # 1
  <2>1. v = after
    BY <1>1, <1>5, <1>7 DEF ResolveReference
  <2> QED
    BY <1>1, <1>4, <1>7, <2>1
<1> QED
  BY <1>6, <1>7

(* What is added to a ledger, and counted, keeps it.                         *)
LEMMA OneMoreVouched ==
    ASSUME NEW l, LedgerInv(l), NEW e, e \notin l.edges,
           e.at \in Nat, e.nth \in Nat, e.by = "semantic", e.tier = "precise",
           NEW v, DOMAIN v = Fields, SameButOne(l, e, v)
    PROVE  LedgerInv(v)
<1>1. IsLedger(l) /\ CountsAreOfEdges(l) /\ EdgesPlaced(l)
  BY DEF LedgerInv
<1>2. IsFiniteSet(l.edges) /\ IsFiniteSet({e}) /\ l.edges \cap {e} = {} /\ Cardinality({e}) = 1
  BY <1>1, FS_Singleton DEF IsLedger
<1>3. /\ IsFiniteSet(l.edges \cup {e})
      /\ CountOf(l.edges \cup {e}, "precise") = CountOf(l.edges, "precise") + 1
      /\ CountOf(l.edges \cup {e}, "ext") = CountOf(l.edges, "ext") + 0
      /\ CountOf(l.edges \cup {e}, "guess") = CountOf(l.edges, "guess") + 0
      /\ BySource(l.edges \cup {e}, "semantic") = BySource(l.edges, "semantic") + 1
      /\ BySource(l.edges \cup {e}, "discovered") = BySource(l.edges, "discovered") + 0
  <2>1. PICK E, F : E = l.edges /\ F = {e}
    OBVIOUS
  <2>2. SumsOf(E, F)
    BY <1>2, <2>1, CountsAdd
  <2>3. PreciseBy(F, "semantic")
    BY <2>1, CountsOfAKind
  <2>4. "discovered" # "semantic" => BySource(F, "discovered") = 0
    BY <2>3 DEF PreciseBy
  <2> QED
    BY <1>2, <2>1, <2>2, <2>3, <2>4 DEF SumsOf, PreciseBy
<1>5. /\ l.ext = CountOf(l.edges, "ext") /\ l.guess = CountOf(l.edges, "guess")
      /\ l.precise + l.discovered = CountOf(l.edges, "precise")
      /\ l.confirmed = BySource(l.edges, "semantic")
      /\ l.discovered = BySource(l.edges, "discovered")
      /\ l.disagreements <= l.confirmed
  BY <1>1, CountsAre
<1>6. /\ l.precise \in Nat /\ l.ext \in Nat /\ l.guess \in Nat
      /\ l.confirmed \in Nat /\ l.disagreements \in Nat /\ l.discovered \in Nat
  BY <1>1 DEF IsLedger
<1>7. /\ v.edges = l.edges \cup {e}
      /\ v.precise = l.precise + 1 /\ v.ext = l.ext /\ v.guess = l.guess
      /\ v.confirmed = l.confirmed + 1 /\ v.discovered = l.discovered
      /\ v.disagreements \in {l.disagreements, l.disagreements + 1}
  BY DEF SameButOne
<1>8. IsLedger(v)
  BY <1>3, <1>6, <1>7 DEF IsLedger
<1>9. CountsAreOfEdges(v)
  <2>1. /\ v.ext = CountOf(v.edges, "ext") /\ v.guess = CountOf(v.edges, "guess")
    BY <1>3, <1>5, <1>6, <1>7
  <2>2. v.precise + v.discovered = CountOf(v.edges, "precise")
    BY <1>3, <1>5, <1>6, <1>7
  <2>3. v.confirmed = BySource(v.edges, "semantic") /\ v.discovered = BySource(v.edges, "discovered")
    BY <1>3, <1>5, <1>6, <1>7
  <2>4. v.disagreements <= v.confirmed
    BY <1>5, <1>6, <1>7
  <2> QED
    BY <2>1, <2>2, <2>3, <2>4, CountsAre
<1>10. EdgesPlaced(v)
  BY <1>1, <1>7 DEF EdgesPlaced
<1> QED
  BY <1>8, <1>9, <1>10 DEF LedgerInv

LEMMA AllPushed ==
    ASSUME NEW l, LedgerInv(l), NEW F, IsFiniteSet(F), l.edges \cap F = {},
           \A e \in F : e.at \in Nat /\ e.nth \in Nat /\ e.by = "ladder",
           NEW v, DOMAIN v = Fields, AllOf(l, F, v)
    PROVE  LedgerInv(v)
<1>1. IsLedger(l) /\ CountsAreOfEdges(l) /\ EdgesPlaced(l)
  BY DEF LedgerInv
<1>2. IsFiniteSet(l.edges)
  BY <1>1 DEF IsLedger
<1>3. /\ IsFiniteSet(l.edges \cup F)
      /\ CountOf(l.edges \cup F, "precise") = CountOf(l.edges, "precise") + CountOf(F, "precise")
      /\ CountOf(l.edges \cup F, "ext") = CountOf(l.edges, "ext") + CountOf(F, "ext")
      /\ CountOf(l.edges \cup F, "guess") = CountOf(l.edges, "guess") + CountOf(F, "guess")
      /\ BySource(l.edges \cup F, "semantic") = BySource(l.edges, "semantic") + 0
      /\ BySource(l.edges \cup F, "discovered") = BySource(l.edges, "discovered") + 0
  <2>1. PICK E : E = l.edges
    OBVIOUS
  <2>2. SumsOf(E, F)
    BY <1>2, <2>1, CountsAdd
  <2>3. BySource(F, "semantic") = 0 /\ BySource(F, "discovered") = 0
    <3>1. {e \in F : e.by = "semantic"} = {} /\ {e \in F : e.by = "discovered"} = {}
      OBVIOUS
    <3> QED
      BY <3>1, FS_EmptySet DEF BySource
  <2> QED
    BY <2>1, <2>2, <2>3 DEF SumsOf
<1>5. /\ l.ext = CountOf(l.edges, "ext") /\ l.guess = CountOf(l.edges, "guess")
      /\ l.precise + l.discovered = CountOf(l.edges, "precise")
      /\ l.confirmed = BySource(l.edges, "semantic")
      /\ l.discovered = BySource(l.edges, "discovered")
      /\ l.disagreements <= l.confirmed
  BY <1>1, CountsAre
<1>6. /\ l.precise \in Nat /\ l.ext \in Nat /\ l.guess \in Nat
      /\ l.confirmed \in Nat /\ l.disagreements \in Nat /\ l.discovered \in Nat
  BY <1>1 DEF IsLedger
<1>7. /\ v.edges = l.edges \cup F
      /\ v.precise = l.precise + CountOf(F, "precise")
      /\ v.ext = l.ext + CountOf(F, "ext") /\ v.guess = l.guess + CountOf(F, "guess")
      /\ v.confirmed = l.confirmed /\ v.discovered = l.discovered
      /\ v.disagreements = l.disagreements
  BY DEF AllOf
<1>8. CountOf(F, "precise") \in Nat /\ CountOf(F, "ext") \in Nat /\ CountOf(F, "guess") \in Nat
  BY CountType
<1>9. IsLedger(v)
  BY <1>3, <1>6, <1>7, <1>8 DEF IsLedger
<1>10. CountsAreOfEdges(v)
  <2>1. v.ext = CountOf(v.edges, "ext") /\ v.guess = CountOf(v.edges, "guess")
    BY <1>3, <1>5, <1>7
  <2>2. v.precise + v.discovered = CountOf(v.edges, "precise")
    <3>1. l.precise + CountOf(F, "precise") + l.discovered
            = l.precise + l.discovered + CountOf(F, "precise")
      BY <1>6, <1>8
    <3> QED
      BY <1>3, <1>5, <1>7, <3>1
  <2>3. v.confirmed = BySource(v.edges, "semantic") /\ v.discovered = BySource(v.edges, "discovered")
    BY <1>3, <1>5, <1>6, <1>7
  <2> QED
    BY <1>5, <1>7, <2>1, <2>2, <2>3, CountsAre
<1>11. EdgesPlaced(v)
  BY <1>1, <1>7 DEF EdgesPlaced
<1> QED
  BY <1>9, <1>10, <1>11 DEF LedgerInv

WithDiscovered(l, F, v) ==
    /\ v.edges = l.edges \cup F
    /\ v.precise = l.precise /\ v.ext = l.ext /\ v.guess = l.guess
    /\ v.confirmed = l.confirmed /\ v.disagreements = l.disagreements
    /\ v.discovered = l.discovered + Cardinality(F)

LEMMA AllDiscovered ==
    ASSUME NEW l, LedgerInv(l), NEW F, IsFiniteSet(F), l.edges \cap F = {},
           \A e \in F : /\ e.at \in Nat /\ e.nth \in Nat
                        /\ e.by = "discovered" /\ e.tier = "precise",
           NEW v, DOMAIN v = Fields, WithDiscovered(l, F, v)
    PROVE  LedgerInv(v)
<1>1. IsLedger(l) /\ CountsAreOfEdges(l) /\ EdgesPlaced(l)
  BY DEF LedgerInv
<1>2. IsFiniteSet(l.edges) /\ Cardinality(F) \in Nat
  BY <1>1, FS_CardinalityType DEF IsLedger
<1>3. /\ IsFiniteSet(l.edges \cup F)
      /\ CountOf(l.edges \cup F, "precise") = CountOf(l.edges, "precise") + Cardinality(F)
      /\ CountOf(l.edges \cup F, "ext") = CountOf(l.edges, "ext") + 0
      /\ CountOf(l.edges \cup F, "guess") = CountOf(l.edges, "guess") + 0
      /\ BySource(l.edges \cup F, "semantic") = BySource(l.edges, "semantic") + 0
      /\ BySource(l.edges \cup F, "discovered") = BySource(l.edges, "discovered") + Cardinality(F)
  <2>1. PICK E : E = l.edges
    OBVIOUS
  <2>2. SumsOf(E, F)
    BY <1>2, <2>1, CountsAdd
  <2>3. PreciseBy(F, "discovered")
    BY CountsOfAKind
  <2>4. "semantic" # "discovered" => BySource(F, "semantic") = 0
    BY <2>3 DEF PreciseBy
  <2> QED
    BY <2>1, <2>2, <2>3, <2>4 DEF SumsOf, PreciseBy
<1>4. /\ l.ext = CountOf(l.edges, "ext") /\ l.guess = CountOf(l.edges, "guess")
      /\ l.precise + l.discovered = CountOf(l.edges, "precise")
      /\ l.confirmed = BySource(l.edges, "semantic")
      /\ l.discovered = BySource(l.edges, "discovered")
      /\ l.disagreements <= l.confirmed
  BY <1>1, CountsAre
<1>5. /\ l.precise \in Nat /\ l.ext \in Nat /\ l.guess \in Nat
      /\ l.confirmed \in Nat /\ l.disagreements \in Nat /\ l.discovered \in Nat
  BY <1>1 DEF IsLedger
<1>6. /\ v.edges = l.edges \cup F
      /\ v.precise = l.precise /\ v.ext = l.ext /\ v.guess = l.guess
      /\ v.confirmed = l.confirmed /\ v.disagreements = l.disagreements
      /\ v.discovered = l.discovered + Cardinality(F)
  BY DEF WithDiscovered
<1>7. IsLedger(v)
  BY <1>2, <1>3, <1>5, <1>6 DEF IsLedger
<1>8. CountsAreOfEdges(v)
  <2>1. v.ext = CountOf(v.edges, "ext") /\ v.guess = CountOf(v.edges, "guess")
    BY <1>3, <1>4, <1>5, <1>6
  <2>2. v.precise + v.discovered = CountOf(v.edges, "precise")
    <3>1. l.precise + (l.discovered + Cardinality(F)) = l.precise + l.discovered + Cardinality(F)
      BY <1>2, <1>5
    <3> QED
      BY <1>3, <1>4, <1>6, <3>1
  <2>3. v.confirmed = BySource(v.edges, "semantic") /\ v.discovered = BySource(v.edges, "discovered")
    BY <1>3, <1>4, <1>5, <1>6
  <2> QED
    BY <1>4, <1>6, <2>1, <2>2, <2>3, CountsAre
<1>9. EdgesPlaced(v)
  BY <1>1, <1>6 DEF EdgesPlaced
<1> QED
  BY <1>7, <1>8, <1>9 DEF LedgerInv

(* A site leaves all its targets, or none.                                   *)
LEMMA SiteLeaves ==
    ASSUME NEW sites, NEW s \in Nat, Numbered(sites[s]),
           NEW l, LedgerInv(l), \A e \in l.edges : e.by = "discovered" => e.at # s,
           NEW v, v = Project(l, sites, s)
    PROVE  /\ LedgerInv(v)
           /\ l.edges \subseteq v.edges
           /\ \A e \in v.edges \ l.edges : e.by = "discovered" /\ e.at = s
<1>1. PICK targets : targets = Lookup(sites, s, NoArgs)
  OBVIOUS
<1>2. IsFiniteSet(DOMAIN targets) /\ DOMAIN targets \subseteq Nat
  <2>1. PICK occs : occs = NarrowedSites(sites[s], NoArgs)
    OBVIOUS
  <2>2. IsSite(occs) /\ targets = Targets(occs)
    BY <1>1, <2>1, NarrowedIsSite DEF Lookup
  <2>3. DOMAIN targets \subseteq DOMAIN occs
    BY <2>2 DEF Targets, Placed
  <2>4. DOMAIN occs \in SUBSET Nat /\ IsFiniteSet(DOMAIN Targets(occs))
    BY <2>2, SiteIsFinite
  <2> QED
    BY <2>2, <2>3, <2>4
<1>3. PICK F : F = {SemanticEdge(targets[k], s, "discovered", s, k) : k \in DOMAIN targets}
  OBVIOUS
<1>4. \A e \in F : /\ e.at = s /\ e.nth \in Nat
                   /\ e.by = "discovered" /\ e.tier = "precise"
  BY <1>2, <1>3 DEF SemanticEdge
<1>5. IsFiniteSet(F) /\ Cardinality(F) = Cardinality(DOMAIN targets)
  <2>1. PICK f : f = [k \in DOMAIN targets |->
                        SemanticEdge(targets[k], s, "discovered", s, k)]
    OBVIOUS
  <2>2. f \in Surjection(DOMAIN targets, F)
    BY <1>3, <2>1 DEF Surjection
  <2>3. f \in Injection(DOMAIN targets, F)
    <3>1. f \in [DOMAIN targets -> F]
      BY <2>2 DEF Surjection
    <3>2. ASSUME NEW j \in DOMAIN targets, NEW k \in DOMAIN targets, f[j] = f[k] PROVE j = k
      <4>1. f[j].nth = j /\ f[k].nth = k
        BY <2>1 DEF SemanticEdge
      <4> QED
        BY <3>2, <4>1
    <3> QED
      BY <3>1, <3>2 DEF Injection, IsInjective
  <2> QED
    BY <1>2, <2>2, <2>3, FS_Surjection
<1>6. CASE \A m, n \in DOMAIN targets : targets[m].to = targets[n].to
  <2>1. v = [l EXCEPT !.edges = @ \cup F, !.discovered = @ + Cardinality(DOMAIN targets)]
    BY <1>1, <1>3, <1>6 DEF Project
  <2>2. DOMAIN l = Fields
    BY DEF LedgerInv, IsLedger
  <2>3. DOMAIN v = Fields /\ WithDiscovered(l, F, v)
    BY <1>5, <2>1, <2>2 DEF WithDiscovered, Fields
  <2>4. l.edges \cap F = {}
    BY <1>4
  <2>5. LedgerInv(v)
    BY <1>4, <1>5, <2>3, <2>4, AllDiscovered
  <2> QED
    BY <1>4, <2>3, <2>5 DEF WithDiscovered
<1>7. CASE ~(\A m, n \in DOMAIN targets : targets[m].to = targets[n].to)
  <2>1. v = l
    BY <1>1, <1>7 DEF Project
  <2> QED
    BY <2>1
<1> QED
  BY <1>6, <1>7

-----------------------------------------------------------------------------
(* The whole run.                                                            *)

Own(l, n) == {e \in l.edges : e.at = n /\ e.by # "discovered"}

(* What reference n has while the guesses are not yet gone over.             *)
HasIts(own, sites, n, r) ==
    /\ Cardinality(Vouched(sites, r)) = 1 =>
         \E t : Vouched(sites, r) = {t} /\ own = {SemanticEdge(t, r.site, "semantic", n, 1)}
    /\ Cardinality(Vouched(sites, r)) # 1 => own = Pushed(n, r)

EachHasIts(l, sites, refs, n) ==
    \A m \in 1 .. n : HasIts(Own(l, m), sites, m, refs[m])

ResolvedTo(l, sites, refs, n) ==
    /\ LedgerInv(l)
    /\ \A e \in l.edges : e.at \in 1 .. n /\ e.by \in {"ladder", "semantic"}
    /\ EachHasIts(l, sites, refs, n)

LEMMA ReferenceGetsIts ==
    ASSUME NEW sites, NEW refs, WellFormedLayer(sites, refs), NEW n \in 1 .. Len(refs),
           NEW l, ResolvedTo(l, sites, refs, n - 1),
           NEW v, v = ResolveReference(l, sites, n, refs[n])
    PROVE  ResolvedTo(v, sites, refs, n)
<1>1. PICK r : r = refs[n]
  OBVIOUS
<1>2. n \in Nat /\ n \in DOMAIN refs /\ Numbered(r.pushed) /\ Numbered(sites[r.site])
  <2>1. Len(refs) \in Nat /\ DOMAIN refs = 1 .. Len(refs)
    BY DEF WellFormedLayer, Numbered
  <2>2. n \in Nat /\ n \in DOMAIN refs
    BY <2>1
  <2> QED
    BY <1>1, <2>2 DEF WellFormedLayer
<1>3. LedgerInv(l) /\ IsLedger(l)
  BY DEF ResolvedTo, LedgerInv
<1>4. /\ DOMAIN v = Fields
      /\ Cardinality(Vouched(sites, r)) = 1 =>
           \E t : /\ Vouched(sites, r) = {t}
                  /\ SameButOne(l, SemanticEdge(t, r.site, "semantic", n, 1), v)
      /\ Cardinality(Vouched(sites, r)) # 1 => AllOf(l, Pushed(n, r), v)
  BY <1>1, <1>2, <1>3, ReferenceLeaves
<1>5. \A e \in l.edges : e.at \in 1 .. n - 1 /\ e.by \in {"ladder", "semantic"}
  BY DEF ResolvedTo
<1>6. PICK F : /\ v.edges = l.edges \cup F
               /\ \A e \in F : e.at = n /\ e.by \in {"ladder", "semantic"}
               /\ LedgerInv(v)
               /\ HasIts(F, sites, n, r)
  <2>1. CASE Cardinality(Vouched(sites, r)) = 1
    <3>1. PICK t : /\ Vouched(sites, r) = {t}
                   /\ SameButOne(l, SemanticEdge(t, r.site, "semantic", n, 1), v)
      BY <1>4, <2>1
    <3>2. PICK e : e = SemanticEdge(t, r.site, "semantic", n, 1)
      OBVIOUS
    <3>3. e.at = n /\ e.nth = 1 /\ e.by = "semantic" /\ e.tier = "precise"
      BY <3>2 DEF SemanticEdge
    <3>4. e \notin l.edges
      BY <1>2, <1>5, <3>3
    <3>5. LedgerInv(v)
      BY <1>2, <1>3, <1>4, <3>1, <3>2, <3>3, <3>4, OneMoreVouched
    <3>6. HasIts({e}, sites, n, r)
      BY <2>1, <3>1, <3>2 DEF HasIts
    <3>7. v.edges = l.edges \cup {e}
      BY <3>1, <3>2 DEF SameButOne
    <3> QED
      BY <3>3, <3>5, <3>6, <3>7
  <2>2. CASE Cardinality(Vouched(sites, r)) # 1
    <3>1. PICK F : F = Pushed(n, r)
      OBVIOUS
    <3>2. IsFiniteSet(F) /\ \A e \in F : e.at = n /\ e.nth \in Nat /\ e.by = "ladder"
      BY <1>2, <3>1, PushedIs
    <3>3. l.edges \cap F = {}
      BY <1>2, <1>5, <3>2
    <3>4. AllOf(l, F, v)
      BY <1>4, <2>2, <3>1
    <3>5. LedgerInv(v)
      BY <1>2, <1>3, <1>4, <3>2, <3>3, <3>4, AllPushed
    <3>6. HasIts(F, sites, n, r)
      BY <2>2, <3>1 DEF HasIts
    <3>7. v.edges = l.edges \cup F
      BY <3>4 DEF AllOf
    <3> QED
      BY <3>2, <3>5, <3>6, <3>7
  <2> QED
    BY <2>1, <2>2
<1>7. \A e \in v.edges : e.at \in 1 .. n /\ e.by \in {"ladder", "semantic"}
  <2> SUFFICES ASSUME NEW e \in v.edges PROVE e.at \in 1 .. n /\ e.by \in {"ladder", "semantic"}
    OBVIOUS
  <2>1. CASE e \in l.edges
    <3>1. e.at \in 1 .. n - 1 /\ e.by \in {"ladder", "semantic"}
      BY <1>5, <2>1
    <3> QED
      BY <1>2, <3>1
  <2>2. CASE e \in F
    BY <1>2, <1>6, <2>2
  <2> QED
    BY <1>6, <2>1, <2>2
<1>8. EachHasIts(v, sites, refs, n)
  <2> SUFFICES ASSUME NEW m \in 1 .. n PROVE HasIts(Own(v, m), sites, m, refs[m])
    BY DEF EachHasIts
  <2>1. CASE m = n
    <3>1. Own(v, m) = F
      BY <1>2, <1>5, <1>6, <2>1 DEF Own
    <3> QED
      BY <1>1, <1>6, <2>1, <3>1
  <2>2. CASE m # n
    <3>1. m \in 1 .. n - 1
      BY <1>2, <2>2
    <3>2. Own(v, m) = Own(l, m)
      BY <1>2, <1>6, <2>2 DEF Own
    <3>3. HasIts(Own(l, m), sites, m, refs[m])
      BY <3>1 DEF ResolvedTo, EachHasIts
    <3> QED
      BY <3>2, <3>3
  <2> QED
    BY <2>1, <2>2
<1> QED
  BY <1>6, <1>7, <1>8 DEF ResolvedTo

ProjectedTo(l, sites, refs, s) ==
    /\ LedgerInv(l)
    /\ \A e \in l.edges : e.by = "discovered" => e.at \in 1 .. s
    /\ EachHasIts(l, sites, refs, Len(refs))

LEMMA SiteDisturbsNothing ==
    ASSUME NEW sites, NEW refs, WellFormedLayer(sites, refs), NEW s \in 1 .. Len(sites),
           NEW l, ProjectedTo(l, sites, refs, s - 1), NEW seen,
           NEW v, v = IF s \in seen THEN l ELSE Project(l, sites, s)
    PROVE  ProjectedTo(v, sites, refs, s)
<1>1. s \in Nat /\ Numbered(sites[s])
  BY DEF WellFormedLayer, Numbered
<1>2. LedgerInv(l) /\ \A e \in l.edges : e.by = "discovered" => e.at \in 1 .. s - 1
  BY DEF ProjectedTo
<1>3. /\ LedgerInv(v)
      /\ l.edges \subseteq v.edges
      /\ \A e \in v.edges \ l.edges : e.by = "discovered" /\ e.at = s
  <2>1. CASE s \in seen
    BY <1>2, <2>1
  <2>2. CASE s \notin seen
    <3>1. \A e \in l.edges : e.by = "discovered" => e.at # s
      BY <1>1, <1>2
    <3>2. v = Project(l, sites, s)
      BY <2>2
    <3> QED
      BY <1>1, <1>2, <3>1, <3>2, SiteLeaves
  <2> QED
    BY <2>1, <2>2
<1>4. \A m : Own(v, m) = Own(l, m)
  BY <1>3 DEF Own
<1>5. EachHasIts(v, sites, refs, Len(refs))
  BY <1>4 DEF ProjectedTo, EachHasIts
<1>6. ASSUME NEW e \in v.edges, e.by = "discovered" PROVE e.at \in 1 .. s
  <2>1. CASE e \in l.edges
    <3>1. e.at \in 1 .. s - 1
      BY <1>2, <1>6, <2>1
    <3> QED
      BY <1>1, <3>1
  <2>2. CASE e \notin l.edges
    <3>1. e.at = s
      BY <1>3, <2>2
    <3> QED
      BY <1>1, <3>1
  <2> QED
    BY <2>1, <2>2
<1> QED
  BY <1>3, <1>5, <1>6 DEF ProjectedTo

LEMMA LayerRuns ==
    ASSUME NEW sites, NEW refs, WellFormedLayer(sites, refs)
    PROVE  \E l : /\ ProjectedTo(l, sites, refs, Len(sites))
                  /\ RunLayer(sites, refs) = DropRepeats(l)
<1>1. PICK N \in Nat, M \in Nat : N = Len(refs) /\ M = Len(sites)
  BY DEF WellFormedLayer, Numbered
<1>2. PICK L : Resolving(sites, refs, L) /\ ResolveAll(sites, refs) = L[N]
  BY <1>1, ResolvingIs
<1> DEFINE S == {n \in 0 .. N : ResolvedTo(L[n], sites, refs, n)}
<1>3. 0 \in S
  <2>1. PICK l : l = L[0]
    OBVIOUS
  <2>2. l = EmptyLedger
    BY <1>2, <2>1 DEF Resolving
  <2>3. /\ DOMAIN l = Fields /\ l.edges = {} /\ l.precise = 0 /\ l.ext = 0 /\ l.guess = 0
        /\ l.confirmed = 0 /\ l.disagreements = 0 /\ l.discovered = 0
    BY <2>2 DEF EmptyLedger, Fields
  <2>4. IsLedger(l)
    BY <2>3, FS_EmptySet DEF IsLedger
  <2>5. /\ \A t : CountOf({}, t) = 0
        /\ \A b : BySource({}, b) = 0
    <3>1. /\ \A t : {e \in {} : e.tier = t} = {}
          /\ \A b : {e \in {} : e.by = b} = {}
      OBVIOUS
    <3> QED
      BY <3>1, FS_EmptySet DEF CountOf, BySource
  <2>6. CountsAreOfEdges(l)
    BY <2>3, <2>5, CountsAre
  <2>7. LedgerInv(l)
    BY <2>3, <2>4, <2>6 DEF LedgerInv, EdgesPlaced
  <2>8. EachHasIts(l, sites, refs, 0)
    BY DEF EachHasIts
  <2> QED
    BY <2>1, <2>3, <2>7, <2>8 DEF ResolvedTo
<1>4. \A n \in 1 .. N : n - 1 \in S => n \in S
  <2> SUFFICES ASSUME NEW n \in 1 .. N, ResolvedTo(L[n - 1], sites, refs, n - 1)
               PROVE  ResolvedTo(L[n], sites, refs, n)
    OBVIOUS
  <2>1. L[n] = ResolveReference(L[n - 1], sites, n, refs[n])
    BY <1>1, <1>2 DEF Resolving
  <2>2. PICK l, v : l = L[n - 1] /\ v = L[n]
    OBVIOUS
  <2> QED
    BY <1>1, <2>1, <2>2, ReferenceGetsIts
<1> HIDE DEF S
<1>5. \A n \in 0 .. N : n \in S
  BY <1>1, <1>3, <1>4, HopByHop
<1>6. ResolvedTo(L[N], sites, refs, N)
  <2>1. N \in S
    BY <1>1, <1>5
  <2> QED
    BY <2>1 DEF S
<1>7. PICK resolved, seen : resolved = L[N] /\ seen = {refs[n].site : n \in DOMAIN refs}
  OBVIOUS
<1>8. PICK P : Projecting(resolved, sites, seen, P) /\ ProjectUnseen(resolved, sites, seen) = P[M]
  BY <1>1, ProjectingIs
<1> DEFINE T == {s \in 0 .. M : ProjectedTo(P[s], sites, refs, s)}
<1>9. 0 \in T
  <2>1. PICK l : l = P[0]
    OBVIOUS
  <2>2. l = L[N]
    BY <1>7, <1>8, <2>1 DEF Projecting
  <2>3. LedgerInv(l) /\ (\A e \in l.edges : e.by \in {"ladder", "semantic"})
        /\ EachHasIts(l, sites, refs, N)
    BY <1>6, <2>2 DEF ResolvedTo
  <2>4. ProjectedTo(l, sites, refs, 0)
    BY <1>1, <2>3 DEF ProjectedTo
  <2> QED
    BY <2>1, <2>4
<1>10. \A s \in 1 .. M : s - 1 \in T => s \in T
  <2> SUFFICES ASSUME NEW s \in 1 .. M, ProjectedTo(P[s - 1], sites, refs, s - 1)
               PROVE  ProjectedTo(P[s], sites, refs, s)
    OBVIOUS
  <2>1. P[s] = IF s \in seen THEN P[s - 1] ELSE Project(P[s - 1], sites, s)
    BY <1>1, <1>8 DEF Projecting
  <2>2. PICK l, v : l = P[s - 1] /\ v = P[s]
    OBVIOUS
  <2> QED
    BY <1>1, <2>1, <2>2, SiteDisturbsNothing
<1> HIDE DEF T
<1>11. \A s \in 0 .. M : s \in T
  BY <1>1, <1>9, <1>10, HopByHop
<1>12. ProjectedTo(P[M], sites, refs, M)
  <2>1. M \in T
    BY <1>1, <1>11
  <2> QED
    BY <2>1 DEF T
<1>13. RunLayer(sites, refs) = DropRepeats(P[M])
  BY <1>2, <1>7, <1>8 DEF RunLayer
<1> QED
  BY <1>1, <1>12, <1>13

(* What the last pass drops.                                                 *)
Again(l) == {e \in l.edges : /\ e.tier # "precise"
                             /\ \E d \in l.edges : SameGuess(d, e) /\ ComesBefore(d, e)}

LEMMA DroppedLeaves ==
    ASSUME NEW l, LedgerInv(l), NEW v, v = DropRepeats(l)
    PROVE  v.edges = l.edges \ Again(l) /\ CountsAreOfEdges(v)
<1>1. PICK A : A = Again(l)
  OBVIOUS
<1>2. IsLedger(l) /\ CountsAreOfEdges(l) /\ EdgesPlaced(l)
  BY DEF LedgerInv
<1>3. DOMAIN l = Fields
  BY <1>2 DEF IsLedger
<1>4. /\ v.edges = l.edges \ A
      /\ v.ext = l.ext - CountOf(A, "ext") /\ v.guess = l.guess - CountOf(A, "guess")
      /\ v.precise = l.precise /\ v.confirmed = l.confirmed
      /\ v.disagreements = l.disagreements /\ v.discovered = l.discovered
  BY <1>1, <1>3 DEF DropRepeats, Again, Fields
<1>5. /\ l.ext = CountOf(l.edges, "ext") /\ l.guess = CountOf(l.edges, "guess")
      /\ l.precise + l.discovered = CountOf(l.edges, "precise")
      /\ l.confirmed = BySource(l.edges, "semantic")
      /\ l.discovered = BySource(l.edges, "discovered")
      /\ l.disagreements <= l.confirmed
  BY <1>2, CountsAre
<1>6. PICK K : K = l.edges \ A
  OBVIOUS
<1>7. A \subseteq l.edges /\ \A e \in A : e.tier # "precise"
  BY <1>1 DEF Again
<1>8. IsFiniteSet(K) /\ IsFiniteSet(A) /\ K \cap A = {} /\ K \cup A = l.edges
  <2>1. IsFiniteSet(l.edges)
    BY <1>2 DEF IsLedger
  <2>2. K \in SUBSET l.edges /\ A \in SUBSET l.edges
    BY <1>6, <1>7
  <2>3. IsFiniteSet(K) /\ IsFiniteSet(A)
    BY <2>1, <2>2, FS_Subset
  <2> QED
    BY <1>6, <1>7, <2>3
<1>9. /\ CountOf(l.edges, "ext") = CountOf(K, "ext") + CountOf(A, "ext")
      /\ CountOf(l.edges, "guess") = CountOf(K, "guess") + CountOf(A, "guess")
  <2>1. SumsOf(K, A)
    BY <1>8, CountsAdd
  <2> QED
    BY <1>8, <2>1 DEF SumsOf
<1>10. /\ CountOf(K, "ext") \in Nat /\ CountOf(K, "guess") \in Nat
       /\ CountOf(A, "ext") \in Nat /\ CountOf(A, "guess") \in Nat
  BY <1>8, CountType
<1>11. v.ext = CountOf(K, "ext") /\ v.guess = CountOf(K, "guess")
  BY <1>4, <1>5, <1>9, <1>10
<1>12. CountOf(K, "precise") = CountOf(l.edges, "precise")
  <2>1. {e \in K : e.tier = "precise"} = {e \in l.edges : e.tier = "precise"}
    BY <1>6, <1>7
  <2> QED
    BY <2>1 DEF CountOf
<1>13. /\ BySource(K, "semantic") = BySource(l.edges, "semantic")
       /\ BySource(K, "discovered") = BySource(l.edges, "discovered")
  <2>1. \A e \in A : e.by # "semantic" /\ e.by # "discovered"
    BY <1>2, <1>7 DEF EdgesPlaced
  <2>2. /\ {e \in K : e.by = "semantic"} = {e \in l.edges : e.by = "semantic"}
        /\ {e \in K : e.by = "discovered"} = {e \in l.edges : e.by = "discovered"}
    BY <1>6, <2>1
  <2> QED
    BY <2>2 DEF BySource
<1>14. v.edges = K
  BY <1>4, <1>6
<1>15. CountsAreOfEdges(v)
  BY <1>4, <1>5, <1>11, <1>12, <1>13, <1>14, CountsAre
<1> QED
  BY <1>1, <1>4, <1>15

(* Of the guesses that are the same, the first stays.                        *)
LEMMA FirstGuessStays ==
    ASSUME NEW l, EdgesPlaced(l), NEW e \in l.edges
    PROVE  \E d \in l.edges \ Again(l) : SameGuess(d, e)
<1>1. PICK E : E = l.edges
  OBVIOUS
<1>2. \A d \in E : d.at \in Nat /\ d.nth \in Nat
  BY <1>1 DEF EdgesPlaced
<1>3. PICK S : S = {d \in E : SameGuess(d, e)}
  OBVIOUS
<1>4. e \in S
  BY <1>1, <1>3 DEF SameGuess
<1>5. PICK a \in {d.at : d \in S} : \A b \in {d.at : d \in S} : a <= b
  <2>1. {d.at : d \in S} \in SUBSET Nat /\ {d.at : d \in S} # {}
    BY <1>2, <1>3, <1>4
  <2> QED
    BY <2>1, FirstOf
<1>6. PICK U : U = {d \in S : d.at = a}
  OBVIOUS
<1>7. PICK k \in {d.nth : d \in U} : \A j \in {d.nth : d \in U} : k <= j
  <2>1. {d.nth : d \in U} \in SUBSET Nat /\ {d.nth : d \in U} # {}
    BY <1>2, <1>3, <1>5, <1>6
  <2> QED
    BY <2>1, FirstOf
<1>8. PICK d \in U : d.nth = k
  BY <1>7
<1>9. d \in S /\ d \in E /\ SameGuess(d, e) /\ d.at = a
  BY <1>3, <1>6, <1>8
<1>10. ASSUME NEW c \in E, SameGuess(c, d), ComesBefore(c, d) PROVE FALSE
  <2>1. c \in S
    BY <1>3, <1>9, <1>10 DEF SameGuess
  <2>2. c.at \in Nat /\ c.nth \in Nat /\ d.at \in Nat /\ d.nth \in Nat
    BY <1>2, <1>9
  <2>3. d.at <= c.at
    BY <1>5, <1>9, <2>1
  <2>4. c.at = d.at /\ c.nth < d.nth
    BY <1>10, <2>2, <2>3 DEF ComesBefore
  <2>5. c \in U
    BY <1>6, <1>9, <2>1, <2>4
  <2>6. d.nth <= c.nth
    BY <1>7, <1>8, <2>5
  <2> QED
    BY <2>2, <2>4, <2>6
<1>11. d \notin Again(l)
  BY <1>1, <1>10 DEF Again
<1> QED
  BY <1>1, <1>9, <1>11

(* precedence.rs, discovered.rs, assembly.rs: the counts `map` reports are   *)
(* those of the edges it writes, for any references, ladder and facts.       *)
THEOREM CountsMatchHolds ==
    ASSUME QuestionOK
    PROVE  CountsMatch
<1> SUFFICES ASSUME About("overlay")
             PROVE  CountsAreOfEdges(RunLayer(question.sites, question.refs))
  BY DEF CountsMatch
<1>1. PICK sites, refs : sites = question.sites /\ refs = question.refs
  OBVIOUS
<1>2. WellFormedLayer(sites, refs)
  BY <1>1 DEF QuestionOK
<1>3. PICK l : /\ ProjectedTo(l, sites, refs, Len(sites))
               /\ RunLayer(sites, refs) = DropRepeats(l)
  BY <1>2, LayerRuns
<1>4. LedgerInv(l)
  BY <1>3 DEF ProjectedTo
<1>5. CountsAreOfEdges(DropRepeats(l))
  BY <1>4, DroppedLeaves
<1> QED
  BY <1>1, <1>3, <1>5

(* layer.rs, precedence.rs: a reference has the one target that complete     *)
(* compilations confirm for it, or all the ladder gave it, when the run ends.*)
THEOREM FollowsTheCompilerHolds ==
    ASSUME QuestionOK
    PROVE  FollowsTheCompiler
<1> SUFFICES ASSUME About("overlay")
             PROVE  EdgesFollow(RunLayer(question.sites, question.refs),
                                question.sites, question.refs)
  BY DEF FollowsTheCompiler
<1>1. PICK sites, refs : sites = question.sites /\ refs = question.refs
  OBVIOUS
<1>2. WellFormedLayer(sites, refs)
  BY <1>1 DEF QuestionOK
<1>3. PICK l : /\ ProjectedTo(l, sites, refs, Len(sites))
               /\ RunLayer(sites, refs) = DropRepeats(l)
  BY <1>2, LayerRuns
<1>4. LedgerInv(l) /\ EdgesPlaced(l)
  BY <1>3 DEF ProjectedTo, LedgerInv
<1>5. PICK v : v = DropRepeats(l)
  OBVIOUS
<1>6. v.edges = l.edges \ Again(l)
  BY <1>4, <1>5, DroppedLeaves
<1>7. ASSUME NEW n \in DOMAIN refs
      PROVE  LET own == {e \in v.edges : e.at = n /\ e.by # "discovered"}
                 pushed == Pushed(n, refs[n])
                 vouched == Vouched(sites, refs[n])
             IN  IF Cardinality(vouched) = 1
                 THEN /\ Cardinality(own) = 1
                      /\ {[to |-> e.to, sig |-> e.sig] : e \in own} = vouched
                 ELSE /\ own \subseteq pushed
                      /\ \A e \in pushed \ own : /\ e.tier # "precise"
                                                 /\ \E d \in v.edges : SameGuess(d, e)
  <2>1. PICK r, own, vouched : /\ r = refs[n] /\ vouched = Vouched(sites, r)
                               /\ own = {e \in v.edges : e.at = n /\ e.by # "discovered"}
    OBVIOUS
  <2>2. HasIts(Own(l, n), sites, n, r)
    <3>1. n \in 1 .. Len(refs)
      BY <1>2 DEF WellFormedLayer, Numbered
    <3> QED
      BY <1>3, <2>1, <3>1 DEF ProjectedTo, EachHasIts
  <2>3. own = Own(l, n) \ Again(l)
    BY <1>6, <2>1 DEF Own
  <2>4. ASSUME Cardinality(vouched) = 1
        PROVE  Cardinality(own) = 1 /\ {[to |-> e.to, sig |-> e.sig] : e \in own} = vouched
    <3>1. PICK t : vouched = {t} /\ Own(l, n) = {SemanticEdge(t, r.site, "semantic", n, 1)}
      BY <2>1, <2>2, <2>4 DEF HasIts
    <3>2. PICK e : e = SemanticEdge(t, r.site, "semantic", n, 1)
      OBVIOUS
    <3>3. e.tier = "precise" /\ e.to = t.to /\ e.sig = t.sig
      BY <3>2 DEF SemanticEdge
    <3>4. own = {e}
      BY <2>3, <3>1, <3>2, <3>3 DEF Again
    <3>5. t = [to |-> t.to, sig |-> t.sig]
      <4>1. t \in VouchedAt(NarrowedSites(sites[r.site], r.args))
        BY <2>1, <3>1, VouchedIs
      <4> QED
        BY <4>1 DEF VouchedAt, Target
    <3>6. {[to |-> d.to, sig |-> d.sig] : d \in own} = {[to |-> t.to, sig |-> t.sig]}
      BY <3>3, <3>4
    <3> QED
      BY <3>1, <3>4, <3>5, <3>6, FS_Singleton
  <2>5. ASSUME Cardinality(vouched) # 1
        PROVE  /\ own \subseteq Pushed(n, r)
               /\ \A e \in Pushed(n, r) \ own : /\ e.tier # "precise"
                                                /\ \E d \in v.edges : SameGuess(d, e)
    <3>1. Own(l, n) = Pushed(n, r)
      BY <2>1, <2>2, <2>5 DEF HasIts
    <3>2. ASSUME NEW e \in Pushed(n, r) \ own
          PROVE  e.tier # "precise" /\ \E d \in v.edges : SameGuess(d, e)
      <4>1. e \in Again(l) /\ e \in l.edges
        BY <2>3, <3>1, <3>2 DEF Own
      <4>2. e.tier # "precise"
        BY <4>1 DEF Again
      <4>3. \E d \in l.edges \ Again(l) : SameGuess(d, e)
        BY <1>4, <4>1, FirstGuessStays
      <4> QED
        BY <1>6, <4>2, <4>3
    <3> QED
      BY <2>3, <3>1, <3>2
  <2> QED
    BY <2>1, <2>4, <2>5
<1>8. EdgesFollow(v, sites, refs)
  BY <1>7 DEF EdgesFollow
<1> QED
  BY <1>1, <1>3, <1>5, <1>8

-----------------------------------------------------------------------------
(* Loops.                                                                    *)

(* A loop of N rounds over the states in S, each round a function of its     *)
(* number and of the state it finds.                                         *)
Loops(N, S, z, f, L) ==
    L \in [0 .. N -> S] /\ L[0] = z /\ \A n \in 1 .. N : L[n] = f[n][L[n - 1]]

LEMMA LoopRuns ==
    ASSUME NEW N \in Nat, NEW S, NEW z \in S, NEW f \in [1 .. N -> [S -> S]]
    PROVE  \E L : Loops(N, S, z, f, L)
<1> DEFINE Runs(k, L) == /\ L \in [0 .. k -> S] /\ L[0] = z
                         /\ \A n \in 1 .. k : L[n] = f[n][L[n - 1]]
           T == {k \in 0 .. N : \E L : Runs(k, L)}
<1>1. 0 \in T
  <2>1. PICK L : L = [n \in 0 .. 0 |-> z]
    OBVIOUS
  <2>2. Runs(0, L)
    BY <2>1
  <2> QED
    BY <2>2
<1>2. ASSUME NEW k \in 1 .. N, k - 1 \in T PROVE k \in T
  <2>1. PICK V : Runs(k - 1, V)
    BY <1>2
  <2>2. k - 1 \in 0 .. k - 1 /\ V[k - 1] \in S /\ f[k] \in [S -> S]
    BY <2>1
  <2>3. PICK next \in S : next = f[k][V[k - 1]]
    BY <2>2
  <2>4. PICK L : L = [n \in 0 .. k |-> IF n = k THEN next ELSE V[n]]
    OBVIOUS
  <2>5. L \in [0 .. k -> S] /\ L[0] = z
    BY <2>1, <2>3, <2>4
  <2>6. ASSUME NEW n \in 1 .. k PROVE L[n] = f[n][L[n - 1]]
    <3>1. n - 1 \in 0 .. k /\ n - 1 # k /\ L[n - 1] = V[n - 1]
      BY <2>4
    <3>2. CASE n = k
      BY <2>3, <2>4, <3>1, <3>2
    <3>3. CASE n # k
      <4>1. n \in 1 .. k - 1 /\ L[n] = V[n]
        BY <2>4, <3>3
      <4> QED
        BY <4>1, <2>1, <3>1
    <3> QED
      BY <3>2, <3>3
  <2>7. Runs(k, L)
    BY <2>5, <2>6
  <2> QED
    BY <2>7
<1>3. N \in T
  <2> HIDE DEF T
  <2>1. \A n \in 0 .. N : n \in T
    BY <1>1, <1>2, HopByHop
  <2> QED
    BY <2>1
<1>4. PICK L : Runs(N, L)
  BY <1>3
<1> QED
  BY <1>4 DEF Loops

-----------------------------------------------------------------------------
(* The lookup of an export.                                                  *)

Defs(repo, top) == {NoExport} \cup {Importable(repo, p[1], p[2]) : p \in Pairs(repo, top)}
Marks(repo, top, cap) == SUBSET (Pairs(repo, top) \X (0 .. cap))
Results(repo, top, cap) == [hit : Defs(repo, top), seen : Marks(repo, top, cap)]
Walks(repo, top, cap) == [Pairs(repo, top) -> [Marks(repo, top, cap) -> Results(repo, top, cap)]]

(* The pairs that chains lead to, by the number of barrels.                  *)
IsChain(repo, start, cap, C) ==
    /\ C[0] = {start}
    /\ \A k \in 1 .. cap : C[k] = C[k - 1] \cup UNION {Onward(repo, p) : p \in C[k - 1]}
ChainEnds(repo, cap, C, def) == \E q \in C[cap] : def = Importable(repo, q[1], q[2])

(* A pair the walk is done with: nothing to answer, and all it hands the     *)
(* name on to has been met, no further from the start than it must be.       *)
Settled(repo, cap, seen, mark) ==
    /\ Importable(repo, mark[1][1], mark[1][2]) = NoExport
    /\ mark[2] < cap => \A q \in Onward(repo, mark[1]) : WalkedAlready(seen, q, mark[2] + 1)

Settles(repo, cap, a, b) ==
    /\ a.seen \subseteq b.seen
    /\ b.hit = NoExport =>
          /\ a.hit = NoExport
          /\ \A mark \in b.seen \ a.seen : Settled(repo, cap, b.seen, mark)

(* What trying the pairs Q, each so many hops from the start, leaves.        *)
Tried(repo, cap, C, hops, Q, a, b) ==
    /\ Settles(repo, cap, a, b)
    /\ b.hit = NoExport => \A q \in Q : WalkedAlready(b.seen, q, hops)
    /\ b.hit # NoExport => \/ a.hit = b.hit
                           \/ Q \subseteq C[hops] => ChainEnds(repo, cap, C, b.hit)

Walks1(repo, top, cap, C, hops, walk) ==
    \A pair \in Pairs(repo, top), seen \in Marks(repo, top, cap) :
       Tried(repo, cap, C, hops, {pair}, [hit |-> NoExport, seen |-> seen], walk[pair][seen])

LEMMA WalkedStays ==
    ASSUME NEW a, NEW b, a \subseteq b, NEW q, NEW n, WalkedAlready(a, q, n)
    PROVE  WalkedAlready(b, q, n)
BY DEF WalkedAlready

LEMMA SettledStays ==
    ASSUME NEW repo, NEW cap, NEW a, NEW b, a \subseteq b, NEW mark, Settled(repo, cap, a, mark)
    PROVE  Settled(repo, cap, b, mark)
BY WalkedStays DEF Settled

LEMMA TriedBoth ==
    ASSUME NEW repo, NEW cap, NEW C, NEW hops, NEW Q, NEW R, NEW a, NEW b, NEW c,
           Tried(repo, cap, C, hops, Q, a, b), Tried(repo, cap, C, hops, R, b, c)
    PROVE  Tried(repo, cap, C, hops, Q \cup R, a, c)
<1>1. Settles(repo, cap, a, b) /\ Settles(repo, cap, b, c)
  BY DEF Tried
<1>2. Settles(repo, cap, a, c)
  <2>1. a.seen \subseteq c.seen
    BY <1>1 DEF Settles
  <2>2. ASSUME c.hit = NoExport, NEW mark \in c.seen \ a.seen
        PROVE  Settled(repo, cap, c.seen, mark)
    <3>1. CASE mark \in b.seen
      BY <1>1, <2>2, <3>1, SettledStays DEF Settles
    <3>2. CASE mark \notin b.seen
      BY <1>1, <2>2, <3>2 DEF Settles
    <3> QED
      BY <3>1, <3>2
  <2>3. c.hit = NoExport => a.hit = NoExport
    BY <1>1 DEF Settles
  <2> QED
    BY <2>1, <2>2, <2>3 DEF Settles
<1>3. ASSUME c.hit = NoExport, NEW q \in Q \cup R PROVE WalkedAlready(c.seen, q, hops)
  <2>1. b.hit = NoExport /\ b.seen \subseteq c.seen
    BY <1>1, <1>3 DEF Settles
  <2>2. CASE q \in Q
    <3>1. WalkedAlready(b.seen, q, hops)
      BY <2>1, <2>2 DEF Tried
    <3> QED
      BY <2>1, <3>1, WalkedStays
  <2>3. CASE q \in R
    BY <1>3, <2>3 DEF Tried
  <2> QED
    BY <1>3, <2>2, <2>3
<1>4. c.hit # NoExport => \/ a.hit = c.hit
                          \/ Q \cup R \subseteq C[hops] => ChainEnds(repo, cap, C, c.hit)
  BY DEF Tried
<1> QED
  BY <1>2, <1>3, <1>4 DEF Tried

LEMMA TriedNone ==
    ASSUME NEW repo, NEW cap, NEW C, NEW hops, NEW Q, NEW a, a.hit # NoExport \/ Q = {}
    PROVE  Tried(repo, cap, C, hops, Q, a, a)
BY DEF Tried, Settles

LEMMA TriedOne ==
    ASSUME NEW repo, NEW top, NEW cap, NEW C, NEW hops, NEW walk \in Walks(repo, top, cap),
           Walks1(repo, top, cap, C, hops, walk),
           NEW a \in Results(repo, top, cap), a.hit = NoExport, NEW q \in Pairs(repo, top)
    PROVE  /\ walk[q][a.seen] \in Results(repo, top, cap)
           /\ Tried(repo, cap, C, hops, {q}, a, walk[q][a.seen])
<1>1. a.seen \in Marks(repo, top, cap)
  BY DEF Results
<1>2. Tried(repo, cap, C, hops, {q}, [hit |-> NoExport, seen |-> a.seen], walk[q][a.seen])
  BY <1>1 DEF Walks1
<1>3. PICK b : b = [hit |-> NoExport, seen |-> a.seen]
  OBVIOUS
<1>4. b.hit = a.hit /\ b.seen = a.seen
  BY <1>3
<1>5. Tried(repo, cap, C, hops, {q}, a, walk[q][a.seen])
  BY <1>2, <1>3, <1>4 DEF Tried, Settles
<1> QED
  BY <1>1, <1>5 DEF Walks

(* A re-export statement stands in a well-formed file.                       *)
RowFits(repo, top, row) ==
    /\ IsList(row.names) /\ (row.star => row.names = <<>>)
    /\ row.to # Outside => row.to \in DOMAIN repo
    /\ \A k \in DOMAIN row.names : row.names[k][2] \in NamesMet(repo, top)

LEMMA RowsFit ==
    ASSUME NEW repo, WellFormedExports(repo), NEW top, NEW f \in DOMAIN repo,
           NEW n \in DOMAIN repo[f].reexports
    PROVE  RowFits(repo, top, repo[f].reexports[n])
<1>1. PICK row : row = repo[f].reexports[n]
  OBVIOUS
<1>2. /\ IsList(row.names) /\ (row.to # Outside => row.to \in DOMAIN repo)
      /\ row.star => row.names = <<>>
  BY <1>1 DEF WellFormedExports
<1>3. row \in Rows(repo, f)
  BY <1>1 DEF Rows
<1>4. ASSUME NEW k \in DOMAIN row.names PROVE row.names[k][2] \in NamesMet(repo, top)
  BY <1>3 DEF NamesMet, Handed
<1> QED
  BY <1>1, <1>2, <1>4 DEF RowFits

NameRound(walk, row, n, k, so) ==
    IF so.hit # NoExport \/ row.names[k][1] # n THEN so
    ELSE walk[<<row.to, row.names[k][2]>>][so.seen]
IsNaming(walk, row, n, before, U) ==
    U = [k \in 0 .. Len(row.names) |-> IF k = 0 THEN before ELSE NameRound(walk, row, n, k, U[k - 1])]

LEMMA NamingRuns ==
    ASSUME NEW repo, NEW top, NEW cap, NEW walk \in Walks(repo, top, cap),
           NEW row, RowFits(repo, top, row), row.to # Outside, NEW n,
           NEW before \in Results(repo, top, cap)
    PROVE  \E U : /\ IsNaming(walk, row, n, before, U)
                  /\ TryNames(walk, row, n, before) = U[Len(row.names)]
<1>1. PICK N : N = Len(row.names)
  OBVIOUS
<1>2. N \in Nat /\ DOMAIN row.names = 1 .. N
  BY <1>1 DEF RowFits, IsList
<1>3. PICK f : f = [k \in 1 .. N |-> [so \in Results(repo, top, cap) |-> NameRound(walk, row, n, k, so)]]
  OBVIOUS
<1>4. ASSUME NEW k \in 1 .. N, NEW so \in Results(repo, top, cap)
      PROVE  NameRound(walk, row, n, k, so) \in Results(repo, top, cap)
  <2>1. <<row.to, row.names[k][2]>> \in Pairs(repo, top)
    BY <1>2 DEF RowFits, Pairs
  <2>2. so.seen \in Marks(repo, top, cap)
    BY DEF Results
  <2>3. walk[<<row.to, row.names[k][2]>>][so.seen] \in Results(repo, top, cap)
    BY <2>1, <2>2 DEF Walks
  <2> QED
    BY <2>3 DEF NameRound
<1>5. f \in [1 .. N -> [Results(repo, top, cap) -> Results(repo, top, cap)]]
  BY <1>3, <1>4
<1>6. PICK L \in [0 .. N -> Results(repo, top, cap)] :
             L[0] = before /\ \A k \in 1 .. N : L[k] = f[k][L[k - 1]]
  <2>1. PICK S : S = Results(repo, top, cap)
    OBVIOUS
  <2>2. before \in S /\ f \in [1 .. N -> [S -> S]]
    BY <1>5, <2>1
  <2>3. PICK L : Loops(N, S, before, f, L)
    BY <1>2, <2>2, LoopRuns
  <2> QED
    BY <2>1, <2>3 DEF Loops
<1>7. L = [k \in 0 .. N |-> IF k = 0 THEN before ELSE NameRound(walk, row, n, k, L[k - 1])]
  <2>1. ASSUME NEW k \in 0 .. N
        PROVE  L[k] = IF k = 0 THEN before ELSE NameRound(walk, row, n, k, L[k - 1])
    <3>1. CASE k = 0
      BY <1>6, <3>1
    <3>2. CASE k # 0
      <4>1. k \in 1 .. N /\ k - 1 \in 0 .. N
        BY <1>2, <3>2
      <4>2. L[k] = f[k][L[k - 1]] /\ L[k - 1] \in Results(repo, top, cap)
        BY <1>6, <4>1
      <4> QED
        BY <1>3, <3>2, <4>1, <4>2
    <3> QED
      BY <3>1, <3>2
  <2> QED
    BY <1>2, <1>6, <2>1
<1>8. IsNaming(walk, row, n, before, L)
  BY <1>1, <1>7 DEF IsNaming
<1>9. PICK U : U = CHOOSE V : IsNaming(walk, row, n, before, V)
  OBVIOUS
<1>10. TryNames(walk, row, n, before) = U[Len(row.names)]
  BY <1>9 DEF TryNames, IsNaming, NameRound
<1> QED
  BY <1>8, <1>9, <1>10

NamesUpto(row, n, k) ==
    {<<row.to, row.names[j][2]>> : j \in {j \in 1 .. k : row.names[j][1] = n}}

LEMMA NamesTried ==
    ASSUME NEW repo, NEW top, NEW cap, NEW C, NEW hops, NEW walk \in Walks(repo, top, cap),
           Walks1(repo, top, cap, C, hops, walk),
           NEW row, RowFits(repo, top, row), row.to # Outside, NEW n,
           NEW before \in Results(repo, top, cap)
    PROVE  /\ TryNames(walk, row, n, before) \in Results(repo, top, cap)
           /\ Tried(repo, cap, C, hops, {<<row.to, row.names[k][2]>> : k \in Naming(row, n)},
                    before, TryNames(walk, row, n, before))
<1>1. PICK N : N = Len(row.names)
  OBVIOUS
<1>2. N \in Nat /\ DOMAIN row.names = 1 .. N
  BY <1>1 DEF RowFits, IsList
<1>3. PICK U : /\ IsNaming(walk, row, n, before, U)
               /\ TryNames(walk, row, n, before) = U[N]
  BY <1>1, NamingRuns
<1> DEFINE Upto(k) == NamesUpto(row, n, k)
           At(k) == /\ U[k] \in Results(repo, top, cap)
                    /\ Tried(repo, cap, C, hops, Upto(k), before, U[k])
           T == {k \in 0 .. N : At(k)}
<1>4. 0 \in T
  <2>1. U[0] = before /\ Upto(0) = {}
    BY <1>1, <1>2, <1>3 DEF IsNaming, NamesUpto
  <2>2. Tried(repo, cap, C, hops, Upto(0), before, before)
    BY <2>1, TriedNone
  <2> QED
    BY <1>2, <2>1, <2>2
<1>5. ASSUME NEW k \in 1 .. N, k - 1 \in T PROVE k \in T
  <2>1. PICK so : so = U[k - 1]
    OBVIOUS
  <2>2. so \in Results(repo, top, cap) /\ Tried(repo, cap, C, hops, Upto(k - 1), before, so)
    BY <1>5, <2>1
  <2>3. U[k] = NameRound(walk, row, n, k, so)
    <3>1. k \in 0 .. N /\ k # 0
      BY <1>2
    <3> QED
      BY <1>1, <1>3, <2>1, <3>1 DEF IsNaming
  <2>4. PICK q : q = <<row.to, row.names[k][2]>>
    OBVIOUS
  <2>5. q \in Pairs(repo, top)
    BY <1>2, <2>4 DEF RowFits, Pairs
  <2>6. CASE row.names[k][1] # n
    <3>1. U[k] = so /\ Upto(k) = Upto(k - 1)
      BY <2>3, <2>6 DEF NameRound, NamesUpto
    <3>2. At(k)
      BY <2>2, <3>1
    <3> HIDE DEF At
    <3> QED
      BY <3>2
  <2>7. CASE row.names[k][1] = n
    <3>1. Upto(k) = Upto(k - 1) \cup {q}
      BY <2>4, <2>7 DEF NamesUpto
    <3>2. U[k] \in Results(repo, top, cap) /\ Tried(repo, cap, C, hops, {q}, so, U[k])
      <4>1. CASE so.hit # NoExport
        <5>1. U[k] = so
          BY <2>3, <4>1 DEF NameRound
        <5> QED
          BY <2>2, <4>1, <5>1, TriedNone
      <4>2. CASE so.hit = NoExport
        <5>1. U[k] = walk[q][so.seen]
          BY <2>3, <2>4, <2>7, <4>2 DEF NameRound
        <5> QED
          BY <2>2, <2>5, <4>2, <5>1, TriedOne
      <4> QED
        BY <4>1, <4>2
    <3>3. PICK V : V = Upto(k - 1)
      OBVIOUS
    <3>4. Tried(repo, cap, C, hops, V \cup {q}, before, U[k])
      BY <2>2, <3>2, <3>3, TriedBoth
    <3>5. Tried(repo, cap, C, hops, Upto(k), before, U[k])
      BY <3>1, <3>3, <3>4
    <3>6. At(k)
      BY <3>2, <3>5
    <3> HIDE DEF At
    <3> QED
      BY <3>6
  <2> QED
    BY <2>6, <2>7
<1>6. N \in T
  <2> HIDE DEF T
  <2>1. \A k \in 0 .. N : k \in T
    BY <1>2, <1>4, <1>5, HopByHop
  <2> QED
    BY <1>2, <2>1
<1>7. Upto(N) = {<<row.to, row.names[k][2]>> : k \in Naming(row, n)}
  BY <1>2 DEF Naming, NamesUpto
<1> QED
  BY <1>3, <1>6, <1>7

LEMMA RowTried ==
    ASSUME NEW repo, NEW top, NEW cap, NEW C, NEW hops, NEW walk \in Walks(repo, top, cap),
           Walks1(repo, top, cap, C, hops, walk),
           NEW row, RowFits(repo, top, row), NEW n \in NamesMet(repo, top),
           NEW so \in Results(repo, top, cap)
    PROVE  /\ TryRow(walk, row, n, so) \in Results(repo, top, cap)
           /\ Tried(repo, cap, C, hops, OnwardBy(row, n), so, TryRow(walk, row, n, so))
<1>1. CASE so.hit # NoExport \/ row.to = Outside
  <2>1. TryRow(walk, row, n, so) = so
    BY <1>1 DEF TryRow
  <2>2. so.hit # NoExport \/ OnwardBy(row, n) = {}
    BY <1>1 DEF OnwardBy
  <2> QED
    BY <2>1, <2>2, TriedNone
<1>2. CASE so.hit = NoExport /\ row.to # Outside /\ row.star
  <2>1. PICK q : q = <<row.to, n>>
    OBVIOUS
  <2>2. q \in Pairs(repo, top)
    BY <1>2, <2>1 DEF RowFits, Pairs
  <2>3. TryRow(walk, row, n, so) = walk[q][so.seen] /\ OnwardBy(row, n) = {q}
    BY <1>2, <2>1 DEF TryRow, OnwardBy
  <2> QED
    BY <1>2, <2>2, <2>3, TriedOne
<1>3. CASE so.hit = NoExport /\ row.to # Outside /\ ~row.star
  <2>1. /\ TryRow(walk, row, n, so) = TryNames(walk, row, n, so)
        /\ OnwardBy(row, n) = {<<row.to, row.names[k][2]>> : k \in Naming(row, n)}
    BY <1>3 DEF TryRow, OnwardBy
  <2>2. PICK Q : Q = {<<row.to, row.names[k][2]>> : k \in Naming(row, n)}
    OBVIOUS
  <2>3. /\ TryNames(walk, row, n, so) \in Results(repo, top, cap)
        /\ Tried(repo, cap, C, hops, Q, so, TryNames(walk, row, n, so))
    BY <1>3, <2>2, NamesTried
  <2> QED
    BY <2>1, <2>2, <2>3
<1> QED
  BY <1>1, <1>2, <1>3

RowsFitAll(repo, top, rows) == IsList(rows) /\ \A j \in DOMAIN rows : RowFits(repo, top, rows[j])
IsRowing(walk, rows, n, before, U) ==
    U = [k \in 0 .. Len(rows) |-> IF k = 0 THEN before ELSE TryRow(walk, rows[k], n, U[k - 1])]

LEMMA RowingRuns ==
    ASSUME NEW repo, NEW top, NEW cap, NEW C, NEW hops, NEW walk \in Walks(repo, top, cap),
           Walks1(repo, top, cap, C, hops, walk),
           NEW rows, RowsFitAll(repo, top, rows), NEW n \in NamesMet(repo, top),
           NEW before \in Results(repo, top, cap)
    PROVE  \E U : /\ IsRowing(walk, rows, n, before, U)
                  /\ TryRows(walk, rows, n, before) = U[Len(rows)]
<1>1. PICK N : N = Len(rows)
  OBVIOUS
<1>2. N \in Nat /\ DOMAIN rows = 1 .. N
  BY <1>1 DEF RowsFitAll, IsList
<1>3. PICK S : S = Results(repo, top, cap)
  OBVIOUS
<1>4. PICK f : f = [k \in 1 .. N |-> [so \in S |-> TryRow(walk, rows[k], n, so)]]
  OBVIOUS
<1>5. ASSUME NEW k \in 1 .. N, NEW so \in S PROVE TryRow(walk, rows[k], n, so) \in S
  <2>1. RowFits(repo, top, rows[k])
    BY <1>2 DEF RowsFitAll
  <2> QED
    BY <1>3, <2>1, RowTried
<1>6. before \in S /\ f \in [1 .. N -> [S -> S]]
  BY <1>3, <1>4, <1>5
<1>7. PICK L : Loops(N, S, before, f, L)
  BY <1>2, <1>6, LoopRuns
<1>8. L = [k \in 0 .. N |-> IF k = 0 THEN before ELSE TryRow(walk, rows[k], n, L[k - 1])]
  <2>1. ASSUME NEW k \in 0 .. N
        PROVE  L[k] = IF k = 0 THEN before ELSE TryRow(walk, rows[k], n, L[k - 1])
    <3>1. CASE k = 0
      BY <1>7, <3>1 DEF Loops
    <3>2. CASE k # 0
      <4>1. k \in 1 .. N /\ k - 1 \in 0 .. N
        BY <1>2, <3>2
      <4>2. L[k] = f[k][L[k - 1]] /\ L[k - 1] \in S
        BY <1>7, <4>1 DEF Loops
      <4> QED
        BY <1>4, <3>2, <4>1, <4>2
    <3> QED
      BY <3>1, <3>2
  <2>2. L \in [0 .. N -> S]
    BY <1>7 DEF Loops
  <2> QED
    BY <1>2, <2>1, <2>2
<1>9. IsRowing(walk, rows, n, before, L)
  BY <1>1, <1>8 DEF IsRowing
<1>10. PICK U : U = CHOOSE V : IsRowing(walk, rows, n, before, V)
  OBVIOUS
<1>11. TryRows(walk, rows, n, before) = U[Len(rows)]
  BY <1>10 DEF TryRows, IsRowing
<1> QED
  BY <1>9, <1>10, <1>11

RowsUpto(rows, n, k) == UNION {OnwardBy(rows[j], n) : j \in 1 .. k}

LEMMA RowsTried ==
    ASSUME NEW repo, NEW top, NEW cap, NEW C, NEW hops, NEW walk \in Walks(repo, top, cap),
           Walks1(repo, top, cap, C, hops, walk),
           NEW rows, RowsFitAll(repo, top, rows), NEW n \in NamesMet(repo, top),
           NEW before \in Results(repo, top, cap)
    PROVE  /\ TryRows(walk, rows, n, before) \in Results(repo, top, cap)
           /\ Tried(repo, cap, C, hops, UNION {OnwardBy(rows[j], n) : j \in DOMAIN rows},
                    before, TryRows(walk, rows, n, before))
<1>1. PICK N : N = Len(rows)
  OBVIOUS
<1>2. N \in Nat /\ DOMAIN rows = 1 .. N
  BY <1>1 DEF RowsFitAll, IsList
<1>3. PICK U : /\ IsRowing(walk, rows, n, before, U)
               /\ TryRows(walk, rows, n, before) = U[N]
  BY <1>1, RowingRuns
<1> DEFINE At(k) == /\ U[k] \in Results(repo, top, cap)
                    /\ Tried(repo, cap, C, hops, RowsUpto(rows, n, k), before, U[k])
           T == {k \in 0 .. N : At(k)}
<1>4. 0 \in T
  <2>1. U[0] = before /\ RowsUpto(rows, n, 0) = {}
    BY <1>1, <1>2, <1>3 DEF IsRowing, RowsUpto
  <2>2. Tried(repo, cap, C, hops, RowsUpto(rows, n, 0), before, before)
    BY <2>1, TriedNone
  <2> QED
    BY <1>2, <2>1, <2>2
<1>5. ASSUME NEW k \in 1 .. N, k - 1 \in T PROVE k \in T
  <2>1. PICK so : so = U[k - 1]
    OBVIOUS
  <2>2. so \in Results(repo, top, cap) /\ Tried(repo, cap, C, hops, RowsUpto(rows, n, k - 1), before, so)
    BY <1>5, <2>1
  <2>3. U[k] = TryRow(walk, rows[k], n, so)
    <3>1. k \in 0 .. N /\ k # 0
      BY <1>2
    <3> QED
      BY <1>1, <1>3, <2>1, <3>1 DEF IsRowing
  <2>4. PICK row : row = rows[k] /\ RowFits(repo, top, row)
    BY <1>2 DEF RowsFitAll
  <2>5. U[k] \in Results(repo, top, cap) /\ Tried(repo, cap, C, hops, OnwardBy(row, n), so, U[k])
    BY <2>2, <2>3, <2>4, RowTried
  <2>6. PICK V, R : V = RowsUpto(rows, n, k - 1) /\ R = OnwardBy(row, n)
    OBVIOUS
  <2>7. RowsUpto(rows, n, k) = V \cup R
    <3>1. 1 .. k = (1 .. k - 1) \cup {k}
      BY <1>2
    <3> QED
      BY <2>4, <2>6, <3>1 DEF RowsUpto
  <2>8. Tried(repo, cap, C, hops, V \cup R, before, U[k])
    BY <2>2, <2>5, <2>6, TriedBoth
  <2>9. At(k)
    BY <2>5, <2>7, <2>8
  <2> HIDE DEF At
  <2> QED
    BY <2>9
<1>6. N \in T
  <2> HIDE DEF T
  <2>1. \A k \in 0 .. N : k \in T
    BY <1>2, <1>4, <1>5, HopByHop
  <2> QED
    BY <1>2, <2>1
<1>7. RowsUpto(rows, n, N) = UNION {OnwardBy(rows[j], n) : j \in DOMAIN rows}
  BY <1>2 DEF RowsUpto
<1> QED
  BY <1>3, <1>6, <1>7

(* What a pair leads to is one barrel further on every chain it is on.       *)
LEMMA ChainGoesOn ==
    ASSUME NEW repo, NEW start, NEW cap \in Nat, NEW C, IsChain(repo, start, cap, C),
           NEW k \in 1 .. cap, NEW p \in C[k - 1]
    PROVE  Onward(repo, p) \subseteq C[k]
BY DEF IsChain

LEMMA ChainGrows ==
    ASSUME NEW repo, NEW start, NEW cap \in Nat, NEW C, IsChain(repo, start, cap, C),
           NEW k \in 0 .. cap, NEW p \in C[k]
    PROVE  p \in C[cap]
<1> DEFINE T == {n \in 0 .. cap - k : p \in C[k + n]}
<1>1. 0 \in T
  OBVIOUS
<1>2. ASSUME NEW n \in 1 .. cap - k, n - 1 \in T PROVE n \in T
  <2>1. k + n \in 1 .. cap /\ p \in C[(k + n) - 1]
    BY <1>2
  <2>2. p \in C[k + n]
    BY <2>1 DEF IsChain
  <2> QED
    BY <2>2
<1>3. \A n \in 0 .. cap - k : n \in T
  <2> HIDE DEF T
  <2> QED
    BY <1>1, <1>2, HopByHop
<1>4. cap - k \in 0 .. cap - k /\ k + (cap - k) = cap
  OBVIOUS
<1> QED
  BY <1>3, <1>4

(* One call of the walk, given what the walk one hop further does.           *)
LEMMA StepTried ==
    ASSUME NEW repo, WellFormedExports(repo), NEW top, NEW start, NEW cap \in Nat,
           NEW C, IsChain(repo, start, cap, C),
           NEW left \in 0 .. cap, NEW walk,
           left # 0 => /\ walk \in Walks(repo, top, cap)
                       /\ Walks1(repo, top, cap, C, (cap - left) + 1, walk),
           NEW pair \in Pairs(repo, top), NEW seen \in Marks(repo, top, cap)
    PROVE  /\ ExportStep(repo, walk, left, cap - left, pair, seen) \in Results(repo, top, cap)
           /\ Tried(repo, cap, C, cap - left, {pair}, [hit |-> NoExport, seen |-> seen],
                    ExportStep(repo, walk, left, cap - left, pair, seen))
<1>1. PICK hops \in 0 .. cap : hops = cap - left
  OBVIOUS
<1>2. PICK a \in Results(repo, top, cap) : a = [hit |-> NoExport, seen |-> seen]
  BY DEF Results, Defs
<1>3. PICK r : r = ExportStep(repo, walk, left, hops, pair, seen)
  OBVIOUS
<1>4. PICK own \in Defs(repo, top) : own = Importable(repo, pair[1], pair[2])
  BY DEF Defs
<1>5. PICK marked \in Marks(repo, top, cap) : marked = seen \cup {<<pair, hops>>}
  <2>1. PICK all : all = Pairs(repo, top) \X (0 .. cap)
    OBVIOUS
  <2>2. <<pair, hops>> \in all /\ seen \in SUBSET all /\ Marks(repo, top, cap) = SUBSET all
    BY <1>1, <2>1 DEF Marks
  <2> QED
    BY <2>2
<1>6. WalkedAlready(marked, pair, hops)
  <2>1. PICK mark : mark = <<pair, hops>>
    OBVIOUS
  <2>2. mark \in marked /\ mark[1] = pair /\ mark[2] <= hops
    BY <1>1, <1>5, <2>1
  <2> QED
    BY <2>2 DEF WalkedAlready
<1>7. CASE WalkedAlready(seen, pair, hops)
  <2>1. r = a
    BY <1>2, <1>3, <1>7 DEF ExportStep
  <2>2. Tried(repo, cap, C, hops, {pair}, a, a)
    BY <1>2, <1>7 DEF Tried, Settles
  <2> QED
    BY <1>1, <1>2, <1>3, <2>1, <2>2
<1>8. CASE ~WalkedAlready(seen, pair, hops) /\ own # NoExport
  <2>1. r = [hit |-> own, seen |-> marked]
    BY <1>3, <1>4, <1>5, <1>8 DEF ExportStep
  <2>2. r \in Results(repo, top, cap) /\ r.hit = own /\ a.seen \subseteq r.seen
    BY <1>2, <1>5, <2>1 DEF Results
  <2>3. {pair} \subseteq C[hops] => ChainEnds(repo, cap, C, r.hit)
    BY <1>4, <2>2, ChainGrows DEF ChainEnds
  <2>4. Tried(repo, cap, C, hops, {pair}, a, r)
    BY <1>8, <2>2, <2>3 DEF Tried, Settles
  <2> QED
    BY <1>1, <1>2, <1>3, <2>2, <2>4
<1>9. CASE ~WalkedAlready(seen, pair, hops) /\ own = NoExport
  <2>1. PICK b \in Results(repo, top, cap) : b = [hit |-> NoExport, seen |-> marked]
    BY DEF Results, Defs
  <2>2. /\ r \in Results(repo, top, cap) /\ Settles(repo, cap, b, r)
        /\ r.hit = NoExport /\ hops < cap =>
             \A q \in Onward(repo, pair) : WalkedAlready(r.seen, q, hops + 1)
        /\ r.hit # NoExport /\ pair \in C[hops] => ChainEnds(repo, cap, C, r.hit)
    <3>1. CASE left = 0 \/ IsNamespace(repo, pair[1], pair[2])
      <4>1. r = b
        BY <1>3, <1>4, <1>5, <1>9, <2>1, <3>1 DEF ExportStep
      <4>2. hops < cap => Onward(repo, pair) = {}
        BY <1>1, <3>1 DEF Onward
      <4> QED
        BY <2>1, <4>1, <4>2 DEF Settles
    <3>2. CASE left # 0 /\ ~IsNamespace(repo, pair[1], pair[2])
      <4>1. PICK rows : rows = repo[pair[1]].reexports
        OBVIOUS
      <4>2. pair[1] \in DOMAIN repo /\ pair[2] \in NamesMet(repo, top)
        BY DEF Pairs
      <4>3. RowsFitAll(repo, top, rows)
        BY <4>1, <4>2, RowsFit DEF RowsFitAll, WellFormedExports
      <4>4. r = TryRows(walk, rows, pair[2], b)
        BY <1>3, <1>4, <1>5, <1>9, <2>1, <3>2, <4>1 DEF ExportStep
      <4>5. PICK Q : Q = UNION {OnwardBy(rows[j], pair[2]) : j \in DOMAIN rows}
        OBVIOUS
      <4>6. Onward(repo, pair) = Q
        BY <1>4, <1>9, <3>2, <4>1, <4>5 DEF Onward
      <4>7. PICK next : next = hops + 1 /\ next \in 1 .. cap /\ next - 1 = hops
        BY <1>1, <3>2
      <4>8. walk \in Walks(repo, top, cap) /\ Walks1(repo, top, cap, C, next, walk)
        BY <1>1, <3>2, <4>7
      <4>9. PICK m : m = pair[2] /\ m \in NamesMet(repo, top)
        BY <4>2
      <4>10. r \in Results(repo, top, cap) /\ Tried(repo, cap, C, next, Q, b, r)
        BY <4>3, <4>4, <4>5, <4>8, <4>9, RowsTried
      <4>11. pair \in C[hops] => Q \subseteq C[next]
        BY <4>6, <4>7, ChainGoesOn
      <4>12. b.hit = NoExport
        BY <2>1
      <4> QED
        BY <4>6, <4>7, <4>10, <4>11, <4>12 DEF Tried
    <3> QED
      BY <3>1, <3>2
  <2>3. PICK mark : mark = <<pair, hops>>
    OBVIOUS
  <2>4. a.hit = NoExport /\ b.hit = NoExport /\ a.seen = seen /\ b.seen = seen \cup {mark}
    BY <1>2, <1>5, <2>1, <2>3
  <2>5. r.hit = NoExport => Settled(repo, cap, r.seen, mark)
    <3>1. mark[1] = pair /\ mark[2] = hops
      BY <2>3
    <3> QED
      BY <1>4, <1>9, <2>2, <3>1 DEF Settled
  <2>6. Settles(repo, cap, a, r)
    BY <2>2, <2>4, <2>5 DEF Settles
  <2>7. WalkedAlready(r.seen, pair, hops)
    <3>1. b.seen = marked /\ b.seen \subseteq r.seen
      BY <2>1, <2>2 DEF Settles
    <3> QED
      BY <1>6, <3>1, WalkedStays
  <2>8. Tried(repo, cap, C, hops, {pair}, a, r)
    BY <2>2, <2>6, <2>7 DEF Tried
  <2> QED
    BY <1>1, <1>2, <1>3, <2>2, <2>8
<1> QED
  BY <1>7, <1>8, <1>9

(* The walk, hop by hop.                                                     *)
IsLookup(repo, top, cap, N, U) ==
    U = [left \in 0 .. N |->
            [pair \in Pairs(repo, top) |-> [seen \in SUBSET (Pairs(repo, top) \X (0 .. cap)) |->
                ExportStep(repo, U[left - 1], left, cap - left, pair, seen)]]]

(* With no hops left a call asks nothing of the walk.                        *)
LEMMA LastStep ==
    ASSUME NEW repo, NEW v, NEW w, NEW hops, NEW pair, NEW seen
    PROVE  ExportStep(repo, v, 0, hops, pair, seen) = ExportStep(repo, w, 0, hops, pair, seen)
BY DEF ExportStep

LEMMA LookupExists ==
    ASSUME NEW repo, NEW top, NEW cap \in Nat
    PROVE  \E U : IsLookup(repo, top, cap, cap, U)
<1> DEFINE At(walk, left) ==
                [pair \in Pairs(repo, top) |-> [seen \in SUBSET (Pairs(repo, top) \X (0 .. cap)) |->
                    ExportStep(repo, walk, left, cap - left, pair, seen)]]
           T == {n \in 0 .. cap : \E U : IsLookup(repo, top, cap, n, U)}
<1>1. 0 \in T
  <2>1. PICK U : U = [left \in 0 .. 0 |-> At(0, left)]
    OBVIOUS
  <2>2. At(0, 0) = At(U[0 - 1], 0)
    BY LastStep
  <2>3. U = [left \in 0 .. 0 |-> At(U[left - 1], left)]
    <3> HIDE DEF At
    <3>1. ASSUME NEW left \in 0 .. 0 PROVE U[left] = At(U[left - 1], left)
      <4>1. left = 0
        OBVIOUS
      <4>2. U[0] = At(0, 0)
        BY <2>1
      <4> QED
        BY <2>2, <4>1, <4>2
    <3> QED
      BY <2>1, <3>1
  <2>4. IsLookup(repo, top, cap, 0, U)
    BY <2>3 DEF IsLookup
  <2> QED
    BY <2>4
<1>2. ASSUME NEW n \in 1 .. cap, n - 1 \in T PROVE n \in T
  <2>1. PICK V : IsLookup(repo, top, cap, n - 1, V)
    BY <1>2
  <2>2. V = [left \in 0 .. n - 1 |-> At(V[left - 1], left)]
    BY <2>1 DEF IsLookup
  <2>3. PICK U : U = [left \in 0 .. n |-> IF left = n THEN At(V[n - 1], n) ELSE V[left]]
    OBVIOUS
  <2>4. U = [left \in 0 .. n |-> At(U[left - 1], left)]
    <3>1. ASSUME NEW left \in 0 .. n PROVE U[left] = At(U[left - 1], left)
      <4>1. CASE left = n
        <5>1. U[left - 1] = V[n - 1] /\ U[left] = At(V[n - 1], n)
          <6> HIDE DEF At
          <6> QED
            BY <2>3, <4>1
        <5> HIDE DEF At
        <5> QED
          BY <4>1, <5>1
      <4>2. CASE left # n /\ left # 0
        <5>1. left \in 0 .. n - 1 /\ left - 1 \in 0 .. n /\ left - 1 # n
          BY <4>2
        <5>2. U[left] = V[left] /\ U[left - 1] = V[left - 1]
          <6> HIDE DEF At
          <6> QED
            BY <2>3, <4>2, <5>1
        <5>3. V[left] = At(V[left - 1], left)
          <6> HIDE DEF At
          <6> QED
            BY <2>2, <5>1
        <5> HIDE DEF At
        <5> QED
          BY <5>2, <5>3
      <4>3. CASE left # n /\ left = 0
        <5>1. U[left] = V[0] /\ V[0] = At(V[0 - 1], 0)
          <6> HIDE DEF At
          <6> QED
            BY <2>2, <2>3, <4>3
        <5>2. At(V[0 - 1], 0) = At(U[0 - 1], 0)
          BY LastStep
        <5> HIDE DEF At
        <5> QED
          BY <4>3, <5>1, <5>2
      <4> QED
        BY <4>1, <4>2, <4>3
    <3> HIDE DEF At
    <3> QED
      BY <2>3, <3>1
  <2>5. IsLookup(repo, top, cap, n, U)
    BY <2>4 DEF IsLookup
  <2> QED
    BY <2>5
<1>3. cap \in T
  <2> HIDE DEF T
  <2>1. \A n \in 0 .. cap : n \in T
    BY <1>1, <1>2, HopByHop
  <2> QED
    BY <2>1
<1> QED
  BY <1>3

LEMMA LookupWalks ==
    ASSUME NEW repo, WellFormedExports(repo), NEW top, NEW start, NEW cap \in Nat,
           NEW C, IsChain(repo, start, cap, C), NEW U, IsLookup(repo, top, cap, cap, U)
    PROVE  \A left \in 0 .. cap : /\ U[left] \in Walks(repo, top, cap)
                                   /\ Walks1(repo, top, cap, C, cap - left, U[left])
<1> DEFINE Good(left) == /\ U[left] \in Walks(repo, top, cap)
                         /\ Walks1(repo, top, cap, C, cap - left, U[left])
           T == {left \in 0 .. cap : Good(left)}
<1>1. ASSUME NEW left \in 0 .. cap, left # 0 => Good(left - 1) PROVE Good(left)
  <2>1. PICK walk : walk = U[left - 1]
    OBVIOUS
  <2>2. PICK now : now = U[left]
    OBVIOUS
  <2>3. now = [pair \in Pairs(repo, top) |-> [seen \in Marks(repo, top, cap) |->
                  ExportStep(repo, walk, left, cap - left, pair, seen)]]
    <3> DEFINE At(l) == [pair \in Pairs(repo, top) |->
                            [seen \in SUBSET (Pairs(repo, top) \X (0 .. cap)) |->
                                ExportStep(repo, U[l - 1], l, cap - l, pair, seen)]]
    <3>1. U = [l \in 0 .. cap |-> At(l)]
      BY DEF IsLookup
    <3>2. now = At(left)
      <4> HIDE DEF At
      <4> QED
        BY <2>2, <3>1
    <3> QED
      BY <2>1, <3>2 DEF Marks
  <2>4. left # 0 => /\ walk \in Walks(repo, top, cap)
                    /\ Walks1(repo, top, cap, C, (cap - left) + 1, walk)
    <3>1. left # 0 => cap - (left - 1) = (cap - left) + 1
      OBVIOUS
    <3> QED
      BY <1>1, <2>1, <3>1
  <2>5. ASSUME NEW pair \in Pairs(repo, top), NEW seen \in Marks(repo, top, cap)
        PROVE  /\ ExportStep(repo, walk, left, cap - left, pair, seen) \in Results(repo, top, cap)
               /\ Tried(repo, cap, C, cap - left, {pair}, [hit |-> NoExport, seen |-> seen],
                        ExportStep(repo, walk, left, cap - left, pair, seen))
    BY <2>4, StepTried
  <2>6. now \in Walks(repo, top, cap)
    BY <2>3, <2>5 DEF Walks
  <2>7. Walks1(repo, top, cap, C, cap - left, now)
    <3> SUFFICES ASSUME NEW pair \in Pairs(repo, top), NEW seen \in Marks(repo, top, cap)
                 PROVE  Tried(repo, cap, C, cap - left, {pair}, [hit |-> NoExport, seen |-> seen],
                              now[pair][seen])
      BY DEF Walks1
    <3>1. now[pair][seen] = ExportStep(repo, walk, left, cap - left, pair, seen)
      BY <2>3
    <3> QED
      BY <2>5, <3>1
  <2> QED
    BY <2>2, <2>6, <2>7
<1>2. 0 \in T
  <2>1. Good(0)
    BY <1>1
  <2> HIDE DEF Good
  <2> QED
    BY <2>1
<1>3. ASSUME NEW left \in 1 .. cap, left - 1 \in T PROVE left \in T
  <2>1. left \in 0 .. cap /\ Good(left - 1)
    BY <1>3
  <2>2. Good(left)
    BY <1>1, <2>1
  <2> HIDE DEF Good
  <2> QED
    BY <2>1, <2>2
<1>4. \A left \in 0 .. cap : left \in T
  <2> HIDE DEF T
  <2> QED
    BY <1>2, <1>3, HopByHop
<1> QED
  BY <1>4

IsChaining(repo, start, N, U) ==
    U = [k \in 0 .. N |-> IF k = 0 THEN {start}
                          ELSE U[k - 1] \cup UNION {Onward(repo, p) : p \in U[k - 1]}]

LEMMA ChainExists ==
    ASSUME NEW repo, NEW start, NEW cap \in Nat
    PROVE  \E U : IsChaining(repo, start, cap, U)
<1> DEFINE Further(D) == D \cup UNION {Onward(repo, p) : p \in D}
           T == {n \in 0 .. cap : \E U : IsChaining(repo, start, n, U)}
<1>1. 0 \in T
  <2>1. PICK U : U = [k \in 0 .. 0 |-> {start}]
    OBVIOUS
  <2>2. IsChaining(repo, start, 0, U)
    BY <2>1 DEF IsChaining
  <2> QED
    BY <2>2
<1>2. ASSUME NEW n \in 1 .. cap, n - 1 \in T PROVE n \in T
  <2>1. PICK V : IsChaining(repo, start, n - 1, V)
    BY <1>2
  <2>2. V = [k \in 0 .. n - 1 |-> IF k = 0 THEN {start} ELSE Further(V[k - 1])]
    BY <2>1 DEF IsChaining
  <2>3. PICK U : U = [k \in 0 .. n |-> IF k = n THEN Further(V[n - 1]) ELSE V[k]]
    OBVIOUS
  <2>4. U = [k \in 0 .. n |-> IF k = 0 THEN {start} ELSE Further(U[k - 1])]
    <3> HIDE DEF Further
    <3>1. ASSUME NEW k \in 0 .. n PROVE U[k] = IF k = 0 THEN {start} ELSE Further(U[k - 1])
      <4>1. CASE k = n
        <5>1. k # 0 /\ U[k] = Further(V[n - 1]) /\ U[k - 1] = V[n - 1]
          BY <2>3, <4>1
        <5> QED
          BY <4>1, <5>1
      <4>2. CASE k # n
        <5>1. k \in 0 .. n - 1 /\ U[k] = V[k] /\ (k # 0 => U[k - 1] = V[k - 1])
          BY <2>3, <4>2
        <5>2. V[k] = IF k = 0 THEN {start} ELSE Further(V[k - 1])
          BY <2>2, <5>1
        <5> QED
          BY <5>1, <5>2
      <4> QED
        BY <4>1, <4>2
    <3> QED
      BY <2>3, <3>1
  <2>5. IsChaining(repo, start, n, U)
    BY <2>4 DEF IsChaining
  <2> QED
    BY <2>5
<1>3. cap \in T
  <2> HIDE DEF T
  <2>1. \A n \in 0 .. cap : n \in T
    BY <1>1, <1>2, HopByHop
  <2> QED
    BY <2>1
<1> QED
  BY <1>3

LEMMA ChainedIs ==
    ASSUME NEW repo, NEW file, NEW name, NEW cap \in Nat
    PROVE  \E C : /\ IsChain(repo, <<file, name>>, cap, C)
                  /\ Chained(repo, file, name, cap) = C[cap]
<1>1. PICK C : C = CHOOSE U : IsChaining(repo, <<file, name>>, cap, U)
  OBVIOUS
<1>2. IsChaining(repo, <<file, name>>, cap, C)
  BY <1>1, ChainExists
<1>3. Chained(repo, file, name, cap) = C[cap]
  BY <1>1 DEF Chained, IsChaining
<1>4. IsChain(repo, <<file, name>>, cap, C)
  BY <1>2 DEF IsChaining, IsChain
<1> QED
  BY <1>3, <1>4

(* Every pair a chain leads to has been met within as many hops.             *)
LEMMA ChainIsMet ==
    ASSUME NEW repo, NEW start, NEW cap \in Nat, NEW C, IsChain(repo, start, cap, C),
           NEW seen, WalkedAlready(seen, start, 0),
           \A mark \in seen : mark[2] \in 0 .. cap /\ Settled(repo, cap, seen, mark)
    PROVE  \A p \in C[cap] : WalkedAlready(seen, p, cap)
<1> DEFINE At(k) == \A p \in C[k] : WalkedAlready(seen, p, k)
           T == {k \in 0 .. cap : At(k)}
<1>1. 0 \in T
  BY DEF IsChain
<1>2. ASSUME NEW k \in 1 .. cap, k - 1 \in T PROVE k \in T
  <2>1. ASSUME NEW p \in C[k] PROVE WalkedAlready(seen, p, k)
    <3>1. CASE p \in C[k - 1]
      <4>1. WalkedAlready(seen, p, k - 1)
        BY <1>2, <3>1
      <4> QED
        BY <4>1 DEF WalkedAlready
    <3>2. CASE p \notin C[k - 1]
      <4>1. PICK from \in C[k - 1] : p \in Onward(repo, from)
        BY <2>1, <3>2 DEF IsChain
      <4>2. PICK mark \in seen : mark[1] = from /\ mark[2] <= k - 1
        BY <1>2, <4>1 DEF WalkedAlready
      <4>3. mark[2] < cap /\ Settled(repo, cap, seen, mark) /\ mark[2] \in 0 .. cap
        BY <4>2
      <4>4. WalkedAlready(seen, p, mark[2] + 1)
        BY <4>1, <4>2, <4>3 DEF Settled
      <4> QED
        BY <4>2, <4>3, <4>4 DEF WalkedAlready
    <3> QED
      BY <3>1, <3>2
  <2> QED
    BY <2>1
<1>3. \A k \in 0 .. cap : k \in T
  <2> HIDE DEF T
  <2> QED
    BY <1>1, <1>2, HopByHop
<1> QED
  BY <1>3

LEMMA LookupIs ==
    ASSUME NEW repo, WellFormedExports(repo), NEW file \in DOMAIN repo, NEW name,
           NEW cap \in Nat
    PROVE  LookupIsChained(repo, file, name, cap)
<1>1. PICK start : start = <<file, name>>
  OBVIOUS
<1>2. PICK C : IsChain(repo, start, cap, C) /\ Chained(repo, file, name, cap) = C[cap]
  BY <1>1, ChainedIs
<1>3. PICK U : U = CHOOSE V : IsLookup(repo, name, cap, cap, V)
  OBVIOUS
<1>4. IsLookup(repo, name, cap, cap, U)
  BY <1>3, LookupExists
<1>5. PICK walk : walk = U[cap]
  OBVIOUS
<1>6. walk \in Walks(repo, name, cap) /\ Walks1(repo, name, cap, C, 0, walk)
  <2>1. cap \in 0 .. cap /\ cap - cap = 0
    OBVIOUS
  <2> QED
    BY <1>2, <1>4, <1>5, <2>1, LookupWalks
<1>7. start \in Pairs(repo, name) /\ {} \in Marks(repo, name, cap)
  BY <1>1 DEF Pairs, NamesMet, Marks
<1>8. PICK r : r = walk[start][{}]
  OBVIOUS
<1>9. LookupExport(repo, file, name, cap) = r.hit
  BY <1>1, <1>3, <1>5, <1>8 DEF LookupExport, IsLookup
<1>10. r \in Results(repo, name, cap)
  BY <1>6, <1>7, <1>8 DEF Walks
<1>11. Tried(repo, cap, C, 0, {start}, [hit |-> NoExport, seen |-> {}], r)
  BY <1>6, <1>7, <1>8 DEF Walks1
<1> DEFINE Met == {Importable(repo, p[1], p[2]) : p \in C[cap]} \ {NoExport}
<1>12. CASE r.hit = NoExport
  <2>1. \A mark \in r.seen : Settled(repo, cap, r.seen, mark)
    BY <1>11, <1>12 DEF Tried, Settles
  <2>2. \A mark \in r.seen : mark[2] \in 0 .. cap
    BY <1>10 DEF Results, Marks
  <2>3. WalkedAlready(r.seen, start, 0)
    BY <1>11, <1>12 DEF Tried
  <2>4. \A p \in C[cap] : WalkedAlready(r.seen, p, cap)
    BY <1>2, <2>1, <2>2, <2>3, ChainIsMet
  <2>5. \A p \in C[cap] : Importable(repo, p[1], p[2]) = NoExport
    BY <2>1, <2>4 DEF Settled, WalkedAlready
  <2>6. Met = {}
    BY <2>5
  <2> QED
    BY <1>2, <1>9, <1>12, <2>6 DEF LookupIsChained
<1>13. CASE r.hit # NoExport
  <2>1. start \in C[0]
    BY <1>2 DEF IsChain
  <2>2. PICK none : none = [hit |-> NoExport, seen |-> {}]
    OBVIOUS
  <2>3. none.hit = NoExport
    BY <2>2
  <2>4. ChainEnds(repo, cap, C, r.hit)
    BY <1>11, <1>13, <2>1, <2>2, <2>3 DEF Tried
  <2>5. r.hit \in Met
    BY <1>13, <2>4 DEF ChainEnds
  <2> QED
    BY <1>2, <1>9, <2>5 DEF LookupIsChained
<1> QED
  BY <1>12, <1>13

(* The visited map of a lookup costs no answer: for any files, barrels,      *)
(* cycles and cap, a name is found exactly where a chain of barrels within   *)
(* the cap leads to a file that declares it.                                 *)
THEOREM LookupFollowsBarrelsHolds ==
    ASSUME QuestionOK
    PROVE  LookupFollowsBarrels
BY LookupIs DEF QuestionOK, LookupFollowsBarrels

-----------------------------------------------------------------------------
(* The namespace a name is looked up in.                                     *)

Spaces(repo) == [hit : DOMAIN repo \cup {NoName}, seen : SUBSET DOMAIN repo]
SpaceWalks(repo, top) == [Pairs(repo, top) -> [SUBSET DOMAIN repo -> Spaces(repo)]]

(* Some chain re-exports the file under the name it has come to.             *)
Reexports(repo, cap, C, space) ==
    \E p \in C[cap] :
       /\ Importable(repo, p[1], p[2]) = NoExport
       /\ \E n \in DOMAIN repo[p[1]].reexports :
            LET r == repo[p[1]].reexports[n] IN r.namespace = p[2] /\ r.to = space
FindsSpace(repo, cap, C, reached, r) ==
    r.hit # NoName /\ reached => Reexports(repo, cap, C, r.hit)
SpacesFound(repo, top, cap, C, hops, walk) ==
    \A pair \in Pairs(repo, top), visited \in SUBSET DOMAIN repo :
       FindsSpace(repo, cap, C, pair \in C[hops], walk[pair][visited])

LEMMA FirstIs ==
    ASSUME NEW T \in SUBSET Nat, T # {}
    PROVE  First(T) \in T
BY FirstOf DEF First

StarRound(walk, rows, n, k, so) ==
    IF so.hit # NoName \/ ~rows[k].star \/ rows[k].to = Outside THEN so
    ELSE walk[<<rows[k].to, n>>][so.seen]
IsStarring(walk, rows, n, before, U) ==
    U = [k \in 0 .. Len(rows) |-> IF k = 0 THEN before ELSE StarRound(walk, rows, n, k, U[k - 1])]

LEMMA StarTyped ==
    ASSUME NEW repo, NEW top, NEW walk \in SpaceWalks(repo, top),
           NEW rows, RowsFitAll(repo, top, rows), NEW n \in NamesMet(repo, top),
           NEW k \in DOMAIN rows, NEW so \in Spaces(repo)
    PROVE  StarRound(walk, rows, n, k, so) \in Spaces(repo)
<1>1. rows[k].to # Outside => <<rows[k].to, n>> \in Pairs(repo, top)
  BY DEF RowsFitAll, RowFits, Pairs
<1>2. so.seen \in SUBSET DOMAIN repo
  BY DEF Spaces
<1>3. rows[k].to # Outside => walk[<<rows[k].to, n>>][so.seen] \in Spaces(repo)
  BY <1>1, <1>2 DEF SpaceWalks
<1> QED
  BY <1>3 DEF StarRound

LEMMA StarringRuns ==
    ASSUME NEW repo, NEW top, NEW walk \in SpaceWalks(repo, top),
           NEW rows, RowsFitAll(repo, top, rows), NEW n \in NamesMet(repo, top),
           NEW before \in Spaces(repo)
    PROVE  \E U : /\ IsStarring(walk, rows, n, before, U)
                  /\ TryStars(walk, rows, n, before) = U[Len(rows)]
<1>1. PICK N : N = Len(rows)
  OBVIOUS
<1>2. N \in Nat /\ DOMAIN rows = 1 .. N
  BY <1>1 DEF RowsFitAll, IsList
<1>3. PICK S : S = Spaces(repo)
  OBVIOUS
<1>4. PICK f : f = [k \in 1 .. N |-> [so \in S |-> StarRound(walk, rows, n, k, so)]]
  OBVIOUS
<1>5. ASSUME NEW k \in 1 .. N, NEW so \in S PROVE StarRound(walk, rows, n, k, so) \in S
  BY <1>2, <1>3, StarTyped
<1>6. before \in S /\ f \in [1 .. N -> [S -> S]]
  BY <1>3, <1>4, <1>5
<1>7. PICK L : Loops(N, S, before, f, L)
  BY <1>2, <1>6, LoopRuns
<1>8. L = [k \in 0 .. N |-> IF k = 0 THEN before ELSE StarRound(walk, rows, n, k, L[k - 1])]
  <2>1. ASSUME NEW k \in 0 .. N
        PROVE  L[k] = IF k = 0 THEN before ELSE StarRound(walk, rows, n, k, L[k - 1])
    <3>1. CASE k = 0
      BY <1>7, <3>1 DEF Loops
    <3>2. CASE k # 0
      <4>1. k \in 1 .. N /\ k - 1 \in 0 .. N
        BY <1>2, <3>2
      <4>2. L[k] = f[k][L[k - 1]] /\ L[k - 1] \in S
        BY <1>7, <4>1 DEF Loops
      <4> QED
        BY <1>4, <3>2, <4>1, <4>2
    <3> QED
      BY <3>1, <3>2
  <2>2. L \in [0 .. N -> S]
    BY <1>7 DEF Loops
  <2> QED
    BY <1>2, <2>1, <2>2
<1>9. IsStarring(walk, rows, n, before, L)
  BY <1>1, <1>8 DEF IsStarring
<1>10. PICK U : U = CHOOSE V : IsStarring(walk, rows, n, before, V)
  OBVIOUS
<1>11. TryStars(walk, rows, n, before) = U[Len(rows)]
  BY <1>10 DEF TryStars, IsStarring, StarRound
<1> QED
  BY <1>9, <1>10, <1>11

LEMMA StarsFind ==
    ASSUME NEW repo, NEW top, NEW cap, NEW C, NEW hops, NEW walk \in SpaceWalks(repo, top),
           SpacesFound(repo, top, cap, C, hops, walk),
           NEW rows, RowsFitAll(repo, top, rows), NEW n \in NamesMet(repo, top),
           NEW before \in Spaces(repo), before.hit = NoName, NEW reached \in BOOLEAN,
           reached => \A k \in DOMAIN rows : OnwardBy(rows[k], n) \subseteq C[hops]
    PROVE  /\ TryStars(walk, rows, n, before) \in Spaces(repo)
           /\ FindsSpace(repo, cap, C, reached, TryStars(walk, rows, n, before))
<1>1. PICK N : N = Len(rows)
  OBVIOUS
<1>2. N \in Nat /\ DOMAIN rows = 1 .. N
  BY <1>1 DEF RowsFitAll, IsList
<1>3. PICK U : /\ IsStarring(walk, rows, n, before, U)
               /\ TryStars(walk, rows, n, before) = U[N]
  BY <1>1, StarringRuns
<1> DEFINE At(k) == U[k] \in Spaces(repo) /\ FindsSpace(repo, cap, C, reached, U[k])
           T == {k \in 0 .. N : At(k)}
<1>4. 0 \in T
  <2>1. U[0] = before
    BY <1>1, <1>2, <1>3 DEF IsStarring
  <2>2. At(0)
    BY <2>1 DEF FindsSpace
  <2> HIDE DEF At
  <2> QED
    BY <1>2, <2>2
<1>5. ASSUME NEW k \in 1 .. N, k - 1 \in T PROVE k \in T
  <2>1. PICK so : so = U[k - 1]
    OBVIOUS
  <2>2. so \in Spaces(repo) /\ FindsSpace(repo, cap, C, reached, so)
    BY <1>5, <2>1
  <2>3. U[k] = StarRound(walk, rows, n, k, so)
    <3>1. k \in 0 .. N /\ k # 0
      BY <1>2
    <3> QED
      BY <1>1, <1>3, <2>1, <3>1 DEF IsStarring
  <2>4. U[k] \in Spaces(repo)
    BY <1>2, <2>2, <2>3, StarTyped
  <2>5. CASE so.hit # NoName \/ ~rows[k].star \/ rows[k].to = Outside
    <3>1. U[k] = so
      BY <2>3, <2>5 DEF StarRound
    <3>2. At(k)
      BY <2>2, <3>1
    <3> HIDE DEF At
    <3> QED
      BY <3>2
  <2>6. CASE so.hit = NoName /\ rows[k].star /\ rows[k].to # Outside
    <3>1. PICK q : q = <<rows[k].to, n>>
      OBVIOUS
    <3>2. q \in Pairs(repo, top) /\ so.seen \in SUBSET DOMAIN repo
      BY <1>2, <2>2, <2>6, <3>1 DEF RowsFitAll, RowFits, Pairs, Spaces
    <3>3. U[k] = walk[q][so.seen]
      BY <2>3, <2>6, <3>1 DEF StarRound
    <3>4. reached => q \in C[hops]
      BY <1>2, <2>6, <3>1 DEF OnwardBy
    <3>5. FindsSpace(repo, cap, C, q \in C[hops], U[k])
      BY <3>2, <3>3 DEF SpacesFound
    <3>6. At(k)
      BY <2>4, <3>4, <3>5 DEF FindsSpace
    <3> HIDE DEF At
    <3> QED
      BY <3>6
  <2> QED
    BY <2>5, <2>6
<1>6. N \in T
  <2> HIDE DEF T
  <2>1. \A k \in 0 .. N : k \in T
    BY <1>2, <1>4, <1>5, HopByHop
  <2> QED
    BY <1>2, <2>1
<1> QED
  BY <1>3, <1>6

LEMMA SpaceStepFinds ==
    ASSUME NEW repo, WellFormedExports(repo), NEW top, NEW start, NEW cap \in Nat,
           NEW C, IsChain(repo, start, cap, C),
           NEW left \in 0 .. cap, NEW walk,
           left # 0 => /\ walk \in SpaceWalks(repo, top)
                       /\ SpacesFound(repo, top, cap, C, (cap - left) + 1, walk),
           NEW pair \in Pairs(repo, top), NEW visited \in SUBSET DOMAIN repo
    PROVE  /\ NamespaceStep(repo, walk, left, pair, visited) \in Spaces(repo)
           /\ FindsSpace(repo, cap, C, pair \in C[cap - left],
                         NamespaceStep(repo, walk, left, pair, visited))
<1>1. PICK hops \in 0 .. cap : hops = cap - left
  OBVIOUS
<1>2. PICK r : r = NamespaceStep(repo, walk, left, pair, visited)
  OBVIOUS
<1>3. PICK rows : rows = repo[pair[1]].reexports
  OBVIOUS
<1>4. pair[1] \in DOMAIN repo /\ pair[2] \in NamesMet(repo, top)
  BY DEF Pairs
<1>5. RowsFitAll(repo, top, rows)
  BY <1>3, <1>4, RowsFit DEF RowsFitAll, WellFormedExports
<1>6. DOMAIN rows \subseteq Nat
  BY <1>5 DEF RowsFitAll, IsList
<1>7. PICK marked \in SUBSET DOMAIN repo : marked = visited \cup {pair[1]}
  BY <1>4
<1>8. PICK none \in Spaces(repo) : none = [hit |-> NoName, seen |-> marked]
  BY <1>7 DEF Spaces
<1> DEFINE spaces == {n \in DOMAIN rows : rows[n].namespace = pair[2]}
           naming == {n \in DOMAIN rows : Naming(rows[n], pair[2]) # {}}
<1>9. CASE left = 0 \/ pair[1] \in visited
  <2>1. r = [hit |-> NoName, seen |-> visited]
    BY <1>2, <1>9 DEF NamespaceStep
  <2> QED
    BY <1>1, <1>2, <2>1 DEF Spaces, FindsSpace
<1>10. CASE left # 0 /\ pair[1] \notin visited /\ ~MayBeNamespace(repo, pair)
  <2>1. r = none
    BY <1>2, <1>7, <1>8, <1>10 DEF NamespaceStep
  <2> QED
    BY <1>1, <1>2, <1>8, <2>1 DEF FindsSpace
<1>11. CASE left # 0 /\ pair[1] \notin visited /\ MayBeNamespace(repo, pair) /\ spaces # {}
  <2>1. PICK n \in spaces : n = First(spaces)
    BY <1>6, <1>11, FirstIs
  <2>2. r = [hit |-> IF rows[n].to = Outside THEN NoName ELSE rows[n].to, seen |-> marked]
    BY <1>2, <1>3, <1>7, <1>11, <2>1 DEF NamespaceStep
  <2>3. rows[n].to # Outside => rows[n].to \in DOMAIN repo
    BY <1>5 DEF RowsFitAll, RowFits
  <2>4. r \in Spaces(repo)
    BY <2>2, <2>3 DEF Spaces
  <2>5. ASSUME r.hit # NoName, pair \in C[hops] PROVE Reexports(repo, cap, C, r.hit)
    <3>1. r.hit = rows[n].to
      BY <2>2, <2>5
    <3>2. pair \in C[cap]
      BY <1>1, <2>5, ChainGrows
    <3>3. Importable(repo, pair[1], pair[2]) = NoExport
      BY <1>11 DEF MayBeNamespace
    <3>4. rows[n].namespace = pair[2]
      OBVIOUS
    <3> QED
      BY <1>3, <3>1, <3>2, <3>3, <3>4 DEF Reexports
  <2> QED
    BY <1>1, <1>2, <2>4, <2>5 DEF FindsSpace
<1>12. CASE left # 0 /\ pair[1] \notin visited /\ MayBeNamespace(repo, pair) /\ spaces = {}
  <2>1. PICK next : next = hops + 1 /\ next \in 1 .. cap /\ next - 1 = hops
    BY <1>1, <1>12
  <2>2. walk \in SpaceWalks(repo, top) /\ SpacesFound(repo, top, cap, C, next, walk)
    BY <1>1, <1>12, <2>1
  <2>3. ASSUME NEW k \in DOMAIN rows, pair \in C[hops] PROVE OnwardBy(rows[k], pair[2]) \subseteq C[next]
    <3>1. ~IsNamespace(repo, pair[1], pair[2])
      BY <1>3, <1>12 DEF IsNamespace
    <3>2. OnwardBy(rows[k], pair[2]) \subseteq Onward(repo, pair)
      BY <1>3, <1>12, <3>1 DEF Onward, MayBeNamespace
    <3> QED
      BY <2>1, <2>3, <3>2, ChainGoesOn
  <2>4. CASE naming # {}
    <3>1. PICK n \in naming : n = First(naming)
      BY <1>6, <2>4, FirstIs
    <3>2. PICK row : row = rows[n] /\ RowFits(repo, top, row)
      BY <1>5 DEF RowsFitAll
    <3>3. Naming(row, pair[2]) # {} /\ Naming(row, pair[2]) \in SUBSET Nat
      BY <3>2 DEF Naming, RowFits, IsList
    <3>4. PICK k \in Naming(row, pair[2]) : k = First(Naming(row, pair[2]))
      BY <3>3, FirstIs
    <3>5. CASE row.to = Outside
      <4>1. r = none
        BY <1>2, <1>3, <1>7, <1>8, <1>12, <2>4, <3>1, <3>2, <3>5 DEF NamespaceStep
      <4> QED
        BY <1>1, <1>2, <1>8, <4>1 DEF FindsSpace
    <3>6. CASE row.to # Outside
      <4>1. PICK q : q = <<row.to, row.names[k][2]>>
        OBVIOUS
      <4>2. r = walk[q][marked]
        BY <1>2, <1>3, <1>7, <1>12, <2>4, <3>1, <3>2, <3>4, <3>6, <4>1 DEF NamespaceStep
      <4>3. q \in Pairs(repo, top)
        BY <3>2, <3>4, <3>6, <4>1 DEF RowFits, Pairs, Naming
      <4>4. r \in Spaces(repo) /\ FindsSpace(repo, cap, C, q \in C[next], r)
        BY <1>7, <2>2, <4>2, <4>3 DEF SpaceWalks, SpacesFound
      <4>5. CASE row.star
        <5>1. row.names = <<>>
          BY <3>2, <4>5 DEF RowFits
        <5> QED
          BY <3>4, <5>1 DEF Naming
      <4>6. CASE ~row.star
        <5>1. q \in OnwardBy(row, pair[2])
          BY <3>4, <3>6, <4>1, <4>6 DEF OnwardBy
        <5>2. pair \in C[hops] => q \in C[next]
          BY <2>3, <3>1, <3>2, <5>1
        <5> QED
          BY <1>1, <1>2, <4>4, <5>2 DEF FindsSpace
      <4> QED
        BY <4>5, <4>6
    <3> QED
      BY <3>5, <3>6
  <2>5. CASE naming = {}
    <3>1. r = TryStars(walk, rows, pair[2], none)
      BY <1>2, <1>3, <1>7, <1>8, <1>12, <2>5 DEF NamespaceStep
    <3>2. PICK reached \in BOOLEAN : reached <=> pair \in C[hops]
      OBVIOUS
    <3>3. PICK m \in NamesMet(repo, top) : m = pair[2]
      BY <1>4
    <3>4. reached => \A k \in DOMAIN rows : OnwardBy(rows[k], m) \subseteq C[next]
      BY <2>3, <3>2, <3>3
    <3>5. none.hit = NoName
      BY <1>8
    <3>6. r \in Spaces(repo) /\ FindsSpace(repo, cap, C, reached, r)
      BY <1>5, <2>2, <3>1, <3>3, <3>4, <3>5, StarsFind
    <3> QED
      BY <1>1, <1>2, <3>2, <3>6 DEF FindsSpace
  <2> QED
    BY <2>4, <2>5
<1> QED
  BY <1>9, <1>10, <1>11, <1>12

IsSpaceWalk(repo, top, cap, N, U) ==
    U = [left \in 0 .. N |->
            [pair \in Pairs(repo, top) |-> [visited \in SUBSET DOMAIN repo |->
                NamespaceStep(repo, U[left - 1], left, pair, visited)]]]

LEMMA LastSpaceStep ==
    ASSUME NEW repo, NEW v, NEW w, NEW pair, NEW visited
    PROVE  NamespaceStep(repo, v, 0, pair, visited) = NamespaceStep(repo, w, 0, pair, visited)
BY DEF NamespaceStep

LEMMA SpaceWalkExists ==
    ASSUME NEW repo, NEW top, NEW cap \in Nat
    PROVE  \E U : IsSpaceWalk(repo, top, cap, cap, U)
<1> DEFINE At(walk, left) ==
                [pair \in Pairs(repo, top) |-> [visited \in SUBSET DOMAIN repo |->
                    NamespaceStep(repo, walk, left, pair, visited)]]
           T == {n \in 0 .. cap : \E U : IsSpaceWalk(repo, top, cap, n, U)}
<1>1. 0 \in T
  <2>1. PICK U : U = [left \in 0 .. 0 |-> At(0, left)]
    OBVIOUS
  <2>2. At(0, 0) = At(U[0 - 1], 0)
    BY LastSpaceStep
  <2>3. U = [left \in 0 .. 0 |-> At(U[left - 1], left)]
    <3> HIDE DEF At
    <3>1. ASSUME NEW left \in 0 .. 0 PROVE U[left] = At(U[left - 1], left)
      <4>1. left = 0
        OBVIOUS
      <4>2. U[0] = At(0, 0)
        BY <2>1
      <4> QED
        BY <2>2, <4>1, <4>2
    <3> QED
      BY <2>1, <3>1
  <2>4. IsSpaceWalk(repo, top, cap, 0, U)
    BY <2>3 DEF IsSpaceWalk
  <2> QED
    BY <2>4
<1>2. ASSUME NEW n \in 1 .. cap, n - 1 \in T PROVE n \in T
  <2>1. PICK V : IsSpaceWalk(repo, top, cap, n - 1, V)
    BY <1>2
  <2>2. V = [left \in 0 .. n - 1 |-> At(V[left - 1], left)]
    BY <2>1 DEF IsSpaceWalk
  <2>3. PICK U : U = [left \in 0 .. n |-> IF left = n THEN At(V[n - 1], n) ELSE V[left]]
    OBVIOUS
  <2>4. U = [left \in 0 .. n |-> At(U[left - 1], left)]
    <3>1. ASSUME NEW left \in 0 .. n PROVE U[left] = At(U[left - 1], left)
      <4>1. CASE left = n
        <5>1. U[left - 1] = V[n - 1] /\ U[left] = At(V[n - 1], n)
          <6> HIDE DEF At
          <6> QED
            BY <2>3, <4>1
        <5> HIDE DEF At
        <5> QED
          BY <4>1, <5>1
      <4>2. CASE left # n /\ left # 0
        <5>1. left \in 0 .. n - 1 /\ left - 1 \in 0 .. n /\ left - 1 # n
          BY <4>2
        <5>2. U[left] = V[left] /\ U[left - 1] = V[left - 1]
          <6> HIDE DEF At
          <6> QED
            BY <2>3, <4>2, <5>1
        <5>3. V[left] = At(V[left - 1], left)
          <6> HIDE DEF At
          <6> QED
            BY <2>2, <5>1
        <5> HIDE DEF At
        <5> QED
          BY <5>2, <5>3
      <4>3. CASE left # n /\ left = 0
        <5>1. U[left] = V[0] /\ V[0] = At(V[0 - 1], 0)
          <6> HIDE DEF At
          <6> QED
            BY <2>2, <2>3, <4>3
        <5>2. At(V[0 - 1], 0) = At(U[0 - 1], 0)
          BY LastSpaceStep
        <5> HIDE DEF At
        <5> QED
          BY <4>3, <5>1, <5>2
      <4> QED
        BY <4>1, <4>2, <4>3
    <3> HIDE DEF At
    <3> QED
      BY <2>3, <3>1
  <2>5. IsSpaceWalk(repo, top, cap, n, U)
    BY <2>4 DEF IsSpaceWalk
  <2> QED
    BY <2>5
<1>3. cap \in T
  <2> HIDE DEF T
  <2>1. \A n \in 0 .. cap : n \in T
    BY <1>1, <1>2, HopByHop
  <2> QED
    BY <2>1
<1> QED
  BY <1>3

LEMMA SpaceWalks1 ==
    ASSUME NEW repo, WellFormedExports(repo), NEW top, NEW start, NEW cap \in Nat,
           NEW C, IsChain(repo, start, cap, C), NEW U, IsSpaceWalk(repo, top, cap, cap, U)
    PROVE  \A left \in 0 .. cap : /\ U[left] \in SpaceWalks(repo, top)
                                   /\ SpacesFound(repo, top, cap, C, cap - left, U[left])
<1> DEFINE Good(left) == /\ U[left] \in SpaceWalks(repo, top)
                         /\ SpacesFound(repo, top, cap, C, cap - left, U[left])
           T == {left \in 0 .. cap : Good(left)}
<1>1. ASSUME NEW left \in 0 .. cap, left # 0 => Good(left - 1) PROVE Good(left)
  <2>1. PICK walk : walk = U[left - 1]
    OBVIOUS
  <2>2. PICK now : now = U[left]
    OBVIOUS
  <2>3. now = [pair \in Pairs(repo, top) |-> [visited \in SUBSET DOMAIN repo |->
                  NamespaceStep(repo, walk, left, pair, visited)]]
    <3> DEFINE At(l) == [pair \in Pairs(repo, top) |-> [visited \in SUBSET DOMAIN repo |->
                            NamespaceStep(repo, U[l - 1], l, pair, visited)]]
    <3>1. U = [l \in 0 .. cap |-> At(l)]
      BY DEF IsSpaceWalk
    <3>2. now = At(left)
      <4> HIDE DEF At
      <4> QED
        BY <2>2, <3>1
    <3> QED
      BY <2>1, <3>2
  <2>4. left # 0 => /\ walk \in SpaceWalks(repo, top)
                    /\ SpacesFound(repo, top, cap, C, (cap - left) + 1, walk)
    <3>1. left # 0 => cap - (left - 1) = (cap - left) + 1
      OBVIOUS
    <3> QED
      BY <1>1, <2>1, <3>1
  <2>5. ASSUME NEW pair \in Pairs(repo, top), NEW visited \in SUBSET DOMAIN repo
        PROVE  /\ NamespaceStep(repo, walk, left, pair, visited) \in Spaces(repo)
               /\ FindsSpace(repo, cap, C, pair \in C[cap - left],
                             NamespaceStep(repo, walk, left, pair, visited))
    BY <2>4, SpaceStepFinds
  <2>6. now \in SpaceWalks(repo, top)
    BY <2>3, <2>5 DEF SpaceWalks
  <2>7. SpacesFound(repo, top, cap, C, cap - left, now)
    <3> SUFFICES ASSUME NEW pair \in Pairs(repo, top), NEW visited \in SUBSET DOMAIN repo
                 PROVE  FindsSpace(repo, cap, C, pair \in C[cap - left], now[pair][visited])
      BY DEF SpacesFound
    <3>1. now[pair][visited] = NamespaceStep(repo, walk, left, pair, visited)
      BY <2>3
    <3> QED
      BY <2>5, <3>1
  <2> QED
    BY <2>2, <2>6, <2>7
<1>2. 0 \in T
  <2>1. Good(0)
    BY <1>1
  <2> HIDE DEF Good
  <2> QED
    BY <2>1
<1>3. ASSUME NEW left \in 1 .. cap, left - 1 \in T PROVE left \in T
  <2>1. left \in 0 .. cap /\ Good(left - 1)
    BY <1>3
  <2>2. Good(left)
    BY <1>1, <2>1
  <2> HIDE DEF Good
  <2> QED
    BY <2>1, <2>2
<1>4. \A left \in 0 .. cap : left \in T
  <2> HIDE DEF T
  <2> QED
    BY <1>2, <1>3, HopByHop
<1> QED
  BY <1>4

LEMMA SpaceIs ==
    ASSUME NEW repo, WellFormedExports(repo), NEW file \in DOMAIN repo, NEW name,
           NEW cap \in Nat
    PROVE  NamespaceIsReexported(repo, file, name, cap)
<1>1. PICK start : start = <<file, name>>
  OBVIOUS
<1>2. PICK C : IsChain(repo, start, cap, C) /\ Chained(repo, file, name, cap) = C[cap]
  BY <1>1, ChainedIs
<1>3. PICK U : U = CHOOSE V : IsSpaceWalk(repo, name, cap, cap, V)
  OBVIOUS
<1>4. IsSpaceWalk(repo, name, cap, cap, U)
  BY <1>3, SpaceWalkExists
<1>5. PICK walk : walk = U[cap]
  OBVIOUS
<1>6. walk \in SpaceWalks(repo, name) /\ SpacesFound(repo, name, cap, C, 0, walk)
  <2>1. cap \in 0 .. cap /\ cap - cap = 0
    OBVIOUS
  <2> QED
    BY <1>2, <1>4, <1>5, <2>1, SpaceWalks1
<1>7. start \in Pairs(repo, name)
  BY <1>1 DEF Pairs, NamesMet
<1>8. PICK r : r = walk[start][{}]
  OBVIOUS
<1>9. NamespaceTarget(repo, file, name, cap) = r.hit
  BY <1>1, <1>3, <1>5, <1>8 DEF NamespaceTarget, IsSpaceWalk
<1>10. FindsSpace(repo, cap, C, start \in C[0], r)
  BY <1>6, <1>7, <1>8 DEF SpacesFound
<1>11. start \in C[0]
  BY <1>2 DEF IsChain
<1>12. r.hit # NoName => Reexports(repo, cap, C, r.hit)
  BY <1>10, <1>11 DEF FindsSpace
<1> QED
  BY <1>2, <1>9, <1>12 DEF NamespaceIsReexported, Reexports

(* The members of a namespace are looked up only in a file that some chain   *)
(* of barrels re-exports under the name asked for, and never past a name the *)
(* chain's file exports itself, for any files, barrels and cap.              *)
THEOREM NamespacesAreReexportedHolds ==
    ASSUME QuestionOK
    PROVE  NamespacesAreReexported
BY SpaceIs DEF QuestionOK, NamespacesAreReexported

-----------------------------------------------------------------------------
(* The edges of an import.                                                   *)

IsRiding(repo, imp, cap, N, U) ==
    U = [n \in 0 .. N |-> IF n = 0 THEN [f \in {imp.to} |-> {}]
                          ELSE BindName(repo, imp, cap, imp.bindings[n], U[n - 1])]
Carries(rides, def) == def[1] \in DOMAIN rides /\ def \in rides[def[1]]
Named(repo, imp, cap, b) == LookupExport(repo, imp.to, b.imported, cap)

LEMMA RidingExists ==
    ASSUME NEW repo, NEW imp, NEW cap, NEW N \in Nat
    PROVE  \E U : IsRiding(repo, imp, cap, N, U)
<1> DEFINE Start == [f \in {imp.to} |-> {}]
           Further(n, rides) == BindName(repo, imp, cap, imp.bindings[n], rides)
           T == {n \in 0 .. N : \E U : IsRiding(repo, imp, cap, n, U)}
<1>1. 0 \in T
  <2>1. PICK U : U = [n \in 0 .. 0 |-> Start]
    OBVIOUS
  <2>2. IsRiding(repo, imp, cap, 0, U)
    BY <2>1 DEF IsRiding
  <2> QED
    BY <2>2
<1>2. ASSUME NEW n \in 1 .. N, n - 1 \in T PROVE n \in T
  <2>1. PICK V : IsRiding(repo, imp, cap, n - 1, V)
    BY <1>2
  <2>2. V = [k \in 0 .. n - 1 |-> IF k = 0 THEN Start ELSE Further(k, V[k - 1])]
    BY <2>1 DEF IsRiding
  <2>3. PICK U : U = [k \in 0 .. n |-> IF k = n THEN Further(n, V[n - 1]) ELSE V[k]]
    OBVIOUS
  <2>4. U = [k \in 0 .. n |-> IF k = 0 THEN Start ELSE Further(k, U[k - 1])]
    <3> HIDE DEF Start, Further
    <3>1. ASSUME NEW k \in 0 .. n PROVE U[k] = IF k = 0 THEN Start ELSE Further(k, U[k - 1])
      <4>1. CASE k = n
        <5>1. k # 0 /\ U[k] = Further(n, V[n - 1]) /\ U[k - 1] = V[n - 1]
          BY <2>3, <4>1
        <5> QED
          BY <4>1, <5>1
      <4>2. CASE k # n
        <5>1. k \in 0 .. n - 1 /\ U[k] = V[k] /\ (k # 0 => U[k - 1] = V[k - 1])
          BY <2>3, <4>2
        <5>2. V[k] = IF k = 0 THEN Start ELSE Further(k, V[k - 1])
          BY <2>2, <5>1
        <5> QED
          BY <5>1, <5>2
      <4> QED
        BY <4>1, <4>2
    <3> QED
      BY <2>3, <3>1
  <2>5. IsRiding(repo, imp, cap, n, U)
    BY <2>4 DEF IsRiding
  <2> QED
    BY <2>5
<1>3. N \in T
  <2> HIDE DEF T
  <2>1. \A n \in 0 .. N : n \in T
    BY <1>1, <1>2, HopByHop
  <2> QED
    BY <2>1
<1> QED
  BY <1>3

(* What an edge carries it keeps, and a name bound now is carried.           *)
LEMMA BindingCarries ==
    ASSUME NEW repo, NEW imp, NEW cap, NEW b, NEW rides
    PROVE  /\ \A def : Carries(rides, def) => Carries(BindName(repo, imp, cap, b, rides), def)
           /\ b.imported # "*" /\ Named(repo, imp, cap, b) # NoExport =>
                 Carries(BindName(repo, imp, cap, b, rides), Named(repo, imp, cap, b))
<1>1. ASSUME NEW file, NEW d
      PROVE  /\ \A def : Carries(rides, def) => Carries(Ride(rides, file, d), def)
             /\ file = d[1] => Carries(Ride(rides, file, d), d)
  BY DEF Ride, Carries
<1>2. PICK d : d = LookupExport(repo, imp.to, IF b.imported = "*" THEN "export=" ELSE b.imported, cap)
  OBVIOUS
<1>3. PICK file : file = IF b.imported = "*" THEN imp.to ELSE d[1]
  OBVIOUS
<1>4. BindName(repo, imp, cap, b, rides) = IF d = NoExport THEN rides ELSE Ride(rides, file, d)
  BY <1>2, <1>3 DEF BindName, Slot
<1>5. b.imported # "*" => d = Named(repo, imp, cap, b) /\ file = d[1]
  BY <1>2, <1>3 DEF Named
<1> QED
  BY <1>1, <1>4, <1>5

LEMMA StatementCarries ==
    ASSUME NEW repo, NEW imp, NEW cap, IsList(imp.bindings), NEW k \in DOMAIN imp.bindings,
           imp.bindings[k].imported # "*",
           Named(repo, imp, cap, imp.bindings[k]) # NoExport
    PROVE  Carries(StatementRides(repo, imp, cap), Named(repo, imp, cap, imp.bindings[k]))
<1>1. PICK N : N = Len(imp.bindings)
  OBVIOUS
<1>2. N \in Nat /\ DOMAIN imp.bindings = 1 .. N /\ k \in 1 .. N
  BY <1>1 DEF IsList
<1>3. PICK U : U = CHOOSE V : IsRiding(repo, imp, cap, N, V)
  OBVIOUS
<1>4. IsRiding(repo, imp, cap, N, U)
  BY <1>2, <1>3, RidingExists
<1>5. StatementRides(repo, imp, cap) = U[N]
  BY <1>1, <1>3 DEF StatementRides, IsRiding
<1>6. PICK def : def = Named(repo, imp, cap, imp.bindings[k])
  OBVIOUS
<1>7. \A n \in 1 .. N : U[n] = BindName(repo, imp, cap, imp.bindings[n], U[n - 1])
  <2> DEFINE Start == [f \in {imp.to} |-> {}]
             Further(n, rides) == BindName(repo, imp, cap, imp.bindings[n], rides)
  <2>1. U = [n \in 0 .. N |-> IF n = 0 THEN Start ELSE Further(n, U[n - 1])]
    BY <1>4 DEF IsRiding
  <2>2. ASSUME NEW n \in 1 .. N PROVE U[n] = Further(n, U[n - 1])
    <3> HIDE DEF Start, Further
    <3>1. n \in 0 .. N /\ n # 0
      BY <1>2
    <3> QED
      BY <2>1, <3>1
  <2> QED
    BY <2>2
<1> DEFINE T == {n \in 0 .. N : n >= k => Carries(U[n], def)}
<1>8. 0 \in T
  BY <1>2
<1>9. ASSUME NEW n \in 1 .. N, n - 1 \in T PROVE n \in T
  <2>1. PICK rides : rides = U[n - 1]
    OBVIOUS
  <2>2. U[n] = BindName(repo, imp, cap, imp.bindings[n], rides)
    BY <1>7, <2>1
  <2>3. Carries(rides, def) => Carries(U[n], def)
    BY <2>2, BindingCarries
  <2>4. n = k => Carries(U[n], def)
    BY <1>6, <2>2, BindingCarries
  <2>5. n - 1 >= k => Carries(rides, def)
    BY <1>9, <2>1
  <2> QED
    BY <1>2, <2>3, <2>4, <2>5
<1>10. N \in T
  <2> HIDE DEF T
  <2>1. \A n \in 0 .. N : n \in T
    BY <1>2, <1>8, <1>9, HopByHop
  <2> QED
    BY <1>2, <2>1
<1> QED
  BY <1>2, <1>5, <1>6, <1>10

LEMMA ReferenceIs ==
    ASSUME NEW repo, WellFormedExports(repo), NEW file \in DOMAIN repo, NEW name, NEW cap
    PROVE  ReferenceRides(repo, file, name, cap)
<1> DEFINE Of(imp) == {k \in DOMAIN imp.bindings : imp.bindings[k].local = name}
           imports == {n \in DOMAIN repo[file].imports :
                         /\ repo[file].imports[n].to # Outside
                         /\ Of(repo[file].imports[n]) # {}}
<1>1. PICK b : b = BindingOf(repo, file, name)
  OBVIOUS
<1>2. PICK def : def = ResolveName(repo, file, name, NoName, cap)
  OBVIOUS
<1>3. ASSUME b # NoExport, b[2] # "*", def # NoExport
      PROVE  \E e \in ImportEdges(repo, file, cap) : e.to = def[1] /\ def \in e.bound
  <2>1. imports # {}
    BY <1>1, <1>3 DEF BindingOf
  <2>2. imports \in SUBSET Nat
    BY DEF WellFormedExports, IsList
  <2>3. PICK n \in imports : n = First(imports)
    BY <2>1, <2>2, FirstIs
  <2>4. PICK imp : imp = repo[file].imports[n]
    OBVIOUS
  <2>5. IsList(imp.bindings) /\ Of(imp) # {} /\ imp.to # Outside
    BY <2>4 DEF WellFormedExports
  <2>6. Of(imp) \in SUBSET Nat
    BY <2>5 DEF IsList
  <2>7. PICK k \in Of(imp) : k = First(Of(imp))
    BY <2>5, <2>6, FirstIs
  <2>8. b = <<imp.to, imp.bindings[k].imported>>
    BY <1>1, <2>1, <2>3, <2>4, <2>7 DEF BindingOf
  <2>9. def = LookupExport(repo, b[1], b[2], cap)
    BY <1>1, <1>2, <1>3 DEF ResolveName
  <2>10. def = Named(repo, imp, cap, imp.bindings[k]) /\ imp.bindings[k].imported # "*"
    BY <1>3, <2>8, <2>9 DEF Named
  <2>11. PICK rides : rides = StatementRides(repo, imp, cap) /\ Carries(rides, def)
    BY <1>3, <2>5, <2>10, StatementCarries
  <2>12. PICK e : e = [to |-> def[1], via |-> IF def[1] = imp.to THEN NoName ELSE imp.to,
                       bound |-> rides[def[1]]]
    OBVIOUS
  <2>13. e \in StatementEdges(repo, imp, cap) /\ e.to = def[1] /\ def \in e.bound
    BY <2>11, <2>12 DEF StatementEdges, Carries
  <2>14. e \in ImportEdges(repo, file, cap)
    BY <2>4, <2>5, <2>13 DEF ImportEdges
  <2> QED
    BY <2>13, <2>14
<1> QED
  BY <1>1, <1>2, <1>3 DEF ReferenceRides

(* What a reference resolves to through a named import is bound on an edge   *)
(* of its statement to the file that declares it, so that a change there     *)
(* reaches the importer, for any files, imports and cap.                     *)
THEOREM ReferencesRideImportsHolds ==
    ASSUME QuestionOK
    PROVE  ReferencesRideImports
BY ReferenceIs DEF QuestionOK, ReferencesRideImports

-----------------------------------------------------------------------------
(* The C# definition index.                                                  *)

AddBase(so, base) == IF base \in RangeOf(so) THEN so ELSE Append(so, base)
IsAdding(bases, more, N, U) ==
    U = [n \in 0 .. N |-> IF n = 0 THEN bases ELSE AddBase(U[n - 1], more[n])]

LEMMA AddingExists ==
    ASSUME NEW bases, NEW more, NEW N \in Nat
    PROVE  \E U : IsAdding(bases, more, N, U)
<1> DEFINE Start == bases
           Further(n, so) == AddBase(so, more[n])
           T == {n \in 0 .. N : \E U : IsAdding(bases, more, n, U)}
<1>1. 0 \in T
  <2>1. PICK U : U = [n \in 0 .. 0 |-> Start]
    OBVIOUS
  <2>2. IsAdding(bases, more, 0, U)
    BY <2>1 DEF IsAdding
  <2> QED
    BY <2>2
<1>2. ASSUME NEW n \in 1 .. N, n - 1 \in T PROVE n \in T
  <2>1. PICK V : IsAdding(bases, more, n - 1, V)
    BY <1>2
  <2>2. V = [k \in 0 .. n - 1 |-> IF k = 0 THEN Start ELSE Further(k, V[k - 1])]
    BY <2>1 DEF IsAdding
  <2>3. PICK U : U = [k \in 0 .. n |-> IF k = n THEN Further(n, V[n - 1]) ELSE V[k]]
    OBVIOUS
  <2>4. U = [k \in 0 .. n |-> IF k = 0 THEN Start ELSE Further(k, U[k - 1])]
    <3> HIDE DEF Start, Further
    <3>1. ASSUME NEW k \in 0 .. n PROVE U[k] = IF k = 0 THEN Start ELSE Further(k, U[k - 1])
      <4>1. CASE k = n
        <5>1. k # 0 /\ U[k] = Further(n, V[n - 1]) /\ U[k - 1] = V[n - 1]
          BY <2>3, <4>1
        <5> QED
          BY <4>1, <5>1
      <4>2. CASE k # n
        <5>1. k \in 0 .. n - 1 /\ U[k] = V[k] /\ (k # 0 => U[k - 1] = V[k - 1])
          BY <2>3, <4>2
        <5>2. V[k] = IF k = 0 THEN Start ELSE Further(k, V[k - 1])
          BY <2>2, <5>1
        <5> QED
          BY <5>1, <5>2
      <4> QED
        BY <4>1, <4>2
    <3> QED
      BY <2>3, <3>1
  <2>5. IsAdding(bases, more, n, U)
    BY <2>4 DEF IsAdding
  <2> QED
    BY <2>5
<1>3. N \in T
  <2> HIDE DEF T
  <2>1. \A n \in 0 .. N : n \in T
    BY <1>1, <1>2, HopByHop
  <2> QED
    BY <2>1
<1> QED
  BY <1>3

(* What its rounds are.                                                      *)
LEMMA AddingRounds ==
    ASSUME NEW bases, NEW more, NEW N \in Nat, NEW U, IsAdding(bases, more, N, U)
    PROVE  U[0] = bases /\ \A n \in 1 .. N : U[n] = AddBase(U[n - 1], more[n])
<1> DEFINE Start == bases
           Further(n, so) == AddBase(so, more[n])
<1>1. U = [n \in 0 .. N |-> IF n = 0 THEN Start ELSE Further(n, U[n - 1])]
  BY DEF IsAdding
<1>2. U[0] = Start /\ \A n \in 1 .. N : U[n] = Further(n, U[n - 1])
  <2> HIDE DEF Start, Further
  <2>1. U[0] = Start
    BY <1>1
  <2>2. ASSUME NEW n \in 1 .. N PROVE U[n] = Further(n, U[n - 1])
    <3>1. n \in 0 .. N /\ n # 0
      OBVIOUS
    <3> QED
      BY <1>1, <3>1
  <2> QED
    BY <2>1, <2>2
<1> QED
  BY <1>2

IsFiling(index, file, defs, N, U) ==
    U = [n \in 0 .. N |-> IF n = 0 THEN index ELSE AddPart(U[n - 1], file, defs[n])]

LEMMA FilingExists ==
    ASSUME NEW index, NEW file, NEW defs, NEW N \in Nat
    PROVE  \E U : IsFiling(index, file, defs, N, U)
<1> DEFINE Start == index
           Further(n, so) == AddPart(so, file, defs[n])
           T == {n \in 0 .. N : \E U : IsFiling(index, file, defs, n, U)}
<1>1. 0 \in T
  <2>1. PICK U : U = [n \in 0 .. 0 |-> Start]
    OBVIOUS
  <2>2. IsFiling(index, file, defs, 0, U)
    BY <2>1 DEF IsFiling
  <2> QED
    BY <2>2
<1>2. ASSUME NEW n \in 1 .. N, n - 1 \in T PROVE n \in T
  <2>1. PICK V : IsFiling(index, file, defs, n - 1, V)
    BY <1>2
  <2>2. V = [k \in 0 .. n - 1 |-> IF k = 0 THEN Start ELSE Further(k, V[k - 1])]
    BY <2>1 DEF IsFiling
  <2>3. PICK U : U = [k \in 0 .. n |-> IF k = n THEN Further(n, V[n - 1]) ELSE V[k]]
    OBVIOUS
  <2>4. U = [k \in 0 .. n |-> IF k = 0 THEN Start ELSE Further(k, U[k - 1])]
    <3> HIDE DEF Start, Further
    <3>1. ASSUME NEW k \in 0 .. n PROVE U[k] = IF k = 0 THEN Start ELSE Further(k, U[k - 1])
      <4>1. CASE k = n
        <5>1. k # 0 /\ U[k] = Further(n, V[n - 1]) /\ U[k - 1] = V[n - 1]
          BY <2>3, <4>1
        <5> QED
          BY <4>1, <5>1
      <4>2. CASE k # n
        <5>1. k \in 0 .. n - 1 /\ U[k] = V[k] /\ (k # 0 => U[k - 1] = V[k - 1])
          BY <2>3, <4>2
        <5>2. V[k] = IF k = 0 THEN Start ELSE Further(k, V[k - 1])
          BY <2>2, <5>1
        <5> QED
          BY <5>1, <5>2
      <4> QED
        BY <4>1, <4>2
    <3> QED
      BY <2>3, <3>1
  <2>5. IsFiling(index, file, defs, n, U)
    BY <2>4 DEF IsFiling
  <2> QED
    BY <2>5
<1>3. N \in T
  <2> HIDE DEF T
  <2>1. \A n \in 0 .. N : n \in T
    BY <1>1, <1>2, HopByHop
  <2> QED
    BY <2>1
<1> QED
  BY <1>3

(* What its rounds are.                                                      *)
LEMMA FilingRounds ==
    ASSUME NEW index, NEW file, NEW defs, NEW N \in Nat, NEW U, IsFiling(index, file, defs, N, U)
    PROVE  U[0] = index /\ \A n \in 1 .. N : U[n] = AddPart(U[n - 1], file, defs[n])
<1> DEFINE Start == index
           Further(n, so) == AddPart(so, file, defs[n])
<1>1. U = [n \in 0 .. N |-> IF n = 0 THEN Start ELSE Further(n, U[n - 1])]
  BY DEF IsFiling
<1>2. U[0] = Start /\ \A n \in 1 .. N : U[n] = Further(n, U[n - 1])
  <2> HIDE DEF Start, Further
  <2>1. U[0] = Start
    BY <1>1
  <2>2. ASSUME NEW n \in 1 .. N PROVE U[n] = Further(n, U[n - 1])
    <3>1. n \in 0 .. N /\ n # 0
      OBVIOUS
    <3> QED
      BY <1>1, <3>1
  <2> QED
    BY <2>1, <2>2
<1> QED
  BY <1>2

IsIndexing(repo, N, U) ==
    U = [n \in 0 .. N |-> IF n = 0 THEN NoTypes ELSE AddFile(U[n - 1], n, repo.frags[n].defs)]

LEMMA IndexingExists ==
    ASSUME NEW repo, NEW N \in Nat
    PROVE  \E U : IsIndexing(repo, N, U)
<1> DEFINE Start == NoTypes
           Further(n, so) == AddFile(so, n, repo.frags[n].defs)
           T == {n \in 0 .. N : \E U : IsIndexing(repo, n, U)}
<1>1. 0 \in T
  <2>1. PICK U : U = [n \in 0 .. 0 |-> Start]
    OBVIOUS
  <2>2. IsIndexing(repo, 0, U)
    BY <2>1 DEF IsIndexing
  <2> QED
    BY <2>2
<1>2. ASSUME NEW n \in 1 .. N, n - 1 \in T PROVE n \in T
  <2>1. PICK V : IsIndexing(repo, n - 1, V)
    BY <1>2
  <2>2. V = [k \in 0 .. n - 1 |-> IF k = 0 THEN Start ELSE Further(k, V[k - 1])]
    BY <2>1 DEF IsIndexing
  <2>3. PICK U : U = [k \in 0 .. n |-> IF k = n THEN Further(n, V[n - 1]) ELSE V[k]]
    OBVIOUS
  <2>4. U = [k \in 0 .. n |-> IF k = 0 THEN Start ELSE Further(k, U[k - 1])]
    <3> HIDE DEF Start, Further
    <3>1. ASSUME NEW k \in 0 .. n PROVE U[k] = IF k = 0 THEN Start ELSE Further(k, U[k - 1])
      <4>1. CASE k = n
        <5>1. k # 0 /\ U[k] = Further(n, V[n - 1]) /\ U[k - 1] = V[n - 1]
          BY <2>3, <4>1
        <5> QED
          BY <4>1, <5>1
      <4>2. CASE k # n
        <5>1. k \in 0 .. n - 1 /\ U[k] = V[k] /\ (k # 0 => U[k - 1] = V[k - 1])
          BY <2>3, <4>2
        <5>2. V[k] = IF k = 0 THEN Start ELSE Further(k, V[k - 1])
          BY <2>2, <5>1
        <5> QED
          BY <5>1, <5>2
      <4> QED
        BY <4>1, <4>2
    <3> QED
      BY <2>3, <3>1
  <2>5. IsIndexing(repo, n, U)
    BY <2>4 DEF IsIndexing
  <2> QED
    BY <2>5
<1>3. N \in T
  <2> HIDE DEF T
  <2>1. \A n \in 0 .. N : n \in T
    BY <1>1, <1>2, HopByHop
  <2> QED
    BY <2>1
<1> QED
  BY <1>3

(* What its rounds are.                                                      *)
LEMMA IndexingRounds ==
    ASSUME NEW repo, NEW N \in Nat, NEW U, IsIndexing(repo, N, U)
    PROVE  U[0] = NoTypes /\ \A n \in 1 .. N : U[n] = AddFile(U[n - 1], n, repo.frags[n].defs)
<1> DEFINE Start == NoTypes
           Further(n, so) == AddFile(so, n, repo.frags[n].defs)
<1>1. U = [n \in 0 .. N |-> IF n = 0 THEN Start ELSE Further(n, U[n - 1])]
  BY DEF IsIndexing
<1>2. U[0] = Start /\ \A n \in 1 .. N : U[n] = Further(n, U[n - 1])
  <2> HIDE DEF Start, Further
  <2>1. U[0] = Start
    BY <1>1
  <2>2. ASSUME NEW n \in 1 .. N PROVE U[n] = Further(n, U[n - 1])
    <3>1. n \in 0 .. N /\ n # 0
      OBVIOUS
    <3> QED
      BY <1>1, <3>1
  <2> QED
    BY <2>1, <2>2
<1> QED
  BY <1>2

NothingKept == <<>>
Keep(so, d, ids) == IF Id(d) \in ids THEN Append(so, d) ELSE so
IsKeeping(defs, ids, N, U) ==
    U = [n \in 0 .. N |-> IF n = 0 THEN NothingKept ELSE Keep(U[n - 1], defs[n], ids)]

LEMMA KeepingExists ==
    ASSUME NEW defs, NEW ids, NEW N \in Nat
    PROVE  \E U : IsKeeping(defs, ids, N, U)
<1> DEFINE Start == NothingKept
           Further(n, so) == Keep(so, defs[n], ids)
           T == {n \in 0 .. N : \E U : IsKeeping(defs, ids, n, U)}
<1>1. 0 \in T
  <2>1. PICK U : U = [n \in 0 .. 0 |-> Start]
    OBVIOUS
  <2>2. IsKeeping(defs, ids, 0, U)
    BY <2>1 DEF IsKeeping
  <2> QED
    BY <2>2
<1>2. ASSUME NEW n \in 1 .. N, n - 1 \in T PROVE n \in T
  <2>1. PICK V : IsKeeping(defs, ids, n - 1, V)
    BY <1>2
  <2>2. V = [k \in 0 .. n - 1 |-> IF k = 0 THEN Start ELSE Further(k, V[k - 1])]
    BY <2>1 DEF IsKeeping
  <2>3. PICK U : U = [k \in 0 .. n |-> IF k = n THEN Further(n, V[n - 1]) ELSE V[k]]
    OBVIOUS
  <2>4. U = [k \in 0 .. n |-> IF k = 0 THEN Start ELSE Further(k, U[k - 1])]
    <3> HIDE DEF Start, Further
    <3>1. ASSUME NEW k \in 0 .. n PROVE U[k] = IF k = 0 THEN Start ELSE Further(k, U[k - 1])
      <4>1. CASE k = n
        <5>1. k # 0 /\ U[k] = Further(n, V[n - 1]) /\ U[k - 1] = V[n - 1]
          BY <2>3, <4>1
        <5> QED
          BY <4>1, <5>1
      <4>2. CASE k # n
        <5>1. k \in 0 .. n - 1 /\ U[k] = V[k] /\ (k # 0 => U[k - 1] = V[k - 1])
          BY <2>3, <4>2
        <5>2. V[k] = IF k = 0 THEN Start ELSE Further(k, V[k - 1])
          BY <2>2, <5>1
        <5> QED
          BY <5>1, <5>2
      <4> QED
        BY <4>1, <4>2
    <3> QED
      BY <2>3, <3>1
  <2>5. IsKeeping(defs, ids, n, U)
    BY <2>4 DEF IsKeeping
  <2> QED
    BY <2>5
<1>3. N \in T
  <2> HIDE DEF T
  <2>1. \A n \in 0 .. N : n \in T
    BY <1>1, <1>2, HopByHop
  <2> QED
    BY <2>1
<1> QED
  BY <1>3

(* What its rounds are.                                                      *)
LEMMA KeepingRounds ==
    ASSUME NEW defs, NEW ids, NEW N \in Nat, NEW U, IsKeeping(defs, ids, N, U)
    PROVE  U[0] = NothingKept /\ \A n \in 1 .. N : U[n] = Keep(U[n - 1], defs[n], ids)
<1> DEFINE Start == NothingKept
           Further(n, so) == Keep(so, defs[n], ids)
<1>1. U = [n \in 0 .. N |-> IF n = 0 THEN Start ELSE Further(n, U[n - 1])]
  BY DEF IsKeeping
<1>2. U[0] = Start /\ \A n \in 1 .. N : U[n] = Further(n, U[n - 1])
  <2> HIDE DEF Start, Further
  <2>1. U[0] = Start
    BY <1>1
  <2>2. ASSUME NEW n \in 1 .. N PROVE U[n] = Further(n, U[n - 1])
    <3>1. n \in 0 .. N /\ n # 0
      OBVIOUS
    <3> QED
      BY <1>1, <3>1
  <2> QED
    BY <2>1, <2>2
<1> QED
  BY <1>2

(* What a list of bases gains is a list of bases.                            *)
LEMMA BasesAdded ==
    ASSUME NEW S, NEW bases \in Seq(S), NEW more \in Seq(S)
    PROVE  AddBases(bases, more) \in Seq(S)
<1>1. PICK N \in Nat : N = Len(more)
  OBVIOUS
<1>2. PICK U : U = CHOOSE V : IsAdding(bases, more, N, V)
  OBVIOUS
<1>3. IsAdding(bases, more, N, U)
  BY <1>2, AddingExists
<1>4. AddBases(bases, more) = U[N]
  BY <1>1, <1>2 DEF AddBases, IsAdding, AddBase
<1>5. U[0] = bases /\ \A n \in 1 .. N : U[n] = AddBase(U[n - 1], more[n])
  BY <1>3, AddingRounds
<1> DEFINE At(n) == U[n] \in Seq(S)
           T == {n \in 0 .. N : At(n)}
<1>6. 0 \in T
  BY <1>5
<1>7. ASSUME NEW n \in 1 .. N, n - 1 \in T PROVE n \in T
  <2>1. PICK so \in Seq(S) : so = U[n - 1]
    BY <1>7
  <2>2. PICK base \in S : base = more[n]
    BY <1>1
  <2>3. U[n] = AddBase(so, base)
    BY <1>5, <2>1, <2>2
  <2>4. Append(so, base) \in Seq(S)
    OBVIOUS
  <2>5. At(n)
    BY <2>3, <2>4 DEF AddBase
  <2> HIDE DEF At
  <2> QED
    BY <2>5
<1>8. N \in T
  <2> HIDE DEF T
  <2>1. \A n \in 0 .. N : n \in T
    BY <1>6, <1>7, HopByHop
  <2> QED
    BY <2>1
<1> QED
  BY <1>4, <1>8

(* An index of declarations, each a pair of a file and an id.                *)
Describes(index, declared) ==
    /\ IsFiniteSet(DOMAIN index)
    /\ \A id : id \in DOMAIN index <=> \E f : <<f, id>> \in declared
    /\ \A id \in DOMAIN index :
          /\ \A f : f \in DeclaringFiles(index[id]) <=> <<f, id>> \in declared
          /\ index[id].bases \in Seq(STRING)

LEMMA PartAdded ==
    ASSUME NEW index, NEW declared, Describes(index, declared), NEW file, NEW d,
           d.bases \in Seq(STRING)
    PROVE  Describes(AddPart(index, file, d), declared \cup {<<file, Id(d)>>})
<1>1. PICK new, now, all : new = Id(d) /\ now = AddPart(index, file, d)
                           /\ all = declared \cup {<<file, new>>}
  OBVIOUS
<1>2. DOMAIN now = DOMAIN index \cup {new}
  BY <1>1 DEF AddPart
<1>3. \A f, id : <<f, id>> \in all <=> <<f, id>> \in declared \/ (f = file /\ id = new)
  BY <1>1
<1>4. IsFiniteSet(DOMAIN now)
  BY <1>2, FS_AddElement DEF Describes
<1>5. ASSUME NEW id \in DOMAIN index, id # new PROVE now[id] = index[id]
  BY <1>1, <1>2, <1>5 DEF AddPart
<1>6. CASE new \in DOMAIN index
  <2>1. PICK part : part = index[new]
    OBVIOUS
  <2>2. now[new] = FurtherPart(part, file, d)
    BY <1>1, <1>6, <2>1 DEF AddPart
  <2>3. /\ DeclaringFiles(now[new]) = DeclaringFiles(part) \cup {file}
        /\ now[new].bases = AddBases(part.bases, d.bases)
    BY <2>2 DEF FurtherPart, DeclaringFiles
  <2>4. now[new].bases \in Seq(STRING)
    BY <1>6, <2>1, <2>3, BasesAdded DEF Describes
  <2>5. \A f : f \in DeclaringFiles(now[new]) <=> <<f, new>> \in all
    BY <1>3, <1>6, <2>1, <2>3 DEF Describes
  <2> QED
    BY <1>1, <1>2, <1>3, <1>4, <1>5, <2>4, <2>5 DEF Describes
<1>7. CASE new \notin DOMAIN index
  <2>1. now[new] = FirstPart(file, d)
    BY <1>1, <1>7 DEF AddPart
  <2>2. DeclaringFiles(now[new]) = {file} /\ now[new].bases = d.bases
    BY <2>1 DEF FirstPart, DeclaringFiles
  <2>3. \A f : f \in DeclaringFiles(now[new]) <=> <<f, new>> \in all
    BY <1>3, <1>7, <2>2 DEF Describes
  <2> QED
    BY <1>1, <1>2, <1>3, <1>4, <1>5, <2>2, <2>3 DEF Describes
<1> QED
  BY <1>6, <1>7

Declared(defs, file, n) == {<<file, Id(defs[k])>> : k \in 1 .. n}

LEMMA FileAdded ==
    ASSUME NEW index, NEW declared, Describes(index, declared), NEW file, NEW defs,
           NEW N \in Nat, N = Len(defs), \A k \in 1 .. N : defs[k].bases \in Seq(STRING)
    PROVE  Describes(AddFile(index, file, defs), declared \cup Declared(defs, file, N))
<1>1. PICK U : U = CHOOSE V : IsFiling(index, file, defs, N, V)
  OBVIOUS
<1>2. IsFiling(index, file, defs, N, U)
  BY <1>1, FilingExists
<1>3. AddFile(index, file, defs) = U[N]
  BY <1>1 DEF AddFile, IsFiling
<1>4. U[0] = index /\ \A n \in 1 .. N : U[n] = AddPart(U[n - 1], file, defs[n])
  BY <1>2, FilingRounds
<1> DEFINE At(n) == Describes(U[n], declared \cup Declared(defs, file, n))
           T == {n \in 0 .. N : At(n)}
<1>5. 0 \in T
  <2>1. declared \cup Declared(defs, file, 0) = declared
    BY DEF Declared
  <2>2. At(0)
    BY <1>4, <2>1
  <2> HIDE DEF At
  <2> QED
    BY <2>2
<1>6. ASSUME NEW n \in 1 .. N, n - 1 \in T PROVE n \in T
  <2>1. PICK so, before : /\ so = U[n - 1]
                          /\ before = declared \cup Declared(defs, file, n - 1)
    OBVIOUS
  <2>2. PICK d : d = defs[n]
    OBVIOUS
  <2>3. Describes(so, before) /\ d.bases \in Seq(STRING)
    BY <1>6, <2>1, <2>2
  <2>4. Describes(AddPart(so, file, d), before \cup {<<file, Id(d)>>})
    BY <2>3, PartAdded
  <2>5. U[n] = AddPart(so, file, d)
    BY <1>4, <2>1, <2>2
  <2>6. before \cup {<<file, Id(d)>>} = declared \cup Declared(defs, file, n)
    <3>1. 1 .. n = (1 .. n - 1) \cup {n}
      OBVIOUS
    <3> QED
      BY <2>1, <2>2, <3>1 DEF Declared
  <2>7. At(n)
    BY <2>4, <2>5, <2>6
  <2> HIDE DEF At
  <2> QED
    BY <2>7
<1>7. N \in T
  <2> HIDE DEF T
  <2>1. \A n \in 0 .. N : n \in T
    BY <1>5, <1>6, HopByHop
  <2> QED
    BY <2>1
<1> QED
  BY <1>3, <1>7

(* The declarations of a repository.                                         *)
DeclaredUpto(repo, n) ==
    UNION {Declared(repo.frags[f].defs, f, Len(repo.frags[f].defs)) : f \in 1 .. n}
AllDeclared(repo) == DeclaredUpto(repo, Len(repo.frags))

(* The index is that of all the declarations, in whatever files.             *)
LEMMA IndexIs ==
    ASSUME NEW repo, WellFormedNames(repo)
    PROVE  Describes(DefIndex(repo), AllDeclared(repo))
<1>1. PICK N \in Nat : N = Len(repo.frags) /\ DOMAIN repo.frags = 1 .. N
  BY DEF WellFormedNames, IsLists
<1>2. PICK U : U = CHOOSE V : IsIndexing(repo, N, V)
  OBVIOUS
<1>3. IsIndexing(repo, N, U)
  BY <1>2, IndexingExists
<1>4. DefIndex(repo) = U[N]
  BY <1>1, <1>2 DEF DefIndex, IsIndexing
<1>5. U[0] = NoTypes /\ \A n \in 1 .. N : U[n] = AddFile(U[n - 1], n, repo.frags[n].defs)
  BY <1>3, IndexingRounds
<1> DEFINE At(n) == Describes(U[n], DeclaredUpto(repo, n))
           T == {n \in 0 .. N : At(n)}
<1>6. 0 \in T
  <2>1. DeclaredUpto(repo, 0) = {}
    BY DEF DeclaredUpto
  <2>2. IsFiniteSet({})
    BY FS_EmptySet
  <2>3. PICK none : none = U[0] /\ DOMAIN none = {}
    BY <1>5 DEF NoTypes
  <2>4. Describes(none, {})
    BY <2>2, <2>3 DEF Describes
  <2>5. At(0)
    BY <2>1, <2>3, <2>4
  <2> HIDE DEF At
  <2> QED
    BY <2>5
<1>7. ASSUME NEW n \in 1 .. N, n - 1 \in T PROVE n \in T
  <2>1. PICK so, before, defs : /\ so = U[n - 1] /\ before = DeclaredUpto(repo, n - 1)
                                /\ defs = repo.frags[n].defs
    OBVIOUS
  <2>2. PICK M \in Nat : M = Len(defs) /\ DOMAIN defs = 1 .. M
    BY <1>1, <2>1 DEF WellFormedNames, IsLists
  <2>3. \A k \in 1 .. M : defs[k].bases \in Seq(STRING)
    BY <1>1, <2>1, <2>2 DEF WellFormedNames
  <2>4. Describes(so, before)
    BY <1>7, <2>1
  <2>5. Describes(AddFile(so, n, defs), before \cup Declared(defs, n, M))
    BY <2>2, <2>3, <2>4, FileAdded
  <2>6. U[n] = AddFile(so, n, defs)
    BY <1>5, <2>1
  <2>7. before \cup Declared(defs, n, M) = DeclaredUpto(repo, n)
    <3>1. 1 .. n = (1 .. n - 1) \cup {n}
      OBVIOUS
    <3> QED
      BY <2>1, <2>2, <3>1 DEF DeclaredUpto
  <2>8. At(n)
    BY <2>5, <2>6, <2>7
  <2> HIDE DEF At
  <2> QED
    BY <2>8
<1>8. N \in T
  <2> HIDE DEF T
  <2>1. \A n \in 0 .. N : n \in T
    BY <1>6, <1>7, HopByHop
  <2> QED
    BY <2>1
<1> QED
  BY <1>1, <1>4, <1>8 DEF AllDeclared

-----------------------------------------------------------------------------
(* The bases of a type.                                                      *)

LEMMA LeastIs ==
    ASSUME NEW T \in SUBSET Nat, T # {}
    PROVE  Least(T) \in T /\ \A n \in T : Least(T) <= n
BY FirstOf DEF Least

(* An index whose types stand in namespaces that are lists.                  *)
IsIndex(index) ==
    /\ IsFiniteSet(DOMAIN index) /\ NoType \notin DOMAIN index
    /\ \A id \in DOMAIN index : id[1] \in Seq(STRING) /\ index[id].bases \in Seq(STRING)

LEMMA IndexIsIndex ==
    ASSUME NEW repo, WellFormedNames(repo)
    PROVE  IsIndex(DefIndex(repo))
<1>1. PICK index, all : index = DefIndex(repo) /\ all = AllDeclared(repo)
  OBVIOUS
<1>2. Describes(index, all)
  BY <1>1, IndexIs
<1>3. ASSUME NEW id \in DOMAIN index PROVE id[1] \in Seq(STRING) /\ id # NoType
  <2>1. PICK f : <<f, id>> \in all
    BY <1>2 DEF Describes
  <2>2. PICK g \in 1 .. Len(repo.frags) :
            <<f, id>> \in Declared(repo.frags[g].defs, g, Len(repo.frags[g].defs))
    BY <1>1, <2>1 DEF AllDeclared, DeclaredUpto
  <2>3. PICK k \in 1 .. Len(repo.frags[g].defs) : id = Id(repo.frags[g].defs[k])
    BY <2>2 DEF Declared
  <2>4. g \in DOMAIN repo.frags /\ k \in DOMAIN repo.frags[g].defs
    BY DEF WellFormedNames, IsLists
  <2>5. PICK d : d = repo.frags[g].defs[k]
    OBVIOUS
  <2>6. d.ns \in Seq(STRING) /\ id = <<d.ns, d.chain>>
    BY <2>3, <2>4, <2>5 DEF WellFormedNames, Id
  <2> QED
    BY <2>6 DEF NoType
<1>4. \A id \in DOMAIN index : index[id].bases \in Seq(STRING)
  BY <1>2 DEF Describes
<1> QED
  BY <1>1, <1>2, <1>3, <1>4 DEF IsIndex, Describes

LEMMA ImportedKnown ==
    ASSUME NEW index, NEW ns \in Seq(STRING), NEW name, NEW text
    PROVE  Imported(index, ns, name, text) \subseteq DOMAIN index
<1>1. PICK N : N = {n \in DOMAIN Enclosing(ns) : Reading(ns, name, text, n) \in DOMAIN index}
  OBVIOUS
<1>2. DOMAIN Enclosing(ns) = 1 .. Len(ns) + 1 /\ Len(ns) \in Nat
  BY DEF Enclosing
<1>3. N \in SUBSET Nat
  BY <1>1, <1>2
<1>4. N # {} => Least(N) \in N
  BY <1>3, LeastIs
<1>5. PICK n : n = Least(N)
  OBVIOUS
<1>6. Imported(index, ns, name, text) = IF N = {} THEN {} ELSE {Reading(ns, name, text, n)}
  BY <1>1, <1>5 DEF Imported
<1>7. N # {} => Reading(ns, name, text, n) \in DOMAIN index
  BY <1>1, <1>4, <1>5
<1> QED
  BY <1>6, <1>7

LEMMA LevelKnown ==
    ASSUME NEW repo, NEW index, NEW r, r.ns \in Seq(STRING)
    PROVE  LevelAnswer(repo, index, r).defs \subseteq DOMAIN index
<1>1. ASSUME NEW level PROVE AtLevel(repo, index, r, level).defs \subseteq DOMAIN index
  <2>1. PICK met : met = UNION {Imported(index, r.ns, r.name, u) : u \in UsingsAt(repo, r.file, level)}
    OBVIOUS
  <2>2. met \subseteq DOMAIN index
    BY <2>1, ImportedKnown
  <2>3. PICK own : own = <<level, <<r.name>>>>
    OBVIOUS
  <2>4. AtLevel(repo, index, r, level) =
            IF own \in DOMAIN index /\ Reaches(repo, index, r.file, own)
            THEN Answer({own}, "namespace")
            ELSE Answer({id \in met : Reaches(repo, index, r.file, id)}, "usings")
    BY <2>1, <2>3 DEF AtLevel
  <2> QED
    BY <2>2, <2>4 DEF Answer
<1>2. LevelAnswer(repo, index, r) = External
      \/ \E level : LevelAnswer(repo, index, r) = AtLevel(repo, index, r, level)
  BY DEF LevelAnswer
<1> QED
  BY <1>1, <1>2 DEF External

(* A base is a type of the index or none, whatever its name means.           *)
LEMMA BasesKnown ==
    ASSUME NEW repo, NEW index, IsIndex(index), NEW id \in DOMAIN index
    PROVE  Bases(repo, index, id) \in Seq(DOMAIN index \cup {NoType})
<1> DEFINE Site(b) == [file |-> index[id].file, ns |-> id[1], outer |-> <<>>, name |-> b]
           One(defs) == IF \E t \in defs : defs = {t} THEN CHOOSE t \in defs : defs = {t} ELSE NoType
           Of(b) == One(Ladder(repo, index, Site(b), {}).defs)
<1>1. ASSUME NEW b PROVE Of(b) \in DOMAIN index \cup {NoType}
  <2>1. PICK r : r = Site(b)
    OBVIOUS
  <2>2. r.ns = id[1] /\ r.outer = <<>> /\ r.ns \in Seq(STRING)
    BY <2>1 DEF IsIndex
  <2>3. PICK defs : defs = Ladder(repo, index, r, {}).defs
    OBVIOUS
  <2>4. LexicalAnswer(index, r) = External
    BY <2>2 DEF LexicalAnswer
  <2>5. PICK level : level = LevelAnswer(repo, index, r) /\ level.defs \subseteq DOMAIN index
    BY <2>2, LevelKnown
  <2>6. PICK global : global = GlobalAnswer(index, r, {}) /\ global.defs \subseteq DOMAIN index
    <3>1. PICK all \in SUBSET DOMAIN index : GlobalAnswer(index, r, {}) = Answer(all, "global")
      BY DEF GlobalAnswer
    <3> QED
      BY <3>1 DEF Answer
  <2>7. PICK aliases : aliases = AliasTargets(repo, r.file, r.name)
    OBVIOUS
  <2>8. Ladder(repo, index, r, {}) = IF aliases # {} THEN Answer(aliases \cap DOMAIN index, "alias")
                                     ELSE IF level.defs # {} THEN level ELSE global
    BY <2>4, <2>5, <2>6, <2>7 DEF Ladder, External
  <2>9. defs \subseteq DOMAIN index
    BY <2>3, <2>5, <2>6, <2>8 DEF Answer
  <2>10. One(defs) \in DOMAIN index \cup {NoType}
    BY <2>9
  <2> QED
    BY <2>1, <2>3, <2>10
<1>2. PICK names \in Seq(STRING) : names = index[id].bases
  BY DEF IsIndex
<1>3. Bases(repo, index, id) = [k \in 1 .. Len(names) |-> Of(names[k])]
  BY <1>2 DEF Bases
<1>4. PICK S : S = DOMAIN index \cup {NoType}
  OBVIOUS
<1>5. ASSUME NEW k \in 1 .. Len(names) PROVE Of(names[k]) \in S
  BY <1>1, <1>4
<1> HIDE DEF Of
<1>6. Bases(repo, index, id) \in [1 .. Len(names) -> S]
  BY <1>3, <1>5
<1>7. Len(names) \in Nat
  BY <1>2
<1> QED
  BY <1>4, <1>6, <1>7

-----------------------------------------------------------------------------
(* A repository without the types out of reach.                              *)

KeptOf(defs, ids, n) == {defs[k] : k \in {k \in 1 .. n : Id(defs[k]) \in ids}}

LEMMA KeptIs ==
    ASSUME NEW defs, NEW ids, NEW N \in Nat, NEW U, IsKeeping(defs, ids, N, U), NEW S,
           \A k \in 1 .. N : defs[k] \in S
    PROVE  \E out \in Seq(S) : out = U[N] /\ RangeOf(out) = KeptOf(defs, ids, N)
<1>4. U[0] = NothingKept /\ \A n \in 1 .. N : U[n] = Keep(U[n - 1], defs[n], ids)
  BY KeepingRounds
<1> DEFINE At(n) == U[n] \in Seq(S) /\ RangeOf(U[n]) = KeptOf(defs, ids, n)
           T == {n \in 0 .. N : At(n)}
<1>6. 0 \in T
  <2>1. NothingKept \in Seq(S) /\ RangeOf(NothingKept) = {}
    <3>1. <<>> \in Seq(S)
      OBVIOUS
    <3> QED
      BY <3>1 DEF RangeOf, NothingKept
  <2>2. KeptOf(defs, ids, 0) = {}
    BY DEF KeptOf
  <2>3. At(0)
    BY <1>4, <2>1, <2>2
  <2> HIDE DEF At
  <2> QED
    BY <2>3
<1>7. ASSUME NEW n \in 1 .. N, n - 1 \in T PROVE n \in T
  <2>1. PICK so \in Seq(S) : so = U[n - 1] /\ RangeOf(so) = KeptOf(defs, ids, n - 1)
    BY <1>7
  <2>2. PICK d \in S : d = defs[n]
    OBVIOUS
  <2>3. U[n] = Keep(so, d, ids)
    BY <1>4, <2>1, <2>2
  <2>4. KeptOf(defs, ids, n) = KeptOf(defs, ids, n - 1) \cup (IF Id(d) \in ids THEN {d} ELSE {})
    BY <2>2 DEF KeptOf
  <2>5. Append(so, d) \in Seq(S) /\ RangeOf(Append(so, d)) = RangeOf(so) \cup {d}
    <3>0. Append(so, d) \in Seq(S)
      OBVIOUS
    <3>1. PICK more \in Seq(S) : more = Append(so, d)
      BY <3>0
    <3>2. Len(so) \in Nat /\ DOMAIN so = 1 .. Len(so) /\ DOMAIN more = 1 .. Len(so) + 1
      BY <3>1
    <3>3. \A k \in 1 .. Len(so) : more[k] = so[k]
      BY <3>1
    <3>4. more[Len(so) + 1] = d
      BY <3>1
    <3>5. RangeOf(more) = RangeOf(so) \cup {d}
      <4>1. PICK M \in Nat : M = Len(so)
        BY <3>2
      <4>2. \A k : k \in 1 .. M + 1 <=> k \in 1 .. M \/ k = M + 1
        OBVIOUS
      <4>3. DOMAIN so = 1 .. M /\ DOMAIN more = 1 .. M + 1 /\ more[M + 1] = d
            /\ \A k \in 1 .. M : more[k] = so[k]
        BY <3>2, <3>3, <3>4, <4>1
      <4> QED
        BY <4>2, <4>3 DEF RangeOf
    <3> QED
      BY <3>1, <3>5
  <2>6. At(n)
    BY <2>1, <2>3, <2>4, <2>5 DEF Keep
  <2> HIDE DEF At
  <2> QED
    BY <2>6
<1>8. N \in T
  <2> HIDE DEF T
  <2>1. \A n \in 0 .. N : n \in T
    BY <1>6, <1>7, HopByHop
  <2> QED
    BY <2>1
<1> QED
  BY <1>8

LEMMA OnlyIs ==
    ASSUME NEW defs, NEW ids, NEW N \in Nat, N = Len(defs)
    PROVE  /\ Len(Only(defs, ids)) \in Nat
           /\ DOMAIN Only(defs, ids) = 1 .. Len(Only(defs, ids))
           /\ RangeOf(Only(defs, ids)) = KeptOf(defs, ids, N)
<1>1. PICK U : U = CHOOSE V : IsKeeping(defs, ids, N, V)
  OBVIOUS
<1>2. IsKeeping(defs, ids, N, U)
  BY <1>1, KeepingExists
<1>3. Only(defs, ids) = U[N]
  BY <1>1 DEF Only, IsKeeping, Keep, NothingKept
<1>4. PICK S : S = {defs[k] : k \in 1 .. N}
  OBVIOUS
<1>5. PICK out \in Seq(S) : out = U[N] /\ RangeOf(out) = KeptOf(defs, ids, N)
  BY <1>2, <1>4, KeptIs
<1>6. PICK kept : kept = KeptOf(defs, ids, N)
  OBVIOUS
<1>7. Len(out) \in Nat /\ DOMAIN out = 1 .. Len(out)
  OBVIOUS
<1> QED
  BY <1>3, <1>5, <1>7

(* What the directives around a site read is in the index.                   *)
LEMMA ReadKnown ==
    ASSUME NEW repo, NEW index, NEW r, r.ns \in Seq(STRING)
    PROVE  ReadAround(repo, index, r) \subseteq DOMAIN index
<1>1. PICK around : around = UNION {UsingsAt(repo, r.file, level) : level \in RangeOf(Enclosing(r.ns))}
  OBVIOUS
<1>2. ReadAround(repo, index, r) = UNION {Imported(index, r.ns, r.name, u) : u \in around}
  BY <1>1 DEF ReadAround
<1> QED
  BY <1>2, ImportedKnown

(* The files and the directives stay, and the declarations in reach.         *)
Narrowed(repo, sub, read, file) ==
    /\ sub.refs = repo.refs /\ DOMAIN sub.frags = DOMAIN repo.frags
    /\ \A f \in DOMAIN repo.frags :
          /\ sub.frags[f].unit = repo.frags[f].unit
          /\ sub.frags[f].usings = repo.frags[f].usings
          /\ sub.frags[f].aliases = repo.frags[f].aliases
          /\ sub.frags[f].defs = IF Visible(repo, file, f) THEN repo.frags[f].defs
                                 ELSE Only(repo.frags[f].defs, read)

LEMMA InReachNarrows ==
    ASSUME NEW repo, NEW r
    PROVE  Narrowed(repo, InReach(repo, r), ReadAround(repo, DefIndex(repo), r), r.file)
BY DEF InReach, Narrowed

(* The types each file keeps.                                                *)
Keeps(repo, sub, read, file, f) ==
    RangeOf(sub.frags[f].defs) =
        {d \in RangeOf(repo.frags[f].defs) : Visible(repo, file, f) \/ Id(d) \in read}

LEMMA NarrowedNames ==
    ASSUME NEW repo, WellFormedNames(repo), NEW sub, NEW read, NEW file,
           Narrowed(repo, sub, read, file), NEW N \in Nat, Len(sub.frags) = N, DOMAIN sub.frags = 1 .. N
    PROVE  /\ WellFormedNames(sub)
           /\ \A f \in 1 .. N : Keeps(repo, sub, read, file, f)
<1>1. ASSUME NEW f \in 1 .. N
      PROVE  /\ IsLists({sub.frags[f].defs})
             /\ Keeps(repo, sub, read, file, f)
  <2>1. f \in DOMAIN repo.frags
    BY DEF Narrowed
  <2>2. PICK defs : defs = repo.frags[f].defs
    OBVIOUS
  <2>3. Len(defs) \in Nat /\ DOMAIN defs = 1 .. Len(defs)
    BY <2>1, <2>2 DEF WellFormedNames, IsLists
  <2>4. PICK M \in Nat : M = Len(defs)
    BY <2>3
  <2>5. PICK now : now = sub.frags[f].defs
                   /\ now = IF Visible(repo, file, f) THEN defs ELSE Only(defs, read)
    BY <2>1, <2>2 DEF Narrowed
  <2>6. CASE Visible(repo, file, f)
    BY <2>2, <2>3, <2>5, <2>6 DEF IsLists, Keeps
  <2>7. CASE ~ Visible(repo, file, f)
    <3>1. /\ Len(now) \in Nat /\ DOMAIN now = 1 .. Len(now)
          /\ RangeOf(now) = KeptOf(defs, read, M)
      BY <2>4, <2>5, <2>7, OnlyIs
    <3>2. KeptOf(defs, read, M) = {d \in RangeOf(defs) : Id(d) \in read}
      BY <2>3, <2>4 DEF KeptOf, RangeOf
    <3> QED
      BY <2>2, <2>5, <2>7, <3>1, <3>2 DEF IsLists, Keeps
  <2> QED
    BY <2>6, <2>7
<1>2. IsLists({sub.frags} \cup {sub.frags[f].defs : f \in DOMAIN sub.frags})
  BY <1>1 DEF IsLists
<1>3. ASSUME NEW f \in DOMAIN sub.frags, NEW k \in DOMAIN sub.frags[f].defs
      PROVE  {sub.frags[f].defs[k].ns, sub.frags[f].defs[k].bases} \subseteq Seq(STRING)
  <2>1. PICK d : d = sub.frags[f].defs[k] /\ d \in RangeOf(sub.frags[f].defs)
    BY DEF RangeOf
  <2>2. d \in RangeOf(repo.frags[f].defs)
    BY <1>1, <2>1 DEF Keeps, Narrowed
  <2>3. PICK j \in DOMAIN repo.frags[f].defs : d = repo.frags[f].defs[j]
    BY <2>2 DEF RangeOf
  <2>4. f \in DOMAIN repo.frags
    BY DEF Narrowed
  <2> QED
    BY <2>1, <2>3, <2>4 DEF WellFormedNames
<1> QED
  BY <1>1, <1>2, <1>3 DEF WellFormedNames

(* The declarations of a well-formed repository, file by file.               *)
LEMMA DeclaredIn ==
    ASSUME NEW repo, WellFormedNames(repo), NEW f, NEW id
    PROVE  <<f, id>> \in AllDeclared(repo) <=>
               f \in DOMAIN repo.frags /\ \E d \in RangeOf(repo.frags[f].defs) : id = Id(d)
<1>1. PICK N \in Nat : N = Len(repo.frags) /\ DOMAIN repo.frags = 1 .. N
  BY DEF WellFormedNames, IsLists
<1>2. ASSUME NEW g \in 1 .. N
      PROVE  <<f, id>> \in Declared(repo.frags[g].defs, g, Len(repo.frags[g].defs)) <=>
                 f = g /\ \E d \in RangeOf(repo.frags[g].defs) : id = Id(d)
  <2>1. PICK defs : defs = repo.frags[g].defs
    OBVIOUS
  <2>2. DOMAIN defs = 1 .. Len(defs)
    BY <1>1, <2>1 DEF WellFormedNames, IsLists
  <2>3. PICK M : M = Len(defs)
    OBVIOUS
  <2>4. <<f, id>> \in Declared(defs, g, M) <=> f = g /\ \E k \in 1 .. M : id = Id(defs[k])
    BY DEF Declared
  <2> QED
    BY <2>1, <2>2, <2>3, <2>4 DEF RangeOf
<1> QED
  BY <1>1, <1>2 DEF AllDeclared, DeclaredUpto

LEMMA InReachDeclares ==
    ASSUME NEW repo, WellFormedNames(repo), NEW sub, NEW read, NEW file,
           Narrowed(repo, sub, read, file)
    PROVE  /\ WellFormedNames(sub)
           /\ \A f, id : <<f, id>> \in AllDeclared(sub) <=>
                 <<f, id>> \in AllDeclared(repo) /\ (Visible(repo, file, f) \/ id \in read)
<1>1. PICK N \in Nat : N = Len(repo.frags) /\ DOMAIN repo.frags = 1 .. N
  BY DEF WellFormedNames, IsLists
<1>2. DOMAIN sub.frags = 1 .. N /\ Len(sub.frags) = N
  BY <1>1 DEF Narrowed
<1>3. /\ WellFormedNames(sub)
      /\ \A f \in 1 .. N : Keeps(repo, sub, read, file, f)
  BY <1>2, NarrowedNames
<1>4. ASSUME NEW f, NEW id
      PROVE  <<f, id>> \in AllDeclared(sub) <=>
                 <<f, id>> \in AllDeclared(repo) /\ (Visible(repo, file, f) \/ id \in read)
  <2>1. <<f, id>> \in AllDeclared(sub) <=>
            f \in 1 .. N /\ \E d \in RangeOf(sub.frags[f].defs) : id = Id(d)
    BY <1>2, <1>3, DeclaredIn
  <2>2. <<f, id>> \in AllDeclared(repo) <=>
            f \in 1 .. N /\ \E d \in RangeOf(repo.frags[f].defs) : id = Id(d)
    BY <1>1, DeclaredIn
  <2> QED
    BY <1>3, <2>1, <2>2 DEF Keeps
<1> QED
  BY <1>3, <1>4

(* A type is in reach where one of its declarations is.                      *)
LEMMA ReachesIs ==
    ASSUME NEW repo, NEW index, NEW file, NEW id
    PROVE  Reaches(repo, index, file, id) <=> \E f \in DeclaringFiles(index[id]) : Visible(repo, file, f)
<1>1. PICK files, site : files = DeclaringFiles(index[id]) /\ site = repo.frags[file].unit
  OBVIOUS
<1>2. files # {}
  BY <1>1 DEF DeclaringFiles
<1>3. Reaches(repo, index, file, id) <=>
          \/ site = NoUnit \/ NoUnit \in {repo.frags[f].unit : f \in files}
          \/ \E f \in files : Reachable(repo.refs, site, repo.frags[f].unit)
  BY <1>1 DEF Reaches
<1>4. \A f : Visible(repo, file, f) <=> \/ site = NoUnit \/ repo.frags[f].unit = NoUnit
                                        \/ Reachable(repo.refs, site, repo.frags[f].unit)
  BY <1>1 DEF Visible
<1> QED
  BY <1>1, <1>2, <1>3, <1>4

(* What a name means by scope is read from these.                            *)
SameScope(repo, index, alone, low, r) ==
    /\ DOMAIN low \subseteq DOMAIN index
    /\ ReadAround(repo, index, r) \subseteq DOMAIN low
    /\ \A id \in DOMAIN index : Reaches(repo, index, r.file, id) => id \in DOMAIN low
    /\ \A id \in DOMAIN low : Reaches(alone, low, r.file, id) <=> Reaches(repo, index, r.file, id)
    /\ \A level : UsingsAt(alone, r.file, level) = UsingsAt(repo, r.file, level)
    /\ AliasTargets(alone, r.file, r.name) = AliasTargets(repo, r.file, r.name)

LEMMA NarrowedDirectives ==
    ASSUME NEW repo, NEW sub, NEW read, NEW file, Narrowed(repo, sub, read, file),
           file \in DOMAIN repo.frags, DOMAIN repo.frags \in SUBSET Nat
    PROVE  /\ \A level : UsingsAt(sub, file, level) = UsingsAt(repo, file, level)
           /\ \A name : AliasTargets(sub, file, name) = AliasTargets(repo, file, name)
<1>1. PICK D : D = DOMAIN repo.frags
  OBVIOUS
<1>2. DOMAIN sub.frags = D /\ file \in D
  BY <1>1 DEF Narrowed
<1>3. \A f \in D : /\ sub.frags[f].unit = repo.frags[f].unit
                   /\ sub.frags[f].usings = repo.frags[f].usings
                   /\ sub.frags[f].aliases = repo.frags[f].aliases
  BY <1>1 DEF Narrowed
<1>4. PICK files \in SUBSET D : files = GlobalFiles(repo, file)
  BY <1>1 DEF GlobalFiles
<1>5. GlobalFiles(sub, file) = files
  BY <1>1, <1>2, <1>3, <1>4 DEF GlobalFiles
<1>6. ASSUME NEW level PROVE UsingsAt(sub, file, level) = UsingsAt(repo, file, level)
  <2>1. {{u.text : u \in {u \in sub.frags[f].usings : u.global}} : f \in files}
            = {{u.text : u \in {u \in repo.frags[f].usings : u.global}} : f \in files}
    BY <1>3, <1>4
  <2>2. sub.frags[file].usings = repo.frags[file].usings
    BY <1>2, <1>3
  <2> QED
    BY <1>4, <1>5, <2>1, <2>2 DEF UsingsAt
<1>7. ASSUME NEW name PROVE AliasTargets(sub, file, name) = AliasTargets(repo, file, name)
  <2>1. sub.frags[file].aliases = repo.frags[file].aliases
    BY <1>2, <1>3
  <2>2. PICK holding : holding = {f \in files : \E a \in repo.frags[f].aliases : a.global /\ a.alias = name}
    OBVIOUS
  <2>3. holding = {f \in files : \E a \in sub.frags[f].aliases : a.global /\ a.alias = name}
    BY <1>3, <1>4, <2>2
  <2>4. PICK first : first = Least(holding)
    OBVIOUS
  <2>5. holding # {} => first \in D
    <3>1. CASE holding # {}
      <4>1. Least(holding) \in holding
        BY <1>1, <1>4, <2>2, <3>1, LeastIs
      <4> QED
        BY <1>4, <2>2, <2>4, <4>1
    <3> QED
      BY <3>1
  <2>6. PICK local, named : /\ local = {a \in repo.frags[file].aliases : a.alias = name}
                            /\ named = {a \in repo.frags[first].aliases : a.global /\ a.alias = name}
    OBVIOUS
  <2>7. local = {a \in sub.frags[file].aliases : a.alias = name}
    BY <2>1, <2>6
  <2>8. holding # {} => named = {a \in sub.frags[first].aliases : a.global /\ a.alias = name}
    BY <1>3, <2>5, <2>6
  <2>9. AliasTargets(repo, file, name) =
            IF local # {} THEN {a.target : a \in local}
            ELSE IF holding = {} THEN {} ELSE {a.target : a \in named}
    BY <1>4, <2>2, <2>4, <2>6 DEF AliasTargets
  <2>10. PICK others : others = {a \in sub.frags[first].aliases : a.global /\ a.alias = name}
    OBVIOUS
  <2>11. AliasTargets(sub, file, name) =
            IF local # {} THEN {a.target : a \in local}
            ELSE IF holding = {} THEN {} ELSE {a.target : a \in others}
    BY <1>5, <2>3, <2>4, <2>7, <2>10 DEF AliasTargets
  <2> QED
    BY <2>8, <2>9, <2>10, <2>11
<1> QED
  BY <1>6, <1>7

LEMMA ScopeKept ==
    ASSUME NEW repo, WellFormedNames(repo), NEW r, r.ns \in Seq(STRING),
           r.file \in DOMAIN repo.frags
    PROVE  SameScope(repo, DefIndex(repo), InReach(repo, r), DefIndex(InReach(repo, r)), r)
<1>1. PICK index, alone, low, read :
          /\ index = DefIndex(repo) /\ alone = InReach(repo, r) /\ low = DefIndex(alone)
          /\ read = ReadAround(repo, index, r)
  OBVIOUS
<1>2. PICK all, some : all = AllDeclared(repo) /\ some = AllDeclared(alone)
  OBVIOUS
<1>3. Narrowed(repo, alone, read, r.file)
  BY <1>1, InReachNarrows
<1>4. /\ WellFormedNames(alone)
      /\ \A f, id : <<f, id>> \in some <=>
            <<f, id>> \in all /\ (Visible(repo, r.file, f) \/ id \in read)
  BY <1>2, <1>3, InReachDeclares
<1>5. Describes(index, all) /\ Describes(low, some)
  BY <1>1, <1>2, <1>4, IndexIs
<1>6. read \subseteq DOMAIN index
  BY <1>1, ReadKnown
<1>7. DOMAIN low \subseteq DOMAIN index
  BY <1>4, <1>5 DEF Describes
<1>8. read \subseteq DOMAIN low
  BY <1>4, <1>5, <1>6 DEF Describes
<1>9. ASSUME NEW f \in DOMAIN repo.frags
      PROVE  Visible(alone, r.file, f) <=> Visible(repo, r.file, f)
  <2>1. alone.refs = repo.refs /\ alone.frags[f].unit = repo.frags[f].unit
        /\ alone.frags[r.file].unit = repo.frags[r.file].unit
    BY <1>3 DEF Narrowed
  <2> QED
    BY <2>1 DEF Visible
<1>10. ASSUME NEW id \in DOMAIN index
       PROVE  Reaches(repo, index, r.file, id) <=> \E f : <<f, id>> \in all /\ Visible(repo, r.file, f)
  BY <1>5, ReachesIs DEF Describes
<1>11. ASSUME NEW id \in DOMAIN low
       PROVE  Reaches(alone, low, r.file, id) <=> \E f : <<f, id>> \in some /\ Visible(alone, r.file, f)
  BY <1>5, ReachesIs DEF Describes
<1>12. \A f, id : <<f, id>> \in all => f \in DOMAIN repo.frags
  BY <1>2, DeclaredIn
<1>13. \A id \in DOMAIN index : Reaches(repo, index, r.file, id) => id \in DOMAIN low
  BY <1>4, <1>5, <1>10 DEF Describes
<1>14. \A id \in DOMAIN low : Reaches(alone, low, r.file, id) <=> Reaches(repo, index, r.file, id)
  BY <1>4, <1>7, <1>9, <1>10, <1>11, <1>12
<1>15. DOMAIN repo.frags \in SUBSET Nat
  BY DEF WellFormedNames, IsLists
<1>16. /\ \A level : UsingsAt(alone, r.file, level) = UsingsAt(repo, r.file, level)
       /\ AliasTargets(alone, r.file, r.name) = AliasTargets(repo, r.file, r.name)
  BY <1>3, <1>15, NarrowedDirectives
<1>17. SameScope(repo, index, alone, low, r)
  BY <1>1, <1>7, <1>8, <1>13, <1>14, <1>16 DEF SameScope
<1> QED
  BY <1>1, <1>17

LEMMA ImportedKept ==
    ASSUME NEW index, NEW low, DOMAIN low \subseteq DOMAIN index, NEW ns \in Seq(STRING), NEW name,
           NEW text, Imported(index, ns, name, text) \subseteq DOMAIN low
    PROVE  Imported(low, ns, name, text) = Imported(index, ns, name, text)
<1>1. PICK M : M = DOMAIN Enclosing(ns) /\ M \in SUBSET Nat
  <2>1. DOMAIN Enclosing(ns) = 1 .. Len(ns) + 1 /\ Len(ns) \in Nat
    BY DEF Enclosing
  <2> QED
    BY <2>1
<1>2. PICK N, L : /\ N = {n \in M : Reading(ns, name, text, n) \in DOMAIN index}
                  /\ L = {n \in M : Reading(ns, name, text, n) \in DOMAIN low}
  OBVIOUS
<1>3. L \subseteq N /\ N \in SUBSET Nat /\ L \in SUBSET Nat
  BY <1>1, <1>2
<1>4. PICK n, l : n = Least(N) /\ l = Least(L)
  OBVIOUS
<1>5. /\ Imported(index, ns, name, text) = IF N = {} THEN {} ELSE {Reading(ns, name, text, n)}
      /\ Imported(low, ns, name, text) = IF L = {} THEN {} ELSE {Reading(ns, name, text, l)}
  BY <1>1, <1>2, <1>4 DEF Imported
<1>6. CASE N = {}
  BY <1>3, <1>5, <1>6
<1>7. CASE N # {}
  <2>1. n \in N /\ \A m \in N : n <= m
    BY <1>3, <1>4, <1>7, LeastIs
  <2>2. n \in L
    BY <1>2, <1>5, <1>7, <2>1
  <2>3. l \in L /\ \A m \in L : l <= m
    BY <1>3, <1>4, <2>2, LeastIs
  <2>4. l = n
    BY <1>3, <2>1, <2>2, <2>3
  <2> QED
    BY <1>5, <1>7, <2>2, <2>4
<1> QED
  BY <1>6, <1>7

(* One namespace level answers the same in both.                             *)
LEMMA LevelKept ==
    ASSUME NEW repo, NEW index, NEW alone, NEW low, NEW r, r.ns \in Seq(STRING),
           SameScope(repo, index, alone, low, r), NEW level \in RangeOf(Enclosing(r.ns))
    PROVE  AtLevel(alone, low, r, level) = AtLevel(repo, index, r, level)
<1>1. PICK here : here = UsingsAt(repo, r.file, level) /\ here = UsingsAt(alone, r.file, level)
  BY DEF SameScope
<1>2. PICK around : around = UNION {UsingsAt(repo, r.file, at) : at \in RangeOf(Enclosing(r.ns))}
  OBVIOUS
<1>3. here \subseteq around
  BY <1>1, <1>2
<1>4. ASSUME NEW u \in here
      PROVE  Imported(low, r.ns, r.name, u) = Imported(index, r.ns, r.name, u)
  <2>1. ReadAround(repo, index, r) = UNION {Imported(index, r.ns, r.name, v) : v \in around}
    BY <1>2 DEF ReadAround
  <2>2. Imported(index, r.ns, r.name, u) \subseteq ReadAround(repo, index, r)
    BY <1>3, <2>1
  <2>3. DOMAIN low \subseteq DOMAIN index /\ Imported(index, r.ns, r.name, u) \subseteq DOMAIN low
    BY <2>2 DEF SameScope
  <2> QED
    BY <2>3, ImportedKept
<1>5. PICK met : met = UNION {Imported(index, r.ns, r.name, u) : u \in here}
  OBVIOUS
<1>6. met = UNION {Imported(low, r.ns, r.name, u) : u \in here}
  BY <1>4, <1>5
<1>7. met \subseteq DOMAIN index /\ met \subseteq DOMAIN low
  BY <1>5, <1>6, ImportedKnown
<1>8. PICK own : own = <<level, <<r.name>>>>
  OBVIOUS
<1>9. (own \in DOMAIN index /\ Reaches(repo, index, r.file, own))
          <=> (own \in DOMAIN low /\ Reaches(alone, low, r.file, own))
  BY DEF SameScope
<1>10. PICK reached : /\ reached = {id \in met : Reaches(repo, index, r.file, id)}
                      /\ reached = {id \in met : Reaches(alone, low, r.file, id)}
  BY <1>7 DEF SameScope
<1>11. PICK one, rest : one = Answer({own}, "namespace") /\ rest = Answer(reached, "usings")
  OBVIOUS
<1>12. AtLevel(repo, index, r, level) =
          IF own \in DOMAIN index /\ Reaches(repo, index, r.file, own) THEN one ELSE rest
  BY <1>1, <1>5, <1>8, <1>10, <1>11 DEF AtLevel
<1>13. AtLevel(alone, low, r, level) =
          IF own \in DOMAIN low /\ Reaches(alone, low, r.file, own) THEN one ELSE rest
  BY <1>1, <1>6, <1>8, <1>10, <1>11 DEF AtLevel
<1>14. CASE own \in DOMAIN index /\ Reaches(repo, index, r.file, own)
  BY <1>9, <1>12, <1>13, <1>14
<1>15. CASE ~ (own \in DOMAIN index /\ Reaches(repo, index, r.file, own))
  BY <1>9, <1>12, <1>13, <1>15
<1> QED
  BY <1>14, <1>15

LEMMA LevelsKept ==
    ASSUME NEW repo, NEW index, NEW alone, NEW low, NEW r, r.ns \in Seq(STRING),
           SameScope(repo, index, alone, low, r)
    PROVE  LevelAnswer(alone, low, r) = LevelAnswer(repo, index, r)
<1>1. PICK E : E = Enclosing(r.ns) /\ \A n \in DOMAIN E : E[n] \in RangeOf(E)
  BY DEF RangeOf
<1>2. \A n \in DOMAIN E : AtLevel(alone, low, r, E[n]) = AtLevel(repo, index, r, E[n])
  BY <1>1, LevelKept
<1>3. PICK levels \in SUBSET DOMAIN E :
          levels = {n \in DOMAIN E : AtLevel(repo, index, r, E[n]).defs # {}}
  OBVIOUS
<1>4. levels = {n \in DOMAIN E : AtLevel(alone, low, r, E[n]).defs # {}}
  BY <1>2, <1>3
<1>5. PICK first : first = Least(levels)
  OBVIOUS
<1>6. LevelAnswer(repo, index, r) = IF levels = {} THEN External ELSE AtLevel(repo, index, r, E[first])
  BY <1>1, <1>3, <1>5 DEF LevelAnswer
<1>7. LevelAnswer(alone, low, r) = IF levels = {} THEN External ELSE AtLevel(alone, low, r, E[first])
  BY <1>1, <1>4, <1>5 DEF LevelAnswer
<1>8. levels # {} => first \in DOMAIN E
  <2>1. DOMAIN E \in SUBSET Nat
    <3>1. DOMAIN E = 1 .. Len(r.ns) + 1 /\ Len(r.ns) \in Nat
      BY <1>1 DEF Enclosing
    <3> QED
      BY <3>1
  <2> QED
    BY <1>3, <1>5, <2>1, LeastIs
<1> QED
  BY <1>2, <1>6, <1>7, <1>8

(* reach.rs: what a name means by scope, it means among the types in reach.  *)
LEMMA ScopeAnswers ==
    ASSUME NEW repo, WellFormedNames(repo), NEW r, r.ns \in Seq(STRING),
           r.file \in DOMAIN repo.frags
    PROVE  ScopeIsInReach(repo, r)
<1>1. PICK index, alone, low : index = DefIndex(repo) /\ alone = InReach(repo, r) /\ low = DefIndex(alone)
  OBVIOUS
<1>2. SameScope(repo, index, alone, low, r)
  BY <1>1, ScopeKept
<1>3. PICK level : level = LevelAnswer(repo, index, r) /\ level = LevelAnswer(alone, low, r)
  BY <1>2, LevelsKept
<1>4. PICK aliases : aliases = AliasTargets(repo, r.file, r.name) /\ aliases = AliasTargets(alone, r.file, r.name)
  BY <1>2 DEF SameScope
<1>5. PICK seen, view : /\ seen = {id \in DOMAIN index : SeesNested(repo, index, r, id)}
                        /\ view = {id \in DOMAIN low : SeesNested(alone, low, r, id)}
  OBVIOUS
<1>6. PICK lexical, nested : lexical = LexicalAnswer(index, r) /\ nested = LexicalAnswer(low, r)
  OBVIOUS
<1>7. PICK global, last : global = GlobalAnswer(index, r, seen) /\ last = GlobalAnswer(low, r, view)
  OBVIOUS
<1>8. PICK answer : answer = Resolve(repo, r)
          /\ answer = IF aliases # {} THEN Answer(aliases \cap DOMAIN index, "alias")
                      ELSE IF lexical.defs # {} THEN lexical
                      ELSE IF level.defs # {} THEN level ELSE global
  BY <1>1, <1>3, <1>4, <1>5, <1>6, <1>7 DEF Resolve, Ladder
<1>9. PICK only : only = Resolve(alone, r)
          /\ only = IF aliases # {} THEN Answer(aliases \cap DOMAIN low, "alias")
                    ELSE IF nested.defs # {} THEN nested
                    ELSE IF level.defs # {} THEN level ELSE last
  BY <1>1, <1>3, <1>4, <1>5, <1>6, <1>7 DEF Resolve, Ladder
<1>10. ASSUME only.via \in {"namespace", "usings"}, answer.via # "nested"
       PROVE  answer = only
  <2>1. aliases = {}
    BY <1>9, <1>10 DEF Answer
  <2>2. last.via = "global"
    BY <1>7 DEF GlobalAnswer, Answer
  <2>3. lexical.defs # {} => lexical.via = "nested"
    BY <1>6 DEF LexicalAnswer, Answer, External
  <2>4. nested.defs # {} => nested.via = "nested"
    BY <1>6 DEF LexicalAnswer, Answer, External
  <2>5. lexical.defs = {}
    BY <1>8, <1>10, <2>1, <2>3
  <2>6. nested.defs = {}
    BY <1>9, <1>10, <2>1, <2>4
  <2> QED
    BY <1>8, <1>9, <1>10, <2>1, <2>2, <2>5, <2>6
<1> QED
  BY <1>1, <1>8, <1>9, <1>10 DEF ScopeIsInReach

-----------------------------------------------------------------------------
(* The walk over the bases, over types D, the bases up[t] of each that a     *)
(* walk goes to, the types `yes` that declare the member and the types `go`  *)
(* that are walked at all.                                                   *)

WalkResults(D) == [found : D \cup {NoType}, met : SUBSET D]
Done(up, yes, t, met) == t \notin yes /\ up[t] \subseteq met
Within(up, start, S) == \A m \in S : up[m] \ {start} \subseteq S

(* What came of walking the types `from`, `before` met already.              *)
Follows(D, up, yes, go, start, before, from, so) ==
    /\ so \in WalkResults(D) /\ before \subseteq so.met
    /\ so.found = NoType =>
          \A t \in from \cup ((so.met \ before) \cap go) : Done(up, yes, t, so.met)
    /\ so.found # NoType =>
          /\ so.found \in yes
          /\ \A S \in SUBSET D : from \subseteq S /\ Within(up, start, S) => so.found \in S

LEMMA FollowsOn ==
    ASSUME NEW D, NEW up, NEW yes, NEW go, NEW start, NEW before, NEW from, NEW so, NEW t, NEW new,
           Follows(D, up, yes, go, start, before, from, so), so.found = NoType,
           Follows(D, up, yes, go, start, so.met, {t}, new)
    PROVE  Follows(D, up, yes, go, start, before, from \cup {t}, new)
<1>1. new \in WalkResults(D) /\ so.met \subseteq new.met /\ before \subseteq new.met
  BY DEF Follows
<1>2. ASSUME new.found = NoType, NEW u \in (from \cup {t}) \cup ((new.met \ before) \cap go)
      PROVE  Done(up, yes, u, new.met)
  <2>1. CASE u \in {t} \cup ((new.met \ so.met) \cap go)
    BY <1>2, <2>1 DEF Follows
  <2>2. CASE u \in from \cup ((so.met \ before) \cap go)
    <3>1. Done(up, yes, u, so.met)
      BY <2>2 DEF Follows
    <3> QED
      BY <1>1, <3>1 DEF Done
  <2> QED
    BY <1>2, <2>1, <2>2
<1>3. ASSUME new.found # NoType
      PROVE  /\ new.found \in yes
             /\ \A S \in SUBSET D : from \cup {t} \subseteq S /\ Within(up, start, S) => new.found \in S
  BY <1>3 DEF Follows
<1> QED
  BY <1>1, <1>2, <1>3 DEF Follows

LEMMA FollowsMore ==
    ASSUME NEW D, NEW up, NEW yes, NEW go, NEW start, NEW before, NEW from, NEW so, NEW more,
           Follows(D, up, yes, go, start, before, from, so), so.found # NoType, from \subseteq more
    PROVE  Follows(D, up, yes, go, start, before, more, so)
BY DEF Follows

EachStep(walk, bases, positions, k, so) ==
    IF so.found # NoType \/ k \notin positions THEN so ELSE walk[bases[k]][so.met]
IsEach(walk, bases, positions, before, N, U) ==
    U = [n \in 0 .. N |-> IF n = 0 THEN before ELSE EachStep(walk, bases, positions, n, U[n - 1])]

LEMMA EachExists ==
    ASSUME NEW walk, NEW bases, NEW positions, NEW before, NEW N \in Nat
    PROVE  \E U : IsEach(walk, bases, positions, before, N, U)
<1> DEFINE Start == before
           Further(n, so) == EachStep(walk, bases, positions, n, so)
           T == {n \in 0 .. N : \E U : IsEach(walk, bases, positions, before, n, U)}
<1>1. 0 \in T
  <2>1. PICK U : U = [n \in 0 .. 0 |-> Start]
    OBVIOUS
  <2>2. IsEach(walk, bases, positions, before, 0, U)
    BY <2>1 DEF IsEach
  <2> QED
    BY <2>2
<1>2. ASSUME NEW n \in 1 .. N, n - 1 \in T PROVE n \in T
  <2>1. PICK V : IsEach(walk, bases, positions, before, n - 1, V)
    BY <1>2
  <2>2. V = [k \in 0 .. n - 1 |-> IF k = 0 THEN Start ELSE Further(k, V[k - 1])]
    BY <2>1 DEF IsEach
  <2>3. PICK U : U = [k \in 0 .. n |-> IF k = n THEN Further(n, V[n - 1]) ELSE V[k]]
    OBVIOUS
  <2>4. U = [k \in 0 .. n |-> IF k = 0 THEN Start ELSE Further(k, U[k - 1])]
    <3> HIDE DEF Start, Further
    <3>1. ASSUME NEW k \in 0 .. n PROVE U[k] = IF k = 0 THEN Start ELSE Further(k, U[k - 1])
      <4>1. CASE k = n
        <5>1. k # 0 /\ U[k] = Further(n, V[n - 1]) /\ U[k - 1] = V[n - 1]
          BY <2>3, <4>1
        <5> QED
          BY <4>1, <5>1
      <4>2. CASE k # n
        <5>1. k \in 0 .. n - 1 /\ U[k] = V[k] /\ (k # 0 => U[k - 1] = V[k - 1])
          BY <2>3, <4>2
        <5>2. V[k] = IF k = 0 THEN Start ELSE Further(k, V[k - 1])
          BY <2>2, <5>1
        <5> QED
          BY <5>1, <5>2
      <4> QED
        BY <4>1, <4>2
    <3> QED
      BY <2>3, <3>1
  <2>5. IsEach(walk, bases, positions, before, n, U)
    BY <2>4 DEF IsEach
  <2> QED
    BY <2>5
<1>3. N \in T
  <2> HIDE DEF T
  <2>1. \A n \in 0 .. N : n \in T
    BY <1>1, <1>2, HopByHop
  <2> QED
    BY <2>1
<1> QED
  BY <1>3

(* What its rounds are.                                                      *)
EachRuns(walk, bases, positions, before, N, U) ==
    U[0] = before /\ \A n \in 1 .. N : U[n] = EachStep(walk, bases, positions, n, U[n - 1])

LEMMA EachRounds ==
    ASSUME NEW walk, NEW bases, NEW positions, NEW before, NEW N \in Nat, NEW U,
           IsEach(walk, bases, positions, before, N, U)
    PROVE  EachRuns(walk, bases, positions, before, N, U)
<1> DEFINE Start == before
           Further(n, so) == EachStep(walk, bases, positions, n, so)
<1>1. U = [n \in 0 .. N |-> IF n = 0 THEN Start ELSE Further(n, U[n - 1])]
  BY DEF IsEach
<1>2. U[0] = Start /\ \A n \in 1 .. N : U[n] = Further(n, U[n - 1])
  <2> HIDE DEF Start, Further
  <2>1. U[0] = Start
    BY <1>1
  <2>2. ASSUME NEW n \in 1 .. N PROVE U[n] = Further(n, U[n - 1])
    <3>1. n \in 0 .. N /\ n # 0
      OBVIOUS
    <3> QED
      BY <1>1, <3>1
  <2> QED
    BY <2>1, <2>2
<1> QED
  BY <1>2 DEF EachRuns

LEMMA EachIs ==
    ASSUME NEW walk, NEW bases, NEW positions, NEW before, NEW N \in Nat, N = Len(bases)
    PROVE  \E U : /\ WalkEach(walk, bases, positions, before) = U[N]
                  /\ IsEach(walk, bases, positions, before, N, U)
<1>1. PICK U : U = CHOOSE V : IsEach(walk, bases, positions, before, N, V)
  OBVIOUS
<1>2. IsEach(walk, bases, positions, before, N, U)
  BY <1>1, EachExists
<1>3. WalkEach(walk, bases, positions, before) = U[N]
  BY <1>1 DEF WalkEach, IsEach, EachStep
<1> QED
  BY <1>2, <1>3

(* A walk that may be trusted with these positions, `least` met already.     *)
Trusted(D, up, yes, go, start, walk, bases, positions, least) ==
    \A k \in positions, m \in SUBSET D :
        least \subseteq m => Follows(D, up, yes, go, start, m, {bases[k]}, walk[bases[k]][m])

BasesAt(bases, positions, n) == {bases[k] : k \in {k \in positions : k \in 1 .. n}}

LEMMA EachFollows ==
    ASSUME NEW D, NEW up, NEW yes, NEW go, NEW start, NEW walk, NEW bases, NEW positions, NEW least,
           NEW N \in Nat, NEW U, NEW before, NEW from,
           Trusted(D, up, yes, go, start, walk, bases, positions, least),
           Follows(D, up, yes, go, start, least, from, before),
           IsEach(walk, bases, positions, before, N, U)
    PROVE  Follows(D, up, yes, go, start, least, from \cup BasesAt(bases, positions, N), U[N])
<1> DEFINE So(n) == Follows(D, up, yes, go, start, least, from \cup BasesAt(bases, positions, n), U[n])
           T == {n \in 0 .. N : So(n)}
<1>0. U[0] = before /\ \A n \in 1 .. N : U[n] = EachStep(walk, bases, positions, n, U[n - 1])
  <2>1. EachRuns(walk, bases, positions, before, N, U)
    BY EachRounds
  <2> QED
    BY <2>1 DEF EachRuns
<1>1. 0 \in T
  <2>1. from \cup BasesAt(bases, positions, 0) = from
    BY DEF BasesAt
  <2>2. So(0)
    BY <1>0, <2>1
  <2> HIDE DEF So
  <2> QED
    BY <2>2
<1>2. ASSUME NEW n \in 1 .. N, n - 1 \in T PROVE n \in T
  <2>1. PICK so, more : so = U[n - 1] /\ more = from \cup BasesAt(bases, positions, n - 1)
    OBVIOUS
  <2>2. Follows(D, up, yes, go, start, least, more, so)
    BY <1>2, <2>1
  <2>3. U[n] = EachStep(walk, bases, positions, n, so)
    BY <1>0, <2>1
  <2>4. PICK now : now = from \cup BasesAt(bases, positions, n)
    OBVIOUS
  <2>5. (n \in positions => now = more \cup {bases[n]}) /\ (n \notin positions => now = more)
    <3>1. 1 .. n = (1 .. n - 1) \cup {n}
      OBVIOUS
    <3> QED
      BY <2>1, <2>4, <3>1 DEF BasesAt
  <2>6. CASE so.found # NoType
    <3>1. U[n] = so /\ more \subseteq now
      BY <2>3, <2>5, <2>6 DEF EachStep
    <3> QED
      BY <2>2, <2>4, <2>6, <3>1, FollowsMore
  <2>7. CASE n \notin positions
    <3>1. U[n] = so /\ now = more
      BY <2>3, <2>5, <2>7 DEF EachStep
    <3> QED
      BY <2>2, <2>4, <3>1
  <2>8. CASE so.found = NoType /\ n \in positions
    <3>1. so.met \in SUBSET D /\ least \subseteq so.met
      BY <2>2 DEF Follows, WalkResults
    <3>2. Follows(D, up, yes, go, start, so.met, {bases[n]}, U[n])
      BY <2>3, <2>8, <3>1 DEF EachStep, Trusted
    <3>3. PICK t, new : t = bases[n] /\ new = U[n]
      OBVIOUS
    <3>4. Follows(D, up, yes, go, start, least, more \cup {t}, new)
      BY <2>2, <2>8, <3>2, <3>3, FollowsOn
    <3> QED
      BY <2>4, <2>5, <2>8, <3>3, <3>4
  <2>9. So(n)
    BY <2>6, <2>7, <2>8
  <2> HIDE DEF So
  <2> QED
    BY <2>9
<1>3. N \in T
  <2> HIDE DEF T
  <2>1. \A n \in 0 .. N : n \in T
    BY <1>1, <1>2, HopByHop
  <2> QED
    BY <2>1
<1> QED
  BY <1>3

(* Both passes of a walk, the interfaces walked or left out.                 *)
LEMMA BasesFollow ==
    ASSUME NEW D, NEW up, NEW yes, NEW go, NEW start, NEW index, NEW walk, NEW bases,
           NEW N \in Nat, N = Len(bases), NEW positions, positions \subseteq 1 .. N,
           NEW skip \in BOOLEAN, NEW least \in SUBSET D,
           \A k \in positions : bases[k] \in go <=> ~ skip \/ index[bases[k]].kind # "interface",
           Trusted(D, up, yes, go, start, walk, bases, {k \in positions : bases[k] \in go}, least)
    PROVE  Follows(D, up, yes, go, start, least, {bases[k] : k \in positions} \cap go,
                   WalkBases(index, walk, bases, positions, skip, [found |-> NoType, met |-> least]))
<1>1. PICK classes : classes = Classes(index, bases, positions)
  OBVIOUS
<1>2. PICK before : before = [found |-> NoType, met |-> least]
  OBVIOUS
<1>3. PICK none : none = {}
  OBVIOUS
<1>4. Follows(D, up, yes, go, start, least, none, before)
  BY <1>2, <1>3 DEF Follows, WalkResults
<1>5. \A k \in positions : k \in classes <=> index[bases[k]].kind # "interface"
  BY <1>1 DEF Classes
<1>6. classes \subseteq positions
  BY <1>1 DEF Classes
<1>7. Trusted(D, up, yes, go, start, walk, bases, classes, least)
  BY <1>5, <1>6 DEF Trusted
<1>8. PICK so : so = WalkEach(walk, bases, classes, before)
  OBVIOUS
<1>9. PICK U : so = U[N] /\ IsEach(walk, bases, classes, before, N, U)
  BY <1>8, EachIs
<1>10. PICK first : first = BasesAt(bases, classes, N)
  OBVIOUS
<1>11. Follows(D, up, yes, go, start, least, none \cup first, so)
  BY <1>4, <1>7, <1>9, <1>10, EachFollows
<1>12. Follows(D, up, yes, go, start, least, first, so)
  <2>1. none \cup first = first
    BY <1>3
  <2> QED
    BY <1>11, <2>1
<1>13. PICK from : from = {bases[k] : k \in positions} \cap go
  OBVIOUS
<1>14. PICK out : out = WalkBases(index, walk, bases, positions, skip, before)
  OBVIOUS
<1>15. CASE skip
  <2>1. out = so
    BY <1>1, <1>8, <1>14, <1>15 DEF WalkBases
  <2>2. first = from
    BY <1>5, <1>6, <1>10, <1>13, <1>15 DEF BasesAt
  <2> QED
    BY <1>2, <1>12, <1>13, <1>14, <2>1, <2>2
<1>16. CASE ~ skip
  <2>1. PICK rest : rest = positions \ classes
    OBVIOUS
  <2>2. out = WalkEach(walk, bases, rest, so)
    BY <1>1, <1>8, <1>14, <1>16, <2>1 DEF WalkBases
  <2>3. PICK V : out = V[N] /\ IsEach(walk, bases, rest, so, N, V)
    BY <2>2, EachIs
  <2>4. Trusted(D, up, yes, go, start, walk, bases, rest, least)
    BY <1>16, <2>1 DEF Trusted
  <2>5. PICK more : more = BasesAt(bases, rest, N)
    OBVIOUS
  <2>6. Follows(D, up, yes, go, start, least, first \cup more, out)
    BY <1>12, <2>3, <2>4, <2>5, EachFollows
  <2>7. first \cup more = from
    BY <1>6, <1>10, <1>13, <1>16, <2>1, <2>5 DEF BasesAt
  <2> QED
    BY <1>2, <1>13, <1>14, <2>6, <2>7
<1> QED
  BY <1>15, <1>16

(* The graph of a repository's types.                                        *)
IsGraph(repo, index, skip, D, up, yes, go) ==
    /\ D = DOMAIN index /\ up = [t \in D |-> SupersOf(repo, index, t, skip)]
    /\ yes = {t \in D : index[t].declares}
    /\ go = {t \in D : ~ skip \/ index[t].kind # "interface"}

LEMMA GraphKnown ==
    ASSUME NEW repo, NEW index, IsIndex(index), NEW skip \in BOOLEAN, NEW D, NEW up, NEW yes, NEW go,
           IsGraph(repo, index, skip, D, up, yes, go)
    PROVE  /\ IsFiniteSet(D) /\ NoType \notin D /\ yes \subseteq D /\ go \subseteq D
           /\ \A t \in D : up[t] \subseteq go
           /\ \A t \in D : up[t] = {b \in RangeOf(Bases(repo, index, t)) : b # NoType /\ b \in go}
<1>1. IsFiniteSet(D) /\ NoType \notin D /\ yes \subseteq D /\ go \subseteq D
  BY DEF IsIndex, IsGraph
<1>2. ASSUME NEW t \in D
      PROVE  up[t] = {b \in RangeOf(Bases(repo, index, t)) : b # NoType /\ b \in go}
  <2>1. t \in DOMAIN index
    BY DEF IsGraph
  <2>2. PICK bases \in Seq(D \cup {NoType}) : bases = Bases(repo, index, t)
    BY <2>1, BasesKnown DEF IsGraph
  <2>3. RangeOf(bases) \subseteq D \cup {NoType}
    BY DEF RangeOf
  <2>4. up[t] = {b \in RangeOf(bases) \ {NoType} : ~ skip \/ index[b].kind # "interface"}
    BY <2>2 DEF IsGraph, SupersOf
  <2> QED
    BY <2>2, <2>3, <2>4 DEF IsGraph
<1> QED
  BY <1>1, <1>2

(* A base of a list that is not met stands somewhere first.                  *)
Listed(bases, met) ==
    {k \in DOMAIN bases : /\ bases[k] \notin met \cup {NoType}
                          /\ \A j \in 1 .. k - 1 : bases[j] # bases[k]}

LEMMA FirstListed ==
    ASSUME NEW S, NEW bases \in Seq(S), NEW met, NEW b \in RangeOf(bases), b \notin met, b # NoType
    PROVE  \E k \in Listed(bases, met) : bases[k] = b
<1>1. PICK N \in Nat : DOMAIN bases = 1 .. N
  OBVIOUS
<1>2. PICK T : T = {k \in 1 .. N : bases[k] = b}
  OBVIOUS
<1>3. T \in SUBSET Nat /\ T # {}
  BY <1>1, <1>2 DEF RangeOf
<1>4. PICK n \in T : \A m \in T : n <= m
  BY <1>3, FirstOf
<1>5. n \in 1 .. N /\ bases[n] = b
  BY <1>2, <1>4
<1>6. \A j \in 1 .. n - 1 : bases[j] # bases[n]
  BY <1>2, <1>4, <1>5
<1>7. n \in Listed(bases, met)
  BY <1>1, <1>5, <1>6 DEF Listed
<1> QED
  BY <1>5, <1>7

(* One type of the walk, the types walked from it trusted.                   *)
LEMMA StepFollows ==
    ASSUME NEW repo, NEW index, IsIndex(index), NEW skip \in BOOLEAN, NEW D, NEW up, NEW yes, NEW go,
           IsGraph(repo, index, skip, D, up, yes, go), NEW walk, NEW left \in Nat,
           NEW start, NEW t \in D, NEW met \in SUBSET D, start \in met,
           left = 0 => met = D,
           left # 0 => \A b \in D \ met, m \in SUBSET D :
                          met \cup {b} \subseteq m => Follows(D, up, yes, go, start, m, {b}, walk[b][m])
    PROVE  Follows(D, up, yes, go, start, met, {t},
                   BaseStep(index, walk, left, skip, t, Bases(repo, index, t), met))
<1>1. /\ IsFiniteSet(D) /\ NoType \notin D /\ yes \subseteq D /\ go \subseteq D
      /\ \A u \in D : up[u] \subseteq go
      /\ up[t] = {b \in RangeOf(Bases(repo, index, t)) : b # NoType /\ b \in go}
  BY GraphKnown
<1>2. D = DOMAIN index /\ (t \in yes <=> index[t].declares)
  BY DEF IsGraph
<1>3. PICK bases \in Seq(D \cup {NoType}) : bases = Bases(repo, index, t)
  BY <1>2, BasesKnown
<1>4. PICK listed : listed = Listed(bases, met)
  OBVIOUS
<1>5. PICK marked : marked = {bases[k] : k \in listed}
  OBVIOUS
<1>6. marked \subseteq D \ met /\ listed \subseteq DOMAIN bases
  BY <1>3, <1>4, <1>5 DEF Listed
<1>7. PICK least \in SUBSET D : least = met \cup marked
  BY <1>6
<1>8. up[t] \subseteq least
  <2>1. ASSUME NEW b \in RangeOf(bases), b # NoType PROVE b \in least
    <3>1. CASE b \in met
      BY <1>7, <3>1
    <3>2. CASE b \notin met
      <4>1. PICK k \in listed : bases[k] = b
        BY <1>4, <2>1, <3>2, FirstListed
      <4> QED
        BY <1>5, <1>7, <4>1
    <3> QED
      BY <3>1, <3>2
  <2> QED
    BY <1>1, <1>3, <2>1
<1>9. PICK before : before = [found |-> NoType, met |-> least]
  OBVIOUS
<1>10. PICK out : out = BaseStep(index, walk, left, skip, t, Bases(repo, index, t), met)
          /\ out = IF t \in yes THEN [found |-> t, met |-> met]
                   ELSE IF left = 0 THEN [found |-> NoType, met |-> met]
                   ELSE WalkBases(index, walk, bases, listed, skip, before)
  BY <1>2, <1>3, <1>4, <1>5, <1>7, <1>9 DEF BaseStep, Listed
<1>11. CASE t \in yes
  <2>1. out = [found |-> t, met |-> met]
    BY <1>10, <1>11
  <2> QED
    BY <1>1, <1>10, <1>11, <2>1 DEF Follows, WalkResults
<1>12. CASE t \notin yes /\ left = 0
  <2>1. out = [found |-> NoType, met |-> D]
    BY <1>10, <1>12
  <2>2. up[t] \subseteq D
    BY <1>1
  <2> QED
    BY <1>10, <1>12, <2>1, <2>2 DEF Follows, WalkResults, Done
<1>13. CASE t \notin yes /\ left # 0
  <2>1. out = WalkBases(index, walk, bases, listed, skip, before)
    BY <1>10, <1>13
  <2>2. PICK N \in Nat : N = Len(bases) /\ DOMAIN bases = 1 .. N
    OBVIOUS
  <2>3. \A k \in listed : bases[k] \in go <=> ~ skip \/ index[bases[k]].kind # "interface"
    BY <1>5, <1>6 DEF IsGraph
  <2>4. PICK walked : walked = {k \in listed : bases[k] \in go}
    OBVIOUS
  <2>5. Trusted(D, up, yes, go, start, walk, bases, walked, least)
    <3>1. ASSUME NEW k \in walked, NEW m \in SUBSET D, least \subseteq m
          PROVE  Follows(D, up, yes, go, start, m, {bases[k]}, walk[bases[k]][m])
      <4>1. PICK b : b = bases[k]
        OBVIOUS
      <4>2. b \in D \ met /\ met \cup {b} \subseteq m
        BY <1>5, <1>6, <1>7, <2>4, <3>1, <4>1
      <4>3. Follows(D, up, yes, go, start, m, {b}, walk[b][m])
        BY <1>13, <4>2
      <4> QED
        BY <4>1, <4>3
    <3> QED
      BY <3>1 DEF Trusted
  <2>6. PICK from : from = {bases[k] : k \in listed} \cap go
    OBVIOUS
  <2>7. Follows(D, up, yes, go, start, least, from, out)
    BY <1>6, <1>9, <2>1, <2>2, <2>3, <2>4, <2>5, <2>6, BasesFollow
  <2>8. from = marked \cap go
    BY <1>5, <2>6
  <2>9. out \in WalkResults(D) /\ least \subseteq out.met /\ met \subseteq out.met
    BY <1>7, <2>7 DEF Follows
  <2>10. ASSUME out.found = NoType, NEW u \in {t} \cup ((out.met \ met) \cap go)
         PROVE  Done(up, yes, u, out.met)
    <3>1. CASE u = t
      BY <1>8, <1>13, <2>9, <3>1 DEF Done
    <3>2. CASE u \in (out.met \ met) \cap go
      <4>1. u \in from \cup ((out.met \ least) \cap go)
        BY <1>7, <2>8, <3>2
      <4> QED
        BY <2>7, <2>10, <4>1 DEF Follows
    <3> QED
      BY <2>10, <3>1, <3>2
  <2>11. ASSUME out.found # NoType
         PROVE  /\ out.found \in yes
                /\ \A S \in SUBSET D : {t} \subseteq S /\ Within(up, start, S) => out.found \in S
    <3>1. ASSUME NEW S \in SUBSET D, t \in S, Within(up, start, S) PROVE from \subseteq S
      <4>1. \A b \in marked \cap go : b \in up[t] /\ b # start
        <5>1. marked \subseteq RangeOf(bases) /\ NoType \notin marked
          BY <1>1, <1>5, <1>6 DEF RangeOf
        <5> QED
          BY <1>1, <1>3, <1>6, <5>1
      <4> QED
        BY <2>8, <3>1, <4>1 DEF Within
    <3> QED
      BY <2>7, <2>11, <3>1 DEF Follows
  <2> QED
    BY <1>10, <2>9, <2>10, <2>11 DEF Follows
<1> QED
  BY <1>10, <1>11, <1>12, <1>13

(* The rounds of the walk: a round is the walk with one type more to list.   *)
Round(repo, index, skip, n, walk) ==
    [t \in DOMAIN index |-> [m \in SUBSET DOMAIN index |->
        BaseStep(index, walk, n, skip, t, Bases(repo, index, t), m)]]
IsBaseWalk(repo, index, skip, N, U) ==
    U = [n \in 0 .. N |-> IF n = 0 THEN Round(repo, index, skip, 0, NoType)
                          ELSE Round(repo, index, skip, n, U[n - 1])]
IsRounds(repo, index, skip, N, U) ==
    U = [n \in 0 .. N |-> Round(repo, index, skip, n, U[n - 1])]

LEMMA BaseWalkExists ==
    ASSUME NEW repo, NEW index, NEW skip, NEW N \in Nat
    PROVE  \E U : IsBaseWalk(repo, index, skip, N, U)
<1> DEFINE Start == Round(repo, index, skip, 0, NoType)
           Further(n, so) == Round(repo, index, skip, n, so)
           T == {n \in 0 .. N : \E U : IsBaseWalk(repo, index, skip, n, U)}
<1>1. 0 \in T
  <2>1. PICK U : U = [n \in 0 .. 0 |-> Start]
    OBVIOUS
  <2>2. IsBaseWalk(repo, index, skip, 0, U)
    BY <2>1 DEF IsBaseWalk
  <2> QED
    BY <2>2
<1>2. ASSUME NEW n \in 1 .. N, n - 1 \in T PROVE n \in T
  <2>1. PICK V : IsBaseWalk(repo, index, skip, n - 1, V)
    BY <1>2
  <2>2. V = [k \in 0 .. n - 1 |-> IF k = 0 THEN Start ELSE Further(k, V[k - 1])]
    BY <2>1 DEF IsBaseWalk
  <2>3. PICK U : U = [k \in 0 .. n |-> IF k = n THEN Further(n, V[n - 1]) ELSE V[k]]
    OBVIOUS
  <2>4. U = [k \in 0 .. n |-> IF k = 0 THEN Start ELSE Further(k, U[k - 1])]
    <3> HIDE DEF Start, Further
    <3>1. ASSUME NEW k \in 0 .. n PROVE U[k] = IF k = 0 THEN Start ELSE Further(k, U[k - 1])
      <4>1. CASE k = n
        <5>1. k # 0 /\ U[k] = Further(n, V[n - 1]) /\ U[k - 1] = V[n - 1]
          BY <2>3, <4>1
        <5> QED
          BY <4>1, <5>1
      <4>2. CASE k # n
        <5>1. k \in 0 .. n - 1 /\ U[k] = V[k] /\ (k # 0 => U[k - 1] = V[k - 1])
          BY <2>3, <4>2
        <5>2. V[k] = IF k = 0 THEN Start ELSE Further(k, V[k - 1])
          BY <2>2, <5>1
        <5> QED
          BY <5>1, <5>2
      <4> QED
        BY <4>1, <4>2
    <3> QED
      BY <2>3, <3>1
  <2>5. IsBaseWalk(repo, index, skip, n, U)
    BY <2>4 DEF IsBaseWalk
  <2> QED
    BY <2>5
<1>3. N \in T
  <2> HIDE DEF T
  <2>1. \A n \in 0 .. N : n \in T
    BY <1>1, <1>2, HopByHop
  <2> QED
    BY <2>1
<1> QED
  BY <1>3

(* The last round asks no other.                                             *)
LEMMA LastRound ==
    ASSUME NEW repo, NEW index, NEW skip, NEW v, NEW w
    PROVE  Round(repo, index, skip, 0, v) = Round(repo, index, skip, 0, w)
<1>1. ASSUME NEW t, NEW m
      PROVE  BaseStep(index, v, 0, skip, t, Bases(repo, index, t), m)
             = BaseStep(index, w, 0, skip, t, Bases(repo, index, t), m)
  BY DEF BaseStep
<1> QED
  BY <1>1 DEF Round

LEMMA RoundsExist ==
    ASSUME NEW repo, NEW index, NEW skip, NEW N \in Nat
    PROVE  \E U : IsRounds(repo, index, skip, N, U)
<1>1. PICK U : IsBaseWalk(repo, index, skip, N, U)
  BY BaseWalkExists
<1> DEFINE Further(n, so) == Round(repo, index, skip, n, so)
<1>2. U = [n \in 0 .. N |-> IF n = 0 THEN Further(0, NoType) ELSE Further(n, U[n - 1])]
  BY <1>1 DEF IsBaseWalk
<1>3. Further(0, NoType) = Further(0, U[0 - 1])
  BY LastRound
<1>4. U = [n \in 0 .. N |-> Further(n, U[n - 1])]
  <2> HIDE DEF Further
  <2>1. ASSUME NEW n \in 0 .. N PROVE U[n] = Further(n, U[n - 1])
    <3>1. CASE n = 0
      BY <1>2, <1>3, <3>1
    <3>2. CASE n # 0
      BY <1>2, <3>2
    <3> QED
      BY <3>1, <3>2
  <2> QED
    BY <1>2, <2>1
<1> QED
  BY <1>4 DEF IsRounds

(* With one more type met, room for n of those not met.                      *)
RoomFor(D, met, n) ==
    \A b \in D \ met, m \in SUBSET D : met \cup {b} \subseteq m => Cardinality(D \ m) <= n

LEMMA RoomLeft ==
    ASSUME NEW D, IsFiniteSet(D), NEW met \in SUBSET D, NEW n \in Nat, Cardinality(D \ met) <= n
    PROVE  (n = 0 => met = D) /\ RoomFor(D, met, n - 1)
<1>1. PICK left : left = D \ met
  OBVIOUS
<1>2. IsFiniteSet(left) /\ Cardinality(left) \in Nat /\ Cardinality(left) <= n
  BY <1>1, FS_Subset, FS_CardinalityType
<1>3. n = 0 => left = {}
  BY <1>2, FS_EmptySet
<1>4. ASSUME NEW b \in left, NEW m \in SUBSET D, met \cup {b} \subseteq m
      PROVE  Cardinality(D \ m) <= n - 1
  <2>1. PICK rest : rest = left \ {b}
    OBVIOUS
  <2>2. IsFiniteSet(rest) /\ Cardinality(rest) = Cardinality(left) - 1
    BY <1>2, <2>1, FS_RemoveElement
  <2>3. D \ m \subseteq rest
    BY <1>1, <1>4, <2>1
  <2>4. Cardinality(D \ m) <= Cardinality(rest) /\ Cardinality(D \ m) \in Nat
    BY <2>2, <2>3, FS_Subset, FS_CardinalityType
  <2> QED
    BY <1>2, <2>2, <2>4
<1> QED
  BY <1>1, <1>3, <1>4 DEF RoomFor

(* declares_in_base_closure: the walk with room for every type not met.      *)
LEMMA RoundsFollow ==
    ASSUME NEW repo, NEW index, IsIndex(index), NEW skip \in BOOLEAN, NEW D, NEW up, NEW yes, NEW go,
           IsGraph(repo, index, skip, D, up, yes, go), NEW start, NEW N \in Nat, NEW U,
           IsRounds(repo, index, skip, N, U), NEW t \in D, NEW met \in SUBSET D, start \in met,
           Cardinality(D \ met) <= N
    PROVE  Follows(D, up, yes, go, start, met, {t}, U[N][t][met])
<1>1. D = DOMAIN index /\ IsFiniteSet(D)
  BY DEF IsGraph, IsIndex
<1>2. \A n \in 0 .. N : U[n] = Round(repo, index, skip, n, U[n - 1])
  BY DEF IsRounds
<1> DEFINE So(n) == \A b \in D, m \in SUBSET D : start \in m /\ Cardinality(D \ m) <= n =>
                      Follows(D, up, yes, go, start, m, {b}, U[n][b][m])
           T == {n \in 0 .. N : So(n)}
<1>3. ASSUME NEW n \in 0 .. N, n # 0 => So(n - 1) PROVE So(n)
  <2>1. SUFFICES ASSUME NEW b \in D, NEW m \in SUBSET D, start \in m, Cardinality(D \ m) <= n
                 PROVE  Follows(D, up, yes, go, start, m, {b}, U[n][b][m])
    OBVIOUS
  <2>2. PICK walk : walk = U[n - 1]
    OBVIOUS
  <2>3. U[n][b][m] = BaseStep(index, walk, n, skip, b, Bases(repo, index, b), m)
    <3>1. PICK round : round = U[n] /\ round = Round(repo, index, skip, n, walk)
      BY <1>2, <2>2
    <3>2. round[b] = [w \in SUBSET DOMAIN index |->
                        BaseStep(index, walk, n, skip, b, Bases(repo, index, b), w)]
      BY <1>1, <3>1 DEF Round
    <3>3. round[b][m] = BaseStep(index, walk, n, skip, b, Bases(repo, index, b), m)
      BY <1>1, <3>2
    <3> QED
      BY <3>1, <3>3
  <2>4. (n = 0 => m = D) /\ RoomFor(D, m, n - 1)
    <3>1. PICK left \in Nat : left = n
      OBVIOUS
    <3>2. (left = 0 => m = D) /\ RoomFor(D, m, left - 1)
      BY <1>1, <2>1, <3>1, RoomLeft
    <3> QED
      BY <3>1, <3>2
  <2>5. n # 0 => \A c \in D \ m, more \in SUBSET D :
            m \cup {c} \subseteq more => Follows(D, up, yes, go, start, more, {c}, walk[c][more])
    BY <1>3, <2>1, <2>2, <2>4 DEF RoomFor
  <2>6. n \in Nat
    OBVIOUS
  <2>7. Follows(D, up, yes, go, start, m, {b}, BaseStep(index, walk, n, skip, b, Bases(repo, index, b), m))
    BY <2>1, <2>4, <2>5, <2>6, StepFollows
  <2> QED
    BY <2>3, <2>7
<1>4. 0 \in T
  <2> HIDE DEF So
  <2>1. So(0)
    BY <1>3
  <2> QED
    BY <2>1
<1>5. ASSUME NEW n \in 1 .. N, n - 1 \in T PROVE n \in T
  <2>1. So(n - 1)
    BY <1>5
  <2> HIDE DEF So
  <2>2. So(n)
    BY <1>3, <2>1
  <2> QED
    BY <2>2
<1>6. N \in T
  <2> HIDE DEF T
  <2>1. \A n \in 0 .. N : n \in T
    BY <1>4, <1>5, HopByHop
  <2> QED
    BY <2>1
<1> QED
  BY <1>6

LEMMA BranchFollows ==
    ASSUME NEW repo, NEW index, IsIndex(index), NEW skip \in BOOLEAN, NEW D, NEW up, NEW yes, NEW go,
           IsGraph(repo, index, skip, D, up, yes, go), NEW start \in D, NEW b \in D
    PROVE  Follows(D, up, yes, go, start, {start, b}, {b}, Branch(repo, index, skip, start, b))
<1>1. D = DOMAIN index /\ IsFiniteSet(D)
  BY DEF IsGraph, IsIndex
<1>2. PICK N \in Nat : N = Cardinality(DOMAIN index)
  BY <1>1, FS_CardinalityType
<1>3. PICK U : U = CHOOSE V : IsRounds(repo, index, skip, N, V)
  OBVIOUS
<1>4. IsRounds(repo, index, skip, N, U)
  BY <1>3, RoundsExist
<1>5. PICK met \in SUBSET D : met = {start, b}
  OBVIOUS
<1>6. Branch(repo, index, skip, start, b) = U[N][b][met]
  BY <1>2, <1>3, <1>5 DEF Branch, BaseDeclaring, IsRounds, Round
<1>7. Cardinality(D \ met) <= N
  BY <1>1, <1>2, FS_Subset
<1>8. Follows(D, up, yes, go, start, met, {b}, U[N][b][met])
  BY <1>4, <1>5, <1>7, RoundsFollow
<1> QED
  BY <1>5, <1>6, <1>8

(* first_base_declaring: the answers of the branches, the first one wins.    *)
Answered(out, from, so) ==
    /\ so.met = {}
    /\ so.found = NoType => \A b \in from : out[b] = NoType
    /\ so.found # NoType => \E b \in from : so.found = out[b]

Branches(out, walk, bases, positions) ==
    \A k \in positions : walk[bases[k]][{}] = [found |-> out[bases[k]], met |-> {}]

LEMMA EachAnswered ==
    ASSUME NEW out, NEW walk, NEW bases, NEW positions, NEW N \in Nat, NEW U, NEW before, NEW from,
           Branches(out, walk, bases, positions), Answered(out, from, before),
           IsEach(walk, bases, positions, before, N, U)
    PROVE  Answered(out, from \cup BasesAt(bases, positions, N), U[N])
<1>1. U[0] = before /\ \A n \in 1 .. N : U[n] = EachStep(walk, bases, positions, n, U[n - 1])
  <2>1. EachRuns(walk, bases, positions, before, N, U)
    BY EachRounds
  <2> QED
    BY <2>1 DEF EachRuns
<1> DEFINE So(n) == Answered(out, from \cup BasesAt(bases, positions, n), U[n])
           T == {n \in 0 .. N : So(n)}
<1>2. 0 \in T
  <2>1. from \cup BasesAt(bases, positions, 0) = from
    BY DEF BasesAt
  <2>2. So(0)
    BY <1>1, <2>1
  <2> HIDE DEF So
  <2> QED
    BY <2>2
<1>3. ASSUME NEW n \in 1 .. N, n - 1 \in T PROVE n \in T
  <2>1. PICK so, more : so = U[n - 1] /\ more = from \cup BasesAt(bases, positions, n - 1)
    OBVIOUS
  <2>2. Answered(out, more, so)
    BY <1>3, <2>1
  <2>3. U[n] = EachStep(walk, bases, positions, n, so)
    BY <1>1, <2>1
  <2>4. PICK now : now = from \cup BasesAt(bases, positions, n)
    OBVIOUS
  <2>5. (n \in positions => now = more \cup {bases[n]}) /\ (n \notin positions => now = more)
    <3>1. 1 .. n = (1 .. n - 1) \cup {n}
      OBVIOUS
    <3> QED
      BY <2>1, <2>4, <3>1 DEF BasesAt
  <2>6. CASE so.found # NoType
    <3>1. U[n] = so /\ more \subseteq now
      BY <2>3, <2>5, <2>6 DEF EachStep
    <3> QED
      BY <2>2, <2>4, <2>6, <3>1 DEF Answered
  <2>7. CASE n \notin positions
    <3>1. U[n] = so /\ now = more
      BY <2>3, <2>5, <2>7 DEF EachStep
    <3> QED
      BY <2>2, <2>4, <3>1
  <2>8. CASE so.found = NoType /\ n \in positions
    <3>1. PICK b, new : b = bases[n] /\ new = U[n]
      OBVIOUS
    <3>2. so.met = {}
      BY <2>2 DEF Answered
    <3>3. new = walk[b][{}]
      BY <2>3, <2>8, <3>1, <3>2 DEF EachStep
    <3>4. new = [found |-> out[b], met |-> {}]
      BY <2>8, <3>1, <3>3 DEF Branches
    <3>5. \A c \in more : out[c] = NoType
      BY <2>2, <2>8 DEF Answered
    <3>6. now = more \cup {b}
      BY <2>5, <2>8, <3>1
    <3>7. Answered(out, now, new)
      BY <3>4, <3>5, <3>6 DEF Answered
    <3> QED
      BY <2>4, <3>1, <3>7
  <2>9. So(n)
    BY <2>6, <2>7, <2>8
  <2> HIDE DEF So
  <2> QED
    BY <2>9
<1>4. N \in T
  <2> HIDE DEF T
  <2>1. \A n \in 0 .. N : n \in T
    BY <1>2, <1>3, HopByHop
  <2> QED
    BY <2>1
<1> QED
  BY <1>4

AnswersFirst(found, out, from) ==
    /\ found = NoType => \A b \in from : out[b] = NoType
    /\ found # NoType => \E b \in from : found = out[b]

LEMMA FirstAnswered ==
    ASSUME NEW repo, NEW index, IsIndex(index), NEW skip \in BOOLEAN, NEW D, NEW up, NEW yes, NEW go,
           IsGraph(repo, index, skip, D, up, yes, go), NEW start \in D,
           NEW out, out = [b \in D |-> Branch(repo, index, skip, start, b).found]
    PROVE  AnswersFirst(FirstBaseDeclaring(repo, index, start, skip), out, up[start])
<1>1. /\ IsFiniteSet(D) /\ NoType \notin D /\ yes \subseteq D /\ go \subseteq D
      /\ \A u \in D : up[u] \subseteq go
      /\ up[start] = {b \in RangeOf(Bases(repo, index, start)) : b # NoType /\ b \in go}
  BY GraphKnown
<1>2. PICK bases \in Seq(D \cup {NoType}) : bases = Bases(repo, index, start)
  BY BasesKnown DEF IsGraph
<1>3. PICK N \in Nat : N = Len(bases) /\ DOMAIN bases = 1 .. N
  OBVIOUS
<1>4. RangeOf(bases) \subseteq D \cup {NoType}
  BY DEF RangeOf
<1>5. PICK walk : walk = [b \in RangeOf(bases) \ {NoType} |-> [met \in {{}} |->
                            [found |-> Branch(repo, index, skip, start, b).found, met |-> {}]]]
  OBVIOUS
<1>6. PICK positions : positions = {k \in DOMAIN bases : bases[k] # NoType}
  OBVIOUS
<1>7. PICK before : before = [found |-> NoType, met |-> {}]
  OBVIOUS
<1>8. PICK all : all = WalkBases(index, walk, bases, positions, skip, before)
  OBVIOUS
<1>9. FirstBaseDeclaring(repo, index, start, skip) = all.found
  BY <1>2, <1>5, <1>6, <1>7, <1>8 DEF FirstBaseDeclaring
<1>10. ASSUME NEW k \in positions
       PROVE  walk[bases[k]][{}] = [found |-> out[bases[k]], met |-> {}]
  <2>1. PICK b \in D : b = bases[k] /\ b \in RangeOf(bases) \ {NoType}
    BY <1>4, <1>6 DEF RangeOf
  <2>2. walk[b] = [met \in {{}} |-> [found |-> Branch(repo, index, skip, start, b).found, met |-> {}]]
    BY <1>5, <2>1
  <2>3. walk[b][{}] = [found |-> out[b], met |-> {}]
    BY <2>2
  <2> QED
    BY <2>1, <2>3
<1>11. PICK classes : classes = Classes(index, bases, positions)
  OBVIOUS
<1>12. classes \subseteq positions
       /\ \A k \in positions : k \in classes <=> index[bases[k]].kind # "interface"
  BY <1>11 DEF Classes
<1>13. \A k \in positions : bases[k] \in D
  BY <1>4, <1>6 DEF RangeOf
<1>14. \A k \in positions : bases[k] \in go <=> ~ skip \/ k \in classes
  BY <1>12, <1>13 DEF IsGraph
<1>15. up[start] = {bases[k] : k \in {k \in positions : bases[k] \in go}}
  BY <1>1, <1>2, <1>6 DEF RangeOf
<1>16. PICK none : none = {}
  OBVIOUS
<1>17. Answered(out, none, before)
  BY <1>7, <1>16 DEF Answered
<1>18. PICK so : so = WalkEach(walk, bases, classes, before)
  OBVIOUS
<1>19. PICK U : so = U[N] /\ IsEach(walk, bases, classes, before, N, U)
  BY <1>3, <1>18, EachIs
<1>20. PICK first : first = BasesAt(bases, classes, N)
  OBVIOUS
<1>21. Branches(out, walk, bases, classes)
  BY <1>10, <1>12 DEF Branches
<1>22. Answered(out, none \cup first, so)
  BY <1>17, <1>19, <1>20, <1>21, EachAnswered
<1>23. none \cup first = first
  BY <1>16
<1>24. Answered(out, up[start], all)
  <2>1. CASE skip
    <3>1. all = so
      BY <1>8, <1>11, <1>18, <2>1 DEF WalkBases
    <3>2. first = up[start]
      BY <1>3, <1>6, <1>12, <1>14, <1>15, <1>20, <2>1 DEF BasesAt
    <3> QED
      BY <1>22, <1>23, <3>1, <3>2
  <2>2. CASE ~ skip
    <3>1. PICK rest : rest = positions \ classes
      OBVIOUS
    <3>2. all = WalkEach(walk, bases, rest, so)
      BY <1>8, <1>11, <1>18, <2>2, <3>1 DEF WalkBases
    <3>3. PICK V : all = V[N] /\ IsEach(walk, bases, rest, so, N, V)
      BY <1>3, <3>2, EachIs
    <3>4. Branches(out, walk, bases, rest)
      BY <1>10, <3>1 DEF Branches
    <3>5. PICK more : more = BasesAt(bases, rest, N)
      OBVIOUS
    <3>6. Answered(out, first \cup more, all)
      BY <1>22, <1>23, <3>3, <3>4, <3>5, EachAnswered
    <3>7. first \cup more = up[start]
      BY <1>3, <1>6, <1>12, <1>14, <1>15, <1>20, <2>2, <3>1, <3>5 DEF BasesAt
    <3> QED
      BY <3>6, <3>7
  <2> QED
    BY <2>1, <2>2
<1> QED
  BY <1>9, <1>24 DEF Answered, AnswersFirst

(* members.rs: a member read through the bases of a type is found exactly    *)
(* where one of them declares it.                                            *)
LEMMA BasesAnswers ==
    ASSUME NEW repo, NEW index, IsIndex(index), NEW skip \in BOOLEAN, NEW start \in DOMAIN index
    PROVE  BasesAnswer(repo, index, start, skip)
<1>1. PICK D, up, yes, go : IsGraph(repo, index, skip, D, up, yes, go)
  BY DEF IsGraph
<1>2. D = DOMAIN index /\ start \in D /\ (\A t \in D : t \in yes <=> index[t].declares)
      /\ \A t \in D : up[t] = SupersOf(repo, index, t, skip)
  BY <1>1 DEF IsGraph
<1>3. /\ NoType \notin D /\ yes \subseteq D /\ go \subseteq D
      /\ \A t \in D : up[t] \subseteq go
  BY <1>1, GraphKnown
<1>4. PICK out : out = [b \in D |-> Branch(repo, index, skip, start, b).found]
  OBVIOUS
<1>5. PICK found, supers : /\ found = FirstBaseDeclaring(repo, index, start, skip)
                           /\ supers = Supers(repo, index, start, skip)
  OBVIOUS
<1>6. /\ found = NoType => \A b \in up[start] : out[b] = NoType
      /\ found # NoType => \E b \in up[start] : found = out[b]
  <2>1. AnswersFirst(FirstBaseDeclaring(repo, index, start, skip), out, up[start])
    BY <1>1, <1>2, <1>4, FirstAnswered
  <2> QED
    BY <1>5, <2>1 DEF AnswersFirst
<1>7. supers = {t \in D : \A S \in SUBSET D :
                   (\A m \in S \cup {start} : up[m] \ {start} \subseteq S) => t \in S}
  <2>1. supers = {t \in DOMAIN index : \A S \in SUBSET DOMAIN index :
          (\A m \in S \cup {start} : SupersOf(repo, index, m, skip) \ {start} \subseteq S) => t \in S}
    BY <1>5 DEF Supers
  <2>2. ASSUME NEW S \in SUBSET D
        PROVE  (\A m \in S \cup {start} : up[m] \ {start} \subseteq S) <=>
               (\A m \in S \cup {start} : SupersOf(repo, index, m, skip) \ {start} \subseteq S)
    BY <1>2
  <2> QED
    BY <1>2, <2>1, <2>2
<1>8. ASSUME start \notin up[start]
      PROVE  IF \E t \in supers : index[t].declares THEN found \in supers /\ index[found].declares
             ELSE found = NoType
  <2>1. CASE found # NoType
    <3>1. PICK b \in up[start] : found = out[b]
      BY <1>6, <2>1
    <3>2. b \in D /\ b # start
      BY <1>2, <1>3, <1>8, <3>1
    <3>3. PICK so : so = Branch(repo, index, skip, start, b) /\ found = so.found
      BY <1>4, <3>1, <3>2
    <3>4. Follows(D, up, yes, go, start, {start, b}, {b}, so)
      BY <1>1, <1>2, <3>2, <3>3, BranchFollows
    <3>5. found \in yes
      BY <2>1, <3>3, <3>4 DEF Follows
    <3>6. ASSUME NEW S \in SUBSET D, \A m \in S \cup {start} : up[m] \ {start} \subseteq S
          PROVE  found \in S
      <4>1. {b} \subseteq S /\ Within(up, start, S)
        BY <3>1, <3>2, <3>6 DEF Within
      <4> QED
        BY <2>1, <3>3, <3>4, <4>1 DEF Follows
    <3>7. found \in supers
      BY <1>3, <1>7, <3>5, <3>6
    <3>8. index[found].declares
      BY <1>2, <1>3, <3>5
    <3> QED
      BY <3>7, <3>8
  <2>2. CASE found = NoType
    <3>1. PICK met : met = [b \in D |-> Branch(repo, index, skip, start, b).met]
      OBVIOUS
    <3>2. ASSUME NEW b \in up[start]
          PROVE  /\ b \in D /\ b # start /\ {start, b} \subseteq met[b] /\ met[b] \subseteq D
                 /\ \A t \in {b} \cup ((met[b] \ {start, b}) \cap go) : t \notin yes /\ up[t] \subseteq met[b]
      <4>1. b \in D /\ b # start
        BY <1>2, <1>3, <1>8, <3>2
      <4>2. PICK so : so = Branch(repo, index, skip, start, b)
        OBVIOUS
      <4>3. so.found = NoType /\ so.met = met[b]
        BY <1>4, <1>6, <2>2, <3>1, <3>2, <4>1, <4>2
      <4>4. Follows(D, up, yes, go, start, {start, b}, {b}, so)
        BY <1>1, <1>2, <4>1, <4>2, BranchFollows
      <4>5. so \in WalkResults(D) /\ {start, b} \subseteq so.met
        BY <4>4 DEF Follows
      <4>6. \A t \in {b} \cup ((so.met \ {start, b}) \cap go) : t \notin yes /\ up[t] \subseteq so.met
        BY <4>3, <4>4 DEF Follows, Done
      <4> QED
        BY <4>1, <4>3, <4>5, <4>6 DEF WalkResults
    <3>3. PICK S : S = {t \in go \ {start} : \E b \in up[start] : t \in met[b]}
      OBVIOUS
    <3>4. S \in SUBSET D
      BY <1>3, <3>3
    <3>5. ASSUME NEW t \in S PROVE t \notin yes /\ up[t] \ {start} \subseteq S
      <4>1. PICK b \in up[start] : t \in met[b] /\ t \in go /\ t # start
        BY <3>3, <3>5
      <4>2. t \notin yes /\ up[t] \subseteq met[b]
        BY <3>2, <4>1
      <4>3. t \in D /\ up[t] \subseteq go
        BY <1>3, <3>4, <3>5
      <4> QED
        BY <3>3, <4>1, <4>2, <4>3
    <3>6. up[start] \ {start} \subseteq S
      BY <1>2, <1>3, <3>2, <3>3
    <3>7. supers \subseteq S
      BY <1>7, <3>4, <3>5, <3>6
    <3>8. \A t \in supers : ~ index[t].declares
      BY <1>2, <3>4, <3>5, <3>7
    <3> QED
      BY <2>2, <3>8
  <2> QED
    BY <2>1, <2>2
<1>9. up[start] = SupersOf(repo, index, start, skip)
  BY <1>2
<1>10. PICK declaring : declaring = {t \in supers : index[t].declares}
  OBVIOUS
<1>11. start \notin up[start] => found \in IF declaring = {} THEN {NoType} ELSE declaring
  BY <1>8, <1>10
<1>12. start \notin SupersOf(repo, index, start, skip) =>
        FirstBaseDeclaring(repo, index, start, skip) \in IF declaring = {} THEN {NoType} ELSE declaring
  BY <1>5, <1>9, <1>11
<1> QED
  BY <1>5, <1>10, <1>12 DEF BasesAnswer

(* A type of a project the site does not reference shadows no type of one it *)
(* does, for any repository, references and site.                            *)
THEOREM OutOfReachShadowsNothingHolds ==
    ASSUME QuestionOK
    PROVE  OutOfReachShadowsNothing
BY ScopeAnswers DEF QuestionOK, OutOfReachShadowsNothing

(* The walk over the bases of a type finds a declaration of the member       *)
(* exactly where a type it inherits from holds one, whatever cycles the      *)
(* bases make, and never the type itself, for any repository.                *)
THEOREM BasesAnswerForMembersHolds ==
    ASSUME QuestionOK
    PROVE  BasesAnswerForMembers
<1>1. ASSUME About("bases"), NEW index, index = DefIndex(question.repo),
             NEW start \in DOMAIN index, NEW skip \in BOOLEAN
      PROVE  BasesAnswer(question.repo, index, start, skip)
  <2>1. IsIndex(index)
    BY <1>1, IndexIsIndex DEF QuestionOK
  <2> QED
    BY <1>1, <2>1, BasesAnswers
<1> QED
  BY <1>1 DEF BasesAnswerForMembers
=============================================================================
