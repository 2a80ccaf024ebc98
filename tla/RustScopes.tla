----------------------------- MODULE RustScopes -----------------------------
(* What each Rust `use` binds (rsgraph/scope.rs, rsgraph/bind.rs): the       *)
(* imports of all modules of a package resolve against each other, through   *)
(* globs and re-exports, by a worklist that resolves a leaf again when a     *)
(* module it consulted changed.  The glob cache is cleared at every change,  *)
(* so a hit answers what a look-up would: it is left out.                    *)
EXTENDS Naturals, Sequences, FiniteSets, SequencesExt

(* A package is [nodes, leaves, blocks].  A node is a module: [parent, root, *)
(* items, opaque, lib], its items [name, space, to] in the file's order, lib *)
(* the library its root reaches by name, [name, to].  A leaf is one `use`:   *)
(* [module, block, path, name], "*" a glob.  blocks[b] is the block around   *)
(* b.  What a name denotes is a module or a def: [is, at].                   *)
Nowhere == 0
Module(m) == [is |-> "module", at |-> m]
Spaces == {"type", "value"}
Unbound == [type |-> <<>>, value |-> <<>>]

Globs(leaf) == leaf.name = "*"

Extend(out, more) == out \o SelectSeq(more, LAMBDA t : t \notin ToSet(out))
Joined(lists) == FoldLeft(Extend, <<>>, lists)

(* The leaves, in order, of a module or of a block.                          *)
LeavesOf(pkg, module, block) ==
    SelectSeq([l \in DOMAIN pkg.leaves |-> l],
              LAMBDA l : /\ pkg.leaves[l].block = block
                         /\ block # Nowhere \/ pkg.leaves[l].module = module)
Named(pkg, leaves, name) == SelectSeq(leaves, LAMBDA l : pkg.leaves[l].name = name)

-----------------------------------------------------------------------------
(* Look-ups, over what the leaves bind so far.  Each answers [kind, found,   *)
(* probe]: "found" its targets, "shadowed" for a name that is taken but not  *)
(* known, "empty" to look further; probe is the modules consulted.           *)
Answer(kind, found, probe) == [kind |-> kind, found |-> found, probe |-> probe]

(* Scopes in turn: the first that takes the name answers.                    *)
OrElse(near, far) ==
    IF near.kind # "empty" THEN near ELSE [far EXCEPT !.probe = @ \cup near.probe]

(* level: items and explicit imports; an import that resolved to nothing     *)
(* still takes its name.                                                     *)
AnswerOf(found, shadowed, probe) ==
    Answer(IF found # <<>> THEN "found" ELSE IF shadowed THEN "shadowed" ELSE "empty",
           found, probe)

(* A level at which an import that resolved to nothing is not there.         *)
FaultyLevel(bound, items, leaves, space, probe) ==
    AnswerOf(Joined(<<items>> \o [n \in DOMAIN leaves |-> bound[leaves[n]][space]]),
             FALSE, probe)

Level(bound, items, leaves, space, probe) ==
    AnswerOf(Joined(<<items>> \o [n \in DOMAIN leaves |-> bound[leaves[n]][space]]),
             \E l \in ToSet(leaves) : bound[l] = Unbound, probe)

Explicit(pkg, bound, m, name, space) ==
    LET here == SelectSeq(pkg.nodes[m].items, LAMBDA i : i.name = name /\ i.space = space)
    IN  Level(bound, Joined([n \in DOMAIN here |-> <<here[n].to>>]),
              Named(pkg, LeavesOf(pkg, m, Nowhere), name), space, {m})

(* glob_targets: the modules some globs import, and whether one of them      *)
(* reaches none.                                                             *)
ModulesOf(bound, l) == SelectSeq(bound[l]["type"], LAMBDA t : t.is = "module")
GlobTargets(bound, globs) == FlattenSeq([n \in DOMAIN globs |-> ModulesOf(bound, globs[n])])
Unlisted(bound, globs) == \E l \in ToSet(globs) : ModulesOf(bound, l) = <<>>

(* through_globs: breadth first, past the modules where the name is not      *)
(* explicit.                                                                 *)
Visit(acc, m, hit, hides) ==
    [found |-> Extend(acc.found, hit.found), probe |-> acc.probe \cup {m},
     opaque |-> \/ acc.opaque
                \/ hit.kind = "shadowed"
                \/ hit.kind = "empty" /\ hides]

RECURSIVE Through(_, _, _, _, _, _, _)
Through(pkg, bound, name, space, queue, met, acc) ==
    LET m == Head(queue).at
        hit == Explicit(pkg, bound, m, name, space)
        globs == Named(pkg, LeavesOf(pkg, m, Nowhere), "*")
        new == m \notin met
    IN  IF queue = <<>> THEN acc
        ELSE Through(pkg, bound, name, space,
                     Tail(queue) \o IF new /\ hit.kind = "empty" THEN GlobTargets(bound, globs)
                                    ELSE <<>>,
                     met \cup {m},
                     IF new THEN Visit(acc, m, hit, pkg.nodes[m].opaque \/ Unlisted(bound, globs))
                     ELSE acc)

(* globbed: a glob that cannot be listed may provide any name; only the      *)
(* first segment of an import looks past it.                                 *)
Listed(g, import) ==
    IF ~g.opaque THEN AnswerOf(g.found, FALSE, g.probe)
    ELSE Answer(IF import /\ g.found = <<>> THEN "empty" ELSE "shadowed", <<>>, g.probe)

Globbed(pkg, bound, globs, name, space, import) ==
    Listed(Through(pkg, bound, name, space, GlobTargets(bound, globs), {},
                   [found |-> <<>>, opaque |-> Unlisted(bound, globs), probe |-> {}]),
           import)

(* What is behind a module's own level: unlisted macro output hides it.      *)
Behind(pkg, bound, m, name, space, import) ==
    IF pkg.nodes[m].opaque
    THEN Answer(IF import THEN "empty" ELSE "shadowed", <<>>, {})
    ELSE Globbed(pkg, bound, Named(pkg, LeavesOf(pkg, m, Nowhere), "*"), name, space, import)

(* A module that forgets what its globs consulted.                           *)
FaultyInModule(pkg, bound, m, name, space, import) ==
    OrElse(Explicit(pkg, bound, m, name, space),
           [Behind(pkg, bound, m, name, space, import) EXCEPT !.probe = {}])

InModule(pkg, bound, m, name, space, import) ==
    OrElse(Explicit(pkg, bound, m, name, space), Behind(pkg, bound, m, name, space, import))

(* in_blocks: innermost first.                                               *)
RECURSIVE InBlocks(_, _, _, _, _, _)
InBlocks(pkg, bound, b, name, space, import) ==
    LET leaves == LeavesOf(pkg, Nowhere, b)
    IN  IF b = Nowhere THEN Answer("empty", <<>>, {})
        ELSE OrElse(Level(bound, <<>>, Named(pkg, leaves, name), space, {}),
               OrElse(Globbed(pkg, bound, Named(pkg, leaves, "*"), name, space, import),
                      InBlocks(pkg, bound, pkg.blocks[b], name, space, import)))

Library(pkg, m, name) ==
    LET lib == pkg.nodes[pkg.nodes[m].root].lib
    IN  IF lib.name = name THEN <<Module(lib.to)>> ELSE <<>>

(* in_scope: blocks, module, and last the package's library.                 *)
InScope(pkg, bound, from, name, space, import) ==
    OrElse(InBlocks(pkg, bound, from.block, name, space, import),
      OrElse(InModule(pkg, bound, from.module, name, space, import),
        Answer("found", IF space = "type" THEN Library(pkg, from.module, name) ELSE <<>>, {})))

Parent(pkg, m) == IF pkg.nodes[m].parent = Nowhere THEN <<>>
                  ELSE <<Module(pkg.nodes[m].parent)>>

(* segment: one more name of a path.  No impl is indexed yet, so a path goes *)
(* nowhere through a def.                                                    *)
FirstSegment(pkg, bound, from, name, space, import) ==
    CASE name = "crate" -> Answer("found", <<Module(pkg.nodes[from.module].root)>>, {})
      [] name = "self" -> Answer("found", <<Module(from.module)>>, {})
      [] name = "super" -> Answer("found", Parent(pkg, from.module), {})
      [] name = "Self" -> Answer("found", <<>>, {})
      [] OTHER -> InScope(pkg, bound, from, name, space, import)

NextSegment(pkg, bound, at, name, space) ==
    IF at.is # "module" THEN Answer("found", <<>>, {})
    ELSE IF name = "super" THEN Answer("found", Parent(pkg, at.at), {})
    ELSE InModule(pkg, bound, at.at, name, space, FALSE)

(* walk: every segment but the last must name one thing.                     *)
Walk(pkg, bound, from, space, import) ==
    LET last == Len(from.path)
        spaceOf(n) == IF n = last THEN space ELSE "type"
        step[n \in 1 .. last] ==
            IF n = 1
            THEN IF from.path[1] = "" THEN Answer("found", <<Module(from.module)>>, {})
                 ELSE FirstSegment(pkg, bound, from, from.path[1], spaceOf(1), import)
            ELSE LET so == step[n - 1]
                     now == IF n = 2 /\ from.path[1] = ""
                            THEN Answer("found", Library(pkg, from.module, from.path[2]), {})
                            ELSE NextSegment(pkg, bound, so.found[1], from.path[n], spaceOf(n))
                 IN  IF Len(so.found) # 1 THEN Answer("found", <<>>, so.probe)
                     ELSE [now EXCEPT !.probe = @ \cup so.probe]
    IN  step[last]

(* resolve_leaf: what it binds in each name space; a glob binds modules.     *)
Binding(leaf, type, value) ==
    IF Globs(leaf)
    THEN [bound |-> [type |-> SelectSeq(type.found, LAMBDA t : t.is = "module"),
                     value |-> <<>>],
          probe |-> type.probe]
    ELSE [bound |-> [type |-> type.found, value |-> value.found],
          probe |-> type.probe \cup value.probe]

ResolveLeaf(pkg, bound, leaf) ==
    Binding(leaf, Walk(pkg, bound, leaf, "type", TRUE), Walk(pkg, bound, leaf, "value", TRUE))

-----------------------------------------------------------------------------
(* The worklist: [bound, queue, dependents, budget].                         *)

ModuleLeaves(pkg) == SelectSeq([l \in DOMAIN pkg.leaves |-> l],
                               LAMBDA l : pkg.leaves[l].block = Nowhere)

Start(pkg) == [bound |-> FoldLeft(LAMBDA so, l : Append(so, Unbound), <<>>, pkg.leaves),
               queue |-> ModuleLeaves(pkg),
               dependents |-> [m \in DOMAIN pkg.nodes |-> {}],
               budget |-> 64 * Len(ModuleLeaves(pkg)) + 64]

(* One leaf: it is remembered by every module it consulted, and a change     *)
(* queues those that consulted its own.                                      *)
Take(pkg, s, l, result) ==
    LET dependents == [m \in DOMAIN pkg.nodes |->
                         s.dependents[m] \cup IF m \in result.probe THEN {l} ELSE {}]
        woken == dependents[pkg.leaves[l].module] \ ToSet(Tail(s.queue))
    IN  [bound |-> [s.bound EXCEPT ![l] = result.bound],
         dependents |-> dependents,
         budget |-> s.budget - 1,
         queue |-> Tail(s.queue) \o IF result.bound = s.bound[l] THEN <<>>
                                    ELSE SetToSortSeq(woken, <)]

Pop(pkg, s) ==
    LET l == Head(s.queue) IN Take(pkg, s, l, ResolveLeaf(pkg, s.bound, pkg.leaves[l]))

RECURSIVE Drain(_, _)
Drain(pkg, s) == IF s.queue = <<>> \/ s.budget = 0 THEN s ELSE Drain(pkg, Pop(pkg, s))

(* resolve_block_leaves: in place, eight rounds at most.                     *)
Round(pkg, bound) ==
    FoldLeft(LAMBDA so, l : IF pkg.leaves[l].block = Nowhere THEN so
                            ELSE [so EXCEPT ![l] = ResolveLeaf(pkg, so, pkg.leaves[l]).bound],
             bound, [l \in DOMAIN pkg.leaves |-> l])
RECURSIVE Rounds(_, _, _)
Rounds(pkg, bound, n) ==
    LET next == Round(pkg, bound)
    IN  IF n = 0 \/ next = bound THEN bound ELSE Rounds(pkg, next, n - 1)

(* What the leaves bind, and the queue the worklist gave up on.              *)
ResolveBlocks(pkg, s) == [bound |-> Rounds(pkg, s.bound, 8), queue |-> s.queue]
ResolveLeaves(pkg) == ResolveBlocks(pkg, Drain(pkg, Start(pkg)))

-----------------------------------------------------------------------------
(* What holds.                                                               *)

IsFixed(pkg, s) ==
    /\ s.queue = <<>>
    /\ \A l \in ToSet(ModuleLeaves(pkg)) :
          ResolveLeaf(pkg, s.bound, pkg.leaves[l]).bound = s.bound[l]

(* The worklist empties within its budget and leaves a fixed point: a `use`  *)
(* of a module, resolved again, binds what it was left with (rsgraph/bind.rs *)
(* 205, "by a worklist to a fixed point").                                   *)
ImportsSettle(pkg) == IsFixed(pkg, ResolveLeaves(pkg))

(* What the imports bind does not depend on the order in which the files     *)
(* list them, although the worklist goes in that order.                      *)
Orders(n) == {p \in [1 .. n -> 1 .. n] : \A i, j \in 1 .. n : p[i] = p[j] => i = j}
Listing(pkg, p) == [pkg EXCEPT !.leaves = [i \in DOMAIN p |-> @[p[i]]]]

Agree(p, straight, shuffled) ==
    \A i \in DOMAIN p, n \in Spaces :
        ToSet(straight[p[i]][n]) = ToSet(shuffled[i][n])

EveryOrderGives(pkg, straight) ==
    \A p \in Orders(Len(pkg.leaves)) :
        Agree(p, straight, ResolveLeaves(Listing(pkg, p)).bound)

ImportsAreOrderFree(pkg) == EveryOrderGives(pkg, ResolveLeaves(pkg).bound)
=============================================================================
