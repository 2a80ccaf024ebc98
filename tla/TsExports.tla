------------------------------ MODULE TsExports ------------------------------
(* What a TypeScript file's imports and re-exports bind (tsgraph.rs,         *)
(* tsgraph/bindings.rs): the lookup of an export through re-export barrels,  *)
(* the import edges a file's statements emit, and the definition a reference *)
(* resolves to.  Specifiers are resolved already: `to` is a file or Outside. *)
EXTENDS Naturals, Sequences, FiniteSets

(* A repository is a function from files to                                  *)
(*   [defs: seq of [name, local], dflt, equals: a name or NoName,            *)
(*    reexports: seq of [star, names: seq of <<exported, imported>>,         *)
(*                       namespace: a name or NoName, to],                   *)
(*    imports: seq of [to, bindings: seq of [local, imported]]].             *)
(* A definition is named <<file, name>>.                                     *)
NoName == "-"
Outside == "outside"
NoExport == <<>>

First(numbers) == CHOOSE n \in numbers : \A m \in numbers : n <= m

Declares(repo, file, name) == \E n \in DOMAIN repo[file].defs : repo[file].defs[n].name = name

(* The exports table of a file: the first definition of a name wins, a local *)
(* one is not importable under its own name, and `export default` and        *)
(* `export =` give a definition, local or not, one more name.                *)
Importable(repo, file, name) ==
    LET f == repo[file]
        named == {n \in DOMAIN f.defs : f.defs[n].name = name}
        exported == named # {} /\ ~f.defs[First(named)].local
        alias == IF name = "default" /\ Declares(repo, file, f.dflt) THEN f.dflt
                 ELSE IF \/ name = "export="
                         \/ name = "default" /\ ~exported THEN f.equals
                 ELSE NoName
    IN  IF Declares(repo, file, alias) THEN <<file, alias>>
        ELSE IF exported THEN <<file, name>> ELSE NoExport

IsNamespace(repo, file, name) ==
    \E n \in DOMAIN repo[file].reexports : repo[file].reexports[n].namespace = name

(* The pairs of file and name a lookup of `name` may meet.                   *)
Rows(repo, file) == {repo[file].reexports[n] : n \in DOMAIN repo[file].reexports}
Handed(row) == {row.names[k][2] : k \in DOMAIN row.names}
NamesMet(repo, name) ==
    {name} \cup UNION {UNION {Handed(row) : row \in Rows(repo, f)} : f \in DOMAIN repo}
Pairs(repo, name) == (DOMAIN repo) \X NamesMet(repo, name)

-----------------------------------------------------------------------------
(* lookup_export.  `seen` holds the pairs the walk has met, each with the    *)
(* hops it was met at; a walk is a function of the hops it has left, of a     *)
(* pair and of what is seen already.                                         *)

(* A walk that remembers a pair and not how deep it was met.                 *)
FaultyWalkedAlready(seen, pair, hops) == \E mark \in seen : mark[1] = pair

WalkedAlready(seen, pair, hops) == \E mark \in seen : mark[1] = pair /\ mark[2] <= hops

(* One re-export statement: a star passes the name on; of the names it lists *)
(* the first to lead to a definition answers.                                *)
TryNames(walk, row, name, before) ==
    LET after[k \in 0 .. Len(row.names)] ==
            IF k = 0 THEN before
            ELSE LET so == after[k - 1]
                 IN  IF so.hit # NoExport \/ row.names[k][1] # name THEN so
                     ELSE walk[<<row.to, row.names[k][2]>>][so.seen]
    IN  after[Len(row.names)]

TryRow(walk, row, name, so) ==
    IF so.hit # NoExport \/ row.to = Outside THEN so
    ELSE IF row.star THEN walk[<<row.to, name>>][so.seen]
    ELSE TryNames(walk, row, name, so)

TryRows(walk, rows, name, before) ==
    LET after[n \in 0 .. Len(rows)] ==
            IF n = 0 THEN before ELSE TryRow(walk, rows[n], name, after[n - 1])
    IN  after[Len(rows)]

(* Own declarations are looked at before the cap is.                         *)
ExportStep(repo, walk, left, hops, pair, seen) ==
    LET own == Importable(repo, pair[1], pair[2])
        marked == seen \cup {<<pair, hops>>}
    IN  IF WalkedAlready(seen, pair, hops) THEN [hit |-> NoExport, seen |-> seen]
        ELSE IF own # NoExport THEN [hit |-> own, seen |-> marked]
        ELSE IF left = 0 \/ IsNamespace(repo, pair[1], pair[2])
        THEN [hit |-> NoExport, seen |-> marked]
        ELSE TryRows(walk, repo[pair[1]].reexports, pair[2], [hit |-> NoExport, seen |-> marked])

LookupExport(repo, file, name, cap) ==
    LET walk[left \in 0 .. cap] ==
            [pair \in Pairs(repo, name) |-> [seen \in SUBSET (Pairs(repo, name) \X (0 .. cap)) |->
                ExportStep(repo, walk[left - 1], left, cap - left, pair, seen)]]
    IN  walk[cap][<<file, name>>][{}].hit

-----------------------------------------------------------------------------
(* namespace_target_in: the file a namespace re-export of `name` names.  The *)
(* visited set holds files, and a name the file exports itself is no         *)
(* namespace.                                                                *)

(* A namespace looked for past a name the file exports itself.               *)
FaultyMayBeNamespace(repo, pair) == TRUE

MayBeNamespace(repo, pair) == Importable(repo, pair[1], pair[2]) = NoExport

Naming(row, name) == {k \in DOMAIN row.names : row.names[k][1] = name}

TryStars(walk, rows, name, before) ==
    LET after[n \in 0 .. Len(rows)] ==
            IF n = 0 THEN before
            ELSE LET so == after[n - 1]
                 IN  IF so.hit # NoName \/ ~rows[n].star \/ rows[n].to = Outside THEN so
                     ELSE walk[<<rows[n].to, name>>][so.seen]
    IN  after[Len(rows)]

NamespaceStep(repo, walk, left, pair, visited) ==
    LET rows == repo[pair[1]].reexports
        spaces == {n \in DOMAIN rows : rows[n].namespace = pair[2]}
        naming == {n \in DOMAIN rows : Naming(rows[n], pair[2]) # {}}
        row == rows[First(naming)]
        marked == visited \cup {pair[1]}
        Answer(to) == [hit |-> IF to = Outside THEN NoName ELSE to, seen |-> marked]
    IN  IF left = 0 \/ pair[1] \in visited THEN [hit |-> NoName, seen |-> visited]
        ELSE IF ~MayBeNamespace(repo, pair) THEN Answer(Outside)
        ELSE IF spaces # {} THEN Answer(rows[First(spaces)].to)
        ELSE IF naming # {}
        THEN IF row.to = Outside THEN Answer(Outside)
             ELSE walk[<<row.to, row.names[First(Naming(row, pair[2]))][2]>>][marked]
        ELSE TryStars(walk, rows, pair[2], Answer(Outside))

NamespaceTarget(repo, file, name, cap) ==
    LET walk[left \in 0 .. cap] ==
            [pair \in Pairs(repo, name) |-> [visited \in SUBSET DOMAIN repo |->
                NamespaceStep(repo, walk[left - 1], left, pair, visited)]]
    IN  walk[cap][<<file, name>>][{}].hit

-----------------------------------------------------------------------------
(* file_imports.  A statement has an edge to the file it names and one more  *)
(* to every other file that declares a name it binds: rides says what each   *)
(* of them binds, by the file it leads to.                                   *)

(* Every name of a statement on the statement's own edge.                    *)
FaultySlot(imp, def) == imp.to

Slot(imp, def) == def[1]

Ride(rides, file, def) ==
    [f \in DOMAIN rides \cup {file} |->
        (IF f \in DOMAIN rides THEN rides[f] ELSE {}) \cup (IF f = file THEN {def} ELSE {})]

(* A whole-module binding rides the statement's own edge.                    *)
BindName(repo, imp, cap, b, rides) ==
    LET def == LookupExport(repo, imp.to, IF b.imported = "*" THEN "export=" ELSE b.imported, cap)
    IN  IF def = NoExport THEN rides
        ELSE Ride(rides, IF b.imported = "*" THEN imp.to ELSE Slot(imp, def), def)

StatementRides(repo, imp, cap) ==
    LET rides[n \in 0 .. Len(imp.bindings)] ==
            IF n = 0 THEN [f \in {imp.to} |-> {}]
            ELSE BindName(repo, imp, cap, imp.bindings[n], rides[n - 1])
    IN  rides[Len(imp.bindings)]

StatementEdges(repo, imp, cap) ==
    LET rides == StatementRides(repo, imp, cap)
    IN  {[to |-> f, via |-> IF f = imp.to THEN NoName ELSE imp.to, bound |-> rides[f]] :
            f \in DOMAIN rides}

(* A named re-export binds only what the file it names declares.             *)
ReexportEdge(repo, row, cap) ==
    LET bound == {LookupExport(repo, row.to, row.names[k][2], cap) : k \in DOMAIN row.names}
    IN  [to |-> row.to, via |-> NoName,
         bound |-> IF row.star THEN {} ELSE {d \in bound \ {NoExport} : d[1] = row.to}]

ImportEdges(repo, file, cap) ==
    LET imports == {n \in DOMAIN repo[file].imports : repo[file].imports[n].to # Outside}
        rows == {n \in DOMAIN repo[file].reexports : repo[file].reexports[n].to # Outside}
    IN  UNION {StatementEdges(repo, repo[file].imports[n], cap) : n \in imports}
        \cup {ReexportEdge(repo, repo[file].reexports[n], cap) : n \in rows}

(* The first binding of a local name wins.                                   *)
BindingOf(repo, file, local) ==
    LET Of(imp) == {k \in DOMAIN imp.bindings : imp.bindings[k].local = local}
        imports == {n \in DOMAIN repo[file].imports :
                      /\ repo[file].imports[n].to # Outside
                      /\ Of(repo[file].imports[n]) # {}}
        imp == repo[file].imports[First(imports)]
    IN  IF imports = {} THEN NoExport
        ELSE <<imp.to, imp.bindings[First(Of(imp))].imported>>

(* resolve_ts_graph_in, one reference: through its binding, through the      *)
(* namespace its binding names, or in the file's own scope.                  *)
ResolveName(repo, file, name, member, cap) ==
    LET b == BindingOf(repo, file, name)
        space == IF b = NoExport \/ member = NoName THEN NoName
                 ELSE NamespaceTarget(repo, b[1], b[2], cap)
        through == IF space = NoName THEN NoExport ELSE LookupExport(repo, space, member, cap)
    IN  IF b = NoExport
        THEN IF member = NoName /\ Declares(repo, file, name) THEN <<file, name>> ELSE NoExport
        ELSE IF b[2] = "*"
        THEN LookupExport(repo, b[1], IF member = NoName THEN "export=" ELSE member, cap)
        ELSE IF through # NoExport THEN through
        ELSE LookupExport(repo, b[1], b[2], cap)

-----------------------------------------------------------------------------
(* What a run may be given: files whose statements are numbered lists, each  *)
(* with the file it names, or Outside; a star carries no names               *)
(* (extract/ts_fragment.rs).                                                 *)
IsList(s) == Len(s) \in Nat /\ DOMAIN s = 1 .. Len(s)

WellFormedExports(repo) ==
    /\ {Outside, NoName} \cap DOMAIN repo = {}
    /\ \A f \in DOMAIN repo :
          /\ IsList(repo[f].reexports) /\ IsList(repo[f].imports)
          /\ \A n \in DOMAIN repo[f].reexports :
                /\ repo[f].reexports[n].to \in DOMAIN repo \cup {Outside}
                /\ IsList(repo[f].reexports[n].names)
                /\ repo[f].reexports[n].star => repo[f].reexports[n].names = <<>>
          /\ \A n \in DOMAIN repo[f].imports :
                /\ repo[f].imports[n].to \in DOMAIN repo \cup {Outside}
                /\ IsList(repo[f].imports[n].bindings)

(* The pairs a re-export statement hands a name on to, and those a file      *)
(* does.  A declaring file, or a namespace, ends a chain.                    *)
OnwardBy(row, name) ==
    IF row.to = Outside THEN {}
    ELSE IF row.star THEN {<<row.to, name>>}
    ELSE {<<row.to, row.names[k][2]>> : k \in Naming(row, name)}

Onward(repo, pair) ==
    IF \/ Importable(repo, pair[1], pair[2]) # NoExport
       \/ IsNamespace(repo, pair[1], pair[2]) THEN {}
    ELSE UNION {OnwardBy(repo[pair[1]].reexports[n], pair[2]) : n \in DOMAIN repo[pair[1]].reexports}

(* The pairs that chains of at most n barrels lead to.                       *)
Chained(repo, file, name, n) ==
    LET level[k \in 0 .. n] ==
            IF k = 0 THEN {<<file, name>>}
            ELSE level[k - 1] \cup UNION {Onward(repo, p) : p \in level[k - 1]}
    IN  level[n]

(* The visited map costs no answer: a name is found exactly where a chain of *)
(* at most the capped number of barrels ends in a file that declares it,     *)
(* whatever cycles the walk met and in whatever order (bindings.rs 146-154). *)
LookupIsChained(repo, file, name, cap) ==
    LET hit == LookupExport(repo, file, name, cap)
        reach == {Importable(repo, p[1], p[2]) : p \in Chained(repo, file, name, cap)} \ {NoExport}
    IN  IF reach = {} THEN hit = NoExport ELSE hit \in reach

(* "Each bound definition rides the edge whose to_file declares it": what a  *)
(* reference resolves to through a named import is bound on one edge of the  *)
(* statement, to the file that declares it, so that a change there reaches   *)
(* every consumer that came through a barrel (bindings.rs 263-271).          *)
ReferenceRides(repo, file, name, cap) ==
    LET b == BindingOf(repo, file, name)
        def == ResolveName(repo, file, name, NoName, cap)
    IN  b # NoExport /\ b[2] # "*" /\ def # NoExport =>
            \E e \in ImportEdges(repo, file, cap) : e.to = def[1] /\ def \in e.bound

(* A member is looked up only in a file some chain re-exports as that        *)
(* namespace; a name the chain's file exports itself is not one.             *)
NamespaceIsReexported(repo, file, name, cap) ==
    LET space == NamespaceTarget(repo, file, name, cap)
    IN  space # NoName =>
            \E p \in Chained(repo, file, name, cap) :
              /\ Importable(repo, p[1], p[2]) = NoExport
              /\ \E n \in DOMAIN repo[p[1]].reexports :
                   LET r == repo[p[1]].reexports[n] IN r.namespace = p[2] /\ r.to = space
=============================================================================
