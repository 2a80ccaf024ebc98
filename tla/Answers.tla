------------------------------- MODULE Answers -------------------------------
(* The graph's pure algorithms, each asked over a bounded set of inputs:     *)
(* the impact walk, the C# name ladder and base walk, the compiler-facts     *)
(* overlay, the TypeScript exports and the Rust imports.  A question is one  *)
(* input.                                                                    *)
EXTENDS Naturals, Sequences, FiniteSets

Exports == INSTANCE TsExports
Scopes == INSTANCE RustScopes

AtMost(S, n) == {{}} \cup UNION {{{a, b, c} : b, c \in IF n > 2 THEN S ELSE {a}} : a \in S}
                \cup {{a, b} : a, b \in S}

-----------------------------------------------------------------------------
(* Impact of def 1, one def to a file: three links of every kind the walk    *)
(* tells apart, among four files.                                            *)
Ids == 1 .. 4
Each == [d \in Ids |-> d]
Graph(E) == [primary |-> Each, also |-> [d \in Ids |-> {}], interfaces |-> {},
             infra |-> {}, edges |-> E, order |-> Each]
Link(kind, from, to) == [kind |-> kind, from |-> from, to |-> to, iface |-> 0]
Links == {e \in {Link(k, f, t) : k \in {"uses", "guess", "bus"}, f \in 2 .. 4, t \in Ids} :
            e.from # e.to}

(* Interface 2 injected into the constructors of 3 and 4, or implemented;    *)
(* def 3 partial over files 3 and 4; file 3 infrastructure.                  *)
Injected == [kind : {"ctor"}, from : {3, 4}, to : {1}, iface : {2}]
Shaped == {[Graph(E \cup F) EXCEPT !.interfaces = {2}, !.infra = I, !.also[3] = P] :
             E \in AtMost(Injected \cup {Link("implements", 1, 2)}, 3),
             F \in AtMost({Link("uses", 3, 2), Link("uses", 4, 3), Link("amb", 2, 3)}, 2),
             I \in {{}, {3}}, P \in {{}, {4}}}

Options(hops, hub, fanin) == [hops |-> hops, iface |-> TRUE, maxFanin |-> fanin,
                              maxHub |-> hub, guesses |-> TRUE, bus |-> TRUE]

ImpactQuestions ==
    [about : {"impact"}, seeds : {{1}}, g : {Graph(E) : E \in AtMost(Links, 3)},
     opt : {Options(2, 2, 0), Options(3, 0, 0)}]
    \cup [about : {"impact"}, seeds : {{1}}, g : Shaped,
          opt : {Options(0, 0, 0), Options(3, 0, 1),
                 [Options(2, 0, 0) EXCEPT !.guesses = FALSE, !.iface = FALSE]}]

-----------------------------------------------------------------------------
(* The name T in namespace A.B of the first of three files: T declared in    *)
(* one or two namespaces, by projects that reference each other or not.      *)
Type(ns, chain) == [ns |-> ns, chain |-> chain, bases |-> <<>>, kind |-> "class",
                    declares |-> FALSE]
In == [global |-> <<>>, a |-> <<"A">>, ab |-> <<"A", "B">>, ac |-> <<"A", "C">>, c |-> <<"C">>]
OneType == {<<>>} \cup {<<Type(In[n], <<"T">>)>> : n \in {"a", "c", "ac"}}
Using(level, text) == [level |-> level, text |-> text, global |-> FALSE]
GlobalUsing == [level |-> <<>>, text |-> <<"C">>, global |-> TRUE]
Alias == [alias |-> "T", target |-> <<In.c, <<"T">>>>, global |-> TRUE]
SiteFiles == [unit : {0, 1}, aliases : {{}}, defs : {<<>>},
              usings : {{}, {Using(In.global, In.c)}, {Using(In.a, In.c)},
                        {Using(In.global, In.c), Using(In.global, In.a)}}]
NextFiles == [unit : {0, 2}, usings : {{}, {GlobalUsing}}, aliases : {{}, {Alias}},
              defs : OneType \cup {<<Type(In.ab, <<"S", "T">>)>>}]
LastFiles == [unit : {1, 3}, usings : {{}}, aliases : {{}}, defs : OneType]

NameQuestions ==
    [about : {"name"},
     repo : {[frags |-> <<s, n, l>>, refs |-> r] :
               s \in SiteFiles, n \in NextFiles, l \in LastFiles,
               r \in {<<{}, {}, {}>>, <<{2}, {3}, {}>>}},
     r : {[file |-> 1, ns |-> In.ab, outer |-> <<>>, name |-> "T"]}]
    \cup [about : {"name"},
          repo : {[frags |-> <<[s EXCEPT !.defs = <<Type(In.ab, <<"S">>)>>], n, l>>,
                   refs |-> <<{2}, {3}, {}>>] :
                    s \in {s \in SiteFiles : s.unit = 1},
                    n \in {n \in NextFiles : n.unit = 2}, l \in LastFiles},
          r : {[file |-> 1, ns |-> In.ab, outer |-> <<"S">>, name |-> "T"]}]

(* Three types, each with up to two as bases; "a" may name itself.           *)
TypeNames == {"a", "b", "c"}
Others(x) == TypeNames \ ({x} \ {"a"})
BaseLists(x) == {<<>>} \cup {<<y>> : y \in Others(x)} \cup {<<y, z>> : y, z \in Others(x)}
Shapes(x) == {[Type(<<>>, <<x>>) EXCEPT !.bases = b, !.kind = k, !.declares = d] :
                b \in {b \in BaseLists(x) : Len(b) < 2 \/ b[1] # b[2]},
                k \in IF x = "a" THEN {"class"} ELSE {"class", "interface"}, d \in BOOLEAN}
BaseQuestions ==
    [about : {"bases"},
     repo : {[frags |-> <<[unit |-> 0, usings |-> {}, aliases |-> {}, defs |-> <<x, y, z>>]>>,
              refs |-> <<>>] : x \in Shapes("a"), y \in Shapes("b"),
                               z \in {z \in Shapes("c") : z.kind = "class"}}]

-----------------------------------------------------------------------------
(* Two references, at one site or at two, each with what the ladder pushed,  *)
(* and what the compiler recorded at the sites.                              *)
Occurrence(resolution, state, def, args) ==
    [resolution |-> resolution, state |-> state, def |-> def, sig |-> "s", args |-> args]
Occurrences == {Occurrence("confirmed", "complete", "d", 1),
                Occurrence("confirmed", "complete", "e", 2),
                Occurrence("confirmed", "partial", "d", 1),
                Occurrence("ambiguous", "complete", "d", 1),
                Occurrence("confirmed", "complete", "no def", 1)}
SiteFacts == {<<>>} \cup {<<o>> : o \in Occurrences} \cup {<<o, p>> : o, p \in Occurrences}
Edge(to, tier) == [to |-> to, tier |-> tier]
Pushes == {<<>>, <<Edge("d", "precise")>>, <<Edge("e", "guess"), Edge("f", "guess")>>,
           <<Edge("x", "ext"), Edge("e", "guess")>>}
References(site) == [site : {site}, args : {1, 99}, pushed : Pushes]
OverlayQuestions ==
    [about : {"overlay"},
     sites : {<<f, g>> : f \in SiteFacts,
                         g \in {<<>>, <<Occurrence("confirmed", "complete", "d", 99)>>}},
     refs : {<<r>> : r \in References(1)}
            \cup {<<r, s>> : r \in References(1),
                   s \in {s \in References(1) \cup References(2) : s.args = 99}}]

-----------------------------------------------------------------------------
(* The names x and y of file "a", imported by "i", through barrels "a", "b"  *)
(* and "c" in any arrangement; "d" declares one of them, "b" may too.        *)
Row(star, names, space, to) == [star |-> star, names |-> names, namespace |-> space, to |-> to]
RowsTo(t) == {Row(TRUE, <<>>, Exports!NoName, t), Row(FALSE, <<>>, "x", t)}
             \cup {Row(FALSE, << <<p, q>> >>, Exports!NoName, t) : p, q \in {"x", "y"}}
Module(names, rows, imports) ==
    [defs |-> [n \in DOMAIN names |-> [name |-> names[n], local |-> FALSE]],
     dflt |-> Exports!NoName, equals |-> Exports!NoName, reexports |-> rows, imports |-> imports]
BothNames == [to |-> "a", bindings |-> <<[local |-> "x", imported |-> "x"],
                                         [local |-> "y", imported |-> "y"]>>]
ExportQuestions ==
    [about : {"exports"}, names : {{"x", "y"}}, cap : {2, 3},
     repo : {[f \in {"a", "b", "c", "d", "i"} |->
                CASE f = "i" -> Module(<<>>, <<>>, <<BothNames>>)
                  [] f = "a" -> Module(<<>>, a, <<>>)
                  [] f = "b" -> Module(o, b, <<>>)
                  [] f = "c" -> Module(<<>>, c, <<>>)
                  [] OTHER -> Module(<<"x">>, <<>>, <<>>)] :
              a \in {<<r, s>> : r \in RowsTo("b"), s \in RowsTo("c")} \cup {<<r>> : r \in RowsTo("b")},
              b \in {<<r>> : r \in RowsTo("c")}, o \in {<<>>, <<"y">>, <<"x">>},
              c \in {<<r>> : r \in RowsTo("a") \cup RowsTo("d")}}]

-----------------------------------------------------------------------------
(* Three imports among a crate's root and the modules a and b: side by side, *)
(* nested, or b the library of a binary whose module a holds a macro.        *)
Outside == Scopes!Nowhere
RsItem(name, space, to) == [name |-> name, space |-> space, to |-> to]
RsDef(d) == [is |-> "def", at |-> d]
Mod(name, m) == RsItem(name, "type", Scopes!Module(m))
Node(parent, root, items) == [parent |-> parent, root |-> root, items |-> items,
                              opaque |-> FALSE, lib |-> [name |-> "none", to |-> Outside]]
Trees ==
    {<<Node(Outside, 1, <<Mod("a", 2), Mod("b", 3)>>),
       Node(1, 1, <<RsItem("x", "type", RsDef(1))>>),
       Node(1, 1, <<RsItem("x", "value", RsDef(2))>>)>>,
     <<Node(Outside, 1, <<Mod("a", 2)>>),
       Node(1, 1, <<RsItem("x", "type", RsDef(1)), Mod("b", 3)>>),
       Node(2, 1, <<RsItem("x", "value", RsDef(2))>>)>>,
     <<[Node(Outside, 1, <<Mod("a", 2)>>) EXCEPT !.lib = [name |-> "b", to |-> 3]],
       [Node(1, 1, <<>>) EXCEPT !.opaque = TRUE],
       Node(Outside, 3, <<RsItem("x", "type", RsDef(2))>>)>>}

UsePaths == {<<"a">>, <<"b">>, <<"a", "b">>, <<"b", "x">>, <<"x">>, <<"super">>, <<"super", "b">>}
Use(block, paths, names) == [module : 1 .. 3, block : {block}, path : paths, name : names]
GlobUses == Use(Outside, UsePaths, {"*"})
PlainUses == {u \in Use(Outside, UsePaths, {"b", "x", "a"}) : u.name = u.path[Len(u.path)]}
BlockUses == {u \in Use(1, UsePaths, {"b", "x", "a", "*"}) :
                u.module = 1 /\ u.name \in {"*", u.path[Len(u.path)]}}
RootUses == {u \in Use(Outside, {<<"a">>}, {"*"}) \cup Use(Outside, {<<"x">>}, {"y"}) : u.module = 1}

(* A name is defined once in its module or block.                            *)
Compiles(pkg) ==
    \A i \in DOMAIN pkg.leaves :
        LET leaf == pkg.leaves[i]
            items == pkg.nodes[leaf.module].items
        IN  /\ leaf.block = Outside => \A k \in DOMAIN items : leaf.name # items[k].name
            /\ \A j \in DOMAIN pkg.leaves \ {i} :
                 leaf.name = "*" \/ pkg.leaves[j].name # leaf.name
                 \/ pkg.leaves[j].module # leaf.module \/ pkg.leaves[j].block # leaf.block

UseQuestions ==
    [about : {"uses"},
     pkg : {pkg \in [nodes : Trees, leaves : {<<g, r, u>> : g \in GlobUses, r \in RootUses,
                                                u \in PlainUses \cup BlockUses},
                     blocks : {<<Outside>>}] : Compiles(pkg)}]

Questions == ImpactQuestions \cup NameQuestions \cup BaseQuestions
             \cup OverlayQuestions \cup ExportQuestions \cup UseQuestions
=============================================================================
