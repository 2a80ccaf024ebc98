------------------------------ MODULE CSharpNames ------------------------------
(* What a bare C# type name means at a site: the merged definitions          *)
(* (resolve/index.rs), the using directives and aliases in scope             *)
(* (resolve/scope.rs), the projects a site can name (project.rs,             *)
(* resolve/reach.rs), the ladder itself (resolve/ladder.rs) and the walk     *)
(* over the bases of a type (resolve/members.rs).  Dotted references and     *)
(* type-argument counts are left out.                                        *)
EXTENDS Naturals, Sequences, FiniteSets

(* A repository is [frags, refs]: the fragments in file order, and the       *)
(* direct references of each project.  A fragment is [unit, usings, aliases, *)
(* defs]: its project (NoUnit where none owns the file), its directives      *)
(* [level, text, global], its aliases [alias, target, global], and its types *)
(* [ns, chain, bases, kind, declares], where chain ends with the type's own  *)
(* name and "declares" says the member asked for is declared there.          *)
NoUnit == 0
NoType == <<>>

RangeOf(s) == {s[k] : k \in DOMAIN s}
Least(numbers) == CHOOSE n \in numbers : \A m \in numbers : n <= m
Greatest(numbers) == CHOOSE n \in numbers : \A m \in numbers : m <= n

(* build_closure: breadth first over the direct references.                  *)
Reachable(refs, from, to) ==
    LET within[n \in 0 .. Cardinality(DOMAIN refs)] ==
            IF n = 0 THEN {from}
            ELSE LET met == within[n - 1] IN met \cup UNION {refs[u] : u \in met}
    IN  to \in within[Cardinality(DOMAIN refs)]

-----------------------------------------------------------------------------
(* The definition index, from the ids of the types to their records.  A      *)
(* later declaration of an id is a part of the same record: its file, the    *)
(* bases it adds, and its members.                                           *)

Id(d) == <<d.ns, d.chain>>

AddBases(bases, more) ==
    LET after[k \in 0 .. Len(more)] ==
            IF k = 0 THEN bases
            ELSE LET so == after[k - 1]
                 IN  IF more[k] \in RangeOf(so) THEN so ELSE Append(so, more[k])
    IN  after[Len(more)]

FirstPart(file, d) ==
    [kind |-> d.kind, bases |-> d.bases, declares |-> d.declares, file |-> file, also |-> {}]

FurtherPart(record, file, d) ==
    [kind |-> record.kind, bases |-> AddBases(record.bases, d.bases),
     declares |-> record.declares \/ d.declares, file |-> record.file,
     also |-> record.also \cup {file}]

AddPart(index, file, d) ==
    [id \in DOMAIN index \cup {Id(d)} |->
        IF id # Id(d) THEN index[id]
        ELSE IF id \in DOMAIN index THEN FurtherPart(index[id], file, d) ELSE FirstPart(file, d)]

AddFile(index, file, defs) ==
    LET after[k \in 0 .. Len(defs)] ==
            IF k = 0 THEN index ELSE AddPart(after[k - 1], file, defs[k])
    IN  after[Len(defs)]

NoTypes == [id \in {} |-> {}]

DefIndex(repo) ==
    LET after[f \in 0 .. Len(repo.frags)] ==
            IF f = 0 THEN NoTypes ELSE AddFile(after[f - 1], f, repo.frags[f].defs)
    IN  after[Len(repo.frags)]

DeclaringFiles(record) == {record.file} \cup record.also

(* The files whose global directives a file takes: its project's, or the     *)
(* whole repository's where no project owns it.                              *)
GlobalFiles(repo, file) ==
    LET unit == repo.frags[file].unit
    IN  {f \in DOMAIN repo.frags : unit = NoUnit \/ repo.frags[f].unit = unit}

UsingsAt(repo, file, level) ==
    {u.text : u \in {u \in repo.frags[file].usings : u.level = level}}
    \cup IF level # <<>> THEN {}
         ELSE UNION {{u.text : u \in {u \in repo.frags[f].usings : u.global}} :
                        f \in GlobalFiles(repo, file)}

(* A local alias shadows a global one, and the first global one wins.        *)
AliasTargets(repo, file, name) ==
    LET local == {a \in repo.frags[file].aliases : a.alias = name}
        files == {f \in GlobalFiles(repo, file) :
                    \E a \in repo.frags[f].aliases : a.global /\ a.alias = name}
    IN  IF local # {} THEN {a.target : a \in local}
        ELSE IF files = {} THEN {}
        ELSE {a.target : a \in {a \in repo.frags[Least(files)].aliases : a.global /\ a.alias = name}}

(* A reach that asks only about the first declaring file.                    *)
FaultyReaches(repo, index, file, id) ==
    LET site == repo.frags[file].unit
        owner == repo.frags[index[id].file].unit
    IN  site = NoUnit \/ owner = NoUnit \/ Reachable(repo.refs, site, owner)

(* attach_reach: any declaring file in a reachable project, or in none.      *)
Reaches(repo, index, file, id) ==
    LET site == repo.frags[file].unit
        owners == {repo.frags[f].unit : f \in DeclaringFiles(index[id])}
    IN  \/ site = NoUnit \/ NoUnit \in owners
        \/ \E u \in owners : Reachable(repo.refs, site, u)

-----------------------------------------------------------------------------
(* The ladder.  A reference is [file, ns, outer, name]; an answer is         *)
(* [defs, via], where no def is "external" and several are ambiguous.        *)

External == [defs |-> {}, via |-> "none"]
Answer(defs, via) == [defs |-> defs, via |-> via]

(* The enclosing namespaces, innermost first, the global one last.           *)
Enclosing(ns) == [n \in 1 .. Len(ns) + 1 |-> SubSeq(ns, 1, Len(ns) + 1 - n)]

(* What one directive imports: its innermost reading.                        *)
Reading(ns, name, text, n) == <<Enclosing(ns)[n] \o text, <<name>>>>

Imported(index, ns, name, text) ==
    LET readings == {n \in DOMAIN Enclosing(ns) : Reading(ns, name, text, n) \in DOMAIN index}
    IN  IF readings = {} THEN {} ELSE {Reading(ns, name, text, Least(readings))}

(* One namespace level: a type declared there first, then the directives.    *)
AtLevel(repo, index, r, level) ==
    LET own == <<level, <<r.name>>>>
        imported == UNION {Imported(index, r.ns, r.name, u) : u \in UsingsAt(repo, r.file, level)}
    IN  IF own \in DOMAIN index /\ Reaches(repo, index, r.file, own)
        THEN Answer({own}, "namespace")
        ELSE Answer({id \in imported : Reaches(repo, index, r.file, id)}, "usings")

(* Steps 2 and 3: the innermost level that answers.                          *)
LevelAnswer(repo, index, r) ==
    LET at(n) == AtLevel(repo, index, r, Enclosing(r.ns)[n])
        levels == {n \in DOMAIN Enclosing(r.ns) : at(n).defs # {}}
    IN  IF levels = {} THEN External ELSE at(Least(levels))

(* Step 0b: the enclosing types, innermost first.                            *)
NestedIn(r, depth) == <<r.ns, SubSeq(r.outer, 1, depth) \o <<r.name>>>>

LexicalAnswer(index, r) ==
    LET depths == {d \in 1 .. Len(r.outer) : NestedIn(r, d) \in DOMAIN index}
    IN  IF depths = {} THEN External ELSE Answer({NestedIn(r, Greatest(depths))}, "nested")

(* Step 4: the one type of that name in the repository, nested ones only     *)
(* where the site sees them.                                                 *)
GlobalAnswer(index, r, seen) ==
    Answer({id \in DOMAIN index : /\ id[2][Len(id[2])] = r.name
                                  /\ Len(id[2]) = 1 \/ id \in seen}, "global")

Ladder(repo, index, r, seen) ==
    LET aliases == AliasTargets(repo, r.file, r.name)
        lexical == LexicalAnswer(index, r)
        level == LevelAnswer(repo, index, r)
    IN  IF aliases # {} THEN Answer(aliases \cap DOMAIN index, "alias")
        ELSE IF lexical.defs # {} THEN lexical
        ELSE IF level.defs # {} THEN level
        ELSE GlobalAnswer(index, r, seen)

-----------------------------------------------------------------------------
(* The bases of a type, each read where the type was first written; NoType   *)
(* where a name is not exactly one type of the repository.                   *)

Bases(repo, index, id) ==
    LET answer(b) == Ladder(repo, index, [file |-> index[id].file, ns |-> id[1],
                                          outer |-> <<>>, name |-> b], {})
        one(defs) == IF \E t \in defs : defs = {t} THEN CHOOSE t \in defs : defs = {t} ELSE NoType
    IN  [k \in DOMAIN index[id].bases |-> one(answer(index[id].bases[k]).defs)]

(* inheritance_walk_matches: the in-graph closure, cycles and all.           *)
Ancestry(repo, index, id) ==
    LET up[k \in 0 .. Cardinality(DOMAIN index)] ==
            IF k = 0 THEN {id}
            ELSE LET met == up[k - 1]
                 IN  met \cup UNION {RangeOf(Bases(repo, index, m)) \ {NoType} : m \in met}
    IN  up[Cardinality(DOMAIN index)]

(* nested_candidate_visible_from_site: through the innermost enclosing type  *)
(* of the site that the index knows.                                         *)
SeesNested(repo, index, r, id) ==
    LET encloser == <<id[1], SubSeq(id[2], 1, Len(id[2]) - 1)>>
        depths == {d \in 1 .. Len(r.outer) : <<r.ns, SubSeq(r.outer, 1, d)>> \in DOMAIN index}
    IN  /\ encloser \in DOMAIN index /\ depths # {}
        /\ encloser \in Ancestry(repo, index, <<r.ns, SubSeq(r.outer, 1, Greatest(depths))>>)

Resolve(repo, r) ==
    LET index == DefIndex(repo)
    IN  Ladder(repo, index, r, {id \in DOMAIN index : SeesNested(repo, index, r, id)})

-----------------------------------------------------------------------------
(* The base walk.  `met` is shared by a whole branch; a walk is a function   *)
(* of the types it may still list, of a type and of what is met already.     *)

(* The bases at some positions of a list, each walked to its end in turn.    *)
WalkEach(walk, bases, positions, before) ==
    LET after[k \in 0 .. Len(bases)] ==
            IF k = 0 THEN before
            ELSE LET so == after[k - 1]
                 IN  IF so.found # NoType \/ k \notin positions THEN so ELSE walk[bases[k]][so.met]
    IN  after[Len(bases)]

(* Classes before interfaces, or without the interfaces.                     *)
Classes(index, bases, positions) == {k \in positions : index[bases[k]].kind # "interface"}

WalkBases(index, walk, bases, positions, skipInterfaces, before) ==
    LET classes == Classes(index, bases, positions)
        so == WalkEach(walk, bases, classes, before)
    IN  IF skipInterfaces THEN so ELSE WalkEach(walk, bases, positions \ classes, so)

(* declares_in_base_closure: a base is marked as soon as it is listed.       *)
BaseStep(index, walk, left, skipInterfaces, id, bases, met) ==
    LET listed == {k \in DOMAIN bases : /\ bases[k] \notin met \cup {NoType}
                                        /\ \A j \in 1 .. k - 1 : bases[j] # bases[k]}
    IN  IF index[id].declares THEN [found |-> id, met |-> met]
        ELSE IF left = 0 THEN [found |-> NoType, met |-> met]
        ELSE WalkBases(index, walk, bases, listed, skipInterfaces,
                       [found |-> NoType, met |-> met \cup {bases[k] : k \in listed}])

BaseDeclaring(repo, index, skipInterfaces, id, met) ==
    LET walk[left \in 0 .. Cardinality(DOMAIN index)] ==
            [t \in DOMAIN index |-> [m \in SUBSET DOMAIN index |->
                BaseStep(index, walk[left - 1], left, skipInterfaces, t, Bases(repo, index, t), m)]]
    IN  walk[Cardinality(DOMAIN index)][id][met]

(* A branch that does not know where the walk started.                       *)
FaultyBranch(repo, index, skipInterfaces, start, id) ==
    BaseDeclaring(repo, index, skipInterfaces, id, {id})

(* first_base_declaring: each direct base with its own set of types met, the *)
(* start among them.                                                         *)
Branch(repo, index, skipInterfaces, start, id) ==
    BaseDeclaring(repo, index, skipInterfaces, id, {start, id})

FirstBaseDeclaring(repo, index, start, skipInterfaces) ==
    LET bases == Bases(repo, index, start)
        branches == [id \in RangeOf(bases) \ {NoType} |-> [met \in {{}} |->
                        [found |-> Branch(repo, index, skipInterfaces, start, id).found, met |-> {}]]]
    IN  WalkBases(index, branches, bases, {k \in DOMAIN bases : bases[k] # NoType},
                  skipInterfaces, [found |-> NoType, met |-> {}]).found

-----------------------------------------------------------------------------
(* What a run may be given.                                                  *)
IsLists(lists) == \A s \in lists : Len(s) \in Nat /\ DOMAIN s = 1 .. Len(s)

WellFormedNames(repo) ==
    /\ IsLists({repo.frags} \cup {repo.frags[f].defs : f \in DOMAIN repo.frags})
    /\ \A f \in DOMAIN repo.frags : \A k \in DOMAIN repo.frags[f].defs :
          {repo.frags[f].defs[k].ns, repo.frags[f].defs[k].bases} \subseteq Seq(STRING)

(* The types of a fragment that bear one of these ids.                       *)
Only(defs, ids) ==
    LET kept[k \in 0 .. Len(defs)] ==
            IF k = 0 THEN <<>>
            ELSE IF Id(defs[k]) \in ids THEN Append(kept[k - 1], defs[k]) ELSE kept[k - 1]
    IN  kept[Len(defs)]

(* What the directives around a site read, in reach or not.                  *)
ReadAround(repo, index, r) ==
    UNION {Imported(index, r.ns, r.name, u) :
              u \in UNION {UsingsAt(repo, r.file, level) : level \in RangeOf(Enclosing(r.ns))}}

Visible(repo, file, f) ==
    \/ NoUnit \in {repo.frags[file].unit, repo.frags[f].unit}
    \/ Reachable(repo.refs, repo.frags[file].unit, repo.frags[f].unit)

(* The repository with the types deleted that no project in reach declares,  *)
(* those apart that a directive around the site reads.                       *)
InReach(repo, r) ==
    LET read == ReadAround(repo, DefIndex(repo), r)
    IN  [frags |-> [f \in DOMAIN repo.frags |->
                      [unit |-> repo.frags[f].unit, usings |-> repo.frags[f].usings,
                       aliases |-> repo.frags[f].aliases,
                       defs |-> IF Visible(repo, r.file, f) THEN repo.frags[f].defs
                                ELSE Only(repo.frags[f].defs, read)]],
         refs |-> repo.refs]

(* "a type declared in an enclosing namespace by a project the site does not *)
(* reference is not a candidate there, and without this check it would       *)
(* shadow the same level's using-imported type" (reach.rs): what a name      *)
(* means by scope is what it means in InReach.  A type nested in one of the  *)
(* site's own is found before and not asked about reach.                     *)
ScopeIsInReach(repo, r) ==
    LET answer == Resolve(repo, r)
        alone == Resolve(InReach(repo, r), r)
    IN  alone.via \in {"namespace", "usings"} /\ answer.via # "nested" => answer = alone

(* What a type inherits from, in one step.                                   *)
SupersOf(repo, index, id, skipInterfaces) ==
    {t \in RangeOf(Bases(repo, index, id)) \ {NoType} :
        ~ skipInterfaces \/ index[t].kind # "interface"}

(* The least set that holds the bases of the start, and theirs.              *)
Supers(repo, index, start, skipInterfaces) ==
    {t \in DOMAIN index :
        \A S \in SUBSET DOMAIN index :
          (\A m \in S \cup {start} : SupersOf(repo, index, m, skipInterfaces) \ {start} \subseteq S) => t \in S}

(* A member read through the bases of a type is found on one of them exactly *)
(* when one declares it, and never on the type itself, whatever cycles a     *)
(* half-edited source holds.  (A type that names itself as its base is       *)
(* walked from its own declaration.)                                         *)
BasesAnswer(repo, index, start, skipInterfaces) ==
    LET declaring == {t \in Supers(repo, index, start, skipInterfaces) : index[t].declares}
    IN  start \notin SupersOf(repo, index, start, skipInterfaces) =>
            FirstBaseDeclaring(repo, index, start, skipInterfaces)
                \in IF declaring = {} THEN {NoType} ELSE declaring
=============================================================================
