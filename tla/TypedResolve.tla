----------------------------- MODULE TypedResolve -----------------------------
(***************************************************************************)
(* What the three `assemble`s of the Java, Kotlin and C# plugins share:    *)
(* the same walk up declared bases, the same account of a call, the same   *)
(* graph at the end.                                                       *)
(*                                                                         *)
(* An index ix has the types by key, the packages, the extension functions *)
(* and, as refs, what a written name means in a file: nothing, or a key    *)
(* and whether this tree has it.  Each plugin reads names in its own way.  *)
(*                                                                         *)
(* Abstractions.  Those of TypedFacts; of an edge's properties only the    *)
(* rule that resolved it is kept, and of the notes only their counts.      *)
(***************************************************************************)
EXTENDS TypedFacts

Depth == 16
InTree(key) == Some([key |-> key, in |-> TRUE])
Foreign(key) == Some([key |-> key, in |-> FALSE])
TypeIn(ix, f, written) ==
    LET ref == ix.refs[f][written] IN IF ref # None /\ ref[1].in THEN Some(ref[1].key) ELSE None

Parsed(all) == SelectSeq(all, LAMBDA f : ~f.failed)
DeclaredTypes(all) ==
    OverFiles(Parsed(all), LAMBDA f : [i \in DOMAIN f.types |-> <<f.types[i].key, f.types[i]>>])
Extensions(all) ==
    FirstMap(OverFiles(Parsed(all), LAMBDA f : f.extensions))
----------------------------------------------------------------------------
(* `find_method`: the type that declares it, at a type, its companion or   *)
(* above it.  Bases are read as the file that asks would read them.        *)
BasesIn(ix, f, written) ==
    FlattenSeq([i \in DOMAIN written |-> TypeIn(ix, f, written[i])])
BasesOf(ix, f, type) == BasesIn(ix, f, ix.types[type].extends \o ix.types[type].implements)
RECURSIVE FindMethodAt(_, _, _, _, _)
FindMethodAt(ix, f, type, method, depth) ==
    IF depth > Depth \/ type \notin DOMAIN ix.types THEN None
    ELSE IF method \in ix.types[type].methods THEN Some(type)
    ELSE LET next == ix.types[type].companion \o BasesOf(ix, f, type)
         IN FirstOf([i \in DOMAIN next |-> FindMethodAt(ix, f, next[i], method, depth + 1)])
FindMethod(ix, f, type, method) == FindMethodAt(ix, f, type, method, 0)

RECURSIVE AncestorsFrom(_, _, _, _)
AncestorsFrom(ix, f, types, depth) ==
    LET above == UNION {ToSet(BasesOf(ix, f, t)) : t \in types}
    IN IF depth > Depth \/ above \subseteq types THEN above
       ELSE above \cup AncestorsFrom(ix, f, types \cup above, depth + 1)
Ancestors(ix, f, type) == AncestorsFrom(ix, f, {type}, 0)
----------------------------------------------------------------------------
(* What the source states of names: the types that type receivers, in the  *)
(* tree and as written, the types functions return, the injection points,  *)
(* and the types an owner asks for by the container-full.                  *)
Bound(ix, all, Pairs(_)) ==
    LET bind(f, p) == LET t == TypeIn(ix, f, p[2]) IN IF t = None THEN None ELSE Some(<<p[1], t[1]>>)
    IN FirstMap(OverFiles(all, LAMBDA f : FlattenSeq([i \in DOMAIN Pairs(f) |-> bind(f, Pairs(f)[i])])))
HintPairs(f) == [i \in DOMAIN f.hints |-> <<<<f.hints[i].caller, f.hints[i].name>>, f.hints[i].written>>]
HintIndex(ix, all) == Bound(ix, all, HintPairs)
WrittenIndex(all) == FirstMap(OverFiles(all, HintPairs))
TextIndex(all) == FirstMap(OverFiles(all, LAMBDA f : f.texts \o HintPairs(f)))
ReturnIndex(ix, all) == Bound(ix, all, LAMBDA f : f.returns)
MemberName(names, name) == IF name \in DOMAIN names THEN names[name] ELSE name
InjectIndex(all, names, Counts(_)) ==
    FirstMap(OverFiles(all, LAMBDA f :
        LET points == SelectSeq(f.injections, Counts)
        IN [i \in DOMAIN points |-> <<<<points[i].owner, MemberName(names, points[i].name)>>, points[i]>>]))
CollectionsOf(ix, all, Multivalued, Counts(_)) ==
    UNION {UNION {{<<i.owner, t[1]>> : t \in {TypeIn(ix, f, a) : a \in ToSet(i.args)} \ {None}} :
                  i \in {i \in ToSet(f.injections) : Counts(i) /\ i.written # <<>> /\ Last(i.written) \in Multivalued}} :
           f \in ToSet(all)}
InjectionAt(w, owner, name) == Get(w.injections, <<owner, MemberName(w.names, name)>>)

(* A local or a parameter of the caller, or else a member of its type. *)
TypeOf(map, c, name) == FirstOf(<<Get(map, <<c.caller, name>>), Get(map, <<c.in, name>>)>>)
----------------------------------------------------------------------------
(* What one call or clause comes to: edges in order, and stand-ins. *)
Unresolved == [edges |-> <<>>, notes |-> <<>>, unresolved |-> 1, external |-> 0, ambiguous |-> 0]
To(edge) == [edges |-> <<edge>>, notes |-> <<>>, unresolved |-> 0, external |-> 0, ambiguous |-> 0]
Outside(edge, notes) == [To(edge) EXCEPT !.notes = notes, !.external = 1]
Declared(c, owner) == IF owner = None THEN Unresolved ELSE To(Edge(c.caller, "CALLS", Append(owner[1], c.method)))

Static(ix, f, c) ==
    LET ref == ix.refs[f][c.of] IN
    IF ref = None THEN Unresolved
    ELSE IF ref[1].in THEN Declared(c, FindMethod(ix, f, ref[1].key, c.method))
    ELSE Outside(Edge(c.caller, "CALLS", Append(ref[1].key, c.method)),
                 <<<<Append(ref[1].key, c.method), "Function">>, <<ref[1].key, "External">>>>)
New(ix, f, c) ==
    LET ref == ix.refs[f][c.of] IN
    IF ref = None THEN Unresolved
    ELSE IF ref[1].in THEN To(Edge(c.caller, "CALLS", ref[1].key))
    ELSE Outside(Edge(c.caller, "CALLS", ref[1].key), <<<<ref[1].key, "Class">>>>)
Super(ix, f, c) ==
    LET bases == IF c.in \in DOMAIN ix.types THEN BasesIn(ix, f, ix.types[c.in].extends) ELSE <<>> IN
    Declared(c, FirstOf([i \in DOMAIN bases |-> FindMethod(ix, f, bases[i], c.method)]))
StaticChain(ix, w, f, c) ==
    LET type == TypeIn(ix, f, Front(c.of))
        owner == IF type = None THEN None ELSE FindMethod(ix, f, type[1], Last(c.of))
        made == IF owner = None THEN None ELSE Get(w.returns, Append(owner[1], Last(c.of)))
        found == IF made = None THEN None ELSE FindMethod(ix, f, made[1], c.method)
    IN IF found = None THEN Unresolved
       ELSE To(EdgeBy(c.caller, "CALLS", Append(found[1], c.method), "chain"))

(***************************************************************************)
(* A call through a value: the written call, and beside it what a          *)
(* container would wire.  A site is the type the receiver is stated to     *)
(* have, the key of the member found for it, the type holding the receiver *)
(* and the receiver's name in it.                                          *)
(***************************************************************************)
Silent == [dsts |-> {}, by |-> "", ambiguous |-> FALSE]
Wired(dsts, by) == [dsts |-> dsts, by |-> by, ambiguous |-> FALSE]
Member(ix, f, declared, method) ==
    LET owner == IF declared = None THEN None ELSE FindMethod(ix, f, declared[1], method)
    IN IF owner = None THEN None ELSE Some(<<declared[1], Append(owner[1], method)>>)
Through(ix, w, f, c, hit, holder, name, by, Pick(_, _, _, _, _, _, _)) ==
    IF hit = None THEN Unresolved
    ELSE LET picked == Pick(ix, w, f, hit[1][1], c.method, holder, name)
             wired == SetToSeq({EdgeBy(c.caller, "CALLS", d, picked.by) : d \in picked.dsts})
         IN [To(EdgeBy(c.caller, "CALLS", hit[1][2], by))
                EXCEPT !.edges = @ \o wired, !.ambiguous = IF picked.ambiguous THEN 1 ELSE 0]
(* No member of that name: an extension on the type as it is written.      *)
Extension(ix, w, c) ==
    LET written == TypeOf(w.written, c, c.of[1])
        found == IF written = None THEN None ELSE Get(ix.extensions, <<<<Last(written[1])>>, c.method>>)
    IN IF found = None THEN None ELSE Some(<<written[1], found[1]>>)
Receiver(ix, w, f, c, Pick(_, _, _, _, _, _, _)) ==
    Through(ix, w, f, c, FirstOf(<<Member(ix, f, TypeOf(w.hints, c, c.of[1]), c.method), Extension(ix, w, c)>>),
            c.in, c.of[1], "receiver", Pick)
SelfField(ix, w, f, c, Pick(_, _, _, _, _, _, _)) ==
    Through(ix, w, f, c, Member(ix, f, Get(w.hints, <<c.in, c.of[1]>>), c.method), c.in, c.of[1], "self-attr", Pick)
FieldChain(ix, w, f, c, Pick(_, _, _, _, _, _, _)) ==
    LET holder == TypeOf(w.hints, c, c.of[1])
        declared == IF holder = None THEN None ELSE Get(w.hints, <<holder[1], c.of[2]>>)
    IN Through(ix, w, f, c, Member(ix, f, declared, c.method),
               IF holder = None THEN <<>> ELSE holder[1], c.of[2], "receiver", Pick)

ClauseLabel(type) ==
    CASE type = "IMPLEMENTS" -> "Interface" [] type = "ANNOTATED_BY" -> "Annotation" [] OTHER -> "Class"
Clause(c, ref, type) ==
    IF ref = None THEN Unresolved
    ELSE [To(Edge(c.src, type, ref[1].key)) EXCEPT
             !.notes = IF ref[1].in THEN <<>> ELSE <<<<ref[1].key, ClauseLabel(type)>>>>]
(* Where the tree holds the target, its own declaration says what it is.   *)
BaseEdge(ix, c, key) ==
    IF c.type = "ANNOTATED_BY" \/ key \notin DOMAIN ix.types THEN c.type
    ELSE IF ix.types[key].kind = "Interface" THEN "IMPLEMENTS" ELSE "EXTENDS"
----------------------------------------------------------------------------
(* The routes a handler's annotations declare, under its type's prefix. *)
Annotated(f) == SelectSeq(f.clauses, LAMBDA c : c.type = "ANNOTATED_BY")
TypePrefixes(ix, all) ==
    LET on(f) == SelectSeq(Annotated(f), LAMBDA c : c.src \in DOMAIN ix.types /\ c.anno.paths # <<>>)
    IN FirstMap(OverFiles(all, LAMBDA f : [i \in DOMAIN on(f) |-> <<on(f)[i].src, on(f)[i].anno.paths[1]>>]))
Crossed(ix, all, handler, Tokens(_, _)) ==
    LET on == SelectSeq(OverFiles(all, Annotated), LAMBDA c : c.src = handler)
        prefix == Tokens(FirstOf(<<Get(TypePrefixes(ix, all), Front(handler)), Some(<<>>)>>)[1], handler)
        paths == {Tokens(p, handler) : p \in UNION {ToSet(on[i].anno.paths) : i \in DOMAIN on}}
        verbs == UNION {ToSet(on[i].anno.verbs) : i \in DOMAIN on}
        full == IF paths = {} THEN {prefix} ELSE {Join(prefix, p) : p \in paths}
    IN IF paths = {} /\ verbs = {} THEN {}
       ELSE {RouteRef(handler, v, p) : v \in (IF verbs = {} THEN {"*"} ELSE verbs), p \in full \ {<<>>}}
Serves(ix, all, Tokens(_, _)) ==
    LET handlers == {c.src : c \in ToSet(OverFiles(all, Annotated))} \ DOMAIN ix.types
        serving == {h \in handlers : ~(Front(h) \in DOMAIN ix.types /\ ix.types[Front(h)].kind = "Interface")}
    IN SetToSeq(UNION {Crossed(ix, all, h, Tokens) : h \in serving})
RoutesOf(ix, all, seen, Tokens(_, _)) ==
    Written("requests", OverFiles(all, LAMBDA f : f.requests), seen)
    \cup Written("serves", Serves(ix, all, Tokens), seen)
----------------------------------------------------------------------------
(* The account: a stand-in's bare label yields to a telling one. *)
NoteExternal(seen, external, key, label) ==
    IF key \in seen THEN external
    ELSE IF key \notin DOMAIN external THEN (key :> label) @@ external
    ELSE IF external[key] = "External" THEN [external EXCEPT ![key] = label] ELSE external
Take(acc, seen, r) ==
    [acc EXCEPT !.edges = AddEdges(@, r.edges),
                !.external = FoldLeft(LAMBDA x, n : NoteExternal(seen, x, n[1], n[2]), @, r.notes),
                !.unresolved = @ + r.unresolved, !.calls = @ + r.external, !.ambiguous = @ + r.ambiguous]

(* The types a declaration names, and whether a container brings them.     *)
UsesTypes(ix, w, all, Definitive) ==
    LET refs == UNION {{<<f, r>> : r \in ToSet(f.typeRefs)} : f \in ToSet(all)}
        hits == {<<r[2].owner, TypeIn(ix, r[1], r[2].written), r[2].name>> : r \in refs}
        kept == {<<h[1], h[2][1], h[3]>> : h \in {h \in hits : h[2] # None /\ h[2] # Some(h[1])}}
        Kinds(p) == {i[1].kind : i \in {InjectionAt(w, p[1], h[3]) : h \in {h \in kept : <<h[1], h[2]>> = p}} \ {None}}
        Strongest(ks) == CASE Definitive \in ks -> Definitive [] ks = {} -> "" [] OTHER -> "constructor"
    IN {EdgeBy(p[1], "USES_TYPE", p[2], Strongest(Kinds(p))) : p \in {<<h[1], h[2]>> : h \in kept}}

PackageTree(ix) ==
    {Edge(Front(p), "CONTAINS", p) : p \in {p \in ix.packages : Front(p) \in ix.packages}}
ImportsOf(f) ==
    FlattenSeq([i \in DOMAIN f.importLines |->
        [t \in DOMAIN f.topTypes |-> Edge(f.topTypes[t], "IMPORTS", f.importLines[i])]])

(* `assemble`: nodes first seen, edges file by file, then the stand-ins.   *)
ConcatNodes(ix, all, packageLabel) ==   \* a variant that lets a key repeat
    OverFiles(all, LAMBDA f : f.nodes) \o SetToSeq({Node(p, packageLabel) : p \in ix.packages})
CollectNodes(ix, all, packageLabel) ==
    MergeNodes(MergeNodes(<<>>, OverFiles(all, LAMBDA f : f.nodes)),
               SetToSeq({Node(p, packageLabel) : p \in ix.packages}))
(* before any name is bound: what the files say of their own structure *)
Gathered(all, ix, seen) ==
    [edges |-> AddEdges({}, OverFiles(all, LAMBDA f : f.edges) \o SetToSeq(PackageTree(ix)) \o OverFiles(all, ImportsOf)),
     external |-> [k \in UNION {ToSet(f.importLines) : f \in ToSet(all)} \ seen |-> "External"],
     unresolved |-> 0, calls |-> 0, ambiguous |-> 0]
(* file by file, its calls and then its clauses *)
Account(start, ix, w, all, seen, ResolveCall(_, _, _, _), ResolveClause(_, _, _)) ==
    LET TakeFile(acc, f) ==
            LET called == FoldLeft(LAMBDA a, c : Take(a, seen, ResolveCall(ix, w, f, c)),
                                   [acc EXCEPT !.unresolved = @ + f.opaque], f.calls)
            IN FoldLeft(LAMBDA a, c : Take(a, seen, ResolveClause(ix, f, c)), called, f.clauses)
    IN FoldLeft(TakeFile, start, all)
(* every end of an edge that nobody declared gets a stand-in *)
Settled(acc, edges, all, nodes, routes) ==
    LET implied == Ends(edges) \ (Keys(nodes) \cup DOMAIN acc.external)
    IN [nodes |-> nodes \o SetToSeq({Node(k, "Type") : k \in implied})
                  \o SetToSeq({External(k, acc.external[k]) : k \in DOMAIN acc.external}),
        edges |-> edges, routes |-> routes,
        skipped |-> Len(all) - Len(Parsed(all)),
        unresolved |-> acc.unresolved, external |-> acc.calls, ambiguous |-> acc.ambiguous,
        merged |-> Len(OverFiles(all, LAMBDA f : f.nodes))
                   - Cardinality(UNION {Keys(f.nodes) : f \in ToSet(all)})]
Graph(acc, ix, w, all, nodes, routes, definitive) ==
    Settled(acc, acc.edges \cup UsesTypes(ix, w, all, definitive), all, nodes, routes)
=============================================================================
