----------------------------- MODULE JavaPlugin -----------------------------
(***************************************************************************)
(* The Java plugin: what one file says (plugins/java/parser/src/lib.rs),   *)
(* its types, their members and clauses, the calls its bodies make and     *)
(* what a container is asked to inject; and `assemble` (resolve.rs), which *)
(* makes one graph of the facts of all files, in chunk order. Type         *)
(* references are bound as javac reads them, calls are walked up the       *)
(* declared bases, and a call through an injected port also reaches the    *)
(* bean that Spring would wire. The abstractions are those of TypedFacts.  *)
(***************************************************************************)
EXTENDS Jvm

CONSTANT JavaLang    \* the simple names java.lang declares

Noise == {<<"Override">>, <<"Deprecated">>, <<"SuppressWarnings">>, <<"FunctionalInterface">>, <<"SafeVarargs">>}
InjectAnnotations == {<<"Autowired">>, <<"Inject">>, <<"Resource">>}
Stereotypes == {<<"Service">>, <<"Component">>, <<"Repository">>, <<"Controller">>, <<"RestController">>,
                <<"Configuration">>, <<"ControllerAdvice">>, <<"RestControllerAdvice">>}

(* Annotations are matched by the name as it is written. *)
Written_(a) == a.name
Annotations(f, key, annos) ==
    FoldLeft(LAMBDA g, a : IF a.name \in Noise THEN g ELSE AddClause(g, key, a.name, "ANNOTATED_BY", a), f, annos)
IsInjected(annos) == Carries(annos, InjectAnnotations, Written_)
Inject(f, owner, name, type, kind, annos) ==
    LET on == Find(annos, LAMBDA a : a.name \in {<<"Qualifier">>, <<"Resource">>})
    IN AddInjection(f, owner, name, type, kind, IF on = None THEN "" ELSE on[1].arg)
----------------------------------------------------------------------------
(* `collect_calls`: a capital tells a type from a value. *)
Capital(written) == written # <<>> /\ Last(written) \in Capitalised
KindOf(i) ==
    CASE i.on \in {"none", "this"} -> "own"
      [] i.on = "super" -> "super"
      [] i.on = "name" /\ Capital(i.of) -> "static"
      [] i.on = "name" /\ ~Capital(i.of) /\ Len(i.of) = 1 -> "receiver"
      [] i.on = "this-field" -> "self-field"
      [] i.on = "field" /\ Head(i.of) \notin Capitalised -> "field-chain"
      [] i.on = "factory" /\ Capital(Front(i.of)) -> "static-chain"
      [] OTHER -> "opaque"
ExpressionUncounted(f, caller, in, i) ==    \* a variant that forgets what it cannot type
    CASE i.x = "call" ->
            IF KindOf(i) = "opaque" THEN Request(f, caller, i)
            ELSE AddCall(Request(f, caller, i), caller, in, KindOf(i), i.of, i.method)
      [] i.x = "new" -> IF i.type = <<>> THEN f ELSE AddCall(f, caller, in, "new", Head(i.type), "")
      [] i.x = "local" -> AddHint(f, caller, i.name, IF i.type = <<>> THEN i.made ELSE i.type)
Expression(f, caller, in, i) ==
    CASE i.x = "call" ->
            IF KindOf(i) = "opaque" THEN Opaque(Request(f, caller, i))
            ELSE AddCall(Request(f, caller, i), caller, in, KindOf(i), i.of, i.method)
      [] i.x = "new" -> IF i.type = <<>> THEN f ELSE AddCall(f, caller, in, "new", Head(i.type), "")
      [] i.x = "local" -> AddHint(f, caller, i.name, IF i.type = <<>> THEN i.made ELSE i.type)
CollectCalls(f, caller, in, body) ==
    FoldLeft(LAMBDA g, i : Expression(g, caller, in, i), f, Reverse(body))

(***************************************************************************)
(* `method`.  Overloads share a node; a parameter of an injected           *)
(* constructor or setter stands for the field of its name.  A context is   *)
(* the key and kind of the type and whether its constructor is injected.   *)
(***************************************************************************)
Parameter(f, ctx, key, m, p) ==
    LET here == IsInjected(m.annos)
        injects == IF m.ctor THEN here \/ ctx.injectCtor ELSE here /\ m.setter
        g == AddTypeRefs(AddHint(f, key, p.name, p.type), key, p.name, p.type)
    IN IF ~injects THEN g
       ELSE Inject(g, ctx.key, p.name, p.type,
                   IF here \/ IsInjected(p.annos) THEN "annotation" ELSE "constructor", p.annos)
Method(acc, ctx, m) ==
    LET key == Append(ctx.key, m.name)
        type == IF ctx.kind \in {"Interface", "Annotation"} THEN "HAS_METHOD" ELSE "CONTAINS"
        noted == Annotations(AddDecl(acc[1], ctx.key, type, key, "Method"), key, m.annos)
        taken == FoldLeft(LAMBDA g, p : Parameter(g, ctx, key, m, p), AddReturn(noted, key, m.ret), m.params)
    IN <<CollectCalls(AddTypeRefs(taken, key, "", m.ret), key, ctx.key, m.body),
         IF Has(acc[1], key) THEN acc[2] ELSE [acc[2] EXCEPT !.methods = @ \cup {m.name}]>>

Field(f, ctx, m) ==
    LET g == AddTypeRefs(AddHint(f, ctx.key, m.name, m.type), ctx.key, m.name, m.type) IN
    IF IsInjected(m.annos) /\ ctx.kind # "Enum"
    THEN Inject(g, ctx.key, m.name, m.type, "annotation", m.annos) ELSE g

(***************************************************************************)
(* `type_decl`: its bases, its components, its members, then the type.     *)
(***************************************************************************)
Bases(f, key, t) ==
    LET above == FoldLeft(LAMBDA g, w : AddClause(g, key, w, "EXTENDS", NoAnno), f, t.extends)
    IN FoldLeft(LAMBDA g, w : AddClause(g, key, w, IF t.kind = "Interface" THEN "EXTENDS" ELSE "IMPLEMENTS", NoAnno),
                above, t.implements)
DeclOf(key, t) ==
    [key |-> key, kind |-> t.kind, methods |-> {}, companion |-> None,
     extends |-> t.extends \o (IF t.kind = "Interface" THEN t.implements ELSE <<>>),
     implements |-> IF t.kind = "Interface" THEN <<>> ELSE t.implements]
Context(key, t) ==
    [key |-> key, kind |-> t.kind,
     injectCtor |-> /\ Carries(t.annos, Stereotypes, Written_)
                    /\ Cardinality({i \in DOMAIN t.members : t.members[i].m = "method" /\ t.members[i].ctor}) = 1]

RECURSIVE TypeDecl(_, _, _)
TypeDecl(f, parent, t) ==
    LET key == Append(parent, t.name)
        ctx == Context(key, t)
        Walked(acc, m) ==
            CASE m.m = "field" -> <<Field(acc[1], ctx, m), acc[2]>>
              [] m.m = "method" -> Method(acc, ctx, m)
              [] m.m = "type" -> <<TypeDecl(acc[1], key, m.type), acc[2]>>
        headed == FoldLeft(LAMBDA g, c : AddTypeRefs(g, key, c.name, c.type),
                           Annotations(Bases(f, key, t), key, t.annos), t.components)
    IN Closed(FoldLeft(Walked, <<headed, DeclOf(key, t)>>, t.members), parent, key, t.kind)

Import(f, i) ==
    LET lined == [f EXCEPT !.importLines = Append(@, i.target)] IN
    IF i.wild THEN [lined EXCEPT !.wildcards = Append(@, i.target)]
    ELSE [lined EXCEPT !.imports = Append(@, [local |-> Last(i.target), target |-> i.target, member |-> i.static])]

(* `program`, and the failures of `parse_chunk` and `parse_file`. *)
ParseFile(file) ==
    LET imported == FoldLeft(Import, NoFacts(file.package, FALSE), file.imports)
        Top(f, t) == [TypeDecl(f, file.package, t) EXCEPT !.topTypes = Append(@, Append(file.package, t.name))]
    IN IF ~file.readable \/ (~file.wellFormed /\ file.types = <<>> /\ file.package = <<>>)
       THEN NoFacts(<<>>, TRUE)
       ELSE FoldLeft(Top, imported, file.types)
----------------------------------------------------------------------------
Multivalued == {"List", "Set", "Collection", "Iterable", "Map", "Stream"}
Default == [package |-> <<"java", "lang">>, types |-> JavaLang]
TypeRef(ix, f, written) ==
    IF Len(written) = 1 THEN SimpleRef(ix, f, Head(written)) ELSE QualifiedRef(ix, f, written)
(* The index, with what every written name means in every file. *)
Named(known, all) ==
    [known EXCEPT !.refs = [f \in ToSet(all) |-> [w \in Seq(STRING) |-> TypeRef(known, f, w)]]]
Index(all) ==
    Named([types |-> FirstMap(DeclaredTypes(all)), top |-> TopLevel(Parsed(all)), refs |-> <<>>,
           packages |-> Packages(Parsed(all)), extensions |-> [x \in {} |-> None], default |-> Default], all)
----------------------------------------------------------------------------
(* What types receivers, and what Spring's container would hold. *)
Hints(ix, all) == HintIndex(ix, all)
Returns(ix, all) == ReturnIndex(ix, all)
Injections(all) == InjectIndex(all, <<>>, LAMBDA i : TRUE)
Collections(ix, all) == CollectionsOf(ix, all, Multivalued, LAMBDA i : TRUE)
Beans(ix, returns, all) == BeanIndex(ix, {s[1] : s \in Stereotypes}, returns, all)
Implementors(ix, all) == ImplementorIndex(ix, all)
Wiring(ix, all) ==
    [names |-> <<>>, hints |-> Hints(ix, all), written |-> [x \in {} |-> None], returns |-> Returns(ix, all),
     injections |-> Injections(all), collections |-> Collections(ix, all),
     beans |-> Beans(ix, Returns(ix, all), all), under |-> Implementors(ix, all)]
----------------------------------------------------------------------------
(* A bare call: the type's own, or a static import by name. *)
OwnCall(ix, f, c) ==
    LET owner == FindMethod(ix, f, c.in, c.method)
        static == Find(f.imports, LAMBDA i : i.member /\ i.local = c.method)
        edge(i) == Edge(c.caller, "CALLS", i.target)
    IN IF owner # None THEN Declared(c, owner)
       ELSE IF static = None THEN Unresolved
       ELSE IF Front(static[1].target) \in DOMAIN ix.types THEN To(edge(static[1]))
       ELSE Outside(edge(static[1]), <<<<static[1].target, "Function">>>>)
StaticCallUnwalked(ix, f, c) ==     \* a variant that does not look for who declares it
    LET ref == ix.refs[f][c.of] IN
    IF ref = None THEN Unresolved ELSE To(Edge(c.caller, "CALLS", Append(ref[1].key, c.method)))
StaticCall(ix, f, c) == Static(ix, f, c)
NewCall(ix, f, c) == New(ix, f, c)
SuperCall(ix, f, c) == Super(ix, f, c)
ReceiverCallRewired(ix, w, f, c) ==     \* a variant where the bean replaces the port
    LET r == Receiver(ix, w, f, c, Pick)
    IN IF Len(r.edges) > 1 THEN [r EXCEPT !.edges = Tail(@)] ELSE r
ReceiverCall(ix, w, f, c) == Receiver(ix, w, f, c, Pick)
SelfFieldCall(ix, w, f, c) == SelfField(ix, w, f, c, Pick)
FieldChainCall(ix, w, f, c) == FieldChain(ix, w, f, c, Pick)
StaticChainCall(ix, w, f, c) == StaticChain(ix, w, f, c)
ResolveCall(ix, w, f, c) ==
    CASE c.kind = "own" -> OwnCall(ix, f, c)
      [] c.kind = "static" -> StaticCall(ix, f, c)
      [] c.kind = "new" -> NewCall(ix, f, c)
      [] c.kind = "super" -> SuperCall(ix, f, c)
      [] c.kind = "receiver" -> ReceiverCall(ix, w, f, c)
      [] c.kind = "self-field" -> SelfFieldCall(ix, w, f, c)
      [] c.kind = "field-chain" -> FieldChainCall(ix, w, f, c)
      [] c.kind = "static-chain" -> StaticChainCall(ix, w, f, c)
ResolveClause(ix, f, c) == Clause(c, ix.refs[f][c.written], c.type)
DeclaredRoutes(ix, all, seen) == RoutesOf(ix, all, seen, LAMBDA p, h : p)
----------------------------------------------------------------------------
Answered(ix, w, all, nodes) ==
    Graph(Account(Gathered(all, ix, Keys(nodes)), ix, w, all, Keys(nodes), ResolveCall, ResolveClause),
          ix, w, all, nodes, DeclaredRoutes(ix, all, Keys(nodes)), "annotation")
Assemble(all) ==
    LET ix == Index(all) IN Answered(ix, Wiring(ix, all), all, CollectNodes(ix, all, "Package"))
=============================================================================
