---------------------------- MODULE KotlinPlugin ----------------------------
(***************************************************************************)
(* The Kotlin plugin: what one file says                                   *)
(* (plugins/kotlin/parser/src/walk.rs and lib.rs), types, functions and    *)
(* properties, inside types and at the top of the file, and the calls      *)
(* their bodies make; and `assemble` (resolve.rs). Beside what it shares   *)
(* with Java: companions answer for their type, functions stand at the top *)
(* of a package, extension functions answer for the type as it is written, *)
(* and the target of a supertype clause says whether it is extended or     *)
(* implemented. The abstractions are those of TypedFacts; a written type   *)
(* always names something, so an empty one is a type the source leaves to  *)
(* inference.                                                              *)
(***************************************************************************)
EXTENDS Jvm

CONSTANT DefaultImports  \* the simple names Kotlin imports into every file

Noise == {"Override", "Deprecated", "Suppress", "SuppressWarnings", "OptIn",
          "JvmStatic", "JvmField", "JvmName", "JvmOverloads"}
InjectAnnotations == {"Autowired", "Inject", "Resource"}
Stereotypes == {"Service", "Component", "Repository", "Controller", "RestController",
                "Configuration", "ControllerAdvice", "RestControllerAdvice"}

(* Annotations are matched by their last segment. *)
Simple(a) == Last(a.name)
Annotations(f, key, annos) ==
    FoldLeft(LAMBDA g, a : IF Simple(a) \in Noise THEN g ELSE AddClause(g, key, a.name, "ANNOTATED_BY", a), f, annos)
IsInjected(annos) == Carries(annos, InjectAnnotations, Simple)
Inject(f, owner, p) ==
    LET on == Find(p.annos, LAMBDA a : Simple(a) \in {"Qualifier", "Resource"})
    IN AddInjection(f, owner, p.name, p.type, IF IsInjected(p.annos) THEN "annotation" ELSE "constructor",
                    IF on = None THEN "" ELSE on[1].arg)
----------------------------------------------------------------------------
(* What a call site is: construction is spelled as a call, so a capitalised *)
(* callee constructs; `this` stands before the dots or stands for nothing.  *)
Capital(name) == name \in Capitalised
ReceiverKind(of) ==
    CASE Len(of) = 1 /\ ~Capital(of[1]) -> "receiver"
      [] Len(of) = 2 /\ ~Capital(of[1]) /\ ~Capital(of[2]) -> "field-chain"
      [] Capital(Last(of)) -> "static"
      [] OTHER -> "opaque"
ChainKind(of) == IF Capital(Last(Front(of))) /\ ~Capital(Last(of)) THEN "static-chain" ELSE "opaque"
NavKind(i) ==
    CASE i.on = "super" -> "super"
      [] i.on = "this" -> "own"
      [] i.on = "this-field" -> "self-field"
      [] i.on = "factory" -> ChainKind(i.of)
      [] i.on \in {"name", "field"} -> ReceiverKind(i.of)
      [] OTHER -> "opaque"
CallKind(i) ==
    IF i.on # "other" /\ Capital(i.method) THEN "new"
    ELSE IF i.on = "none" THEN "own" ELSE NavKind(i)
Call(f, caller, in, i, kind) ==
    CASE kind = "opaque" -> Opaque(f)
      [] kind = "new" -> AddCall(f, caller, in, kind, Append(i.of, i.method), "")
      [] OTHER -> AddCall(f, caller, in, kind, i.of, i.method)
Expression(f, caller, in, i) ==
    CASE i.x = "local" -> AddHint(f, caller, i.name, IF i.type = <<>> THEN i.made ELSE i.type)
      [] i.x = "call" -> Call(Request(f, caller, i), caller, in, i, CallKind(i))
CollectCalls(f, caller, in, body) ==
    FoldLeft(LAMBDA g, i : Expression(g, caller, in, i), f, Reverse(body))
----------------------------------------------------------------------------
(* Functions: what a signature states, then the node, then the body. *)
FunctionProps(f, key, m) ==
    LET returned == AddTypeRefs(AddReturn(f, key, m.ret), key, "", m.ret)
        on == IF Len(m.receiver) = 1 THEN Head(m.receiver) ELSE m.receiver
    IN IF m.receiver = <<>> THEN returned
       ELSE [AddTypeRefs(returned, key, "", m.receiver) EXCEPT
                !.extensions = Append(@, <<<<on, m.name>>, key>>)]
Parameters(f, key, owner, injects, m) ==
    LET Parameter(g, p) ==
            LET h == AddTypeRefs(AddHint(g, key, p.name, p.type), key, p.name, p.type)
            IN IF injects THEN Inject(h, owner, p) ELSE h
    IN FoldLeft(Parameter, f, m.params)
Function(acc, ctx, m) ==
    LET key == Append(ctx.key, m.name)
        stated == FunctionProps(acc[1], key, m)
        noded == AddDecl(stated, ctx.key, IF ctx.label = "Interface" THEN "HAS_METHOD" ELSE "CONTAINS", key, "Method")
        taken == Parameters(Annotations(noded, key, m.annos), key, ctx.key, FALSE, m)
    IN <<CollectCalls(taken, key, ctx.key, m.body),
         IF Has(stated, key) THEN acc[2] ELSE [acc[2] EXCEPT !.methods = @ \cup {m.name}]>>
TopFunction(f, package, m) ==
    LET key == Append(package, m.name)
        stated == FunctionProps(f, key, m)
        noded == AddDecl(stated, package, "CONTAINS", key, "Function")
        known == IF Has(stated, key) THEN noded
                 ELSE [noded EXCEPT !.functions = Append(@, <<<<package, m.name>>, key>>)]
        taken == Parameters(Annotations(known, key, m.annos), key, package, FALSE, m)
    IN [CollectCalls(taken, key, package, m.body) EXCEPT !.topTypes = Append(@, key)]
Constructor(acc, ctx, m) ==
    LET key == Append(ctx.key, ctx.name)
        noded == AddDecl(acc[1], ctx.key, "CONTAINS", key, "Method")
        taken == Parameters(Annotations(noded, key, m.annos), key, ctx.key, ctx.injectCtor, m)
    IN <<CollectCalls(taken, key, ctx.key, m.body),
         IF Has(acc[1], key) THEN acc[2] ELSE [acc[2] EXCEPT !.methods = @ \cup {ctx.name}]>>
Initializer(f, ctx, m) ==
    LET key == Append(ctx.key, "init")
    IN CollectCalls(AddDecl(f, ctx.key, "CONTAINS", key, "Method"), key, ctx.key, m.body)

(* Properties: a member of a stated type has a node and its initialiser's  *)
(* calls; one of an inferred type has neither.                             *)
PropertyNode(f, owner, p) ==
    LET key == Append(owner, p.name)
    IN CollectCalls(Annotations(AddDecl(f, owner, "CONTAINS", key, "Property"), key, p.annos), key, owner, p.body)
Property(f, owner, p) ==
    AddTypeRefs(AddHint(f, owner, p.name, p.type), owner, p.name, p.type)
MemberProperty(f, ctx, p) ==
    LET stated == Property(f, ctx.key, p) IN
    IF p.type = <<>> THEN f
    ELSE PropertyNode(IF IsInjected(p.annos) THEN Inject(stated, ctx.key, p) ELSE stated, ctx.key, p)
TopProperty(f, package, p) ==
    LET key == Append(package, p.name)
        stated == IF Has(f, key) THEN f
                  ELSE AddTypeRefs(AddHint(f, package, p.name, p.type), key, p.name, p.type)
    IN [Annotations(AddDecl(stated, package, "CONTAINS", key, p.label), key, p.annos)
           EXCEPT !.topTypes = Append(@, key)]
----------------------------------------------------------------------------
(* Types.  A supertype that is constructed is extended, any other is       *)
(* implemented, as far as the syntax says.                                 *)
Supertypes(f, key, t) ==
    LET Base(g, s) ==
            AddClause(g, key, s.written, IF s.invoked /\ t.label # "Interface" THEN "EXTENDS" ELSE "IMPLEMENTS", NoAnno)
    IN FoldLeft(Base, f, t.supers)
Written_(supers) == [i \in DOMAIN supers |-> supers[i].written]
DeclOf(key, t) ==
    [key |-> key, kind |-> t.label, methods |-> {}, companion |-> None,
     extends |-> Written_(SelectSeq(t.supers, LAMBDA s : s.invoked /\ t.label # "Interface")),
     implements |-> Written_(SelectSeq(t.supers, LAMBDA s : ~s.invoked \/ t.label = "Interface"))]
InjectsConstructor(t) ==
    LET secondary == SelectSeq(t.members, LAMBDA m : m.m = "ctor")
    IN Carries(t.annos, Stereotypes, Simple) /\ Len(secondary) + Len(t.primary) = 1

(* A primary constructor's `val`s and `var`s are properties; its other     *)
(* parameters are typed under the constructor's own key.                   *)
PrimaryConstructor(f, key, t) ==
    LET Parameter(g, p) ==
            LET taken == IF p.val THEN PropertyNode(Property(g, key, p), key, p)
                         ELSE AddTypeRefs(g, Append(key, Last(key)), p.name, p.type)
            IN IF InjectsConstructor(t) THEN Inject(taken, key, p) ELSE taken
    IN IF t.primary = None THEN f ELSE FoldLeft(Parameter, f, t.primary[1])

TypeAlias(f, parent, m) ==
    LET key == Append(parent, m.name)
        noded == [AddTypeRefs(f, key, m.name, m.type) EXCEPT
                     !.nodes = Append(@, Node(key, "TypeAlias")), !.edges = Append(@, Edge(parent, "CONTAINS", key))]
    IN Annotations(noded, key, m.annos)

RECURSIVE TypeDecl(_, _, _)
TypeDecl(f, parent, t) ==
    LET key == Append(parent, t.name)
        ctx == [key |-> key, name |-> t.name, label |-> t.label, injectCtor |-> InjectsConstructor(t)]
        Walked(acc, m) ==
            CASE m.m = "method" -> Function(acc, ctx, m)
              [] m.m = "ctor" -> Constructor(acc, ctx, m)
              [] m.m = "init" -> <<Initializer(acc[1], ctx, m), acc[2]>>
              [] m.m = "field" -> <<MemberProperty(acc[1], ctx, m), acc[2]>>
              [] m.m = "companion" ->
                    <<TypeDecl(acc[1], key, m.type), [acc[2] EXCEPT !.companion = Some(Append(key, m.type.name))]>>
              [] m.m = "type" -> <<TypeDecl(acc[1], key, m.type), acc[2]>>
              [] m.m = "alias" -> <<TypeAlias(acc[1], key, m), acc[2]>>
        headed == PrimaryConstructor(Annotations(Supertypes(f, key, t), key, t.annos), key, t)
    IN Closed(FoldLeft(Walked, <<headed, DeclOf(key, t)>>, t.members), parent, key, t.label)

(* An import binds its last segment or its alias; a last segment in lower  *)
(* case names a member.                                                    *)
Import(f, i) ==
    LET lined == [f EXCEPT !.importLines = Append(@, i.target)] IN
    IF i.wild THEN [lined EXCEPT !.wildcards = Append(@, i.target)]
    ELSE [lined EXCEPT !.imports = Append(@,
            [local |-> IF i.alias # "" THEN i.alias ELSE Last(i.target), target |-> i.target,
             member |-> ~Capital(Last(i.target))])]

Declaration(f, package, d) ==
    CASE d.m = "type" -> [TypeDecl(f, package, d.type) EXCEPT !.topTypes = Append(@, Append(package, d.type.name))]
      [] d.m = "alias" -> [TypeAlias(f, package, d) EXCEPT !.topTypes = Append(@, Append(package, d.name))]
      [] d.m = "method" -> TopFunction(f, package, d)
      [] d.m = "field" -> TopProperty(f, package, d)
SourceFile(file) ==
    FoldLeft(LAMBDA f, d : Declaration(f, file.package, d),
             FoldLeft(Import, NoFacts(file.package, FALSE), file.imports), file.decls)
ParseFile(file) ==
    LET facts == SourceFile(file) IN
    IF ~file.readable \/ (~file.wellFormed /\ facts.nodes = <<>> /\ facts.package = <<>>)
    THEN NoFacts(<<>>, TRUE) ELSE facts
----------------------------------------------------------------------------
Multivalued == {"List", "MutableList", "Set", "MutableSet", "Collection", "Iterable", "Map", "MutableMap", "Sequence"}
Default == [package |-> <<"kotlin">>, types |-> DefaultImports]
TypeRef(ix, f, written) ==
    IF Len(written) = 1 THEN SimpleRef(ix, f, Head(written)) ELSE QualifiedRef(ix, f, written)
(* The index, with what every written name means in every file. *)
Named(known, all) ==
    [known EXCEPT !.refs = [f \in ToSet(all) |-> [w \in Seq(STRING) |-> TypeRef(known, f, w)]]]
Index(all) ==
    LET parsed == Parsed(all) IN
    Named([types |-> FirstMap(DeclaredTypes(all)), top |-> TopLevel(parsed), refs |-> <<>>,
           packages |-> Packages(parsed), extensions |-> Extensions(all), default |-> Default,
           functions |-> FirstMap(OverFiles(parsed, LAMBDA f : f.functions)),
           declared |-> Packages(parsed) \cup UNION {Keys(f.nodes) : f \in ToSet(parsed)}], all)
SupertypeEdge(ix, c, key) == BaseEdge(ix, c, key)
----------------------------------------------------------------------------
InjectionIndexes(ix, all) ==
    <<InjectIndex(all, <<>>, LAMBDA i : TRUE), CollectionsOf(ix, all, Multivalued, LAMBDA i : TRUE)>>
Resolved(ix, all) ==
    LET returns == ReturnIndex(ix, all)
        points == InjectionIndexes(ix, all)
    IN [names |-> <<>>, hints |-> HintIndex(ix, all), written |-> WrittenIndex(all), returns |-> returns,
        injections |-> points[1], collections |-> points[2],
        beans |-> BeanIndex(ix, Stereotypes, returns, all), under |-> ImplementorIndex(ix, all)]
----------------------------------------------------------------------------
(* A bare call: the type's own, a function of the package, or a member     *)
(* import by name.                                                         *)
OwnCall(ix, f, c) ==
    LET owner == FindMethod(ix, f, c.in, c.method)
        function == Get(ix.functions, <<f.package, c.method>>)
        imported == Find(f.imports, LAMBDA i : i.member /\ i.local = c.method)
    IN IF owner # None THEN Declared(c, owner)
       ELSE IF function # None THEN To(Edge(c.caller, "CALLS", function[1]))
       ELSE IF imported = None THEN Unresolved
       ELSE IF imported[1].target \in ix.declared THEN To(Edge(c.caller, "CALLS", imported[1].target))
       ELSE Outside(Edge(c.caller, "CALLS", imported[1].target), <<<<imported[1].target, "Function">>>>)
StaticCall(ix, f, c) == Static(ix, f, c)
NewCall(ix, f, c) == New(ix, f, c)
SuperCall(ix, f, c) == Super(ix, f, c)
ReceiverCall(ix, w, f, c) == Receiver(ix, w, f, c, Pick)
SelfPropertyCall(ix, w, f, c) == SelfField(ix, w, f, c, Pick)
PropertyChainCall(ix, w, f, c) == FieldChain(ix, w, f, c, Pick)
StaticChainCall(ix, w, f, c) == StaticChain(ix, w, f, c)
ResolveCall(ix, w, f, c) ==
    CASE c.kind = "own" -> OwnCall(ix, f, c)
      [] c.kind = "static" -> StaticCall(ix, f, c)
      [] c.kind = "new" -> NewCall(ix, f, c)
      [] c.kind = "super" -> SuperCall(ix, f, c)
      [] c.kind = "receiver" -> ReceiverCall(ix, w, f, c)
      [] c.kind = "self-field" -> SelfPropertyCall(ix, w, f, c)
      [] c.kind = "field-chain" -> PropertyChainCall(ix, w, f, c)
      [] c.kind = "static-chain" -> StaticChainCall(ix, w, f, c)
ResolveClause(ix, f, c) ==
    LET ref == ix.refs[f][c.written]
    IN Clause(c, ref, IF ref = None THEN c.type ELSE SupertypeEdge(ix, c, ref[1].key))
WriteRoutes(ix, all, seen) == RoutesOf(ix, all, seen, LAMBDA p, h : p)
----------------------------------------------------------------------------
Answered(ix, w, all, nodes) ==
    Graph(Account(Gathered(all, ix, Keys(nodes)), ix, w, all, Keys(nodes), ResolveCall, ResolveClause),
          ix, w, all, nodes, WriteRoutes(ix, all, Keys(nodes)), "annotation")
Assemble(all) ==
    LET ix == Index(all) IN Answered(ix, Resolved(ix, all), all, CollectNodes(ix, all, "Package"))
=============================================================================
