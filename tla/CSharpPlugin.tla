---------------------------- MODULE CSharpPlugin ----------------------------
(***************************************************************************)
(* The C# plugin: what one file says (plugins/csharp/parser/src/walk.rs    *)
(* and lib.rs), namespaces, the types in them, their members, the calls    *)
(* those make and the services a call registers; and `assemble`            *)
(* (resolve.rs). Beside what it shares with Java: a partial type is one    *)
(* type, namespaces are searched outward, a name that binds nowhere is     *)
(* kept as it is written, and the container's registry is read from the    *)
(* calls that fill it. The abstractions are those of TypedFacts. A         *)
(* file-scoped namespace holds the declarations after it, so it is one     *)
(* that stands last in its file.                                           *)
(***************************************************************************)
EXTENDS TypedResolve

CONSTANTS
    Interfaced,     \* the names that read as an interface: IRepo
    Suffixed,       \* an attribute's name with the suffix C# lets it omit
    SystemTypes,    \* the simple names `System` declares
    Membered,       \* a member's name without underscores, its head in lower case
    Controllers     \* a controller's name without its suffix

Noise == {"CompilerGenerated", "DebuggerStepThrough", "DebuggerDisplay", "DebuggerNonUserCode",
          "DebuggerBrowsable", "MethodImpl", "SuppressMessage"}
InjectAttributes == {"FromServices", "FromKeyedServices"}

Bare(name) ==
    LET n == {n \in DOMAIN Suffixed : Suffixed[n] = name} IN IF n = {} THEN name ELSE CHOOSE x \in n : TRUE
BareOf(a) == Bare(Last(a.name))
(* ASP.NET writes routes without a leading slash: one counts where a verb  *)
(* or a route is named beside it.                                          *)
AsPath(path, routing) ==
    IF path # <<>> /\ LooksLikePath(path) THEN path
    ELSE IF routing /\ path # <<>> /\ LooksLikePath(<<"">> \o path) THEN <<"">> \o path ELSE <<>>
AttrPaths(a) ==
    LET routing == a.verbs # <<>> \/ BareOf(a) \in {"Route", "RoutePrefix"}
    IN SelectSeq([i \in DOMAIN a.paths |-> AsPath(a.paths[i], routing)], LAMBDA p : p # <<>>)
Attributes(f, key, annos) ==
    FoldLeft(LAMBDA g, a : IF BareOf(a) \in Noise THEN g
                           ELSE AddClause(g, key, a.name, "ANNOTATED_BY", [a EXCEPT !.paths = AttrPaths(a)]),
             f, annos)
Injected(f, owner, p) ==
    LET on == Find(p.annos, LAMBDA a : BareOf(a) \in InjectAttributes)
    IN AddInjection(f, owner, p.name, p.type, IF on = None THEN "constructor" ELSE "attribute",
                    IF on = None THEN "" ELSE on[1].arg)
----------------------------------------------------------------------------
(* What a call site is, told by capitals; `x?.M()` is read as `x.M()`. *)
Capital(name) == name \in Capitalised
ReceiverKind(of) ==
    CASE Len(of) = 1 /\ ~Capital(of[1]) -> "receiver"
      [] Len(of) = 2 /\ ~Capital(of[1]) /\ ~Capital(of[2]) -> "field-chain"
      [] Capital(Last(of)) -> "static"
      [] OTHER -> "opaque"
ChainKind(of) == IF Capital(Last(Front(of))) THEN "static-chain" ELSE "opaque"
CallKind(i) ==
    CASE i.on \in {"none", "this"} -> "own"
      [] i.on = "super" -> "super"
      [] i.on = "this-field" -> "self-field"
      [] i.on = "factory" -> ChainKind(i.of)
      [] i.on \in {"name", "field"} -> ReceiverKind(i.of)
      [] OTHER -> "opaque"
RouteOf(f, caller, i) ==
    LET path == AsPath(i.path, i.verb # "*") IN
    IF path = <<>> THEN f ELSE [f EXCEPT !.requests = Append(@, RouteRef(caller, i.verb, path))]
(* A registering call names its types; the key is the first string literal *)
(* among its arguments, where there is one.                                *)
Registration(f, i) ==
    IF i.registers = None THEN f
    ELSE [f EXCEPT !.registrations = Append(@,
            [service |-> i.registers[1].service, implementation |-> i.registers[1].implementation,
             key |-> IF i.registers[1].keyed THEN i.registers[1].literal ELSE ""])]
Call(f, caller, in, i, kind) ==
    IF kind = "opaque" THEN Opaque(f) ELSE AddCall(f, caller, in, kind, i.of, i.method)
Made(f, caller, in, type) == IF type = <<>> THEN f ELSE AddCall(f, caller, in, "new", Head(type), "")
Expression(f, caller, in, i) ==
    CASE i.x = "call" -> Call(RouteOf(Registration(f, i), caller, i), caller, in, i, CallKind(i))
      [] i.x = "new" -> Made(f, caller, in, i.type)
      [] i.x = "local" ->    \* `Helper h = new();` constructs what it declares
            AddHint(IF i.bareNew THEN Made(f, caller, in, i.type) ELSE f,
                    caller, i.name, IF i.type = <<>> THEN i.made ELSE i.type)
CollectCalls(f, caller, in, body) ==
    FoldLeft(LAMBDA g, i : Expression(g, caller, in, i), f, Reverse(body))
----------------------------------------------------------------------------
(* Parameters type their names; one marked `this` makes an extension of    *)
(* the type as it is written.                                              *)
ParameterTypes(f, key, params) ==
    LET Parameter(g, i) ==
            LET p == params[i]
                texted == [g EXCEPT !.texts = Append(@, <<<<key, p.name>>, p.text>>)]
                extended == IF i = 1 /\ p.this
                            THEN [texted EXCEPT !.extensions = Append(@, <<<<p.text, Last(key)>>, key>>)]
                            ELSE texted
            IN AddTypeRefs(AddHint(extended, key, p.name, p.type), key, p.name, p.type)
    IN FoldLeft(Parameter, f, [i \in DOMAIN params |-> i])

Method(acc, ctx, m) ==
    LET key == Append(ctx.key, m.name)
        noded == AddDecl(acc[1], ctx.key, IF ctx.label = "Interface" THEN "HAS_METHOD" ELSE "CONTAINS", key, "Method")
        returned == AddTypeRefs(AddReturn(Attributes(noded, key, m.annos), key, m.ret), key, "", m.ret)
    IN <<CollectCalls(ParameterTypes(returned, key, m.params), key, ctx.key, m.body),
         IF Has(acc[1], key) THEN acc[2] ELSE [acc[2] EXCEPT !.methods = @ \cup {m.name}]>>
Constructor(acc, ctx, m) ==
    LET key == Append(ctx.key, ctx.name)
        noded == AddDecl(acc[1], ctx.key, "CONTAINS", key, "Method")
        typed == ParameterTypes(Attributes(noded, key, m.annos), key, m.params)
        asked == FoldLeft(LAMBDA g, p : Injected(g, ctx.key, p), typed, m.params)
    IN <<CollectCalls(asked, key, ctx.key, m.body),
         IF Has(acc[1], key) THEN acc[2] ELSE [acc[2] EXCEPT !.methods = @ \cup {ctx.name}]>>
Property(f, ctx, m) ==
    LET key == Append(ctx.key, m.name)
        typed == AddTypeRefs(AddHint(f, ctx.key, m.name, m.type), ctx.key, m.name, m.type)
    IN CollectCalls(Attributes(AddDecl(typed, ctx.key, "CONTAINS", key, "Property"), key, m.annos),
                    key, ctx.key, m.body)
(* A field has no node, and what initialises it is not read.               *)
Field(f, ctx, m) == AddTypeRefs(AddHint(f, ctx.key, m.name, m.type), ctx.key, m.name, m.type)

DelegateDecl(f, parent, m) ==
    LET key == Append(parent, m.name)
        noded == [f EXCEPT !.nodes = Append(@, Node(key, "Delegate")),
                           !.edges = Append(@, Edge(parent, "CONTAINS", key))]
    IN AddTypeRefs(ParameterTypes(Attributes(noded, key, m.annos), key, m.params), key, "", m.ret)
----------------------------------------------------------------------------
(* Types.  The first base is the class, unless it reads as an interface. *)
BaseList(f, key, bases) ==
    LET Base(g, i) ==
            AddClause(g, key, bases[i],
                      IF i = 1 /\ Last(bases[i]) \notin Interfaced THEN "EXTENDS" ELSE "IMPLEMENTS", NoAnno)
    IN FoldLeft(Base, f, [i \in DOMAIN bases |-> i])
PositionalParameters(f, key, params) ==
    FoldLeft(LAMBDA g, p : Injected(AddTypeRefs(AddHint(g, key, p.name, p.type), key, p.name, p.type), key, p),
             f, params)
DeclOf(key, t) == [key |-> key, kind |-> t.label, methods |-> {}, bases |-> t.bases]

RECURSIVE TypeDecl(_, _, _)
TypeDecl(f, parent, t) ==
    LET key == Append(parent, t.name)
        ctx == [key |-> key, name |-> t.name, label |-> t.label]
        Walked(acc, m) ==
            CASE m.m = "method" -> Method(acc, ctx, m)
              [] m.m = "ctor" -> Constructor(acc, ctx, m)
              [] m.m = "property" -> <<Property(acc[1], ctx, m), acc[2]>>
              [] m.m = "field" -> <<Field(acc[1], ctx, m), acc[2]>>
              [] m.m = "type" -> <<TypeDecl(acc[1], key, m.type), acc[2]>>
              [] m.m = "delegate" -> <<DelegateDecl(acc[1], key, m), acc[2]>>
              [] m.m = "unnamed" -> acc   \* an indexer, a destructor, an event's accessors
        headed == PositionalParameters(Attributes(BaseList(f, key, t.bases), key, t.annos), key, t.params)
    IN Closed(FoldLeft(Walked, <<headed, DeclOf(key, t)>>, t.members), parent, key, t.label)

(* Namespaces nest, and a file may hold several; the first is the file's.  *)
RECURSIVE Declarations(_, _, _)
Namespace(f, parent, d) ==
    LET key == parent \o d.name
        named == [f EXCEPT !.package = IF @ = <<>> THEN key ELSE @,
                           !.namespaces = IF key \in ToSet(@) THEN @ ELSE Append(@, key)]
    IN Declarations(named, key, d.decls)
Declarations(f, parent, decls) ==
    LET Top(g, name) == [g EXCEPT !.topTypes = Append(@, Append(parent, name))]
        Decl(g, d) ==
            CASE d.m = "namespace" -> Namespace(g, parent, d)
              [] d.m = "type" -> Top(TypeDecl(g, parent, d.type), d.type.name)
              [] d.m = "delegate" -> Top(DelegateDecl(g, parent, d), d.name)
    IN FoldLeft(Decl, f, decls)

UsingDirective(f, u) ==
    LET lined == [f EXCEPT !.importLines = Append(@, u.target)]
        bind(local) == [lined EXCEPT !.imports = Append(@,
                            [local |-> local, target |-> u.target, member |-> u.alias = ""])]
    IN IF u.alias # "" THEN bind(u.alias)
       ELSE IF u.static THEN bind("")
       ELSE [lined EXCEPT !.wildcards = Append(@, u.target),
                          !.globals = IF u.global THEN Append(@, u.target) ELSE @]
CompilationUnit(file) ==
    Declarations(FoldLeft(UsingDirective, NoFacts(<<>>, FALSE), file.usings), <<>>, file.decls)
ParseFile(file) ==
    LET facts == CompilationUnit(file) IN
    IF ~file.readable \/ (~file.wellFormed /\ facts.nodes = <<>> /\ facts.importLines = <<>>)
    THEN NoFacts(<<>>, TRUE) ELSE facts
----------------------------------------------------------------------------
Multivalued == {"IEnumerable", "IAsyncEnumerable", "IList", "List", "ICollection",
                "IReadOnlyList", "IReadOnlyCollection", "Array"}
----------------------------------------------------------------------------
(* The types in scope by a simple name, and how a reference finds one. *)
AddTypeFirst(types, t) ==    \* a variant where the first half is the type
    IF t.key \in DOMAIN types THEN types
    ELSE (t.key :> [kind |-> t.kind, methods |-> t.methods, extends |-> t.bases, implements |-> <<>>,
                    companion |-> None]) @@ types
AddType(types, t) ==
    IF t.key \notin DOMAIN types
    THEN (t.key :> [kind |-> t.kind, methods |-> t.methods, extends |-> t.bases, implements |-> <<>>,
                    companion |-> None]) @@ types
    ELSE [types EXCEPT ![t.key].methods = @ \cup t.methods,
                       ![t.key].extends = @ \o SelectSeq(t.bases, LAMBDA b : b \notin ToSet(@))]
Scopes(f) ==
    Append(FlattenSeq([i \in DOMAIN f.namespaces |->
        LET ns == f.namespaces[i] IN [n \in DOMAIN ns |-> SubSeq(ns, 1, Len(ns) + 1 - n)]]), <<>>)
SimpleRef(ix, f, name) ==
    LET scope == Find(Scopes(f), LAMBDA s : Append(s, name) \in ix.top)
        alias == Find(f.imports, LAMBDA i : i.local = name)
        used == Find(f.wildcards \o ix.globals, LAMBDA ns : Append(ns, name) \in DOMAIN ix.types)
    IN IF scope # None THEN InTree(Append(scope[1], name))
       ELSE IF alias # None THEN Some([key |-> alias[1].target, in |-> alias[1].target \in DOMAIN ix.types])
       ELSE IF used # None THEN InTree(Append(used[1], name))
       ELSE Foreign(IF name \in SystemTypes THEN <<"System", name>> ELSE <<name>>)
QualifiedRef(ix, f, written) ==
    LET outer == SimpleRef(ix, f, Head(written))[1]
        scope == Find(Scopes(f), LAMBDA s : s \o written \in DOMAIN ix.types)
    IN IF written \in DOMAIN ix.types THEN InTree(written)
       ELSE IF outer.in /\ outer.key \o Tail(written) \in DOMAIN ix.types
            THEN InTree(outer.key \o Tail(written))
       ELSE IF scope # None THEN InTree(scope[1] \o written) ELSE Foreign(written)
TypeRef(ix, f, written) ==
    IF written = <<>> THEN Foreign(<<>>)
    ELSE IF Len(written) = 1 THEN SimpleRef(ix, f, Head(written)) ELSE QualifiedRef(ix, f, written)
AttributeRef(ix, f, written) ==
    LET first == ix.refs[f][written]
        second == IF Last(written) \notin DOMAIN Suffixed THEN first
                  ELSE ix.refs[f][Append(Front(written), Suffixed[Last(written)])]
    IN IF ~first[1].in /\ second[1].in THEN second ELSE first

(* The index, with what every written name means in every file.  A type is *)
(* reached by its simple name where what holds it is known for a namespace *)
(* when its file is read.                                                  *)
Named(known, all) ==
    [known EXCEPT !.refs = [f \in ToSet(all) |-> [w \in Seq(STRING) |-> TypeRef(known, f, w)]]]
Namespaces(all) == UNION {ToSet(f.namespaces) : f \in ToSet(all)}
TopSoFar(files, n) ==
    {t.key : t \in {t \in ToSet(files[n].types) : Front(t.key) \in Namespaces(SubSeq(files, 1, n)) \cup {<<>>}}}
Index(all) ==
    LET files == Parsed(all) IN
    Named([types |-> FoldLeft(AddType, [k \in {} |-> None], OverFiles(files, LAMBDA f : f.types)),
           packages |-> Namespaces(files), refs |-> <<>>, top |-> UNION {TopSoFar(files, n) : n \in DOMAIN files},
           globals |-> OverFiles(files, LAMBDA f : f.globals), extensions |-> Extensions(all)], all)
----------------------------------------------------------------------------
(* What the container was told to build, and for whom it does. *)
Registry(ix, all) ==
    LET row(f, r) ==
            LET service == TypeIn(ix, f, r.service)
                implementation == TypeIn(ix, f, r.implementation)
            IN IF service = None \/ implementation = None THEN <<>>
               ELSE <<[service |-> service[1], implementation |-> implementation[1], key |-> r.key]>>
    IN OverFiles(all, LAMBDA f : FlattenSeq([i \in DOMAIN f.registrations |-> row(f, f.registrations[i])]))
InjectionIndexes(all, rows) ==
    LET registered == {r.implementation : r \in ToSet(rows)}
    IN InjectIndex(all, Membered, LAMBDA i : i.kind = "attribute" \/ i.owner \in registered)
Containers(ix, all, rows) ==
    LET registered == {r.implementation : r \in ToSet(rows)}
    IN CollectionsOf(ix, all, Multivalued, LAMBDA i : i.kind = "attribute" \/ i.owner \in registered)

(* `pick`: a key names one, else one unkeyed registration, else all of     *)
(* them for who asks for the container-full, else nobody knows.            *)
Candidates(ix, w, f, service, method) ==
    SelectSeq(w.registry, LAMBDA r : r.service = service /\ FindMethod(ix, f, r.implementation, method) # None)
Rules(candidates, key, all) ==
    LET keyed == Find(candidates, LAMBDA r : r.key = key)
        plain == {r \in ToSet(candidates) : r.key = ""}
    IN IF key # "" /\ keyed # None THEN Wired({keyed[1]}, "di-keyed")
       ELSE IF Cardinality(plain) = 1 THEN Wired(plain, "di-registration")
       ELSE IF plain = {} THEN Silent
       ELSE IF all THEN Wired(plain, "di-registration-collection")
       ELSE [Silent EXCEPT !.ambiguous = TRUE]
Pick(ix, w, f, service, method, owner, name) ==
    LET injection == InjectionAt(w, owner, name)
        all == <<owner, service>> \in w.collections
        chosen == Rules(Candidates(ix, w, f, service, method),
                        IF injection = None THEN "" ELSE injection[1].qualifier, all)
    IN IF injection = None /\ ~all THEN Silent
       ELSE IF service \notin DOMAIN ix.types \/ ix.types[service].kind # "Interface" THEN Silent
       ELSE [chosen EXCEPT !.dsts = {Append(FindMethod(ix, f, r.implementation, method)[1], method) : r \in @}]

Resolved(ix, all) ==
    LET rows == Registry(ix, all) IN
    [names |-> Membered, hints |-> HintIndex(ix, all), written |-> TextIndex(all), returns |-> ReturnIndex(ix, all),
     injections |-> InjectionIndexes(all, rows), collections |-> Containers(ix, all, rows), registry |-> rows]
----------------------------------------------------------------------------
(* A bare call: the type's own, or a member of a `using static`: the first *)
(* in the tree that has it or the first from outside it.                   *)
OwnCall(ix, f, c) ==
    LET owner == FindMethod(ix, f, c.in, c.method)
        Holder(i) == ix.refs[f][i.target][1]
        Answers(i) == Holder(i).in => FindMethod(ix, f, Holder(i).key, c.method) # None
        static == Find(f.imports, LAMBDA i : i.member /\ Answers(i))
        target == IF static = None THEN <<>> ELSE Append(Holder(static[1]).key, c.method)
    IN IF owner # None THEN Declared(c, owner)
       ELSE IF static = None THEN Unresolved
       ELSE IF Holder(static[1]).in THEN Declared(c, FindMethod(ix, f, Holder(static[1]).key, c.method))
       ELSE Outside(Edge(c.caller, "CALLS", target), <<<<target, "Function">>>>)
StaticCall(ix, f, c) == Static(ix, f, c)
NewCall(ix, f, c) == New(ix, f, c)
SuperCall(ix, f, c) == Super(ix, f, c)
ReceiverCall(ix, w, f, c) == Receiver(ix, w, f, c, Pick)
SelfMemberCall(ix, w, f, c) == SelfField(ix, w, f, c, Pick)
MemberChainCall(ix, w, f, c) == FieldChain(ix, w, f, c, Pick)
StaticChainCall(ix, w, f, c) == StaticChain(ix, w, f, c)
ResolveCall(ix, w, f, c) ==
    CASE c.kind = "own" -> OwnCall(ix, f, c)
      [] c.kind = "static" -> StaticCall(ix, f, c)
      [] c.kind = "new" -> NewCall(ix, f, c)
      [] c.kind = "super" -> SuperCall(ix, f, c)
      [] c.kind = "receiver" -> ReceiverCall(ix, w, f, c)
      [] c.kind = "self-field" -> SelfMemberCall(ix, w, f, c)
      [] c.kind = "field-chain" -> MemberChainCall(ix, w, f, c)
      [] c.kind = "static-chain" -> StaticChainCall(ix, w, f, c)
Clauses(ix, f, c) ==
    LET ref == IF c.type = "ANNOTATED_BY" THEN AttributeRef(ix, f, c.written) ELSE ix.refs[f][c.written]
    IN Clause(c, ref, BaseEdge(ix, c, ref[1].key))
(* ASP.NET's route tokens: the controller and the action fill themselves in. *)
Tokens(path, handler) ==
    LET owner == Last(Front(handler))
        controller == IF owner \in DOMAIN Controllers THEN Controllers[owner] ELSE owner
    IN [i \in DOMAIN path |-> CASE path[i] = "[controller]" -> controller
                                [] path[i] = "[action]" -> Last(handler)
                                [] OTHER -> path[i]]
WriteRoutes(ix, all, seen) == RoutesOf(ix, all, seen, Tokens)
----------------------------------------------------------------------------
Answered(ix, w, all, nodes) ==
    Graph(Account(Gathered(all, ix, Keys(nodes)), ix, w, all, Keys(nodes), ResolveCall, Clauses),
          ix, w, all, nodes, WriteRoutes(ix, all, Keys(nodes)), "attribute")
Assemble(all) ==
    LET ix == Index(all) IN Answered(ix, Resolved(ix, all), all, CollectNodes(ix, all, "Namespace"))
=============================================================================
