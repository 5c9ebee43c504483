----------------------------- MODULE TypedFacts -----------------------------
(***************************************************************************)
(* What the walks of the Java, Kotlin and C# plugins write down about one  *)
(* file, and the small steps they write it in.                             *)
(*                                                                         *)
(* Abstractions.  A file is a syntax tree whose names are given; a written *)
(* name is the sequence of its segments, a written type the sequence of    *)
(* the names it mentions, its head first, empty where none is named.  An   *)
(* annotation carries what its arguments say: a name, paths, verbs.  Docs, *)
(* lines, visibility, signatures, source text and the flags on test code   *)
(* are left out, as are bodies' blocks: a body is a sequence of            *)
(* expressions, which the walks take off a stack, last first.              *)
(***************************************************************************)
EXTENDS FactGraph

CONSTANTS
    Capitalised,    \* the names that start with a capital
    Variables       \* path segments that are, or hold, a variable in some spelling
----------------------------------------------------------------------------
(* What a parser hands over, in the shapes the walks tell apart: an        *)
(* annotation, a call site, a creation, a local, a parameter.              *)
Anno(name) == [name |-> <<name>>, arg |-> "", paths |-> <<>>, verbs |-> <<>>]
AnnoSaying(name, arg) == [Anno(name) EXCEPT !.arg = arg]
Mapping(name, paths, verbs) == [Anno(name) EXCEPT !.paths = paths, !.verbs = verbs]
CallSite(on, of, method) ==
    [x |-> "call", on |-> on, of |-> of, method |-> method, path |-> <<>>, verb |-> "*"]
Asks(method, verb, path) == [CallSite("name", <<"client">>, method) EXCEPT !.path = path, !.verb = verb]
Make(written) == [x |-> "new", type |-> <<written>>]
LocalOf(name, type, made) == [x |-> "local", name |-> name, type |-> type, made |-> made]
ParamOf(name, type) == [name |-> name, type |-> type, annos |-> <<>>]
----------------------------------------------------------------------------
(***************************************************************************)
(* The HTTP route convention of the SDK (sdk/rust/src/route.rs): what a    *)
(* handler serves and what a call asks for, in a form that can be compared.*)
(*                                                                         *)
(* Abstraction.  A path is the sequence its text splits into at `/`, so    *)
(* `/api//x/` is <<"", "api", "", "x", "">> and an absolute URL starts     *)
(* with <<"http:", "", host>>; queries and fragments are left out.  Which  *)
(* spellings are variables is given; the verb a name carries is read off   *)
(* with the name.                                                          *)
(***************************************************************************)
Wildcards == {"*", "**"}
Schemes == {"http:", "https:"}

LooksLikePath(path) ==
    \/ Len(path) > 1 /\ Head(path) = ""
    \/ Len(path) > 2 /\ Head(path) \in Schemes /\ path[2] = ""

(* Origin dropped, separators collapsed, variables reduced. *)
OffOrigin(path) ==
    IF path # <<>> /\ Head(path) \in Schemes THEN SubSeq(path, 4, Len(path)) ELSE path
NormalizeSegment(s) == IF s \in Variables \cup Wildcards THEN "{}" ELSE s
Normalize(path) ==
    LET segments == SelectSeq(OffOrigin(path), LAMBDA s : s # "")
    IN [i \in DOMAIN segments |-> NormalizeSegment(segments[i])]

(* One separator between a base and a path. *)
TrimEnd(path) ==
    SubSeq(path, 1, SelectLastInSeq(path, LAMBDA s : s # ""))
TrimStart(path) ==
    LET n == SelectInSeq(path, LAMBDA s : s # "") IN IF n = 0 THEN <<>> ELSE SubSeq(path, n, Len(path))
Join(base, path) ==
    IF TrimEnd(base) = <<>> THEN <<"">> \o TrimStart(path) ELSE TrimEnd(base) \o TrimStart(path)

(* `Routes::of` and `write`: by symbol, as sets; a request never is a      *)
(* pattern, and a symbol without a node is written nowhere.                *)
Wildcarded(path) == \E i \in DOMAIN path : path[i] \in Wildcards
RouteRef(symbol, verb, path) == [symbol |-> symbol, verb |-> verb, path |-> path]
Comparable(r) == <<r.verb, Normalize(r.path)>>
Stated(side, refs) ==
    IF side = "requests" THEN SelectSeq(refs, LAMBDA r : ~Wildcarded(r.path)) ELSE refs
Written(side, refs, symbols) ==
    {[symbol |-> r.symbol, side |-> side, route |-> Comparable(r)] :
        r \in {r \in ToSet(Stated(side, refs)) : r.symbol \in symbols}}
----------------------------------------------------------------------------
(* What is written down about a file. *)
NoFacts(package, failed) ==
    [package |-> package, failed |-> failed, nodes |-> <<>>, edges |-> <<>>, calls |-> <<>>,
     imports |-> <<>>, wildcards |-> <<>>, importLines |-> <<>>, topTypes |-> <<>>, types |-> <<>>,
     clauses |-> <<>>, opaque |-> 0, hints |-> <<>>, typeRefs |-> <<>>, returns |-> <<>>,
     injections |-> <<>>, requests |-> <<>>, functions |-> <<>>, extensions |-> <<>>,
     namespaces |-> <<>>, globals |-> <<>>, registrations |-> <<>>, texts |-> <<>>]

(* A node and the edge that holds it, unless the file has the key already: *)
(* overloads share a node.                                                 *)
Has(f, key) == key \in Keys(f.nodes)
AddDecl(f, parent, type, key, label) ==
    IF Has(f, key) THEN f
    ELSE [f EXCEPT !.nodes = Append(@, Node(key, label)), !.edges = Append(@, Edge(parent, type, key))]

(* A type's own node and declaration come after those of the types in it: *)
(* walked has the facts so far and what the type declares.                *)
Closed(walked, parent, key, label) ==
    [walked[1] EXCEPT !.nodes = Append(@, Node(key, label)), !.edges = Append(@, Edge(parent, "CONTAINS", key)),
                      !.types = Append(@, walked[2])]

(* The first type stated for a name in a scope; every name a type mentions. *)
AddHint(f, caller, name, type) ==
    IF type = <<>> \/ \E i \in DOMAIN f.hints : f.hints[i].caller = caller /\ f.hints[i].name = name THEN f
    ELSE [f EXCEPT !.hints = Append(@, [caller |-> caller, name |-> name, written |-> Head(type)])]
AddTypeRefs(f, owner, name, type) ==
    [f EXCEPT !.typeRefs = @ \o SetToSeq({[owner |-> owner, name |-> name, written |-> w] : w \in ToSet(type)})]
AddReturn(f, key, type) ==
    IF type = <<>> THEN f ELSE [f EXCEPT !.returns = Append(@, <<key, Head(type)>>)]

(* A base or an annotation, to be bound once every type is known. *)
NoAnno == [name |-> <<>>, arg |-> "", paths |-> <<>>, verbs |-> <<>>]
AddClause(f, src, written, type, anno) ==
    [f EXCEPT !.clauses = Append(@, [src |-> src, written |-> written, type |-> type, anno |-> anno])]
Carries(annos, names, NameOf(_)) == \E i \in DOMAIN annos : NameOf(annos[i]) \in names

(* What a container is asked for: a type, its arguments, perhaps a name. *)
AddInjection(f, owner, name, type, kind, qualifier) ==
    [f EXCEPT !.injections = Append(@,
        [owner |-> owner, name |-> name, kind |-> kind,
         written |-> IF type = <<>> THEN <<>> ELSE Head(type),
         args |-> IF type = <<>> THEN <<>> ELSE Tail(type), qualifier |-> qualifier])]

(* A call is held by its shape until every type is known; one that names   *)
(* no receiver anybody could type is only counted.                         *)
AddCall(f, caller, in, kind, of, method) ==
    [f EXCEPT !.calls = Append(@, [caller |-> caller, in |-> in, kind |-> kind, of |-> of, method |-> method])]
Opaque(f) == [f EXCEPT !.opaque = @ + 1]
Request(f, caller, i) ==
    IF i.path = <<>> \/ ~LooksLikePath(i.path) THEN f
    ELSE [f EXCEPT !.requests = Append(@, RouteRef(caller, i.verb, i.path))]
=============================================================================
