----------------------------- MODULE PyResolve -----------------------------
(***************************************************************************)
(* `assemble` of the Python plugin (plugins/py/parser/src/resolve.rs): the *)
(* facts of all files, in chunk order, become one graph.  Imports are      *)
(* bound against the parsed modules, every call is resolved or put on the  *)
(* ledger, and whatever an edge reaches outside the tree gets a stand-in.  *)
(*                                                                         *)
(* Abstractions.  Those of PyFacts; of an edge's properties only how it    *)
(* was resolved and what its sites say of concurrency are kept, and of the *)
(* notes only their counts.                                                *)
(***************************************************************************)
EXTENDS PyFacts, FiniteSets

CONSTANTS
    Trees,      \* the sequences of files considered
    Builtins,   \* names that may be called without being declared
    Depth       \* how many classes a method is searched through

ASSUME DepthAssumption == Depth \in Nat
ASSUME TreesAssumption == Trees \subseteq Seq(File)

VARIABLES
    all,        \* the facts of the files, in chunk order
    phase,      \* "gather", "sites", "finish", "done"
    seen,       \* the keys that have a node
    edges,      \* one edge for each source, type and destination
    external,   \* key -> label of the stand-ins to make
    sites,      \* the calls and bases not yet resolved
    shapes,     \* <<caller, callee, shape>> of the calls resolved
    ledger,     \* keys of the unresolved references
    counts,     \* of calls unresolved and external, and of nodes merged
    nodes       \* the nodes written

vars == <<all, phase, seen, edges, external, sites, shapes, ledger, counts, nodes>>
----------------------------------------------------------------------------
(* The index: first declared wins, over all files of one module id. *)
None == <<>>
OverFiles(Of(_)) == FlattenSeq([i \in DOMAIN all |-> Of(all[i])])
Parsed == {i \in DOMAIN all : ~all[i].failed}
Modules == {all[i].module : i \in Parsed}
FirstNamed(names, name) ==
    LET n == SelectInSeq(names, LAMBDA d : d.name = name) IN IF n = 0 THEN None ELSE <<names[n]>>
Lookup(module, Names(_), name) ==
    FirstNamed(OverFiles(LAMBDA f : IF ~f.failed /\ f.module = module THEN Names(f) ELSE <<>>), name)
Declared(module, name) == Lookup(module, LAMBDA f : f.decls, name)
KeyOf(found) == IF found = None THEN None ELSE found[1].key
Decl(module, name) == KeyOf(Declared(module, name))
Export(module, name) == KeyOf(Lookup(module, LAMBDA f : f.exports, name))
Classes == UNION {ToSet(all[i].classes) : i \in DOMAIN all}
(* The key under which a class's methods are found is made of its bare name. *)
MethodsByName == UNION {{<<Append(all[i].module, m[1]), m[2]>> : m \in ToSet(all[i].methods)} : i \in Parsed}

(* A local name's binding: the last one of the file. *)
NoBinding == [target |-> None, member |-> ""]
Binding(f, name) ==
    LET n == SelectLastInSeq(f.bindings, LAMBDA b : b.local = name) IN
    IF n = 0 THEN NoBinding ELSE f.bindings[n]
Bound(b) == b.target \o (IF b.member = "" THEN <<>> ELSE <<b.member>>)
Middle(parts) == SubSeq(parts, 2, Len(parts) - 1)

OrElse(key, other) == IF key # None THEN key ELSE other
(* `decl_of`: what a written name declares, as this file binds it. *)
DeclOf(f, written) ==
    LET b == Binding(f, Head(written)) IN
    IF Len(written) > 1
    THEN IF b = NoBinding THEN None ELSE Decl(Bound(b) \o Middle(written), Last(written))
    ELSE OrElse(Decl(f.module, Head(written)), IF b.member = "" THEN None ELSE Decl(b.target, b.member))
OnlyClass(key) == IF key \in Classes THEN key ELSE None
ClassOf(f, written) == OnlyClass(DeclOf(f, written))

(***************************************************************************)
(* Receiver typing: the first statement about a name that can be read.     *)
(***************************************************************************)
FirstKnown(seq) == LET n == SelectInSeq(seq, LAMBDA x : x # None) IN IF n = 0 THEN None ELSE seq[n]
ReturnOf(key) ==
    FirstKnown(OverFiles(LAMBDA f :
        [i \in DOMAIN f.returns |-> IF f.returns[i][1] = key THEN ClassOf(f, f.returns[i][2]) ELSE None]))
HintClass(f, h) ==
    OrElse(ClassOf(f, h.written),
           IF h.made /\ DeclOf(f, h.written) # None THEN ReturnOf(DeclOf(f, h.written)) ELSE None)
(* A type that the file's imports place outside the tree. *)
ExternalType(f, written) ==
    LET b == Binding(f, Head(written))
        module == Bound(b) \o Middle(written)
    IN IF b = NoBinding \/ module \in Modules \/ <<Head(module)>> \in Modules THEN None
       ELSE IF Last(module) = Last(written) THEN module ELSE Append(module, Last(written))
Hinted(caller, name, Read(_, _)) ==
    FirstKnown(OverFiles(LAMBDA f :
        [i \in DOMAIN f.hints |-> IF f.hints[i].caller = caller /\ f.hints[i].name = name
                                  THEN Read(f, f.hints[i]) ELSE None]))
Hint(caller, name) == Hinted(caller, name, HintClass)
ExternalHint(caller, name) ==
    Hinted(caller, name, LAMBDA f, h : IF HintClass(f, h) # None THEN None ELSE ExternalType(f, h.written))

(* `method_walk`: its own method, or else the first base's that has one. *)
AllKnown(seq) == FoldLeft(LAMBDA known, x : IF x = None THEN known ELSE Append(known, x), <<>>, seq)
BasesOf(class) ==
    AllKnown(OverFiles(LAMBDA f :
        [i \in DOMAIN f.bases |-> IF f.bases[i][1] = class THEN ClassOf(f, f.bases[i][2]) ELSE None]))
MethodWalkBasesFirst(class, name) ==
    LET walk[d \in 0..Depth] == [c \in Classes \cup {class} |->
            IF d = 0 THEN None
            ELSE LET inherited == FirstKnown([i \in DOMAIN BasesOf(c) |-> walk[d - 1][BasesOf(c)[i]]])
                 IN IF inherited = None /\ <<c, name>> \in MethodsByName THEN Append(c, name) ELSE inherited]
    IN walk[Depth][class]
MethodWalk(class, name) ==
    LET walk[d \in 0..Depth] == [c \in Classes \cup {class} |->
            IF d = 0 THEN None
            ELSE IF <<c, name>> \in MethodsByName THEN Append(c, name)
            ELSE FirstKnown([i \in DOMAIN BasesOf(c) |-> walk[d - 1][BasesOf(c)[i]]])]
    IN walk[Depth][class]
SuperWalk(class, name) ==
    FirstKnown([i \in DOMAIN BasesOf(class) |-> MethodWalk(BasesOf(class)[i], name)])
----------------------------------------------------------------------------
(***************************************************************************)
(* What a call or base comes to: a key, perhaps with stand-ins to note;    *)
(* nothing worth an edge ("skip"); or no key.                              *)
(***************************************************************************)
Unresolved == [is |-> "unresolved", key |-> None, notes |-> <<>>, by |-> "unresolved"]
Silent == [is |-> "skip", key |-> None, notes |-> <<>>, by |-> ""]
ToOrNothing(key, by) ==
    IF key = None THEN Silent ELSE [is |-> "key", key |-> key, notes |-> <<>>, by |-> by]
To(key, by) == IF key = None THEN Unresolved ELSE [is |-> "key", key |-> key, notes |-> <<>>, by |-> by]
Outside(key, label, package, by) ==
    [is |-> "key", key |-> key, by |-> by,
     notes |-> <<<<key, label>>>> \o (IF package = None THEN <<>> ELSE <<<<package, "Package">>>>)]

Plain(f, name) ==
    LET locals == Declared(f.module, name)
        b == Binding(f, name)
        stars == FirstKnown([i \in DOMAIN f.stars |-> Export(f.stars[i], name)])
    IN CASE locals # <<>> /\ ~(locals[1].value /\ b # NoBinding) -> To(locals[1].key, "name")
         [] (locals = <<>> \/ locals[1].value) /\ b # NoBinding ->
               IF b.member = "" THEN Unresolved
               ELSE IF Decl(b.target, b.member) # None THEN To(Decl(b.target, b.member), "name")
               ELSE IF b.target \in Modules \/ Bound(b) \in Modules THEN Unresolved
               ELSE Outside(Bound(b), "Function", b.target, "name")
         [] locals = <<>> /\ b = NoBinding ->
               IF stars # None THEN To(stars, "name")
               ELSE IF name \in Builtins THEN Silent ELSE Unresolved

Chain(f, parts) ==
    LET b == Binding(f, Head(parts))
        module == Bound(b) \o Middle(parts)
        root == <<Head(module)>>
    IN IF b = NoBinding THEN Unresolved
       ELSE IF module \in Modules THEN To(Decl(module, Last(parts)), "chain")
       ELSE IF root \in Modules \/ Decl(f.module, Head(parts)) # None THEN Unresolved
       ELSE Outside(Append(module, Last(parts)), "Function", root, "chain")

(* `x.m()` that is no chain of imports: a receiver of a stated type, a class. *)
Receiver(f, caller, name, method) ==
    LET hint == Hint(caller, name)
        class == ClassOf(f, <<name>>)
        outside == ExternalHint(caller, name)
        Answer(c) == IF c = None THEN None ELSE MethodWalk(c, method)
    IN IF Answer(hint) # None THEN To(Answer(hint), "receiver")
       ELSE IF Answer(class) # None THEN To(Answer(class), "class")
       ELSE IF outside = None THEN Unresolved
       ELSE Outside(Append(outside, method), "Method", None, "external-receiver")

ClassKey(f, site) == Append(f.module, site.class)
ResolveSite(f, site) ==
    CASE site.kind = "plain" -> Plain(f, Head(site.of))
      [] site.kind = "chain" ->
            LET chained == Chain(f, site.of) IN
            IF chained # Unresolved \/ Len(site.of) # 2 THEN chained
            ELSE Receiver(f, site.caller, site.of[1], site.of[2])
      [] site.kind = "this" -> To(MethodWalk(ClassKey(f, site), site.of[2]), "self-class")
      [] site.kind = "super" -> To(SuperWalk(ClassKey(f, site), site.of[1]), "super")
      [] site.kind = "attr" ->
            LET type == Hint(ClassKey(f, site), site.of[2]) IN
            To(IF type = None THEN None ELSE MethodWalk(type, site.of[3]), "self-attr")
      [] site.kind = "base" -> IF Len(site.of) = 1 THEN Plain(f, site.of[1]) ELSE Chain(f, site.of)
----------------------------------------------------------------------------
AddEdge(es, e) ==
    IF \E x \in es : x.src = e.src /\ x.type = e.type /\ x.dst = e.dst THEN es ELSE es \cup {e}
Edge(src, type, dst) == [src |-> src, type |-> type, dst |-> dst, by |-> ""]

(* `note_external`: outside the tree, and the more telling label wins. *)
NoteExternalSeen(ext, key, label) ==
    IF key \in DOMAIN ext /\ ~(ext[key] = "Package" /\ label # "Package") THEN ext
    ELSE [k \in DOMAIN ext \cup {key} |-> IF k = key THEN label ELSE ext[k]]
NoteExternal(ext, key, label) ==
    IF key \in seen \/ (key \in DOMAIN ext /\ ~(ext[key] = "Package" /\ label # "Package")) THEN ext
    ELSE [k \in DOMAIN ext \cup {key} |-> IF k = key THEN label ELSE ext[k]]
NoteAll(ext, notes) == FoldLeft(LAMBDA x, n : NoteExternal(x, n[1], n[2]), ext, notes)
NoteBaseWeak(ext, key) == NoteExternal(ext, key, "Class")
NoteBase(ext, key) ==
    IF key \in seen THEN ext ELSE [k \in DOMAIN ext \cup {key} |-> IF k = key THEN "Class" ELSE ext[k]]

SitesOf(i) ==
    LET f == all[i] IN
    [n \in DOMAIN f.calls |-> [file |-> i, site |-> f.calls[n]]] \o
    [n \in DOMAIN f.bases |-> [file |-> i, site |->
        [caller |-> f.bases[n][1], kind |-> "base", of |-> f.bases[n][2], class |-> "", shape |-> ""]]]

Init ==
    /\ \E tree \in Trees : all = Parse(tree)
    /\ phase = "gather" /\ seen = {} /\ edges = {} /\ external = [k \in {} |-> ""]
    /\ sites = FlattenSeq([i \in DOMAIN all |-> SitesOf(i)])
    /\ shapes = {} /\ ledger = {} /\ nodes = <<>>
    /\ counts = [unresolved |-> 0, external |-> 0, merged |-> 0]

(* Nodes, first seen wins; what the files contain and import; packages. *)
FirstNodes(ns) ==
    FoldLeft(LAMBDA kept, n : IF \E i \in DOMAIN kept : kept[i].key = n.key THEN kept ELSE Append(kept, n), <<>>, ns)
Gather ==
    LET found == OverFiles(LAMBDA f : f.nodes)
        kept == FirstNodes(found)
        contains == UNION {{Edge(c[1], "CONTAINS", c[2]) : c \in ToSet(all[i].contains)} : i \in DOMAIN all}
        packages == {Edge(Front(m), "CONTAINS", m) : m \in {m \in Modules : Len(m) > 1 /\ Front(m) \in Modules}}
        imports == UNION {{Edge(all[i].module, "IMPORTS", t) : t \in ToSet(all[i].imports)} : i \in DOMAIN all}
        foreign == {e.dst : e \in imports} \ Modules
    IN /\ phase = "gather"
       /\ nodes' = kept
       /\ seen' = {kept[i].key : i \in DOMAIN kept}
       /\ edges' = contains \cup packages \cup imports
       /\ external' = [k \in foreign \ seen' |-> "Package"]
       /\ counts' = [counts EXCEPT !.merged = Len(found) - Len(kept),
                                   !.unresolved = FoldLeft(LAMBDA n, f : n + f.opaque, 0, all)]
       /\ phase' = "sites"
       /\ UNCHANGED <<all, sites, shapes, ledger>>

(* One call, in the order of files and sites. *)
Coroutine(key) == \E i \in DOMAIN all : \E n \in DOMAIN all[i].nodes :
    all[i].nodes[n].key = key /\ all[i].nodes[n].async
Written(f, site) ==
    <<"?">> \o f.path \o CASE site.kind = "super" -> <<"super()">> \o site.of
                           [] site.kind \in {"this", "attr"} -> <<"self">> \o Tail(site.of)
                           [] OTHER -> site.of
ShapedCoroutines(site, key) == IF site.shape # "" /\ Coroutine(key) THEN {<<site.caller, key, site.shape>>} ELSE {}
Shaped(site, key) ==
    IF site.shape = "scheduled" \/ (site.shape # "" /\ Coroutine(key))
    THEN {<<site.caller, key, site.shape>>} ELSE {}
ResolveCall ==
    /\ phase = "sites" /\ sites # <<>> /\ Head(sites).site.kind # "base"
    /\ LET f == all[Head(sites).file]
           site == Head(sites).site
       IN \E r \in {ResolveSite(f, site)} :
            /\ external' = NoteAll(external, r.notes)
            /\ shapes' = shapes \cup (IF r.is = "key" THEN Shaped(site, r.key) ELSE {})
            /\ ledger' = ledger \cup (IF r.is = "unresolved" THEN {Written(f, site)} ELSE {})
            /\ counts' = [counts EXCEPT !.unresolved = @ + (IF r.is = "unresolved" THEN 1 ELSE 0),
                                        !.external = @ + (IF r.notes # <<>> THEN 1 ELSE 0)]
            /\ edges' = CASE r.is = "skip" -> edges
                          [] r.is = "key" -> AddEdge(edges, [Edge(site.caller, "CALLS", r.key) EXCEPT !.by = r.by])
                          [] r.is = "unresolved" ->
                                AddEdge(edges, [Edge(site.caller, "CALLS", Written(f, site)) EXCEPT !.by = r.by])
    /\ sites' = Tail(sites)
    /\ UNCHANGED <<all, phase, seen, nodes>>

(* One base; the stand-in of a base is a class. *)
ResolveBase ==
    /\ phase = "sites" /\ sites # <<>> /\ Head(sites).site.kind = "base"
    /\ LET site == Head(sites).site IN
       \E r \in {ResolveSite(all[Head(sites).file], site)} :
            /\ external' = IF r.is = "key" THEN NoteBase(NoteAll(external, r.notes), r.key) ELSE external
            /\ counts' = [counts EXCEPT !.unresolved = @ + (IF r.is = "unresolved" THEN 1 ELSE 0),
                                        !.external = @ + (IF r.notes # <<>> THEN 1 ELSE 0)]
            /\ edges' = IF r.is = "key" THEN AddEdge(edges, Edge(site.caller, "EXTENDS", r.key)) ELSE edges
    /\ sites' = Tail(sites)
    /\ UNCHANGED <<all, phase, seen, shapes, ledger, nodes>>

(* Strings that name a symbol, and functions and classes handed as values. *)
Handed(f, name) ==
    LET locals == Declared(f.module, name)
        b == Binding(f, name)
    IN IF locals # <<>> /\ ~locals[1].value THEN locals[1].key
       ELSE IF b.member = "" THEN None ELSE Decl(b.target, b.member)
Refer ==
    LET named == {s \in UNION {ToSet(all[i].strings) : i \in DOMAIN all} : s[1] \in seen /\ s[2] \in seen}
        values == UNION {{<<h[1], Handed(all[i], h[2])>> : h \in {h \in ToSet(all[i].handed) : h[2] \notin Builtins}}
                            : i \in DOMAIN all}
        refs == named \cup {v \in values : v[2] \in seen \ {v[1]}}
    IN /\ phase = "sites" /\ sites = <<>>
       /\ edges' = edges \cup {Edge(r[1], "REFERENCES", r[2]) : r \in refs}
       /\ phase' = "finish"
       /\ UNCHANGED <<all, seen, external, sites, shapes, ledger, counts, nodes>>

(* The ledger; the types used; and a node for every end that has none. *)
Used == {u \in UNION {{<<t.owner, DeclOf(all[i], t.written)>> : t \in ToSet(all[i].types)} : i \in DOMAIN all} :
            u[2] # None /\ u[1] # u[2]}
NodesOf(keys, LabelFor(_)) ==
    FoldSet(LAMBDA k, ns : Append(ns, [key |-> k, label |-> LabelFor(k), async |-> FALSE]), <<>>, keys)
Finish ==
    LET uses == {Edge(u[1], "USES_TYPE", u[2]) : u \in Used}
        ends == UNION {{e.src, e.dst} : e \in edges \cup uses}
        implied == ends \ (seen \cup ledger \cup DOMAIN external)
    IN /\ phase = "finish"
       /\ edges' = edges \cup uses
       /\ seen' = seen \cup ledger \cup implied
       /\ nodes' = nodes \o NodesOf(ledger, LAMBDA k : "UnresolvedRef") \o NodesOf(implied, LAMBDA k : "Type")
                     \o NodesOf(DOMAIN external, LAMBDA k : external[k])
       /\ phase' = "done"
       /\ UNCHANGED <<all, external, sites, shapes, ledger, counts>>

Next == Gather \/ ResolveCall \/ ResolveBase \/ Refer \/ Finish
Spec == Init /\ [][Next]_vars
----------------------------------------------------------------------------
(***************************************************************************)
(* A finished graph names every node once, whatever files share a module   *)
(* id and however often a stand-in is asked for (tests/dup_probe.rs), and  *)
(* every edge joins two of its nodes.                                      *)
(***************************************************************************)
GraphIsWhole ==
    phase = "done" =>
        /\ \A i, j \in DOMAIN nodes : nodes[i].key = nodes[j].key => i = j
        /\ \A e \in edges : \E i, j \in DOMAIN nodes : nodes[i].key = e.src /\ nodes[j].key = e.dst

(***************************************************************************)
(* However the sites of a caller fold together, each call leaves the edge  *)
(* that is its own: to the key it comes to, or to what it wrote, which the *)
(* ledger then has.  Silence is for names of builtins (resolve.rs:758-822).*)
(***************************************************************************)
Calls(src, dst) == \E e \in edges : e.src = src /\ e.type = "CALLS" /\ e.dst = dst
NoCallDropped ==
    phase = "done" =>
        \A i \in DOMAIN all : \A c \in ToSet(all[i].calls) : \E r \in {ResolveSite(all[i], c)} :
            \/ r.is = "skip" /\ c.kind = "plain" /\ Head(c.of) \in Builtins
            \/ r.is = "key" /\ Calls(c.caller, r.key)
            \/ /\ r.is = "unresolved"
               /\ Calls(c.caller, Written(all[i], c)) /\ Written(all[i], c) \in ledger

(***************************************************************************)
(* However many sites of a caller reach a callee, and in whatever order,   *)
(* the edge to that callee shows that one of them schedules it, or leaves  *)
(* a coroutine unawaited; and what is said to be left unawaited is a       *)
(* coroutine (resolve.rs:159-165, :770-782).                               *)
(***************************************************************************)
ShapesSurvive ==
    phase = "done" =>
        /\ \A s \in shapes : Calls(s[1], s[2]) /\ (s[3] = "unawaited" => Coroutine(s[2]))
        /\ \A i \in DOMAIN all : \A c \in ToSet(all[i].calls) : \E r \in {ResolveSite(all[i], c)} :
              r.is = "key" /\ (c.shape = "scheduled" \/ (c.shape = "unawaited" /\ Coroutine(r.key))) =>
                  Calls(c.caller, r.key) /\ <<c.caller, r.key, c.shape>> \in shapes

(* A stand-in that something extends is a class, whatever else asks for it. *)
BasesAreClasses ==
    phase = "done" =>
        \A e \in edges : e.type = "EXTENDS" /\ e.dst \in DOMAIN external => external[e.dst] = "Class"

(***************************************************************************)
(* self.m() of a class at module level reaches m of the class itself, or   *)
(* else of an ancestor such that no override lies between, and the ledger  *)
(* if there is none.  The walk is depth first, so where two paths lead to  *)
(* one ancestor an override on the second is not met (resolve.rs:547-549); *)
(* a class inside another one may share its bare name (OwnMethods).        *)
(***************************************************************************)
Lineage(class) ==
    LET up[n \in 0..Depth] == IF n <= 1 THEN {class}
                              ELSE up[n - 1] \cup UNION {ToSet(BasesOf(c)) : c \in up[n - 1]}
    IN up[Depth]
TwoPaths(class, ancestor) ==
    \E c \in Lineage(class) : \E i, j \in DOMAIN BasesOf(c) :
        i # j /\ ancestor \in Lineage(BasesOf(c)[i]) \cap Lineage(BasesOf(c)[j])
InnerNamesake(class) ==
    \E c \in Classes : Len(c) = Len(class) + 1 /\ Last(c) = Last(class) /\ Front(Front(c)) = Front(class)
MethodKeys == {nodes[i].key : i \in {i \in DOMAIN nodes : nodes[i].label = "Method"}}
OverridesWin ==
    phase = "done" =>
        \A i \in DOMAIN all : \A n \in DOMAIN all[i].calls :
            LET c == all[i].calls[n]
                class == Front(c.caller)
                having == {d \in Lineage(class) : Append(d, c.of[2]) \in MethodKeys}
                Overridden(d) == \E o \in having : d \in Lineage(o) /\ o \notin Lineage(d)
            IN c.kind = "this" /\ class = ClassKey(all[i], c) /\ (\A d \in Lineage(class) : ~InnerNamesake(d)) =>
                IF having = {} THEN Written(all[i], c) \in ledger
                ELSE \E d \in having :
                        /\ \E e \in edges : e.src = c.caller /\ e.type = "CALLS" /\ e.dst = Append(d, c.of[2])
                        /\ class \in having => d = class
                        /\ Overridden(d) => TwoPaths(class, d)

(***************************************************************************)
(* As plugins/py/README.md:131 has it: "`self.m()` / `cls.m()` resolve     *)
(* lexically to the class's own methods".                                  *)
(***************************************************************************)
OwnMethods == phase = "done" => \A e \in edges : e.by = "self-class" => e.dst \in MethodKeys
=============================================================================
