----------------------------- MODULE Languages -----------------------------
(***************************************************************************)
(* The language plugins behind the contract (wit/preprocess.wit): the host *)
(* has every chunk parsed, in whatever order its workers get to them, and  *)
(* then has the partials assembled once, in chunk order.  A chunk is one   *)
(* file: the parsers look at no other file than the one they are given.    *)
(***************************************************************************)
EXTENDS FactGraph

CONSTANTS
    Projects,       \* [lang, files]: the trees considered
    Capitalised, Variables, JavaLang, Decapitalized,
    DefaultImports, Interfaced, Suffixed, SystemTypes, Membered, Controllers

VARIABLES
    project,    \* the tree, and the plugin that claims it
    partials,   \* what parse returned, by chunk
    answer      \* what assemble returned

vars == <<project, partials, answer>>

Java == INSTANCE JavaPlugin
Kotlin == INSTANCE KotlinPlugin
CSharp == INSTANCE CSharpPlugin
----------------------------------------------------------------------------
(* `Guest::parse` and `Guest::assemble` of each component. *)
JavaParse(file) == Java!ParseFile(file)
JavaAssemble(chunks) == Java!Assemble(chunks)
KotlinParse(file) == Kotlin!ParseFile(file)
KotlinAssemble(chunks) == Kotlin!Assemble(chunks)
CSharpParse(file) == CSharp!ParseFile(file)
CSharpAssemble(chunks) == CSharp!Assemble(chunks)

Parse(lang, file) ==
    CASE lang = "java" -> JavaParse(file)
      [] lang = "kotlin" -> KotlinParse(file)
      [] lang = "csharp" -> CSharpParse(file)
AssembleOf(lang, chunks) ==
    CASE lang = "java" -> JavaAssemble(chunks)
      [] lang = "kotlin" -> KotlinAssemble(chunks)
      [] lang = "csharp" -> CSharpAssemble(chunks)

Chunks == DOMAIN project.files
Init ==
    /\ project \in Projects
    /\ partials = [i \in Chunks |-> None]
    /\ answer = None

ParseChunk(i) ==
    /\ partials[i] = None
    /\ partials' = [partials EXCEPT ![i] = Some(Parse(project.lang, project.files[i]))]
    /\ UNCHANGED <<project, answer>>

AssembleAll ==
    /\ answer = None
    /\ \A i \in Chunks : partials[i] # None
    /\ answer' = Some(AssembleOf(project.lang, [i \in Chunks |-> partials[i][1]]))
    /\ UNCHANGED <<project, partials>>

Next == AssembleAll \/ \E i \in Chunks : ParseChunk(i)
Spec == Init /\ [][Next]_vars

----------------------------------------------------------------------------
Done == answer # None
Graph == answer[1]
Facts == {partials[i][1] : i \in Chunks}
DeclaredKeys == UNION {Keys(f.nodes) \cup {f.package} \cup ToSet(f.namespaces) : f \in Facts}
Calls == {e \in Graph.edges : e.type = "CALLS"}

(* The bases of a type, as the clauses of its own declaration were bound.  *)
Bases(type) == {e.dst : e \in {e \in Graph.edges : e.type \in {"EXTENDS", "IMPLEMENTS"} /\ e.src = type}}
RECURSIVE Above(_, _)
Above(types, seen) ==
    LET next == UNION {Bases(t) : t \in types} \ seen IN IF next = {} THEN seen ELSE Above(next, seen \cup next)
AtOrAbove(type) == Above({type}, {type})

(* The bodies of a file: the key of a callable and the expressions in it.  *)
Bodies(lang, file) ==
    LET In(parent, t) == {<<parent \o <<t.name, m.name>>, m.body>> : m \in {m \in ToSet(t.members) : m.m = "method"}}
        Here(parent, decls) ==
            UNION {In(parent, d.type) : d \in {d \in ToSet(decls) : d.m = "type"}}
            \cup {<<Append(parent, d.name), d.body>> : d \in {d \in ToSet(decls) : d.m = "method"}}
    IN CASE lang = "java" -> UNION {In(file.package, t) : t \in ToSet(file.types)}
         [] lang = "kotlin" -> Here(file.package, file.decls)
         [] lang = "csharp" -> Here(<<>>, file.decls)
                \cup UNION {Here(d.name, d.decls) : d \in {d \in ToSet(file.decls) : d.m = "namespace"}}
----------------------------------------------------------------------------
(* The answer is a graph: one node per key, a node for each end of an edge *)
(* (`add_implied`), and calls only out of what some file declares.         *)
Whole ==
    Done => /\ Cardinality(Keys(Graph.nodes)) = Len(Graph.nodes)
            /\ Ends(Graph.edges) \subseteq Keys(Graph.nodes)
            /\ \A e \in Calls : e.src \in DeclaredKeys

(* READMEs, "Misses that resolve nowhere are counted, never guessed": what *)
(* a callable calls is an edge out of it or is in the count of unresolved. *)
Missed(b) ==
    Cardinality({n \in DOMAIN b[2] : b[2][n].x = "call" /\ ~\E e \in Calls : e.src = b[1] /\ Last(e.dst) = b[2][n].method})
MissesCounted ==
    Done => LET bodies == UNION {Bodies(project.lang, project.files[i]) : i \in {i \in Chunks : ~partials[i][1].failed}}
            IN MapThenSumSet(Missed, bodies) <= Graph.unresolved

(* A call bound to a member of a type of this tree ends where a file       *)
(* declares that member, unless the source spells the target out itself.   *)
CallsLand ==
    Done => LET types == UNION {{t.key : t \in ToSet(f.types)} : f \in Facts}
                spelled == UNION {ToSet(f.importLines) : f \in Facts}
            IN \A e \in Calls : Front(e.dst) \in types /\ e.dst \notin spelled => e.dst \in DeclaredKeys

(* The READMEs' injection sections: beside an edge a container implies     *)
(* stands the call the source wrote, to a member of the same name on an    *)
(* interface that a type at or below the one reached is declared under.    *)
WiringRules == {"spring-bean", "spring-qualifier", "spring-primary", "spring-bean-collection",
                "di-registration", "di-keyed", "di-registration-collection"}
Interfaces_ == {Graph.nodes[n].key : n \in {n \in DOMAIN Graph.nodes : Graph.nodes[n].label = "Interface"}}
PortOf(e) ==
    {Front(p.dst) : p \in {p \in Calls : p.src = e.src /\ p.by \in {"receiver", "self-attr"}
                                         /\ Last(p.dst) = Last(e.dst) /\ Front(p.dst) \in Interfaces_}}
Beneath(port) == {t \in Keys(Graph.nodes) : port \in AtOrAbove(t)}
PortKept ==
    Done => \A e \in Calls : e.by \in WiringRules =>
                \E port \in PortOf(e) : \E t \in Beneath(port) : Front(e.dst) \in AtOrAbove(t)

(* What a container could hand out for a port, as the files declare it: a  *)
(* type at or below it that carries a stereotype or that a @Bean method    *)
(* returns, with what declares it so; what is registered for it unkeyed.   *)
Stereotyped == {"Service", "Component", "Repository", "Controller", "RestController", "Configuration"}
Marks(f, names) == {c.src : c \in {c \in ToSet(f.clauses) : c.type = "ANNOTATED_BY" /\ Last(c.written) \in names}}
BeanSources(f) ==
    {<<t, t>> : t \in Marks(f, Stereotyped)}
    \cup UNION {{<<r[1], t>> : t \in {t \in DeclaredKeys : t # <<>> /\ Last(t) = Last(r[2])}} :
                r \in {r \in ToSet(f.returns) : r[1] \in Marks(f, {"Bean"})}}
BeansFor(port) == {b \in UNION {BeanSources(f) : f \in Facts} : b[2] \in Beneath(port)}
RegisteredFor(port, key) ==
    {r \in UNION {{<<f, n>> : n \in DOMAIN f.registrations} : f \in Facts} :
        LET row == r[1].registrations[r[2]] IN row.key = key /\ Last(row.service) = Last(port)}
Implementation(r) == Last(r[1].registrations[r[2]].implementation)
(* The READMEs' injection tables, "one bean implements the port", "one     *)
(* unkeyed registration answers": where that rule chose, the tree shows no *)
(* second type that could have been handed out.  A type that is a bean     *)
(* twice is one.  Two candidates are excepted, since the code drops them   *)
(* before it counts, and draws the edge although the container has another *)
(* choice: a factory that returns the port itself, and a registration of a *)
(* type outside the tree (csharp resolve.rs:715, against csharp            *)
(* README:149, "Nothing is emitted when several registrations answer").  A *)
(* rule for one names no two.                                              *)
NeverGuessed ==
    Done => \A e \in Calls :
        /\ e.by = "spring-bean" =>
             \E port \in PortOf(e) : Cardinality({b[2] : b \in BeansFor(port)} \ {port}) <= 1
        /\ e.by = "di-registration" =>
             \E port \in PortOf(e) :
                Cardinality({Implementation(r) : r \in RegisteredFor(port, "")} \cap {Last(k) : k \in DeclaredKeys \ {<<>>}}) <= 1
        /\ e.by \in {"spring-bean", "spring-primary", "di-registration", "di-keyed"} =>
             Cardinality({d \in Calls : d.src = e.src /\ d.by = e.by /\ Last(d.dst) = Last(e.dst)})
                <= Cardinality(PortOf(e))
----------------------------------------------------------------------------
(* What the first file to say it settles for all: a key's declaration, but *)
(* for the halves of a partial type; the extension for a type and a name;  *)
(* the registration under a key; what a bean is called.                    *)
Partial(f) == IF project.lang = "csharp" THEN {t.key : t \in ToSet(f.types)} ELSE {}
Settles(f) ==
    {<<"key", k>> : k \in Keys(f.nodes) \ Partial(f)}
    \cup {<<"extension", x[1]>> : x \in ToSet(f.extensions)}
    \cup {<<"keyed", Last(r.service), r.key>> : r \in {r \in ToSet(f.registrations) : r.key # ""}}
    \cup {<<"bean", b[2]>> : b \in BeanSources(f)}
Offers(types) == UNION {UNION {t.methods : t \in {t \in ToSet(f.types) : t.key \in types}} : f \in Facts}
Contested ==
    \/ \E i, j \in Chunks : i # j /\ Settles(partials[i][1]) \cap Settles(partials[j][1]) # {}
    \* the bases of a type's halves both answer a name; a type is a namespace, too
    \/ \E i, j \in Chunks : \E t \in Partial(partials[i][1]) \cap Partial(partials[j][1]) :
            i # j /\ \E a, b \in Bases(t) : a # b /\ Offers(AtOrAbove(a)) \cap Offers(AtOrAbove(b)) # {}
    \/ \E f, g \in Facts : Partial(f) \cap ToSet(g.namespaces) # {}
    \* two global usings hold a type of one name
    \/ \E a, b \in UNION {ToSet(f.globals) : f \in Facts} :
            a # b /\ \E k, l \in DeclaredKeys \ {<<>>} : Front(k) = a /\ Front(l) = b /\ Last(k) = Last(l)
SameFacts(one, other) == one.edges = other.edges /\ Keys(one.nodes) = Keys(other.nodes)
(* Names bind through the whole tree, not through what came before: unless *)
(* files contest what the first of them settles, the edges and what is     *)
(* declared are the same whatever order the files come in, the halves of a *)
(* partial type included.                                                  *)
OrderFree ==
    Done /\ ~Contested =>
        \A order \in Permutations(Chunks) :
            SameFacts(AssembleOf(project.lang, [i \in Chunks |-> partials[order[i]][1]]), Graph)
=============================================================================
