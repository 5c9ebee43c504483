--------------------------------- MODULE Jvm ---------------------------------
(***************************************************************************)
(* What the Java and the Kotlin plugin have in common: how they read a     *)
(* type's name, and what Spring's container would wire, read from the      *)
(* source: which types are beans, under which name, and which bean a call  *)
(* through an injected port reaches.                                       *)
(***************************************************************************)
EXTENDS TypedResolve

CONSTANT Decapitalized   \* the default bean name of a type's simple name
----------------------------------------------------------------------------
(* Names: the package of the file first, its imports, its wildcard imports *)
(* in order, and last what the language imports everywhere.                *)

(* A package names its top-level types. *)
TopLevel(all) ==
    UNION {{f.types[i].key : i \in {i \in DOMAIN f.types : Front(f.types[i].key) = f.package}} : f \in ToSet(all)}
Packages(all) == {f.package : f \in ToSet(all)} \ {<<>>}

SimpleRef(ix, f, name) ==
    LET here == Append(f.package, name)
        imported == Find(f.imports, LAMBDA i : ~i.member /\ i.local = name)
        wild == Find(f.wildcards, LAMBDA p : Append(p, name) \in DOMAIN ix.types)
    IN IF here \in ix.top THEN InTree(here)
       ELSE IF imported # None
            THEN Some([key |-> imported[1].target, in |-> imported[1].target \in DOMAIN ix.types])
       ELSE IF wild # None THEN InTree(Append(wild[1], name))
       ELSE IF name \in ix.default.types THEN Foreign(Append(ix.default.package, name)) ELSE None

(* A dotted name: as it is written, or inside the type its head names; one *)
(* that starts in lower case is a package path.                            *)
QualifiedRef(ix, f, written) ==
    LET outer == SimpleRef(ix, f, Head(written)) IN
    IF written \in DOMAIN ix.types THEN InTree(written)
    ELSE IF outer # None /\ outer[1].in /\ outer[1].key \o Tail(written) \in DOMAIN ix.types
         THEN InTree(outer[1].key \o Tail(written))
    ELSE IF Head(written) \notin Capitalised THEN Foreign(written) ELSE None
----------------------------------------------------------------------------
(* Spring. *)
BeanName(c, default) == IF c.anno.arg # "" THEN c.anno.arg ELSE default
Decapitalize(name) == IF name \in DOMAIN Decapitalized THEN Decapitalized[name] ELSE name

(* Beans by type: what carries a stereotype, and what @Bean methods return; *)
(* the first wins.  @Primary ranks one.                                     *)
BeanOf(ix, stereotypes, returns, c) ==
    LET anno == Last(c.written) IN
    IF anno \in stereotypes /\ c.src \in DOMAIN ix.types
    THEN Some(<<c.src, BeanName(c, Decapitalize(Last(c.src)))>>)
    ELSE IF anno = "Bean" /\ c.src \in DOMAIN returns THEN Some(<<returns[c.src], BeanName(c, Last(c.src))>>)
    ELSE None
BeanIndex(ix, stereotypes, returns, all) ==
    LET annotations == OverFiles(all, Annotated)
        names == FirstMap(FlattenSeq([i \in DOMAIN annotations |-> BeanOf(ix, stereotypes, returns, annotations[i])]))
        marked == {annotations[i].src : i \in {i \in DOMAIN annotations : Last(annotations[i].written) = "Primary"}}
        primary == marked \cup {returns[m] : m \in marked \cap DOMAIN returns}
    IN [k \in DOMAIN names |-> [name |-> names[k], primary |-> k \in primary]]
ImplementorIndex(ix, all) ==
    UNION {{<<p, t.key>> : p \in Ancestors(ix, f, t.key)} : <<f, t>> \in
        UNION {{<<f, t>> : t \in ToSet(f.types)} : f \in ToSet(all)}}

(***************************************************************************)
(* `pick`: only an injected receiver is dispatched, and only through an    *)
(* interface; a candidate is a bean that answers the method.               *)
(***************************************************************************)
Candidates(ix, w, f, port, method) ==
    {b \in DOMAIN w.beans : <<port, b>> \in w.under /\ FindMethod(ix, f, b, method) # None}
RulesAny(w, candidates, injection, all) ==  \* a variant that picks one among many
    Wired({CHOOSE b \in candidates : TRUE}, "spring-bean")
Rules(w, candidates, injection, all) ==
    LET qualified == IF injection = None \/ injection[1].qualifier = "" THEN {}
                     ELSE {b \in candidates : w.beans[b].name = injection[1].qualifier}
        primary == {b \in candidates : w.beans[b].primary}
    IN IF qualified # {} THEN Wired({CHOOSE b \in qualified : TRUE}, "spring-qualifier")
       ELSE IF Cardinality(candidates) = 1 THEN Wired(candidates, "spring-bean")
       ELSE IF Cardinality(primary) = 1 THEN Wired(primary, "spring-primary")
       ELSE IF all THEN Wired(candidates, "spring-bean-collection")
       ELSE [Silent EXCEPT !.ambiguous = TRUE]
Pick(ix, w, f, port, method, owner, name) ==
    LET injection == InjectionAt(w, owner, name)
        all == <<owner, port>> \in w.collections
        candidates == Candidates(ix, w, f, port, method)
        chosen == Rules(w, candidates, injection, all)
    IN IF injection = None /\ ~all THEN Silent
       ELSE IF port \notin DOMAIN ix.types \/ ix.types[port].kind # "Interface" \/ candidates = {} THEN Silent
       ELSE [chosen EXCEPT !.dsts = {Append(FindMethod(ix, f, b, method)[1], method) : b \in @}]
=============================================================================
