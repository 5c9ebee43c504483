---------------------------- MODULE Declarations ----------------------------
(***************************************************************************)
(* The plugins that read what a repository declares it runs, is built on   *)
(* and depends on, as the Chunks behind the contract.  Kubernetes and      *)
(* Terraform resolve in `assemble` what no chunk could; the others are     *)
(* `Simple` (sdk/rust/src/lib.rs).                                         *)
(***************************************************************************)
EXTENDS Manifests

Deps == INSTANCE Deps
Toml == INSTANCE TomlTables
Xml == INSTANCE Mybatis
----------------------------------------------------------------------------
(* The plugins, for the constants of Chunks.                               *)
ReadBy(plugin, file) ==
    CASE plugin = "k8s" -> K8s!Read(file)
      [] plugin = "terraform" -> Terraform!Read(file)
      [] plugin = "compose" -> Compose!Process(file)
      [] plugin = "deps" -> Deps!Process(file)
      [] plugin = "toml" -> Toml!Process(file)
      [] plugin = "xml" -> Xml!Process(file)
ResolvedBy(plugin, c) ==
    CASE plugin = "k8s" -> K8s!Resolve(c) [] plugin = "terraform" -> Terraform!Resolve(c) [] OTHER -> Simple!Finish(c)
----------------------------------------------------------------------------
(***************************************************************************)
(* What the files are, as far as they are read.  A list is a list.         *)
(***************************************************************************)
IsTables(f) ==
    /\ f.state \in {"unreadable", "invalid", "read"}
    /\ f.state = "read" => Facts!IsRow(f.tables) /\ \A item \in ToSet(f.tables) : item \in Toml!Item[Nesting]
IsBuildFile(f) ==
    f.state # "unreadable" =>
        /\ f.kind \in {"package.json", "go.mod", "requirements.txt", "pyproject.toml", "pom.xml", "build.gradle",
                        "unknown", "unparsed"}
        /\ f.kind \in {"go.mod", "requirements.txt", "pom.xml", "build.gradle"} => Facts!IsRow(f.content)
        /\ f.kind = "package.json" =>
              /\ Facts!IsRow(f.content.dependencies) /\ Facts!IsRow(f.content.devDependencies)
              /\ Facts!IsRow(f.content.peerDependencies) /\ Facts!IsRow(f.content.optionalDependencies)
        /\ f.kind = "pyproject.toml" =>
              /\ Facts!IsRow(f.content.dependencies) /\ Facts!IsRow(f.content.poetry)
              /\ Facts!IsRow(f.content.groups) /\ \A g \in ToSet(f.content.groups) : Facts!IsRow(g)
        /\ f.kind = "pom.xml" => \A e \in ToSet(f.content) : e.ev \in {"start", "end", "text"}
IsEvent(e) ==
    /\ e.ev \in {"start", "empty", "end", "text"}
    /\ e.ev = "text" => Facts!IsRow(e.text)
    /\ e.ev \in {"start", "empty"} =>
          \A a \in {"prefix", "suffix", "open", "close", "resultMap"} \cap DOMAIN e.attrs : Facts!IsRow(e.attrs[a])
IsXml(f) ==
    f.state # "unreadable" => Facts!IsRow(f.events) /\ \A e \in ToSet(f.events) : IsEvent(e)
IsReadable(plugin, f) ==
    CASE plugin = "terraform" -> IsConfiguration(f)
      [] plugin = "compose" -> IsProject(f)
      [] plugin = "deps" -> IsBuildFile(f)
      [] plugin = "toml" -> IsTables(f)
      [] plugin = "xml" -> IsXml(f)

(* The plugins behind the contract are these, and read what they can.      *)
ASSUME DeclarationAssumption ==
    \A t \in {t \in Tree : t.plugin # "k8s"} :
        /\ t.plugin \in {"terraform", "compose", "deps", "toml", "xml"}
        /\ PartsOf(t.plugin) = FieldsOf(t.plugin)
        /\ \A i \in DOMAIN t.files :
              IsReadable(t.plugin, t.files[i]) /\ FindIn(t.plugin, t.files[i]) = ReadBy(t.plugin, t.files[i])
        /\ AnswerTo(t) = ResolvedBy(t.plugin, Whole(t.plugin, t.files))
----------------------------------------------------------------------------
Blocks == UNION {ToSet(f.blocks) : f \in Files({"read"})}

(***************************************************************************)
(* "An edge must not point at a node nobody minted" (compose lib.rs:318,   *)
(* terraform lib.rs:182): every edge joins two nodes of the answer, except *)
(* a mount, a route or a `depends_on` by the name of something that no     *)
(* file of the tree declares.                                              *)
(***************************************************************************)
ServiceOf(key) ==
    \E f \in Files({"read"}) : f.doc.services # None /\ \E s \in ToSet(f.doc.services[1]) :
        s.name # "" /\ key = Compose!Under(Compose!ProjectOf(f.path, f.doc), "service", s.name)
OnlyReferencesDangle ==
    /\ OnlyMountsDangle
    /\ out # Pending /\ input.plugin # "k8s" => \A e \in Edges :
          /\ e.src \in NodeKeys
          /\ e.dst \in NodeKeys \/ (input.plugin = "compose" /\ e.type = "DEPENDS_ON" /\ ~ServiceOf(e.dst))

(***************************************************************************)
(* plugins/terraform/README.md, "Where its graph lives": what a block      *)
(* refers to is an edge where a file of the tree, in whatever chunk, has a *)
(* block of that address, and is counted where none has.                   *)
(***************************************************************************)
Mentioned[n \in 0..Nesting] ==
    IF n = 0 THEN <<>>
    ELSE [body \in Terraform!Body[n] |->
             UNION {ToSet(Terraform!Addresses(a.expr)) : a \in ToSet(body.attrs)}
             \cup UNION {Mentioned[n - 1][b] : b \in ToSet(body.blocks)}]
Mentions(body) == Mentioned[Nesting][body]
Address(block) ==
    CASE block.is = "resource" -> block.labels[1] \o <<".">> \o block.labels[2]
      [] block.is = "data" -> <<"data", ".">> \o block.labels[1] \o <<".">> \o block.labels[2]
      [] block.is = "variable" -> <<"var", ".">> \o block.labels[1]
      [] OTHER -> <<block.is, ".">> \o block.labels[1]
Addressed == {b \in Blocks : Terraform!LabelsOf(b.is) \in 1..Len(b.labels)}
Referring == {b \in Addressed : b.is \in {"resource", "data", "module", "output"}}
ReferencesAsDeclared ==
    LET declared == {Address(b) : b \in Addressed}
        providers == {Terraform!Provider(b.labels[1]) : b \in {b \in Referring : b.is = "resource"}}
    IN Answered({"terraform"}) =>
        /\ \A b \in Referring : \A d \in Mentions(b.body) \ {Address(b)} :
              d \in declared <=> \E e \in Edges : e.src = Address(b) /\ e.dst = d
        /\ out.dangling = 0 <=>
              /\ providers \subseteq declared
              /\ \A b \in Referring : Mentions(b.body) \ {Address(b)} \subseteq declared

(* What the mappers' statements say: the text of each, and what its result *)
(* maps list; the words a table follows; what a qualifier may stand for.   *)
Statements ==
    UNION {LET p == Xml!Parsed(f.events) IN
           {[key |-> <<f.path, "#", s.id>> \o (IF s.database = "" THEN <<>> ELSE <<"@", s.database>>),
             text |-> Xml!Assemble(p, s),
             mapped |-> UNION {Xml!ColumnsOf(p, map) : map \in ToSet(s.maps)}] : s \in ToSet(p.statements)}
           : f \in {f \in Files({"read"}) : Xml!Dialect(f.events) = "mapper"}}
Introducing == {"from", "join", "using", "into", "update", "merge"}
HoleForTable(text) ==
    \E i, hole \in DOMAIN text :
        /\ i < hole /\ Xml!IsAny(text, i, Introducing) /\ Xml!Kind(text, hole) = "interp"
        /\ hole = i + 1 \/ Xml!Kind(text, hole - 1) = "comma"
        /\ \A j \in (i + 1)..(hole - 1) : Xml!Kind(text, j) # "keyword" \/ Xml!IsWord(text, j, "as")
StandsFor(text, qualifier, table) ==
    \/ qualifier = table
    \/ \E i \in DOMAIN text :
          LET behind == IF Xml!IsWord(text, i + 1, "as") THEN i + 2 ELSE i + 1
          IN text[i].word = table /\ behind \in DOMAIN text /\ text[behind].word = qualifier

(***************************************************************************)
(* plugins/xml/README.md:119-123, "a column under the wrong table is a     *)
(* worse answer than a column named and left alone": a statement uses      *)
(* columns of tables it reads or writes, and where its text joins several, *)
(* or leaves one to a `${...}`, a column is of the table that its          *)
(* qualifier is, or is declared in that text to stand for.  Exempt is what *)
(* a result map lists, which is given to the only table that is named.     *)
(***************************************************************************)
ColumnsUnderTheirTable ==
    Answered({"xml"}) => \A s \in Statements :
        LET tables == {e.dst : e \in {e \in Edges : e.src = s.key /\ e.type \in {"READS", "WRITES"}}}
        IN \A e \in {e \in Edges : e.src = s.key /\ e.type = "USES_COLUMN"} :
              /\ Front(e.dst) \in tables
              /\ Cardinality(tables) > 1 \/ (HoleForTable(s.text) /\ Last(e.dst) \notin s.mapped) =>
                    \E tok \in ToSet(s.text) :
                        /\ Len(tok.word) > 1 /\ Last(tok.word) = Last(e.dst)
                        /\ StandsFor(s.text, Front(tok.word), Front(e.dst))

(***************************************************************************)
(* sdk/rust/src/ops.rs:39-43: a colon is a tag's "only in the final path   *)
(* segment", and the parts of an image reference put together again are    *)
(* the reference, unless the path behind the registry also occurs further  *)
(* ahead (`docker.io/docker/app`), where the slice is taken at the wrong   *)
(* place, or begins with a slash of its own (`docker.io//app`), which is   *)
(* trimmed.                                                                *)
(***************************************************************************)
ImagesRejoin ==
    out # Pending => \A i \in DOMAIN out.nodes :
        LET n == out.nodes[i] IN
        n.label = "Image" =>
            /\ n.parts.tag # None => "/" \notin ToSet(n.parts.tag[1])
            /\ (n.parts.registry # None => /\ ~Compose!Echoes(n.key, n.parts.registry[1])
                                          /\ ~Compose!Doubled(n.key, n.parts.registry[1]))
                  => Compose!Rejoined(n.parts) = n.key

(***************************************************************************)
(* plugins/deps/README.md:42, a pom's dependencies are its <dependencies>: *)
(* each is recorded under the artifact written directly in its element.    *)
(***************************************************************************)
PathAt(events, n) ==
    FoldLeft(LAMBDA path, e : CASE e.ev = "start" -> Append(path, e.name) [] e.ev = "end" -> Front(path) [] OTHER -> path,
             <<>>, SubSeq(events, 1, n))
Artifacts(events) ==
    {events[n].text : n \in {n \in DOMAIN events : events[n].ev = "text"
                                /\ IsSuffix(<<"dependency", "artifactId">>, PathAt(events, n))}}
DependsAsWritten ==
    Answered({"deps"}) => \A f \in {f \in ToSet(input.files) : f.kind = "pom.xml"} :
        \A artifact \in Artifacts(f.content) : \E e \in Edges : e.src = <<f.path>> /\ e.dst[2] = artifact
=============================================================================
