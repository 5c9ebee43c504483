--------------------------- MODULE MCDeclarations ---------------------------
(***************************************************************************)
(* Small trees for each plugin: three files for the two whose files refer  *)
(* to each other, two for those whose files do not, and one Compose file   *)
(* for every image reference of a small grammar.                           *)
(***************************************************************************)
EXTENDS Declarations

Routed(plugin, files) == [plugin |-> plugin, files |-> files]
----------------------------------------------------------------------------
(* Kubernetes: what a service selects, in another file and in another      *)
(* namespace; mounts and routes declared elsewhere or nowhere.             *)
App == <<"app", "api">>
Web == <<"tier", "web">>
Db == <<"tier", "db">>

Named(kind, ns, name) == [kind |-> kind, ns |-> ns, name |-> name]
With(doc, labels, volumes, containers) ==
    [f \in {"kind", "ns", "name", "labels", "volumes", "containers"} |->
        CASE f = "labels" -> labels
          [] f = "volumes" -> volumes
          [] f = "containers" -> containers
          [] OTHER -> doc[f]]
SelectorOf(ns, name, selector) == [kind |-> "Service", ns |-> ns, name |-> name, selector |-> selector]
Manifest(docs) == [state |-> "manifest", docs |-> docs]

Api == [name |-> "api", image |-> <<"redis">>, mounts |-> <<"data", "tmp">>,
        from |-> <<<<"ConfigMap", "cfg">>>>]
Wait == [name |-> "wait", image |-> <<>>, mounts |-> <<>>, from |-> <<>>]
Unnamed == [name |-> "", image |-> <<"redis">>, mounts |-> <<>>, from |-> <<>>]
Data == <<[name |-> "data", target |-> <<"Secret", "old">>],
          [name |-> "data", target |-> <<"Volume", "claim">>]>>

Manifests == {
    [state |-> "unreadable", docs |-> <<>>],
    [state |-> "not yaml", docs |-> <<>>],
    Manifest(<<>>),
    Manifest(<<Named("", "", ""), Named("null", "", "")>>),
    Manifest(<<Named("", "", ""), Named("ConfigMap", "a", "cfg")>>),
    Manifest(<<Named("Namespace", "default", "a"), Named("Namespace", "default", "")>>),
    Manifest(<<With(Named("Deployment", "a", "api"), {App, Web}, Data, <<Api, Wait, Unnamed>>)>>),
    Manifest(<<With(Named("CronJob", "b", "api"), {App}, <<>>, <<Api>>),
               Named("Widget", "b", "w"), With(Named("Deployment", "a", "api"), {Web, Db}, <<>>, <<Wait>>)>>),
    Manifest(<<SelectorOf("a", "api", {App, Web}), SelectorOf("b", "api", {App, Db})>>),
    Manifest(<<SelectorOf("b", "all", {App}), SelectorOf("a", "none", {}), SelectorOf("a", "", {App})>>),
    Manifest(<<[kind |-> "Ingress", ns |-> "a", name |-> "in", backends |-> <<"api", "gone">>]>>),
    Manifest(<<Named("PersistentVolumeClaim", "a", "claim"), Named("Secret", "a", "old")>>)}

Thirds == {m \in Manifests : \E i \in DOMAIN m.docs : m.docs[i].kind \in {"Deployment", "Service", "PersistentVolumeClaim"}}
ManifestFile(path, c) == [path |-> path, state |-> c.state, docs |-> c.docs]
K8sTrees ==
    {Routed("k8s", <<ManifestFile("1", a), ManifestFile("2", b), ManifestFile("3", c)>>) :
        a \in Manifests, b \in Manifests, c \in Thirds}
----------------------------------------------------------------------------
(* Terraform: blocks that refer to one another across files and roots.     *)
Text(s) == [e |-> "string", text |-> <<s>>]
Var(name) == [e |-> "traversal", root |-> <<"var">>, attrs |-> <<<<name>>>>, index |-> <<>>]
Subnet == <<"aws", "_", "subnet">>
Main(attrs) == [e |-> "traversal", root |-> Subnet, attrs |-> attrs, index |-> <<Var("zone")>>]
Got(root, attrs) == [e |-> "traversal", root |-> <<root>>, attrs |-> attrs, index |-> <<>>]
Over(parts) == [e |-> "over", parts |-> parts]
Attr(key, expr) == [key |-> key, expr |-> expr]
Body(attrs, blocks) == [attrs |-> attrs, blocks |-> blocks]
Block(is, labels, body) == [is |-> is, labels |-> labels, body |-> body]
Bare == Body(<<>>, <<>>)

SubnetBlock == Block("resource", <<Subnet, <<"main">>>>,
                     Body(<<Attr("cidr", Var("cidr")), Attr("self", Main(<<<<"main">>>>))>>, <<>>))
ServiceBlock ==
    Block("resource", <<<<"aws", "_", "ecs">>, <<"web">>>>,
          Body(<<Attr("net", Over(<<Main(<<<<"main">>, <<"id">>>>), Got("local", <<<<"x">>>>), Main(<<>>)>>)),
                 Attr("depends_on", Over(<<Got("module", <<<<"net">>>>), Main(<<<<"main">>>>)>>))>>,
               <<Body(<<Attr("image", Text("redis")), Attr("env", Var("cidr"))>>, <<Body(<<Attr("image", Var("image"))>>, <<>>)>>)>>))
DataBlock == Block("data", <<<<"aws", "_", "ami">>, <<"os">>>>, Body(<<Attr("owner", Got("data", <<<<"x">>>>))>>, <<>>))
OutputBlock == Block("output", <<<<"ami">>>>,
                     Body(<<Attr("value", Got("data", <<<<"aws", "_", "ami">>, <<"os">>, <<"id">>>>)), Attr("note", Text("x"))>>, <<>>))
Modules == <<Block("module", <<<<"net">>>>, Body(<<Attr("source", Text("./net")), Attr("cidr", Var("cidr"))>>, <<>>)),
             Block("module", <<>>, Bare), Block("locals", <<>>, Bare)>>

Configuration(blocks) == [state |-> "read", blocks |-> blocks]
Variables == Configuration(<<Block("variable", <<<<"cidr">>>>, Bare), Block("variable", <<<<"image">>>>, Bare)>>)
Configurations == {
    [state |-> "unreadable", blocks |-> <<>>], [state |-> "values", blocks |-> <<>>],
    [state |-> "invalid", blocks |-> <<>>], Configuration(<<>>),
    Configuration(<<SubnetBlock>>), Configuration(<<ServiceBlock>>), Configuration(Modules),
    Configuration(<<DataBlock, Block("provider", <<<<"aws">>>>, Bare)>>), Configuration(<<OutputBlock>>),
    Variables}
ConfigurationFile(dir, c) == [path |-> [dir |-> dir, base |-> "main"], state |-> c.state, blocks |-> c.blocks]
TerraformTrees ==
    {Routed("terraform", <<ConfigurationFile(".", a), ConfigurationFile("prod", b), ConfigurationFile(".", c)>>) :
        a \in Configurations, b \in Configurations, c \in {Configuration(<<SubnetBlock>>), Configuration(Modules), Variables}}
----------------------------------------------------------------------------
(* Compose: projects named and not, declared and undeclared entities.      *)
Nets(listed, names) == [listed |-> listed, names |-> names]
Wired(name, mounts, image, envFiles, networks, dependsOn) ==
    [name |-> name, mounts |-> mounts, image |-> image, envFiles |-> envFiles, networks |-> networks, dependsOn |-> dependsOn]
Project(name, networks, volumes, services) ==
    [state |-> "read", doc |-> [name |-> name, networks |-> networks, volumes |-> volumes, services |-> services]]
Web_ == Wired("web", <<[source |-> "data", named |-> TRUE], [source |-> "./src", named |-> FALSE]>>,
              <<<<"redis", ":", "1">>>>, <<"env">>, Nets(TRUE, <<"front">>), <<"db">>)
Db_ == Wired("db", <<[source |-> "data", named |-> TRUE], [source |-> "", named |-> TRUE]>>, <<>>, <<"env">>, Nets(FALSE, <<"back">>), <<>>)
NoDoc == [name |-> "", networks |-> <<>>, volumes |-> <<>>, services |-> <<>>]
Projects ==
    {[state |-> s, doc |-> NoDoc] : s \in {"unreadable", "invalid", "empty", "other"}}
    \cup {Project("", <<>>, <<>>, <<>>), Project("shop", <<"front">>, <<"data">>, <<<<Web_, Wired("", <<>>, <<>>, <<>>, Nets(FALSE, <<>>), <<>>)>>>>),
          Project("", <<"back">>, <<>>, <<<<Db_, Web_>>>>), Project("shop", <<>>, <<>>, <<<<Db_>>>>)}
Path(dir, base) == [dir |-> dir, base |-> base, stem |-> "compose"]
ProjectFile(path, c) == [path |-> path, state |-> c.state, doc |-> c.doc]
ComposeTrees ==
    {Routed("compose", <<ProjectFile(Path(<<"ops", "app">>, "compose.yaml"), a), ProjectFile(p, b)>>) :
        a \in Projects, b \in Projects, p \in {Path(<<>>, "compose.yaml"), Path(<<"">>, "compose.yaml")}}

(* References: a registry or none, a path of up to two segments, a name,   *)
(* and a tag and a digest or not.                                          *)
Registries == {<<>>, <<"r", ".", "o", "/">>, <<"r", ":", "5", "/">>, <<"localhost", "/">>}
Paths == {<<>>} \cup {<<a, "/">> : a \in {"a", "r"}} \cup {<<a, "/", b, "/">> : a \in {"a", "r"}, b \in {"a", "r"}}
References_ ==
    {r \o p \o <<"n">> \o t \o d : r \in Registries, p \in Paths, t \in {<<>>, <<":", "t">>}, d \in {<<>>, <<"@", "s", ":", "h">>}}
ImageTrees ==
    {Routed("compose", <<ProjectFile(Path(<<"app">>, "compose.yaml"),
                                     Project("", <<>>, <<>>, <<<<Wired("web", <<>>, <<r>>, <<>>, Nets(FALSE, <<>>), <<>>)>>>>))>>) :
        r \in References_}
----------------------------------------------------------------------------
(* Build manifests, one of each kind.                                      *)
Start(name) == [ev |-> "start", name |-> name]
End(name) == [ev |-> "end", name |-> name]
Said(text) == [ev |-> "text", text |-> text]
Element(name, events) == <<Start(name)>> \o events \o <<End(name)>>
Leaf(name, text) == Element(name, <<Said(text)>>)
Pom(dependencies) ==
    Element("project", Leaf("groupId", "acme") \o Leaf("artifactId", "shop")
                       \o Element("parent", Leaf("artifactId", "base")) \o Element("dependencies", dependencies))
Jpa == Element("dependency", Leaf("groupId", "spring") \o Leaf("artifactId", "jpa") \o Leaf("scope", "test"))
JpaWithout ==
    Element("dependency", Leaf("groupId", "spring") \o Leaf("artifactId", "jpa") \o Leaf("version", "3")
        \o Element("exclusions", Element("exclusion", Leaf("groupId", "log") \o Leaf("artifactId", "log4j"))))
Spec508(name, extras, range) == [option |-> FALSE, name |-> name, extras |-> extras, range |-> range]
BuildFile(kind, content) == [path |-> kind, state |-> "read", kind |-> kind, content |-> content]
BuildFiles == {
    [path |-> "go.mod", state |-> "unreadable", kind |-> "go.mod", content |-> <<>>],
    BuildFile("unknown", <<>>), BuildFile("unparsed", <<>>),
    BuildFile("package.json", [name |-> <<"shop">>, dependencies |-> <<<<"express", "^4">>>>, devDependencies |-> <<<<"express", "^4">>>>,
                               peerDependencies |-> <<>>, optionalDependencies |-> <<<<"fsevents", "*">>>>]),
    BuildFile("go.mod", <<[is |-> "module", path |-> "acme", version |-> ""], [is |-> "require", path |-> "a", version |-> "1"],
                          [is |-> "require block"], [is |-> "pair", path |-> "b", version |-> "2"], [is |-> "close"], [is |-> "pair", path |-> "c", version |-> "3"]>>),
    BuildFile("requirements.txt", <<Spec508("celery", <<"redis", "msgpack">>, ">=5"), [option |-> TRUE], Spec508("", <<>>, "x")>>),
    BuildFile("pyproject.toml", [name |-> <<>>, dependencies |-> <<Spec508("httpx", <<>>, "")>>, groups |-> <<<<Spec508("pytest", <<>>, ">=8")>>>>,
                                 poetry |-> <<<<"python", "^3">>, <<"rich", "^13">>>>]),
    BuildFile("pom.xml", Pom(Jpa)), BuildFile("pom.xml", Pom(JpaWithout)),
    BuildFile("build.gradle", <<[config |-> "implementation", spec |-> <<"g", "a", "1">>], [config |-> "api", spec |-> <<"g">>], [config |-> "plugins", spec |-> <<"x", "y">>],
                                [config |-> "testImplementation", spec |-> <<"g", "b">>], [config |-> "compileOnly", spec |-> <<"g", "c">>]>>)}
DepsTrees == {Routed("deps", <<p[1], p[2]>>) : p \in {p \in BuildFiles \X BuildFiles : p[1].path # p[2].path}}

(* TOML: tables in tables, arrays of tables.                               *)
Item(name, is, tables) == [name |-> name, is |-> is, tables |-> tables]
Leafs == <<Item("name", "value", <<>>), Item("meta", "table", <<>>)>>
TomlFile(path, state, tables) == [path |-> path, state |-> state, tables |-> tables]
TomlFiles(path) == {
    TomlFile(path, "unreadable", <<>>), TomlFile(path, "invalid", <<>>), TomlFile(path, "read", <<>>),
    TomlFile(path, "read", <<Item("package", "table", Leafs), Item("bin", "array", <<Leafs, <<>>>>)>>)}
TomlTrees == {Routed("toml", <<a, b>>) : a \in TomlFiles("Cargo.toml"), b \in TomlFiles("app.toml")}
----------------------------------------------------------------------------
(* XML: mappers with includes, dynamic tags and result maps, and others.   *)
K(w) == [t |-> "keyword", word |-> <<w>>]
N(w) == [t |-> "name", word |-> <<w>>]
Q(a, b) == [t |-> "name", word |-> <<a, b>>]
Quoted(w) == [t |-> "quoted", word |-> <<w>>]
T(t) == [t |-> t, word |-> <<>>]
None_ == [x \in {} |-> 0]
Id(id) == [x \in {"id"} |-> id]
Open(name, attrs) == [ev |-> "start", name |-> name, attrs |-> attrs]
Empty(name, attrs) == [ev |-> "empty", name |-> name, attrs |-> attrs]
Tag(name, attrs, events) == <<Open(name, attrs)>> \o events \o <<End(name)>>
Sql(toks) == <<Said(toks)>>
MapperOf(events) == Tag("mapper", [x \in {"namespace"} |-> "acme.Orders"], events)
Statement(kind, id, events) == Tag(kind, Id(id), events)

FromOrders == <<K("from"), N("orders"), N("o")>>
Joined == FromOrders \o <<K("join"), N("users"), K("as"), N("u"), K("on"), Q("o", "uid"), T("other"), Q("u", "id")>>
Mappers == {
    MapperOf(Statement("select", "find", Sql(<<K("select"), N("id"), T("comma"), N("count"), T("open"), T("star"), T("close")>> \o FromOrders)
                                         \o Tag("where", None_, Sql(<<Q("o", "paid"), T("other"), T("bind")>>)))),
    MapperOf(Statement("select", "join", Sql(<<K("select"), N("total"), T("comma"), Q("x", "y")>> \o Joined))),
    MapperOf(Tag("sql", Id("cols"), Sql(<<N("id"), T("comma"), Quoted("name")>>) \o <<Empty("include", [x \in {"refid"} |-> "cols"])>>)
             \o Statement("select", "all", Sql(<<K("select")>>) \o <<Empty("include", [x \in {"refid"} |-> "cols"])>>
                          \o <<Empty("include", [x \in {"refid"} |-> "other"])>> \o Sql(<<K("from"), Quoted("orders"), T("comma"), T("interp")>>))),
    MapperOf(Tag("resultMap", Id("base"), <<Empty("id", [x \in {"column"} |-> "id"])>>)
             \o Tag("resultMap", [x \in {"id", "extends"} |-> IF x = "id" THEN "row" ELSE "base"], <<Empty("result", [x \in {"column"} |-> "total"])>>)
             \o Tag("select", [x \in {"id", "resultMap", "databaseId"} |-> IF x = "resultMap" THEN <<"row", "gone">> ELSE "now"], Sql(<<K("select"), T("star")>> \o FromOrders))
             \o Tag("select", [x \in {"id", "resultMap"} |-> IF x = "resultMap" THEN <<"row">> ELSE "both"], Sql(<<K("select"), T("star")>> \o Joined))),
    MapperOf(Statement("update", "pay", Sql(<<K("update"), N("orders")>>) \o Tag("set", None_, Sql(<<N("paid"), T("other")>>)) \o Sql(<<K("where"), N("id"), T("bind")>>))
             \o Statement("delete", "drop", Sql(<<K("delete"), K("from"), N("orders"), K("where"), N("id"), K("in"), T("open"), K("select"), N("oid"), K("from"), N("gone"), T("close")>>))),
    MapperOf(Statement("insert", "copy", Sql(<<K("insert"), K("into"), N("archive"), T("open"), N("id"), T("close"), K("select"), Q("o", "id"), T("cast"), N("int")>> \o FromOrders)
                                         \o Tag("foreach", [x \in {"open", "close"} |-> IF x = "open" THEN <<T("open")>> ELSE <<T("close")>>], Sql(<<T("bind")>>)))
             \o Statement("delete", "bare", Sql(<<K("delete"), N("orders")>>))),
    <<Empty("mapper", [x \in {"namespace"} |-> "acme.None"])>>, <<Open("beans", None_), End("beans")>>, <<>>}
XmlFile(path, state, events) == [path |-> path, state |-> state, events |-> events]
XmlTrees ==
    {Routed("xml", <<XmlFile("a.xml", "read", a), XmlFile("b.xml", s, b)>>) : a \in Mappers, b \in Mappers, s \in {"read", "unreadable"}}
----------------------------------------------------------------------------
Trees == K8sTrees \cup TerraformTrees \cup ComposeTrees \cup ImageTrees \cup DepsTrees \cup TomlTrees \cup XmlTrees
=============================================================================
