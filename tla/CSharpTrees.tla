----------------------------- MODULE CSharpTrees -----------------------------
(***************************************************************************)
(* Small C# projects: services and what is registered for them, by key, by *)
(* constant key and plainly; partial types; scopes, aliases and static     *)
(* imports; extensions; routes with tokens.                                *)
(***************************************************************************)
EXTENDS TypedFacts

ParamWith(name, type, annos) ==
    [name |-> name, type |-> type, annos |-> annos, text |-> IF type = <<>> THEN <<"string">> ELSE Head(type), this |-> FALSE]
Param(name, type) == ParamWith(name, type, <<>>)
Calls(on, of, method) ==
    [x |-> "call", on |-> on, of |-> of, method |-> method, path |-> <<>>, verb |-> "*", registers |-> <<>>]
Asking(method, verb, path) == [Calls("name", <<"client">>, method) EXCEPT !.path = path, !.verb = verb]
LocalWith(name, type, made, bareNew) == [x |-> "local", name |-> name, type |-> type, made |-> made, bareNew |-> bareNew]
Adds(service, implementation, keyed, literal) ==
    [Calls("name", <<"services">>, "Add") EXCEPT !.registers =
        <<[service |-> <<service>>, implementation |-> <<implementation>>, keyed |-> keyed, literal |-> literal]>>]
Method(name, params, ret, body) ==
    [m |-> "method", name |-> name, annos |-> <<>>, params |-> params, ret |-> ret, body |-> body]
Ctor(params) == [m |-> "ctor", annos |-> <<>>, params |-> params, body |-> <<>>]
Property(name, type, body) == [m |-> "property", name |-> name, type |-> type, annos |-> <<>>, body |-> body]
Field(name, type) == [m |-> "field", name |-> name, type |-> type]
Indexer(body) == [m |-> "unnamed", body |-> body]
TypeOf(label, name, bases, annos, params, members) ==
    [m |-> "type", type |-> [label |-> label, name |-> name, bases |-> bases, annos |-> annos,
                             params |-> params, members |-> members]]
Class(name, bases, members) == TypeOf("Class", name, bases, <<>>, <<>>, members)
Interface(name, members) == TypeOf("Interface", name, <<>>, <<>>, <<>>, members)
Namespace(name, decls) == [m |-> "namespace", name |-> name, decls |-> decls]
Delegate(name, params, ret) == [m |-> "delegate", name |-> name, annos |-> <<>>, params |-> params, ret |-> ret]
Using(target) == [target |-> target, alias |-> "", static |-> FALSE, global |-> FALSE]
File(usings, decls) == [usings |-> usings, decls |-> decls, readable |-> TRUE, wellFormed |-> TRUE]

IPort == <<"IPort">>
Go == Method("go", <<>>, <<>>, <<>>)
Ports == File(<<>>, <<Namespace(<<"m">>, <<
    Interface("IPort", <<Go>>), Class("Fast", <<IPort>>, <<Go>>), Class("Slow", <<<<"Fast">>, IPort>>, <<>>)>>)>>)
(* What the container is told, and whether it builds the host. *)
Setups == {
    <<Adds("IPort", "Fast", FALSE, "")>>,
    <<Adds("IPort", "Fast", FALSE, ""), Adds("IPort", "Slow", FALSE, "")>>,
    <<Adds("IPort", "Fast", TRUE, "fast"), Adds("IPort", "Slow", FALSE, "")>>,
    <<Adds("IPort", "Fast", TRUE, "")>>,
    <<Adds("IPort", "Fast", TRUE, "fast"), Adds("IPort", "Slow", TRUE, "slow")>>,
    <<Adds("IPort", "Gone", FALSE, "")>>,
    <<Adds("IPort", "Gone", FALSE, ""), Adds("IPort", "Fast", FALSE, "")>>,
    <<Adds("IPort", "Slow", TRUE, "fast"), Adds("IPort", "Fast", TRUE, "fast")>>}
Setup(body, host) ==
    File(<<Using(<<"m">>)>>, <<Class("Program", <<>>, <<
        Method("main", <<Param("services", <<>>)>>, <<>>, body \o (IF host THEN <<Adds("Host", "Host", FALSE, "")>> ELSE <<>>))>>)>>)
Use(body) == Method("use", <<>>, <<>>, body)
Keyed(name, arg) == ParamWith(name, <<IPort>>, <<AnnoSaying("FromKeyedServices", arg)>>)
Hosts == {
    <<Field("_port", <<IPort>>), Ctor(<<Param("port", <<IPort>>)>>),
      Use(<<Calls("name", <<"_port">>, "go"), Calls("this-field", <<"_port">>, "go")>>)>>,
    <<Property("Port", <<IPort>>, <<Calls("none", <<>>, "use")>>), Ctor(<<Keyed("port", "fast")>>),
      Use(<<Calls("this-field", <<"Port">>, "go"), Calls("name", <<"Port">>, "go")>>)>>,
    <<Field("_all", <<<<"IEnumerable">>, IPort>>), Ctor(<<Param("all", <<<<"IEnumerable">>, IPort>>)>>),
      Use(<<Calls("name", <<"p">>, "go"), LocalWith("p", <<IPort>>, <<>>, FALSE)>>)>>,
    <<Method("use", <<Param("port", <<IPort>>)>>, <<>>, <<Calls("name", <<"port">>, "go")>>)>>}
Host(members) == File(<<>>, <<Namespace(<<"m">>, <<Class("Host", <<>>, members)>>)>>)
Wired == {<<Ports, Setup(s, b), Host(h)>> : s \in Setups, b \in BOOLEAN, h \in Hosts}

(* A type in two halves, a base outward of it, callers from elsewhere.     *)
Base == File(<<>>, <<Namespace(<<"a">>, <<
    Class("Base", <<>>, <<Method("run", <<>>, <<>>, <<>>), Method("make", <<>>, <<<<"Base">>>>, <<>>)>>),
    Interface("ILike", <<Go>>), Class("MarkAttribute", <<>>, <<>>),
    TypeOf("Record", "Pair", <<>>, <<Anno("Mark")>>, <<Param("left", <<<<"Base">>>>)>>, <<>>)>>)>>)
Half(bases, members) == File(<<Using(<<"a">>)>>, <<Namespace(<<"a", "b">>, <<TypeOf("Class", "Mid", bases, <<Anno("Mark")>>, <<>>, members)>>)>>)
Halves == <<
    Half(<<<<"Base">>>>, <<Method("step", <<>>, <<>>, <<Calls("super", <<>>, "run"), Calls("none", <<>>, "run"),
                                                       Calls("this", <<>>, "half"), Calls("none", <<>>, "gone")>>)>>),
    Half(<<<<"ILike">>>>, <<Method("half", <<>>, <<>>, <<Calls("none", <<>>, "step"), Calls("name", <<"Base">>, "make")>>)>>)>>
Callers == {
    File(<<[Using(<<"a", "Base">>) EXCEPT !.static = TRUE], [Using(<<"a", "b", "Mid">>) EXCEPT !.alias = "Other"]>>,
        <<Namespace(<<"c">>, <<Class("User", <<>>, <<
            Field("mid", <<<<"Other">>>>), Property("Home", <<<<"a", "Pair">>>>, <<>>),
            Use(<<Calls("name", <<"mid">>, "run"), Calls("none", <<>>, "make"), Calls("name", <<"Other">>, "step"),
                  Calls("factory", <<"a", "Base", "make">>, "run"), Calls("field", <<"me", "mid">>, "half"),
                  LocalWith("me", <<<<"User">>>>, <<>>, TRUE), Calls("field", <<"mid", "Home">>, "go")>>)>>)>>)>>),
    File(<<[Using(<<"org">>) EXCEPT !.static = TRUE], [Using(<<"a">>) EXCEPT !.global = TRUE]>>, <<
        Class("Ext", <<>>, <<Method("shout", <<[Param("text", <<>>) EXCEPT !.this = TRUE]>>, <<>>, <<>>)>>),
        TypeOf("Struct", "User", <<<<"ILike">>, <<"IFar">>>>, <<Anno("Mark"), Anno("MethodImpl")>>, <<>>, <<
            Indexer(<<Calls("none", <<>>, "aid")>>),
            Delegate("Handler", <<Param("p", <<<<"Pair">>>>)>>, <<<<"Base">>>>),
            Method("use", <<Param("v", <<>>)>>, <<<<"String">>>>,
                   <<Calls("name", <<"v">>, "shout"), Calls("none", <<>>, "aid"), Make(<<"Base">>), Make(<<"String">>),
                     LocalWith("x", <<>>, <<<<"Base">>>>, FALSE), Calls("name", <<"x">>, "run"), Calls("other", <<>>, "on")>>)>>)>>),
    [File(<<>>, <<>>) EXCEPT !.readable = FALSE]}
Parts == {<<Base, Halves[1], Halves[2], c>> : c \in Callers}

(* Extensions from two files, of one type and name or not; who calls them. *)
Shouts(namespace, text) ==
    File(<<>>, <<Namespace(<<namespace>>, <<Class("Ext", <<>>, <<
        Method("shout", <<[Param("text", <<text>>) EXCEPT !.this = TRUE]>>, <<>>, <<>>)>>)>>)>>)
Shouter == File(<<Using(<<"a">>), Using(<<"b">>)>>, <<Class("User", <<>>, <<
    Method("use", <<Param("v", <<<<"Tool">>>>), Param("s", <<<<"String">>>>)>>, <<>>,
           <<Calls("name", <<"v">>, "shout"), Calls("name", <<"s">>, "shout")>>)>>)>>)
Extended == {<<Shouts("a", <<"String">>), Shouts("b", <<t>>), Shouter>> : t \in {"String", "Tool"}}

Orders == File(<<Using(<<"Microsoft">>)>>, <<Namespace(<<"m">>, <<
    TypeOf("Class", "OrdersController", <<<<"ControllerBase">>>>, <<Mapping("Route", <<<<"api", "[controller]">>>>, <<>>)>>, <<>>, <<
        [Method("one", <<>>, <<>>, <<>>) EXCEPT !.annos = <<Mapping("HttpGet", <<<<"{id}">>>>, <<"GET">>)>>],
        [Method("all", <<>>, <<>>, <<>>) EXCEPT !.annos = <<Mapping("HttpPost", <<<<"[action]">>>>, <<"POST">>), Mapping("Produces", <<<<"json">>>>, <<>>)>>]>>),
    TypeOf("Interface", "IClient", <<>>, <<>>, <<>>, <<
        [Method("one", <<>>, <<>>, <<>>) EXCEPT !.annos = <<Mapping("Get", <<<<"", "orders">>>>, <<"GET">>)>>]>>),
    Class("Asker", <<>>, <<Use(<<Asking("GetAsync", "GET", <<"api", "Orders", ":id">>), Asking("Say", "*", <<"word">>)>>)>>)>>)>>)

Trees == Wired \cup Parts \cup Extended \cup {<<Orders, Ports>>}
=============================================================================
