----------------------------- MODULE KotlinTrees -----------------------------
(***************************************************************************)
(* Small Kotlin projects: ports and beans, constructors of both kinds,     *)
(* companions, functions of the file, extensions, inferred properties and  *)
(* bases declared in other packages.                                       *)
(***************************************************************************)
EXTENDS TypedFacts

Fun(name, body) ==
    [m |-> "method", name |-> name, annos |-> <<>>, params |-> <<>>, ret |-> <<>>, receiver |-> <<>>, body |-> body]
FunOf(name, annos, params, ret, body) == [Fun(name, body) EXCEPT !.annos = annos, !.params = params, !.ret = ret]
Prop(name, type, annos, body) == [m |-> "field", name |-> name, type |-> type, annos |-> annos, body |-> body, label |-> "Var"]
CtorParam(name, type, val) == [name |-> name, type |-> type, annos |-> <<>>, val |-> val, body |-> <<>>]
TypeOf(label, name, supers, annos, primary, members) ==
    [label |-> label, name |-> name, supers |-> supers, annos |-> annos, primary |-> primary, members |-> members]
Class(name, supers, members) == TypeOf("Class", name, supers, <<>>, <<>>, members)
Decl(type) == [m |-> "type", type |-> type]
Super(written, invoked) == [written |-> written, invoked |-> invoked]
Import(target, alias) == [target |-> target, alias |-> alias, wild |-> FALSE]
Wild(target) == [target |-> target, alias |-> "", wild |-> TRUE]
File(package, imports, decls) ==
    [package |-> package, imports |-> imports, decls |-> decls, readable |-> TRUE, wellFormed |-> TRUE]

Port == <<"Port">>
Ports == File(<<"m">>, <<>>, <<Decl(TypeOf("Interface", "Port", <<>>, <<>>, <<>>, <<Fun("go", <<>>)>>))>>)
Bean(name, annos) == Decl(TypeOf("Class", name, <<Super(Port, FALSE)>>, annos, <<>>, <<Fun("go", <<>>)>>))
Behind == {
    <<Bean("Fast", <<Anno("Service")>>)>>,
    <<Bean("Fast", <<AnnoSaying("Service", "quick")>>), Bean("Slow", <<Anno("Service")>>)>>,
    <<Bean("Fast", <<Anno("Service"), Anno("Primary")>>), Bean("Slow", <<Anno("Service")>>)>>,
    <<Bean("Fast", <<>>), Bean("Slow", <<>>)>>}
Hosts == {
    TypeOf("Class", "Host", <<>>, <<Anno("Service")>>, <<<<CtorParam("port", <<Port>>, TRUE)>>>>,
           <<Fun("use", <<CallSite("name", <<"port">>, "go"), CallSite("this-field", <<"port">>, "go")>>)>>),
    TypeOf("Class", "Host", <<>>, <<Anno("Service")>>, <<<<CtorParam("port", <<Port>>, FALSE)>>>>,
           <<Prop("own", <<Port>>, <<>>, <<>>), Fun("use", <<CallSite("name", <<"own">>, "go")>>)>>),
    TypeOf("Class", "Host", <<>>, <<>>, <<>>,
           <<Prop("port", <<Port>>, <<Anno("Autowired"), AnnoSaying("Qualifier", "slow")>>, <<>>),
             Fun("use", <<CallSite("name", <<"port">>, "go")>>)>>),
    TypeOf("Class", "Host", <<>>, <<Anno("Service")>>, <<>>,
           <<[m |-> "ctor", annos |-> <<>>, params |-> <<ParamOf("all", <<<<"List">>, Port>>)>>, body |-> <<>>],
             FunOf("use", <<>>, <<ParamOf("p", <<Port>>)>>, <<>>, <<CallSite("name", <<"p">>, "go")>>)>>),
    TypeOf("Class", "Host", <<>>, <<>>, <<>>,
           <<Prop("port", <<>>, <<>>, <<CallSite("none", <<>>, "Fast")>>), [m |-> "init", body |-> <<CallSite("none", <<>>, "use")>>],
             Fun("use", <<LocalOf("q", <<>>, <<<<"Fast">>>>), CallSite("name", <<"q">>, "go"), CallSite("name", <<"port">>, "go")>>)>>)}
Wired == {<<Ports, File(<<"m">>, <<>>, beans), File(<<"m">>, <<>>, <<Decl(host)>>)>> : beans \in Behind, host \in Hosts}

Above == File(<<"a">>, <<>>, <<
    Decl(Class("Base", <<>>, <<
        Fun("run", <<CallSite("none", <<>>, "step")>>),
        [m |-> "companion", type |-> TypeOf("Object", "Companion", <<>>, <<>>, <<>>, <<FunOf("make", <<>>, <<>>, <<<<"Base">>>>, <<>>)>>)]>>)),
    Fun("step", <<CallSite("none", <<>>, "Base")>>),
    [Fun("shout", <<>>) EXCEPT !.receiver = <<<<"String">>>>]>>)
Below(wild) == File(<<"b">>, <<IF wild THEN Wild(<<"a">>) ELSE Import(<<"a", "Base">>, "")>>, <<
    Decl(TypeOf("Class", "Mid", <<Super(<<"Base">>, TRUE), Super(<<"Runnable">>, FALSE)>>, <<Anno("Entity")>>, <<>>, <<
        Fun("step", <<CallSite("super", <<>>, "run"), CallSite("none", <<>>, "run"), CallSite("this", <<>>, "gone")>>),
        [m |-> "alias", name |-> "Other", type |-> <<<<"Base">>>>, annos |-> <<>>]>>))>>)
Callers == {
    File(<<"c">>, <<Import(<<"b", "Mid">>, ""), Import(<<"a", "step">>, "walk"), Import(<<"org", "aid">>, "")>>, <<
        Decl(Class("User", <<>>, <<
            Prop("mid", <<<<"Mid">>>>, <<>>, <<CallSite("none", <<>>, "Mid")>>),
            Fun("use", <<CallSite("name", <<"mid">>, "run"), CallSite("none", <<>>, "walk"), CallSite("none", <<>>, "aid"),
                         CallSite("name", <<"Mid">>, "make"), CallSite("none", <<>>, "Mid")>>)>>)),
        Prop("top", <<<<"Mid">>>>, <<>>, <<CallSite("none", <<>>, "Mid")>>)>>),
    File(<<"c">>, <<Import(<<"b", "Mid">>, "Frame"), Wild(<<"a">>)>>, <<
        Decl(Class("Base", <<>>, <<Fun("run", <<>>)>>)),
        FunOf("use", <<Anno("Mark")>>, <<ParamOf("v", <<<<"String">>>>), ParamOf("x", <<<<"Frame">>>>)>>, <<>>,
              <<CallSite("name", <<"v">>, "shout"), CallSite("name", <<"x">>, "run"), CallSite("factory", <<"Base", "make">>, "run"),
                CallSite("field", <<"me", "mid">>, "run"), CallSite("field", <<"System", "out">>, "print"), CallSite("other", <<>>, "on")>>)>>),
    File(<<"c">>, <<Import(<<"b", "Mid">>, "")>>, <<
        Decl(Class("User", <<Super(<<"Mid">>, TRUE)>>, <<
            Fun("use", <<CallSite("none", <<>>, "run")>>), Fun("say", <<CallSite("other", <<>>, "on")>>)>>))>>),
    File(<<"a">>, <<>>, <<Decl(Class("User", <<Super(<<"Base">>, TRUE)>>, <<
        Fun("use", <<CallSite("none", <<>>, "step"), CallSite("none", <<>>, "make"), CallSite("factory", <<"Base", "make">>, "run"),
                     CallSite("name", <<"Missing">>, "go")>>)>>))>>),
    [File(<<"c">>, <<>>, <<>>) EXCEPT !.readable = FALSE]}
Inherited == {<<Above, Below(wild), c>> : wild \in BOOLEAN, c \in Callers}

Api == File(<<"m">>, <<>>, <<
    Decl(TypeOf("Class", "Orders", <<>>, <<Mapping("RequestMapping", <<<<"", "api">>>>, <<>>)>>, <<>>, <<
        FunOf("one", <<Mapping("GetMapping", <<<<"", "orders", "{id}">>>>, <<"GET">>)>>, <<>>, <<>>, <<>>)>>)),
    FunOf("ask", <<>>, <<>>, <<>>, <<Asks("get", "GET", <<"", "api", "orders", ":id">>), Asks("say", "*", <<"word">>)>>)>>)

Trees == Wired \cup Inherited \cup {<<Api, Ports>>}
=============================================================================
