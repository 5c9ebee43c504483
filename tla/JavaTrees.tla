----------------------------- MODULE JavaTrees -----------------------------
(***************************************************************************)
(* Small Java projects: ports and the beans behind them, in every state of *)
(* ambiguity; bases declared in other packages; static imports; routes.    *)
(***************************************************************************)
EXTENDS TypedFacts

MethodOf(name, annos, params, ret, body) ==
    [m |-> "method", name |-> name, ctor |-> FALSE, setter |-> FALSE, annos |-> annos,
     params |-> params, ret |-> ret, body |-> body]
Method(name, body) == MethodOf(name, <<>>, <<>>, <<>>, body)
Ctor(name, annos, params) == [MethodOf(name, annos, params, <<>>, <<>>) EXCEPT !.ctor = TRUE]
Field(name, type, annos) == [m |-> "field", name |-> name, type |-> type, annos |-> annos]
TypeOf(kind, name, extends, implements, annos, members) ==
    [kind |-> kind, name |-> name, extends |-> extends, implements |-> implements,
     annos |-> annos, components |-> <<>>, members |-> members]
Class(name, extends, implements, annos, members) == TypeOf("Class", name, extends, implements, annos, members)
Interface(name, extends, members) == TypeOf("Interface", name, <<>>, extends, <<>>, members)
Import(target) == [target |-> target, static |-> FALSE, wild |-> FALSE]
Wild(target) == [Import(target) EXCEPT !.wild = TRUE]
StaticImport(target) == [Import(target) EXCEPT !.static = TRUE]
File(package, imports, types) ==
    [package |-> package, imports |-> imports, types |-> types, readable |-> TRUE, wellFormed |-> TRUE]

Port == <<"Port">>
Ports == File(<<"m">>, <<>>, <<Interface("Port", <<>>, <<Method("go", <<>>)>>)>>)
Bean(name, annos) ==
    Class(name, <<>>, <<Port>>, annos, <<Method("go", <<>>)>>)
Factory(type) ==
    Class("Config", <<>>, <<>>, <<Anno("Configuration")>>, <<MethodOf("make", <<Anno("Bean")>>, <<>>, <<type>>, <<>>)>>)
(* Two beans behind the port, one, none; one of them named or primary, *)
(* or made by a factory, which may say no more than the port.              *)
Behind == {
    <<Bean("Fast", <<AnnoSaying("Service", "quick")>>), Bean("Slow", <<Anno("Service")>>)>>,
    <<Bean("Fast", <<Anno("Service"), Anno("Primary")>>), Bean("Slow", <<Anno("Service")>>)>>,
    <<Bean("Fast", <<Anno("Service"), Anno("Primary")>>), Bean("Slow", <<Anno("Service"), Anno("Primary")>>)>>,
    <<Bean("Fast", <<>>), Class("Slow", <<<<"Fast">>>>, <<>>, <<Anno("Service")>>, <<>>)>>,
    <<Bean("Fast", <<>>), Bean("Slow", <<>>)>>,
    <<Bean("Fast", <<>>), Class("Config", <<>>, <<>>, <<Anno("Configuration")>>,
        <<MethodOf("make", <<Anno("Bean"), Anno("Primary")>>, <<>>, <<<<"Fast">>>>, <<>>)>>)>>,
    <<Bean("Fast", <<>>), Bean("Slow", <<Anno("Service")>>), Factory(<<"Fast">>)>>,
    <<Bean("Fast", <<Anno("Service")>>), Bean("Slow", <<>>), Factory(Port)>>}
(* Who calls: through a field, a constructor's parameter, a container-full,*)
(* a qualifier, a value nobody injected.                                   *)
Hosts == {
    Class("Host", <<>>, <<>>, <<Anno("Service")>>, <<
        Field("port", <<Port>>, <<Anno("Autowired")>>),
        Method("use", <<CallSite("name", <<"port">>, "go"), CallSite("this-field", <<"port">>, "go")>>)>>),
    Class("Host", <<>>, <<>>, <<Anno("Service")>>, <<
        Field("port", <<Port>>, <<>>), Ctor("Host", <<>>, <<ParamOf("port", <<Port>>)>>),
        Method("use", <<CallSite("this-field", <<"port">>, "go")>>)>>),
    Class("Host", <<>>, <<>>, <<>>, <<
        Field("all", <<<<"List">>, Port>>, <<Anno("Autowired")>>),
        Method("use", <<LocalOf("p", <<Port>>, <<>>), CallSite("name", <<"p">>, "go")>>)>>),
    Class("Host", <<>>, <<>>, <<Anno("Service")>>, <<
        Field("port", <<Port>>, <<Anno("Autowired"), AnnoSaying("Qualifier", "slow")>>),
        Method("use", <<CallSite("name", <<"port">>, "go")>>)>>),
    Class("Host", <<>>, <<>>, <<Anno("Service")>>, <<
        Field("port", <<Port>>, <<>>),
        [MethodOf("setPort", <<Anno("Inject")>>, <<ParamOf("port", <<Port>>)>>, <<>>, <<>>) EXCEPT !.setter = TRUE],
        Method("use", <<CallSite("field", <<"me", "port">>, "go"), LocalOf("me", <<<<"Host">>>>, <<>>)>>)>>),
    Class("Host", <<>>, <<>>, <<>>, <<
        MethodOf("use", <<>>, <<ParamOf("port", <<Port>>)>>, <<>>, <<CallSite("name", <<"port">>, "go")>>)>>)}

Wired == {<<Ports, File(<<"m">>, <<>>, beans), File(<<"m">>, <<>>, <<host>>)>> : beans \in Behind, host \in Hosts}

(* A base in a package of its own, below it a type, and a caller of what   *)
(* is inherited; the caller's package may have a type of the base's name.  *)
Above == File(<<"a">>, <<>>, <<Class("Base", <<>>, <<>>, <<>>, <<
    Method("run", <<CallSite("none", <<>>, "step")>>), MethodOf("make", <<>>, <<>>, <<<<"Base">>>>, <<>>)>>)>>)
Below(wild) == File(<<"b">>, <<IF wild THEN Wild(<<"a">>) ELSE Import(<<"a", "Base">>)>>,
    <<Class("Mid", <<<<"Base">>>>, <<<<"Runnable">>>>, <<Anno("Entity")>>, <<
        Method("step", <<CallSite("super", <<>>, "run"), CallSite("none", <<>>, "run"), CallSite("this", <<>>, "gone")>>)>>)>>)
Callers == {
    File(<<"c">>, <<Import(<<"b", "Mid">>), StaticImport(<<"a", "Base", "make">>), StaticImport(<<"org", "Util", "aid">>)>>,
        <<Class("User", <<>>, <<>>, <<>>, <<
            Field("mid", <<<<"Mid">>>>, <<>>),
            Method("use", <<CallSite("name", <<"mid">>, "run"), CallSite("none", <<>>, "make"), CallSite("none", <<>>, "aid"),
                            CallSite("name", <<"Mid">>, "step"), CallSite("name", <<"Mid">>, "make"), Make(<<"Mid">>)>>)>>)>>),
    File(<<"c">>, <<Import(<<"b", "Mid">>), Import(<<"org", "Tool">>), StaticImport(<<"b", "Mid", "make">>)>>, <<
        Class("Base", <<>>, <<>>, <<>>, <<Method("run", <<>>)>>),
        Class("User", <<>>, <<>>, <<>>, <<
            Method("use", <<LocalOf("x", <<>>, <<<<"Mid">>>>), Make(<<"Mid">>), CallSite("name", <<"x">>, "run"), Make(<<"Tool">>),
                            CallSite("name", <<"Tool">>, "aid"), CallSite("none", <<>>, "make"), CallSite("other", <<>>, "on")>>)>>)>>),
    File(<<"b">>, <<Import(<<"a", "Base">>)>>, <<
        Class("User", <<<<"org", "Frame">>>>, <<>>, <<Anno("Override")>>, <<
            Method("use", <<CallSite("factory", <<"Base", "make">>, "run"), CallSite("name", <<"Missing">>, "go"),
                            CallSite("field", <<"System", "out">>, "print"), Make(<<"String">>)>>),
            [m |-> "type", type |-> Class("Inner", <<<<"User", "Other">>>>, <<>>, <<>>, <<Method("use", <<>>)>>)]>>)>>),
    File(<<"c">>, <<Import(<<"b", "Mid">>)>>, <<
        Class("User", <<<<"Mid">>>>, <<>>, <<>>, <<
            Method("use", <<CallSite("none", <<>>, "run"), CallSite("name", <<"Mid">>, "step")>>),
            Method("say", <<CallSite("other", <<>>, "on"), CallSite("other", <<>>, "off")>>)>>)>>),
    File(<<>>, <<Wild(<<"a">>)>>, <<
        Class("User", <<>>, <<>>, <<>>, <<Method("use", <<Make(<<"Base">>)>>)>>)>>),
    [File(<<"c">>, <<>>, <<>>) EXCEPT !.readable = FALSE]}
Inherited == {<<Above, Below(wild), c>> : wild \in BOOLEAN, c \in Callers}

(* A controller under a prefix, a client interface, a caller of routes.    *)
Api == File(<<"m">>, <<>>, <<
    TypeOf("Class", "Orders", <<>>, <<>>, <<Anno("RestController"), Mapping("RequestMapping", <<<<"", "api", "">>>>, <<>>)>>, <<
        MethodOf("one", <<Mapping("GetMapping", <<<<"", "orders", "{id}">>>>, <<"GET">>)>>, <<>>, <<>>, <<>>),
        MethodOf("all", <<Mapping("GET", <<>>, <<"GET">>), Mapping("Path", <<<<"", "orders">>, <<"", "list">>>>, <<>>)>>, <<>>, <<>>, <<>>),
        MethodOf("any", <<Mapping("PostMapping", <<>>, <<"POST">>)>>, <<>>, <<>>, <<>>)>>),
    TypeOf("Interface", "Client", <<>>, <<>>, <<>>, <<
        MethodOf("one", <<Mapping("GetMapping", <<<<"", "orders">>>>, <<"GET">>)>>, <<>>, <<>>, <<>>)>>),
    TypeOf("Enum", "Plain", <<>>, <<>>, <<>>, <<
        Field("client", <<<<"Client">>>>, <<Anno("Autowired")>>),
        MethodOf("none", <<Mapping("Delete", <<>>, <<"DELETE">>)>>, <<>>, <<>>, <<>>)>>)>>)
Asking == File(<<"m">>, <<>>, <<Class("Asker", <<>>, <<>>, <<>>, <<
    Method("ask", <<Asks("get", "GET", <<"", "api", "orders", ":id">>), Asks("delete", "DELETE", <<"http:", "", "host", "api", "orders", "">>),
                    Asks("call", "*", <<"", "api", "**">>), Asks("say", "*", <<"word">>)>>)>>)>>)

Trees == Wired \cup Inherited \cup {<<Api, Asking>>}
=============================================================================
