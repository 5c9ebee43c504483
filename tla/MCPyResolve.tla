---------------------------- MODULE MCPyResolve ----------------------------
(***************************************************************************)
(* Trees of a package, a module in it, a script, and at times the stub of  *)
(* the module or a twin of the script: every combination of the variants   *)
(* below.  What is called is typed, inherited, imported, overridden in     *)
(* diamonds and cycles, shadowed, missing and outside the tree.            *)
(***************************************************************************)
EXTENDS PyResolve

AllNames == STRING \ {"?"}

Call(fn, shape) == [i |-> "call", fn |-> fn, shape |-> shape]
Do(fn) == Call(fn, "")
Super(m) == [i |-> "super", method |-> m]
Let(name, written, made) == [i |-> "let", name |-> name, written |-> written, made |-> made]
Hand(name) == [i |-> "hand", name |-> name]
Str(text) == [i |-> "string", text |-> text]
Param(name, written) == [name |-> name, written |-> written]

DefOf(name, async, decorators, params, returns, body) ==
    [s |-> "def", name |-> name, async |-> async, decorators |-> decorators,
     params |-> params, returns |-> returns, body |-> body]
Def(name, body) == DefOf(name, FALSE, <<>>, <<>>, <<>>, body)
ClassDef(name, bases, attrs, members) ==
    [s |-> "class", name |-> name, bases |-> bases, attrs |-> attrs, decorators |-> <<>>, members |-> members]
Attr(name, written, made, field) == [name |-> name, written |-> written, made |-> made, field |-> field]
Assign(name) == [s |-> "assign", name |-> name]
ImportAs(target, as) == [s |-> "import", i |-> "import", target |-> target, as |-> as]
FromImport(level, module, names) ==
    [s |-> "from", i |-> "from", level |-> level, module |-> module,
     names |-> [n \in DOMAIN names |-> [name |-> names[n], as |-> ""]]]
FileOf(dir, stem, ext, exports, body) ==
    [dir |-> dir, stem |-> stem, ext |-> ext, parses |-> TRUE, all |-> exports, body |-> body]

Package == {
    FileOf(<<"pkg">>, "__init__", "py", <<>>, <<>>),
    [FileOf(<<"pkg">>, "__init__", "py", <<>>, <<>>) EXCEPT !.parses = FALSE],
    FileOf(<<"pkg">>, "__init__", "py", <<>>,
        <<FromImport(1, <<"core">>, <<"*">>), ClassDef("Root", <<<<"A">>>>, <<>>, <<Def("go", <<Do(<<"self", "step">>)>>)>>)>>)}

(* Overrides along a line, in a diamond, in a cycle; a fallback. *)
Line == <<
    ClassDef("A", <<>>, <<>>, <<Def("run", <<Do(<<"self", "step">>), Do(<<"self", "gone">>)>>), Def("step", <<>>)>>),
    ClassDef("B", <<<<"A">>>>, <<>>, <<Def("step", <<Super("step")>>)>>),
    ClassDef("C", <<<<"B">>>>, <<Attr("part", <<"A">>, TRUE, FALSE), Attr("size", <<"int">>, FALSE, TRUE)>>,
        <<Def("go", <<Do(<<"self", "step">>), Do(<<"self", "run">>), Do(<<"self", "part", "run">>),
                      Do(<<"self", "part", "x", "y">>)>>)>>),
    DefOf("fetch", TRUE, <<>>, <<>>, <<"A">>, <<>>), Def("work", <<Do(<<"fetch">>)>>), Def("_aux", <<>>)>>
Diamond == <<
    ClassDef("A", <<>>, <<>>, <<Def("step", <<>>)>>),
    ClassDef("B", <<<<"A">>>>, <<>>, <<>>),
    ClassDef("C", <<<<"A">>>>, <<>>, <<Def("step", <<Super("step")>>)>>),
    ClassDef("D", <<<<"B">>, <<"C">>>>, <<>>, <<Def("go", <<Do(<<"self", "step">>)>>)>>),
    DefOf("fetch", FALSE, <<>>, <<>>, <<>>, <<>>), Assign("work")>>
Cycle == <<
    FromImport(0, <<"ext">>, <<"work">>), Assign("work"),
    ClassDef("A", <<<<"B">>>>, <<>>, <<Def("run", <<Do(<<"self", "step">>), Do(<<"work">>)>>)>>),
    ClassDef("B", <<<<"A">>, <<"Exception">>>>, <<>>, <<Def("step", <<Do(<<"self", "run">>)>>), Def("step", <<Do(<<"work">>)>>)>>),
    DefOf("fetch", TRUE, <<>>, <<>>, <<>>, <<>>)>>
Nested == <<
    ClassDef("A", <<>>, <<>>, <<
        ClassDef("Job", <<>>, <<>>, <<Def("step", <<>>), Def("go", <<Do(<<"self", "step">>)>>)>>), Def("step", <<>>)>>),
    DefOf("fetch", TRUE, <<>>, <<>>, <<>>, <<>>)>>

Core(body) == FileOf(<<"pkg">>, "core", "py", <<>>, body)
Stub == FileOf(<<"pkg">>, "core", "pyi", <<{"A", "fetch"}>>, <<ClassDef("A", <<>>, <<>>, <<Def("step", <<>>)>>), Assign("fetch"), Assign("size")>>)

Scripts == {
    (* what a caller does with a coroutine, site by site *)
    FileOf(<<>>, "app", "py", <<>>, <<
        FromImport(0, <<"pkg", "core">>, <<"fetch", "work", "gone", "A">>),
        DefOf("main", TRUE, <<<<"app", "route">>>>, <<>>, <<>>,
            <<Do(<<"fetch">>), Call(<<"fetch">>, "unawaited"), Call(<<"fetch">>, "scheduled"), Call(<<"work">>, "unawaited"),
              Call(<<"work">>, "scheduled"), Hand("work"), Do(<<"print">>), Do(<<"gone">>), Call(<<"nobody">>, "scheduled"),
              Do(<<"A", "step">>)>>)>>),
    (* receivers and bases, inside the tree and outside *)
    FileOf(<<>>, "app", "py", <<>>, <<
        ImportAs(<<"pkg", "core">>, ""), ImportAs(<<"asyncio">>, "aio"), FromImport(0, <<"requests">>, <<"Session">>),
        DefOf("use", FALSE, <<>>, <<Param("s", <<"Session">>), Param("a", <<"pkg", "core", "A">>)>>, <<>>,
            <<Do(<<"s", "get">>), Do(<<"a", "step">>), Let("q", <<"aio", "Queue">>, TRUE), Do(<<"q", "put">>),
              Let("x", <<"pkg", "core", "fetch">>, TRUE), Do(<<"x", "run">>), Do(<<"pkg", "core", "fetch">>), Do(<<"Session">>),
              Do(<<"aio", "Queue">>)>>),
        ClassDef("App", <<<<"Session">>, <<"pkg", "core", "A">>, <<"aio", "Queue">>>>, <<>>, <<Def("go", <<Do(<<"self", "run">>)>>)>>)>>),
    (* the package's own module, its names by star, strings and imports inside *)
    FileOf(<<"pkg">>, "app", "py", <<>>, <<
        FromImport(1, <<"core">>, <<"*">>), FromImport(1, <<>>, <<"core">>),
        ClassDef("Own", <<<<"A">>>>, <<>>, <<Def("step", <<Do(<<"fetch">>), Do(<<"_aux">>)>>), Def("go", <<Do(<<"self", "run">>)>>)>>),
        Def("main", <<ImportAs(<<"json">>, ""), Do(<<"json", "dumps">>), Do(<<"core", "work">>), Do(<<"core", "gone">>),
                      Do(<<"Own", "go">>), Do(<<"A", "step">>), Str(<<"pkg", "core", "A">>), Hand("Own"), Hand("main")>>)>>)}

Cores == {Line, Diamond, Cycle}
Wholes == {<<p, Core(c), s>> : p \in Package, c \in Cores, s \in Scripts}
          \cup {<<p, Core(c), Stub, s>> : p \in Package, c \in Cores, s \in Scripts}
Nesting == {<<Core(Nested)>>} \cup {<<p, Core(Nested), s>> : p \in Package, s \in Scripts}
AllTrees == Wholes \cup Nesting
=============================================================================
