------------------------------ MODULE PyFacts ------------------------------
(***************************************************************************)
(* What the Python parser (plugins/py/parser/src/lib.rs) takes from one    *)
(* file on its own: its FileFacts, in source order.                        *)
(*                                                                         *)
(* Abstractions.  A dotted name is a sequence of strings, and so is a node *)
(* key.  A file is its path, whether it parses, `__all__` if it has one,   *)
(* and its module-level statements, those of `if` and `try` blocks among   *)
(* them.  A statement is a def, a class, an assignment, `import` or `from  *)
(* .. import`.  The body of a def is what the parser takes from it: calls, *)
(* super() calls, imports, names handed as arguments, dotted strings, and  *)
(* locals that state their type.  Classes nest one deep.  Routes, type     *)
(* aliases, values, docs and source text are left out.                     *)
(***************************************************************************)
EXTENDS Naturals, Sequences, SequencesExt

CONSTANTS
    Name,           \* what dotted names and paths are made of; "" where there is none
    Underscored,    \* the names that start with an underscore
    Label           \* what the host calls the tree

(* "?" is part of no name: the keys of unresolved references start with it. *)
ASSUME NameAssumption == {"", "py", "pyi", Label} \subseteq Name /\ "?" \notin Name

(***************************************************************************)
(* What the files are made of.                                             *)
(***************************************************************************)
Dotted == Seq(Name) \ {<<>>}
Key == Dotted
ImportStmt == [s : {"import"}, i : {"import"}, target : Dotted, as : Name]
FromStmt == [s : {"from"}, i : {"from"}, level : Nat, module : Seq(Name), names : Seq([name : Name, as : Name])]
BodyItem ==
    ImportStmt \cup FromStmt
    \cup [i : {"string"}, text : Seq(Name)] \cup [i : {"hand"}, name : Name] \cup [i : {"super"}, method : Name]
    \cup [i : {"call"}, fn : Dotted, shape : {"", "scheduled", "unawaited"}]
    \cup [i : {"let"}, name : Name, written : Dotted, made : BOOLEAN]
ParamDecl == [name : Name, written : Dotted]
AttrDecl == [name : Name, written : Dotted, made : BOOLEAN, field : BOOLEAN]
DefStmt == [s : {"def"}, name : Name, async : BOOLEAN, decorators : Seq(Dotted), params : Seq(ParamDecl),
            returns : Seq(Name), body : Seq(BodyItem)]
ClassWith(Member) == [s : {"class"}, name : Name, bases : Seq(Dotted), attrs : Seq(AttrDecl),
                     decorators : Seq(Dotted), members : Seq(Member)]
InnerClass == ClassWith(DefStmt)
ClassStmt == ClassWith(DefStmt \cup InnerClass)
Statement == DefStmt \cup ClassStmt \cup [s : {"assign"}, name : Name] \cup ImportStmt \cup FromStmt
File == [dir : Seq(Name), stem : Name, ext : {"py", "pyi"}, parses : BOOLEAN, all : Seq(SUBSET Name), body : Seq(Statement)]
----------------------------------------------------------------------------
NoFacts(path, module) ==
    [path |-> path, module |-> module, failed |-> FALSE, nodes |-> <<>>, contains |-> <<>>,
     calls |-> <<>>, opaque |-> 0, strings |-> <<>>, bindings |-> <<>>, imports |-> <<>>,
     stars |-> <<>>, decls |-> <<>>, methods |-> <<>>, bases |-> <<>>, exports |-> <<>>,
     classes |-> <<>>, hints |-> <<>>, handed |-> <<>>, returns |-> <<>>, types |-> <<>>]
Failed(path) == [NoFacts(path, <<>>) EXCEPT !.failed = TRUE]
----------------------------------------------------------------------------
(* `PackageTable`: the directories above a file that hold an `__init__.py`, *)
(* without a gap, are its packages.                                         *)
Prefix(markers, dir) ==
    LET above == {n \in 0..Len(dir) : \A k \in 0..n : k > 0 => SubSeq(dir, 1, Len(dir) - k + 1) \in markers}
        depth == CHOOSE n \in above : \A m \in above : m <= n
    IN SubSeq(dir, Len(dir) - depth + 1, Len(dir))
ModuleFor(markers, file) ==
    LET prefix == Prefix(markers, file.dir) IN
    IF file.stem # "__init__" THEN Append(prefix, file.stem)
    ELSE IF prefix = <<>> THEN <<Label>> ELSE prefix

----------------------------------------------------------------------------
HasNode(f, key) == \E i \in DOMAIN f.nodes : f.nodes[i].key = key
AddNode(f, parent, key, label, async) ==
    [f EXCEPT !.nodes = Append(@, [key |-> key, label |-> label, async |-> async]),
              !.contains = Append(@, <<parent, key>>)]
AddDecl(f, name, value) ==
    [f EXCEPT !.decls = Append(@, [name |-> name, key |-> Append(f.module, name), value |-> value])]
AddCall(f, caller, call) ==
    [f EXCEPT !.calls = Append(@, [caller |-> caller, kind |-> call.kind, of |-> call.of,
                                   class |-> call.class, shape |-> call.shape])]
AddType(f, owner, written) == [f EXCEPT !.types = Append(@, [owner |-> owner, written |-> written])]
AddHint(f, caller, h) ==
    IF \E i \in DOMAIN f.hints : f.hints[i].caller = caller /\ f.hints[i].name = h.name THEN f
    ELSE [f EXCEPT !.hints = Append(@, [caller |-> caller, name |-> h.name,
                                        written |-> h.written, made |-> h.made])]

NoteImport(f, target) == IF Contains(f.imports, target) THEN f ELSE [f EXCEPT !.imports = Append(@, target)]
Bind(f, local, target, member) ==
    [f EXCEPT !.bindings = Append(@, [local |-> local, target |-> target, member |-> member])]
(* `import a.b.c` binds `a`; under a name of its own, the module itself. *)
Import(f, i) ==
    LET g == NoteImport(f, i.target) IN
    IF i.as = "" THEN Bind(g, Head(i.target), <<Head(i.target)>>, "") ELSE Bind(g, i.as, i.target, "")
(* A relative import is relative to the package that holds the module. *)
From(f, i) ==
    LET pops == IF i.level = 0 THEN Len(f.module)
                ELSE i.level - (IF SubSeq(f.path, Len(f.path) - 1, Len(f.path)) = <<"__init__", "py">> THEN 1 ELSE 0)
        kept == IF pops >= Len(f.module) THEN <<>> ELSE SubSeq(f.module, 1, Len(f.module) - pops)
        base == kept \o i.module
        Take(g, n) == IF n.name = "*" THEN [g EXCEPT !.stars = Append(@, base)]
                      ELSE Bind(g, IF n.as = "" THEN n.name ELSE n.as, base, n.name)
    IN IF base = <<>> THEN f ELSE FoldLeft(Take, NoteImport(f, base), i.names)

(* What a call is held as until every file is known. *)
KindOf(parts, class) ==
    LET own == Len(parts) > 1 /\ Head(parts) \in {"self", "cls"} IN
    CASE Len(parts) = 1 -> "plain"
      [] Len(parts) > 1 /\ ~own -> "chain"
      [] own /\ class # "" /\ Len(parts) = 2 -> "this"
      [] own /\ class # "" /\ Len(parts) = 3 -> "attr"
      [] OTHER -> "opaque"
Item(f, key, class, i) ==
    CASE i.i = "import" -> Import(f, i)
      [] i.i = "from" -> From(f, i)
      [] i.i = "string" -> [f EXCEPT !.strings = Append(@, <<key, i.text>>)]
      [] i.i = "hand" -> [f EXCEPT !.handed = Append(@, <<key, i.name>>)]
      [] i.i = "super" -> IF class = "" THEN [f EXCEPT !.opaque = @ + 1]
                          ELSE AddCall(f, key, [kind |-> "super", of |-> <<i.method>>, class |-> class, shape |-> ""])
      [] i.i = "call" -> IF KindOf(i.fn, class) = "opaque" THEN [f EXCEPT !.opaque = @ + 1]
                         ELSE AddCall(f, key, [kind |-> KindOf(i.fn, class), of |-> i.fn,
                                               class |-> class, shape |-> i.shape])
      [] i.i = "let" -> f

(***************************************************************************)
(* `function`, of a module (class = NoClass) or of a class.  A second def  *)
(* of one key is an overload, and leaves only its name among the methods.  *)
(***************************************************************************)
NoClass == [name |-> "", key |-> <<>>]
Decorate(f, key, decorators) ==
    FoldLeft(LAMBDA g, d : AddCall(g, key, [kind |-> IF Len(d) = 1 THEN "plain" ELSE "chain",
                                            of |-> d, class |-> "", shape |-> ""]), f, decorators)
Locals(f, key, body) ==
    LET First(hs, i) == IF i.i # "let" \/ \E n \in DOMAIN hs : hs[n].name = i.name THEN hs
                        ELSE Append(hs, [caller |-> key, name |-> i.name,
                                         written |-> i.written, made |-> i.made])
    IN [f EXCEPT !.hints = @ \o FoldLeft(First, <<>>, body)]
Parameter(f, key, p) ==
    AddHint(AddType(f, key, p.written), key, [name |-> p.name, written |-> p.written, made |-> FALSE])
Returned(f, key, ret) ==
    IF ret = <<>> THEN f ELSE [AddType(f, key, ret) EXCEPT !.returns = Append(@, <<key, ret>>)]
Function(f, d, class) ==
    LET parent == IF class = NoClass THEN f.module ELSE class.key
        key == Append(parent, d.name)
        listed == IF class = NoClass THEN f ELSE [f EXCEPT !.methods = Append(@, <<class.name, d.name>>)]
        node == AddNode(listed, parent, key, IF class = NoClass THEN "Function" ELSE "Method", d.async)
        declared == Decorate(IF class = NoClass THEN AddDecl(node, d.name, FALSE) ELSE node, key, d.decorators)
        called == FoldLeft(LAMBDA g, i : Item(g, key, class.name, i), declared, d.body)
        typed == FoldLeft(LAMBDA g, p : Parameter(g, key, p), called, d.params)
    IN IF HasNode(listed, key) THEN listed ELSE Locals(Returned(typed, key, d.returns), key, d.body)

(* `class`, without the classes inside; a class is never an overload. *)
Attribute(f, key, a) == AddHint(IF a.field THEN AddType(f, key, a.written) ELSE f, key, a)
ClassHead(f, c, parent, outermost) ==
    LET key == Append(parent, c.name)
        node == AddNode([f EXCEPT !.classes = Append(@, key)], parent, key, "Class", FALSE)
        declared == IF outermost THEN AddDecl(node, c.name, FALSE) ELSE node
        typed == FoldLeft(LAMBDA g, a : Attribute(g, key, a), declared, c.attrs)
        based == FoldLeft(LAMBDA g, b : [g EXCEPT !.bases = Append(@, <<key, b>>)], typed, c.bases)
    IN Decorate(based, key, c.decorators)
Inner(f, m, outer) ==
    LET key == Append(outer.key, m.name) IN
    IF m.s = "def" THEN Function(f, m, outer)
    ELSE FoldLeft(LAMBDA g, d : Function(g, d, [name |-> m.name, key |-> key]),
                  ClassHead(f, m, outer.key, FALSE), m.members)
Class(f, c) ==
    FoldLeft(LAMBDA g, m : Inner(g, m, [name |-> c.name, key |-> Append(f.module, c.name)]),
             ClassHead(f, c, f.module, TRUE), c.members)

Value(f, name) ==
    LET key == Append(f.module, name) IN
    IF HasNode(f, key) THEN f ELSE AddDecl(AddNode(f, f.module, key, "Var", FALSE), name, TRUE)

Stmt(f, s) ==
    CASE s.s = "def" -> Function(f, s, NoClass)
      [] s.s = "class" -> Class(f, s)
      [] s.s = "assign" -> Value(f, s.name)
      [] s.s = "import" -> Import(f, s)
      [] s.s = "from" -> From(f, s)

(* `parse_file`: `__all__` is the export list, or else every public name. *)
ParseFile(markers, file) ==
    LET path == file.dir \o <<file.stem, file.ext>>
        module == ModuleFor(markers, file)
        f == FoldLeft(Stmt, NoFacts(path, module), file.body)
        exported(d) == IF file.all = <<>> THEN d.name \notin Underscored ELSE d.name \in file.all[1]
    IN IF ~file.parses THEN Failed(path)
       ELSE [f EXCEPT !.exports = FoldLeft(LAMBDA names, d : IF exported(d) THEN Append(names, d) ELSE names, <<>>, f.decls),
                      !.nodes = <<[key |-> module, label |-> "Module", async |-> FALSE]>> \o @]

(* The host can read every file of the tree, those it routes elsewhere too. *)
Parse(tree) ==
    LET markers == {tree[i].dir : i \in {i \in DOMAIN tree : tree[i].stem = "__init__" /\ tree[i].ext = "py"}} IN
    [i \in DOMAIN tree |-> ParseFile(markers, tree[i])]
=============================================================================
