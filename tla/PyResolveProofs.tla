--------------------------- MODULE PyResolveProofs ---------------------------
(***************************************************************************)
(* Proofs about PyResolve for any files, however many, whatever they say   *)
(* and in whatever order they come: what the runs find on small trees is   *)
(* so of every tree.                                                       *)
(*                                                                         *)
(* The argument. The parser's facts are well formed (ParseTyped, one lemma *)
(* for every kind of statement), so a lookup yields a key or nothing and a *)
(* call is answered with a key, with silence for a builtin, or with        *)
(* nothing (SiteAnswers), and the answer is a matter of the files alone    *)
(* (AnswersStay). On that rests Inv: the nodes have the keys of `seen`,    *)
(* each once (Distinct); a stand-in is never a key of `seen`, and one that *)
(* something extends is a class (BasesShown); a call already taken off the *)
(* list is a builtin, or has the edge to its own answer, with the shape    *)
(* that edge is to tell (CallsShown); what is told is told of an edge      *)
(* (Told); the ledger's keys are no keys a file could declare (Material).  *)
(* Each action keeps Inv, and a finished graph is whole because `Finish`   *)
(* adds nodes for three sets of keys that are disjoint from each other and *)
(* from `seen`.                                                            *)
(***************************************************************************)
EXTENDS PyResolve, FoldLemmas

(* What the parser writes down: a call site, a node, the facts of a file. *)
CallSite ==
    {c \in [caller : Key, kind : {"plain", "chain", "this", "attr", "super"}, of : Dotted, class : Name,
            shape : {"", "scheduled", "unawaited"}] :
        /\ c.kind = "chain" => Len(c.of) > 1
        /\ c.kind = "this" => Len(c.of) = 2
        /\ c.kind = "attr" => Len(c.of) = 3}
Labels == {"Module", "Class", "Function", "Method", "Var"}
Node == [key : Key, label : Labels, async : BOOLEAN]
NamedDecl == [name : Name, key : Key, value : BOOLEAN]
Stated == [caller : Key, name : Name, written : Dotted, made : BOOLEAN]
Facts ==
    [path : Seq(Name), module : Seq(Name), failed : BOOLEAN, nodes : Seq(Node), contains : Seq(Seq(Name) \X Key),
     calls : Seq(CallSite), opaque : Nat, strings : Seq(Key \X Seq(Name)),
     bindings : Seq([local : Name, target : Key, member : Name]), imports : Seq(Key), stars : Seq(Key),
     decls : Seq(NamedDecl), methods : Seq(Name \X Name), bases : Seq(Key \X Dotted), exports : Seq(NamedDecl),
     classes : Seq(Key), hints : Seq(Stated), handed : Seq(Key \X Name), returns : Seq(Key \X Dotted),
     types : Seq([owner : Key, written : Dotted])]

(* Dotted names put together are keys. *)
LEMMA Keys ==
    /\ \A m \in Seq(Name), n \in Name : Append(m, n) \in Key
    /\ \A n \in Name : <<n>> \in Key
    /\ \A m, n \in Seq(Name) : m \o n \in Seq(Name) /\ (m \o n # <<>> => m \o n \in Key)
    /\ \A k \in Key : k \in Seq(Name) /\ k # <<>> /\ Len(k) \in Nat \ {0} /\ (Len(k) # 1 => Len(k) > 1) /\ Head(k) \in Name /\ Tail(k) \in Seq(Name)
    /\ Dotted = Key
<1>1. \A m \in Seq(Name), n \in Name : Append(m, n) \in Key
  BY AppendProperties DEF Key, Dotted
<1>2. \A n \in Name : <<n>> \in Key
  <2> TAKE n \in Name
  <2>1. <<n>> \in Seq(Name) /\ Len(<<n>>) = 1
    OBVIOUS
  <2> QED BY <2>1 DEF Key, Dotted
<1>3. \A m, n \in Seq(Name) : m \o n \in Seq(Name) /\ (m \o n # <<>> => m \o n \in Key)
  BY ConcatProperties DEF Key, Dotted
<1>0. \A n \in Nat : n # 0 => n = 1 \/ n > 1
  OBVIOUS
<1>4. \A k \in Key : k \in Seq(Name) /\ k # <<>> /\ Len(k) \in Nat \ {0} /\ (Len(k) # 1 => Len(k) > 1) /\ Head(k) \in Name /\ Tail(k) \in Seq(Name)
  BY <1>0, HeadTailProperties, EmptySeq, LenProperties DEF Key, Dotted
<1> QED BY <1>1, <1>2, <1>3, <1>4 DEF Key

(* A file of which nothing has been read has facts. *)
LEMMA NoFactsTyped ==
    ASSUME NEW path \in Seq(Name), NEW module \in Seq(Name)
    PROVE  NoFacts(path, module) \in Facts /\ Failed(path) \in Facts
<1>1. \A S : <<>> \in Seq(S)
  OBVIOUS
<1> QED BY <1>1 DEF NoFacts, Failed, Facts

(* Adding a node to well-formed facts leaves them so; the same of each of  *)
(* the parser's small steps.                                               *)
LEMMA AddNodeTyped ==
    ASSUME NEW f \in Facts, NEW parent \in Seq(Name), NEW key \in Key, NEW label \in Labels, NEW async \in BOOLEAN
    PROVE  AddNode(f, parent, key, label, async) \in Facts
<1>1. f.nodes \in Seq(Node) /\ f.contains \in Seq(Seq(Name) \X Key)
  BY DEF Facts
<1>2. [key |-> key, label |-> label, async |-> async] \in Node /\ <<parent, key>> \in Seq(Name) \X Key
  BY DEF Node
<1>3. /\ Append(f.nodes, [key |-> key, label |-> label, async |-> async]) \in Seq(Node)
      /\ Append(f.contains, <<parent, key>>) \in Seq(Seq(Name) \X Key)
  BY <1>1, <1>2, AppendProperties
<1> QED BY <1>3 DEF AddNode, Facts

(* A declaration is added under a key of its own. *)
LEMMA AddDeclTyped ==
    ASSUME NEW f \in Facts, NEW name \in Name, NEW value \in BOOLEAN
    PROVE  AddDecl(f, name, value) \in Facts
<1>1. f.module \in Seq(Name) /\ f.decls \in Seq(NamedDecl)
  BY DEF Facts
<1>2. [name |-> name, key |-> Append(f.module, name), value |-> value] \in NamedDecl
  BY <1>1, Keys DEF NamedDecl
<1>3. Append(f.decls, [name |-> name, key |-> Append(f.module, name), value |-> value]) \in Seq(NamedDecl)
  BY <1>1, <1>2, AppendProperties
<1> QED BY <1>3 DEF AddDecl, Facts

(* A call is held with its caller and its shape. *)
LEMMA AddCallTyped ==
    ASSUME NEW f \in Facts, NEW caller \in Key, NEW call,
           [caller |-> caller, kind |-> call.kind, of |-> call.of, class |-> call.class, shape |-> call.shape] \in CallSite
    PROVE  AddCall(f, caller, call) \in Facts
<1> DEFINE c == [caller |-> caller, kind |-> call.kind, of |-> call.of, class |-> call.class, shape |-> call.shape]
<1>1. c \in CallSite /\ f.calls \in Seq(CallSite)
  BY DEF Facts
<1> HIDE DEF c
<1>2. Append(f.calls, c) \in Seq(CallSite)
  BY <1>1, AppendProperties
<1>3. [f EXCEPT !.calls = Append(@, c)] \in Facts
  BY <1>2 DEF Facts
<1> QED BY <1>3 DEF AddCall, c

(* A type is noted with its owner. *)
LEMMA AddTypeTyped ==
    ASSUME NEW f \in Facts, NEW owner \in Key, NEW written \in Dotted
    PROVE  AddType(f, owner, written) \in Facts
<1> DEFINE t == [owner |-> owner, written |-> written]
<1>1. f.types \in Seq([owner : Key, written : Dotted]) /\ t \in [owner : Key, written : Dotted]
  BY DEF Facts
<1>2. Append(f.types, t) \in Seq([owner : Key, written : Dotted])
  BY <1>1, AppendProperties
<1> QED BY <1>2 DEF AddType, Facts

(* A stated type is noted with the name it is stated for. *)
LEMMA AddHintTyped ==
    ASSUME NEW f \in Facts, NEW caller \in Key, NEW h, h.name \in Name, h.written \in Dotted, h.made \in BOOLEAN
    PROVE  AddHint(f, caller, h) \in Facts
<1> DEFINE t == [caller |-> caller, name |-> h.name, written |-> h.written, made |-> h.made]
<1>1. f.hints \in Seq(Stated) /\ t \in Stated
  BY DEF Facts, Stated
<1>2. Append(f.hints, t) \in Seq(Stated)
  BY <1>1, AppendProperties
<1>3. [f EXCEPT !.hints = Append(@, t)] \in Facts
  BY <1>2 DEF Facts
<1> QED BY <1>3 DEF AddHint

(* An import is noted once. *)
LEMMA NoteImportTyped == ASSUME NEW f \in Facts, NEW target \in Key PROVE NoteImport(f, target) \in Facts
<1>1. Append(f.imports, target) \in Seq(Key)
  BY AppendProperties DEF Facts
<1> QED BY <1>1 DEF NoteImport, Facts

(* A binding has a target. *)
LEMMA BindTyped ==
    ASSUME NEW f \in Facts, NEW local \in Name, NEW target \in Key, NEW member \in Name
    PROVE  Bind(f, local, target, member) \in Facts
<1> DEFINE B == [local : Name, target : Key, member : Name]
           b == [local |-> local, target |-> target, member |-> member]
<1>1. f.bindings \in Seq(B) /\ b \in B
  BY DEF Facts
<1>2. Append(f.bindings, b) \in Seq(B)
  BY <1>1, AppendProperties
<1> QED BY <1>2 DEF Bind, Facts

(* An import statement binds a module. *)
LEMMA ImportTyped == ASSUME NEW f \in Facts, NEW i \in ImportStmt PROVE Import(f, i) \in Facts
<1>1. i.target \in Key /\ i.as \in Name
  BY Keys DEF ImportStmt
<1>2. Head(i.target) \in Name /\ <<Head(i.target)>> \in Key
  BY <1>1, Keys
<1>3. "" \in Name
  BY NameAssumption
<1>4. NoteImport(f, i.target) \in Facts
  BY <1>1, NoteImportTyped
<1> QED BY <1>1, <1>2, <1>3, <1>4, BindTyped DEF Import

(* A from-import binds a member of a module, resolved against the package when relative. *)
LEMMA FromTyped == ASSUME NEW f \in Facts, NEW i \in FromStmt PROVE From(f, i) \in Facts
<1> DEFINE pops == IF i.level = 0 THEN Len(f.module)
                   ELSE i.level - (IF SubSeq(f.path, Len(f.path) - 1, Len(f.path)) = <<"__init__", "py">> THEN 1 ELSE 0)
           kept == IF pops >= Len(f.module) THEN <<>> ELSE SubSeq(f.module, 1, Len(f.module) - pops)
           base == kept \o i.module
           Take(g, n) == IF n.name = "*" THEN [g EXCEPT !.stars = Append(@, base)]
                         ELSE Bind(g, IF n.as = "" THEN n.name ELSE n.as, base, n.name)
<1>1. f.module \in Seq(Name) /\ i.level \in Nat /\ i.module \in Seq(Name) /\ i.names \in Seq([name : Name, as : Name])
  BY DEF Facts, FromStmt
<1>2. pops \in Nat
  BY <1>1
<1>3. kept \in Seq(Name)
  <2> HIDE DEF pops
  <2> QED BY <1>1, <1>2
<1> HIDE DEF kept
<1>4. CASE base # <<>>
  <2>1. base \in Key
    BY <1>1, <1>3, <1>4, Keys
  <2> HIDE DEF base
  <2>2. KeptBy(Take, Facts, [name : Name, as : Name])
    <3> SUFFICES ASSUME NEW g \in Facts, NEW n \in [name : Name, as : Name] PROVE Take(g, n) \in Facts
      BY DEF KeptBy
    <3>1. Append(g.stars, base) \in Seq(Key)
      BY <2>1, AppendProperties DEF Facts
    <3>2. [g EXCEPT !.stars = Append(@, base)] \in Facts
      BY <3>1 DEF Facts
    <3>3. n.name \in Name /\ n.as \in Name
      OBVIOUS
    <3> QED BY <2>1, <3>2, <3>3, BindTyped
  <2>3. NoteImport(f, base) \in Facts
    BY <2>1, NoteImportTyped
  <2>4. FoldLeft(Take, NoteImport(f, base), i.names) \in Facts
    <3> HIDE DEF Take
    <3> QED BY <1>1, <2>2, <2>3, FoldLeftStays
  <2> QED BY <1>4, <2>4 DEF From, base, kept
<1>5. CASE base = <<>>
  BY <1>5 DEF From, kept
<1> QED BY <1>4, <1>5

(* What a body holds is noted under the function it stands in. *)
LEMMA ItemTyped ==
    ASSUME NEW f \in Facts, NEW key \in Key, NEW class \in Name, NEW i \in BodyItem
    PROVE  Item(f, key, class, i) \in Facts
<1>1. CASE i \in ImportStmt
  <2>1. i.i = "import"
    BY <1>1 DEF ImportStmt
  <2> QED BY <1>1, <2>1, ImportTyped DEF Item
<1>2. CASE i \in FromStmt
  <2>1. i.i = "from"
    BY <1>2 DEF FromStmt
  <2> QED BY <1>2, <2>1, FromTyped DEF Item
<1>3. CASE i \in [i : {"string"}, text : Seq(Name)]
  <2>1. i.i = "string" /\ <<key, i.text>> \in Key \X Seq(Name)
    BY <1>3
  <2>2. Append(f.strings, <<key, i.text>>) \in Seq(Key \X Seq(Name))
    BY <2>1, AppendProperties DEF Facts
  <2>3. [f EXCEPT !.strings = Append(@, <<key, i.text>>)] \in Facts
    BY <2>2 DEF Facts
  <2> QED BY <2>1, <2>3 DEF Item
<1>4. CASE i \in [i : {"hand"}, name : Name]
  <2>1. i.i = "hand" /\ <<key, i.name>> \in Key \X Name
    BY <1>4
  <2>2. Append(f.handed, <<key, i.name>>) \in Seq(Key \X Name)
    BY <2>1, AppendProperties DEF Facts
  <2>3. [f EXCEPT !.handed = Append(@, <<key, i.name>>)] \in Facts
    BY <2>2 DEF Facts
  <2> QED BY <2>1, <2>3 DEF Item
<1>5. [f EXCEPT !.opaque = @ + 1] \in Facts
  <2>1. f.opaque \in Nat
    BY DEF Facts
  <2>2. f.opaque + 1 \in Nat
    BY <2>1
  <2> QED BY <2>2 DEF Facts
<1>6. CASE i \in [i : {"super"}, method : Name]
  <2> DEFINE call == [kind |-> "super", of |-> <<i.method>>, class |-> class, shape |-> ""]
  <2>1. i.i = "super" /\ <<i.method>> \in Dotted
    BY <1>6, Keys
  <2>2. [caller |-> key, kind |-> call.kind, of |-> call.of, class |-> call.class, shape |-> call.shape] \in CallSite
    BY <2>1 DEF CallSite
  <2>3. AddCall(f, key, call) \in Facts
    <3> HIDE DEF call
    <3> QED BY <2>2, AddCallTyped
  <2> QED BY <1>5, <2>1, <2>3 DEF Item
<1>7. CASE i \in [i : {"call"}, fn : Dotted, shape : {"", "scheduled", "unawaited"}]
  <2> DEFINE call == [kind |-> KindOf(i.fn, class), of |-> i.fn, class |-> class, shape |-> i.shape]
  <2>1. i.i = "call" /\ i.fn \in Dotted /\ i.shape \in {"", "scheduled", "unawaited"} /\ Len(i.fn) \in Nat \ {0}
    BY <1>7, Keys
  <2>2. CASE KindOf(i.fn, class) # "opaque"
    <3>1. /\ KindOf(i.fn, class) \in {"plain", "chain", "this", "attr"}
          /\ KindOf(i.fn, class) = "chain" => Len(i.fn) > 1
          /\ KindOf(i.fn, class) = "this" => Len(i.fn) = 2
          /\ KindOf(i.fn, class) = "attr" => Len(i.fn) = 3
      BY <2>2 DEF KindOf
    <3>2. [caller |-> key, kind |-> call.kind, of |-> call.of, class |-> call.class, shape |-> call.shape] \in CallSite
      BY <2>1, <3>1 DEF CallSite
    <3>3. AddCall(f, key, call) \in Facts
      <4> HIDE DEF call
      <4> QED BY <3>2, AddCallTyped
    <3> QED BY <2>1, <2>2, <3>3 DEF Item
  <2>3. CASE KindOf(i.fn, class) = "opaque"
    BY <1>5, <2>1, <2>3 DEF Item
  <2> QED BY <2>2, <2>3
<1>8. CASE i \in [i : {"let"}, name : Name, written : Dotted, made : BOOLEAN]
  BY <1>8 DEF Item
<1> QED BY <1>1, <1>2, <1>3, <1>4, <1>6, <1>7, <1>8 DEF BodyItem

(* A decorator is a call or a reference. *)
LEMMA DecorateTyped ==
    ASSUME NEW f \in Facts, NEW key \in Key, NEW decorators \in Seq(Dotted)
    PROVE  Decorate(f, key, decorators) \in Facts
<1> DEFINE Op(g, d) == AddCall(g, key, [kind |-> IF Len(d) = 1 THEN "plain" ELSE "chain",
                                        of |-> d, class |-> "", shape |-> ""])
<1>1. KeptBy(Op, Facts, Dotted)
  <2> SUFFICES ASSUME NEW g \in Facts, NEW d \in Dotted PROVE Op(g, d) \in Facts
    BY DEF KeptBy
  <2> DEFINE call == [kind |-> IF Len(d) = 1 THEN "plain" ELSE "chain", of |-> d, class |-> "", shape |-> ""]
  <2>1. /\ call.kind \in {"plain", "chain"} /\ (call.kind = "chain" => Len(d) > 1)
        /\ call.of = d /\ call.class = "" /\ call.shape = ""
    <3>2. Len(d) # 1 => Len(d) > 1
      BY Keys
    <3>3. call.kind = IF Len(d) = 1 THEN "plain" ELSE "chain"
      OBVIOUS
    <3>4. call.of = d /\ call.class = "" /\ call.shape = ""
      OBVIOUS
    <3> HIDE DEF call
    <3> QED BY <3>2, <3>3, <3>4
  <2>2. "" \in Name
    BY NameAssumption
  <2>3. [caller |-> key, kind |-> call.kind, of |-> call.of, class |-> call.class, shape |-> call.shape] \in CallSite
    <3> HIDE DEF call
    <3> QED BY <2>1, <2>2 DEF CallSite
  <2> HIDE DEF call
  <2>4. AddCall(g, key, call) \in Facts
    BY <2>3, AddCallTyped
  <2> QED BY <2>4 DEF call
<1>2. FoldLeft(Op, f, decorators) \in Facts
  <2> HIDE DEF Op
  <2> QED BY <1>1, FoldLeftStays
<1> QED BY <1>2 DEF Decorate

(* The statements of a body, one after the other. *)
LEMMA LocalsTyped ==
    ASSUME NEW f \in Facts, NEW key \in Key, NEW body \in Seq(BodyItem)
    PROVE  Locals(f, key, body) \in Facts
<1> DEFINE First(hs, i) == IF i.i # "let" \/ \E n \in DOMAIN hs : hs[n].name = i.name THEN hs
                           ELSE Append(hs, [caller |-> key, name |-> i.name,
                                            written |-> i.written, made |-> i.made])
<1>1. KeptBy(First, Seq(Stated), BodyItem)
  <2> SUFFICES ASSUME NEW hs \in Seq(Stated), NEW i \in BodyItem, i.i = "let"
               PROVE  Append(hs, [caller |-> key, name |-> i.name, written |-> i.written, made |-> i.made]) \in Seq(Stated)
    BY DEF KeptBy
  <2>1. i \in [i : {"let"}, name : Name, written : Dotted, made : BOOLEAN]
    BY DEF BodyItem, ImportStmt, FromStmt
  <2>2. [caller |-> key, name |-> i.name, written |-> i.written, made |-> i.made] \in Stated
    BY <2>1 DEF Stated
  <2> QED BY <2>2, AppendProperties
<1>2. FoldLeft(First, <<>>, body) \in Seq(Stated)
  <2>1. <<>> \in Seq(Stated)
    OBVIOUS
  <2> HIDE DEF First
  <2> QED BY <1>1, <2>1, FoldLeftStays
<1> HIDE DEF First
<1>3. f.hints \o FoldLeft(First, <<>>, body) \in Seq(Stated)
  BY <1>2, ConcatProperties DEF Facts
<1>4. [f EXCEPT !.hints = @ \o FoldLeft(First, <<>>, body)] \in Facts
  BY <1>3 DEF Facts
<1> QED BY <1>4 DEF Locals, First

(* A parameter's annotation is a hint. *)
LEMMA ParameterTyped ==
    ASSUME NEW f \in Facts, NEW key \in Key, NEW p \in ParamDecl
    PROVE  Parameter(f, key, p) \in Facts
<1> DEFINE h == [name |-> p.name, written |-> p.written, made |-> FALSE]
<1>1. p.name \in Name /\ p.written \in Dotted
  BY DEF ParamDecl
<1>2. AddType(f, key, p.written) \in Facts
  BY <1>1, AddTypeTyped
<1>3. h.name \in Name /\ h.written \in Dotted /\ h.made \in BOOLEAN
  BY <1>1
<1> HIDE DEF h
<1>4. AddHint(AddType(f, key, p.written), key, h) \in Facts
  BY <1>2, <1>3, AddHintTyped
<1> QED BY <1>4 DEF Parameter, h

(* A return annotation is noted with the function's key. *)
LEMMA ReturnedTyped ==
    ASSUME NEW f \in Facts, NEW key \in Key, NEW ret \in Seq(Name)
    PROVE  Returned(f, key, ret) \in Facts
<1>1. CASE ret # <<>>
  <2>1. ret \in Dotted
    BY <1>1 DEF Dotted
  <2>2. AddType(f, key, ret) \in Facts
    BY <2>1, AddTypeTyped
  <2> DEFINE g == AddType(f, key, ret)
  <2> HIDE DEF g
  <2>3. g \in Facts /\ Append(g.returns, <<key, ret>>) \in Seq(Key \X Dotted)
    BY <2>1, <2>2, AppendProperties DEF Facts, g
  <2>4. [g EXCEPT !.returns = Append(@, <<key, ret>>)] \in Facts
    BY <2>3 DEF Facts
  <2> QED BY <1>1, <2>4 DEF Returned, g
<1>2. CASE ret = <<>>
  BY <1>2 DEF Returned
<1> QED BY <1>1, <1>2

Owner == [name : Name, key : Seq(Name)]
(* A function or method, its parameters and its body. *)
LEMMA FunctionTyped ==
    ASSUME NEW f \in Facts, NEW d \in DefStmt, NEW class \in Owner
    PROVE  Function(f, d, class) \in Facts
<1> DEFINE parent == IF class = NoClass THEN f.module ELSE class.key
           key == Append(parent, d.name)
           listed == IF class = NoClass THEN f ELSE [f EXCEPT !.methods = Append(@, <<class.name, d.name>>)]
           node == AddNode(listed, parent, key, IF class = NoClass THEN "Function" ELSE "Method", d.async)
           owned == IF class = NoClass THEN AddDecl(node, d.name, FALSE) ELSE node
           declared == Decorate(owned, key, d.decorators)
           Called(g, i) == Item(g, key, class.name, i)
           called == FoldLeft(Called, declared, d.body)
           Typed(g, p) == Parameter(g, key, p)
           typed == FoldLeft(Typed, called, d.params)
           returned == Returned(typed, key, d.returns)
<1>1. /\ d.name \in Name /\ d.async \in BOOLEAN /\ d.decorators \in Seq(Dotted) /\ d.params \in Seq(ParamDecl)
      /\ d.returns \in Seq(Name) /\ d.body \in Seq(BodyItem)
  BY DEF DefStmt
<1>2. parent \in Seq(Name) /\ class.name \in Name
  BY DEF Owner, Facts
<1>3. key \in Key
  <2> HIDE DEF parent
  <2> QED BY <1>1, <1>2, Keys
<1>4. listed \in Facts
  <2>1. <<class.name, d.name>> \in Name \X Name
    BY <1>1, <1>2
  <2>2. Append(f.methods, <<class.name, d.name>>) \in Seq(Name \X Name)
    BY <2>1, AppendProperties DEF Facts
  <2>3. [f EXCEPT !.methods = Append(@, <<class.name, d.name>>)] \in Facts
    BY <2>2 DEF Facts
  <2> QED BY <2>3
<1> HIDE DEF parent, key, listed
<1>5. node \in Facts
  <2> DEFINE label == IF class = NoClass THEN "Function" ELSE "Method"
  <2>1. label \in Labels
    BY DEF Labels
  <2> HIDE DEF label
  <2>2. AddNode(listed, parent, key, label, d.async) \in Facts
    BY <1>1, <1>2, <1>3, <1>4, <2>1, AddNodeTyped
  <2> QED BY <2>2 DEF label
<1> HIDE DEF node
<1>6. owned \in Facts
  BY <1>1, <1>5, AddDeclTyped
<1> HIDE DEF owned
<1>7. declared \in Facts
  BY <1>1, <1>3, <1>6, DecorateTyped
<1> HIDE DEF declared
<1>8. called \in Facts
  <2>1. KeptBy(Called, Facts, BodyItem)
    BY <1>2, <1>3, ItemTyped DEF KeptBy
  <2> HIDE DEF Called
  <2> QED BY <1>1, <1>7, <2>1, FoldLeftStays
<1> HIDE DEF called
<1>9. typed \in Facts
  <2>1. KeptBy(Typed, Facts, ParamDecl)
    BY <1>3, ParameterTyped DEF KeptBy
  <2> HIDE DEF Typed
  <2> QED BY <1>1, <1>8, <2>1, FoldLeftStays
<1> HIDE DEF typed
<1>10. returned \in Facts
  BY <1>1, <1>3, <1>9, ReturnedTyped
<1> HIDE DEF returned
<1>11. Locals(returned, key, d.body) \in Facts
  BY <1>1, <1>3, <1>10, LocalsTyped
<1>12. Function(f, d, class) = IF HasNode(listed, key) THEN listed ELSE Locals(returned, key, d.body)
  BY DEF Function, parent, key, listed, node, owned, declared, called, typed, returned
<1> QED BY <1>4, <1>11, <1>12

(* A class and its bases. *)
LEMMA ClassHeadTyped ==
    ASSUME NEW f \in Facts, NEW Member, NEW c \in ClassWith(Member), NEW parent \in Seq(Name), NEW outermost \in BOOLEAN
    PROVE  ClassHead(f, c, parent, outermost) \in Facts
<1> DEFINE key == Append(parent, c.name)
           listed == [f EXCEPT !.classes = Append(@, key)]
           node == AddNode(listed, parent, key, "Class", FALSE)
           declared == IF outermost THEN AddDecl(node, c.name, FALSE) ELSE node
           Stating(g, a) == Attribute(g, key, a)
           typed == FoldLeft(Stating, declared, c.attrs)
           Basing(g, b) == [g EXCEPT !.bases = Append(@, <<key, b>>)]
           based == FoldLeft(Basing, typed, c.bases)
<1>1. c.name \in Name /\ c.bases \in Seq(Dotted) /\ c.attrs \in Seq(AttrDecl) /\ c.decorators \in Seq(Dotted)
  BY DEF ClassWith
<1>2. key \in Key
  BY <1>1, Keys
<1> HIDE DEF key
<1>3. listed \in Facts
  <2>1. Append(f.classes, key) \in Seq(Key)
    BY <1>2, AppendProperties DEF Facts
  <2> QED BY <2>1 DEF Facts
<1> HIDE DEF listed
<1>4. node \in Facts
  BY <1>2, <1>3, AddNodeTyped DEF Labels
<1> HIDE DEF node
<1>5. declared \in Facts
  BY <1>1, <1>4, AddDeclTyped
<1> HIDE DEF declared
<1>6. typed \in Facts
  <2>1. KeptBy(Stating, Facts, AttrDecl)
    <3> SUFFICES ASSUME NEW g \in Facts, NEW a \in AttrDecl PROVE Attribute(g, key, a) \in Facts
      BY DEF KeptBy
    <3> DEFINE h == IF a.field THEN AddType(g, key, a.written) ELSE g
    <3>1. a.name \in Name /\ a.written \in Dotted /\ a.made \in BOOLEAN
      BY DEF AttrDecl
    <3>2. h \in Facts
      BY <1>2, <3>1, AddTypeTyped
    <3> HIDE DEF h
    <3>3. AddHint(h, key, a) \in Facts
      BY <1>2, <3>1, <3>2, AddHintTyped
    <3> QED BY <3>3 DEF Attribute, h
  <2> HIDE DEF Stating
  <2> QED BY <1>1, <1>5, <2>1, FoldLeftStays
<1> HIDE DEF typed
<1>7. based \in Facts
  <2>1. KeptBy(Basing, Facts, Dotted)
    <3> SUFFICES ASSUME NEW g \in Facts, NEW b \in Dotted PROVE Basing(g, b) \in Facts
      BY DEF KeptBy
    <3>1. <<key, b>> \in Key \X Dotted
      BY <1>2
    <3>2. Append(g.bases, <<key, b>>) \in Seq(Key \X Dotted)
      BY <3>1, AppendProperties DEF Facts
    <3> QED BY <3>2 DEF Facts
  <2> HIDE DEF Basing
  <2> QED BY <1>1, <1>6, <2>1, FoldLeftStays
<1> HIDE DEF based
<1>8. Decorate(based, key, c.decorators) \in Facts
  BY <1>1, <1>2, <1>7, DecorateTyped
<1> QED BY <1>8 DEF ClassHead, key, listed, node, declared, typed, based

(* A class inside a class. *)
LEMMA InnerTyped ==
    ASSUME NEW f \in Facts, NEW m \in DefStmt \cup InnerClass, NEW outer \in Owner
    PROVE  Inner(f, m, outer) \in Facts
<1>1. CASE m \in DefStmt
  <2>1. m.s = "def"
    BY <1>1 DEF DefStmt
  <2> QED BY <1>1, <2>1, FunctionTyped DEF Inner
<1>2. CASE m \in InnerClass
  <2> DEFINE key == Append(outer.key, m.name)
             owner == [name |-> m.name, key |-> key]
             Op(g, d) == Function(g, d, owner)
  <2>1. m.s = "class" /\ m.name \in Name /\ m.members \in Seq(DefStmt) /\ outer.key \in Seq(Name)
    BY <1>2 DEF InnerClass, ClassWith, Owner
  <2>2. owner \in Owner
    BY <2>1, Keys DEF Owner
  <2>3. ClassHead(f, m, outer.key, FALSE) \in Facts
    BY <1>2, <2>1, ClassHeadTyped DEF InnerClass
  <2>4. KeptBy(Op, Facts, DefStmt)
    <3> HIDE DEF owner
    <3> QED BY <2>2, FunctionTyped DEF KeptBy
  <2>5. FoldLeft(Op, ClassHead(f, m, outer.key, FALSE), m.members) \in Facts
    <3> HIDE DEF Op
    <3> QED BY <2>1, <2>3, <2>4, FoldLeftStays
  <2> QED BY <2>1, <2>5 DEF Inner
<1> QED BY <1>1, <1>2

(* A class with all it holds. *)
LEMMA ClassTyped == ASSUME NEW f \in Facts, NEW c \in ClassStmt PROVE Class(f, c) \in Facts
<1> DEFINE owner == [name |-> c.name, key |-> Append(f.module, c.name)]
           Op(g, m) == Inner(g, m, owner)
<1>1. c.name \in Name /\ c.members \in Seq(DefStmt \cup InnerClass) /\ f.module \in Seq(Name)
  BY DEF ClassStmt, ClassWith, Facts
<1>2. owner \in Owner
  BY <1>1, Keys DEF Owner
<1>3. ClassHead(f, c, f.module, TRUE) \in Facts
  BY <1>1, ClassHeadTyped DEF ClassStmt
<1>4. KeptBy(Op, Facts, DefStmt \cup InnerClass)
  <2> HIDE DEF owner
  <2> QED BY <1>2, InnerTyped DEF KeptBy
<1>5. FoldLeft(Op, ClassHead(f, c, f.module, TRUE), c.members) \in Facts
  <2> HIDE DEF Op
  <2> QED BY <1>1, <1>3, <1>4, FoldLeftStays
<1> QED BY <1>5 DEF Class

(* A value at the top of a module. *)
LEMMA ValueTyped == ASSUME NEW f \in Facts, NEW name \in Name PROVE Value(f, name) \in Facts
<1>1. f.module \in Seq(Name) /\ Append(f.module, name) \in Key
  BY Keys DEF Facts
<1>2. AddNode(f, f.module, Append(f.module, name), "Var", FALSE) \in Facts
  BY <1>1, AddNodeTyped DEF Labels
<1>3. AddDecl(AddNode(f, f.module, Append(f.module, name), "Var", FALSE), name, TRUE) \in Facts
  BY <1>2, AddDeclTyped
<1> QED BY <1>3 DEF Value

(* Any statement at the top of a module leaves well-formed facts. *)
LEMMA StmtTyped == ASSUME NEW f \in Facts, NEW s \in Statement PROVE Stmt(f, s) \in Facts
<1>1. CASE s \in DefStmt
  <2>1. s.s = "def"
    BY <1>1 DEF DefStmt
  <2>2. NoClass \in Owner
    <3>1. "" \in Name
      BY NameAssumption
    <3>2. <<>> \in Seq(Name)
      OBVIOUS
    <3> QED BY <3>1, <3>2 DEF NoClass, Owner
  <2> QED BY <1>1, <2>1, <2>2, FunctionTyped DEF Stmt
<1>2. CASE s \in ClassStmt
  <2>1. s.s = "class"
    BY <1>2 DEF ClassStmt, ClassWith
  <2> QED BY <1>2, <2>1, ClassTyped DEF Stmt
<1>3. CASE s \in [s : {"assign"}, name : Name]
  BY <1>3, ValueTyped DEF Stmt
<1>4. CASE s \in ImportStmt
  <2>1. s.s = "import"
    BY <1>4 DEF ImportStmt
  <2> QED BY <1>4, <2>1, ImportTyped DEF Stmt
<1>5. CASE s \in FromStmt
  <2>1. s.s = "from"
    BY <1>5 DEF FromStmt
  <2> QED BY <1>5, <2>1, FromTyped DEF Stmt
<1> QED BY <1>1, <1>2, <1>3, <1>4, <1>5 DEF Statement

(* A file has a module id, found from its path and the packages above it. *)
LEMMA ModuleTyped == ASSUME NEW markers, NEW file \in File PROVE ModuleFor(markers, file) \in Key
<1> DEFINE dir == file.dir
           above == {n \in 0..Len(dir) : \A k \in 0..n : k > 0 => SubSeq(dir, 1, Len(dir) - k + 1) \in markers}
           depth == CHOOSE n \in above : \A m \in above : m <= n
<1>1. dir \in Seq(Name) /\ file.stem \in Name
  BY DEF File
<1>2. Prefix(markers, dir) \in Seq(Name)
  <2>1. above \in SUBSET (0..Len(dir)) /\ 0 \in above
    BY <1>1
  <2> HIDE DEF above
  <2> DEFINE spare == {k \in Nat : \E n \in above : k = Len(dir) - n}
  <2>2. Len(dir) \in spare /\ spare \subseteq Nat
    <3>1. Len(dir) \in Nat /\ Len(dir) = Len(dir) - 0
      BY <1>1
    <3> QED BY <2>1, <3>1
  <2>3. PICK k \in spare : \A j \in spare : k <= j
    BY <2>2, LeastNumber
  <2>4. PICK n \in above : k = Len(dir) - n
    BY <2>3
  <2>5. ASSUME NEW m \in above PROVE m <= n
    <3>1. Len(dir) - m \in spare
      BY <1>1, <2>1
    <3>2. m \in 0..Len(dir) /\ n \in 0..Len(dir) /\ Len(dir) \in Nat
      BY <1>1, <2>1
    <3>3. Len(dir) - n <= Len(dir) - m
      BY <2>3, <2>4, <3>1
    <3> QED BY <3>2, <3>3
  <2>6. depth \in above
    BY <2>5
  <2>7. depth \in 0..Len(dir)
    BY <2>1, <2>6
  <2> HIDE DEF depth
  <2>8. SubSeq(dir, Len(dir) - depth + 1, Len(dir)) \in Seq(Name)
    BY <1>1, <2>7
  <2> QED BY <2>8 DEF Prefix, depth, above
<1> DEFINE prefix == Prefix(markers, dir)
<1>3. Append(prefix, file.stem) \in Key
  BY <1>1, <1>2, Keys
<1>4. <<Label>> \in Key
  BY NameAssumption, Keys
<1>5. prefix # <<>> => prefix \in Key
  BY <1>2 DEF Key, Dotted
<1> QED BY <1>3, <1>4, <1>5 DEF ModuleFor

(* A parsed file, or one that failed, has well-formed facts. *)
LEMMA ParseFileTyped == ASSUME NEW markers, NEW file \in File PROVE ParseFile(markers, file) \in Facts
<1> DEFINE path == file.dir \o <<file.stem, file.ext>>
           module == ModuleFor(markers, file)
           f == FoldLeft(Stmt, NoFacts(path, module), file.body)
           exported(d) == IF file.all = <<>> THEN d.name \notin Underscored ELSE d.name \in file.all[1]
           Export1(names, d) == IF exported(d) THEN Append(names, d) ELSE names
           exports == FoldLeft(Export1, <<>>, f.decls)
           whole == <<[key |-> module, label |-> "Module", async |-> FALSE]>>
<1>1. file.dir \in Seq(Name) /\ file.stem \in Name /\ file.ext \in Name /\ file.body \in Seq(Statement)
  BY NameAssumption DEF File
<1>2. path \in Seq(Name)
  <2>1. <<file.stem, file.ext>> \in Seq(Name)
    BY <1>1
  <2> QED BY <1>1, <2>1, ConcatProperties
<1>3. module \in Key /\ module \in Seq(Name)
  BY ModuleTyped, Keys
<1> HIDE DEF path, module
<1>4. f \in Facts
  <2>1. NoFacts(path, module) \in Facts
    BY <1>2, <1>3, NoFactsTyped
  <2>2. \A g \in Facts, s \in Statement : Stmt(g, s) \in Facts
    BY StmtTyped
  <2>3. KeptBy(Stmt, Facts, Statement)
    BY <2>2 DEF KeptBy
  <2> QED BY <1>1, <2>1, <2>3, FoldLeftStays
<1> HIDE DEF f
<1>5. exports \in Seq(NamedDecl)
  <2>1. f.decls \in Seq(NamedDecl)
    BY <1>4 DEF Facts
  <2>2. KeptBy(Export1, Seq(NamedDecl), NamedDecl)
    BY AppendProperties DEF KeptBy
  <2>3. <<>> \in Seq(NamedDecl)
    OBVIOUS
  <2> HIDE DEF Export1
  <2> QED BY <2>1, <2>2, <2>3, FoldLeftStays
<1> HIDE DEF exports
<1>6. whole \o f.nodes \in Seq(Node)
  <2>1. [key |-> module, label |-> "Module", async |-> FALSE] \in Node
    BY <1>3 DEF Node, Labels
  <2>2. whole \in Seq(Node)
    BY <2>1
  <2> HIDE DEF whole
  <2> QED BY <1>4, <2>2, ConcatProperties DEF Facts
<1> HIDE DEF whole
<1>7. [f EXCEPT !.exports = exports, !.nodes = whole \o @] \in Facts
  BY <1>4, <1>5, <1>6 DEF Facts
<1>8. ParseFile(markers, file) = IF ~file.parses THEN Failed(path)
                                 ELSE [f EXCEPT !.exports = exports, !.nodes = whole \o @]
  BY DEF ParseFile, path, module, f, exports, whole
<1> QED BY <1>2, <1>7, <1>8, NoFactsTyped

(* The facts of a tree are those of its files, in order. *)
LEMMA ParseTyped == ASSUME NEW tree \in Trees PROVE Parse(tree) \in Seq(Facts)
<1> DEFINE markers == {tree[i].dir : i \in {i \in DOMAIN tree : tree[i].stem = "__init__" /\ tree[i].ext = "py"}}
<1>1. tree \in Seq(File)
  BY TreesAssumption
<1>2. Parse(tree) = [i \in DOMAIN tree |-> ParseFile(markers, tree[i])]
  BY DEF Parse
<1> HIDE DEF markers
<1>3. DOMAIN tree = 1..Len(tree) /\ Len(tree) \in Nat /\ \A i \in DOMAIN tree : tree[i] \in File
  BY <1>1
<1> QED BY <1>2, <1>3, ParseFileTyped, IsASeq

----------------------------------------------------------------------------
(* An answer of a lookup; what a selector reads off a file's facts. *)
Known == Key \cup {None}
ReadsIn(Of(_), S) == \A f \in Facts : Of(f) \in Seq(S)
(* What is read off every file's facts, in one sequence. *)
LEMMA OverFilesIn ==
    ASSUME all \in Seq(Facts), NEW Of(_), NEW S, ReadsIn(Of, S)
    PROVE  OverFiles(Of) \in Seq(S)
<1> DEFINE seqs == [i \in DOMAIN all |-> Of(all[i])]
<1>1. DOMAIN all = 1..Len(all) /\ Len(all) \in Nat /\ \A i \in DOMAIN all : all[i] \in Facts
  OBVIOUS
<1>2. \A i \in 1..Len(all) : Of(all[i]) \in Seq(S)
  BY <1>1 DEF ReadsIn
<1>3. seqs \in Seq(Seq(S))
  <2>1. seqs \in [1..Len(all) -> Seq(S)]
    BY <1>1, <1>2
  <2> HIDE DEF seqs
  <2> QED BY <1>1, <2>1
<1> HIDE DEF seqs
<1>4. FlattenSeq(seqs) \in Seq(S)
  BY <1>3, FlattenElements
<1> QED BY <1>4 DEF OverFiles, seqs

(* A lookup by module and name finds one of what the files declare, or nothing. *)
LEMMA LookupIn ==
    ASSUME all \in Seq(Facts), NEW Names(_), NEW S, ReadsIn(Names, S), NEW module, NEW name
    PROVE  Lookup(module, Names, name) \in {None} \cup {<<d>> : d \in S}
<1> DEFINE Of(f) == IF ~f.failed /\ f.module = module THEN Names(f) ELSE <<>>
           names == OverFiles(Of)
           Named(d) == d.name = name
           n == SelectInSeq(names, Named)
<1>1. ReadsIn(Of, S)
  <2>1. <<>> \in Seq(S)
    OBVIOUS
  <2> QED BY <2>1 DEF ReadsIn
<1> HIDE DEF Of
<1>2. names \in Seq(S)
  BY <1>1, OverFilesIn
<1> HIDE DEF names
<1>3. n \in 0..Len(names)
  <2>1. Len(names) \in Nat
    BY <1>2
  <2> HIDE DEF Named
  <2> QED BY <2>1, SelectedIsPlace
<1> HIDE DEF n
<1>4. n # 0 => names[n] \in S
  BY <1>2, <1>3
<1>5. Lookup(module, Names, name) = IF n = 0 THEN None ELSE <<names[n]>>
  BY DEF Lookup, FirstNamed, n, names, Of, Named
<1> QED BY <1>4, <1>5

(* A declaration found has a key. *)
LEMMA DeclaredIn ==
    ASSUME all \in Seq(Facts), NEW module, NEW name
    PROVE  /\ Declared(module, name) \in {None} \cup {<<d>> : d \in NamedDecl}
           /\ Decl(module, name) \in Known
           /\ Export(module, name) \in Known
<1> DEFINE Decls(f) == f.decls
           Exports(f) == f.exports
<1>1. ReadsIn(Decls, NamedDecl) /\ ReadsIn(Exports, NamedDecl)
  BY DEF ReadsIn, Facts
<1> HIDE DEF Decls, Exports
<1>2. /\ Lookup(module, Decls, name) \in {None} \cup {<<d>> : d \in NamedDecl}
      /\ Lookup(module, Exports, name) \in {None} \cup {<<d>> : d \in NamedDecl}
  BY <1>1, LookupIn
<1>3. Declared(module, name) \in {None} \cup {<<d>> : d \in NamedDecl}
  BY <1>2 DEF Declared, Decls
<1>4. \A d \in NamedDecl : <<d>>[1].key \in Key
  BY DEF NamedDecl
<1>5. Decl(module, name) \in Known
  BY <1>3, <1>4 DEF Decl, KeyOf, Known, None
<1>6. Export(module, name) \in Known
  BY <1>2, <1>4 DEF Export, KeyOf, Known, None, Exports
<1> QED BY <1>3, <1>5, <1>6

(* A binding found has a target. *)
LEMMA BindingIn ==
    ASSUME NEW f \in Facts, NEW name
    PROVE  /\ Binding(f, name) # NoBinding => Binding(f, name).target \in Key /\ Binding(f, name).member \in Name
           /\ Binding(f, name) # NoBinding => Bound(Binding(f, name)) \in Key
<1> DEFINE B == [local : Name, target : Key, member : Name]
           Local(b) == b.local = name
           n == SelectLastInSeq(f.bindings, Local)
           b == Binding(f, name)
<1>1. f.bindings \in Seq(B) /\ Len(f.bindings) \in Nat
  BY DEF Facts
<1>2. n \in 0..Len(f.bindings)
  <2> HIDE DEF Local
  <2> QED BY <1>1, LastSelectedIsPlace
<1> HIDE DEF n
<1>3. n # 0 => f.bindings[n] \in B
  <2> HIDE DEF B
  <2> QED BY <1>1, <1>2
<1>4. b = IF n = 0 THEN NoBinding ELSE f.bindings[n]
  BY DEF Binding, n, Local
<1> HIDE DEF b
<1>5. b # NoBinding => b.target \in Key /\ b.member \in Name
  BY <1>3, <1>4
<1>6. b # NoBinding => Bound(b) \in Key
  <2> SUFFICES ASSUME b # NoBinding PROVE Bound(b) \in Key
    OBVIOUS
  <2> DEFINE rest == IF b.member = "" THEN <<>> ELSE <<b.member>>
  <2>1. rest \in Seq(Name)
    <3>1. <<>> \in Seq(Name) /\ <<b.member>> \in Seq(Name)
      BY <1>5
    <3> QED BY <3>1
  <2>2. b.target \in Seq(Name) /\ b.target # <<>>
    BY <1>5, Keys
  <2> HIDE DEF rest
  <2>3. b.target \o rest \in Seq(Name) /\ b.target \o rest # <<>>
    BY <2>1, <2>2
  <2> QED BY <2>3 DEF Bound, rest, Key, Dotted
<1> QED BY <1>5, <1>6 DEF b

(* The classes are keys. *)
LEMMA ClassesKnown == ASSUME all \in Seq(Facts) PROVE Classes \subseteq Key
<1>1. \A i \in DOMAIN all : all[i].classes \in Seq(Key)
  <2>1. \A i \in DOMAIN all : all[i] \in Facts
    OBVIOUS
  <2> QED BY <2>1 DEF Facts
<1>2. \A i \in DOMAIN all : ToSet(all[i].classes) \subseteq Key
  BY <1>1 DEF ToSet
<1> QED BY <1>2 DEF Classes

(* A written name declares a class of the tree, or nothing. *)
LEMMA ClassOfIn ==
    ASSUME all \in Seq(Facts), NEW f, NEW written
    PROVE  /\ DeclOf(f, written) \in Known
           /\ ClassOf(f, written) \in Classes \cup {None}
           /\ ClassOf(f, written) \in Known
<1>1. DeclOf(f, written) \in Known
  BY DeclaredIn DEF DeclOf, OrElse, Known
<1> QED BY <1>1, ClassesKnown DEF ClassOf, OnlyClass, Known

(* The first answer that is one is an answer. *)
LEMMA FirstKnownIn ==
    ASSUME NEW S, NEW seq \in Seq(S \cup {None})
    PROVE  FirstKnown(seq) \in S \cup {None}
<1> DEFINE Something(x) == x # None
           n == SelectInSeq(seq, Something)
<1>1. n \in 0..Len(seq)
  <2>1. Len(seq) \in Nat
    OBVIOUS
  <2> HIDE DEF Something
  <2> QED BY <2>1, SelectedIsPlace
<1>2. FirstKnown(seq) = IF n = 0 THEN None ELSE seq[n]
  BY DEF FirstKnown
<1> HIDE DEF n
<1> QED BY <1>1, <1>2

(* What a function returns is a class of the tree, or nothing. *)
LEMMA ReturnOfIn == ASSUME all \in Seq(Facts), NEW key PROVE ReturnOf(key) \in Known
<1> DEFINE Of(f) == [i \in DOMAIN f.returns |-> IF f.returns[i][1] = key THEN ClassOf(f, f.returns[i][2]) ELSE None]
<1>1. ReadsIn(Of, Known)
  <2> SUFFICES ASSUME NEW f \in Facts PROVE Of(f) \in Seq(Known)
    BY DEF ReadsIn
  <2>1. DOMAIN f.returns = 1..Len(f.returns) /\ Len(f.returns) \in Nat
    BY DEF Facts
  <2>2. \A i \in DOMAIN f.returns : (IF f.returns[i][1] = key THEN ClassOf(f, f.returns[i][2]) ELSE None) \in Known
    BY ClassOfIn DEF Known
  <2>3. Of(f) \in [1..Len(f.returns) -> Known]
    BY <2>1, <2>2
  <2> HIDE DEF Of
  <2> QED BY <2>1, <2>3
<1> HIDE DEF Of
<1>2. OverFiles(Of) \in Seq(Key \cup {None})
  BY <1>1, OverFilesIn DEF Known
<1>3. FirstKnown(OverFiles(Of)) \in Known
  BY <1>2, FirstKnownIn DEF Known
<1> QED BY <1>3 DEF ReturnOf, Of

(* A hint names a class of the tree, or nothing. *)
LEMMA HintClassIn == ASSUME all \in Seq(Facts), NEW f, NEW h PROVE HintClass(f, h) \in Known
BY ClassOfIn, ReturnOfIn DEF HintClass, OrElse, Known

(* What lies between the ends of a dotted name. *)
LEMMA MiddleIn == ASSUME NEW parts \in Key PROVE Middle(parts) \in Seq(Name) /\ Last(parts) \in Name
<1>1. parts \in Seq(Name) /\ Len(parts) \in Nat \ {0}
  BY Keys
<1> QED BY <1>1 DEF Middle, Last

(* A type outside the tree has a key. *)
LEMMA ExternalTypeIn ==
    ASSUME NEW f \in Facts, NEW written \in Dotted
    PROVE  ExternalType(f, written) \in Known
<1> DEFINE b == Binding(f, Head(written))
           module == Bound(b) \o Middle(written)
<1>1. written \in Key /\ Middle(written) \in Seq(Name) /\ Last(written) \in Name
  BY Keys, MiddleIn
<1>2. CASE b # NoBinding
  <2>1. Bound(b) \in Key
    BY <1>2, BindingIn
  <2>2. Bound(b) \in Seq(Name) /\ Bound(b) # <<>>
    BY <2>1, Keys
  <2> DEFINE front == Bound(b)
  <2> HIDE DEF front
  <2>3. front \o Middle(written) \in Seq(Name) /\ front \o Middle(written) # <<>>
    BY <1>1, <2>2 DEF front
  <2>4. module \in Key
    BY <2>3 DEF front, Key, Dotted
  <2>5. Append(module, Last(written)) \in Key
    <3> HIDE DEF module
    <3> QED BY <1>1, <2>4, Keys
  <2> HIDE DEF b
  <2> QED BY <2>4, <2>5 DEF ExternalType, Known, b
<1>3. CASE b = NoBinding
  BY <1>3 DEF ExternalType, Known
<1> QED BY <1>2, <1>3

TypesIn(Reading(_, _)) == \A f \in Facts, h \in Stated : Reading(f, h) \in Known
(* The first hint that can be read is an answer. *)
LEMMA HintedIn ==
    ASSUME all \in Seq(Facts), NEW caller, NEW name, NEW Reading(_, _), TypesIn(Reading)
    PROVE  Hinted(caller, name, Reading) \in Known
<1> DEFINE Of(f) == [i \in DOMAIN f.hints |-> IF f.hints[i].caller = caller /\ f.hints[i].name = name
                                              THEN Reading(f, f.hints[i]) ELSE None]
<1>1. ReadsIn(Of, Known)
  <2> SUFFICES ASSUME NEW f \in Facts PROVE Of(f) \in Seq(Known)
    BY DEF ReadsIn
  <2>1. DOMAIN f.hints = 1..Len(f.hints) /\ Len(f.hints) \in Nat /\ \A i \in DOMAIN f.hints : f.hints[i] \in Stated
    <3>1. f.hints \in Seq(Stated)
      BY DEF Facts
    <3> QED BY <3>1
  <2>2. \A i \in DOMAIN f.hints : (IF f.hints[i].caller = caller /\ f.hints[i].name = name
                                   THEN Reading(f, f.hints[i]) ELSE None) \in Known
    BY <2>1 DEF TypesIn, Known
  <2>3. Of(f) \in [1..Len(f.hints) -> Known]
    BY <2>1, <2>2
  <2> HIDE DEF Of
  <2> QED BY <2>1, <2>3
<1> HIDE DEF Of
<1>2. OverFiles(Of) \in Seq(Key \cup {None})
  BY <1>1, OverFilesIn DEF Known
<1>3. FirstKnown(OverFiles(Of)) \in Known
  BY <1>2, FirstKnownIn DEF Known
<1> QED BY <1>3 DEF Hinted, Of

(* A receiver's type is a key, inside the tree or outside. *)
LEMMA HintIn ==
    ASSUME all \in Seq(Facts), NEW caller, NEW name
    PROVE  Hint(caller, name) \in Known /\ ExternalHint(caller, name) \in Known
<1>1. TypesIn(HintClass)
  <2>1. \A f \in Facts, h \in Stated : HintClass(f, h) \in Known
    BY HintClassIn
  <2> QED BY <2>1 DEF TypesIn
<1> DEFINE Outer(f, h) == IF HintClass(f, h) # None THEN None ELSE ExternalType(f, h.written)
<1>2. TypesIn(Outer)
  BY ExternalTypeIn DEF TypesIn, Known, Stated
<1> HIDE DEF Outer
<1>3. Hinted(caller, name, HintClass) \in Known /\ Hinted(caller, name, Outer) \in Known
  BY <1>1, <1>2, HintedIn
<1> QED BY <1>3 DEF Hint, ExternalHint, Outer

(* The bases of a class are classes of the tree. *)
LEMMA BasesIn == ASSUME all \in Seq(Facts), NEW class PROVE BasesOf(class) \in Seq(Classes)
<1> DEFINE Of(f) == [i \in DOMAIN f.bases |-> IF f.bases[i][1] = class THEN ClassOf(f, f.bases[i][2]) ELSE None]
           Keep(known, base) == IF base = None THEN known ELSE Append(known, base)
<1>1. ReadsIn(Of, Classes \cup {None})
  <2> SUFFICES ASSUME NEW f \in Facts PROVE Of(f) \in Seq(Classes \cup {None})
    BY DEF ReadsIn
  <2>1. DOMAIN f.bases = 1..Len(f.bases) /\ Len(f.bases) \in Nat
    BY DEF Facts
  <2>2. \A i \in DOMAIN f.bases :
            (IF f.bases[i][1] = class THEN ClassOf(f, f.bases[i][2]) ELSE None) \in Classes \cup {None}
    BY ClassOfIn
  <2>3. Of(f) \in [1..Len(f.bases) -> Classes \cup {None}]
    BY <2>1, <2>2
  <2> HIDE DEF Of
  <2> QED BY <2>1, <2>3
<1> HIDE DEF Of
<1>2. OverFiles(Of) \in Seq(Classes \cup {None})
  BY <1>1, OverFilesIn
<1>3. KeptBy(Keep, Seq(Classes), Classes \cup {None})
  BY AppendProperties DEF KeptBy
<1>4. <<>> \in Seq(Classes)
  OBVIOUS
<1> HIDE DEF Keep
<1>5. FoldLeft(Keep, <<>>, OverFiles(Of)) \in Seq(Classes)
  BY <1>2, <1>3, <1>4, FoldLeftStays
<1> QED BY <1>5 DEF BasesOf, AllKnown, Keep, Of

(* A method is searched through the bases to a method's key, or to nothing, at any depth. *)
LEMMA WalkIn ==
    ASSUME all \in Seq(Facts), NEW class \in Key, NEW name \in Name
    PROVE  MethodWalk(class, name) \in Known
<1> DEFINE C == Classes \cup {class}
           Level(w, n) == [c \in C |-> IF n = 0 THEN None
                                       ELSE IF <<c, name>> \in MethodsByName THEN Append(c, name)
                                       ELSE FirstKnown([i \in DOMAIN BasesOf(c) |-> w[BasesOf(c)[i]]])]
           Bottom == [c \in C |-> None]
           g == CHOOSE g : g = [n \in 0..Depth |-> IF n = 0 THEN Bottom ELSE Level(g[n - 1], n)]
           walk == CHOOSE walk : walk = [d \in 0..Depth |-> [c \in C |->
                       IF d = 0 THEN None
                       ELSE IF <<c, name>> \in MethodsByName THEN Append(c, name)
                       ELSE FirstKnown([i \in DOMAIN BasesOf(c) |-> walk[d - 1][BasesOf(c)[i]]])]]
<1>1. FiniteNatInductiveDefHypothesis(g, Bottom, Level, 0, Depth)
  BY DEF FiniteNatInductiveDefHypothesis
<1>2. FiniteNatInductiveDefConclusion(g, Bottom, Level, 0, Depth)
  <2> HIDE DEF g, Level, Bottom
  <2> QED BY <1>1, DepthAssumption, FiniteNatInductiveDef
<1>3. g = [n \in 0..Depth |-> IF n = 0 THEN Bottom ELSE Level(g[n - 1], n)]
  BY <1>2 DEF FiniteNatInductiveDefConclusion
<1> HIDE DEF g
<1>4. g = [d \in 0..Depth |-> [c \in C |->
              IF d = 0 THEN None
              ELSE IF <<c, name>> \in MethodsByName THEN Append(c, name)
              ELSE FirstKnown([i \in DOMAIN BasesOf(c) |-> g[d - 1][BasesOf(c)[i]]])]]
  BY <1>3
<1>5. walk = [d \in 0..Depth |-> [c \in C |->
              IF d = 0 THEN None
              ELSE IF <<c, name>> \in MethodsByName THEN Append(c, name)
              ELSE FirstKnown([i \in DOMAIN BasesOf(c) |-> walk[d - 1][BasesOf(c)[i]]])]]
  BY <1>4
<1>6. MethodWalk(class, name) = walk[Depth][class]
  BY DEF MethodWalk
<1> HIDE DEF walk
<1> DEFINE E(d, c) == IF d = 0 THEN None
                      ELSE IF <<c, name>> \in MethodsByName THEN Append(c, name)
                      ELSE FirstKnown([i \in DOMAIN BasesOf(c) |-> walk[d - 1][BasesOf(c)[i]]])
<1>7. \A d \in 0..Depth, c \in C : walk[d][c] = E(d, c)
  <2>1. walk = [d \in 0..Depth |-> [c \in C |-> E(d, c)]]
    BY <1>5
  <2> HIDE DEF E, C
  <2> QED BY <2>1
<1>8. C \subseteq Key
  BY ClassesKnown
<1> DEFINE T == {n \in Nat : n <= Depth => \A c \in C : walk[n][c] \in Known}
<1>9. 0 \in T
  <2>1. \A c \in C : walk[0][c] = None
    <3>1. 0 \in 0..Depth /\ \A c \in C : E(0, c) = None
      BY DepthAssumption
    <3> HIDE DEF C, E
    <3> QED BY <1>7, <3>1
  <2> HIDE DEF C
  <2> QED BY <2>1 DEF Known
<1>10. ASSUME NEW n \in Nat, n \in T PROVE n + 1 \in T
  <2> SUFFICES ASSUME n + 1 <= Depth, NEW c \in C PROVE walk[n + 1][c] \in Known
    OBVIOUS
  <2>1. n + 1 \in 0..Depth /\ n + 1 # 0 /\ (n + 1) - 1 = n /\ n <= Depth
    BY DepthAssumption
  <2>2. \A b \in C : walk[n][b] \in Known
    BY <1>10, <2>1
  <2> DEFINE up == [i \in DOMAIN BasesOf(c) |-> walk[n][BasesOf(c)[i]]]
  <2>3. BasesOf(c) \in Seq(Classes)
    BY BasesIn
  <2>4. up \in Seq(Key \cup {None})
    <3>1. DOMAIN BasesOf(c) = 1..Len(BasesOf(c)) /\ Len(BasesOf(c)) \in Nat /\ \A i \in DOMAIN BasesOf(c) : BasesOf(c)[i] \in C
      BY <2>3
    <3>2. up \in [1..Len(BasesOf(c)) -> Key \cup {None}]
      BY <2>2, <3>1 DEF Known
    <3> HIDE DEF up
    <3> QED BY <3>1, <3>2
  <2> HIDE DEF up
  <2>5. FirstKnown(up) \in Known
    BY <2>4, FirstKnownIn DEF Known
  <2>6. Append(c, name) \in Known
    BY <1>8, Keys DEF Known
  <2>7. walk[n + 1][c] = IF <<c, name>> \in MethodsByName THEN Append(c, name) ELSE FirstKnown(up)
    <3>1. E(n + 1, c) = IF <<c, name>> \in MethodsByName THEN Append(c, name) ELSE FirstKnown(up)
      BY <2>1 DEF up
    <3> HIDE DEF C, E
    <3> QED BY <1>7, <2>1, <3>1
  <2> HIDE DEF C
  <2> QED BY <2>5, <2>6, <2>7
<1>11. Nat \subseteq T
  <2> HIDE DEF T
  <2> QED BY <1>9, <1>10, CountingUp
<1>12. walk[Depth][class] \in Known
  BY <1>11, DepthAssumption
<1> QED BY <1>6, <1>12

(* The same of a search that starts at the bases. *)
LEMMA SuperWalkIn ==
    ASSUME all \in Seq(Facts), NEW class \in Key, NEW name \in Name
    PROVE  SuperWalk(class, name) \in Known
<1> DEFINE up == [i \in DOMAIN BasesOf(class) |-> MethodWalk(BasesOf(class)[i], name)]
<1>1. BasesOf(class) \in Seq(Classes) /\ Classes \subseteq Key
  BY BasesIn, ClassesKnown
<1>2. /\ DOMAIN BasesOf(class) = 1..Len(BasesOf(class)) /\ Len(BasesOf(class)) \in Nat
      /\ \A i \in DOMAIN BasesOf(class) : BasesOf(class)[i] \in Key
  BY <1>1
<1>3. up \in [1..Len(BasesOf(class)) -> Key \cup {None}]
  BY <1>2, WalkIn DEF Known
<1> HIDE DEF up
<1>4. up \in Seq(Key \cup {None})
  BY <1>2, <1>3
<1>5. FirstKnown(up) \in Known
  BY <1>4, FirstKnownIn DEF Known
<1> QED BY <1>5 DEF SuperWalk, up

StandInLabels == {"Package", "Class", "Function", "Method"}
Notes == Seq(Key \X StandInLabels)
Answered(r) ==
    /\ r.notes \in Notes
    /\ \/ r = Unresolved
       \/ r.is = "key" /\ r.key \in Key
Answering(r, silent) == Answered(r) \/ (silent /\ r = Silent)

(* A lookup makes an answer: its key, or unresolved. *)
LEMMA ToAnswers == ASSUME NEW key \in Known, NEW by PROVE Answered(To(key, by))
<1>1. <<>> \in Notes
  BY DEF Notes
<1>2. CASE key = None
  BY <1>1, <1>2 DEF To, Answered, Unresolved
<1>3. CASE key # None
  <2>1. To(key, by) = [is |-> "key", key |-> key, notes |-> <<>>, by |-> by]
    BY <1>3 DEF To
  <2>2. key \in Key
    BY <1>3 DEF Known
  <2> QED BY <1>1, <2>1, <2>2 DEF Answered
<1> QED BY <1>2, <1>3

(* What lies outside is answered with a key and the stand-ins to note. *)
LEMMA OutsideAnswers ==
    ASSUME NEW key \in Key, NEW label \in StandInLabels, NEW package \in Known, NEW by
    PROVE  Answered(Outside(key, label, package, by))
<1> DEFINE first == <<key, label>>
           second == <<package, "Package">>
           more == IF package = None THEN <<>> ELSE <<second>>
           E == Key \X StandInLabels
<1>1. first \in E /\ (package # None => second \in E)
  BY DEF Known, StandInLabels
<1> HIDE DEF first, second, E
<1>2. <<first>> \in Seq(E) /\ (package # None => <<second>> \in Seq(E))
  BY <1>1
<1>3. <<>> \in Seq(E)
  OBVIOUS
<1>4. more \in Seq(E)
  BY <1>2, <1>3
<1> HIDE DEF more
<1>5. <<first>> \o more \in Seq(E)
  BY <1>2, <1>4, ConcatProperties
<1>6. Outside(key, label, package, by) = [is |-> "key", key |-> key, by |-> by, notes |-> <<first>> \o more]
  BY DEF Outside, first, more, second
<1> QED BY <1>5, <1>6 DEF Answered, Notes, E

(* A plain call is answered, and with silence only for a builtin. *)
LEMMA PlainAnswers ==
    ASSUME all \in Seq(Facts), NEW f \in Facts, NEW name
    PROVE  Answering(Plain(f, name), name \in Builtins)
<1> DEFINE locals == Declared(f.module, name)
           b == Binding(f, name)
           up == [i \in DOMAIN f.stars |-> Export(f.stars[i], name)]
           stars == FirstKnown(up)
<1>1. locals \in {None} \cup {<<d>> : d \in NamedDecl} /\ (locals # <<>> => locals[1].key \in Known)
  <2>1. \A d \in NamedDecl : <<d>>[1].key \in Known
    BY DEF NamedDecl, Known
  <2> QED BY <2>1, DeclaredIn DEF None
<1>2. b # NoBinding => b.target \in Known /\ Bound(b) \in Key
  BY BindingIn DEF Known
<1>3. stars \in Known
  <2>1. DOMAIN f.stars = 1..Len(f.stars) /\ Len(f.stars) \in Nat
    BY DEF Facts
  <2>2. up \in [1..Len(f.stars) -> Key \cup {None}]
    BY <2>1, DeclaredIn DEF Known
  <2> HIDE DEF up
  <2>3. up \in Seq(Key \cup {None})
    BY <2>1, <2>2
  <2> QED BY <2>3, FirstKnownIn DEF Known
<1> DEFINE reached == Decl(b.target, b.member)
<1>4. reached \in Known
  BY DeclaredIn
<1>5. Answered(Unresolved)
  <2>1. <<>> \in Notes
    BY DEF Notes
  <2> QED BY <2>1 DEF Answered, Unresolved
<1>6. Plain(f, name) =
        CASE locals # <<>> /\ ~(locals[1].value /\ b # NoBinding) -> To(locals[1].key, "name")
          [] (locals = <<>> \/ locals[1].value) /\ b # NoBinding ->
                IF b.member = "" THEN Unresolved
                ELSE IF reached # None THEN To(reached, "name")
                ELSE IF b.target \in Modules \/ Bound(b) \in Modules THEN Unresolved
                ELSE Outside(Bound(b), "Function", b.target, "name")
          [] locals = <<>> /\ b = NoBinding ->
                IF stars # None THEN To(stars, "name")
                ELSE IF name \in Builtins THEN Silent ELSE Unresolved
  BY DEF Plain
<1> HIDE DEF locals, b, stars, reached
<1>7. CASE locals # <<>> /\ ~(locals[1].value /\ b # NoBinding)
  BY <1>1, <1>6, <1>7, ToAnswers DEF Answering
<1>8. CASE (locals = <<>> \/ locals[1].value) /\ b # NoBinding
  <2>1. ~(locals # <<>> /\ ~(locals[1].value /\ b # NoBinding))
    BY <1>8
  <2>2. Answered(Outside(Bound(b), "Function", b.target, "name"))
    BY <1>2, <1>8, OutsideAnswers DEF StandInLabels
  <2>3. Answered(To(reached, "name"))
    BY <1>4, ToAnswers
  <2> QED BY <1>5, <1>6, <1>8, <2>1, <2>2, <2>3 DEF Answering
<1>9. CASE locals = <<>> /\ b = NoBinding
  <2>1. Answered(To(stars, "name"))
    BY <1>3, ToAnswers
  <2> QED BY <1>5, <1>6, <1>9, <2>1 DEF Answering
<1> QED BY <1>7, <1>8, <1>9

(* A dotted call is answered. *)
LEMMA ChainAnswers ==
    ASSUME all \in Seq(Facts), NEW f \in Facts, NEW parts \in Key
    PROVE  Answered(Chain(f, parts))
<1> DEFINE b == Binding(f, Head(parts))
           module == Bound(b) \o Middle(parts)
           root == <<Head(module)>>
<1>1. Answered(Unresolved)
  <2>1. <<>> \in Notes
    BY DEF Notes
  <2> QED BY <2>1 DEF Answered, Unresolved
<1>2. Answered(To(Decl(module, Last(parts)), "chain"))
  BY DeclaredIn, ToAnswers
<1>3. CASE b = NoBinding
  BY <1>1, <1>3 DEF Chain
<1>4. CASE b # NoBinding
  <2>1. Bound(b) \in Key /\ Middle(parts) \in Seq(Name) /\ Last(parts) \in Name
    BY <1>4, BindingIn, MiddleIn
  <2>2. module \in Key
    <3> DEFINE front == Bound(b)
    <3>1. front \in Seq(Name) /\ front # <<>>
      BY <2>1, Keys
    <3> HIDE DEF front
    <3>2. front \o Middle(parts) \in Seq(Name) /\ front \o Middle(parts) # <<>>
      BY <2>1, <3>1
    <3> QED BY <3>2 DEF front, Key, Dotted
  <2>3. Chain(f, parts) = IF b = NoBinding THEN Unresolved
                          ELSE IF module \in Modules THEN To(Decl(module, Last(parts)), "chain")
                          ELSE IF root \in Modules \/ Decl(f.module, Head(parts)) # None THEN Unresolved
                          ELSE Outside(Append(module, Last(parts)), "Function", root, "chain")
    BY DEF Chain
  <2> HIDE DEF module, b
  <2>4. root \in Known /\ Append(module, Last(parts)) \in Key
    BY <2>1, <2>2, Keys DEF Known
  <2>5. Answered(Outside(Append(module, Last(parts)), "Function", root, "chain"))
    BY <2>4, OutsideAnswers DEF StandInLabels
  <2> QED BY <1>1, <1>2, <2>3, <2>5 DEF module
<1> QED BY <1>3, <1>4

(* A call on a receiver is answered. *)
LEMMA ReceiverAnswers ==
    ASSUME all \in Seq(Facts), NEW f, NEW caller, NEW name, NEW method \in Name
    PROVE  Answered(Receiver(f, caller, name, method))
<1> DEFINE hint == Hint(caller, name)
           class == ClassOf(f, <<name>>)
           outside == ExternalHint(caller, name)
           Answer(c) == IF c = None THEN None ELSE MethodWalk(c, method)
<1>1. hint \in Known /\ class \in Known /\ outside \in Known
  BY HintIn, ClassOfIn
<1>2. \A c \in Known : Answer(c) \in Known
  BY WalkIn DEF Known
<1>3. Answered(To(Answer(hint), "receiver")) /\ Answered(To(Answer(class), "class"))
  <2> HIDE DEF hint, class, Answer
  <2> QED BY <1>1, <1>2, ToAnswers
<1>4. Answered(Unresolved)
  <2>1. <<>> \in Notes
    BY DEF Notes
  <2> QED BY <2>1 DEF Answered, Unresolved
<1>5. outside # None => Answered(Outside(Append(outside, method), "Method", None, "external-receiver"))
  <2> HIDE DEF outside
  <2> SUFFICES ASSUME outside # None PROVE Answered(Outside(Append(outside, method), "Method", None, "external-receiver"))
    OBVIOUS
  <2>1. Append(outside, method) \in Key /\ None \in Known
    BY <1>1, Keys DEF Known
  <2> QED BY <2>1, OutsideAnswers DEF StandInLabels
<1>6. Receiver(f, caller, name, method) =
        IF Answer(hint) # None THEN To(Answer(hint), "receiver")
        ELSE IF Answer(class) # None THEN To(Answer(class), "class")
        ELSE IF outside = None THEN Unresolved
        ELSE Outside(Append(outside, method), "Method", None, "external-receiver")
  BY DEF Receiver
<1> HIDE DEF hint, class, outside, Answer
<1> QED BY <1>3, <1>4, <1>5, <1>6

(* A base as a site to resolve; a call that may be left without an edge. *)
BaseSite == [caller : Key, kind : {"base"}, of : Dotted, class : {""}, shape : {""}]
BuiltinCall(c) == c.kind = "plain" /\ Head(c.of) \in Builtins
(* Every site is answered: with silence only if it calls a builtin, or is a base. *)
LEMMA SiteAnswers ==
    ASSUME all \in Seq(Facts), NEW f \in Facts, NEW site \in CallSite \cup BaseSite
    PROVE  Answering(ResolveSite(f, site), BuiltinCall(site) \/ site.kind = "base")
<1>1. site.of \in Key /\ site.of \in Seq(Name)
  BY Keys DEF CallSite, BaseSite
<1>2. CASE site \in CallSite
  <2>1. site.class \in Name /\ ClassKey(f, site) \in Key
    <3>1. f.module \in Seq(Name) /\ site.class \in Name
      BY <1>2 DEF CallSite, Facts
    <3> QED BY <3>1, Keys DEF ClassKey
  <2>2. site.kind \in {"plain", "chain", "this", "attr", "super"}
    BY <1>2 DEF CallSite
  <2>3. CASE site.kind = "plain"
    <3>1. Answering(Plain(f, Head(site.of)), Head(site.of) \in Builtins)
      BY PlainAnswers
    <3> QED BY <2>3, <3>1 DEF ResolveSite, Answering, BuiltinCall
  <2>4. CASE site.kind = "chain"
    <3> DEFINE chained == Chain(f, site.of)
    <3>1. Answered(chained)
      BY <1>1, ChainAnswers
    <3>2. Len(site.of) = 2 => Answered(Receiver(f, site.caller, site.of[1], site.of[2]))
      <4>1. Len(site.of) = 2 => site.of[2] \in Name
        BY <1>1
      <4> QED BY <4>1, ReceiverAnswers
    <3> HIDE DEF chained
    <3>3. ResolveSite(f, site) = IF chained # Unresolved \/ Len(site.of) # 2 THEN chained
                                 ELSE Receiver(f, site.caller, site.of[1], site.of[2])
      BY <2>4 DEF ResolveSite, chained
    <3> QED BY <3>1, <3>2, <3>3 DEF Answering
  <2>5. CASE site.kind = "this"
    <3>1. site.of[2] \in Name
      <4>1. Len(site.of) = 2
        BY <1>2, <2>5 DEF CallSite
      <4> QED BY <1>1, <4>1
    <3>2. Answered(To(MethodWalk(ClassKey(f, site), site.of[2]), "self-class"))
      BY <2>1, <3>1, WalkIn, ToAnswers
    <3> QED BY <2>5, <3>2 DEF ResolveSite, Answering
  <2>6. CASE site.kind = "super"
    <3>1. site.of[1] \in Name
      <4>1. Len(site.of) \in Nat \ {0}
        BY <1>1, Keys
      <4> QED BY <1>1, <4>1
    <3>2. Answered(To(SuperWalk(ClassKey(f, site), site.of[1]), "super"))
      BY <2>1, <3>1, SuperWalkIn, ToAnswers
    <3> QED BY <2>6, <3>2 DEF ResolveSite, Answering
  <2>7. CASE site.kind = "attr"
    <3> DEFINE type == Hint(ClassKey(f, site), site.of[2])
               method == IF type = None THEN None ELSE MethodWalk(type, site.of[3])
    <3>1. site.of[3] \in Name
      <4>1. Len(site.of) = 3
        BY <1>2, <2>7 DEF CallSite
      <4> QED BY <1>1, <4>1
    <3>2. type \in Known
      BY HintIn
    <3> HIDE DEF type
    <3>3. method \in Known
      BY <3>1, <3>2, WalkIn DEF Known
    <3> HIDE DEF method
    <3>4. Answered(To(method, "self-attr"))
      BY <3>3, ToAnswers
    <3> QED BY <2>7, <3>4 DEF ResolveSite, Answering, method, type
  <2> QED BY <2>2, <2>3, <2>4, <2>5, <2>6, <2>7
<1>3. CASE site \in BaseSite
  <2>1. site.kind = "base"
    BY <1>3 DEF BaseSite
  <2>2. Answering(Plain(f, site.of[1]), site.of[1] \in Builtins)
    BY PlainAnswers
  <2>3. Answered(Chain(f, site.of))
    BY <1>1, ChainAnswers
  <2>4. ResolveSite(f, site) = IF Len(site.of) = 1 THEN Plain(f, site.of[1]) ELSE Chain(f, site.of)
    BY <2>1 DEF ResolveSite
  <2> QED BY <2>1, <2>2, <2>3, <2>4 DEF Answering
<1> QED BY <1>2, <1>3
----------------------------------------------------------------------------
(***************************************************************************)
(* What a call comes to depends on the files alone: while they stay, it    *)
(* stays.  One lemma for each thing looked up on the way.                  *)
(***************************************************************************)
LEMMA DeclStays ==
    ASSUME all' = all, NEW m, NEW n
    PROVE  Declared(m, n)' = Declared(m, n) /\ Decl(m, n)' = Decl(m, n) /\ Export(m, n)' = Export(m, n)
<1> DEFINE decls == [i \in DOMAIN all |-> IF ~all[i].failed /\ all[i].module = m THEN all[i].decls ELSE <<>>]
           exports == [i \in DOMAIN all |-> IF ~all[i].failed /\ all[i].module = m THEN all[i].exports ELSE <<>>]
<1>1. decls' = decls /\ exports' = exports
  OBVIOUS
<1>2. /\ Declared(m, n) = FirstNamed(FlattenSeq(decls), n)
      /\ Export(m, n) = KeyOf(FirstNamed(FlattenSeq(exports), n))
  BY DEF Declared, Export, Lookup, OverFiles
<1>3. /\ Declared(m, n)' = FirstNamed(FlattenSeq(decls'), n)
      /\ Export(m, n)' = KeyOf(FirstNamed(FlattenSeq(exports'), n))
  BY DEF Declared, Export, Lookup, OverFiles
<1> HIDE DEF decls, exports
<1>4. Declared(m, n)' = Declared(m, n) /\ Export(m, n)' = Export(m, n)
  BY <1>1, <1>2, <1>3
<1> QED BY <1>4 DEF Decl

LEMMA NamesStay ==
    ASSUME all' = all
    PROVE  /\ Modules' = Modules /\ Classes' = Classes /\ MethodsByName' = MethodsByName
           /\ \A f, w : DeclOf(f, w)' = DeclOf(f, w) /\ ClassOf(f, w)' = ClassOf(f, w)
<1>1. Modules' = Modules /\ Classes' = Classes /\ MethodsByName' = MethodsByName
  BY DEF Modules, Parsed, Classes, MethodsByName
<1>2. \A m, n : Decl(m, n)' = Decl(m, n)
  BY DeclStays
<1>3. \A f, w : DeclOf(f, w)' = DeclOf(f, w)
  BY <1>2 DEF DeclOf
<1> QED BY <1>1, <1>3 DEF ClassOf, OnlyClass

(* What the files state about names: classes, and the types of receivers. *)
LEMMA ReturnStays == ASSUME all' = all, NEW key PROVE ReturnOf(key)' = ReturnOf(key)
<1> DEFINE of(f) == [i \in DOMAIN f.returns |-> IF f.returns[i][1] = key THEN ClassOf(f, f.returns[i][2]) ELSE None]
           files == [i \in DOMAIN all |-> of(all[i])]
<1>1. \A f : of(f)' = of(f)
  BY NamesStay
<1>2. ReturnOf(key) = FirstKnown(FlattenSeq(files)) /\ ReturnOf(key)' = FirstKnown(FlattenSeq(files'))
  BY DEF ReturnOf, OverFiles
<1> HIDE DEF of
<1>3. files' = files
  BY <1>1
<1> HIDE DEF files
<1> QED BY <1>2, <1>3

LEMMA HintsStay ==
    ASSUME all' = all
    PROVE  /\ \A f, h : HintClass(f, h)' = HintClass(f, h)
           /\ \A f, w : ExternalType(f, w)' = ExternalType(f, w)
           /\ \A c, n : Hint(c, n)' = Hint(c, n) /\ ExternalHint(c, n)' = ExternalHint(c, n)
<1>1. \A f, h : HintClass(f, h)' = HintClass(f, h)
  BY NamesStay, ReturnStays DEF HintClass
<1>2. \A f, w : ExternalType(f, w)' = ExternalType(f, w)
  BY NamesStay DEF ExternalType
<1>3. ASSUME NEW c, NEW n PROVE Hint(c, n)' = Hint(c, n)
  <2> DEFINE of(f) == [i \in DOMAIN f.hints |-> IF f.hints[i].caller = c /\ f.hints[i].name = n
                                                THEN HintClass(f, f.hints[i]) ELSE None]
             files == [i \in DOMAIN all |-> of(all[i])]
  <2>1. \A f : of(f)' = of(f)
    BY <1>1
  <2>2. Hint(c, n) = FirstKnown(FlattenSeq(files)) /\ Hint(c, n)' = FirstKnown(FlattenSeq(files'))
    BY DEF Hint, Hinted, OverFiles
  <2> HIDE DEF of
  <2>3. files' = files
    BY <2>1
  <2> HIDE DEF files
  <2> QED BY <2>2, <2>3
<1>4. ASSUME NEW c, NEW n PROVE ExternalHint(c, n)' = ExternalHint(c, n)
  <2> DEFINE read(f, h) == IF HintClass(f, h) # None THEN None ELSE ExternalType(f, h.written)
             of(f) == [i \in DOMAIN f.hints |-> IF f.hints[i].caller = c /\ f.hints[i].name = n
                                                THEN read(f, f.hints[i]) ELSE None]
             files == [i \in DOMAIN all |-> of(all[i])]
  <2>1. \A f, h : read(f, h)' = read(f, h)
    BY <1>1, <1>2
  <2>2. ExternalHint(c, n) = FirstKnown(FlattenSeq(files)) /\ ExternalHint(c, n)' = FirstKnown(FlattenSeq(files'))
    BY DEF ExternalHint, Hinted, OverFiles
  <2> HIDE DEF read
  <2>3. \A f : of(f)' = of(f)
    BY <2>1
  <2> HIDE DEF of
  <2>4. files' = files
    BY <2>3
  <2> HIDE DEF files
  <2> QED BY <2>2, <2>4
<1> QED BY <1>1, <1>2, <1>3, <1>4

(* The bases of a class, and the method found among them. *)
LEMMA BasesStay == ASSUME all' = all, NEW class PROVE BasesOf(class)' = BasesOf(class)
<1> DEFINE of(f) == [i \in DOMAIN f.bases |-> IF f.bases[i][1] = class THEN ClassOf(f, f.bases[i][2]) ELSE None]
           files == [i \in DOMAIN all |-> of(all[i])]
<1>1. \A f : of(f)' = of(f)
  BY NamesStay
<1>2. BasesOf(class) = AllKnown(FlattenSeq(files)) /\ BasesOf(class)' = AllKnown(FlattenSeq(files'))
  BY DEF BasesOf, OverFiles
<1> HIDE DEF of
<1>3. files' = files
  BY <1>1
<1> HIDE DEF files
<1> QED BY <1>2, <1>3

LEMMA WalkStays ==
    ASSUME all' = all
    PROVE  \A class, name : /\ MethodWalk(class, name)' = MethodWalk(class, name)
                            /\ SuperWalk(class, name)' = SuperWalk(class, name)
<1>1. Classes' = Classes /\ MethodsByName' = MethodsByName /\ \A c : BasesOf(c)' = BasesOf(c)
  BY NamesStay, BasesStay
<1>2. ASSUME NEW class, NEW name PROVE MethodWalk(class, name)' = MethodWalk(class, name)
  <2> DEFINE Walked(w) == [d \in 0..Depth |-> [c \in Classes \cup {class} |->
                 IF d = 0 THEN None
                 ELSE IF <<c, name>> \in MethodsByName THEN Append(c, name)
                 ELSE FirstKnown([i \in DOMAIN BasesOf(c) |-> w[d - 1][BasesOf(c)[i]]])]]
             walk == CHOOSE w : w = Walked(w)
  <2>1. \A w : Walked(w)' = Walked(w)
    BY <1>1
  <2>2. MethodWalk(class, name) = walk[Depth][class] /\ MethodWalk(class, name)' = walk'[Depth][class]
    BY DEF MethodWalk
  <2> HIDE DEF Walked
  <2>3. walk' = walk
    BY <2>1
  <2> HIDE DEF walk
  <2> QED BY <2>2, <2>3
<1>3. ASSUME NEW class, NEW name PROVE SuperWalk(class, name)' = SuperWalk(class, name)
  <2> DEFINE found == [i \in DOMAIN BasesOf(class) |-> MethodWalk(BasesOf(class)[i], name)]
  <2>1. found' = found
    BY <1>1, <1>2
  <2> QED BY <2>1 DEF SuperWalk
<1> QED BY <1>2, <1>3

LEMMA PlainStays == ASSUME all' = all, NEW f, NEW name PROVE Plain(f, name)' = Plain(f, name)
<1> DEFINE stars == [i \in DOMAIN f.stars |-> Export(f.stars[i], name)]
<1>1. stars' = stars
  BY DeclStays
<1> QED BY <1>1, DeclStays, NamesStay DEF Plain

LEMMA ChainStays == ASSUME all' = all, NEW f, NEW parts PROVE Chain(f, parts)' = Chain(f, parts)
<1> QED BY DeclStays, NamesStay DEF Chain

LEMMA ReceiverStays ==
    ASSUME all' = all, NEW f, NEW c, NEW n, NEW m PROVE Receiver(f, c, n, m)' = Receiver(f, c, n, m)
<1> QED BY HintsStay, NamesStay, WalkStays DEF Receiver

LEMMA SiteStays == ASSUME all' = all PROVE \A f, site : ResolveSite(f, site)' = ResolveSite(f, site)
<1> TAKE f, site
<1> QED BY PlainStays, ChainStays, ReceiverStays, HintsStay, WalkStays DEF ResolveSite

(* What the n-th call of the i-th file comes to, and what its edge is to tell. *)
Answer(i, n) == ResolveSite(all[i], all[i].calls[n])
Due(i, n) == Shaped(all[i].calls[n], Answer(i, n).key)
LEMMA AnswersStay ==
    ASSUME all' = all PROVE \A i, n : Answer(i, n)' = Answer(i, n) /\ Due(i, n)' = Due(i, n)
<1> TAKE i, n
<1>1. Answer(i, n)' = Answer(i, n)
  BY SiteStays DEF Answer
<1>2. \A key : Coroutine(key)' = Coroutine(key)
  BY DEF Coroutine
<1>3. \A c, key : Shaped(c, key)' = Shaped(c, key)
  BY <1>2 DEF Shaped
<1> QED BY <1>1, <1>3 DEF Due
----------------------------------------------------------------------------
(* The invariant, conjunct by conjunct. *)
StandIns == {x \in UNION {[D -> StandInLabels] : D \in SUBSET Key} : IsFiniteSet(DOMAIN x)}
KeysOf(ns) == {ns[i].key : i \in DOMAIN ns}
Listed(ns) == ns \in Seq(ToSet(ns)) /\ \A i, j \in DOMAIN ns : ns[i].key = ns[j].key => i = j

Progress ==
    /\ all \in Seq(Facts)
    /\ phase \in {"gather", "sites", "finish", "done"}
    /\ sites \in Seq([file : DOMAIN all, site : CallSite \cup BaseSite])
    /\ phase \in {"finish", "done"} => sites = <<>>
Material ==
    /\ IsFiniteSet(edges) /\ IsFiniteSet(ledger)
    /\ phase = "gather" => edges = {}
    /\ \A l \in ledger : l \notin Key
    /\ external \in StandIns
Distinct ==
    /\ phase # "done" => seen \subseteq Key /\ \A k \in DOMAIN external : k \notin seen
    /\ phase \in {"sites", "finish"} => Listed(nodes) /\ KeysOf(nodes) = seen
BasesShown ==
    \A e \in edges : e.type = "EXTENDS" =>
        /\ phase # "done" => e.dst \in seen \cup DOMAIN external
        /\ e.dst \in DOMAIN external => external[e.dst] = "Class"
Leads(es, src, dst) == \E e \in es : e.src = src /\ e.type = "CALLS" /\ e.dst = dst
Shown(ss, es, ls, shs, i, f, c, r, due) ==
    \/ \E m \in DOMAIN ss : ss[m] = [file |-> i, site |-> c]
    \/ r.is = "skip" /\ BuiltinCall(c)
    \/ r.is = "key" /\ Leads(es, c.caller, r.key) /\ due \subseteq shs
    \/ r.is = "unresolved" /\ Leads(es, c.caller, Written(f, c)) /\ Written(f, c) \in ls
CallsShown ==
    \A i \in DOMAIN all : \A n \in DOMAIN all[i].calls :
        Shown(sites, edges, ledger, shapes, i, all[i], all[i].calls[n], Answer(i, n), Due(i, n))
Told == \A s \in shapes : Leads(edges, s[1], s[2]) /\ (s[3] = "unawaited" => Coroutine(s[2]))
Inv == Progress /\ Material /\ Distinct /\ BasesShown /\ CallsShown /\ Told /\ GraphIsWhole

(* A file's sites are well formed, and all its calls are among them. *)
LEMMA SitesOfIn ==
    ASSUME all \in Seq(Facts), NEW i \in DOMAIN all
    PROVE  /\ SitesOf(i) \in Seq([file : DOMAIN all, site : CallSite \cup BaseSite])
           /\ \A n \in DOMAIN all[i].calls : [file |-> i, site |-> all[i].calls[n]] \in Range(SitesOf(i))
<1> DEFINE f == all[i]
           S == [file : DOMAIN all, site : CallSite \cup BaseSite]
           ofCall(n) == [file |-> i, site |-> f.calls[n]]
           based(n) == [caller |-> f.bases[n][1], kind |-> "base", of |-> f.bases[n][2], class |-> "", shape |-> ""]
           ofBase(n) == [file |-> i, site |-> based(n)]
           calls == [n \in DOMAIN f.calls |-> ofCall(n)]
           bases == [n \in DOMAIN f.bases |-> ofBase(n)]
<1>1. f.calls \in Seq(CallSite) /\ f.bases \in Seq(Key \X Dotted)
  <2>1. f \in Facts
    OBVIOUS
  <2> QED BY <2>1 DEF Facts
<1>2. /\ DOMAIN f.calls = 1..Len(f.calls) /\ Len(f.calls) \in Nat
      /\ DOMAIN f.bases = 1..Len(f.bases) /\ Len(f.bases) \in Nat
  BY <1>1
<1>3. \A n \in DOMAIN f.calls : ofCall(n) \in S
  BY <1>1
<1>4. \A n \in DOMAIN f.bases : ofBase(n) \in S
  <2> SUFFICES ASSUME NEW n \in DOMAIN f.bases PROVE ofBase(n) \in S
    OBVIOUS
  <2>1. f.bases[n][1] \in Key /\ f.bases[n][2] \in Dotted
    BY <1>1
  <2>2. based(n) \in BaseSite
    BY <2>1 DEF BaseSite
  <2> HIDE DEF based
  <2> QED BY <2>2
<1>5. calls \in Seq(S) /\ bases \in Seq(S)
  <2> HIDE DEF ofCall, ofBase, S, f
  <2>1. calls \in [1..Len(f.calls) -> S] /\ bases \in [1..Len(f.bases) -> S]
    BY <1>2, <1>3, <1>4
  <2> HIDE DEF calls, bases
  <2>2. calls \in Seq(S)
    BY <1>2, <2>1, FunctionIsSeq
  <2>3. bases \in Seq(S)
    BY <1>2, <2>1, FunctionIsSeq
  <2> QED BY <2>2, <2>3
<1>6. SitesOf(i) = calls \o bases
  BY DEF SitesOf
<1>7. \A n \in DOMAIN f.calls : ofCall(n) \in Range(calls)
  <2> HIDE DEF ofCall, f
  <2> QED BY DEF Range
<1> HIDE DEF calls, bases, S, f
<1>8. calls \o bases \in Seq(S) /\ Range(calls \o bases) = Range(calls) \cup Range(bases)
  BY <1>5, ConcatProperties, RangeConcatenation
<1> QED BY <1>6, <1>7, <1>8 DEF S, f

(* The invariant holds at the start: every call is still to be resolved. *)
LEMMA InitInv == Init => Inv
<1> SUFFICES ASSUME Init PROVE Inv
  OBVIOUS
<1> DEFINE S == [file : DOMAIN all, site : CallSite \cup BaseSite]
           seqs == [i \in DOMAIN all |-> SitesOf(i)]
<1>1. all \in Seq(Facts)
  BY ParseTyped DEF Init
<1>2. DOMAIN all = 1..Len(all) /\ Len(all) \in Nat
  BY <1>1
<1>3. seqs \in Seq(Seq(S))
  <2>1. seqs \in [1..Len(all) -> Seq(S)]
    <3>1. \A i \in DOMAIN all : SitesOf(i) \in Seq(S)
      BY <1>1, SitesOfIn
    <3> HIDE DEF S
    <3> QED BY <1>2, <3>1
  <2> HIDE DEF seqs, S
  <2> QED BY <1>2, <2>1, FunctionIsSeq
<1>4. sites = FlattenSeq(seqs)
  BY DEF Init
<1>5. sites \in Seq(S) /\ Range(sites) = UNION {Range(seqs[m]) : m \in DOMAIN seqs}
  <2> HIDE DEF seqs, S
  <2> QED BY <1>3, <1>4, FlattenElements
<1>6. Progress
  BY <1>1, <1>5 DEF Progress, Init
<1>7. CallsShown
  <2> SUFFICES ASSUME NEW i \in DOMAIN all, NEW n \in DOMAIN all[i].calls
               PROVE  \E m \in DOMAIN sites : sites[m] = [file |-> i, site |-> all[i].calls[n]]
    BY DEF CallsShown, Shown
  <2>1. [file |-> i, site |-> all[i].calls[n]] \in Range(SitesOf(i))
    BY <1>1, SitesOfIn
  <2>2. [file |-> i, site |-> all[i].calls[n]] \in Range(sites)
    <3>1. i \in DOMAIN seqs /\ seqs[i] = SitesOf(i)
      OBVIOUS
    <3> HIDE DEF seqs
    <3> QED BY <1>5, <2>1, <3>1
  <2> QED BY <2>2 DEF Range
<1>8. Material
  <2>1. IsFiniteSet({})
    BY FS_EmptySet
  <2>2. external \in [{} -> StandInLabels] /\ DOMAIN external = {}
    BY DEF Init
  <2>3. external \in StandIns
    BY <2>1, <2>2 DEF StandIns
  <2> QED BY <2>1, <2>3 DEF Material, Init
<1>9. Distinct /\ BasesShown /\ Told /\ GraphIsWhole
  BY DEF Distinct, BasesShown, Told, GraphIsWhole, Init
<1> QED BY <1>6, <1>7, <1>8, <1>9 DEF Inv

(* Nodes taken by their first occurrence have each key once. *)
LEMMA FirstNodesListed ==
    ASSUME NEW ns \in Seq(Node)
    PROVE  FirstNodes(ns) \in Seq(Node) /\ Listed(FirstNodes(ns))
<1> DEFINE Keep(kept, n) == IF \E i \in DOMAIN kept : kept[i].key = n.key THEN kept ELSE Append(kept, n)
           Apart(kept) == \A i, j \in DOMAIN kept : kept[i].key = kept[j].key => i = j
           S == {kept \in Seq(Node) : Apart(kept)}
<1>1. KeptBy(Keep, S, Node)
  <2> SUFFICES ASSUME NEW kept \in S, NEW n \in Node, \A i \in DOMAIN kept : kept[i].key # n.key
               PROVE  Append(kept, n) \in S
    BY DEF KeptBy
  <2>1. /\ Append(kept, n) \in Seq(Node) /\ Len(kept) \in Nat /\ DOMAIN kept = 1..Len(kept)
        /\ DOMAIN Append(kept, n) = 1..(Len(kept) + 1)
        /\ Append(kept, n)[Len(kept) + 1] = n
        /\ \A i \in 1..Len(kept) : Append(kept, n)[i] = kept[i]
    BY AppendProperties, LenProperties
  <2>2. ASSUME NEW i \in 1..(Len(kept) + 1), NEW j \in 1..(Len(kept) + 1), Append(kept, n)[i].key = Append(kept, n)[j].key
        PROVE  i = j
    <3>1. CASE i = Len(kept) + 1 /\ j = Len(kept) + 1
      BY <3>1
    <3>2. CASE i \in 1..Len(kept) /\ j = Len(kept) + 1
      BY <2>1, <2>2, <3>2
    <3>3. CASE i = Len(kept) + 1 /\ j \in 1..Len(kept)
      BY <2>1, <2>2, <3>3
    <3>4. CASE i \in 1..Len(kept) /\ j \in 1..Len(kept)
      BY <2>1, <2>2, <3>4
    <3> QED BY <2>1, <3>1, <3>2, <3>3, <3>4
  <2> QED BY <2>1, <2>2
<1>2. <<>> \in S
  OBVIOUS
<1>3. FoldLeft(Keep, <<>>, ns) \in S
  <2> HIDE DEF Keep, S
  <2> QED BY <1>1, <1>2, FoldLeftStays
<1>4. FirstNodes(ns) \in S
  BY <1>3 DEF FirstNodes
<1>5. FirstNodes(ns) \in Seq(ToSet(FirstNodes(ns)))
  <2>1. FirstNodes(ns) \in Seq(Node)
    BY <1>4
  <2>2. FirstNodes(ns) \in Seq(Range(FirstNodes(ns)))
    BY <2>1, SeqOfRange
  <2> QED BY <2>2 DEF Range, ToSet
<1> QED BY <1>4, <1>5 DEF Listed

(* Stand-ins that have been added to, and given up nothing. *)
Marked(ext) ==
    {x \in StandIns : /\ \A k \in DOMAIN x : k \notin seen
                      /\ \A k \in DOMAIN ext : k \in DOMAIN x /\ (ext[k] = "Class" => x[k] = "Class")}
(* A stand-in noted is no node's key, and no class among them is           *)
(* relabelled; the same of several, and of a base, which ends up a class.  *)
LEMMA NoteKeeps ==
    ASSUME NEW ext, NEW x \in Marked(ext), NEW key \in Key, NEW label \in StandInLabels
    PROVE  NoteExternal(x, key, label) \in Marked(ext)
<1>1. CASE key \in seen \/ (key \in DOMAIN x /\ ~(x[key] = "Package" /\ label # "Package"))
  BY <1>1 DEF NoteExternal
<1>2. CASE ~(key \in seen \/ (key \in DOMAIN x /\ ~(x[key] = "Package" /\ label # "Package")))
  <2> DEFINE y == [k \in DOMAIN x \cup {key} |-> IF k = key THEN label ELSE x[k]]
  <2>1. PICK D \in SUBSET Key : x \in [D -> StandInLabels] /\ IsFiniteSet(D)
    BY DEF Marked, StandIns
  <2>2. y \in [D \cup {key} -> StandInLabels] /\ DOMAIN y = D \cup {key} /\ DOMAIN x = D
    BY <2>1
  <2>3. IsFiniteSet(D \cup {key}) /\ D \cup {key} \in SUBSET Key
    BY <2>1, FS_AddElement
  <2>4. y \in StandIns
    <3> HIDE DEF y
    <3> QED BY <2>2, <2>3 DEF StandIns
  <2>5. \A k \in DOMAIN y : k \notin seen
    BY <1>2, <2>2 DEF Marked
  <2>6. ASSUME NEW k \in DOMAIN ext PROVE k \in DOMAIN y /\ (ext[k] = "Class" => y[k] = "Class")
    BY <1>2, <2>2 DEF Marked
  <2>7. NoteExternal(x, key, label) = y
    BY <1>2 DEF NoteExternal
  <2> HIDE DEF y
  <2> QED BY <2>4, <2>5, <2>6, <2>7 DEF Marked
<1> QED BY <1>1, <1>2

(* Several stand-ins noted in a row. *)
LEMMA NoteAllKeeps ==
    ASSUME NEW ext \in StandIns, \A k \in DOMAIN ext : k \notin seen, NEW notes \in Notes
    PROVE  NoteAll(ext, notes) \in Marked(ext)
<1> DEFINE Op(x, n) == NoteExternal(x, n[1], n[2])
<1>1. KeptBy(Op, Marked(ext), Key \X StandInLabels)
  BY NoteKeeps DEF KeptBy
<1>2. ext \in Marked(ext)
  BY DEF Marked
<1>3. FoldLeft(Op, ext, notes) \in Marked(ext)
  <2> HIDE DEF Op
  <2> QED BY <1>1, <1>2, FoldLeftStays DEF Notes
<1> QED BY <1>3 DEF NoteAll

(* A base that no file declares has a stand-in, and it is a class. *)
LEMMA NoteBaseKeeps ==
    ASSUME NEW ext, NEW x \in Marked(ext), NEW key \in Key
    PROVE  /\ NoteBase(x, key) \in Marked(ext)
           /\ key \notin seen => key \in DOMAIN NoteBase(x, key) /\ NoteBase(x, key)[key] = "Class"
<1>1. CASE key \in seen
  BY <1>1 DEF NoteBase
<1>2. CASE key \notin seen
  <2> DEFINE y == [k \in DOMAIN x \cup {key} |-> IF k = key THEN "Class" ELSE x[k]]
  <2>1. PICK D \in SUBSET Key : x \in [D -> StandInLabels] /\ IsFiniteSet(D)
    BY DEF Marked, StandIns
  <2>2. y \in [D \cup {key} -> StandInLabels] /\ DOMAIN y = D \cup {key} /\ DOMAIN x = D
    BY <2>1 DEF StandInLabels
  <2>3. IsFiniteSet(D \cup {key}) /\ D \cup {key} \in SUBSET Key
    BY <2>1, FS_AddElement
  <2>4. y \in StandIns
    <3> HIDE DEF y
    <3> QED BY <2>2, <2>3 DEF StandIns
  <2>5. \A k \in DOMAIN y : k \notin seen
    BY <1>2, <2>2 DEF Marked
  <2>6. ASSUME NEW k \in DOMAIN ext PROVE k \in DOMAIN y /\ (ext[k] = "Class" => y[k] = "Class")
    BY <2>2 DEF Marked
  <2>7. NoteBase(x, key) = y
    BY <1>2 DEF NoteBase
  <2>8. key \in DOMAIN y /\ y[key] = "Class"
    BY <2>2
  <2> HIDE DEF y
  <2> QED BY <2>4, <2>5, <2>6, <2>7, <2>8 DEF Marked
<1> QED BY <1>1, <1>2

(* An edge added is there, under its source, type and destination, and nothing else is new. *)
LEMMA AddEdgeKeeps ==
    ASSUME NEW es, IsFiniteSet(es), NEW e
    PROVE  /\ IsFiniteSet(AddEdge(es, e))
           /\ es \subseteq AddEdge(es, e) /\ AddEdge(es, e) \subseteq es \cup {e}
           /\ \E x \in AddEdge(es, e) : x.src = e.src /\ x.type = e.type /\ x.dst = e.dst
<1>1. IsFiniteSet(es \cup {e})
  BY FS_AddElement
<1> QED BY <1>1 DEF AddEdge

(* A ledger key starts with a mark no name carries: it is no key a file declares. *)
LEMMA WrittenOutside ==
    ASSUME NEW f \in Facts, NEW site \in CallSite
    PROVE  Written(f, site) \notin Key
<1> DEFINE W == Name \cup {"?", "self", "super()"}
           form == CASE site.kind = "super" -> <<"super()">> \o site.of
                     [] site.kind \in {"this", "attr"} -> <<"self">> \o Tail(site.of)
                     [] OTHER -> site.of
           front == <<"?">> \o f.path
<1>1. site.of \in Key /\ f.path \in Seq(Name)
  BY Keys DEF CallSite, Facts
<1>2. site.of \in Seq(W) /\ Tail(site.of) \in Seq(W) /\ f.path \in Seq(W)
  <2>1. site.of \in Seq(Name) /\ Tail(site.of) \in Seq(Name)
    BY <1>1, Keys
  <2>2. Name \subseteq W
    OBVIOUS
  <2> HIDE DEF W
  <2> QED BY <1>1, <2>1, <2>2, SeqMonotonic
<1>3. <<"super()">> \in Seq(W) /\ <<"self">> \in Seq(W) /\ <<"?">> \in Seq(W)
  OBVIOUS
<1> HIDE DEF W
<1>4. <<"super()">> \o site.of \in Seq(W) /\ <<"self">> \o Tail(site.of) \in Seq(W)
  BY <1>2, <1>3, ConcatProperties
<1>5. form \in Seq(W)
  BY <1>2, <1>4
<1> HIDE DEF form
<1>6. front \in Seq(W) /\ Len(front) >= 1 /\ front[1] = "?"
  BY <1>2, <1>3, ConcatProperties
<1> HIDE DEF front
<1>7. (front \o form)[1] = "?"
  BY <1>5, <1>6, ConcatProperties
<1>8. Written(f, site)[1] = "?"
  BY <1>7 DEF Written, front, form
<1>9. \A k \in Key : k[1] \in Name
  <2>1. \A k \in Key : k \in Seq(Name) /\ Len(k) \in Nat \ {0}
    BY Keys
  <2> QED BY <2>1
<1> QED BY <1>8, <1>9, NameAssumption

(* The site at the head of the list, and what is left of the list. *)
LEMMA HeadSite ==
    ASSUME Progress, sites # <<>>
    PROVE  /\ Head(sites) = sites[1] /\ Head(sites).file \in DOMAIN all /\ all[Head(sites).file] \in Facts
           /\ Head(sites).site \in CallSite \cup BaseSite
           /\ (Head(sites).site.kind # "base" => Head(sites).site \in CallSite)
           /\ Tail(sites) \in Seq([file : DOMAIN all, site : CallSite \cup BaseSite])
           /\ \A m \in DOMAIN sites : m = 1 \/ (m - 1 \in DOMAIN Tail(sites) /\ Tail(sites)[m - 1] = sites[m])
<1> DEFINE S == [file : DOMAIN all, site : CallSite \cup BaseSite]
<1>1. sites \in Seq(S) /\ all \in Seq(Facts)
  BY DEF Progress
<1>2. Head(sites) \in S /\ Tail(sites) \in Seq(S)
  <2> HIDE DEF S
  <2> QED BY <1>1, HeadTailProperties
<1>3. Head(sites) = sites[1]
  BY <1>1
<1>4. \A m \in DOMAIN sites : m = 1 \/ (m - 1 \in DOMAIN Tail(sites) /\ Tail(sites)[m - 1] = sites[m])
  <2> HIDE DEF S
  <2>1. Len(sites) \in Nat /\ DOMAIN sites = 1..Len(sites) /\ Len(Tail(sites)) = Len(sites) - 1
    BY <1>1, HeadTailProperties
  <2>2. DOMAIN Tail(sites) = 1..(Len(sites) - 1)
    BY <1>2, <2>1
  <2>3. \A i \in 1..Len(Tail(sites)) : Tail(sites)[i] = sites[i + 1]
    BY <1>1, HeadTailProperties
  <2> SUFFICES ASSUME NEW m \in DOMAIN sites, m # 1
               PROVE  m - 1 \in DOMAIN Tail(sites) /\ Tail(sites)[m - 1] = sites[m]
    OBVIOUS
  <2>4. m - 1 \in 1..(Len(sites) - 1) /\ (m - 1) + 1 = m
    BY <2>1
  <2> QED BY <2>1, <2>2, <2>3, <2>4
<1>5. Head(sites).site.kind # "base" => Head(sites).site \in CallSite
  BY <1>2 DEF BaseSite
<1>6. all[Head(sites).file] \in Facts
  BY <1>1, <1>2
<1> QED BY <1>2, <1>3, <1>4, <1>5, <1>6


(* A call that is shown stays shown while nothing is taken away. *)
LEMMA ShownStays ==
    ASSUME NEW ss, NEW es, NEW ls, NEW shs, NEW ss2, NEW es2, NEW ls2, NEW shs2, NEW i, NEW f, NEW c, NEW r, NEW due,
           Shown(ss, es, ls, shs, i, f, c, r, due), es \subseteq es2, ls \subseteq ls2, shs \subseteq shs2,
           \A m \in DOMAIN ss : ss[m] = [file |-> i, site |-> c] =>
                \E k \in DOMAIN ss2 : ss2[k] = [file |-> i, site |-> c]
    PROVE  Shown(ss2, es2, ls2, shs2, i, f, c, r, due)
<1>1. \A src, dst : Leads(es, src, dst) => Leads(es2, src, dst)
  BY DEF Leads
<1>2. CASE \E m \in DOMAIN ss : ss[m] = [file |-> i, site |-> c]
  BY <1>2 DEF Shown
<1>3. CASE r.is = "key" /\ Leads(es, c.caller, r.key) /\ due \subseteq shs
  BY <1>1, <1>3 DEF Shown
<1> QED BY <1>1, <1>2, <1>3 DEF Shown

(* A shape that is told stays told while no edge is taken away. *)
LEMMA ToldStays ==
    ASSUME Told, all' = all, shapes' = shapes, edges \subseteq edges' PROVE Told'
<1>1. \A src, dst : Leads(edges, src, dst) => Leads(edges', src, dst)
  BY DEF Leads
<1>2. \A key : Coroutine(key)' = Coroutine(key)
  BY DEF Coroutine
<1>3. ASSUME NEW s \in shapes PROVE Leads(edges', s[1], s[2]) /\ (s[3] = "unawaited" => Coroutine(s[2])')
  BY <1>1, <1>2 DEF Told
<1> QED BY <1>3 DEF Told

(* The edges once a call is resolved. *)
EdgesAfter(es, f, site, r) ==
    CASE r.is = "skip" -> es
      [] r.is = "key" -> AddEdge(es, [Edge(site.caller, "CALLS", r.key) EXCEPT !.by = r.by])
      [] r.is = "unresolved" -> AddEdge(es, [Edge(site.caller, "CALLS", Written(f, site)) EXCEPT !.by = r.by])
(* Resolving a call keeps the invariant: an answer is an edge, on the ledger too if it is none. *)
LEMMA ResolveCallInv == Inv /\ ResolveCall => Inv'
<1> SUFFICES ASSUME Inv, ResolveCall PROVE Inv'
  OBVIOUS
<1>0. Progress /\ Material /\ Distinct /\ BasesShown /\ CallsShown /\ Told
  BY DEF Inv
<1>1. phase = "sites" /\ sites # <<>> /\ Head(sites).site.kind # "base"
  BY DEF ResolveCall
<1>2. PICK h, f, site, r :
        /\ h = Head(sites) /\ f = all[h.file] /\ site = h.site /\ r = ResolveSite(f, site)
        /\ external' = NoteAll(external, r.notes)
        /\ shapes' = shapes \cup (IF r.is = "key" THEN Shaped(site, r.key) ELSE {})
        /\ ledger' = ledger \cup (IF r.is = "unresolved" THEN {Written(f, site)} ELSE {})
        /\ edges' = EdgesAfter(edges, f, site, r)
  <2> DEFINE hd == Head(sites)
             fd == all[hd.file]
             sd == hd.site
             rd == ResolveSite(fd, sd)
  <2>1. external' = NoteAll(external, rd.notes)
    BY DEF ResolveCall
  <2>2. shapes' = shapes \cup (IF rd.is = "key" THEN Shaped(sd, rd.key) ELSE {})
    BY DEF ResolveCall
  <2>3. ledger' = ledger \cup (IF rd.is = "unresolved" THEN {Written(fd, sd)} ELSE {})
    BY DEF ResolveCall
  <2>4. edges' = EdgesAfter(edges, fd, sd, rd)
    BY DEF ResolveCall, EdgesAfter
  <2>5. hd = Head(sites) /\ fd = all[hd.file] /\ sd = hd.site /\ rd = ResolveSite(fd, sd)
    OBVIOUS
  <2> HIDE DEF hd, fd, sd, rd
  <2> QED BY <2>1, <2>2, <2>3, <2>4, <2>5
<1>3. sites' = Tail(sites) /\ all' = all /\ phase' = phase /\ seen' = seen /\ nodes' = nodes
  BY DEF ResolveCall
<1>4. /\ h = sites[1] /\ h.file \in DOMAIN all /\ f \in Facts /\ site \in CallSite
      /\ Tail(sites) \in Seq([file : DOMAIN all, site : CallSite \cup BaseSite])
      /\ \A m \in DOMAIN sites : m = 1 \/ (m - 1 \in DOMAIN Tail(sites) /\ Tail(sites)[m - 1] = sites[m])
  BY <1>0, <1>1, <1>2, HeadSite
<1>5. all \in Seq(Facts) /\ external \in StandIns /\ \A k \in DOMAIN external : k \notin seen
  BY <1>0, <1>1 DEF Progress, Material, Distinct
<1>6. Answering(r, BuiltinCall(site) \/ site.kind = "base")
  BY <1>2, <1>4, <1>5, SiteAnswers
<1>7. /\ r.notes \in Notes
      /\ \/ r.is = "skip" /\ BuiltinCall(site)
         \/ r.is = "key" /\ r.key \in Key
         \/ r.is = "unresolved"
  <2>1. Silent.notes \in Notes /\ Silent.is = "skip" /\ Unresolved.is = "unresolved"
    BY DEF Notes, Silent, Unresolved
  <2>2. site.kind # "base"
    BY <1>1, <1>2
  <2> QED BY <1>6, <2>1, <2>2 DEF Answering, Answered
<1>8. external' \in Marked(external)
  BY <1>2, <1>5, <1>7, NoteAllKeeps
<1>9. IsFiniteSet(edges) /\ IsFiniteSet(ledger)
  BY <1>0 DEF Material
<1>10. ASSUME NEW dst, edges' = AddEdge(edges, [Edge(site.caller, "CALLS", dst) EXCEPT !.by = r.by])
       PROVE  /\ IsFiniteSet(edges') /\ edges \subseteq edges'
              /\ \A e \in edges' : e \in edges \/ e.type = "CALLS"
              /\ Leads(edges', site.caller, dst)
  <2> DEFINE e == [Edge(site.caller, "CALLS", dst) EXCEPT !.by = r.by]
  <2>1. e.src = site.caller /\ e.type = "CALLS" /\ e.dst = dst
    BY DEF Edge
  <2> HIDE DEF e
  <2>2. edges' = AddEdge(edges, e)
    BY <1>10 DEF e
  <2>3. /\ IsFiniteSet(AddEdge(edges, e)) /\ edges \subseteq AddEdge(edges, e)
        /\ AddEdge(edges, e) \subseteq edges \cup {e}
        /\ \E x \in AddEdge(edges, e) : x.src = e.src /\ x.type = e.type /\ x.dst = e.dst
    BY <1>9, AddEdgeKeeps
  <2> QED BY <2>1, <2>2, <2>3 DEF Leads
<1>11. /\ IsFiniteSet(edges') /\ edges \subseteq edges'
       /\ \A e \in edges' : e \in edges \/ e.type = "CALLS"
       /\ r.is = "key" => Leads(edges', site.caller, r.key)
       /\ r.is = "unresolved" => Leads(edges', site.caller, Written(f, site))
  <2>1. CASE r.is = "skip"
    BY <1>2, <1>9, <2>1 DEF EdgesAfter
  <2>2. CASE r.is = "key"
    <3>1. edges' = AddEdge(edges, [Edge(site.caller, "CALLS", r.key) EXCEPT !.by = r.by])
      BY <1>2, <2>2 DEF EdgesAfter
    <3> QED BY <1>10, <2>2, <3>1
  <2>3. CASE r.is = "unresolved"
    <3>1. edges' = AddEdge(edges, [Edge(site.caller, "CALLS", Written(f, site)) EXCEPT !.by = r.by])
      BY <1>2, <2>3 DEF EdgesAfter
    <3> QED BY <1>10, <2>3, <3>1
  <2> QED BY <1>7, <2>1, <2>2, <2>3
<1>12. Progress'
  BY <1>0, <1>1, <1>3, <1>4 DEF Progress
<1>13. Material'
  <2>1. IsFiniteSet(ledger')
    BY <1>2, <1>9, FS_AddElement
  <2>2. \A l \in ledger' : l \notin Key
    BY <1>0, <1>2, <1>4, WrittenOutside DEF Material
  <2>3. external' \in StandIns
    BY <1>8 DEF Marked
  <2> QED BY <1>1, <1>3, <1>11, <2>1, <2>2, <2>3 DEF Material
<1>14. Distinct'
  BY <1>0, <1>1, <1>3, <1>8 DEF Distinct, Marked, Listed, KeysOf
<1>15. BasesShown'
  BY <1>0, <1>1, <1>3, <1>8, <1>11 DEF BasesShown, Marked
<1>16. CallsShown'
  <2> SUFFICES ASSUME NEW i \in DOMAIN all, NEW n \in DOMAIN all[i].calls
               PROVE  Shown(sites', edges', ledger', shapes', i, all[i], all[i].calls[n], Answer(i, n), Due(i, n))
    BY <1>3, AnswersStay DEF CallsShown
  <2>1. PICK c : c = all[i].calls[n]
    OBVIOUS
  <2>2. Shown(sites, edges, ledger, shapes, i, all[i], c, Answer(i, n), Due(i, n))
    BY <1>0, <2>1 DEF CallsShown
  <2>3. CASE sites[1] # [file |-> i, site |-> c]
    <3>1. ASSUME NEW m \in DOMAIN sites, sites[m] = [file |-> i, site |-> c]
          PROVE  \E k \in DOMAIN sites' : sites'[k] = [file |-> i, site |-> c]
      <4>1. m # 1
        BY <2>3, <3>1
      <4> QED BY <1>3, <1>4, <3>1, <4>1
    <3>2. edges \subseteq edges' /\ ledger \subseteq ledger' /\ shapes \subseteq shapes'
      BY <1>2, <1>11
    <3> QED BY <2>1, <2>2, <3>1, <3>2, ShownStays
  <2>4. CASE sites[1] = [file |-> i, site |-> c]
    <3>0. all[i] = f /\ c = site /\ Answer(i, n) = r /\ Due(i, n) = Shaped(site, r.key)
      <4>1. all[i] = f /\ c = site
        BY <1>2, <1>4, <2>4
      <4> QED BY <1>2, <2>1, <4>1 DEF Answer, Due
    <3>1. CASE r.is = "skip"
      BY <1>7, <2>1, <3>0, <3>1 DEF Shown
    <3>2. CASE r.is = "unresolved"
      <4>1. Written(f, site) \in ledger'
        BY <1>2, <3>2
      <4> QED BY <1>11, <2>1, <3>0, <3>2, <4>1 DEF Shown
    <3>3. CASE r.is = "key"
      <4>1. Leads(edges', site.caller, r.key)
        BY <1>11, <3>3
      <4>2. Shaped(site, r.key) \subseteq shapes'
        BY <1>2, <3>3
      <4> QED BY <2>1, <3>0, <3>3, <4>1, <4>2 DEF Shown
    <3> QED BY <1>7, <3>1, <3>2, <3>3
  <2> QED BY <2>3, <2>4
<1>17. Told'
  <2>0. \A key : Coroutine(key)' = Coroutine(key)
    BY <1>3 DEF Coroutine
  <2> SUFFICES ASSUME NEW s \in shapes'
               PROVE  Leads(edges', s[1], s[2]) /\ (s[3] = "unawaited" => Coroutine(s[2]))
    BY <2>0 DEF Told
  <2>1. CASE s \in shapes
    <3>1. Leads(edges, s[1], s[2]) /\ (s[3] = "unawaited" => Coroutine(s[2]))
      BY <1>0, <2>1 DEF Told
    <3> QED BY <1>11, <3>1 DEF Leads
  <2>2. CASE s \notin shapes
    <3>1. s \in Shaped(site, r.key) /\ r.is = "key"
      BY <1>2, <2>2
    <3>2. s = <<site.caller, r.key, site.shape>> /\ (site.shape = "scheduled" \/ Coroutine(r.key))
      <4> DEFINE coroutine == Coroutine(r.key)
                 triple == <<site.caller, r.key, site.shape>>
      <4>1. s \in IF site.shape = "scheduled" \/ (site.shape # "" /\ coroutine) THEN {triple} ELSE {}
        BY <3>1 DEF Shaped
      <4> HIDE DEF coroutine, triple
      <4>2. s = triple /\ (site.shape = "scheduled" \/ coroutine)
        BY <4>1
      <4> QED BY <4>2 DEF coroutine, triple
    <3>3. s[1] = site.caller /\ s[2] = r.key /\ s[3] = site.shape
      BY <3>2
    <3> QED BY <1>11, <3>1, <3>2, <3>3
  <2> QED BY <2>1, <2>2
<1>18. GraphIsWhole'
  BY <1>1, <1>3 DEF GraphIsWhole
<1> QED BY <1>12, <1>13, <1>14, <1>15, <1>16, <1>17, <1>18 DEF Inv

(* Resolving a base keeps the invariant: its stand-in, if it needs one, becomes a class. *)
LEMMA ResolveBaseInv == Inv /\ ResolveBase => Inv'
<1> SUFFICES ASSUME Inv, ResolveBase PROVE Inv'
  OBVIOUS
<1>0. Progress /\ Material /\ Distinct /\ BasesShown /\ CallsShown /\ Told
  BY DEF Inv
<1>1. phase = "sites" /\ sites # <<>> /\ Head(sites).site.kind = "base"
  BY DEF ResolveBase
<1>2. PICK h, f, site, r :
        /\ h = Head(sites) /\ f = all[h.file] /\ site = h.site /\ r = ResolveSite(f, site)
        /\ external' = IF r.is = "key" THEN NoteBase(NoteAll(external, r.notes), r.key) ELSE external
        /\ edges' = IF r.is = "key" THEN AddEdge(edges, Edge(site.caller, "EXTENDS", r.key)) ELSE edges
  <2> DEFINE hd == Head(sites)
             fd == all[hd.file]
             sd == hd.site
             rd == ResolveSite(fd, sd)
  <2>1. external' = IF rd.is = "key" THEN NoteBase(NoteAll(external, rd.notes), rd.key) ELSE external
    BY DEF ResolveBase
  <2>2. edges' = IF rd.is = "key" THEN AddEdge(edges, Edge(sd.caller, "EXTENDS", rd.key)) ELSE edges
    BY DEF ResolveBase
  <2>3. hd = Head(sites) /\ fd = all[hd.file] /\ sd = hd.site /\ rd = ResolveSite(fd, sd)
    OBVIOUS
  <2> HIDE DEF hd, fd, sd, rd
  <2> QED BY <2>1, <2>2, <2>3
<1>3. /\ sites' = Tail(sites) /\ all' = all /\ phase' = phase /\ seen' = seen /\ nodes' = nodes
      /\ ledger' = ledger /\ shapes' = shapes
  BY DEF ResolveBase
<1>4. /\ h = sites[1] /\ f \in Facts /\ site \in CallSite \cup BaseSite
      /\ Tail(sites) \in Seq([file : DOMAIN all, site : CallSite \cup BaseSite])
      /\ \A m \in DOMAIN sites : m = 1 \/ (m - 1 \in DOMAIN Tail(sites) /\ Tail(sites)[m - 1] = sites[m])
  BY <1>0, <1>1, <1>2, HeadSite
<1>5. all \in Seq(Facts) /\ external \in StandIns /\ (\A k \in DOMAIN external : k \notin seen) /\ IsFiniteSet(edges)
  BY <1>0, <1>1 DEF Progress, Material, Distinct
<1>6. Answering(r, BuiltinCall(site) \/ site.kind = "base")
  BY <1>2, <1>4, <1>5, SiteAnswers
<1>7. r.is = "key" => r.notes \in Notes /\ r.key \in Key
  <2>1. Silent.is = "skip" /\ Unresolved.is = "unresolved"
    BY DEF Silent, Unresolved
  <2> QED BY <1>6, <2>1 DEF Answering, Answered
<1>8. /\ external' \in Marked(external)
      /\ r.is = "key" /\ r.key \notin seen => r.key \in DOMAIN external' /\ external'[r.key] = "Class"
  <2>1. CASE r.is = "key"
    <3>1. NoteAll(external, r.notes) \in Marked(external)
      BY <1>5, <1>7, <2>1, NoteAllKeeps
    <3>2. PICK x : x = NoteAll(external, r.notes)
      OBVIOUS
    <3>3. /\ NoteBase(x, r.key) \in Marked(external)
          /\ r.key \notin seen => r.key \in DOMAIN NoteBase(x, r.key) /\ NoteBase(x, r.key)[r.key] = "Class"
      BY <1>7, <2>1, <3>1, <3>2, NoteBaseKeeps
    <3>4. external' = NoteBase(x, r.key)
      BY <1>2, <2>1, <3>2
    <3> QED BY <3>3, <3>4
  <2>2. CASE r.is # "key"
    BY <1>2, <1>5, <2>2 DEF Marked
  <2> QED BY <2>1, <2>2
<1>9. /\ IsFiniteSet(edges') /\ edges \subseteq edges'
      /\ \A e \in edges' : e \in edges \/ (r.is = "key" /\ e.dst = r.key)
  <2>1. CASE r.is = "key"
    <3> DEFINE e == Edge(site.caller, "EXTENDS", r.key)
    <3>1. e.dst = r.key
      BY DEF Edge
    <3> HIDE DEF e
    <3>2. /\ IsFiniteSet(AddEdge(edges, e)) /\ edges \subseteq AddEdge(edges, e)
          /\ AddEdge(edges, e) \subseteq edges \cup {e}
      BY <1>5, AddEdgeKeeps
    <3>3. edges' = AddEdge(edges, e)
      BY <1>2, <2>1 DEF e
    <3> QED BY <2>1, <3>1, <3>2, <3>3
  <2>2. CASE r.is # "key"
    BY <1>2, <1>5, <2>2
  <2> QED BY <2>1, <2>2
<1>10. Progress'
  BY <1>0, <1>1, <1>3, <1>4 DEF Progress
<1>11. Material'
  BY <1>0, <1>1, <1>3, <1>8, <1>9 DEF Material, Marked
<1>12. Distinct'
  BY <1>0, <1>1, <1>3, <1>8 DEF Distinct, Marked, Listed, KeysOf
<1>13. BasesShown'
  <2> SUFFICES ASSUME NEW e \in edges', e.type = "EXTENDS"
               PROVE  /\ e.dst \in seen \cup DOMAIN external'
                      /\ e.dst \in DOMAIN external' => external'[e.dst] = "Class"
    BY <1>3 DEF BasesShown
  <2>1. \A k \in DOMAIN external' : k \notin seen
    BY <1>8 DEF Marked
  <2>2. CASE e \in edges
    <3>1. /\ e.dst \in seen \cup DOMAIN external
          /\ e.dst \in DOMAIN external => external[e.dst] = "Class"
      BY <1>0, <1>1, <2>2 DEF BasesShown
    <3> QED BY <1>8, <2>1, <3>1 DEF Marked
  <2>3. CASE r.is = "key" /\ e.dst = r.key
    BY <1>8, <2>1, <2>3
  <2> QED BY <1>9, <2>2, <2>3
<1>14. CallsShown'
  <2> SUFFICES ASSUME NEW i \in DOMAIN all, NEW n \in DOMAIN all[i].calls
               PROVE  Shown(sites', edges', ledger', shapes', i, all[i], all[i].calls[n], Answer(i, n), Due(i, n))
    BY <1>3, AnswersStay DEF CallsShown
  <2>1. PICK c : c = all[i].calls[n]
    OBVIOUS
  <2>2. Shown(sites, edges, ledger, shapes, i, all[i], c, Answer(i, n), Due(i, n))
    BY <1>0, <2>1 DEF CallsShown
  <2>3. sites[1] # [file |-> i, site |-> c]
    <3>1. c \in CallSite
      <4>1. all[i] \in Facts
        BY <1>5
      <4>2. all[i].calls \in Seq(CallSite)
        BY <4>1 DEF Facts
      <4> QED BY <2>1, <4>2
    <3>2. c.kind # "base"
      BY <3>1 DEF CallSite
    <3> QED BY <1>1, <1>2, <1>4, <3>2
  <2>4. ASSUME NEW m \in DOMAIN sites, sites[m] = [file |-> i, site |-> c]
        PROVE  \E k \in DOMAIN sites' : sites'[k] = [file |-> i, site |-> c]
    <3>1. m # 1
      BY <2>3, <2>4
    <3> QED BY <1>3, <1>4, <2>4, <3>1
  <2>5. edges \subseteq edges' /\ ledger \subseteq ledger' /\ shapes \subseteq shapes'
    BY <1>3, <1>9
  <2> QED BY <2>1, <2>2, <2>4, <2>5, ShownStays
<1>15. Told'
  BY <1>0, <1>3, <1>9, ToldStays
<1>16. GraphIsWhole'
  BY <1>1, <1>3 DEF GraphIsWhole
<1> QED BY <1>10, <1>11, <1>12, <1>13, <1>14, <1>15, <1>16 DEF Inv

(* The references keep the invariant: no call and no base is left to resolve. *)
LEMMA ReferInv == Inv /\ Refer => Inv'
<1> SUFFICES ASSUME Inv, Refer PROVE Inv'
  OBVIOUS
<1>0. Progress /\ Material /\ Distinct /\ BasesShown /\ CallsShown /\ Told
  BY DEF Inv
<1>1. phase = "sites" /\ sites = <<>> /\ phase' = "finish"
  BY DEF Refer
<1>2. /\ all' = all /\ seen' = seen /\ external' = external /\ sites' = sites /\ shapes' = shapes
      /\ ledger' = ledger /\ nodes' = nodes
  BY DEF Refer
<1>3. all \in Seq(Facts) /\ IsFiniteSet(DOMAIN all) /\ IsFiniteSet(edges)
  BY <1>0, FiniteElements DEF Progress, Material
<1>4. PICK new : /\ edges' = edges \cup new /\ IsFiniteSet(new)
                 /\ \A e \in new : e.type = "REFERENCES"
  <2> DEFINE strings == UNION {ToSet(all[i].strings) : i \in DOMAIN all}
             named == {s \in strings : s[1] \in seen /\ s[2] \in seen}
             handed(i) == {h \in ToSet(all[i].handed) : h[2] \notin Builtins}
             values == UNION {{<<h[1], Handed(all[i], h[2])>> : h \in handed(i)} : i \in DOMAIN all}
             refs == named \cup {v \in values : v[2] \in seen \ {v[1]}}
             added == {Edge(r[1], "REFERENCES", r[2]) : r \in refs}
  <2>1. IsFiniteSet(strings)
    <3> DEFINE part(i) == ToSet(all[i].strings)
    <3>1. \A i \in DOMAIN all : IsFiniteSet(part(i))
      <4> SUFFICES ASSUME NEW i \in DOMAIN all PROVE IsFiniteSet(part(i))
        OBVIOUS
      <4>1. all[i] \in Facts
        BY <1>3
      <4>2. all[i].strings \in Seq(Key \X Seq(Name))
        BY <4>1 DEF Facts
      <4> QED BY <4>2, FiniteElements
    <3> HIDE DEF part
    <3>2. IsFiniteSet(UNION {part(i) : i \in DOMAIN all})
      <4> DEFINE parts == [i \in DOMAIN all |-> part(i)]
      <4>1. DOMAIN parts = DOMAIN all /\ \A i \in DOMAIN all : parts[i] = part(i)
        OBVIOUS
      <4> HIDE DEF parts
      <4>2. IsFiniteSet(UNION {parts[i] : i \in DOMAIN parts})
        BY <1>3, <3>1, <4>1, FiniteUnion
      <4>3. {parts[i] : i \in DOMAIN parts} = {part(i) : i \in DOMAIN all}
        BY <4>1
      <4> QED BY <4>2, <4>3
    <3> QED BY <3>2 DEF part
  <2>2. IsFiniteSet(values)
    <3> DEFINE pair(i, h) == <<h[1], Handed(all[i], h[2])>>
               part(i) == {pair(i, h) : h \in handed(i)}
    <3>1. \A i \in DOMAIN all : IsFiniteSet(part(i))
      <4> SUFFICES ASSUME NEW i \in DOMAIN all PROVE IsFiniteSet(part(i))
        OBVIOUS
      <4>0. all[i] \in Facts
        BY <1>3
      <4>1. all[i].handed \in Seq(Key \X Name)
        BY <4>0 DEF Facts
      <4>2. IsFiniteSet(handed(i))
        <5>1. IsFiniteSet(ToSet(all[i].handed)) /\ handed(i) \subseteq ToSet(all[i].handed)
          BY <4>1, FiniteElements
        <5> HIDE DEF handed
        <5> QED BY <5>1, FS_Subset
      <4> HIDE DEF handed, pair
      <4> DEFINE pairs == [h \in handed(i) |-> pair(i, h)]
      <4>3. IsFiniteSet({pairs[h] : h \in DOMAIN pairs})
        BY <4>2, FiniteRange
      <4>4. {pairs[h] : h \in DOMAIN pairs} = {pair(i, h) : h \in handed(i)}
        OBVIOUS
      <4> QED BY <4>3, <4>4
    <3> HIDE DEF part
    <3>2. IsFiniteSet(UNION {part(i) : i \in DOMAIN all})
      <4> DEFINE parts == [i \in DOMAIN all |-> part(i)]
      <4>1. DOMAIN parts = DOMAIN all /\ \A i \in DOMAIN all : parts[i] = part(i)
        OBVIOUS
      <4> HIDE DEF parts
      <4>2. IsFiniteSet(UNION {parts[i] : i \in DOMAIN parts})
        BY <1>3, <3>1, <4>1, FiniteUnion
      <4>3. {parts[i] : i \in DOMAIN parts} = {part(i) : i \in DOMAIN all}
        BY <4>1
      <4> QED BY <4>2, <4>3
    <3> QED BY <3>2 DEF part
  <2>3. IsFiniteSet(refs)
    <3> HIDE DEF strings, values
    <3>1. named \subseteq strings /\ {v \in values : v[2] \in seen \ {v[1]}} \subseteq values
      OBVIOUS
    <3>2. IsFiniteSet(strings \cup values) /\ refs \subseteq strings \cup values
      BY <2>1, <2>2, <3>1, FS_Union
    <3> HIDE DEF refs
    <3> QED BY <3>2, FS_Subset
  <2>4. IsFiniteSet(added)
    <3> DEFINE edge(r) == Edge(r[1], "REFERENCES", r[2])
    <3> HIDE DEF refs, edge
    <3> DEFINE edged == [r \in refs |-> edge(r)]
    <3>1. IsFiniteSet({edged[r] : r \in DOMAIN edged})
      BY <2>3, FiniteRange
    <3>2. {edged[r] : r \in DOMAIN edged} = {edge(r) : r \in refs}
      OBVIOUS
    <3> QED BY <3>1, <3>2 DEF edge
  <2>5. \A e \in added : e.type = "REFERENCES"
    <3>1. \A r : Edge(r[1], "REFERENCES", r[2]).type = "REFERENCES"
      BY DEF Edge
    <3> HIDE DEF refs
    <3> QED BY <3>1
  <2>6. edges' = edges \cup added
    BY DEF Refer
  <2> HIDE DEF added
  <2> QED BY <2>4, <2>5, <2>6
<1>5. Progress'
  BY <1>0, <1>1, <1>2 DEF Progress
<1>6. Material'
  BY <1>0, <1>1, <1>2, <1>3, <1>4, FS_Union DEF Material
<1>7. Distinct'
  BY <1>0, <1>1, <1>2 DEF Distinct, Listed, KeysOf
<1>8. BasesShown'
  BY <1>0, <1>1, <1>2, <1>4 DEF BasesShown
<1>9. CallsShown'
  <2> SUFFICES ASSUME NEW i \in DOMAIN all, NEW n \in DOMAIN all[i].calls
               PROVE  Shown(sites', edges', ledger', shapes', i, all[i], all[i].calls[n], Answer(i, n), Due(i, n))
    BY <1>2, AnswersStay DEF CallsShown
  <2>1. Shown(sites, edges, ledger, shapes, i, all[i], all[i].calls[n], Answer(i, n), Due(i, n))
    BY <1>0 DEF CallsShown
  <2>2. edges \subseteq edges' /\ ledger \subseteq ledger' /\ shapes \subseteq shapes' /\ sites' = sites
    BY <1>2, <1>4
  <2> QED BY <2>1, <2>2, ShownStays
<1>10. Told'
  BY <1>0, <1>2, <1>4, ToldStays
<1>11. GraphIsWhole'
  BY <1>1 DEF GraphIsWhole
<1> QED BY <1>5, <1>6, <1>7, <1>8, <1>9, <1>10, <1>11 DEF Inv

(* Gathering keeps the invariant: the nodes have distinct keys, and a      *)
(* module imported from outside gets a stand-in.                           *)
LEMMA GatherInv == Inv /\ Gather => Inv'
<1> SUFFICES ASSUME Inv, Gather PROVE Inv'
  OBVIOUS
<1>0. Progress /\ Material /\ CallsShown /\ Told
  BY DEF Inv
<1>1. phase = "gather" /\ phase' = "sites"
  BY DEF Gather
<1>2. all' = all /\ sites' = sites /\ shapes' = shapes /\ ledger' = ledger
  BY DEF Gather
<1>3. /\ all \in Seq(Facts) /\ IsFiniteSet(DOMAIN all) /\ (\A i \in DOMAIN all : all[i] \in Facts)
      /\ edges = {} /\ IsFiniteSet(ledger)
  BY <1>0, <1>1, FiniteElements DEF Progress, Material
<1> DEFINE nodesIn(f) == f.nodes
           contained(i) == {Edge(c[1], "CONTAINS", c[2]) : c \in ToSet(all[i].contains)}
           contains == UNION {contained(i) : i \in DOMAIN all}
           inner == {m \in Modules : Len(m) > 1 /\ Front(m) \in Modules}
           packages == {Edge(Front(m), "CONTAINS", m) : m \in inner}
           imported(i) == {Edge(all[i].module, "IMPORTS", t) : t \in ToSet(all[i].imports)}
           imports == UNION {imported(i) : i \in DOMAIN all}
           foreign == {e.dst : e \in imports} \ Modules
<1>4. /\ nodes' = FirstNodes(OverFiles(nodesIn))
      /\ seen' = KeysOf(nodes')
      /\ edges' = contains \cup packages \cup imports
      /\ external' = [k \in foreign \ seen' |-> "Package"]
  BY DEF Gather, KeysOf
<1>5. nodes' \in Seq(Node) /\ Listed(nodes') /\ seen' \subseteq Key
  <2>1. ReadsIn(nodesIn, Node)
    BY DEF ReadsIn, Facts
  <2> HIDE DEF nodesIn
  <2>2. OverFiles(nodesIn) \in Seq(Node)
    BY <1>3, <2>1, OverFilesIn
  <2>3. nodes' \in Seq(Node) /\ Listed(nodes')
    BY <1>4, <2>2, FirstNodesListed
  <2>4. \A i \in DOMAIN nodes' : nodes'[i] \in Node
    BY <2>3
  <2> QED BY <1>4, <2>3, <2>4 DEF KeysOf, Node
<1>6. IsFiniteSet(contains) /\ \A e \in contains : e.type = "CONTAINS"
  <2>1. \A i \in DOMAIN all : IsFiniteSet(contained(i))
    <3> SUFFICES ASSUME NEW i \in DOMAIN all PROVE IsFiniteSet(contained(i))
      OBVIOUS
    <3> DEFINE edge(c) == Edge(c[1], "CONTAINS", c[2])
               edged == [c \in ToSet(all[i].contains) |-> edge(c)]
    <3>1. all[i].contains \in Seq(Seq(Name) \X Key)
      BY <1>3 DEF Facts
    <3>2. IsFiniteSet(ToSet(all[i].contains))
      BY <3>1, FiniteElements
    <3> HIDE DEF edge
    <3>3. IsFiniteSet({edged[c] : c \in DOMAIN edged})
      BY <3>2, FiniteRange
    <3>4. {edged[c] : c \in DOMAIN edged} = {edge(c) : c \in ToSet(all[i].contains)}
      OBVIOUS
    <3> QED BY <3>3, <3>4 DEF edge
  <2>2. \A i \in DOMAIN all : \A e \in contained(i) : e.type = "CONTAINS"
    <3>1. \A c : Edge(c[1], "CONTAINS", c[2]).type = "CONTAINS"
      BY DEF Edge
    <3> QED BY <3>1
  <2> HIDE DEF contained
  <2> DEFINE parts == [i \in DOMAIN all |-> contained(i)]
  <2>3. IsFiniteSet(UNION {parts[i] : i \in DOMAIN parts})
    <3>1. DOMAIN parts = DOMAIN all /\ \A i \in DOMAIN parts : IsFiniteSet(parts[i])
      BY <2>1
    <3> HIDE DEF parts
    <3> QED BY <1>3, <3>1, FiniteUnion
  <2>4. {parts[i] : i \in DOMAIN parts} = {contained(i) : i \in DOMAIN all}
    OBVIOUS
  <2> QED BY <2>2, <2>3, <2>4
<1>7. IsFiniteSet(packages) /\ \A e \in packages : e.type = "CONTAINS"
  <2>1. IsFiniteSet(inner)
    <3> DEFINE names == [i \in DOMAIN all |-> all[i].module]
    <3>1. IsFiniteSet({names[i] : i \in DOMAIN names})
      BY <1>3, FiniteRange
    <3>2. inner \subseteq {names[i] : i \in DOMAIN names}
      BY DEF Modules, Parsed
    <3> HIDE DEF inner, names
    <3> QED BY <3>1, <3>2, FS_Subset
  <2> DEFINE edge(m) == Edge(Front(m), "CONTAINS", m)
             edged == [m \in inner |-> edge(m)]
  <2>2. \A m : edge(m).type = "CONTAINS"
    BY DEF Edge
  <2> HIDE DEF edge, inner
  <2>3. IsFiniteSet({edged[m] : m \in DOMAIN edged})
    BY <2>1, FiniteRange
  <2>4. {edged[m] : m \in DOMAIN edged} = {edge(m) : m \in inner}
    OBVIOUS
  <2>5. packages = {edge(m) : m \in inner}
    BY DEF edge
  <2> HIDE DEF packages, edged
  <2> QED BY <2>2, <2>3, <2>4, <2>5
<1>8. IsFiniteSet(imports) /\ \A e \in imports : e.type = "IMPORTS" /\ e.dst \in Key
  <2>0. \A i \in DOMAIN all : all[i].imports \in Seq(Key)
    BY <1>3 DEF Facts
  <2>1. \A i \in DOMAIN all : IsFiniteSet(imported(i))
    <3> SUFFICES ASSUME NEW i \in DOMAIN all PROVE IsFiniteSet(imported(i))
      OBVIOUS
    <3> DEFINE edge(t) == Edge(all[i].module, "IMPORTS", t)
               edged == [t \in ToSet(all[i].imports) |-> edge(t)]
    <3>1. IsFiniteSet(ToSet(all[i].imports))
      BY <2>0, FiniteElements
    <3> HIDE DEF edge
    <3>2. IsFiniteSet({edged[t] : t \in DOMAIN edged})
      BY <3>1, FiniteRange
    <3>3. {edged[t] : t \in DOMAIN edged} = {edge(t) : t \in ToSet(all[i].imports)}
      OBVIOUS
    <3> QED BY <3>2, <3>3 DEF edge
  <2>2. \A i \in DOMAIN all : \A e \in imported(i) : e.type = "IMPORTS" /\ e.dst \in Key
    <3> SUFFICES ASSUME NEW i \in DOMAIN all, NEW t \in ToSet(all[i].imports)
                 PROVE  Edge(all[i].module, "IMPORTS", t).type = "IMPORTS" /\ Edge(all[i].module, "IMPORTS", t).dst \in Key
      OBVIOUS
    <3>1. t \in Key
      BY <2>0 DEF ToSet
    <3> QED BY <3>1 DEF Edge
  <2> HIDE DEF imported
  <2> DEFINE parts == [i \in DOMAIN all |-> imported(i)]
  <2>3. IsFiniteSet(UNION {parts[i] : i \in DOMAIN parts})
    <3>1. DOMAIN parts = DOMAIN all /\ \A i \in DOMAIN parts : IsFiniteSet(parts[i])
      BY <2>1
    <3> HIDE DEF parts
    <3> QED BY <1>3, <3>1, FiniteUnion
  <2>4. {parts[i] : i \in DOMAIN parts} = {imported(i) : i \in DOMAIN all}
    OBVIOUS
  <2> QED BY <2>2, <2>3, <2>4
<1> HIDE DEF contains, packages, imports
<1>9. IsFiniteSet(edges') /\ \A e \in edges' : e.type \in {"CONTAINS", "IMPORTS"}
  <2>1. IsFiniteSet(contains \cup packages)
    BY <1>6, <1>7, FS_Union
  <2> QED BY <1>4, <1>6, <1>7, <1>8, <2>1, FS_Union
<1>10. external' \in StandIns /\ \A k \in DOMAIN external' : k \notin seen'
  <2> DEFINE D == foreign \ seen'
             ends == [e \in imports |-> e.dst]
  <2>1. IsFiniteSet({ends[e] : e \in DOMAIN ends})
    BY <1>8, FiniteRange
  <2>2. D \subseteq {ends[e] : e \in DOMAIN ends} /\ D \subseteq Key
    BY <1>8
  <2>3. \A k \in D : k \notin seen'
    OBVIOUS
  <2> HIDE DEF D, ends
  <2>4. IsFiniteSet(D)
    BY <2>1, <2>2, FS_Subset
  <2>5. external' = [k \in D |-> "Package"]
    BY <1>4 DEF D
  <2>6. external' \in [D -> StandInLabels] /\ DOMAIN external' = D
    BY <2>5 DEF StandInLabels
  <2> QED BY <2>2, <2>3, <2>4, <2>6 DEF StandIns
<1> HIDE DEF foreign
<1>11. Progress'
  BY <1>0, <1>1, <1>2 DEF Progress
<1>12. Material'
  BY <1>0, <1>1, <1>2, <1>3, <1>9, <1>10 DEF Material
<1>13. Distinct'
  BY <1>1, <1>4, <1>5, <1>10 DEF Distinct, Listed, KeysOf
<1>14. BasesShown'
  BY <1>9 DEF BasesShown
<1>15. CallsShown'
  <2> SUFFICES ASSUME NEW i \in DOMAIN all, NEW n \in DOMAIN all[i].calls
               PROVE  Shown(sites', edges', ledger', shapes', i, all[i], all[i].calls[n], Answer(i, n), Due(i, n))
    BY <1>2, AnswersStay DEF CallsShown
  <2>1. Shown(sites, edges, ledger, shapes, i, all[i], all[i].calls[n], Answer(i, n), Due(i, n))
    BY <1>0 DEF CallsShown
  <2>2. edges \subseteq edges' /\ ledger \subseteq ledger' /\ shapes \subseteq shapes' /\ sites' = sites
    BY <1>2, <1>3
  <2> QED BY <2>1, <2>2, ShownStays
<1>16. Told'
  BY <1>0, <1>2, <1>3, ToldStays
<1>17. GraphIsWhole'
  BY <1>1 DEF GraphIsWhole
<1> QED BY <1>11, <1>12, <1>13, <1>14, <1>15, <1>16, <1>17 DEF Inv

(* A node with a new key added to nodes with distinct keys. *)
LEMMA ListedOneMore ==
    ASSUME NEW ns, Listed(ns), NEW n, n.key \notin KeysOf(ns)
    PROVE  Listed(Append(ns, n)) /\ KeysOf(Append(ns, n)) = KeysOf(ns) \cup {n.key}
<1> DEFINE T == ToSet(ns) \cup {n}
           more == Append(ns, n)
<1>1. ns \in Seq(T)
  <2>1. ns \in Seq(ToSet(ns)) /\ ToSet(ns) \subseteq T
    BY DEF Listed
  <2> HIDE DEF T
  <2> QED BY <2>1, SeqMonotonic
<1>2. /\ more \in Seq(T) /\ Len(ns) \in Nat /\ DOMAIN ns = 1..Len(ns)
      /\ DOMAIN more = 1..(Len(ns) + 1) /\ more[Len(ns) + 1] = n
      /\ \A i \in 1..Len(ns) : more[i] = ns[i]
  <2>1. n \in T
    OBVIOUS
  <2> HIDE DEF T
  <2> QED BY <1>1, <2>1, AppendProperties, LenProperties
<1>3. more \in Seq(ToSet(more))
  <2>1. more \in Seq(Range(more))
    BY <1>2, SeqOfRange
  <2> QED BY <2>1 DEF Range, ToSet
<1> HIDE DEF more
<1>4. \A i \in 1..Len(ns) : ns[i].key # n.key
  BY <1>2 DEF KeysOf
<1>5. ASSUME NEW i \in 1..(Len(ns) + 1), NEW j \in 1..(Len(ns) + 1), more[i].key = more[j].key
      PROVE  i = j
  <2>1. CASE i = Len(ns) + 1 /\ j = Len(ns) + 1
    BY <2>1
  <2>2. CASE i \in 1..Len(ns) /\ j = Len(ns) + 1
    BY <1>2, <1>4, <1>5, <2>2
  <2>3. CASE i = Len(ns) + 1 /\ j \in 1..Len(ns)
    BY <1>2, <1>4, <1>5, <2>3
  <2>4. CASE i \in 1..Len(ns) /\ j \in 1..Len(ns)
    BY <1>2, <1>5, <2>4 DEF Listed
  <2> QED BY <1>2, <2>1, <2>2, <2>3, <2>4
<1>6. KeysOf(more) = KeysOf(ns) \cup {n.key}
  <2>1. \A k \in KeysOf(more) : k \in KeysOf(ns) \cup {n.key}
    <3> SUFFICES ASSUME NEW i \in 1..(Len(ns) + 1) PROVE more[i].key \in KeysOf(ns) \cup {n.key}
      BY <1>2 DEF KeysOf
    <3>1. CASE i = Len(ns) + 1
      BY <1>2, <3>1
    <3>2. CASE i \in 1..Len(ns)
      BY <1>2, <3>2 DEF KeysOf
    <3> QED BY <1>2, <3>1, <3>2
  <2>2. \A i \in 1..Len(ns) : ns[i].key \in KeysOf(more)
    <3> TAKE i \in 1..Len(ns)
    <3>1. i \in DOMAIN more /\ more[i] = ns[i]
      BY <1>2
    <3> QED BY <3>1 DEF KeysOf
  <2>3. n.key \in KeysOf(more)
    <3>1. Len(ns) + 1 \in DOMAIN more
      BY <1>2
    <3> QED BY <1>2, <3>1 DEF KeysOf
  <2>4. KeysOf(ns) \subseteq KeysOf(more)
    BY <1>2, <2>2 DEF KeysOf
  <2> QED BY <2>1, <2>3, <2>4
<1> QED BY <1>2, <1>3, <1>5, <1>6 DEF Listed, more

(* Nodes with distinct keys behind others, with none in common. *)
LEMMA ListedTogether ==
    ASSUME NEW ms, Listed(ms), NEW ns, Listed(ns), KeysOf(ms) \cap KeysOf(ns) = {}
    PROVE  Listed(ms \o ns) /\ KeysOf(ms \o ns) = KeysOf(ms) \cup KeysOf(ns)
<1> DEFINE T == ToSet(ms) \cup ToSet(ns)
           both == ms \o ns
<1>1. ms \in Seq(T) /\ ns \in Seq(T)
  <2>1. ms \in Seq(ToSet(ms)) /\ ns \in Seq(ToSet(ns)) /\ ToSet(ms) \subseteq T /\ ToSet(ns) \subseteq T
    BY DEF Listed
  <2> HIDE DEF T
  <2> QED BY <2>1, SeqMonotonic
<1>2. /\ both \in Seq(T) /\ Len(ms) \in Nat /\ Len(ns) \in Nat /\ DOMAIN ms = 1..Len(ms) /\ DOMAIN ns = 1..Len(ns)
      /\ Len(both) = Len(ms) + Len(ns) /\ DOMAIN both = 1..(Len(ms) + Len(ns))
      /\ \A i \in 1..(Len(ms) + Len(ns)) : both[i] = IF i <= Len(ms) THEN ms[i] ELSE ns[i - Len(ms)]
  <2> HIDE DEF T
  <2>1. both \in Seq(T) /\ Len(both) = Len(ms) + Len(ns)
    BY <1>1, ConcatProperties
  <2>2. \A i \in 1..(Len(ms) + Len(ns)) : both[i] = IF i <= Len(ms) THEN ms[i] ELSE ns[i - Len(ms)]
    BY <1>1, ConcatProperties
  <2> HIDE DEF both
  <2>3. DOMAIN both = 1..Len(both)
    BY <2>1
  <2> QED BY <1>1, <2>1, <2>2, <2>3
<1>3. both \in Seq(ToSet(both))
  <2>1. both \in Seq(Range(both))
    BY <1>2, SeqOfRange
  <2> QED BY <2>1 DEF Range, ToSet
<1> HIDE DEF both
<1>4. \A i \in 1..Len(ms), j \in 1..Len(ns) : ms[i].key # ns[j].key
  BY <1>2 DEF KeysOf
<1>5. \A i \in 1..(Len(ms) + Len(ns)) : i \in 1..Len(ms) \/ (~(i <= Len(ms)) /\ i - Len(ms) \in 1..Len(ns))
  BY <1>2
<1>6. ASSUME NEW i \in 1..(Len(ms) + Len(ns)), NEW j \in 1..(Len(ms) + Len(ns)), both[i].key = both[j].key
      PROVE  i = j
  <2>1. CASE i \in 1..Len(ms) /\ j \in 1..Len(ms)
    <3>1. both[i] = ms[i] /\ both[j] = ms[j]
      BY <1>2, <2>1
    <3> QED BY <1>2, <1>6, <2>1, <3>1 DEF Listed
  <2>2. CASE i \in 1..Len(ms) /\ ~(j <= Len(ms)) /\ j - Len(ms) \in 1..Len(ns)
    BY <1>2, <1>4, <1>6, <2>2
  <2>3. CASE j \in 1..Len(ms) /\ ~(i <= Len(ms)) /\ i - Len(ms) \in 1..Len(ns)
    BY <1>2, <1>4, <1>6, <2>3
  <2>4. CASE /\ ~(i <= Len(ms)) /\ i - Len(ms) \in 1..Len(ns) /\ ~(j <= Len(ms)) /\ j - Len(ms) \in 1..Len(ns)
    <3>1. ns[i - Len(ms)].key = ns[j - Len(ms)].key
      BY <1>2, <1>6, <2>4
    <3>2. i - Len(ms) = j - Len(ms)
      BY <1>2, <2>4, <3>1 DEF Listed
    <3> QED BY <1>2, <3>2
  <2> QED BY <1>5, <2>1, <2>2, <2>3, <2>4
<1>7. KeysOf(both) = KeysOf(ms) \cup KeysOf(ns)
  <2>1. \A i \in 1..(Len(ms) + Len(ns)) : both[i].key \in KeysOf(ms) \cup KeysOf(ns)
    <3> TAKE i \in 1..(Len(ms) + Len(ns))
    <3>1. CASE i \in 1..Len(ms)
      BY <1>2, <3>1 DEF KeysOf
    <3>2. CASE ~(i <= Len(ms)) /\ i - Len(ms) \in 1..Len(ns)
      BY <1>2, <3>2 DEF KeysOf
    <3> QED BY <1>5, <3>1, <3>2
  <2>2. \A i \in 1..Len(ms) : ms[i].key \in KeysOf(both)
    <3> TAKE i \in 1..Len(ms)
    <3>1. i \in DOMAIN both /\ both[i] = ms[i]
      BY <1>2
    <3> QED BY <3>1 DEF KeysOf
  <2>3. \A j \in 1..Len(ns) : ns[j].key \in KeysOf(both)
    <3> TAKE j \in 1..Len(ns)
    <3>1. Len(ms) + j \in DOMAIN both /\ ~(Len(ms) + j <= Len(ms)) /\ (Len(ms) + j) - Len(ms) = j
      BY <1>2
    <3>2. both[Len(ms) + j] = ns[j]
      BY <1>2, <3>1
    <3> QED BY <3>1, <3>2 DEF KeysOf
  <2>4. KeysOf(both) \subseteq KeysOf(ms) \cup KeysOf(ns)
    BY <1>2, <2>1 DEF KeysOf
  <2>5. KeysOf(ms) \subseteq KeysOf(both) /\ KeysOf(ns) \subseteq KeysOf(both)
    BY <1>2, <2>2, <2>3 DEF KeysOf
  <2> QED BY <2>4, <2>5
<1> QED BY <1>2, <1>3, <1>6, <1>7 DEF Listed, both

(* The nodes made for a finite set of keys have these keys, each once. *)
LEMMA NodesOfListed ==
    ASSUME NEW keys, IsFiniteSet(keys), NEW LabelFor(_)
    PROVE  Listed(NodesOf(keys, LabelFor)) /\ KeysOf(NodesOf(keys, LabelFor)) = keys
<1> DEFINE Add(k, ns) == Append(ns, [key |-> k, label |-> LabelFor(k), async |-> FALSE])
           Good(T, ns) == Listed(ns) /\ KeysOf(ns) = T
<1>1. Holds(Good, {}, <<>>)
  BY DEF Holds, Listed, KeysOf, ToSet
<1>2. Grows(Add, keys, Good)
  <2> SUFFICES ASSUME NEW T \in SUBSET keys, NEW x \in keys, NEW ns, x \notin T, Good(T, ns)
               PROVE  Good(T \cup {x}, Add(x, ns))
    BY DEF Grows
  <2> DEFINE n == [key |-> x, label |-> LabelFor(x), async |-> FALSE]
  <2>1. n.key = x
    OBVIOUS
  <2>2. Add(x, ns) = Append(ns, n)
    OBVIOUS
  <2> HIDE DEF n, Add
  <2> QED BY <2>1, <2>2, ListedOneMore
<1>3. Holds(Good, keys, FoldSet(Add, <<>>, keys))
  <2> HIDE DEF Add, Good
  <2> QED BY <1>1, <1>2, FoldSetGrows
<1> QED BY <1>3 DEF Holds, NodesOf

(* The types used are finitely many. *)
LEMMA UsedFinite == ASSUME all \in Seq(Facts) PROVE IsFiniteSet(Used)
<1> DEFINE pair(i, t) == <<t.owner, DeclOf(all[i], t.written)>>
           part(i) == {pair(i, t) : t \in ToSet(all[i].types)}
           parts == [i \in DOMAIN all |-> part(i)]
<1>1. IsFiniteSet(DOMAIN all)
  BY FiniteElements
<1>2. \A i \in DOMAIN all : IsFiniteSet(part(i))
  <2> SUFFICES ASSUME NEW i \in DOMAIN all PROVE IsFiniteSet(part(i))
    OBVIOUS
  <2> DEFINE pairs == [t \in ToSet(all[i].types) |-> pair(i, t)]
  <2>1. all[i] \in Facts
    OBVIOUS
  <2>2. all[i].types \in Seq([owner : Key, written : Dotted])
    BY <2>1 DEF Facts
  <2>3. IsFiniteSet(ToSet(all[i].types))
    BY <2>2, FiniteElements
  <2> HIDE DEF pair
  <2>4. IsFiniteSet({pairs[t] : t \in DOMAIN pairs})
    BY <2>3, FiniteRange
  <2>5. {pairs[t] : t \in DOMAIN pairs} = {pair(i, t) : t \in ToSet(all[i].types)}
    OBVIOUS
  <2> QED BY <2>4, <2>5
<1>3. Used \subseteq UNION {part(i) : i \in DOMAIN all}
  BY DEF Used
<1> HIDE DEF part
<1>4. IsFiniteSet(UNION {parts[i] : i \in DOMAIN parts})
  <2>1. DOMAIN parts = DOMAIN all /\ \A i \in DOMAIN parts : IsFiniteSet(parts[i])
    BY <1>2
  <2> HIDE DEF parts
  <2> QED BY <1>1, <2>1, FiniteUnion
<1>5. {parts[i] : i \in DOMAIN parts} = {part(i) : i \in DOMAIN all}
  OBVIOUS
<1> QED BY <1>3, <1>4, <1>5, FS_Subset

(* Finishing makes the graph whole: nodes for the ledger, for what edges   *)
(* imply and for the stand-ins.                                            *)
LEMMA FinishInv == Inv /\ Finish => Inv'
<1> SUFFICES ASSUME Inv, Finish PROVE Inv'
  OBVIOUS
<1>0. Progress /\ Material /\ Distinct /\ BasesShown /\ CallsShown /\ Told
  BY DEF Inv
<1>1. phase = "finish" /\ phase' = "done"
  BY DEF Finish
<1>2. all' = all /\ external' = external /\ sites' = sites /\ shapes' = shapes /\ ledger' = ledger
  BY DEF Finish
<1> DEFINE uses == {Edge(u[1], "USES_TYPE", u[2]) : u \in Used}
           ends == UNION {{e.src, e.dst} : e \in edges \cup uses}
           implied == ends \ (seen \cup ledger \cup DOMAIN external)
           Unresolvable(k) == "UnresolvedRef"
           Implied(k) == "Type"
           StandIn(k) == external[k]
<1>3. /\ edges' = edges \cup uses
      /\ nodes' = nodes \o NodesOf(ledger, Unresolvable) \o NodesOf(implied, Implied)
                     \o NodesOf(DOMAIN external, StandIn)
  BY DEF Finish
<1>4. IsFiniteSet(uses) /\ \A e \in uses : e.type = "USES_TYPE"
  <2>1. IsFiniteSet(Used)
    BY <1>0, UsedFinite DEF Progress
  <2> DEFINE edge(u) == Edge(u[1], "USES_TYPE", u[2])
             edged == [u \in Used |-> edge(u)]
  <2>2. \A u : edge(u).type = "USES_TYPE"
    BY DEF Edge
  <2> HIDE DEF edge
  <2>3. IsFiniteSet({edged[u] : u \in DOMAIN edged})
    BY <2>1, FiniteRange
  <2>4. {edged[u] : u \in DOMAIN edged} = {edge(u) : u \in Used}
    OBVIOUS
  <2>5. uses = {edge(u) : u \in Used}
    BY DEF edge
  <2> HIDE DEF uses, edged
  <2> QED BY <2>2, <2>3, <2>4, <2>5
<1> HIDE DEF uses
<1>5. IsFiniteSet(edges \cup uses)
  BY <1>0, <1>4, FS_Union DEF Material
<1>6. IsFiniteSet(ends)
  <2> DEFINE pairs == [e \in edges \cup uses |-> {e.src, e.dst}]
  <2>1. \A e \in DOMAIN pairs : IsFiniteSet(pairs[e])
    <3> TAKE e \in DOMAIN pairs
    <3>1. IsFiniteSet({e.src}) /\ IsFiniteSet({e.dst}) /\ pairs[e] = {e.src} \cup {e.dst}
      BY FS_Singleton
    <3> HIDE DEF pairs
    <3>2. IsFiniteSet({e.src} \cup {e.dst})
      BY <3>1, FS_Union
    <3> QED BY <3>1, <3>2
  <2>2. DOMAIN pairs = edges \cup uses /\ {pairs[e] : e \in DOMAIN pairs} = {{e.src, e.dst} : e \in edges \cup uses}
    OBVIOUS
  <2> HIDE DEF pairs
  <2>3. IsFiniteSet(UNION {pairs[e] : e \in DOMAIN pairs})
    BY <1>5, <2>1, <2>2, FiniteUnion
  <2> QED BY <2>2, <2>3
<1>7. \A e \in edges \cup uses : e.src \in ends /\ e.dst \in ends
  OBVIOUS
<1> HIDE DEF ends
<1>8. IsFiniteSet(ledger) /\ IsFiniteSet(implied) /\ IsFiniteSet(DOMAIN external) /\ DOMAIN external \subseteq Key
  <2>1. IsFiniteSet(implied)
    BY <1>6, FS_Subset
  <2>2. external \in StandIns /\ IsFiniteSet(ledger)
    BY <1>0 DEF Material
  <2>3. PICK D \in SUBSET Key : external \in [D -> StandInLabels] /\ IsFiniteSet(DOMAIN external)
    BY <2>2 DEF StandIns
  <2> QED BY <2>1, <2>2, <2>3
<1>9. /\ Listed(nodes) /\ KeysOf(nodes) = seen /\ seen \subseteq Key /\ (\A k \in DOMAIN external : k \notin seen)
      /\ \A l \in ledger : l \notin Key
  BY <1>0, <1>1 DEF Distinct, Material
<1>10. /\ seen \cap ledger = {} /\ (seen \cup ledger) \cap implied = {}
       /\ ((seen \cup ledger) \cup implied) \cap DOMAIN external = {}
       /\ ends \subseteq ((seen \cup ledger) \cup implied) \cup DOMAIN external
  BY <1>8, <1>9
<1> HIDE DEF implied, Unresolvable, Implied, StandIn
<1>11. Listed(NodesOf(ledger, Unresolvable)) /\ KeysOf(NodesOf(ledger, Unresolvable)) = ledger
  BY <1>8, NodesOfListed
<1>12. Listed(NodesOf(implied, Implied)) /\ KeysOf(NodesOf(implied, Implied)) = implied
  BY <1>8, NodesOfListed
<1>13. Listed(NodesOf(DOMAIN external, StandIn)) /\ KeysOf(NodesOf(DOMAIN external, StandIn)) = DOMAIN external
  BY <1>8, NodesOfListed
<1>14. PICK ns1, ns2, ns3 :
         /\ nodes' = ((nodes \o ns1) \o ns2) \o ns3
         /\ Listed(ns1) /\ KeysOf(ns1) = ledger /\ Listed(ns2) /\ KeysOf(ns2) = implied
         /\ Listed(ns3) /\ KeysOf(ns3) = DOMAIN external
  BY <1>3, <1>11, <1>12, <1>13
<1>15. Listed(nodes \o ns1) /\ KeysOf(nodes \o ns1) = seen \cup ledger
  BY <1>9, <1>10, <1>14, ListedTogether
<1>16. Listed((nodes \o ns1) \o ns2) /\ KeysOf((nodes \o ns1) \o ns2) = (seen \cup ledger) \cup implied
  BY <1>10, <1>14, <1>15, ListedTogether
<1>17. /\ Listed(((nodes \o ns1) \o ns2) \o ns3)
       /\ KeysOf(((nodes \o ns1) \o ns2) \o ns3) = ((seen \cup ledger) \cup implied) \cup DOMAIN external
  BY <1>10, <1>14, <1>16, ListedTogether
<1>18. GraphIsWhole'
  <2>1. \A i, j \in DOMAIN nodes' : nodes'[i].key = nodes'[j].key => i = j
    BY <1>14, <1>17 DEF Listed
  <2>2. \A k \in ends : \E i \in DOMAIN nodes' : nodes'[i].key = k
    <3> SUFFICES ASSUME NEW k \in ends PROVE \E i \in DOMAIN nodes' : nodes'[i].key = k
      OBVIOUS
    <3>1. k \in {nodes'[i].key : i \in DOMAIN nodes'}
      BY <1>10, <1>14, <1>17 DEF KeysOf
    <3> QED BY <3>1
  <2>3. \A e \in edges' : \E i, j \in DOMAIN nodes' : nodes'[i].key = e.src /\ nodes'[j].key = e.dst
    <3> SUFFICES ASSUME NEW e \in edges' PROVE \E i, j \in DOMAIN nodes' : nodes'[i].key = e.src /\ nodes'[j].key = e.dst
      OBVIOUS
    <3>1. e.src \in ends /\ e.dst \in ends
      BY <1>3, <1>7
    <3> QED BY <2>2, <3>1
  <2> QED BY <2>1, <2>3 DEF GraphIsWhole
<1>19. Progress'
  BY <1>0, <1>1, <1>2 DEF Progress
<1>20. Material'
  BY <1>0, <1>1, <1>2, <1>3, <1>5 DEF Material
<1>21. Distinct'
  BY <1>1 DEF Distinct
<1>22. BasesShown'
  BY <1>0, <1>1, <1>2, <1>3, <1>4 DEF BasesShown
<1>23. CallsShown'
  <2> SUFFICES ASSUME NEW i \in DOMAIN all, NEW n \in DOMAIN all[i].calls
               PROVE  Shown(sites', edges', ledger', shapes', i, all[i], all[i].calls[n], Answer(i, n), Due(i, n))
    BY <1>2, AnswersStay DEF CallsShown
  <2>1. Shown(sites, edges, ledger, shapes, i, all[i], all[i].calls[n], Answer(i, n), Due(i, n))
    BY <1>0 DEF CallsShown
  <2>2. edges \subseteq edges' /\ ledger \subseteq ledger' /\ shapes \subseteq shapes' /\ sites' = sites
    BY <1>2, <1>3
  <2> QED BY <2>1, <2>2, ShownStays
<1>24. Told'
  BY <1>0, <1>2, <1>3, ToldStays
<1> QED BY <1>18, <1>19, <1>20, <1>21, <1>22, <1>23, <1>24 DEF Inv
----------------------------------------------------------------------------
(* Inv holds in every state of every run. *)
THEOREM Invariant == Spec => []Inv
<1>1. Inv /\ [Next]_vars => Inv'
  <2> SUFFICES ASSUME Inv, [Next]_vars PROVE Inv'
    OBVIOUS
  <2>1. CASE Gather
    BY <2>1, GatherInv
  <2>2. CASE ResolveCall
    BY <2>2, ResolveCallInv
  <2>3. CASE ResolveBase
    BY <2>3, ResolveBaseInv
  <2>4. CASE Refer
    BY <2>4, ReferInv
  <2>5. CASE Finish
    BY <2>5, FinishInv
  <2>6. CASE UNCHANGED vars
    <3>1. /\ all' = all /\ phase' = phase /\ seen' = seen /\ edges' = edges /\ external' = external
          /\ sites' = sites /\ shapes' = shapes /\ ledger' = ledger /\ nodes' = nodes
      BY <2>6 DEF vars
    <3>2. Progress' /\ Material' /\ Distinct' /\ BasesShown' /\ CallsShown' /\ Told' /\ GraphIsWhole'
      <4>1. Progress /\ Material /\ Distinct /\ BasesShown /\ CallsShown /\ Told /\ GraphIsWhole
        BY DEF Inv
      <4>2. Progress' /\ Material'
        BY <3>1, <4>1 DEF Progress, Material
      <4>3. Distinct' /\ BasesShown'
        BY <3>1, <4>1 DEF Distinct, BasesShown, Listed, KeysOf
      <4>4. CallsShown'
        BY <3>1, <4>1, AnswersStay DEF CallsShown
      <4>5. Told' /\ GraphIsWhole'
        BY <3>1, <4>1, ToldStays DEF GraphIsWhole
      <4> QED BY <4>2, <4>3, <4>4, <4>5
    <3> QED BY <3>2 DEF Inv
  <2> QED BY <2>1, <2>2, <2>3, <2>4, <2>5, <2>6 DEF Next
<1> QED BY <1>1, InitInv, PTL DEF Spec

(* Every finished graph names each node once and each end of each edge     *)
(* (`assemble`, resolve.rs).                                               *)
THEOREM GraphWhole == Spec => []GraphIsWhole
<1>1. Inv => GraphIsWhole
  BY DEF Inv
<1> QED BY <1>1, Invariant, PTL

(* In a finished graph every call is shown, and none is still to be resolved. *)
LEMMA CallShown ==
    ASSUME Inv, phase = "done", NEW i \in DOMAIN all, NEW c \in ToSet(all[i].calls)
    PROVE  LET r == ResolveSite(all[i], c) IN
           /\ c \in CallSite
           /\ \/ r.is = "skip" /\ BuiltinCall(c)
              \/ r.is = "key" /\ Calls(c.caller, r.key) /\ Shaped(c, r.key) \subseteq shapes
              \/ /\ r.is = "unresolved"
                 /\ Calls(c.caller, Written(all[i], c)) /\ Written(all[i], c) \in ledger
<1>1. all[i].calls \in Seq(CallSite)
  <2>1. all[i] \in Facts
    BY DEF Inv, Progress
  <2> QED BY <2>1 DEF Facts
<1>2. PICK n \in DOMAIN all[i].calls : c = all[i].calls[n]
  BY DEF ToSet
<1>3. PICK r : r = Answer(i, n)
  OBVIOUS
<1>4. r = ResolveSite(all[i], c) /\ Due(i, n) = Shaped(c, r.key)
  BY <1>2, <1>3 DEF Answer, Due
<1>5. Shown(<<>>, edges, ledger, shapes, i, all[i], c, r, Shaped(c, r.key))
  <2>1. sites = <<>> /\ Shown(sites, edges, ledger, shapes, i, all[i], all[i].calls[n], Answer(i, n), Due(i, n))
    BY DEF Inv, Progress, CallsShown
  <2> QED BY <1>2, <1>3, <1>4, <2>1
<1>6. DOMAIN <<>> = {}
  OBVIOUS
<1>7. \A src, dst : Leads(edges, src, dst) => Calls(src, dst)
  BY DEF Leads, Calls
<1>8. \/ r.is = "skip" /\ BuiltinCall(c)
      \/ r.is = "key" /\ Calls(c.caller, r.key) /\ Shaped(c, r.key) \subseteq shapes
      \/ r.is = "unresolved" /\ Calls(c.caller, Written(all[i], c)) /\ Written(all[i], c) \in ledger
  BY <1>5, <1>6, <1>7 DEF Shown
<1>9. c \in CallSite
  BY <1>1, <1>2
<1> QED BY <1>4, <1>8, <1>9

(* No call is dropped in silence: it calls a builtin, or the edge to what  *)
(* it comes to shows it, by way of the ledger if it comes to nothing.      *)
THEOREM CallsKept == Spec => []NoCallDropped
<1>1. Inv => NoCallDropped
  <2> SUFFICES ASSUME Inv, phase = "done", NEW i \in DOMAIN all, NEW c \in ToSet(all[i].calls)
               PROVE  \E r \in {ResolveSite(all[i], c)} :
                         \/ r.is = "skip" /\ c.kind = "plain" /\ Head(c.of) \in Builtins
                         \/ r.is = "key" /\ Calls(c.caller, r.key)
                         \/ /\ r.is = "unresolved"
                            /\ Calls(c.caller, Written(all[i], c)) /\ Written(all[i], c) \in ledger
    BY DEF NoCallDropped
  <2> QED BY CallShown DEF BuiltinCall
<1> QED BY <1>1, Invariant, PTL

(* However many sites reach a callee, the edge to it tells of one that is  *)
(* scheduled and of a coroutine left unawaited; what is said to be left    *)
(* unawaited is a coroutine, and what is told is told of an edge.          *)
THEOREM ShapesKept == Spec => []ShapesSurvive
<1>1. Inv => ShapesSurvive
  <2> SUFFICES ASSUME Inv, phase = "done" PROVE ShapesSurvive
    BY DEF ShapesSurvive
  <2>1. \A s \in shapes : Calls(s[1], s[2]) /\ (s[3] = "unawaited" => Coroutine(s[2]))
    BY DEF Inv, Told, Leads, Calls
  <2>2. ASSUME NEW i \in DOMAIN all, NEW c \in ToSet(all[i].calls), NEW r, r = ResolveSite(all[i], c), r.is = "key",
               c.shape = "scheduled" \/ (c.shape = "unawaited" /\ Coroutine(r.key))
        PROVE  Calls(c.caller, r.key) /\ <<c.caller, r.key, c.shape>> \in shapes
    <3>1. Calls(c.caller, r.key) /\ Shaped(c, r.key) \subseteq shapes
      BY <2>2, CallShown
    <3>2. <<c.caller, r.key, c.shape>> \in Shaped(c, r.key)
      BY <2>2 DEF Shaped
    <3> QED BY <3>1, <3>2
  <2> QED BY <2>1, <2>2 DEF ShapesSurvive
<1> QED BY <1>1, Invariant, PTL

(* A stand-in that something extends is a class, whoever noted it first. *)
THEOREM BasesClasses == Spec => []BasesAreClasses
<1>1. Inv => BasesAreClasses
  BY DEF Inv, BasesShown, BasesAreClasses
<1> QED BY <1>1, Invariant, PTL
=============================================================================
