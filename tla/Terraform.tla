----------------------------- MODULE Terraform -----------------------------
(***************************************************************************)
(* The Terraform plugin (plugins/terraform): the blocks of each file, the  *)
(* references they make, and one `assemble` that keeps a reference where   *)
(* the tree declares what it names and counts it where it does not.        *)
(*                                                                         *)
(* Abstractions.  A file is its path [dir, base], `state` ("values" for    *)
(* one that is declined by its name) and its blocks: [is, labels, body].   *)
(* A body is its attributes [key, expr] and the bodies of its blocks.  An  *)
(* expression is a traversal (root, the attributes got, and the index      *)
(* expressions), a string, or one made of others ("over").  A name is a    *)
(* sequence of words and of the "_" and "." between them, and so is a key. *)
(***************************************************************************)
EXTENDS FactGraph, ImageRef

CONSTANT Nesting    \* how deeply what the parser hands over is nested at most

(* What it hands over, by how deeply it is nested.                         *)
Traversals(parts) == [e : {"traversal"}, root : Seq(STRING), attrs : Seq(Seq(STRING)), index : parts]
Expressions(parts) == Traversals(parts) \cup [e : {"string"}, text : Seq(STRING)] \cup [e : {"over"}, parts : parts]
Expression[n \in 0..Nesting] == IF n = 0 THEN {} ELSE Expressions(Seq(Expression[n - 1]))
Body[n \in 0..Nesting] ==
    IF n = 0 THEN {}
    ELSE [attrs : Seq([key : STRING, expr : Expression[Nesting]]), blocks : Seq(Body[n - 1])]
----------------------------------------------------------------------------
ImageArgs == {"image", "image_uri", "container_image"}
MetaRoots == {<<r>> : r \in {"each", "count", "self", "path", "terraform", "local", "locals"}}
MaxDepth == 4

Fields == {"nodes", "edges", "roots", "declared", "skipped", "notes"}
Nothing == Blank(Fields)
Merge(c, d) == JoinPartials(c, d)
MergeAll(chunks) == FoldLeft(Merge, Nothing, chunks)
PushNode(node) == [Nothing EXCEPT !.nodes = <<node>>, !.declared = <<node.key>>]
PushEdge(edge) == [Nothing EXCEPT !.edges = <<edge>>]
Skip == [Nothing EXCEPT !.skipped = 1]
Note(path, what) == [Nothing EXCEPT !.notes = <<[path |-> path, what |-> what]>>]
----------------------------------------------------------------------------
(* The traversals inside an expression; those in an index are not walked.  *)
RefsOver(below, expr) ==
    CASE expr.e = "traversal" -> <<expr>>
      [] expr.e = "over" -> FlattenSeq([i \in DOMAIN expr.parts |-> below[expr.parts[i]]])
      [] OTHER -> <<>>
RefsBelow[n \in 0..Nesting] ==
    IF n = 0 THEN <<>> ELSE [expr \in Expression[n] |-> RefsOver(RefsBelow[n - 1], expr)]
RefsIn(expr) == RefsBelow[Nesting][expr]

(* The address a traversal names, if it names what a configuration declares. *)
AddressOf(t) ==
    LET got == Len(t.attrs) IN
    CASE t.root \in MetaRoots -> None
      [] t.root \in {<<"var">>, <<"module">>} -> IF got = 0 THEN None ELSE Some(t.root \o <<".">> \o t.attrs[1])
      [] t.root = <<"data">> ->
            IF got < 2 THEN None ELSE Some(t.root \o <<".">> \o t.attrs[1] \o <<".">> \o t.attrs[2])
      [] OTHER -> IF Contains(t.root, "_") /\ got > 0 THEN Some(t.root \o <<".">> \o t.attrs[1]) ELSE None
Addresses(expr) ==
    LET refs == RefsIn(expr) IN FlattenSeq([i \in DOMAIN refs |-> AddressOf(refs[i])])

(* A body and those of the blocks in it, to some depth, each ahead of its  *)
(* own blocks.                                                             *)
Inside[n \in 0..Nesting] ==
    IF n = 0 THEN <<>>
    ELSE [body \in Body[n] |-> [depth \in 0..(MaxDepth + 1) |->
             <<body>> \o (IF depth = 0 THEN <<>>
                          ELSE FlattenSeq([i \in DOMAIN body.blocks |-> Inside[n - 1][body.blocks[i]][depth - 1]]))]]
Bodies(body, depth) == Inside[Nesting][body][depth]

(* <<address, how it was stated>> of what an attribute refers to, of the   *)
(* body's own attributes and then of its nested blocks, bounded in depth.  *)
Stated(attr, nested) ==
    LET to == Addresses(attr.expr)
        via == IF attr.key = "depends_on" /\ ~nested THEN "depends_on" ELSE "reference"
    IN [i \in DOMAIN to |-> <<to[i], via>>]
StatedBy(body, nested) == FlattenSeq([i \in DOMAIN body.attrs |-> Stated(body.attrs[i], nested)])
Nested(body) ==
    LET nested == Tail(Bodies(body, MaxDepth + 1))
    IN FlattenSeq([i \in DOMAIN nested |-> StatedBy(nested[i], TRUE)])

(* One edge for each address, but for the block's own, stated as first.    *)
ReferencesOutermost(block, key) ==
    LET via == FirstMap(StatedBy(block.body, FALSE))
        others == SetToSeq(DOMAIN via \ {key})
    IN MergeAll([i \in DOMAIN others |-> PushEdge(EdgeBy(key, "DEPENDS_ON", others[i], via[others[i]]))])
References(block, key) ==
    LET via == FirstMap(StatedBy(block.body, FALSE) \o Nested(block.body))
        others == SetToSeq(DOMAIN via \ {key})
        type(dst) == IF dst[1] = "var" /\ dst[2] = "." THEN "USES_VARIABLE" ELSE "DEPENDS_ON"
    IN MergeAll([i \in DOMAIN others |-> PushEdge(EdgeBy(key, type(others[i]), others[i], via[others[i]]))])

(* A container image named in the block or in one nested in it.            *)
Image(attr, key) ==
    IF attr.key \in ImageArgs /\ attr.expr.e = "string"
    THEN Merge(PushNode([key |-> attr.expr.text, label |-> "Image", external |-> FALSE, parts |-> ParseImage(attr.expr.text)]),
               PushEdge(Edge(key, "USES_IMAGE", attr.expr.text)))
    ELSE Nothing
Images(body, key) ==
    LET bodies == Bodies(body, MaxDepth)
        Named(b) == MergeAll([i \in DOMAIN b.attrs |-> Image(b.attrs[i], key)])
    IN MergeAll([i \in DOMAIN bodies |-> Named(bodies[i])])
----------------------------------------------------------------------------
(* The blocks.  A key is the block's address and has no root in it.        *)
Provider(type) == <<"provider", ".">> \o SplitFirst(type, "_")[1]
InRoot(key, label, root) == Merge(PushNode(Node(key, label)), PushEdge(Edge(key, "IN_NAMESPACE", <<root>>)))

ResourceBlock(block, root) ==
    LET key == block.labels[1] \o <<".">> \o block.labels[2] IN
    MergeAll(<<InRoot(key, "Infra", root), PushEdge(Edge(key, "PROVIDED_BY", Provider(block.labels[1]))),
               Images(block.body, key), References(block, key)>>)
DataBlock(block, root) ==
    LET key == <<"data", ".">> \o block.labels[1] \o <<".">> \o block.labels[2] IN
    Merge(InRoot(key, "DataSource", root), References(block, key))
ModuleBlock(block, root) ==
    LET key == <<"module", ".">> \o block.labels[1] IN
    MergeAll(<<PushNode(Node(key, "Module")), PushEdge(Edge(<<root>>, "USES_MODULE", key)), References(block, key)>>)
VariableBlock(block, root) == InRoot(<<"var", ".">> \o block.labels[1], "Variable", root)
OutputBlock(block, root) ==
    LET key == <<"output", ".">> \o block.labels[1]
        values == Filter(block.body.attrs, LAMBDA a : a.key = "value")
        exposed == FlattenSeq([i \in DOMAIN values |-> Addresses(values[i].expr)])
    IN Merge(InRoot(key, "Output", root),
             MergeAll([i \in DOMAIN exposed |-> PushEdge(Edge(key, "EXPOSES", exposed[i]))]))
ProviderBlock(block, root) == InRoot(<<"provider", ".">> \o block.labels[1], "Provider", root)

LabelsOf(kind) == CASE kind \in {"resource", "data"} -> 2 [] kind \in {"module", "variable", "output", "provider"} -> 1 [] OTHER -> 0
Structure(block, root) ==
    IF Len(block.labels) < LabelsOf(block.is) THEN Skip
    ELSE CASE block.is = "resource" -> ResourceBlock(block, root)
           [] block.is = "data" -> DataBlock(block, root)
           [] block.is = "module" -> ModuleBlock(block, root)
           [] block.is = "variable" -> VariableBlock(block, root)
           [] block.is = "output" -> OutputBlock(block, root)
           [] block.is = "provider" -> ProviderBlock(block, root)
           [] OTHER -> Nothing

Declining(file, why) == Merge(Skip, Note(file.path, why))
Read(file) ==
    CASE file.state = "unreadable" -> Declining(file, "unreadable")
      [] file.state = "values" -> Declining(file, "values and state are not declarations")
      [] file.state = "invalid" -> Declining(file, "not valid HCL")
      [] file.state = "read" ->
            MergeAll(<<[Nothing EXCEPT !.roots = <<file.path.dir>>]>>
                     \o [i \in DOMAIN file.blocks |-> Structure(file.blocks[i], file.path.dir)]
                     \o <<IF file.blocks = <<>> THEN Note(file.path, "no blocks") ELSE Nothing>>)
----------------------------------------------------------------------------
(* The whole-tree pass.                                                    *)
FirstOfEach(seq) == FoldLeft(LAMBDA s, x : IF Contains(s, x) THEN s ELSE Append(s, x), <<>>, seq)
Lands(all, edge) == Contains(all.declared, edge.dst) \/ edge.dst \in {<<all.roots[i]>> : i \in DOMAIN all.roots}
Resolve(all) ==
    LET roots == FirstOfEach(all.roots)
        kept == Filter(all.edges, LAMBDA e : Lands(all, e))
        nodes == all.nodes \o [i \in DOMAIN roots |-> Node(<<roots[i]>>, "Namespace")]
    IN [nodes |-> nodes, edges |-> kept, skipped |-> all.skipped, notes |-> all.notes,
        dangling |-> Len(all.edges) - Len(kept), facts |-> Len(nodes) + Len(kept)]
=============================================================================
