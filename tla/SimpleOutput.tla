---------------------------- MODULE SimpleOutput ----------------------------
(***************************************************************************)
(* The Rust SDK's facade for a plugin with no cross-file structure         *)
(* (sdk/rust/src/lib.rs): `process` fills an output for the files of one   *)
(* chunk, the output is the partial, and `assemble` puts the partials one  *)
(* behind the other.  Prose is the sequence of the texts it is made of.    *)
(***************************************************************************)
EXTENDS FactGraph

Fields == {"nodes", "edges", "prose", "skipped", "notes"}
Nothing == Blank(Fields)
Merge(c, d) == JoinPartials(c, d)
MergeAll(outputs) == FoldLeft(Merge, Nothing, outputs)

(* One fact, or one remark, as an output. *)
Mint(node) == [Nothing EXCEPT !.nodes = <<node>>]
Link(edge) == [Nothing EXCEPT !.edges = <<edge>>]
Linked(node, edge) == Merge(Mint(node), Link(edge))
Skip == [Nothing EXCEPT !.skipped = 1]
Note(path, what) == [Nothing EXCEPT !.notes = <<[path |-> path, what |-> what]>>]
Prose(text) == [Nothing EXCEPT !.prose = <<text>>]
When(test, out) == IF test THEN out ELSE Nothing
Each(seq, Of(_)) == MergeAll([i \in DOMAIN seq |-> Of(seq[i])])

(* A file the host could not read is counted and named. *)
Declined(file, why) == Merge(Skip, Note(file.path, why))

Finish(out) ==
    [nodes |-> out.nodes, edges |-> out.edges, prose |-> out.prose, skipped |-> out.skipped,
     notes |-> out.notes, facts |-> Len(out.nodes) + Len(out.edges)]
=============================================================================
