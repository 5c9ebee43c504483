------------------------------ MODULE FactGraph ------------------------------
(***************************************************************************)
(* What the plugins have in common: partials that are put one behind the   *)
(* other, maps whose first entry wins, edges kept once per source, type    *)
(* and destination, and a node for every end of an edge.  Keys are         *)
(* sequences of names; an optional value is a sequence of length at most   *)
(* one.                                                                    *)
(***************************************************************************)
EXTENDS Naturals, Sequences, FiniteSets, SequencesExt, TLC

None == <<>>
Some(x) == <<x>>

(* A partial is a record of sequences and of one count.  `assemble` (or    *)
(* partial::merge for it) extends each sequence and adds up the counts.    *)
Blank(fields) == [f \in fields |-> IF f = "skipped" THEN 0 ELSE <<>>]
JoinPartials(c, d) == [f \in DOMAIN c |-> IF f = "skipped" THEN c[f] + d[f] ELSE c[f] \o d[f]]
IsRow(s) == Len(s) \in Nat /\ s = [i \in 1..Len(s) |-> s[i]]
IsPartial(fields, c) ==
    /\ c = [f \in fields |-> c[f]]
    /\ \A f \in fields : IF f = "skipped" THEN c[f] \in Nat ELSE IsRow(c[f])

(* What passes of a sequence, and the first of it; a map that is built by  *)
(* entry().or_insert().                                                    *)
Filter(seq, Test(_)) == FlattenSeq([i \in DOMAIN seq |-> IF Test(seq[i]) THEN <<seq[i]>> ELSE <<>>])
Find(seq, Test(_)) ==
    LET n == SelectInSeq(seq, Test) IN IF n = 0 THEN None ELSE Some(seq[n])
FirstOf(options) ==
    LET n == SelectInSeq(options, LAMBDA o : o # None) IN IF n = 0 THEN None ELSE options[n]
FirstMap(pairs) ==
    [k \in {pairs[i][1] : i \in DOMAIN pairs} |->
        pairs[SelectInSeq(pairs, LAMBDA p : p[1] = k)][2]]
LastMap(pairs) == FirstMap(Reverse(pairs))
Get(map, key) == IF key \in DOMAIN map THEN Some(map[key]) ELSE None

(* One value per file, in order; the values of all files in a row. *)
OverFiles(all, Of(_)) == FlattenSeq([i \in DOMAIN all |-> Of(all[i])])

Edge(src, type, dst) == [src |-> src, type |-> type, dst |-> dst, by |-> ""]
EdgeBy(src, type, dst, by) == [src |-> src, type |-> type, dst |-> dst, by |-> by]
Same(e, f) == e.src = f.src /\ e.type = f.type /\ e.dst = f.dst
AddEdge(edges, e) == IF \E x \in edges : Same(x, e) THEN edges ELSE edges \cup {e}
AddEdges(edges, seq) == FoldLeft(AddEdge, edges, seq)

Node(key, label) == [key |-> key, label |-> label, external |-> FALSE]
External(key, label) == [key |-> key, label |-> label, external |-> TRUE]
Keys(nodes) == {nodes[i].key : i \in DOMAIN nodes}
AddNode(nodes, n) == IF n.key \in Keys(nodes) THEN nodes ELSE Append(nodes, n)
MergeNodes(nodes, more) == FoldLeft(AddNode, nodes, more)
Ends(edges) == UNION {{e.src, e.dst} : e \in edges}
=============================================================================
