------------------------- MODULE DeclarationsProofs -------------------------
(***************************************************************************)
(* What the plugins that read declarations answer of a tree, however it is *)
(* cut: no edge dangles but those that may, and an image's parts make it.  *)
(*                                                                         *)
(* Of each plugin what a file gives Stands (ManifestsProofs): here of the  *)
(* files of Terraform, of Deps, TOML and XML.  What is nested (the items   *)
(* of a TOML file, the elements of a mapper) is read by how deeply it is.  *)
(* The tree gives what its files do, put together (WholeIsMerged), and so  *)
(* stands of itself.                                                       *)
(***************************************************************************)
EXTENDS Declarations, ManifestsProofs
----------------------------------------------------------------------------
(* A file of Terraform needs the directories it lists as roots.            *)
RootKeys(c) == {<<r>> : r \in ToSet(c["roots"])}
LEMMA DirectoryListed ==
    ASSUME NEW dir, NEW c, c = [Terraform!Nothing EXCEPT !.roots = <<dir>>]
    PROVE  Stands("terraform", {}, c) /\ ToSet(c["roots"]) = {dir}
<1> DEFINE v == <<dir>>
<1>1. Facts!IsRow(v) /\ ToSet(v) = {dir}
  BY OneRow
<1>2. Filled("terraform", "roots", v, c)
  BY TerraformIs DEF Filled
<1>3. "terraform" \in Readers /\ "roots" \in FieldsOf("terraform") \ {"skipped", "nodes", "edges", "declared"}
  BY TerraformIs, FieldsAre
<1> HIDE DEF v
<1>4. c["roots"] = v
  <2>1. DOMAIN Terraform!Nothing = FieldsOf("terraform")
    BY TerraformIs DEF Facts!Blank
  <2> QED BY <1>3, <2>1 DEF v
<1>5. Stands("terraform", {}, c)
  BY <1>1, <1>2, <1>3, AsideStands
<1> QED BY <1>1, <1>4, <1>5
LEMMA ReadConfigurationStands ==
    ASSUME NEW f, IsConfiguration(f), f.state = "read"
    PROVE  Stands("terraform", RootKeys(Terraform!Read(f)), Terraform!Read(f))
<1> DEFINE dir == f.path.dir
           blocks == f.blocks
           n == Len(blocks)
           a == [Terraform!Nothing EXCEPT !.roots = <<dir>>]
           b == IF blocks = <<>> THEN Terraform!Note(f.path, "no blocks") ELSE Terraform!Nothing
           g == [i \in DOMAIN blocks |-> Terraform!Structure(blocks[i], dir)]
           u == <<a>>
           v == <<b>>
           cs == u \o g \o v
           m == Terraform!MergeAll(cs)
           need == {<<dir>>}
           none == {}
<1>1. Terraform!Read(f) = m
  BY DEF Terraform!Read
<1>2. Facts!IsRow(blocks) /\ \A x \in ToSet(blocks) : x.body \in Terraform!Body[Nesting]
  BY DEF IsConfiguration
<1>3. Stands("terraform", none, a) /\ ToSet(a["roots"]) = {dir}
  BY DirectoryListed
<1>4. Stands("terraform", none, b)
  BY TerraformRemarksStand
<1> HIDE DEF a, b, blocks
<1>5. n \in Nat /\ DOMAIN blocks = 1..n /\ g = [i \in 1..n |-> g[i]]
  BY <1>2 DEF Facts!IsRow
<1>6. \A i \in 1..n : Stands("terraform", need, g[i])
  BY <1>2, <1>5, BlockStands DEF ToSet
<1> HIDE DEF n, g, dir
<1>7. Facts!IsRow(g) /\ ToSet(g) = {g[i] : i \in 1..n} /\ Facts!IsRow(u) /\ ToSet(u) = {a} /\ Facts!IsRow(v) /\ ToSet(v) = {b}
  BY <1>5, MapRow, OneRow
<1> HIDE DEF u, v
<1>8. Facts!IsRow(cs) /\ ToSet(cs) = {a} \cup ToSet(g) \cup {b}
  <2> DEFINE w == u \o g
  <2>1. Facts!IsRow(w) /\ ToSet(w) = {a} \cup ToSet(g)
    BY <1>7, ConcatRow
  <2> HIDE DEF w
  <2>2. Facts!IsRow(w \o v) /\ ToSet(w \o v) = ToSet(w) \cup {b}
    BY <1>7, <2>1, ConcatRow
  <2> QED BY <2>1, <2>2 DEF w
<1> HIDE DEF cs, need
<1>9. Stands("terraform", need, a) /\ Stands("terraform", need, b)
  BY <1>3, <1>4, StandsOn
<1>10. need \cup none = need /\ none \subseteq UNION {KeysIn(x) : x \in ToSet(cs)}
  OBVIOUS
<1>11. StandIn("terraform", need \cup none, cs)
  BY <1>6, <1>7, <1>8, <1>9, <1>10 DEF StandIn
<1> HIDE DEF none
<1>12. /\ Stands("terraform", need, m)
       /\ \A k \in FieldsOf("terraform") \ {"skipped"} : ToSet(m[k]) = UNION {ToSet(x[k]) : x \in ToSet(cs)}
  BY <1>8, <1>10, <1>11, TerraformAllStand
<1> HIDE DEF m
<1>13. need \subseteq RootKeys(m)
  <2>1. "roots" \in FieldsOf("terraform") \ {"skipped"}
    BY TerraformIs, FieldsAre
  <2>2. dir \in ToSet(m["roots"])
    BY <1>3, <1>8, <1>12, <2>1
  <2> QED BY <2>2 DEF need, RootKeys
<1>14. Stands("terraform", RootKeys(m), m)
  BY <1>12, <1>13, StandsOn
<1> QED BY <1>1, <1>14
LEMMA ConfigurationStands ==
    ASSUME NEW f, IsConfiguration(f)
    PROVE  Stands("terraform", RootKeys(Terraform!Read(f)), Terraform!Read(f))
<1>1. CASE f.state = "read"
  BY <1>1, ReadConfigurationStands
<1>2. CASE f.state # "read"
  <2> DEFINE c == Terraform!Read(f)
             v1 == Terraform!Declining(f, "unreadable")
             v2 == Terraform!Declining(f, "values and state are not declarations")
             v3 == Terraform!Declining(f, "not valid HCL")
  <2>1. c = v1 \/ c = v2 \/ c = v3
    <3>1. f.state \in {"unreadable", "values", "invalid"}
      BY <1>2 DEF IsConfiguration
    <3> QED BY <3>1 DEF Terraform!Read
  <2>2. Stands("terraform", {}, v1) /\ Stands("terraform", {}, v2) /\ Stands("terraform", {}, v3)
    BY TerraformRemarksStand
  <2> HIDE DEF c, v1, v2, v3
  <2>3. Stands("terraform", RootKeys(c), c)
    BY <2>1, <2>2, StandsOn
  <2> QED BY <2>3 DEF c
<1> QED BY <1>1, <1>2
(***************************************************************************)
(* The pass over the whole tree keeps the edges that land on what is       *)
(* declared or on a root, and has a node for each root.                    *)
(***************************************************************************)
KeepsIn(seq, P, g) == Over(seq, g) /\ \A i \in DOMAIN seq : (seq[i] \in P /\ g[i] = <<seq[i]>>) \/ g[i] = <<>>
LEMMA KeptRow ==
    ASSUME NEW seq, Facts!IsRow(seq), NEW P, NEW g, KeepsIn(seq, P, g)
    PROVE  Facts!IsRow(FlattenSeq(g)) /\ ToSet(FlattenSeq(g)) \subseteq ToSet(seq) \cap P
<1> DEFINE n == Len(seq)
<1>1. n \in Nat /\ DOMAIN seq = 1..n /\ DOMAIN g = 1..n /\ g = [i \in 1..n |-> g[i]]
  BY DEF Facts!IsRow, KeepsIn, Over
<1> HIDE DEF n
<1>2. Facts!IsRow(g)
  BY <1>1, MapRow
<1>3. ToSet(<<>>) = {}
  BY DEF ToSet
<1>4. \A i \in DOMAIN g : Facts!IsRow(g[i]) /\ ToSet(g[i]) \subseteq ToSet(seq) \cap P
  <2> SUFFICES ASSUME NEW i \in DOMAIN g PROVE Facts!IsRow(g[i]) /\ ToSet(g[i]) \subseteq ToSet(seq) \cap P
    OBVIOUS
  <2>1. seq[i] \in ToSet(seq)
    BY <1>1 DEF ToSet
  <2>2. CASE seq[i] \in P /\ g[i] = <<seq[i]>>
    BY <2>1, <2>2, OneRow
  <2>3. CASE g[i] = <<>>
    BY <1>3, <2>3, NoneIsRow
  <2> QED BY <1>1, <2>2, <2>3 DEF KeepsIn
<1> QED BY <1>2, <1>4, FlattenRow

LEMMA RootsListed ==
    ASSUME NEW seq, Facts!IsRow(seq)
    PROVE  Facts!IsRow(Terraform!FirstOfEach(seq)) /\ ToSet(Terraform!FirstOfEach(seq)) = ToSet(seq)
<1> DEFINE S == ToSet(seq)
           r == Terraform!FirstOfEach(seq)
<1>1. r = K8s!FirstOfEach(seq)
  BY DEF Terraform!FirstOfEach, K8s!FirstOfEach, Terraform!FoldLeft, K8s!FoldLeft, Terraform!MapThenFoldSet,
         K8s!MapThenFoldSet, Terraform!Max, K8s!Max, Terraform!Contains, K8s!Contains
<1>5. Len(seq) \in Nat /\ seq \in [1..Len(seq) -> S]
  BY DEF Facts!IsRow, ToSet
<1>6. seq \in Seq(S)
  BY <1>5, FunctionIsSeq
<1> HIDE DEF S
<1>7. K8s!FirstOfEach(seq) \in Seq(S) /\ Range(K8s!FirstOfEach(seq)) = Range(seq)
  BY <1>6, FirstOfEachLists
<1>8. r \in Seq(S) /\ Range(r) = Range(seq)
  BY <1>1, <1>7
<1> HIDE DEF r
<1>9. Facts!IsRow(r) /\ ToSet(r) = ToSet(seq)
  BY <1>8, SeqIsRow DEF Range, ToSet
<1> QED BY <1>9 DEF r
LEMMA ResolveJoins ==
    ASSUME NEW tree, Stands("terraform", RootKeys(tree), tree)
    PROVE  /\ \A e \in ToSet(Terraform!Resolve(tree).edges) :
              {e.src, e.dst} \subseteq {n.key : n \in ToSet(Terraform!Resolve(tree).nodes)}
           /\ \A n \in ToSet(Terraform!Resolve(tree).nodes) : OfImage(n)
<1> DEFINE F == FieldsOf("terraform")
           listed == tree["roots"]
           roots == Terraform!FirstOfEach(listed)
           n == Len(roots)
           edges == tree["edges"]
           nodes == tree["nodes"]
           g == [i \in DOMAIN edges |-> IF Terraform!Lands(tree, edges[i]) THEN <<edges[i]>> ELSE <<>>]
           kept == Terraform!FlattenSeq(g)
           spaces == [i \in DOMAIN roots |-> Terraform!Node(<<roots[i]>>, "Namespace")]
           every == nodes \o spaces
           K == KeysIn(tree) \cup RootKeys(tree)
           P == {e \in ToSet(edges) : e.dst \in K}
           r == Terraform!Resolve(tree)
<1>1. r.nodes = every /\ r.edges = kept
  BY DEF Terraform!Resolve, Terraform!Filter
<1>2. {"roots", "edges", "nodes", "declared"} \subseteq F \ {"skipped"}
  BY TerraformIs, FieldsAre
<1>3. Facts!IsRow(listed) /\ Facts!IsRow(edges) /\ Facts!IsRow(nodes) /\ Facts!IsRow(tree["declared"])
  BY <1>2 DEF Stands, Facts!IsPartial
<1>4. ToSet(tree["declared"]) \subseteq KeysIn(tree) /\ \A e \in ToSet(edges) : e.src \in K
  <2>1. RootKeys(tree) \cup KeysIn(tree) \subseteq K
    OBVIOUS
  <2> HIDE DEF K
  <2> QED BY <2>1 DEF Stands, Declares, Joined, EdgesIn
<1>5. Facts!IsRow(roots) /\ ToSet(roots) = ToSet(listed)
  BY <1>3, RootsListed
<1>6. \A e : Terraform!Lands(tree, e) => e.dst \in K
  <2> SUFFICES ASSUME NEW e, Terraform!Lands(tree, e) PROVE e.dst \in K
    OBVIOUS
  <2>1. CASE Terraform!Contains(tree.declared, e.dst)
    <3>1. Len(tree["declared"]) \in Nat /\ DOMAIN tree["declared"] = 1..Len(tree["declared"])
      BY <1>3 DEF Facts!IsRow
    <3>2. e.dst \in ToSet(tree["declared"])
      BY <2>1, <3>1 DEF Terraform!Contains, ToSet
    <3> QED BY <1>4, <3>2
  <2>2. CASE e.dst \in {<<tree.roots[i]>> : i \in DOMAIN tree.roots}
    BY <2>2 DEF RootKeys, ToSet
  <2> QED BY <2>1, <2>2 DEF Terraform!Lands
<1> HIDE DEF r, K
<1>7. KeepsIn(edges, P, g)
  <2>1. \A i \in DOMAIN edges : edges[i] \in ToSet(edges)
    BY DEF ToSet
  <2> QED BY <1>6, <2>1 DEF KeepsIn, Over
<1> HIDE DEF g, edges, listed
<1>8. ToSet(kept) \subseteq ToSet(edges) \cap P
  BY <1>3, <1>7, KeptRow, TerraformFlattens
<1> HIDE DEF P
<1>9. n \in Nat /\ DOMAIN roots = 1..n /\ spaces = [i \in 1..n |-> spaces[i]]
  BY <1>5 DEF Facts!IsRow
<1> HIDE DEF n
<1>10. {x.key : x \in ToSet(spaces)} = {<<s>> : s \in ToSet(roots)}
  <2>1. \A i \in DOMAIN roots : spaces[i].key = <<roots[i]>>
    BY DEF Terraform!Node
  <2>2. DOMAIN spaces = DOMAIN roots
    OBVIOUS
  <2> HIDE DEF spaces, roots
  <2> QED BY <2>1, <2>2 DEF ToSet
<1>15. \A x \in ToSet(spaces) : OfImage(x)
  <2>1. \A i \in DOMAIN roots : spaces[i].label # "Image"
    BY DEF Terraform!Node
  <2>2. DOMAIN spaces = DOMAIN roots
    OBVIOUS
  <2> HIDE DEF spaces, roots
  <2> QED BY <2>1, <2>2 DEF ToSet, OfImage
<1> HIDE DEF spaces, roots
<1>11. Facts!IsRow(spaces)
  BY <1>9, MapRow
<1> HIDE DEF nodes
<1>12. ToSet(every) = ToSet(nodes) \cup ToSet(spaces)
  BY <1>3, <1>11, ConcatRow
<1> HIDE DEF every, kept
<1>13. {x.key : x \in ToSet(every)} = K
  <2>1. {x.key : x \in ToSet(nodes)} = KeysIn(tree)
    BY DEF KeysIn, NodesIn, nodes
  <2>2. {x.key : x \in ToSet(spaces)} = RootKeys(tree)
    BY <1>5, <1>10 DEF RootKeys, listed
  <2> QED BY <1>12, <2>1, <2>2 DEF K
<1>14. \A e \in ToSet(kept) : {e.src, e.dst} \subseteq K
  BY <1>4, <1>8 DEF P
<1>16. \A x \in ToSet(every) : OfImage(x)
  <2>1. \A x \in ToSet(nodes) : OfImage(x)
    BY DEF Stands, Imaged, NodesIn, nodes
  <2> QED BY <1>12, <1>15, <2>1
<1> QED BY <1>1, <1>13, <1>14, <1>16 DEF r
----------------------------------------------------------------------------
(***************************************************************************)
(* The Deps plugin: whatever a reader makes of a build file is a list.     *)
(***************************************************************************)
LEMMA DepsFolds ==
    /\ \A ss : Deps!FlattenSeq(ss) = FlattenSeq(ss)
    /\ \A seq, pairs : Deps!FoldLeft(Deps!GoLine, seq, pairs) = FoldLeft(Deps!GoLine, seq, pairs)
    /\ \A seq, pairs : Deps!FoldLeft(Deps!PomEvent, seq, pairs) = FoldLeft(Deps!PomEvent, seq, pairs)
<1>1. \A ss : Deps!FlattenSeq(ss) = FlattenSeq(ss)
  BY DEF Deps!FlattenSeq, FlattenSeq
<1>2. \A seq, pairs : Deps!FoldLeft(Deps!GoLine, seq, pairs) = FoldLeft(Deps!GoLine, seq, pairs)
  BY DEF Deps!FoldLeft, FoldLeft, Deps!MapThenFoldSet, MapThenFoldSet, Deps!Max, Max
<1>3. \A seq, pairs : Deps!FoldLeft(Deps!PomEvent, seq, pairs) = FoldLeft(Deps!PomEvent, seq, pairs)
  BY DEF Deps!FoldLeft, FoldLeft, Deps!MapThenFoldSet, MapThenFoldSet, Deps!Max, Max
<1> QED BY <1>1, <1>2, <1>3
LEMMA ScopedRow == ASSUME NEW scope, NEW pairs, Facts!IsRow(pairs) PROVE Facts!IsRow(Deps!ScopedTo(scope, pairs))
<1> DEFINE n == Len(pairs)
           g == Deps!ScopedTo(scope, pairs)
<1>1. n \in Nat /\ DOMAIN pairs = 1..n
  BY DEF Facts!IsRow
<1>2. g = [i \in 1..n |-> g[i]]
  BY <1>1 DEF Deps!ScopedTo
<1> HIDE DEF n, g
<1>3. Facts!IsRow(g)
  BY <1>1, <1>2, MapRow
<1> QED BY <1>3 DEF g
LEMMA RequirementsRow ==
    ASSUME NEW specs, Facts!IsRow(specs), NEW scope
    PROVE  Facts!IsRow(Deps!RequirementsOf(specs, scope))
<1> DEFINE n == Len(specs)
           g == [i \in DOMAIN specs |-> Deps!Requirement(specs[i], scope)]
<1>1. n \in Nat /\ DOMAIN specs = 1..n
  BY DEF Facts!IsRow
<1>2. g = [i \in 1..n |-> g[i]] /\ DOMAIN g = 1..n
  BY <1>1
<1>3. \A i \in DOMAIN g : Facts!IsRow(g[i])
  BY OneRow, NoneIsRow DEF Deps!Requirement
<1>4. Deps!RequirementsOf(specs, scope) = FlattenSeq(g)
  BY DepsFolds DEF Deps!RequirementsOf
<1> HIDE DEF n, g
<1>5. Facts!IsRow(g)
  BY <1>1, <1>2, MapRow
<1> QED BY <1>3, <1>4, <1>5, FlattenRow
(* The plugin writes its output with the facade.                           *)
LEMMA DepsIsSimple ==
    /\ Deps!Nothing = Simple!Nothing /\ Deps!Skip = Simple!Skip
    /\ \A c, d : Deps!Merge(c, d) = Simple!Merge(c, d)
    /\ \A cs : Deps!MergeAll(cs) = Simple!MergeAll(cs)
    /\ \A n, e : Deps!Mint(n) = Simple!Mint(n) /\ Deps!Link(e) = Simple!Link(e) /\ Deps!Linked(n, e) = Simple!Linked(n, e)
    /\ \A path, what : Deps!Note(path, what) = Simple!Note(path, what)
    /\ \A text : Deps!Prose(text) = Simple!Prose(text)
    /\ \A file, why : Deps!Declined(file, why) = Simple!Declined(file, why)
    /\ \A test, c : Deps!When(test, c) = Simple!When(test, c)
<1>1. Deps!Nothing = Simple!Nothing
  BY DEF Deps!Nothing, Deps!Blank, Deps!Fields, Simple!Nothing, Simple!Blank, Simple!Fields
<1>2. \A c, d : Deps!Merge(c, d) = Simple!Merge(c, d)
  BY DEF Deps!Merge, Deps!JoinPartials, Simple!Merge, Simple!JoinPartials
<1>3. \A cs : Deps!MergeAll(cs) = Simple!MergeAll(cs)
  BY DEF Deps!MergeAll, Deps!FoldLeft, Deps!MapThenFoldSet, Deps!Max, Deps!Merge, Deps!JoinPartials,
         Deps!Nothing, Deps!Blank, Deps!Fields,
         Simple!MergeAll, Simple!FoldLeft, Simple!MapThenFoldSet, Simple!Max, Simple!Merge, Simple!JoinPartials,
         Simple!Nothing, Simple!Blank, Simple!Fields
<1>4. \A n, e : Deps!Mint(n) = Simple!Mint(n) /\ Deps!Link(e) = Simple!Link(e)
  BY <1>1 DEF Deps!Mint, Deps!Link, Simple!Mint, Simple!Link
<1>5. \A n, e : Deps!Linked(n, e) = Simple!Linked(n, e)
  BY <1>2, <1>4 DEF Deps!Linked, Simple!Linked
<1>6. Deps!Skip = Simple!Skip /\ \A path, what : Deps!Note(path, what) = Simple!Note(path, what)
  BY <1>1 DEF Deps!Skip, Deps!Note, Simple!Skip, Simple!Note
<1>7. \A text : Deps!Prose(text) = Simple!Prose(text)
  BY <1>1 DEF Deps!Prose, Simple!Prose
<1>8. \A file, why : Deps!Declined(file, why) = Simple!Declined(file, why)
  BY <1>2, <1>6 DEF Deps!Declined, Simple!Declined
<1>9. \A test, c : Deps!When(test, c) = Simple!When(test, c)
  BY <1>1 DEF Deps!When, Simple!When
<1> QED BY <1>1, <1>2, <1>3, <1>4, <1>5, <1>6, <1>7, <1>8, <1>9
LEMMA GoRow ==
    ASSUME NEW lines, Facts!IsRow(lines)
    PROVE  Facts!IsRow(Deps!GoMod(lines).deps)
<1> DEFINE Good(r) == r = [inside |-> r.inside, declares |-> r.declares, deps |-> r.deps] /\ Facts!IsRow(r.deps)
           base == [inside |-> FALSE, declares |-> Deps!None, deps |-> <<>>]
           end == FoldLeft(Deps!GoLine, base, lines)
<1>1. Len(lines) \in Nat /\ DOMAIN lines = 1..Len(lines)
  BY DEF Facts!IsRow
<1>2. Meets(Good, base)
  BY NoneIsRow DEF Meets
<1>3. ASSUME NEW r, Good(r), NEW line PROVE Good(Deps!GoLine(r, line))
  <2> DEFINE required == Append(r.deps, Deps!Dep(<<"", line.path>>, Deps!AsWritten(line.version), "runtime"))
  <2>1. Facts!IsRow(required)
    BY <1>3, AppendRow
  <2>2. Deps!GoLine(r, line) \in {r, [r EXCEPT !.inside = FALSE], [r EXCEPT !.deps = required],
                                  [r EXCEPT !.declares = Deps!Some(line.path)], [r EXCEPT !.inside = TRUE]}
    BY DEF Deps!GoLine
  <2> HIDE DEF required
  <2> QED BY <1>3, <2>1, <2>2
<1> HIDE DEF Good, base
<1>4. KeepsGood(Deps!GoLine, Good, lines)
  BY <1>3 DEF KeepsGood
<1>5. Meets(Good, end)
  BY <1>1, <1>2, <1>4, FoldLeftMeets
<1>6. Facts!IsRow(end.deps)
  <2> HIDE DEF end
  <2> QED BY <1>5 DEF Meets, Good
<1>7. Deps!GoMod(lines).deps = end.deps
  BY DepsFolds DEF Deps!GoMod, Deps!Read, base
<1> QED BY <1>6, <1>7
LEMMA PomRow ==
    ASSUME NEW events, Facts!IsRow(events), \A e \in ToSet(events) : e.ev \in {"start", "end", "text"}
    PROVE  Facts!IsRow(Deps!Pom(events).deps)
<1> DEFINE F == {"path", "deps", "own", "groupId", "artifactId", "version", "scope"}
           Good(r) == r = [f \in F |-> r[f]] /\ Facts!IsRow(r["deps"])
           end == FoldLeft(Deps!PomEvent, Deps!Opening, events)
<1>1. Len(events) \in Nat /\ DOMAIN events = 1..Len(events) /\ \A i \in 1..Len(events) : events[i].ev \in {"start", "end", "text"}
  BY DEF Facts!IsRow, ToSet
<1>2. Meets(Good, Deps!Opening)
  <2> DEFINE o == Deps!Opening
  <2>1. DOMAIN o = F /\ o["deps"] = <<>> /\ o = [f \in DOMAIN o |-> o[f]]
    BY DEF Deps!Opening
  <2> HIDE DEF o
  <2> QED BY <2>1, NoneIsRow DEF Meets, o
<1>3. ASSUME NEW r, Good(r), NEW name PROVE Good(Deps!Ended(r, name))
  <2> DEFINE dep == Deps!Dep(<<r.groupId, r.artifactId>>, Deps!AsWritten(r.version), Deps!ScopeOf(r.scope))
             more == Append(r["deps"], dep)
             p == Front(r["path"])
  <2>1. Facts!IsRow(more)
    BY <1>3, AppendRow
  <2>2. Deps!Ended(r, name) \in
           {[r EXCEPT !["path"] = Deps!Front(@)],
            [r EXCEPT !["path"] = Deps!Front(@), !["groupId"] = "", !["artifactId"] = "", !["version"] = "", !["scope"] = "",
                      !["deps"] = more]}
    BY <1>3 DEF Deps!Ended
  <2> HIDE DEF more
  <2> QED BY <1>3, <2>1, <2>2
<1>4. ASSUME NEW r, Good(r), NEW text PROVE Good(Deps!Texted(r, text))
  <2> DEFINE at == IF r.path = <<>> THEN "" ELSE Deps!Last(r.path)
  <2>1. \/ Deps!Texted(r, text) = r
        \/ Deps!Texted(r, text) \in {[r EXCEPT !["own"][1] = text], [r EXCEPT !["own"][2] = text]}
        \/ at \in {"groupId", "artifactId", "version", "scope"} /\ Deps!Texted(r, text) = [r EXCEPT ![at] = text]
    BY DEF Deps!Texted
  <2> HIDE DEF at
  <2> QED BY <1>4, <2>1
<1>5. ASSUME NEW r, Good(r), NEW e, e.ev \in {"start", "end", "text"} PROVE Good(Deps!PomEvent(r, e))
  <2>1. CASE e.ev = "start"
    <3>1. Deps!PomEvent(r, e) = [r EXCEPT !["path"] = Append(@, e.name)]
      BY <2>1 DEF Deps!PomEvent
    <3> QED BY <1>5, <3>1
  <2>2. CASE e.ev = "end"
    BY <1>3, <1>5, <2>2 DEF Deps!PomEvent
  <2>3. CASE e.ev = "text"
    BY <1>4, <1>5, <2>3 DEF Deps!PomEvent
  <2> QED BY <1>5, <2>1, <2>2, <2>3
<1> HIDE DEF Good
<1>6. KeepsGood(Deps!PomEvent, Good, events)
  BY <1>1, <1>5 DEF KeepsGood
<1>7. Meets(Good, end)
  BY <1>1, <1>2, <1>6, FoldLeftMeets
<1>8. Facts!IsRow(end.deps)
  <2> HIDE DEF end
  <2> QED BY <1>7 DEF Meets, Good
<1>9. Deps!Pom(events).deps = end.deps
  BY DepsFolds DEF Deps!Pom, Deps!Read
<1> QED BY <1>8, <1>9
LEMMA ManifestRow ==
    ASSUME NEW f, IsBuildFile(f), f.state # "unreadable"
    PROVE  Facts!IsRow(Deps!ReadManifest(f).deps)
<1> DEFINE c == f.content
<1>1. CASE f.kind = "package.json"
  <2> DEFINE a == Deps!ScopedTo("runtime", c.dependencies)
             b == Deps!ScopedTo("dev", c.devDependencies)
             d == Deps!ScopedTo("runtime", c.peerDependencies)
             e == Deps!ScopedTo("optional", c.optionalDependencies)
  <2>1. Facts!IsRow(a) /\ Facts!IsRow(b) /\ Facts!IsRow(d) /\ Facts!IsRow(e)
    BY <1>1, ScopedRow DEF IsBuildFile
  <2>2. Deps!ReadManifest(f).deps = a \o b \o d \o e
    BY <1>1 DEF Deps!ReadManifest, Deps!PackageJson, Deps!Read
  <2> HIDE DEF a, b, d, e
  <2>3. Facts!IsRow(a \o b)
    BY <2>1, ConcatRow
  <2>4. Facts!IsRow(a \o b \o d)
    BY <2>1, <2>3, ConcatRow
  <2>5. Facts!IsRow(a \o b \o d \o e)
    BY <2>1, <2>4, ConcatRow
  <2> QED BY <2>2, <2>5
<1>2. CASE f.kind = "go.mod"
  <2>1. Deps!ReadManifest(f) = Deps!GoMod(c) /\ Facts!IsRow(c)
    BY <1>2 DEF Deps!ReadManifest, IsBuildFile
  <2> QED BY <2>1, GoRow
<1>3. CASE f.kind = "requirements.txt"
  <2> DEFINE g == [i \in DOMAIN c |-> IF ~c[i].option THEN <<c[i]>> ELSE <<>>]
             specs == FlattenSeq(g)
  <2>1. Deps!ReadManifest(f).deps = Deps!RequirementsOf(specs, "runtime")
    BY <1>3, DepsFolds DEF Deps!ReadManifest, Deps!Requirements, Deps!Read, Deps!Filter
  <2>2. Passes(c, g) /\ Facts!IsRow(c)
    BY <1>3 DEF Passes, Over, IsBuildFile
  <2> HIDE DEF g
  <2>3. Facts!IsRow(specs)
    BY <2>2, FilterRow
  <2> HIDE DEF specs
  <2> QED BY <2>1, <2>3, RequirementsRow
<1>4. CASE f.kind = "pyproject.toml"
  <2> DEFINE g == [i \in DOMAIN c.poetry |-> IF c.poetry[i][1] # "python" THEN <<c.poetry[i]>> ELSE <<>>]
             pairs == FlattenSeq(g)
             specs == FlattenSeq(c.groups)
             x == Deps!RequirementsOf(c.dependencies, "runtime")
             y == Deps!RequirementsOf(specs, "optional")
             z == Deps!ScopedTo("runtime", pairs)
  <2>1. Deps!ReadManifest(f).deps = x \o y \o z
    BY <1>4, DepsFolds DEF Deps!ReadManifest, Deps!Pyproject, Deps!Read, Deps!Filter
  <2>2. Passes(c.poetry, g) /\ Facts!IsRow(c.poetry) /\ Facts!IsRow(c.dependencies) /\ Facts!IsRow(c.groups)
        /\ \A i \in DOMAIN c.groups : Facts!IsRow(c.groups[i])
    BY <1>4 DEF Passes, Over, IsBuildFile, ToSet
  <2> HIDE DEF g
  <2>3. Facts!IsRow(pairs)
    BY <2>2, FilterRow
  <2>4. Facts!IsRow(specs)
    BY <2>2, FlattenRow
  <2> HIDE DEF pairs, specs
  <2>5. Facts!IsRow(x) /\ Facts!IsRow(y) /\ Facts!IsRow(z)
    BY <2>2, <2>3, <2>4, RequirementsRow, ScopedRow
  <2> HIDE DEF x, y, z
  <2>6. Facts!IsRow(x \o y)
    BY <2>5, ConcatRow
  <2>7. Facts!IsRow(x \o y \o z)
    BY <2>5, <2>6, ConcatRow
  <2> QED BY <2>1, <2>7
<1>5. CASE f.kind = "pom.xml"
  <2>1. Deps!ReadManifest(f) = Deps!Pom(c) /\ Facts!IsRow(c) /\ \A e \in ToSet(c) : e.ev \in {"start", "end", "text"}
    BY <1>5 DEF Deps!ReadManifest, IsBuildFile
  <2> QED BY <2>1, PomRow
<1>6. CASE f.kind = "build.gradle"
  <2> DEFINE g == [i \in DOMAIN c |-> IF Deps!GradleScope(c[i].config) # "" /\ Len(c[i].spec) >= 2 THEN <<c[i]>> ELSE <<>>]
             written == FlattenSeq(g)
             d == Deps!ReadManifest(f).deps
  <2>1. DOMAIN d = DOMAIN written /\ d = [i \in DOMAIN d |-> d[i]]
    BY <1>6, DepsFolds DEF Deps!ReadManifest, Deps!Gradle, Deps!Read, Deps!Filter
  <2>2. Passes(c, g) /\ Facts!IsRow(c)
    BY <1>6 DEF Passes, Over, IsBuildFile
  <2> HIDE DEF g
  <2>3. Facts!IsRow(written)
    BY <2>2, FilterRow
  <2> HIDE DEF written, d
  <2> DEFINE n == Len(written)
  <2>4. n \in Nat /\ d = [i \in 1..n |-> d[i]]
    BY <2>1, <2>3 DEF Facts!IsRow
  <2> HIDE DEF n
  <2>5. Facts!IsRow(d)
    BY <2>4, MapRow
  <2> QED BY <2>5 DEF d
<1>7. CASE f.kind \in {"unknown", "unparsed"}
  <2>1. Deps!ReadManifest(f).deps = <<>>
    BY <1>7 DEF Deps!ReadManifest, Deps!Read
  <2> QED BY <2>1, NoneIsRow
<1> QED BY <1>1, <1>2, <1>3, <1>4, <1>5, <1>6, <1>7 DEF IsBuildFile

(* What a build file answers stands of itself. *)
LEMMA BuildFileStands ==
    ASSUME NEW f, IsBuildFile(f)
    PROVE  Stands("deps", {}, Deps!Process(f))
<1>0. "deps" \in Simples
  BY DEF Simples
<1>1. CASE f.state = "unreadable"
  <2>1. Deps!Process(f) = Simple!Declined(f, "unreadable")
    BY <1>1, DepsIsSimple DEF Deps!Process
  <2> QED BY <1>0, <2>1, DeclinedStands
<1>2. CASE f.state # "unreadable"
  <2> DEFINE read == Deps!ReadManifest(f)
             path == <<f.path>>
             n == [key |-> path, label |-> "Manifest", external |-> FALSE, declares |-> read.declares]
             g == [i \in DOMAIN read.deps |-> Deps!Declared(path, read.deps[i])]
             test == read.deps # <<>>
             note == Simple!Note(f.path, "declared dependencies")
             c1 == Simple!Mint(n)
             c2 == Simple!MergeAll(g)
             c3 == Simple!When(test, note)
             cs == <<c1, c2, c3>>
             K == {path}
             none == {}
  <2>1. Deps!Process(f) = Simple!MergeAll(cs)
    BY <1>2, DepsIsSimple DEF Deps!Process, Deps!Each
  <2>2. Facts!IsRow(cs) /\ ToSet(cs) = {c1, c2, c3}
    BY ThreeRow
  <2>3. n.key = path /\ n.label # "Image" /\ test \in BOOLEAN
    OBVIOUS
  <2>4. Facts!IsRow(read.deps)
    BY <1>2, ManifestRow
  <2> HIDE DEF n, cs, path, read, test
  <2>5. Stands("deps", none, c1) /\ KeysIn(c1) = K
    BY <1>0, <2>3, MintStands DEF OfImage
  <2>6. ASSUME NEW dep PROVE Stands("deps", K, Deps!Declared(path, dep))
    <3> DEFINE m == Deps!External(dep.key, "Package")
               e == [src |-> path, type |-> "DEPENDS_ON", dst |-> dep.key, by |-> dep.scope, version |-> dep.version]
    <3>1. m.key = dep.key /\ m.label # "Image" /\ e.src = path /\ e.dst = dep.key
      BY DEF Deps!External
    <3>2. Deps!Declared(path, dep) = Simple!Linked(m, e)
      BY DepsIsSimple DEF Deps!Declared
    <3> HIDE DEF m, e
    <3>3. {e.src, e.dst} \subseteq K \cup {m.key}
      BY <3>1
    <3> HIDE DEF K
    <3> QED BY <1>0, <3>1, <3>2, <3>3, LinkedOn DEF OfImage
  <2>7. Stands("deps", K, c2)
    <3>1. StandFor("deps", K, read.deps, g)
      BY <2>6 DEF StandFor, Over
    <3> HIDE DEF g
    <3> QED BY <1>0, <2>4, <3>1, EachOf
  <2>8. Stands("deps", none, c3)
    <3>1. Stands("deps", none, note)
      BY <1>0, RemarksStand
    <3> HIDE DEF note, none
    <3> QED BY <1>0, <2>3, <3>1, WhenStands
  <2> HIDE DEF c1, c2, c3
  <2>9. Stands("deps", none \cup K, c1) /\ Stands("deps", none \cup K, c2) /\ Stands("deps", none \cup K, c3)
    BY <2>5, <2>7, <2>8, StandsOn
  <2>10. StandIn("deps", none \cup K, cs) /\ K \subseteq UNION {KeysIn(x) : x \in ToSet(cs)}
    BY <2>2, <2>5, <2>9 DEF StandIn
  <2> HIDE DEF K, none
  <2>11. Stands("deps", none, Simple!MergeAll(cs))
    BY <1>0, <2>2, <2>10, AllStand
  <2> QED BY <2>1, <2>11 DEF none
<1> QED BY <1>1, <1>2
(* The plugin writes its output with the facade.                           *)
LEMMA TomlIsSimple ==
    /\ Toml!Nothing = Simple!Nothing /\ Toml!Skip = Simple!Skip
    /\ \A c, d : Toml!Merge(c, d) = Simple!Merge(c, d)
    /\ \A cs : Toml!MergeAll(cs) = Simple!MergeAll(cs)
    /\ \A n, e : Toml!Mint(n) = Simple!Mint(n) /\ Toml!Link(e) = Simple!Link(e) /\ Toml!Linked(n, e) = Simple!Linked(n, e)
    /\ \A path, what : Toml!Note(path, what) = Simple!Note(path, what)
    /\ \A text : Toml!Prose(text) = Simple!Prose(text)
    /\ \A file, why : Toml!Declined(file, why) = Simple!Declined(file, why)
    /\ \A test, c : Toml!When(test, c) = Simple!When(test, c)
<1>1. Toml!Nothing = Simple!Nothing
  BY DEF Toml!Nothing, Toml!Blank, Toml!Fields, Simple!Nothing, Simple!Blank, Simple!Fields
<1>2. \A c, d : Toml!Merge(c, d) = Simple!Merge(c, d)
  BY DEF Toml!Merge, Toml!JoinPartials, Simple!Merge, Simple!JoinPartials
<1>3. \A cs : Toml!MergeAll(cs) = Simple!MergeAll(cs)
  BY DEF Toml!MergeAll, Toml!FoldLeft, Toml!MapThenFoldSet, Toml!Max, Toml!Merge, Toml!JoinPartials,
         Toml!Nothing, Toml!Blank, Toml!Fields,
         Simple!MergeAll, Simple!FoldLeft, Simple!MapThenFoldSet, Simple!Max, Simple!Merge, Simple!JoinPartials,
         Simple!Nothing, Simple!Blank, Simple!Fields
<1>4. \A n, e : Toml!Mint(n) = Simple!Mint(n) /\ Toml!Link(e) = Simple!Link(e)
  BY <1>1 DEF Toml!Mint, Toml!Link, Simple!Mint, Simple!Link
<1>5. \A n, e : Toml!Linked(n, e) = Simple!Linked(n, e)
  BY <1>2, <1>4 DEF Toml!Linked, Simple!Linked
<1>6. Toml!Skip = Simple!Skip /\ \A path, what : Toml!Note(path, what) = Simple!Note(path, what)
  BY <1>1 DEF Toml!Skip, Toml!Note, Simple!Skip, Simple!Note
<1>7. \A text : Toml!Prose(text) = Simple!Prose(text)
  BY <1>1 DEF Toml!Prose, Simple!Prose
<1>8. \A file, why : Toml!Declined(file, why) = Simple!Declined(file, why)
  BY <1>2, <1>6 DEF Toml!Declined, Simple!Declined
<1>9. \A test, c : Toml!When(test, c) = Simple!When(test, c)
  BY <1>1 DEF Toml!When, Simple!When
<1> QED BY <1>1, <1>2, <1>3, <1>4, <1>5, <1>6, <1>7, <1>8, <1>9
(***************************************************************************)
(* The TOML plugin: of the tables an item holds, each stands in another of *)
(* them, or where the item does.  By how deeply the item is nested.        *)
(***************************************************************************)
LEMMA ItemIs ==
    \A n \in 0..Nesting :
        Toml!Item[n] = IF n = 0 THEN {}
                       ELSE [name : STRING, is : {"value", "table"}, tables : Seq(Toml!Item[n - 1])]
                            \cup [name : STRING, is : {"array"}, tables : Seq(Seq(Toml!Item[n - 1]))]
<1> DEFINE Def(v, n) == [name : STRING, is : {"value", "table"}, tables : Seq(v)]
                        \cup [name : STRING, is : {"array"}, tables : Seq(Seq(v))]
           f == CHOOSE f : f = [n \in 0..Nesting |-> IF n = 0 THEN {} ELSE Def(f[n - 1], n)]
<1>1. Toml!Item = f
  BY DEF Toml!Item
<1>2. FiniteNatInductiveDefHypothesis(f, {}, Def, 0, Nesting)
  BY DEF FiniteNatInductiveDefHypothesis
<1> HIDE DEF f, Def
<1>3. FiniteNatInductiveDefConclusion(f, {}, Def, 0, Nesting)
  BY <1>2, NestingAssumption, FiniteNatInductiveDef
<1>4. f = [n \in 0..Nesting |-> IF n = 0 THEN {} ELSE Def(f[n - 1], n)]
  BY <1>3 DEF FiniteNatInductiveDefConclusion
<1> QED BY <1>1, <1>4 DEF Def

(* What the tables of an item are, by those of the items in it.            *)
InTable(key, inner) == [j \in DOMAIN inner |-> [key |-> key \o inner[j].key, above |-> key \o inner[j].above]]
TableRows(below, key, items) ==
    <<[key |-> key, above |-> <<>>]>>
    \o FlattenSeq([i \in DOMAIN items |-> InTable(key, below[items[i]])])
ItemRows(below, item) ==
    CASE item.is = "value" -> <<>>
      [] item.is = "table" -> TableRows(below, <<item.name>>, item.tables)
      [] item.is = "array" ->
            FlattenSeq([i \in DOMAIN item.tables |->
                           TableRows(below, <<item.name, Toml!ToString(i - 1)>>, item.tables[i])])
LEMMA TablesIs ==
    \A n \in 0..Nesting :
        Toml!Tables[n] = IF n = 0 THEN <<>> ELSE [item \in Toml!Item[n] |-> ItemRows(Toml!Tables[n - 1], item)]
<1> DEFINE Def(v, n) == [item \in Toml!Item[n] |-> ItemRows(v, item)]
           f == CHOOSE f : f = [n \in 0..Nesting |-> IF n = 0 THEN <<>> ELSE Def(f[n - 1], n)]
<1>1. Toml!Tables = f
  BY DEF Toml!Tables, ItemRows, TableRows, InTable, Toml!FlattenSeq, FlattenSeq
<1>2. FiniteNatInductiveDefHypothesis(f, <<>>, Def, 0, Nesting)
  BY DEF FiniteNatInductiveDefHypothesis
<1> HIDE DEF f, Def
<1>3. FiniteNatInductiveDefConclusion(f, <<>>, Def, 0, Nesting)
  BY <1>2, NestingAssumption, FiniteNatInductiveDef
<1>4. f = [n \in 0..Nesting |-> IF n = 0 THEN <<>> ELSE Def(f[n - 1], n)]
  BY <1>3 DEF FiniteNatInductiveDefConclusion
<1> QED BY <1>1, <1>4 DEF Def
(* Every table listed stands in one that is listed, or in one of K.        *)
Covered(K, t) == Facts!IsRow(t) /\ \A x \in ToSet(t) : x.above \in K \cup {y.key : y \in ToSet(t)}
LEMMA InTableCovered ==
    ASSUME NEW key, Facts!IsRow(key), NEW inner, Covered({<<>>}, inner)
    PROVE  Covered({key}, InTable(key, inner))
<1> DEFINE n == Len(inner)
           g == InTable(key, inner)
<1>1. n \in Nat /\ DOMAIN inner = 1..n
  BY DEF Covered, Facts!IsRow
<1>2. g = [i \in 1..n |-> g[i]] /\ \A i \in 1..n : g[i].key = key \o inner[i].key /\ g[i].above = key \o inner[i].above
  BY <1>1 DEF InTable
<1> HIDE DEF n, g
<1>3. Facts!IsRow(g) /\ ToSet(g) = {g[i] : i \in 1..n}
  BY <1>1, <1>2, MapRow
<1>4. key \o <<>> = key
  BY RowsJoin
<1>5. ToSet(inner) = {inner[i] : i \in 1..n}
  BY <1>1 DEF ToSet
<1>6. ASSUME NEW i \in 1..n PROVE g[i].above \in {key} \cup {y.key : y \in ToSet(g)}
  <2>1. inner[i].above \in {<<>>} \cup {y.key : y \in ToSet(inner)}
    BY <1>5 DEF Covered
  <2>2. CASE inner[i].above = <<>>
    BY <1>2, <1>4, <2>2
  <2>3. CASE \E j \in 1..n : inner[i].above = inner[j].key
    BY <1>2, <1>3, <2>3
  <2> QED BY <1>5, <2>1, <2>2, <2>3
<1> QED BY <1>3, <1>6 DEF Covered, g
LEMMA FlattenCovered ==
    ASSUME NEW K, NEW ss, Facts!IsRow(ss), \A i \in DOMAIN ss : Covered(K, ss[i])
    PROVE  Covered(K, FlattenSeq(ss))
<1>1. \A i \in DOMAIN ss : Facts!IsRow(ss[i])
  BY DEF Covered
<1>2. Facts!IsRow(FlattenSeq(ss)) /\ ToSet(FlattenSeq(ss)) = UNION {ToSet(ss[i]) : i \in DOMAIN ss}
  BY <1>1, FlattenRow
<1> DEFINE f == FlattenSeq(ss)
<1> HIDE DEF f
<1>3. ASSUME NEW x \in ToSet(f) PROVE x.above \in K \cup {y.key : y \in ToSet(f)}
  <2>1. PICK i \in DOMAIN ss : x \in ToSet(ss[i])
    BY <1>2 DEF f
  <2>2. x.above \in K \cup {y.key : y \in ToSet(ss[i])}
    BY <2>1 DEF Covered
  <2>3. ToSet(ss[i]) \subseteq ToSet(f)
    BY <1>2 DEF f
  <2> QED BY <2>2, <2>3
<1> QED BY <1>2, <1>3 DEF Covered, f
LEMMA TableRowsCovered ==
    ASSUME NEW below, NEW key, Facts!IsRow(key), NEW items, Facts!IsRow(items),
           \A i \in DOMAIN items : Covered({<<>>}, below[items[i]])
    PROVE  Covered({<<>>}, TableRows(below, key, items))
<1> DEFINE x == [key |-> key, above |-> <<>>]
           s == <<x>>
           g == [i \in DOMAIN items |-> InTable(key, below[items[i]])]
           t == FlattenSeq(g)
           n == Len(items)
<1>1. n \in Nat /\ DOMAIN items = 1..n /\ DOMAIN g = 1..n /\ g = [i \in 1..n |-> g[i]]
  BY DEF Facts!IsRow
<1>2. \A i \in DOMAIN g : Covered({key}, g[i])
  BY InTableCovered
<1>3. TableRows(below, key, items) = s \o t
  BY DEF TableRows
<1>4. x.key = key /\ x.above = <<>>
  OBVIOUS
<1> HIDE DEF x
<1>5. Facts!IsRow(s) /\ ToSet(s) = {x}
  BY OneRow
<1> HIDE DEF g, n, s
<1>6. Facts!IsRow(g)
  BY <1>1, MapRow
<1>7. Covered({key}, t)
  BY <1>2, <1>6, FlattenCovered
<1> HIDE DEF t
<1>8. Facts!IsRow(s \o t) /\ ToSet(s \o t) = ToSet(s) \cup ToSet(t)
  BY <1>5, <1>7, ConcatRow DEF Covered
<1>9. \A y \in ToSet(s \o t) : y.above \in {<<>>} \cup {z.key : z \in ToSet(s \o t)}
  BY <1>4, <1>5, <1>7, <1>8 DEF Covered
<1> QED BY <1>3, <1>8, <1>9 DEF Covered
(* So does what an item holds, by how deeply it is nested.                 *)
LEMMA ItemRowsCovered ==
    ASSUME NEW n \in 1..Nesting, \A x \in Toml!Item[n - 1] : Covered({<<>>}, Toml!Tables[n - 1][x]),
           NEW item \in Toml!Item[n]
    PROVE  Covered({<<>>}, ItemRows(Toml!Tables[n - 1], item))
<1> DEFINE below == Toml!Tables[n - 1]
           inner == Toml!Item[n - 1]
<1> SUFFICES Covered({<<>>}, ItemRows(below, item))
  OBVIOUS
<1>1. item \in [name : STRING, is : {"value", "table"}, tables : Seq(inner)]
               \cup [name : STRING, is : {"array"}, tables : Seq(Seq(inner))]
  <2>1. n \in 0..Nesting /\ n # 0
    BY NestingAssumption
  <2> QED BY <2>1, ItemIs
<1>2. \A x \in inner : Covered({<<>>}, below[x])
  OBVIOUS
<1> HIDE DEF below, inner
<1>3. ASSUME NEW key, Facts!IsRow(key), NEW items \in Seq(inner) PROVE Covered({<<>>}, TableRows(below, key, items))
  <2>1. Facts!IsRow(items)
    BY SeqIsRow
  <2>2. \A i \in DOMAIN items : items[i] \in inner
    OBVIOUS
  <2>3. \A i \in DOMAIN items : Covered({<<>>}, below[items[i]])
    BY <1>2, <2>2
  <2> QED BY <1>3, <2>1, <2>3, TableRowsCovered
<1>4. CASE item.is = "value"
  <2>1. ItemRows(below, item) = <<>> /\ ToSet(<<>>) = {}
    BY <1>4 DEF ItemRows, ToSet
  <2> QED BY <2>1, NoneIsRow DEF Covered
<1>5. CASE item.is = "table"
  <2>1. ItemRows(below, item) = TableRows(below, <<item.name>>, item.tables)
    BY <1>5 DEF ItemRows
  <2>2. item.tables \in Seq(inner)
    BY <1>1, <1>5
  <2>3. Facts!IsRow(<<item.name>>)
    BY OneRow
  <2> QED BY <1>3, <2>1, <2>2, <2>3
<1>6. CASE item.is = "array"
  <2> DEFINE m == Len(item.tables)
             g == [i \in DOMAIN item.tables |-> TableRows(below, <<item.name, Toml!ToString(i - 1)>>, item.tables[i])]
  <2>1. ItemRows(below, item) = FlattenSeq(g)
    BY <1>6 DEF ItemRows
  <2>2. item.tables \in Seq(Seq(inner))
    BY <1>1, <1>6
  <2>3. m \in Nat /\ DOMAIN item.tables = 1..m /\ DOMAIN g = 1..m /\ g = [i \in 1..m |-> g[i]]
    BY <2>2
  <2>4. ASSUME NEW i \in DOMAIN g PROVE Covered({<<>>}, g[i])
    <3> DEFINE key == <<item.name, Toml!ToString(i - 1)>>
               items == item.tables[i]
    <3>1. items \in Seq(inner) /\ g[i] = TableRows(below, key, items)
      BY <2>2, <2>3
    <3>2. Facts!IsRow(key)
      BY TwoRow
    <3> HIDE DEF key, items, g
    <3> QED BY <1>3, <3>1, <3>2
  <2> HIDE DEF g, m
  <2>5. Facts!IsRow(g)
    BY <2>3, MapRow
  <2> QED BY <2>1, <2>4, <2>5, FlattenCovered
<1>7. item.is \in {"value", "table", "array"}
  BY <1>1
<1> QED BY <1>4, <1>5, <1>6, <1>7
LEMMA TablesCovered == \A item \in Toml!Item[Nesting] : Covered({<<>>}, Toml!Tables[Nesting][item])
<1> DEFINE Good(n) == \A item \in Toml!Item[n] : Covered({<<>>}, Toml!Tables[n][item])
           S == {n \in Nat : n <= Nesting => Good(n)}
<1>1. 0 \in S
  <2>1. Toml!Item[0] = {}
    <3>1. 0 \in 0..Nesting
      BY NestingAssumption
    <3> QED BY <3>1, ItemIs
  <2> QED BY <2>1
<1>2. ASSUME NEW n \in Nat, n \in S PROVE n + 1 \in S
  <2> SUFFICES ASSUME n + 1 <= Nesting PROVE Good(n + 1)
    BY NestingAssumption
  <2>1. n + 1 \in 1..Nesting /\ n + 1 \in 0..Nesting /\ n + 1 # 0 /\ (n + 1) - 1 = n /\ n <= Nesting
    BY NestingAssumption
  <2>2. \A x \in Toml!Item[n] : Covered({<<>>}, Toml!Tables[n][x])
    BY <1>2, <2>1
  <2>3. \A item \in Toml!Item[n + 1] : Covered({<<>>}, ItemRows(Toml!Tables[n], item))
    BY <2>1, <2>2, ItemRowsCovered
  <2>4. \A item \in Toml!Item[n + 1] : Toml!Tables[n + 1][item] = ItemRows(Toml!Tables[n], item)
    <3>1. Toml!Tables[n + 1] = [item \in Toml!Item[n + 1] |-> ItemRows(Toml!Tables[(n + 1) - 1], item)]
      BY <2>1, TablesIs
    <3> QED BY <2>1, <3>1
  <2> QED BY <2>3, <2>4
<1> HIDE DEF S
<1>3. Nesting \in S
  BY <1>1, <1>2, CountingUp, NestingAssumption
<1> QED BY <1>3, NestingAssumption DEF S

(* The tables of an item need the node they stand in.                      *)
LEMMA WalkStands ==
    ASSUME NEW parent, Facts!IsRow(parent), NEW item \in Toml!Item[Nesting]
    PROVE  Stands("toml", {parent}, Toml!Walk(parent, item))
<1> DEFINE t == Toml!Tables[Nesting][item]
           One(x) == Toml!Linked(Toml!Node(parent \o x.key, "Table"),
                                 Toml!Edge(parent \o x.above, "CONTAINS", parent \o x.key))
           cs == [i \in DOMAIN t |-> One(t[i])]
           n == Len(t)
           need == {parent}
           K == {parent \o y.key : y \in ToSet(t)}
<1>0. "toml" \in Simples
  BY DEF Simples
<1>1. Covered({<<>>}, t)
  BY TablesCovered
<1>2. n \in Nat /\ DOMAIN t = 1..n /\ cs = [i \in 1..n |-> cs[i]] /\ \A i \in 1..n : cs[i] = One(t[i])
  BY <1>1 DEF Covered, Facts!IsRow
<1>3. Toml!Walk(parent, item) = Simple!MergeAll(cs)
  BY TomlIsSimple DEF Toml!Walk, Toml!Each
<1>4. parent \o <<>> = parent
  BY RowsJoin
<1>5. ASSUME NEW x \in ToSet(t) PROVE Stands("toml", need \cup K, One(x)) /\ KeysIn(One(x)) = {parent \o x.key}
  <2> DEFINE m == Toml!Node(parent \o x.key, "Table")
             e == Toml!Edge(parent \o x.above, "CONTAINS", parent \o x.key)
  <2>1. m.key = parent \o x.key /\ m.label # "Image" /\ e.src = parent \o x.above /\ e.dst = parent \o x.key
    BY DEF Toml!Node, Toml!Edge
  <2>2. One(x) = Simple!Linked(m, e)
    BY TomlIsSimple
  <2>3. parent \o x.above \in need \cup K
    <3>1. x.above = <<>> \/ \E y \in ToSet(t) : x.above = y.key
      BY <1>1 DEF Covered
    <3> QED BY <1>4, <3>1
  <2> HIDE DEF m, e, One
  <2> DEFINE listed == need \cup K
  <2>4. {e.src, e.dst} \subseteq listed \cup {m.key}
    BY <2>1, <2>3
  <2> HIDE DEF listed
  <2>5. Stands("toml", listed, Simple!Linked(m, e)) /\ KeysIn(Simple!Linked(m, e)) = {m.key}
    BY <1>0, <2>1, <2>4, LinkedOn DEF OfImage
  <2> QED BY <2>1, <2>2, <2>5 DEF listed
<1> HIDE DEF cs, n, One
<1>6. Facts!IsRow(cs) /\ ToSet(cs) = {cs[i] : i \in 1..n}
  BY <1>2, MapRow
<1>7. ToSet(t) = {t[i] : i \in 1..n}
  BY <1>2 DEF ToSet
<1>8. StandIn("toml", need \cup K, cs)
  <2> HIDE DEF K
  <2> QED BY <1>2, <1>5, <1>6, <1>7 DEF StandIn
<1>9. K \subseteq UNION {KeysIn(x) : x \in ToSet(cs)}
  <2> SUFFICES ASSUME NEW y \in ToSet(t) PROVE \E x \in ToSet(cs) : parent \o y.key \in KeysIn(x)
    OBVIOUS
  <2>1. PICK i \in 1..n : y = t[i]
    BY <1>7
  <2>2. KeysIn(cs[i]) = {parent \o y.key} /\ cs[i] \in ToSet(cs)
    <3> HIDE DEF K
    <3> QED BY <1>2, <1>5, <1>6, <2>1
  <2> QED BY <2>2
<1> HIDE DEF K, need, t
<1>10. Stands("toml", need, Simple!MergeAll(cs))
  BY <1>0, <1>6, <1>8, <1>9, AllStand
<1> QED BY <1>3, <1>10 DEF need
LEMMA TomlStands ==
    ASSUME NEW f, IsTables(f)
    PROVE  Stands("toml", {}, Toml!Process(f))
<1> DEFINE key == <<f.path>>
           n == Toml!Node(key, "Manifest")
           c == Simple!Mint(n)
           none == {}
<1>0. "toml" \in Simples
  BY DEF Simples
<1>1. n.key = key /\ n.label # "Image" /\ Facts!IsRow(key)
  BY OneRow DEF Toml!Node
<1>2. CASE f.state = "unreadable"
  <2>1. Toml!Process(f) = Simple!Declined(f, "unreadable")
    BY <1>2, TomlIsSimple DEF Toml!Process
  <2> QED BY <1>0, <2>1, DeclinedStands
<1>3. CASE f.state = "invalid"
  <2> DEFINE d == Simple!Note(f.path, "invalid")
  <2>1. Toml!Process(f) = Simple!Merge(c, d)
    BY <1>3, TomlIsSimple DEF Toml!Process
  <2>2. Stands("toml", none, d)
    BY <1>0, RemarksStand
  <2> HIDE DEF d, n, key
  <2>3. Stands("toml", none, c)
    BY <1>0, <1>1, MintStands DEF OfImage
  <2> HIDE DEF c
  <2>4. Stands("toml", none \cup KeysIn(c) \cup KeysIn(d), c) /\ Stands("toml", none \cup KeysIn(c) \cup KeysIn(d), d)
    BY <2>2, <2>3, StandsOn
  <2> HIDE DEF none
  <2>5. Stands("toml", none, Simple!Merge(c, d))
    BY <1>0, <2>4, MergeStands
  <2> QED BY <2>1, <2>5 DEF none
<1>4. CASE f.state = "read"
  <2> DEFINE g == [i \in DOMAIN f.tables |-> Toml!Walk(key, f.tables[i])]
             d == Simple!MergeAll(g)
             need == {key}
  <2>1. Toml!Process(f) = Simple!Merge(c, d)
    BY <1>4, TomlIsSimple DEF Toml!Process
  <2>2. Facts!IsRow(f.tables) /\ \A i \in DOMAIN f.tables : f.tables[i] \in Toml!Item[Nesting]
    BY <1>4 DEF IsTables, ToSet
  <2> HIDE DEF n, key
  <2>3. StandFor("toml", need, f.tables, g)
    BY <1>1, <2>2, WalkStands DEF StandFor, Over
  <2> HIDE DEF g, need
  <2>4. Stands("toml", need, d)
    BY <1>0, <2>2, <2>3, EachOf
  <2>5. Stands("toml", none, c) /\ KeysIn(c) = need
    BY <1>0, <1>1, MintStands DEF need, OfImage
  <2> HIDE DEF c, d
  <2>6. Stands("toml", none \cup KeysIn(c) \cup KeysIn(d), c) /\ Stands("toml", none \cup KeysIn(c) \cup KeysIn(d), d)
    BY <2>4, <2>5, StandsOn
  <2> HIDE DEF none
  <2>7. Stands("toml", none, Simple!Merge(c, d))
    BY <1>0, <2>6, MergeStands
  <2> QED BY <2>1, <2>7 DEF none
<1> QED BY <1>2, <1>3, <1>4 DEF IsTables
----------------------------------------------------------------------------
(***************************************************************************)
(* The XML plugin: what a name stands for in a statement's SQL is a table  *)
(* of that statement.                                                      *)
(***************************************************************************)
Passing(Test(_), seq) == \E i \in 1..Len(seq) : Test(seq[i])
IsPassing(Test(_), seq, n) == n \in 1..Len(seq) /\ Test(seq[n])
(* The first place that passes is one of those that do. *)
LEMMA SelectedPasses ==
    ASSUME NEW seq, Len(seq) \in Nat, NEW Test(_), Passing(Test, seq)
    PROVE  IsPassing(Test, seq, SelectInSeq(seq, Test))
<1> DEFINE I == {j \in 1..Len(seq) : Test(seq[j])}
<1>1. I # {} /\ I \subseteq Nat
  BY DEF Passing
<1>2. SelectInSeq(seq, Test) = Min(I)
  BY <1>1 DEF SelectInSeq
<1>3. Min(I) \in I
  <2> HIDE DEF I
  <2>1. PICK n \in I : \A m \in I : n <= m
    BY <1>1, LeastNumber
  <2> QED BY <2>1 DEF Min
<1> QED BY <1>2, <1>3 DEF IsPassing

TablesIn(tables) == {t[1] : t \in ToSet(tables)}
IsScan(scan) ==
    /\ scan = [tables |-> scan.tables, names |-> scan.names, interpolated |-> scan.interpolated, quotedIds |-> scan.quotedIds]
    /\ Facts!IsRow(scan.tables) /\ Facts!IsRow(scan.names)
    /\ \A x \in ToSet(scan.names) : x[2] \in TablesIn(scan.tables)
LEMMA MarkedStands ==
    ASSUME NEW scan, IsScan(scan), NEW v
    PROVE  IsScan([scan EXCEPT !.interpolated = v]) /\ IsScan([scan EXCEPT !.quotedIds = v])
<1> DEFINE q == [scan EXCEPT !.interpolated = v]
           r == [scan EXCEPT !.quotedIds = v]
<1>1. q = [tables |-> scan.tables, names |-> scan.names, interpolated |-> v, quotedIds |-> scan.quotedIds]
  BY DEF IsScan
<1>2. r = [tables |-> scan.tables, names |-> scan.names, interpolated |-> scan.interpolated, quotedIds |-> v]
  BY DEF IsScan
<1> HIDE DEF q, r
<1>3. IsScan(q) /\ IsScan(r)
  BY <1>1, <1>2 DEF IsScan
<1> QED BY <1>3 DEF q, r
LEMMA RememberStands ==
    ASSUME NEW names, Facts!IsRow(names), NEW name, NEW table
    PROVE  /\ Facts!IsRow(Xml!Remember(names, name, table))
           /\ \A x \in ToSet(Xml!Remember(names, name, table)) : x \in ToSet(names) \/ x[2] = table
<1> DEFINE one == <<name, table>>
<1>1. Facts!IsRow(Append(names, one)) /\ ToSet(Append(names, one)) = ToSet(names) \cup {one}
  BY AppendRow
<1>2. one[2] = table
  OBVIOUS
<1>3. Xml!Remember(names, name, table) \in {names, Append(names, one)}
  BY DEF Xml!Remember
<1> HIDE DEF one
<1> QED BY <1>1, <1>2, <1>3
LEMMA TableStands ==
    ASSUME NEW scan, IsScan(scan), NEW table, NEW access
    PROVE  IsScan(Xml!Table(scan, table, access)) /\ table \in TablesIn(Xml!Table(scan, table, access).tables)
<1> DEFINE one == <<table, access>>
           tables == IF Xml!Contains(scan.tables, one) THEN scan.tables ELSE Append(scan.tables, one)
           names == Xml!Remember(scan.names, table, table)
           r == Xml!Table(scan, table, access)
<1>1. Facts!IsRow(tables) /\ ToSet(scan.tables) \cup {one} \subseteq ToSet(tables)
  <2>1. CASE Xml!Contains(scan.tables, one)
    BY <2>1 DEF Xml!Contains, IsScan, Facts!IsRow, ToSet
  <2>2. CASE ~Xml!Contains(scan.tables, one)
    BY <2>2, AppendRow DEF IsScan
  <2> QED BY <2>1, <2>2
<1>2. Facts!IsRow(names) /\ \A x \in ToSet(names) : x \in ToSet(scan.names) \/ x[2] = table
  BY RememberStands DEF IsScan
<1>3. one[1] = table
  OBVIOUS
<1>4. /\ r = [tables |-> r.tables, names |-> r.names, interpolated |-> r.interpolated, quotedIds |-> r.quotedIds]
      /\ r.tables = tables /\ r.names = names
  <2> HIDE DEF tables, names
  <2> DEFINE t == tables
             n == names
  <2>1. r = [scan EXCEPT !.tables = t, !.names = n]
    BY DEF Xml!Table, tables, names, IsScan
  <2> HIDE DEF t, n, r
  <2>2. DOMAIN scan = {"tables", "names", "interpolated", "quotedIds"}
    BY DEF IsScan
  <2>3. r.tables = t /\ r.names = n /\ r.interpolated = scan.interpolated /\ r.quotedIds = scan.quotedIds
    BY <2>1, <2>2
  <2>4. r = [tables |-> t, names |-> n, interpolated |-> scan.interpolated, quotedIds |-> scan.quotedIds]
    BY <2>1 DEF IsScan
  <2> QED BY <2>3, <2>4 DEF t, n
<1> HIDE DEF tables, names, one, r
<1>5. table \in TablesIn(tables) /\ TablesIn(scan.tables) \subseteq TablesIn(tables)
  BY <1>1, <1>3 DEF TablesIn
<1> QED BY <1>1, <1>2, <1>4, <1>5 DEF IsScan, r
LEMMA AliasedStands ==
    ASSUME NEW toks, NEW i, NEW scan, IsScan(scan), NEW table, table \in TablesIn(scan.tables)
    PROVE  IsScan(Xml!Aliased(toks, i, table, scan)[2])
<1> DEFINE at == IF Xml!IsWord(toks, i, "as") THEN i + 1 ELSE i
           n == Xml!Remember(scan.names, toks[at].word, table)
           r == Xml!Aliased(toks, i, table, scan)[2]
<1>1. r = scan \/ r = [scan EXCEPT !.names = n]
  BY DEF Xml!Aliased
<1>2. Facts!IsRow(n) /\ \A x \in ToSet(n) : x \in ToSet(scan.names) \/ x[2] = table
  BY RememberStands DEF IsScan
<1> HIDE DEF n, r
<1>3. ASSUME r = [scan EXCEPT !.names = n] PROVE IsScan(r)
  <2>1. r = [tables |-> scan.tables, names |-> n, interpolated |-> scan.interpolated, quotedIds |-> scan.quotedIds]
    BY <1>3 DEF IsScan
  <2> QED BY <1>2, <2>1 DEF IsScan
<1> QED BY <1>1, <1>3 DEF r

(* So it is of a list of tables, and of a walk over all of them.           *)
IsTurn(s) == s = [at |-> s.at, writing |-> s.writing, more |-> s.more, scan |-> s.scan] /\ IsScan(s.scan)
LEMMA MovedStands ==
    ASSUME NEW s, IsTurn(s), NEW i, NEW v
    PROVE  /\ IsTurn([s EXCEPT !.writing = v])
           /\ IsTurn([s EXCEPT !.at = i, !.more = v])
           /\ IsTurn([s EXCEPT !.more = v])
           /\ IsTurn([s EXCEPT !.at = i, !.writing = v])
<1> DEFINE a == s.at
           w == s.writing
           m == s.more
           scan == s.scan
<1>1. s = [at |-> a, writing |-> w, more |-> m, scan |-> scan] /\ IsScan(scan)
  BY DEF IsTurn
<1> HIDE DEF a, w, m, scan
<1> DEFINE r == [at |-> a, writing |-> w, more |-> m, scan |-> scan]
<1>2. /\ [r EXCEPT !.writing = v] = [at |-> a, writing |-> v, more |-> m, scan |-> scan]
      /\ [r EXCEPT !.more = v] = [at |-> a, writing |-> w, more |-> v, scan |-> scan]
  OBVIOUS
<1> DEFINE q == [at |-> i, writing |-> w, more |-> m, scan |-> scan]
<1>4. [r EXCEPT !.at = i] = q
  OBVIOUS
<1>5. /\ [q EXCEPT !.more = v] = [at |-> i, writing |-> w, more |-> v, scan |-> scan]
      /\ [q EXCEPT !.writing = v] = [at |-> i, writing |-> v, more |-> m, scan |-> scan]
  OBVIOUS
<1>6. /\ [r EXCEPT !.at = i, !.more = v] = [[r EXCEPT !.at = i] EXCEPT !.more = v]
      /\ [r EXCEPT !.at = i, !.writing = v] = [[r EXCEPT !.at = i] EXCEPT !.writing = v]
  OBVIOUS
<1>3. \A at, writing, more : IsTurn([at |-> at, writing |-> writing, more |-> more, scan |-> scan])
  BY <1>1 DEF IsTurn
<1>7. s = r
  BY <1>1
<1> HIDE DEF r, q
<1>8. /\ [s EXCEPT !.writing = v] = [at |-> a, writing |-> v, more |-> m, scan |-> scan]
      /\ [s EXCEPT !.more = v] = [at |-> a, writing |-> w, more |-> v, scan |-> scan]
  BY <1>2, <1>7
<1>9. /\ [s EXCEPT !.at = i, !.more = v] = [at |-> i, writing |-> w, more |-> v, scan |-> scan]
      /\ [s EXCEPT !.at = i, !.writing = v] = [at |-> i, writing |-> v, more |-> m, scan |-> scan]
  BY <1>4, <1>5, <1>6, <1>7
<1> QED BY <1>3, <1>8, <1>9
LEMMA BehindStands ==
    ASSUME NEW s, IsTurn(s), NEW i, NEW scan, IsScan(scan), NEW v
    PROVE  IsTurn([s EXCEPT !.at = i, !.scan = scan, !.more = v])
<1> DEFINE a == s.at
           w == s.writing
           m == s.more
           c == s.scan
<1>1. s = [at |-> a, writing |-> w, more |-> m, scan |-> c]
  BY DEF IsTurn
<1> HIDE DEF a, w, m, c
<1> DEFINE r == [at |-> a, writing |-> w, more |-> m, scan |-> c]
<1> DEFINE q == [at |-> i, writing |-> w, more |-> m, scan |-> c]
           p == [at |-> i, writing |-> w, more |-> m, scan |-> scan]
<1>2. /\ [r EXCEPT !.at = i] = q /\ [q EXCEPT !.scan = scan] = p
      /\ [p EXCEPT !.more = v] = [at |-> i, writing |-> w, more |-> v, scan |-> scan]
  OBVIOUS
<1>4. [r EXCEPT !.at = i, !.scan = scan, !.more = v] = [[[r EXCEPT !.at = i] EXCEPT !.scan = scan] EXCEPT !.more = v]
  OBVIOUS
<1>3. s = r
  BY <1>1
<1> HIDE DEF r, q, p
<1> QED BY <1>2, <1>3, <1>4 DEF IsTurn
LEMMA OneTableStands ==
    ASSUME NEW toks, NEW access, NEW s, IsTurn(s)
    PROVE  IsTurn(Xml!OneTable(toks, access, s))
<1> DEFINE i == s.at
           word == toks[i].word
           q == [s.scan EXCEPT !.quotedIds = @ \/ Xml!Kind(toks, i) = "quoted"]
           h == [s.scan EXCEPT !.interpolated = TRUE]
           t == Xml!Table(q, word, access)
           a == Xml!Aliased(toks, i + 1, word, t)
           b == <<i + 1, h>>
           C(next) == Xml!Kind(toks, next[1]) = "comma"
           Behind(next) == [s EXCEPT !.at = IF C(next) THEN next[1] + 1 ELSE next[1], !.scan = next[2], !.more = C(next)]
           r == Xml!OneTable(toks, access, s)
<1>1. IsScan(q) /\ IsScan(h)
  <2> DEFINE v == s.scan.quotedIds \/ Xml!Kind(toks, i) = "quoted"
             w == TRUE
             scan == s.scan
  <2>1. q = [scan EXCEPT !.quotedIds = v] /\ h = [scan EXCEPT !.interpolated = w] /\ IsScan(scan)
    BY DEF IsTurn
  <2> HIDE DEF v, w, scan, q, h
  <2> QED BY <2>1, MarkedStands
<1> HIDE DEF q, h
<1>2. IsScan(t) /\ word \in TablesIn(t.tables)
  BY <1>1, TableStands
<1> HIDE DEF t, word
<1>3. IsScan(a[2]) /\ IsScan(b[2])
  BY <1>1, <1>2, AliasedStands
<1>4. \/ r = s \/ r = [s EXCEPT !.at = i + 1, !.more = FALSE] \/ r = [s EXCEPT !.more = FALSE]
      \/ r = Behind(b) \/ r = Behind(a)
  BY DEF Xml!OneTable, q, h, t, word
<1> HIDE DEF a, b, r
<1>5. ASSUME r = s \/ r = [s EXCEPT !.at = i + 1, !.more = FALSE] \/ r = [s EXCEPT !.more = FALSE] PROVE IsTurn(r)
  <2> DEFINE v == FALSE
             at == i + 1
  <2>1. r = s \/ r = [s EXCEPT !.at = at, !.more = v] \/ r = [s EXCEPT !.more = v]
    BY <1>5
  <2> HIDE DEF v, at
  <2>2. IsTurn([s EXCEPT !.at = at, !.more = v]) /\ IsTurn([s EXCEPT !.more = v])
    BY MovedStands
  <2> QED BY <2>1, <2>2
<1>6. ASSUME NEW next, IsScan(next[2]) PROVE IsTurn(Behind(next))
  <2> DEFINE at == IF C(next) THEN next[1] + 1 ELSE next[1]
             more == C(next)
             scan == next[2]
  <2>1. Behind(next) = [s EXCEPT !.at = at, !.scan = scan, !.more = more]
    OBVIOUS
  <2>2. IsScan(scan)
    BY <1>6
  <2> HIDE DEF at, more, scan, Behind
  <2>3. IsTurn([s EXCEPT !.at = at, !.scan = scan, !.more = more])
    BY <2>2, BehindStands
  <2> QED BY <2>1, <2>3
<1> HIDE DEF Behind
<1> QED BY <1>3, <1>4, <1>5, <1>6 DEF r
LEMMA TablesAtStand ==
    ASSUME NEW toks, Facts!IsRow(toks), NEW access, NEW s, IsTurn(s)
    PROVE  IsTurn(Xml!TablesAt(toks, access, s))
<1> DEFINE Op(r, tok) == Xml!OneTable(toks, access, r)
           base == [s EXCEPT !.at = s.at + 1, !.more = TRUE]
           Good(r) == IsTurn(r)
<1>1. Len(toks) \in Nat /\ DOMAIN toks = 1..Len(toks)
  BY DEF Facts!IsRow
<1>2. Meets(Good, base)
  BY MovedStands DEF Meets
<1>3. KeepsGood(Op, Good, toks)
  BY OneTableStands DEF KeepsGood
<1>4. Xml!TablesAt(toks, access, s) = FoldLeft(Op, base, toks)
  BY DEF Xml!TablesAt, Xml!FoldLeft, FoldLeft, Xml!MapThenFoldSet, MapThenFoldSet, Xml!Max, Max
<1> HIDE DEF Op, base, Good
<1>5. Meets(Good, FoldLeft(Op, base, toks))
  BY <1>1, <1>2, <1>3, FoldLeftMeets
<1> QED BY <1>4, <1>5 DEF Meets, Good
LEMMA TurnStands ==
    ASSUME NEW toks, Facts!IsRow(toks), NEW s, IsTurn(s)
    PROVE  IsTurn(Xml!Turn(toks, s))
<1> DEFINE r == Xml!Turn(toks, s)
           verb == Xml!IsAny(toks, s.at, {"delete", "insert"})
           target == verb /\ Xml!Kind(toks, s.at + 1) = "name"
           access == IF target THEN Xml!Some("WRITES") ELSE Xml!AccessOf(toks, s.at, s.writing)
           w == s.writing \/ target
           v == verb \/ (s.writing /\ Xml!Kind(toks, s.at) # "keyword")
           listing == [s EXCEPT !.writing = w]
           listed == Xml!TablesAt(toks, access[1], listing)
<1>1. r = s \/ r = listed \/ r = [s EXCEPT !.at = s.at + 1, !.writing = v]
  BY DEF Xml!Turn
<1> HIDE DEF r, v, w, access, listed
<1>2. IsTurn(listing)
  BY MovedStands
<1> HIDE DEF listing
<1>3. IsTurn(listed)
  BY <1>2, TablesAtStand DEF listed
<1>4. ASSUME r = [s EXCEPT !.at = s.at + 1, !.writing = v] PROVE IsTurn(r)
  BY <1>4, MovedStands
<1> QED BY <1>1, <1>3, <1>4 DEF r
LEMMA ScanStands == ASSUME NEW toks, Facts!IsRow(toks) PROVE IsScan(Xml!Walk(toks))
<1> DEFINE Op(s, tok) == Xml!Turn(toks, s)
           base == [at |-> 1, writing |-> FALSE, more |-> FALSE, scan |-> Xml!Unread]
           Good(s) == IsTurn(s)
<1>1. Len(toks) \in Nat /\ DOMAIN toks = 1..Len(toks)
  BY DEF Facts!IsRow
<1>2. Meets(Good, base)
  <2>1. ToSet(<<>>) = {}
    BY DEF ToSet
  <2>2. IsScan(Xml!Unread)
    BY <2>1, NoneIsRow DEF IsScan, Xml!Unread
  <2> QED BY <2>2 DEF Meets, IsTurn
<1>3. KeepsGood(Op, Good, toks)
  BY TurnStands DEF KeepsGood
<1>4. Xml!Walk(toks) = FoldLeft(Op, base, toks).scan
  BY DEF Xml!Walk, Xml!FoldLeft, FoldLeft, Xml!MapThenFoldSet, MapThenFoldSet, Xml!Max, Max
<1> HIDE DEF Op, base, Good
<1>5. Meets(Good, FoldLeft(Op, base, toks))
  BY <1>1, <1>2, <1>3, FoldLeftMeets
<1> QED BY <1>4, <1>5 DEF Meets, Good, IsTurn
(* The plugin writes its output with the facade.                           *)
LEMMA XmlIsSimple ==
    /\ Xml!Nothing = Simple!Nothing /\ Xml!Skip = Simple!Skip
    /\ \A c, d : Xml!Merge(c, d) = Simple!Merge(c, d)
    /\ \A cs : Xml!MergeAll(cs) = Simple!MergeAll(cs)
    /\ \A n, e : Xml!Mint(n) = Simple!Mint(n) /\ Xml!Link(e) = Simple!Link(e) /\ Xml!Linked(n, e) = Simple!Linked(n, e)
    /\ \A path, what : Xml!Note(path, what) = Simple!Note(path, what)
    /\ \A text : Xml!Prose(text) = Simple!Prose(text)
    /\ \A file, why : Xml!Declined(file, why) = Simple!Declined(file, why)
    /\ \A test, c : Xml!When(test, c) = Simple!When(test, c)
<1>1. Xml!Nothing = Simple!Nothing
  BY DEF Xml!Nothing, Xml!Blank, Xml!Fields, Simple!Nothing, Simple!Blank, Simple!Fields
<1>2. \A c, d : Xml!Merge(c, d) = Simple!Merge(c, d)
  BY DEF Xml!Merge, Xml!JoinPartials, Simple!Merge, Simple!JoinPartials
<1>3. \A cs : Xml!MergeAll(cs) = Simple!MergeAll(cs)
  BY DEF Xml!MergeAll, Xml!FoldLeft, Xml!MapThenFoldSet, Xml!Max, Xml!Merge, Xml!JoinPartials,
         Xml!Nothing, Xml!Blank, Xml!Fields,
         Simple!MergeAll, Simple!FoldLeft, Simple!MapThenFoldSet, Simple!Max, Simple!Merge, Simple!JoinPartials,
         Simple!Nothing, Simple!Blank, Simple!Fields
<1>4. \A n, e : Xml!Mint(n) = Simple!Mint(n) /\ Xml!Link(e) = Simple!Link(e)
  BY <1>1 DEF Xml!Mint, Xml!Link, Simple!Mint, Simple!Link
<1>5. \A n, e : Xml!Linked(n, e) = Simple!Linked(n, e)
  BY <1>2, <1>4 DEF Xml!Linked, Simple!Linked
<1>6. Xml!Skip = Simple!Skip /\ \A path, what : Xml!Note(path, what) = Simple!Note(path, what)
  BY <1>1 DEF Xml!Skip, Xml!Note, Simple!Skip, Simple!Note
<1>7. \A text : Xml!Prose(text) = Simple!Prose(text)
  BY <1>1 DEF Xml!Prose, Simple!Prose
<1>8. \A file, why : Xml!Declined(file, why) = Simple!Declined(file, why)
  BY <1>2, <1>6 DEF Xml!Declined, Simple!Declined
<1>9. \A test, c : Xml!When(test, c) = Simple!When(test, c)
  BY <1>1 DEF Xml!When, Simple!When
<1> QED BY <1>1, <1>2, <1>3, <1>4, <1>5, <1>6, <1>7, <1>8, <1>9
(***************************************************************************)
(* What is parsed of a mapper: lists of statements, fragments and result   *)
(* maps, whose parts are texts and includes.                               *)
(***************************************************************************)
IsPart(part) == part.is \in {"text", "include"} /\ (part.is = "text" => Facts!IsRow(part.text))
HasParts(s) == "parts" \in DOMAIN s /\ Facts!IsRow(s["parts"]) /\ \A x \in ToSet(s["parts"]) : IsPart(x)
HasMaps(s) == HasParts(s) /\ "maps" \in DOMAIN s /\ Facts!IsRow(s["maps"])
HasColumns(m) == "columns" \in DOMAIN m /\ Facts!IsRow(m["columns"])
Fits(f, v) ==
    /\ f = "statements" => Facts!IsRow(v) /\ \A s \in ToSet(v) : HasMaps(s)
    /\ f = "fragments" => Facts!IsRow(v) /\ \A s \in ToSet(v) : HasParts(s)
    /\ f = "maps" => Facts!IsRow(v) /\ \A m \in ToSet(v) : HasColumns(m)
    /\ f = "statement" => (v # Xml!None => 1 \in DOMAIN v /\ HasMaps(v[1]))
    /\ f = "fragment" => (v # Xml!None => 1 \in DOMAIN v /\ HasParts(v[1]))
    /\ f = "map" => (v # Xml!None => 1 \in DOMAIN v /\ HasColumns(v[1]))
    /\ f = "closers" => Facts!IsRow(v) /\ \A c \in ToSet(v) : Facts!IsRow(c[2])
MapperFields == {"namespace", "fragments", "statements", "maps", "statement", "fragment", "map", "closers"}
IsMapper(p) == p = [f \in MapperFields |-> p[f]] /\ \A f \in MapperFields : Fits(f, p[f])

LEMMA FieldFits ==
    ASSUME NEW p, IsMapper(p), NEW f \in MapperFields, NEW v, Fits(f, v), NEW q, q = [p EXCEPT ![f] = v]
    PROVE  IsMapper(q)
<1>1. q = [g \in MapperFields |-> IF g = f THEN v ELSE p[g]]
  BY DEF IsMapper
<1>2. q = [g \in MapperFields |-> q[g]] /\ \A g \in MapperFields : q[g] = IF g = f THEN v ELSE p[g]
  BY <1>1
<1>3. \A g \in MapperFields : Fits(g, q[g])
  BY <1>2 DEF IsMapper
<1> HIDE <1>1
<1> QED BY <1>2, <1>3 DEF IsMapper
LEMMA FreshMapper == IsMapper(Xml!Fresh)
<1> DEFINE o == Xml!Fresh
           listed == {"fragments", "statements", "maps", "statement", "fragment", "map", "closers"}
<1>1. DOMAIN o = MapperFields /\ o = [f \in DOMAIN o |-> o[f]]
  BY DEF Xml!Fresh, MapperFields
<1>2. /\ o["fragments"] = <<>> /\ o["statements"] = <<>> /\ o["maps"] = <<>> /\ o["closers"] = <<>>
      /\ o["statement"] = <<>> /\ o["fragment"] = <<>> /\ o["map"] = <<>>
  BY DEF Xml!Fresh, Xml!None
<1> HIDE DEF o
<1>3. MapperFields = listed \cup {"namespace"} /\ \A f \in listed : o[f] = <<>>
  BY <1>2 DEF MapperFields
<1>4. \A f \in MapperFields : Fits(f, <<>>)
  <2>1. ToSet(<<>>) = {}
    BY DEF ToSet
  <2> QED BY <2>1, NoneIsRow DEF Fits, Xml!None
<1>5. \A v : Fits("namespace", v)
  BY DEF Fits
<1> HIDE DEF listed
<1> QED BY <1>1, <1>3, <1>4, <1>5 DEF IsMapper, o
LEMMA MoreParts ==
    ASSUME NEW s, HasParts(s), NEW part, IsPart(part), NEW t, t = [s EXCEPT !["parts"] = Append(s["parts"], part)]
    PROVE  HasParts(t) /\ (HasMaps(s) => HasMaps(t))
<1> DEFINE more == Append(s["parts"], part)
<1>1. Facts!IsRow(more) /\ ToSet(more) = ToSet(s["parts"]) \cup {part}
  BY AppendRow DEF HasParts
<1> HIDE DEF more
<1>2. DOMAIN t = DOMAIN s /\ t["parts"] = more /\ t["maps"] = s["maps"]
  <2>1. t = [s EXCEPT !["parts"] = more]
    BY DEF more
  <2>2. "parts" \in DOMAIN s
    BY DEF HasParts
  <2>3. HasMaps(s) => "maps" \in DOMAIN s
    BY DEF HasMaps
  <2>4. DOMAIN t = DOMAIN s /\ t["parts"] = more
    BY <2>1, <2>2
  <2> QED BY <2>1, <2>4
<1>3. HasParts(t)
  BY <1>1, <1>2 DEF HasParts
<1> QED BY <1>2, <1>3 DEF HasMaps
LEMMA AddPartKeeps ==
    ASSUME NEW p, IsMapper(p), NEW part, IsPart(part)
    PROVE  IsMapper(Xml!AddPart(p, part))
<1> DEFINE r == Xml!AddPart(p, part)
<1>0. Fits("statement", p["statement"]) /\ Fits("fragment", p["fragment"]) /\ "statement" \in MapperFields /\ "fragment" \in MapperFields
  BY DEF IsMapper, MapperFields
<1>1. CASE p["statement"] # Xml!None
  <2> DEFINE st == p["statement"]
             s == st[1]
             t == [s EXCEPT !["parts"] = Append(s["parts"], part)]
             v == [st EXCEPT ![1] = t]
  <2>1. r = [p EXCEPT !["statement"] = v]
    BY <1>1 DEF Xml!AddPart
  <2>2. 1 \in DOMAIN st /\ HasMaps(s)
    BY <1>0, <1>1 DEF Fits
  <2>3. HasMaps(t)
    <3> HIDE DEF s
    <3> QED BY <2>2, MoreParts DEF HasMaps
  <2> HIDE DEF s, t, r
  <2>4. 1 \in DOMAIN v /\ v[1] = t
    BY <2>2
  <2> HIDE DEF v
  <2>5. Fits("statement", v)
    BY <2>3, <2>4 DEF Fits
  <2>6. IsMapper(r)
    BY <1>0, <2>1, <2>5, FieldFits
  <2> QED BY <2>6 DEF r
<1>2. CASE p["statement"] = Xml!None /\ p["fragment"] # Xml!None
  <2> DEFINE st == p["fragment"]
             s == st[1]
             t == [s EXCEPT !["parts"] = Append(s["parts"], part)]
             v == [st EXCEPT ![1] = t]
  <2>1. r = [p EXCEPT !["fragment"] = v]
    BY <1>2 DEF Xml!AddPart
  <2>2. 1 \in DOMAIN st /\ HasParts(s)
    BY <1>0, <1>2 DEF Fits
  <2>3. HasParts(t)
    <3> HIDE DEF s
    <3> QED BY <2>2, MoreParts
  <2> HIDE DEF s, t, r
  <2>4. 1 \in DOMAIN v /\ v[1] = t
    BY <2>2
  <2> HIDE DEF v
  <2>5. Fits("fragment", v)
    BY <2>3, <2>4 DEF Fits
  <2>6. IsMapper(r)
    BY <1>0, <2>1, <2>5, FieldFits
  <2> QED BY <2>6 DEF r
<1>3. CASE p["statement"] = Xml!None /\ p["fragment"] = Xml!None
  <2>1. r = p
    BY <1>3 DEF Xml!AddPart
  <2> QED BY <2>1
<1> QED BY <1>1, <1>2, <1>3
LEMMA CollectKeeps ==
    ASSUME NEW p, IsMapper(p), NEW text, Facts!IsRow(text)
    PROVE  IsMapper(Xml!Collect(p, text)) /\ IsMapper(Xml!CollectAny(p, text))
<1> DEFINE part == [is |-> "text", text |-> text]
<1>1. IsPart(part) /\ Xml!Collect(p, text) = Xml!AddPart(p, part)
  BY DEF IsPart, Xml!Collect
<1> HIDE DEF part
<1> QED BY <1>1, AddPartKeeps DEF Xml!CollectAny
LEMMA OpenedFits ==
    ASSUME NEW v, Facts!IsRow(v), 1 \in DOMAIN v
    PROVE  /\ HasMaps(v[1]) => Fits("statement", v)
           /\ HasParts(v[1]) => Fits("fragment", v)
           /\ HasColumns(v[1]) => Fits("map", v)
BY DEF Fits
LEMMA TagRows ==
    ASSUME NEW e, IsEvent(e), e.ev \in {"start", "empty"}
    PROVE  /\ e.name \in Xml!Dynamic => Facts!IsRow(Xml!OpeningOf(e)) /\ Facts!IsRow(Xml!ClosingOf(e))
           /\ Facts!IsRow(Xml!AttrOr(e, "resultMap", <<>>))
<1>1. ASSUME NEW a \in {"prefix", "suffix", "open", "close", "resultMap"} PROVE Facts!IsRow(Xml!AttrOr(e, a, <<>>))
  BY NoneIsRow DEF IsEvent, Xml!AttrOr, Xml!Has
<1>2. ASSUME NEW w PROVE Facts!IsRow(Xml!Word(w))
  <2> DEFINE x == [t |-> "keyword", word |-> <<w>>]
  <2>1. Xml!Word(w) = <<x>>
    BY DEF Xml!Word
  <2> HIDE DEF x
  <2> QED BY <2>1, OneRow
<1>3. \A a \in {"prefix", "suffix", "open", "close"} : Facts!IsRow(Xml!AttrOr(e, a, <<>>))
  BY <1>1
<1>4. Facts!IsRow(<<>>)
  BY NoneIsRow
<1>5. ASSUME e.name \in {"where", "set", "trim", "foreach"} PROVE Facts!IsRow(Xml!OpeningOf(e)) /\ Facts!IsRow(Xml!ClosingOf(e))
  <2>1. CASE e.name \in {"where", "set"}
    BY <1>2, <1>4, <2>1 DEF Xml!OpeningOf, Xml!ClosingOf
  <2>2. CASE e.name = "trim"
    BY <1>3, <2>2 DEF Xml!OpeningOf, Xml!ClosingOf
  <2>3. CASE e.name = "foreach"
    BY <1>3, <2>3 DEF Xml!OpeningOf, Xml!ClosingOf
  <2> QED BY <1>5, <2>1, <2>2, <2>3
<1> QED BY <1>1, <1>5 DEF Xml!Dynamic
LEMMA MoreColumns ==
    ASSUME NEW m, HasColumns(m), NEW column
    PROVE  HasColumns([m EXCEPT !["columns"] = Append(m["columns"], column)])
<1> DEFINE more == Append(m["columns"], column)
           t == [m EXCEPT !["columns"] = more]
<1>1. Facts!IsRow(more)
  BY AppendRow DEF HasColumns
<1> HIDE DEF more
<1>2. "columns" \in DOMAIN t /\ t["columns"] = more
  BY DEF HasColumns
<1> HIDE DEF t
<1>3. HasColumns(t)
  BY <1>1, <1>2 DEF HasColumns
<1> QED BY <1>3 DEF t, more
(* An element that opens keeps it so. *)
LEMMA StartedKeeps ==
    ASSUME NEW p, IsMapper(p), NEW e, IsEvent(e), e.ev \in {"start", "empty"}
    PROVE  IsMapper(Xml!Started(p, e))
<1> DEFINE r == Xml!Started(p, e)
           ns == Xml!AttrOr(e, "namespace", "")
           fragment == [id |-> e.attrs.id, parts |-> <<>>]
           map == [id |-> e.attrs.id, columns |-> <<>>,
                   extends |-> IF Xml!Has(e, "extends") THEN Xml!Some(e.attrs.extends) ELSE Xml!None]
           statement == [id |-> e.attrs.id, parts |-> <<>>, maps |-> Xml!AttrOr(e, "resultMap", <<>>),
                         database |-> Xml!AttrOr(e, "databaseId", "")]
           named == p["map"]
           column == e.attrs.column
           more == [named EXCEPT ![1] = [named[1] EXCEPT !["columns"] = Append(named[1]["columns"], column)]]
           q == Xml!CollectAny(p, Xml!OpeningOf(e))
           closer == <<e.name, Xml!ClosingOf(e)>>
           part == IF Xml!Has(e, "refid") THEN [is |-> "include", refid |-> e.attrs.refid] ELSE [is |-> "text", text |-> <<>>]
<1>1. \/ r = p
      \/ r = [p EXCEPT !["namespace"] = ns]
      \/ r = [p EXCEPT !["fragment"] = <<fragment>>]
      \/ r = [p EXCEPT !["map"] = <<map>>]
      \/ named # Xml!None /\ r = [p EXCEPT !["map"] = more]
      \/ e.name \in Xml!Dynamic /\ r = [q EXCEPT !["closers"] = Append(q["closers"], closer)]
      \/ r = Xml!AddPart(p, part)
      \/ r = [p EXCEPT !["statement"] = <<statement>>]
  <2> DEFINE g1 == e.name = "mapper" /\ p.namespace = ""
             g2 == e.name = "sql" /\ Xml!Has(e, "id")
             g3 == e.name = "resultMap" /\ Xml!Has(e, "id")
             g4 == e.name \in Xml!Mappings /\ p.map # Xml!None /\ Xml!Has(e, "column")
             g5 == e.name \in Xml!Dynamic
             g6 == e.name = "include"
             g7 == e.name \in Xml!Kinds /\ Xml!Has(e, "id")
             v1 == [p EXCEPT !["namespace"] = ns]
             v2 == [p EXCEPT !["fragment"] = <<fragment>>]
             v3 == [p EXCEPT !["map"] = <<map>>]
             v4 == [p EXCEPT !["map"] = more]
             v5 == [q EXCEPT !["closers"] = Append(q["closers"], closer)]
             v6 == Xml!AddPart(p, part)
             v7 == [p EXCEPT !["statement"] = <<statement>>]
  <2>1. r = CASE g1 -> v1 [] g2 -> v2 [] g3 -> v3 [] g4 -> v4 [] g5 -> v5 [] g6 -> v6 [] g7 -> v7 [] OTHER -> p
    BY DEF Xml!Started, Xml!Some
  <2>2. (g4 => named # Xml!None) /\ (g5 => e.name \in Xml!Dynamic)
    OBVIOUS
  <2> HIDE DEF r, g1, g2, g3, g4, g5, g6, g7, v1, v2, v3, v4, v5, v6, v7
  <2>3. \/ r = p \/ r = v1 \/ r = v2 \/ r = v3 \/ (g4 /\ r = v4) \/ (g5 /\ r = v5) \/ r = v6 \/ r = v7
    BY <2>1
  <2> QED BY <2>2, <2>3 DEF v1, v2, v3, v4, v5, v6, v7
<1>2. {"namespace", "fragment", "map", "closers", "statement"} \subseteq MapperFields
  BY DEF MapperFields
<1>3. ToSet(<<>>) = {} /\ Facts!IsRow(<<>>)
  BY NoneIsRow DEF ToSet
<1>4. Facts!IsRow(<<fragment>>) /\ Facts!IsRow(<<map>>) /\ Facts!IsRow(<<statement>>)
      /\ 1 \in DOMAIN <<fragment>> /\ 1 \in DOMAIN <<map>> /\ 1 \in DOMAIN <<statement>>
      /\ <<fragment>>[1] = fragment /\ <<map>>[1] = map /\ <<statement>>[1] = statement
  <2> HIDE DEF fragment, map, statement
  <2> QED BY OneRow
<1>5. HasParts(fragment)
  BY <1>3 DEF HasParts
<1>6. HasColumns(map)
  BY <1>3 DEF HasColumns
<1>7. HasMaps(statement)
  BY <1>3, TagRows DEF HasMaps, HasParts
<1>8. IsPart(part)
  BY <1>3 DEF IsPart
<1> HIDE DEF fragment, map, statement, part, ns
<1>9. Fits("namespace", ns)
  BY DEF Fits
<1>10. Fits("fragment", <<fragment>>) /\ Fits("map", <<map>>) /\ Fits("statement", <<statement>>)
  <2> DEFINE a == <<fragment>>
             b == <<map>>
             c == <<statement>>
  <2>1. Facts!IsRow(a) /\ 1 \in DOMAIN a /\ HasParts(a[1])
    BY <1>4, <1>5
  <2>2. Facts!IsRow(b) /\ 1 \in DOMAIN b /\ HasColumns(b[1])
    BY <1>4, <1>6
  <2>3. Facts!IsRow(c) /\ 1 \in DOMAIN c /\ HasMaps(c[1])
    BY <1>4, <1>7
  <2> HIDE DEF a, b, c
  <2>4. Fits("fragment", a) /\ Fits("map", b) /\ Fits("statement", c)
    BY <2>1, <2>2, <2>3, OpenedFits
  <2> QED BY <2>4 DEF a, b, c
<1>11. ASSUME named # Xml!None PROVE Fits("map", more)
  <2> DEFINE m == [named[1] EXCEPT !["columns"] = Append(named[1]["columns"], column)]
  <2>1. 1 \in DOMAIN named /\ HasColumns(named[1])
    BY <1>2, <1>11 DEF IsMapper, Fits
  <2> HIDE DEF named, column
  <2>2. HasColumns(m)
    BY <2>1, MoreColumns
  <2>3. more = [named EXCEPT ![1] = m]
    OBVIOUS
  <2> HIDE DEF m, more
  <2>4. 1 \in DOMAIN more /\ more[1] = m
    BY <2>1, <2>3
  <2> QED BY <2>2, <2>4 DEF Fits
<1>12. ASSUME e.name \in Xml!Dynamic PROVE IsMapper([q EXCEPT !["closers"] = Append(q["closers"], closer)])
  <2> DEFINE opening == Xml!OpeningOf(e)
             v == Append(q["closers"], closer)
             s == [q EXCEPT !["closers"] = v]
  <2>1. Facts!IsRow(opening) /\ Facts!IsRow(Xml!ClosingOf(e)) /\ closer[2] = Xml!ClosingOf(e)
    BY <1>12, TagRows
  <2> HIDE DEF opening, closer
  <2>2. IsMapper(q)
    BY <2>1, CollectKeeps DEF opening
  <2> HIDE DEF q
  <2>3. Fits("closers", q["closers"])
    BY <1>2, <2>2 DEF IsMapper
  <2>4. Facts!IsRow(v) /\ ToSet(v) = ToSet(q["closers"]) \cup {closer}
    BY <2>3, AppendRow DEF Fits
  <2> HIDE DEF v
  <2>5. Fits("closers", v)
    BY <2>1, <2>3, <2>4 DEF Fits
  <2> HIDE DEF s
  <2>6. IsMapper(s)
    <3>1. "closers" \in MapperFields /\ s = [q EXCEPT !["closers"] = v]
      BY <1>2 DEF s
    <3> QED BY <2>2, <2>5, <3>1, FieldFits
  <2> QED BY <2>6 DEF s, v
<1> DEFINE a == <<fragment>>
           b == <<map>>
           c == <<statement>>
           d == [q EXCEPT !["closers"] = Append(q["closers"], closer)]
<1>13. \/ r = p
       \/ r = [p EXCEPT !["namespace"] = ns]
       \/ r = [p EXCEPT !["fragment"] = a]
       \/ r = [p EXCEPT !["map"] = b]
       \/ named # Xml!None /\ r = [p EXCEPT !["map"] = more]
       \/ e.name \in Xml!Dynamic /\ r = d
       \/ r = Xml!AddPart(p, part)
       \/ r = [p EXCEPT !["statement"] = c]
  <2> HIDE DEF r
  <2> QED BY <1>1
<1>14. Fits("fragment", a) /\ Fits("map", b) /\ Fits("statement", c) /\ (e.name \in Xml!Dynamic => IsMapper(d))
  BY <1>10, <1>12
<1> HIDE DEF a, b, c, d, r, more, named
<1>15. ASSUME NEW f \in MapperFields, NEW v, Fits(f, v), r = [p EXCEPT ![f] = v] PROVE IsMapper(r)
  BY <1>15, FieldFits
<1>16. "namespace" \in MapperFields /\ "fragment" \in MapperFields /\ "map" \in MapperFields /\ "statement" \in MapperFields
  BY <1>2
<1>17. IsMapper(Xml!AddPart(p, part))
  BY <1>8, AddPartKeeps
<1> QED
  <2>1. CASE r = [p EXCEPT !["namespace"] = ns]
    BY <1>9, <1>15, <1>16, <2>1 DEF r
  <2>2. CASE r = [p EXCEPT !["fragment"] = a]
    BY <1>14, <1>15, <1>16, <2>2 DEF r
  <2>3. CASE r = [p EXCEPT !["map"] = b]
    BY <1>14, <1>15, <1>16, <2>3 DEF r
  <2>4. CASE named # Xml!None /\ r = [p EXCEPT !["map"] = more]
    BY <1>11, <1>15, <1>16, <2>4 DEF r
  <2>5. CASE r = [p EXCEPT !["statement"] = c]
    BY <1>14, <1>15, <1>16, <2>5 DEF r
  <2> QED BY <1>13, <1>14, <1>17, <2>1, <2>2, <2>3, <2>4, <2>5 DEF r
(* So does one that closes: what was open is done. *)
LEMMA CloseKeeps ==
    ASSUME NEW p, IsMapper(p), NEW done, NEW open,
           <<done, open>> \in {<<"statements", "statement">>, <<"fragments", "fragment">>, <<"maps", "map">>}
    PROVE  IsMapper(Xml!Close(p, done, open))
<1> DEFINE v == Append(p[done], p[open][1])
           q == [p EXCEPT ![done] = v]
           r == [q EXCEPT ![open] = Xml!None]
<1>1. CASE p[open] = Xml!None
  BY <1>1 DEF Xml!Close
<1>2. CASE p[open] # Xml!None
  <2>1. done \in MapperFields /\ open \in MapperFields /\ done # open
    BY DEF MapperFields
  <2>2. Fits(done, p[done]) /\ Fits(open, p[open]) /\ DOMAIN p = MapperFields
    BY <2>1 DEF IsMapper
  <2>3. Facts!IsRow(p[done])
    BY <2>2 DEF Fits
  <2>4. Facts!IsRow(v) /\ ToSet(v) = ToSet(p[done]) \cup {p[open][1]}
    BY <2>3, AppendRow
  <2>5. Xml!Close(p, done, open) = r
    BY <1>2, <2>1, <2>2 DEF Xml!Close
  <2> HIDE DEF v
  <2>6. Fits(done, v)
    BY <1>2, <2>2, <2>4 DEF Fits
  <2>7. IsMapper(q)
    <3> HIDE DEF q
    <3>1. q = [p EXCEPT ![done] = v]
      BY DEF q
    <3> QED BY <2>1, <2>6, <3>1, FieldFits
  <2> HIDE DEF q
  <2>8. Fits(open, Xml!None)
    <3>1. open \in {"statement", "fragment", "map"}
      OBVIOUS
    <3> QED BY <3>1 DEF Fits, Xml!None
  <2> DEFINE none == Xml!None
  <2>9. r = [q EXCEPT ![open] = none] /\ Fits(open, none)
    BY <2>8
  <2> HIDE DEF r, none
  <2>10. IsMapper(r)
    BY <2>1, <2>7, <2>9, FieldFits
  <2> QED BY <2>5, <2>10
<1> QED BY <1>1, <1>2
(* A row without one of its items. *)
LEMMA RemovedRow ==
    ASSUME NEW seq, Facts!IsRow(seq), NEW n \in 1..Len(seq)
    PROVE  Facts!IsRow(Xml!RemoveAt(seq, n)) /\ ToSet(Xml!RemoveAt(seq, n)) \subseteq ToSet(seq)
<1> DEFINE S == ToSet(seq)
<1>1. seq \in Seq(S) /\ Len(seq) \in Nat
  <2>1. Len(seq) \in Nat /\ DOMAIN seq = 1..Len(seq) /\ \A i \in 1..Len(seq) : seq[i] \in S
    BY DEF Facts!IsRow, ToSet
  <2>2. seq \in [1..Len(seq) -> S]
    BY <2>1 DEF Facts!IsRow
  <2> HIDE DEF S
  <2> QED BY <2>1, <2>2, FunctionIsSeq
<1> HIDE DEF S
<1> DEFINE a == SubSeq(seq, 1, n - 1)
           b == SubSeq(seq, n + 1, Len(seq))
<1>2. a \in Seq(S) /\ b \in Seq(S)
  BY <1>1
<1>3. Xml!RemoveAt(seq, n) = a \o b
  BY DEF Xml!RemoveAt
<1> HIDE DEF a, b
<1>4. a \o b \in Seq(S)
  BY <1>2
<1> DEFINE r == a \o b
<1> HIDE DEF r
<1>5. Facts!IsRow(r) /\ ToSet(r) \subseteq S
  <2>1. r \in Seq(S)
    BY <1>4 DEF r
  <2>2. DOMAIN r = 1..Len(r) /\ \A i \in DOMAIN r : r[i] \in S
    BY <2>1
  <2> QED BY <2>1, <2>2, SeqIsRow DEF ToSet
<1> QED BY <1>3, <1>5 DEF r, S
LEMMA EndedKeeps ==
    ASSUME NEW p, IsMapper(p), NEW name
    PROVE  IsMapper(Xml!Ended(p, name))
<1> DEFINE closers == p["closers"]
           n == Xml!SelectLastInSeq(closers, LAMBDA c : c[1] = name)
           v == Xml!RemoveAt(closers, n)
           q == [p EXCEPT !["closers"] = v]
<1>1. "closers" \in MapperFields /\ Fits("closers", closers)
  BY DEF IsMapper, MapperFields
<1>2. n \in 0..Len(closers)
  <2> DEFINE Test(c) == c[1] = name
             m == SelectLastInSeq(closers, Test)
  <2>1. Len(closers) \in Nat
    BY <1>1 DEF Fits, Facts!IsRow
  <2>2. n = m
    BY DEF Xml!SelectLastInSeq, SelectLastInSeq, Xml!Max, Max
  <2> HIDE DEF Test, n
  <2>3. m \in 0..Len(closers)
    BY <2>1, LastSelectedIsPlace
  <2> QED BY <2>2, <2>3
<1>3. \/ n # 0 /\ Xml!Ended(p, name) = Xml!CollectAny(q, closers[n][2])
      \/ Xml!Ended(p, name) = Xml!Close(p, "statements", "statement")
      \/ Xml!Ended(p, name) = Xml!Close(p, "fragments", "fragment")
      \/ Xml!Ended(p, name) = Xml!Close(p, "maps", "map")
      \/ Xml!Ended(p, name) = p
  <2> DEFINE r == Xml!Ended(p, name)
             g1 == n # 0
             g2 == n = 0 /\ name = "sql"
             g3 == n = 0 /\ name = "resultMap"
             g4 == n = 0 /\ name \in Xml!Kinds
             v1 == Xml!CollectAny(q, closers[n][2])
             v2 == Xml!Close(p, "fragments", "fragment")
             v3 == Xml!Close(p, "maps", "map")
             v4 == Xml!Close(p, "statements", "statement")
  <2>1. r = CASE g1 -> v1 [] g2 -> v2 [] g3 -> v3 [] g4 -> v4 [] OTHER -> p
    BY DEF Xml!Ended
  <2>2. g1 => n # 0
    OBVIOUS
  <2> HIDE DEF r, n, g1, g2, g3, g4, v1, v2, v3, v4
  <2>3. \/ r = p \/ (g1 /\ r = v1) \/ r = v2 \/ r = v3 \/ r = v4
    BY <2>1
  <2> QED BY <2>2, <2>3 DEF r, v1, v2, v3, v4
<1> HIDE DEF n
<1>4. ASSUME n # 0 PROVE IsMapper(Xml!CollectAny(q, closers[n][2]))
  <2>1. n \in 1..Len(closers) /\ Facts!IsRow(closers)
    BY <1>1, <1>2, <1>4 DEF Fits, Facts!IsRow
  <2>2. Facts!IsRow(v) /\ ToSet(v) \subseteq ToSet(closers)
    BY <2>1, RemovedRow
  <2>3. closers[n] \in ToSet(closers)
    BY <2>1 DEF ToSet, Facts!IsRow
  <2> HIDE DEF v
  <2>4. Fits("closers", v) /\ Facts!IsRow(closers[n][2])
    BY <1>1, <2>2, <2>3 DEF Fits
  <2> HIDE DEF q
  <2>5. q = [p EXCEPT !["closers"] = v]
    BY DEF q
  <2>6. IsMapper(q)
    BY <1>1, <2>4, <2>5, FieldFits
  <2> QED BY <2>4, <2>6, CollectKeeps
<1>5. /\ IsMapper(Xml!Close(p, "statements", "statement")) /\ IsMapper(Xml!Close(p, "fragments", "fragment"))
      /\ IsMapper(Xml!Close(p, "maps", "map"))
  BY CloseKeeps
<1> QED BY <1>3, <1>4, <1>5
LEMMA ParsedStands ==
    ASSUME NEW events, Facts!IsRow(events), \A e \in ToSet(events) : IsEvent(e)
    PROVE  IsMapper(Xml!Parsed(events))
<1> DEFINE base == Xml!Fresh
           Good(p) == IsMapper(p)
           Op(p, e) == Xml!Event(p, e)
<1>1. Len(events) \in Nat /\ DOMAIN events = 1..Len(events) /\ \A n \in 1..Len(events) : IsEvent(events[n])
  BY DEF Facts!IsRow, ToSet
<1>2. ASSUME NEW p, IsMapper(p), NEW e, IsEvent(e) PROVE IsMapper(Xml!Event(p, e))
  <2>1. CASE e.ev \in {"start", "empty"}
    BY <1>2, <2>1, StartedKeeps DEF Xml!Event
  <2>2. CASE e.ev = "end"
    BY <1>2, <2>2, EndedKeeps DEF Xml!Event
  <2>3. CASE e.ev = "text"
    BY <1>2, <2>3, CollectKeeps DEF Xml!Event, IsEvent
  <2> QED BY <1>2, <2>1, <2>2, <2>3 DEF IsEvent
<1>3. Meets(Good, base)
  BY FreshMapper DEF Meets
<1>4. KeepsGood(Op, Good, events)
  BY <1>1, <1>2 DEF KeepsGood
<1>5. Xml!Parsed(events) = FoldLeft(Op, base, events)
  BY DEF Xml!Parsed, Xml!FoldLeft, FoldLeft, Xml!MapThenFoldSet, MapThenFoldSet, Xml!Max, Max
<1> HIDE DEF Op, base, Good
<1>6. Meets(Good, FoldLeft(Op, base, events))
  BY <1>1, <1>3, <1>4, FoldLeftMeets
<1> QED BY <1>5, <1>6 DEF Meets, Good
(* A statement's text is a list of tokens. *)
LEMMA SplicedRow ==
    ASSUME NEW p, IsMapper(p), NEW part, IsPart(part)
    PROVE  Facts!IsRow(Xml!Spliced(p, part))
<1> DEFINE texts == p["fragments"]
           n == Xml!SelectInSeq(texts, LAMBDA f : f.id = part.refid)
<1>1. Facts!IsRow(texts) /\ (\A s \in ToSet(texts) : HasParts(s)) /\ Len(texts) \in Nat
  <2>1. "fragments" \in MapperFields
    BY DEF MapperFields
  <2>2. Fits("fragments", texts)
    BY <2>1 DEF IsMapper
  <2> QED BY <2>2 DEF Fits, Facts!IsRow
<1>2. CASE part.is = "text"
  <2>1. Xml!Spliced(p, part) = part.text
    BY <1>2 DEF Xml!Spliced, Xml!Foreign
  <2> QED BY <1>2, <2>1 DEF IsPart
<1>3. CASE part.is = "include" /\ Xml!Foreign(p, part)
  BY <1>3, NoneIsRow DEF Xml!Spliced
<1>4. CASE part.is = "include" /\ ~Xml!Foreign(p, part)
  <2> DEFINE Test(f) == f.id = part.refid
             m == SelectInSeq(texts, Test)
  <2>1. Passing(Test, texts)
    BY <1>1, <1>4 DEF Xml!Foreign, Facts!IsRow, Passing
  <2>2. n = m
    BY DEF Xml!SelectInSeq, SelectInSeq, Xml!Min, Min
  <2>3. Xml!Spliced(p, part) = Xml!Texts(texts[n].parts)
    BY <1>4 DEF Xml!Spliced
  <2> HIDE DEF Test, n
  <2>4. m \in 1..Len(texts)
    BY <1>1, <2>1, SelectedPasses DEF IsPassing
  <2> HIDE DEF m
  <2> DEFINE parts == texts[m]["parts"]
             k == Len(parts)
             g == [j \in DOMAIN parts |-> IF parts[j].is = "text" THEN parts[j].text ELSE <<>>]
  <2>5. Facts!IsRow(parts) /\ \A x \in ToSet(parts) : IsPart(x)
    <3>1. texts[m] \in ToSet(texts)
      BY <1>1, <2>4 DEF ToSet, Facts!IsRow
    <3> QED BY <1>1, <3>1 DEF HasParts
  <2>6. Xml!Texts(parts) = FlattenSeq(g)
    BY DEF Xml!Texts, Xml!FlattenSeq, FlattenSeq
  <2>7. Xml!Spliced(p, part) = Xml!Texts(parts)
    BY <2>2, <2>3
  <2> HIDE DEF parts
  <2>8. k \in Nat /\ DOMAIN parts = 1..k /\ DOMAIN g = 1..k /\ g = [j \in 1..k |-> g[j]]
    BY <2>5 DEF Facts!IsRow
  <2>9. \A j \in DOMAIN g : Facts!IsRow(g[j])
    BY <2>5, <2>8, NoneIsRow DEF IsPart, ToSet
  <2> HIDE DEF g, k
  <2>10. Facts!IsRow(g)
    BY <2>8, MapRow
  <2> QED BY <2>6, <2>7, <2>9, <2>10, FlattenRow
<1> QED BY <1>2, <1>3, <1>4 DEF IsPart
LEMMA AssembledRow ==
    ASSUME NEW p, IsMapper(p), NEW s, HasParts(s)
    PROVE  Facts!IsRow(Xml!Assemble(p, s))
<1> DEFINE parts == s["parts"]
           k == Len(parts)
           g == [j \in DOMAIN parts |-> Xml!Spliced(p, parts[j])]
<1>1. k \in Nat /\ DOMAIN parts = 1..k /\ DOMAIN g = 1..k /\ g = [j \in 1..k |-> g[j]]
  BY DEF HasParts, Facts!IsRow
<1>2. \A j \in DOMAIN g : Facts!IsRow(g[j])
  BY <1>1, SplicedRow DEF HasParts, ToSet
<1>3. Xml!Assemble(p, s) = FlattenSeq(g)
  BY DEF Xml!Assemble, Xml!FlattenSeq, FlattenSeq
<1> HIDE DEF g, k
<1>4. Facts!IsRow(g)
  BY <1>1, MapRow
<1> QED BY <1>2, <1>3, <1>4, FlattenRow
LEMMA SetRow ==
    ASSUME NEW S, IsFiniteSet(S)
    PROVE  Facts!IsRow(Xml!SetToSeq(S)) /\ ToSet(Xml!SetToSeq(S)) \subseteq S
<1> DEFINE n == Cardinality(S)
           s == Xml!SetToSeq(S)
<1>1. Xml!Cardinality(S) = n
  BY DEF Xml!Cardinality, Cardinality
<1>2. n \in Nat /\ \E f \in [1..n -> S] : Xml!IsInjective(f)
  <2>1. \A f : Xml!IsInjective(f) <=> IsInjective(f)
    BY DEF Xml!IsInjective, IsInjective
  <2> QED BY <2>1, SetIsListed
<1> HIDE DEF n
<1>3. s \in [1..n -> S]
  BY <1>1, <1>2 DEF Xml!SetToSeq
<1> HIDE DEF s
<1>4. Facts!IsRow(s) /\ ToSet(s) \subseteq S
  BY <1>2, <1>3, ListOfSet
<1> QED BY <1>4 DEF s
(* What a qualifier stands for is a table of the statement. *)
LEMMA OwnerIsTable ==
    ASSUME NEW scan, IsScan(scan), NEW word, Xml!OwnerOf(word, scan) # Xml!None
    PROVE  Xml!OwnerOf(word, scan)[1] \in TablesIn(scan.tables)
<1> DEFINE names == scan.names
           k == Front(word)
           Test(x) == x[1] = k
           n == SelectInSeq(names, Test)
<1>1. CASE Len(word) = 1
  <2>1. Len(scan.tables) = 1 /\ Xml!OwnerOf(word, scan)[1] = scan.tables[1][1]
    BY <1>1 DEF Xml!OwnerOf, Xml!Sole, Xml!Some
  <2>2. scan.tables[1] \in ToSet(scan.tables)
    BY <2>1 DEF IsScan, Facts!IsRow, ToSet
  <2> QED BY <2>1, <2>2 DEF TablesIn
<1>2. CASE Len(word) # 1
  <2>1. Xml!OwnerOf(word, scan) = Xml!Get(Xml!FirstMap(names), k)
    BY <1>2 DEF Xml!OwnerOf, Xml!Front, Front
  <2>2. /\ DOMAIN Xml!FirstMap(names) = {names[i][1] : i \in DOMAIN names}
        /\ k \in DOMAIN Xml!FirstMap(names) => Xml!FirstMap(names)[k] = names[n][2]
    BY DEF Xml!FirstMap, Xml!SelectInSeq, SelectInSeq, Xml!Min, Min
  <2>3. k \in {names[i][1] : i \in DOMAIN names} /\ Xml!OwnerOf(word, scan)[1] = names[n][2]
    BY <2>1, <2>2 DEF Xml!Get, Xml!Some, Xml!None
  <2>4. Facts!IsRow(names) /\ Len(names) \in Nat /\ DOMAIN names = 1..Len(names)
    BY DEF IsScan, Facts!IsRow
  <2>5. Passing(Test, names)
    BY <2>3, <2>4 DEF Passing
  <2> HIDE DEF Test, names
  <2>6. n \in 1..Len(names)
    BY <2>4, <2>5, SelectedPasses DEF IsPassing
  <2> HIDE DEF n
  <2>7. names[n] \in ToSet(names)
    BY <2>4, <2>6 DEF ToSet
  <2> QED BY <2>3, <2>7 DEF IsScan, names
<1> QED BY <1>1, <1>2
IsTouched(t) ==
    /\ t = [tables |-> t.tables, interpolated |-> t.interpolated, bound |-> t.bound, unbound |-> t.unbound]
    /\ Facts!IsRow(t.tables) /\ IsFiniteSet(t.bound)
    /\ \A b \in t.bound : b[1] \in TablesIn(t.tables)
LEMMA TouchedStands == ASSUME NEW toks, Facts!IsRow(toks) PROVE IsTouched(Xml!Touched(toks))
<1> DEFINE scan == Xml!Walk(toks)
           columns == {i \in DOMAIN toks : Xml!Nameable(toks, i, scan)}
           Owner(i) == IF Xml!Kind(toks, i) = "quoted" /\ ~scan.quotedIds THEN Xml!None ELSE Xml!OwnerOf(toks[i].word, scan)
           Name(i) == IF Xml!Kind(toks, i) = "quoted" /\ ~scan.quotedIds THEN toks[i].word ELSE <<Last(toks[i].word)>>
           I == {i \in columns : Owner(i) # Xml!None}
           f == [i \in I |-> <<Owner(i)[1], Name(i)[1]>>]
           t == Xml!Touched(toks)
           bound == {f[i] : i \in I}
<1>1. IsScan(scan)
  BY ScanStands
<1>2. /\ t = [tables |-> t.tables, interpolated |-> t.interpolated, bound |-> t.bound, unbound |-> t.unbound]
      /\ t.tables = scan.tables /\ t.bound = {<<Owner(i)[1], Name(i)[1]>> : i \in I}
  BY DEF Xml!Touched, Xml!Last, Last
<1>3. IsFiniteSet(I)
  <2>1. IsFiniteSet(DOMAIN toks) /\ I \subseteq DOMAIN toks
    BY RowIsFinite
  <2> HIDE DEF I
  <2> QED BY <2>1, FS_Subset
<1>4. \A i \in I : f[i][1] \in TablesIn(scan.tables)
  <2> SUFFICES ASSUME NEW i \in I PROVE Owner(i)[1] \in TablesIn(scan.tables)
    OBVIOUS
  <2>1. Owner(i) = Xml!OwnerOf(toks[i].word, scan) /\ Owner(i) # Xml!None
    OBVIOUS
  <2> HIDE DEF Owner, I, scan
  <2> QED BY <1>1, <2>1, OwnerIsTable
<1>5. DOMAIN f = I /\ t.bound = bound
  <2>1. t.bound = {<<Owner(i)[1], Name(i)[1]>> : i \in I}
    BY <1>2
  <2> HIDE DEF Owner, Name, I, t
  <2> QED BY <2>1
<1> HIDE DEF f, I, t, scan
<1>6. IsFiniteSet(bound)
  BY <1>3, <1>5, FiniteRange
<1>7. \A b \in bound : b[1] \in TablesIn(scan.tables)
  BY <1>4
<1> HIDE DEF bound
<1> QED BY <1>1, <1>2, <1>5, <1>6, <1>7 DEF IsTouched, IsScan, t
(* The columns a result map names are finitely many. *)
LEMMA ColumnsAreFinite ==
    ASSUME NEW p, IsMapper(p), NEW id
    PROVE  IsFiniteSet(Xml!ColumnsOf(p, id))
<1> DEFINE Good(s) == IsFiniteSet(s.columns)
           Op(s, depth) == Xml!Extended(p, s)
           depths == [depth \in 1..(Xml!MaxExtends + 1) |-> depth]
           base == [columns |-> {}, map |-> Xml!Some(id)]
           known == p["maps"]
<1>1. Len(depths) \in Nat /\ DOMAIN depths = 1..Len(depths)
  <2>1. depths \in [1..9 -> Nat]
    BY DEF Xml!MaxExtends
  <2> HIDE DEF depths
  <2>2. depths \in Seq(Nat)
    BY <2>1, FunctionIsSeq
  <2> QED BY <2>2
<1>2. Meets(Good, base)
  BY FS_EmptySet DEF Meets
<1>3. Facts!IsRow(known) /\ (\A m \in ToSet(known) : HasColumns(m)) /\ Len(known) \in Nat /\ DOMAIN known = 1..Len(known)
  <2>1. "maps" \in MapperFields
    BY DEF MapperFields
  <2>2. Fits("maps", known)
    BY <2>1 DEF IsMapper
  <2> QED BY <2>2 DEF Fits, Facts!IsRow
<1>4. ASSUME NEW s, IsFiniteSet(s.columns) PROVE IsFiniteSet(Xml!Extended(p, s).columns)
  <2> DEFINE Test(m) == <<m.id>> = s.map
             n == Xml!SelectInSeq(known, LAMBDA m : <<m.id>> = s.map)
             k == SelectInSeq(known, Test)
             more == ToSet(known[k]["columns"])
             c == s.columns
  <2>1. n = k
    BY DEF Xml!SelectInSeq, SelectInSeq, Xml!Min, Min
  <2>2. Xml!Extended(p, s) = IF k = 0 THEN [s EXCEPT !.map = Xml!None]
                             ELSE [columns |-> c \cup more, map |-> known[k].extends]
    BY <2>1 DEF Xml!Extended, Xml!ToSet, ToSet
  <2> HIDE DEF Test, n
  <2>3. k \in 0..Len(known)
    BY <1>3, SelectedIsPlace
  <2> HIDE DEF k
  <2>4. CASE k = 0
    <3> DEFINE r == Xml!Extended(p, s)
    <3>1. r = [s EXCEPT !["map"] = Xml!None]
      BY <2>2, <2>4
    <3> HIDE DEF r
    <3>2. r["columns"] = s["columns"]
      BY <3>1
    <3> QED BY <1>4, <3>2 DEF r
  <2>5. CASE k # 0
    <3>1. known[k] \in ToSet(known)
      BY <1>3, <2>3, <2>5 DEF ToSet
    <3>2. IsFiniteSet(more)
      BY <1>3, <3>1, RowIsFinite DEF HasColumns
    <3> HIDE DEF more, c
    <3>3. Xml!Extended(p, s).columns = c \cup more
      BY <2>2, <2>5
    <3>4. IsFiniteSet(c)
      BY <1>4 DEF c
    <3> QED BY <3>2, <3>3, <3>4, FS_Union
  <2> QED BY <2>4, <2>5
<1>5. KeepsGood(Op, Good, depths)
  BY <1>4 DEF KeepsGood
<1>6. Xml!ColumnsOf(p, id) = FoldLeft(Op, base, depths).columns
  BY DEF Xml!ColumnsOf, Xml!FoldLeft, FoldLeft, Xml!MapThenFoldSet, MapThenFoldSet, Xml!Max, Max
<1> HIDE DEF Op, base, Good, depths
<1>7. Meets(Good, FoldLeft(Op, base, depths))
  BY <1>1, <1>2, <1>5, FoldLeftMeets
<1> QED BY <1>6, <1>7 DEF Meets, Good
LEMMA MappedStands ==
    ASSUME NEW p, IsMapper(p), NEW s, HasMaps(s), NEW t, IsTouched(t)
    PROVE  IsTouched(Xml!WithMapped(p, s, t))
<1> DEFINE maps == s["maps"]
           f == [i \in DOMAIN maps |-> Xml!ColumnsOf(p, maps[i])]
           mapped == UNION {f[i] : i \in DOMAIN maps}
           first == t.tables[1][1]
           g == [c \in mapped |-> <<first, c>>]
           named == {g[c] : c \in mapped}
           unnamed == {<<c>> : c \in mapped}
           r == Xml!WithMapped(p, s, t)
<1>1. IsFiniteSet(DOMAIN maps) /\ DOMAIN f = DOMAIN maps
  BY RowIsFinite DEF HasMaps
<1>2. \A i \in DOMAIN f : IsFiniteSet(f[i])
  BY ColumnsAreFinite
<1>3. \/ Len(t.tables) = 1 /\ r = [t EXCEPT !.bound = @ \cup named]
      \/ r = [t EXCEPT !.unbound = @ \cup unnamed]
  <2> DEFINE known == UNION {Xml!ColumnsOf(p, s.maps[i]) : i \in DOMAIN s.maps}
  <2>1. r = IF Len(t.tables) = 1 THEN [t EXCEPT !.bound = @ \cup {<<first, c>> : c \in known}]
            ELSE [t EXCEPT !.unbound = @ \cup {<<c>> : c \in known}]
    BY DEF Xml!WithMapped
  <2>2. known = mapped
    OBVIOUS
  <2> HIDE DEF known, mapped, r, first
  <2>3. named = {<<first, c>> : c \in known} /\ unnamed = {<<c>> : c \in known}
    BY <2>2
  <2> HIDE DEF named, unnamed
  <2> QED BY <2>1, <2>3
<1> HIDE DEF f, maps
<1>4. IsFiniteSet(mapped)
  BY <1>1, <1>2, FiniteUnion
<1>5. DOMAIN g = mapped /\ \A c \in mapped : g[c][1] = first
  OBVIOUS
<1> HIDE DEF g, mapped, first
<1>6. IsFiniteSet(named)
  BY <1>4, <1>5, FiniteRange
<1>7. Len(t.tables) = 1 => \A b \in named : b[1] \in TablesIn(t.tables)
  <2>1. Len(t.tables) = 1 => first \in TablesIn(t.tables)
    <3>1. Len(t.tables) = 1 => t.tables[1] \in ToSet(t.tables)
      BY DEF IsTouched, Facts!IsRow, ToSet
    <3> QED BY <3>1 DEF TablesIn, first
  <2> QED BY <1>5, <2>1
<1> HIDE DEF named, unnamed, r
<1>8. ASSUME Len(t.tables) = 1, r = [t EXCEPT !.bound = @ \cup named] PROVE IsTouched(r)
  <2> DEFINE b == t.bound \cup named
  <2>1. r = [tables |-> t.tables, interpolated |-> t.interpolated, bound |-> b, unbound |-> t.unbound]
    BY <1>8 DEF IsTouched
  <2>2. IsFiniteSet(b) /\ \A x \in b : x[1] \in TablesIn(t.tables)
    BY <1>6, <1>7, <1>8, FS_Union DEF IsTouched
  <2> HIDE DEF b
  <2> QED BY <2>1, <2>2 DEF IsTouched
<1>9. ASSUME r = [t EXCEPT !.unbound = @ \cup unnamed] PROVE IsTouched(r)
  <2> DEFINE b == t.unbound \cup unnamed
  <2>1. r = [tables |-> t.tables, interpolated |-> t.interpolated, bound |-> t.bound, unbound |-> b]
    BY <1>9 DEF IsTouched
  <2> HIDE DEF b
  <2> QED BY <2>1 DEF IsTouched
<1> QED BY <1>3, <1>8, <1>9 DEF r
(* A column that is used stands in a table, and both are listed. *)
LEMMA ColumnStands ==
    ASSUME NEW key, NEW b, NEW need, {key, b[1]} \subseteq need
    PROVE  Stands("xml", need,
                  Simple!MergeAll(<<Simple!Mint(Xml!External(Append(b[1], b[2]), "Column")),
                                    Simple!Link(Xml!Edge(b[1], "HAS_COLUMN", Append(b[1], b[2]))),
                                    Simple!Link(Xml!Edge(key, "USES_COLUMN", Append(b[1], b[2])))>>))
<1> DEFINE col == Append(b[1], b[2])
           n == Xml!External(col, "Column")
           e == Xml!Edge(b[1], "HAS_COLUMN", col)
           f == Xml!Edge(key, "USES_COLUMN", col)
           x == Simple!Mint(n)
           y == Simple!Link(e)
           z == Simple!Link(f)
           K == {col}
           cs == <<x, y, z>>
<1>0. "xml" \in Simples
  BY DEF Simples
<1>1. n.key = col /\ n.label # "Image" /\ e.src = b[1] /\ e.dst = col /\ f.src = key /\ f.dst = col
  BY DEF Xml!External, Xml!Edge
<1> HIDE DEF n, e, f, col
<1>2. Stands("xml", {}, x) /\ KeysIn(x) = K
  BY <1>0, <1>1, MintStands DEF OfImage
<1>3. Stands("xml", {e.src, e.dst}, y) /\ Stands("xml", {f.src, f.dst}, z)
  BY <1>0, LinkStands
<1> HIDE DEF x, y, z
<1>4. Stands("xml", need \cup K, x) /\ Stands("xml", need \cup K, y) /\ Stands("xml", need \cup K, z)
  BY <1>1, <1>2, <1>3, StandsOn
<1>5. Facts!IsRow(cs) /\ ToSet(cs) = {x, y, z}
  BY ThreeRow
<1> HIDE DEF cs, K
<1>6. StandIn("xml", need \cup K, cs) /\ K \subseteq UNION {KeysIn(c) : c \in ToSet(cs)}
  BY <1>2, <1>4, <1>5 DEF StandIn
<1>7. Stands("xml", need, Simple!MergeAll(cs))
  BY <1>0, <1>5, <1>6, AllStand
<1> QED BY <1>7 DEF cs, x, y, z, n, e, f, col
(* A statement needs the file it is in. *)
LEMMA EmitStands ==
    ASSUME NEW path, NEW p, IsMapper(p), NEW s, HasMaps(s)
    PROVE  Stands("xml", {<<path>>}, Xml!Emit(path, p, s))
<1> DEFINE key == <<path, "#", s.id>> \o IF s.database = "" THEN <<>> ELSE <<"@", s.database>>
           touched == Xml!WithMapped(p, s, Xml!Touched(Xml!Assemble(p, s)))
           bound == Xml!SetToSeq(touched.bound)
           method == <<p.namespace, s.id>>
           n == [key |-> key, label |-> "Statement", external |-> FALSE, unbound |-> touched.unbound]
           e == Xml!Edge(<<path>>, "CONTAINS", key)
           m == Xml!External(method, "Method")
           d == Xml!EdgeBy(key, "IMPLEMENTS", method, "mybatis-namespace")
           test == p.namespace # ""
           Access(t) == Simple!Linked(Xml!External(t[1], "Table"), Xml!Edge(key, t[2], t[1]))
           Column(b) == Simple!MergeAll(<<Simple!Mint(Xml!External(Append(b[1], b[2]), "Column")),
                                          Simple!Link(Xml!Edge(b[1], "HAS_COLUMN", Append(b[1], b[2]))),
                                          Simple!Link(Xml!Edge(key, "USES_COLUMN", Append(b[1], b[2])))>>)
           tables == touched.tables
           g == [i \in DOMAIN tables |-> Access(tables[i])]
           h == [i \in DOMAIN bound |-> Column(bound[i])]
           here == {<<path>>}
           x == Simple!Linked(n, e)
           w == Simple!Linked(m, d)
           y == Simple!When(test, w)
           z == Simple!MergeAll(g)
           u == Simple!MergeAll(h)
           cs == <<x, y, z, u>>
           K == {key} \cup TablesIn(tables)
<1>0. "xml" \in Simples
  BY DEF Simples
<1>1. Xml!Emit(path, p, s) = Simple!MergeAll(cs)
  <2> DEFINE Access2(t) == Xml!Linked(Xml!External(t[1], "Table"), Xml!Edge(key, t[2], t[1]))
             Column2(b) == Xml!MergeAll(<<Xml!Mint(Xml!External(Append(b[1], b[2]), "Column")),
                                          Xml!Link(Xml!Edge(b[1], "HAS_COLUMN", Append(b[1], b[2]))),
                                          Xml!Link(Xml!Edge(key, "USES_COLUMN", Append(b[1], b[2])))>>)
             g2 == [i \in DOMAIN tables |-> Access2(tables[i])]
             h2 == [i \in DOMAIN bound |-> Column2(bound[i])]
             x2 == Xml!Linked(n, e)
             y2 == Xml!When(test, Xml!Linked(m, d))
             z2 == Xml!MergeAll(g2)
             u2 == Xml!MergeAll(h2)
  <2>1. Xml!Emit(path, p, s) = Xml!MergeAll(<<x2, y2, z2, u2>>)
    BY DEF Xml!Emit, Xml!Each
  <2> HIDE DEF key, touched, bound, method, n, e, m, d, test, tables
  <2>2. \A t : Access2(t) = Access(t)
    BY XmlIsSimple
  <2>3. \A b : Column2(b) = Column(b)
    BY XmlIsSimple
  <2> HIDE DEF Access, Access2, Column, Column2
  <2>4. g2 = g /\ h2 = h
    BY <2>2, <2>3
  <2> HIDE DEF g, g2, h, h2
  <2>5. x2 = x /\ y2 = y /\ z2 = z /\ u2 = u
    BY <2>4, XmlIsSimple
  <2> HIDE DEF x, x2, y, y2, z, z2, u, u2
  <2> QED BY <2>1, <2>5, XmlIsSimple
<1>2. IsTouched(touched)
  <2> DEFINE toks == Xml!Assemble(p, s)
  <2>1. Facts!IsRow(toks)
    BY AssembledRow DEF HasMaps
  <2> HIDE DEF toks
  <2>2. IsTouched(Xml!Touched(toks))
    BY <2>1, TouchedStands
  <2> QED BY <2>2, MappedStands DEF toks
<1>3. /\ n.key = key /\ n.label # "Image" /\ e.src = <<path>> /\ e.dst = key
      /\ m.key = method /\ m.label # "Image" /\ d.src = key /\ d.dst = method
  BY DEF Xml!Edge, Xml!EdgeBy, Xml!External
<1>4. Facts!IsRow(tables) /\ Facts!IsRow(bound) /\ \A i \in DOMAIN bound : bound[i][1] \in TablesIn(tables)
  <2> DEFINE B == touched.bound
  <2>1. IsFiniteSet(B) /\ Facts!IsRow(tables) /\ \A b \in B : b[1] \in TablesIn(tables)
    BY <1>2 DEF IsTouched
  <2>2. bound = Xml!SetToSeq(B)
    OBVIOUS
  <2> HIDE DEF B, bound
  <2>3. Facts!IsRow(bound) /\ ToSet(bound) \subseteq B
    BY <2>1, <2>2, SetRow
  <2> QED BY <2>1, <2>3 DEF ToSet
<1> HIDE DEF n, e, m, d, key, method, bound, tables, test
<1>5. Stands("xml", here, x) /\ KeysIn(x) = {key}
  <2>1. {e.src, e.dst} \subseteq here \cup {n.key}
    BY <1>3
  <2> HIDE DEF here
  <2> QED BY <1>0, <1>3, <2>1, LinkedOn DEF OfImage
<1> DEFINE listed == here \cup K
<1>6. Stands("xml", listed, y)
  <2>1. {d.src, d.dst} \subseteq listed \cup {m.key}
    BY <1>3
  <2> HIDE DEF listed
  <2>2. Stands("xml", listed, w)
    BY <1>0, <1>3, <2>1, LinkedOn DEF OfImage
  <2>3. test \in BOOLEAN
    BY DEF test
  <2> HIDE DEF w
  <2> QED BY <1>0, <2>2, <2>3, WhenStands
<1>7. ASSUME NEW i \in DOMAIN tables PROVE Stands("xml", listed, g[i]) /\ KeysIn(g[i]) = {tables[i][1]}
  <2> DEFINE t == tables[i]
             a == Xml!External(t[1], "Table")
             b == Xml!Edge(key, t[2], t[1])
  <2>1. a.key = t[1] /\ a.label # "Image" /\ b.src = key /\ b.dst = t[1] /\ g[i] = Simple!Linked(a, b)
    BY <1>7 DEF Xml!External, Xml!Edge
  <2> HIDE DEF a, b, t, g
  <2>2. {b.src, b.dst} \subseteq listed \cup {a.key}
    BY <2>1
  <2> HIDE DEF listed
  <2>3. Stands("xml", listed, g[i]) /\ KeysIn(g[i]) = {t[1]}
    BY <1>0, <2>1, <2>2, LinkedOn DEF OfImage
  <2> QED BY <2>3 DEF t
<1>8. Stands("xml", listed, z) /\ KeysIn(z) = TablesIn(tables)
  <2>1. Over(tables, g)
    BY DEF Over
  <2> HIDE DEF g, listed
  <2>2. StandFor("xml", listed, tables, g)
    BY <1>7, <2>1 DEF StandFor
  <2>3. Stands("xml", listed, z) /\ KeysIn(z) = KeysFor(tables, g)
    BY <1>0, <1>4, <2>2, EachOf
  <2>4. KeysFor(tables, g) = TablesIn(tables)
    BY <1>7 DEF KeysFor, TablesIn, ToSet
  <2> QED BY <2>3, <2>4
<1>9. Stands("xml", listed, u)
  <2>1. ASSUME NEW i \in DOMAIN bound PROVE Stands("xml", listed, h[i])
    <3> DEFINE b == bound[i]
    <3>1. {key, b[1]} \subseteq listed /\ h[i] = Column(b)
      BY <1>4, <2>1
    <3> HIDE DEF b, listed, h
    <3>2. Stands("xml", listed, Column(b))
      <4> USE DEF b
      <4> HIDE DEF b
      <4> QED BY <3>1, ColumnStands
    <3> QED BY <3>1, <3>2
  <2>2. Over(bound, h)
    BY DEF Over
  <2> HIDE DEF h, listed
  <2>3. StandFor("xml", listed, bound, h)
    BY <2>1, <2>2 DEF StandFor
  <2> QED BY <1>0, <1>4, <2>3, EachOf
<1> HIDE DEF x, y, z, u, w
<1>10. Facts!IsRow(cs) /\ ToSet(cs) = {x, y, z, u}
  BY FourRow
<1> HIDE DEF cs, K, here
<1>11. Stands("xml", here \cup K, x)
  BY <1>5, StandsOn
<1>12. StandIn("xml", here \cup K, cs)
  BY <1>6, <1>8, <1>9, <1>10, <1>11 DEF StandIn
<1>13. K \subseteq UNION {KeysIn(c) : c \in ToSet(cs)}
  BY <1>5, <1>8, <1>10 DEF K
<1>14. Stands("xml", here, Simple!MergeAll(cs))
  BY <1>0, <1>10, <1>12, <1>13, AllStand
<1> QED BY <1>1, <1>14 DEF here
LEMMA XmlRemarksStand ==
    ASSUME NEW path, NEW bounds
    PROVE  Stands("xml", {}, Xml!Remarks(path, bounds)) /\ KeysIn(Xml!Remarks(path, bounds)) = {}
<1> DEFINE seq == <<"statements", "unbound", "interpolatedTables", "foreignIncludes", "interpolations">>
           g == [i \in DOMAIN seq |-> Simple!When(seq[i] = "statements" \/ bounds[seq[i]] > 0, Simple!Note(path, <<seq[i], bounds[seq[i]]>>))]
           none == {}
<1>0. "xml" \in Simples
  BY DEF Simples
<1>1. Xml!Remarks(path, bounds) = Simple!MergeAll(g)
  BY XmlIsSimple DEF Xml!Remarks, Xml!Each
<1>2. Facts!IsRow(seq)
  <2>1. seq \in Seq({"statements", "unbound", "interpolatedTables", "foreignIncludes", "interpolations"})
    OBVIOUS
  <2> HIDE DEF seq
  <2> QED BY <2>1, SeqIsRow
<1>3. ASSUME NEW i \in DOMAIN seq PROVE Stands("xml", none, g[i]) /\ KeysIn(g[i]) = {}
  <2> DEFINE what == <<seq[i], bounds[seq[i]]>>
             test == seq[i] = "statements" \/ bounds[seq[i]] > 0
             c == Simple!Note(path, what)
  <2>1. test \in BOOLEAN /\ g[i] = Simple!When(test, c)
    BY <1>3
  <2> HIDE DEF test, what, g
  <2>2. Stands("xml", none, c) /\ KeysIn(c) = {}
    BY <1>0, RemarksStand
  <2> HIDE DEF c, none
  <2> QED BY <1>0, <2>1, <2>2, WhenStands
<1>4. Over(seq, g)
  BY DEF Over
<1> HIDE DEF g, seq, none
<1>5. StandFor("xml", none, seq, g) /\ KeysFor(seq, g) = {}
  BY <1>3, <1>4 DEF StandFor, KeysFor
<1>6. Stands("xml", none, Simple!MergeAll(g)) /\ KeysIn(Simple!MergeAll(g)) = {}
  BY <1>0, <1>2, <1>5, EachOf
<1> QED BY <1>1, <1>6 DEF none
LEMMA MapperStands ==
    ASSUME NEW path, NEW p, IsMapper(p)
    PROVE  Stands("xml", {}, Xml!Mapper(path, p))
<1> DEFINE sources == p["statements"]
           n == Xml!Node(<<path>>, "Mapper")
           g == [i \in DOMAIN sources |-> Xml!Emit(path, p, sources[i])]
           x == Simple!Mint(n)
           y == Simple!MergeAll(g)
           z == Xml!Remarks(path, Xml!Bounds(p))
           cs == <<x, y, z>>
           K == {<<path>>}
           none == {}
<1>0. "xml" \in Simples
  BY DEF Simples
<1>1. Xml!Mapper(path, p) = Simple!MergeAll(cs)
  BY XmlIsSimple DEF Xml!Mapper, Xml!Each
<1>2. n.key = <<path>> /\ n.label # "Image"
  BY DEF Xml!Node
<1>3. Facts!IsRow(sources) /\ \A s \in ToSet(sources) : HasMaps(s)
  <2>1. "statements" \in MapperFields
    BY DEF MapperFields
  <2>2. Fits("statements", sources)
    BY <2>1 DEF IsMapper
  <2> QED BY <2>2 DEF Fits
<1>4. Over(sources, g) /\ \A i \in DOMAIN sources : Stands("xml", K, g[i])
  BY <1>3, EmitStands DEF Over, ToSet
<1> HIDE DEF n, sources, g
<1>5. Stands("xml", none, x) /\ KeysIn(x) = K
  BY <1>0, <1>2, MintStands DEF OfImage
<1> HIDE DEF K
<1>6. Stands("xml", K, y)
  <2>1. StandFor("xml", K, sources, g)
    BY <1>4 DEF StandFor
  <2> QED BY <1>0, <1>3, <2>1, EachOf
<1>7. Stands("xml", none, z)
  BY XmlRemarksStand
<1> HIDE DEF x, y, z
<1>8. Stands("xml", none \cup K, x) /\ Stands("xml", none \cup K, y) /\ Stands("xml", none \cup K, z)
  BY <1>5, <1>6, <1>7, StandsOn
<1>9. Facts!IsRow(cs) /\ ToSet(cs) = {x, y, z}
  BY ThreeRow
<1> HIDE DEF cs, none
<1>10. StandIn("xml", none \cup K, cs) /\ K \subseteq UNION {KeysIn(c) : c \in ToSet(cs)}
  BY <1>5, <1>8, <1>9 DEF StandIn
<1>11. Stands("xml", none, Simple!MergeAll(cs))
  BY <1>0, <1>9, <1>10, AllStand
<1> QED BY <1>1, <1>11 DEF none
LEMMA XmlStands ==
    ASSUME NEW f, IsXml(f)
    PROVE  Stands("xml", {}, Xml!Process(f))
<1>0. "xml" \in Simples
  BY DEF Simples
<1>1. CASE f.state = "unreadable"
  <2>1. Xml!Process(f) = Simple!Declined(f, "unreadable")
    BY <1>1, XmlIsSimple DEF Xml!Process
  <2> QED BY <1>0, <2>1, DeclinedStands
<1>2. CASE f.state # "unreadable"
  <2> DEFINE dialect == Xml!Dialect(f.events)
  <2>1. dialect \in {"mapper", "unknown", "malformed"} /\ Xml!Process(f) = Xml!Extract(f)
    BY <1>2 DEF Xml!Dialect, Xml!Process
  <2>2. CASE dialect = "mapper"
    <3>1. IsMapper(Xml!Parsed(f.events))
      BY <1>2, ParsedStands DEF IsXml
    <3>2. Xml!Process(f) = Xml!Mapper(f.path, Xml!Parsed(f.events))
      BY <2>1, <2>2 DEF Xml!Extract
    <3> QED BY <3>1, <3>2, MapperStands
  <2>3. CASE dialect = "unknown"
    <3>1. Xml!Process(f) = Simple!Prose(f.path)
      BY <2>1, <2>3, XmlIsSimple DEF Xml!Extract
    <3> QED BY <1>0, <3>1, RemarksStand
  <2>4. CASE dialect = "malformed"
    <3>1. Xml!Process(f) = Simple!Declined(f, "no root element")
      BY <2>1, <2>4, XmlIsSimple DEF Xml!Extract
    <3> QED BY <1>0, <3>1, DeclinedStands
  <2> QED BY <2>1, <2>2, <2>3, <2>4
<1> QED BY <1>1, <1>2
----------------------------------------------------------------------------
(***************************************************************************)
(* The tree.  A file's partial stands of itself, one of Terraform of the   *)
(* directories it lists; so does what a whole tree gives.                  *)
(***************************************************************************)
Needs(p, c) == IF p = "terraform" THEN RootKeys(c) ELSE {}
LEMMA FileStands ==
    ASSUME NEW p \in Readers, NEW f, IsReadable(p, f)
    PROVE  Stands(p, Needs(p, ReadBy(p, f)), ReadBy(p, f))
<1>1. CASE p = "terraform"
  <2>1. IsConfiguration(f) /\ ReadBy(p, f) = Terraform!Read(f)
    BY <1>1 DEF IsReadable, ReadBy
  <2> QED BY <1>1, <2>1, ConfigurationStands DEF Needs
<1>2. CASE p = "compose"
  <2>1. IsProject(f) /\ ReadBy(p, f) = Compose!Process(f)
    BY <1>2 DEF IsReadable, ReadBy
  <2> QED BY <1>2, <2>1, ProjectStands DEF Needs
<1>3. CASE p = "deps"
  <2>1. IsBuildFile(f) /\ ReadBy(p, f) = Deps!Process(f)
    BY <1>3 DEF IsReadable, ReadBy
  <2> QED BY <1>3, <2>1, BuildFileStands DEF Needs
<1>4. CASE p = "toml"
  <2>1. IsTables(f) /\ ReadBy(p, f) = Toml!Process(f)
    BY <1>4 DEF IsReadable, ReadBy
  <2> QED BY <1>4, <2>1, TomlStands DEF Needs
<1>5. CASE p = "xml"
  <2>1. IsXml(f) /\ ReadBy(p, f) = Xml!Process(f)
    BY <1>5 DEF IsReadable, ReadBy
  <2> QED BY <1>5, <2>1, XmlStands DEF Needs
<1> QED BY <1>1, <1>2, <1>3, <1>4, <1>5 DEF Readers, Simples
(* What a tree gives is put together of what its files give. *)
GivenBy(p, t) == {ReadBy(p, f) : f \in ToSet(t.files)}
LEMMA WholeIsMerged ==
    ASSUME NEW t \in Tree, t.plugin # "k8s"
    PROVE  /\ t.plugin \in Readers /\ \A f \in ToSet(t.files) : IsReadable(t.plugin, f)
           /\ IsMerged(t.plugin, GivenBy(t.plugin, t), Whole(t.plugin, t.files))
           /\ AnswerTo(t) = ResolvedBy(t.plugin, Whole(t.plugin, t.files))
<1> DEFINE p == t.plugin
           F == FieldsOf(p)
           files == t.files
           Find(file) == FindIn(p, file)
           Op(c, file) == Facts!JoinPartials(c, FindIn(p, file))
           m == Whole(p, files)
           n == Len(files)
           cs == GivenBy(p, t)
<1>1. t \in {u \in Tree : u.plugin # "k8s"}
  OBVIOUS
<1>2. /\ p \in {"terraform", "compose", "deps", "toml", "xml"} /\ PartsOf(p) = F
      /\ \A i \in DOMAIN files : IsReadable(p, files[i]) /\ FindIn(p, files[i]) = ReadBy(p, files[i])
      /\ AnswerTo(t) = ResolvedBy(p, m)
  BY <1>1, DeclarationAssumption
<1>3. n \in Nat /\ DOMAIN files = 1..n
  BY TreeAssumption DEF Facts!IsRow
<1>4. \A i \in 1..n : Facts!IsPartial(F, Find(files[i])) /\ Find(files[i]) = ReadBy(p, files[i])
  BY <1>2, <1>3, ReadAssumption
<1>5. m = FoldLeft(Op, Facts!Blank(F), files)
  BY <1>2 DEF Whole
<1>6. JoinsWith(Op, Find)
  BY DEF JoinsWith
<1>7. cs = {Find(files[i]) : i \in 1..n}
  <2>1. ToSet(files) = {files[i] : i \in 1..n}
    BY <1>3 DEF ToSet
  <2> HIDE DEF files, n
  <2>2. cs = {ReadBy(p, f) : f \in ToSet(files)}
    BY DEF GivenBy, files
  <2> HIDE DEF cs, Find
  <2> QED BY <1>4, <2>1, <2>2
<1> HIDE DEF Find, Op, m, n, cs, F
<1>8. Finds(F, Find, files)
  BY <1>4 DEF Finds, n
<1>9. Lists(F, Find, files, n, m)
  BY <1>3, <1>5, <1>6, <1>8, JoinedItems DEF n
<1>10. Facts!IsPartial(F, m) /\ \A f \in F \ {"skipped"} : ToSet(m[f]) = UNION {ToSet(Find(files[i])[f]) : i \in 1..n}
  BY <1>9 DEF Lists
<1>11. \A f \in F \ {"skipped"} : ToSet(m[f]) = UNION {ToSet(x[f]) : x \in cs}
  <2> SUFFICES ASSUME NEW f \in F \ {"skipped"} PROVE ToSet(m[f]) = UNION {ToSet(x[f]) : x \in cs}
    OBVIOUS
  <2>1. ToSet(m[f]) = UNION {ToSet(Find(files[i])[f]) : i \in 1..n}
    BY <1>10
  <2> QED BY <1>7, <2>1
<1>12. IsMerged(p, cs, m)
  BY <1>10, <1>11 DEF IsMerged, F
<1>13. p \in Readers /\ \A f \in ToSet(files) : IsReadable(p, f)
  BY <1>2 DEF Readers, Simples, ToSet
<1> QED BY <1>2, <1>12, <1>13 DEF m, cs
LEMMA WholeStands ==
    ASSUME NEW t \in Tree, t.plugin # "k8s"
    PROVE  /\ Stands(t.plugin, Needs(t.plugin, Whole(t.plugin, t.files)), Whole(t.plugin, t.files))
           /\ KeysIn(Whole(t.plugin, t.files)) = UNION {KeysIn(x) : x \in GivenBy(t.plugin, t)}
<1> DEFINE p == t.plugin
           m == Whole(p, t.files)
           cs == GivenBy(p, t)
           need == Needs(p, m)
           L == UNION {KeysIn(x) : x \in cs}
<1>1. p \in Readers /\ IsMerged(p, cs, m) /\ \A x \in cs : Stands(p, Needs(p, x), x)
  <2>1. p \in Readers /\ IsMerged(p, cs, m) /\ \A f \in ToSet(t.files) : IsReadable(p, f)
    BY WholeIsMerged
  <2>2. \A f \in ToSet(t.files) : Stands(p, Needs(p, ReadBy(p, f)), ReadBy(p, f))
    BY <2>1, FileStands
  <2> QED BY <2>1, <2>2 DEF GivenBy
<1> HIDE DEF p, m, cs
<1>2. ASSUME NEW x \in cs PROVE Stands(p, need \cup L, x)
  <2>1. Needs(p, x) \subseteq need
    <3>1. CASE p = "terraform"
      <4>1. "roots" \in FieldsOf(p) \ {"skipped"}
        BY <1>1, <3>1, FieldsAre
      <4>2. ToSet(x["roots"]) \subseteq ToSet(m["roots"])
        BY <1>1, <4>1 DEF IsMerged
      <4> QED BY <3>1, <4>2 DEF Needs, RootKeys
    <3>2. CASE p # "terraform"
      BY <3>2 DEF Needs
    <3> QED BY <3>1, <3>2
  <2>2. Needs(p, x) \subseteq (need \cup L) \cup KeysIn(x) /\ Stands(p, Needs(p, x), x)
    BY <1>1, <2>1
  <2> HIDE DEF need, L
  <2> QED BY <2>2, StandsOn
<1> HIDE DEF need
<1>3. KeysIn(m) = L /\ Stands(p, need, m)
  BY <1>1, <1>2, MergedStands
<1> QED BY <1>3 DEF need, p, m, cs
(* A tree of Compose files has a node for each of their services.          *)
LEMMA ServiceHasNode ==
    ASSUME NEW t \in Tree, t.plugin = "compose", NEW f \in ToSet(t.files)
    PROVE  ServicesIn(f) \subseteq KeysIn(Whole(t.plugin, t.files))
<1>1. t.plugin # "k8s" /\ IsReadable("compose", f)
  BY WholeIsMerged
<1>2. IsProject(f)
  BY <1>1 DEF IsReadable
<1>3. ServicesIn(f) \subseteq KeysIn(Compose!Process(f))
  BY <1>2, ProjectStands
<1>4. Compose!Process(f) \in GivenBy(t.plugin, t)
  BY DEF GivenBy, ReadBy
<1>5. KeysIn(Whole(t.plugin, t.files)) = UNION {KeysIn(x) : x \in GivenBy(t.plugin, t)}
  BY <1>1, WholeStands
<1> QED BY <1>3, <1>4, <1>5
(***************************************************************************)
(* "An edge must not point at a node nobody minted" (compose lib.rs:318,   *)
(* terraform lib.rs:182): of every plugin that reads declarations, for     *)
(* every tree, every way of cutting it and every interleaving, the edges   *)
(* of the answer join nodes of the answer, except a mount, a route or a    *)
(* `depends_on` of what no file of the tree declares.                      *)
(***************************************************************************)
THEOREM ReferencesDangle == Spec => []OnlyReferencesDangle
<1>1. ASSUME Inv, out # Pending, input.plugin # "k8s", NEW e \in Edges
      PROVE  /\ e.src \in NodeKeys
             /\ e.dst \in NodeKeys \/ (input.plugin = "compose" /\ e.type = "DEPENDS_ON" /\ ~ServiceOf(e.dst))
  <2> DEFINE p == input.plugin
             m == Whole(p, input.files)
  <2>1. input \in Tree /\ out = ResolvedBy(p, m) /\ p \in Readers
    <3>1. input \in Tree /\ out = AnswerTo(input)
      BY <1>1 DEF Inv
    <3> QED BY <1>1, <3>1, WholeIsMerged
  <2>2. Stands(p, Needs(p, m), m)
    BY <1>1, <2>1, WholeStands
  <2> HIDE DEF m
  <2>3. CASE p = "terraform"
    <3>1. out = Terraform!Resolve(m) /\ Stands("terraform", RootKeys(m), m)
      BY <2>1, <2>2, <2>3 DEF ResolvedBy, Needs
    <3>2. \A x \in ToSet(Terraform!Resolve(m).edges) :
             {x.src, x.dst} \subseteq {n.key : n \in ToSet(Terraform!Resolve(m).nodes)}
      BY <3>1, ResolveJoins
    <3>3. \A x \in ToSet(out.edges) : {x.src, x.dst} \subseteq {n.key : n \in ToSet(out.nodes)}
      BY <3>1, <3>2
    <3> QED BY <1>1, <3>3 DEF Edges, NodeKeys, ToSet
  <2>4. CASE p # "terraform"
    <3> DEFINE r == Simple!Finish(m)
    <3>1. out = r
      <4>1. p # "k8s" /\ p # "terraform"
        BY <1>1, <2>4
      <4> QED BY <2>1, <4>1 DEF ResolvedBy
    <3>2. out.nodes = m["nodes"] /\ out.edges = m["edges"]
      BY <3>1 DEF Simple!Finish
    <3>3. NodeKeys = KeysIn(m) /\ Edges = EdgesIn(m)
      BY <3>2 DEF NodeKeys, Edges, KeysIn, NodesIn, EdgesIn, ToSet
    <3>4. Needs(p, m) \cup KeysIn(m) \subseteq KeysIn(m)
      BY <2>4 DEF Needs
    <3>5. Joined(p, KeysIn(m), m)
      BY <2>2, <3>4 DEF Stands
    <3>6. e.src \in NodeKeys /\ (e.dst \in NodeKeys \/ (p = "compose" /\ e.type = "DEPENDS_ON"))
      BY <1>1, <2>4, <3>3, <3>5 DEF Joined, Loose
    <3>7. ASSUME p = "compose", ServiceOf(e.dst) PROVE e.dst \in NodeKeys
      <4>1. PICK f \in ToSet(input.files) : e.dst \in ServicesIn(f)
        BY <3>7 DEF ServiceOf, Files, ServicesIn
      <4>2. ServicesIn(f) \subseteq KeysIn(m)
        BY <2>1, <3>7, ServiceHasNode DEF m
      <4> QED BY <3>3, <4>1, <4>2
    <3> QED BY <3>6, <3>7
  <2> QED BY <2>3, <2>4
<1>2. Inv /\ OnlyMountsDangle => OnlyReferencesDangle
  BY <1>1 DEF OnlyReferencesDangle
<1> QED BY <1>2, Invariance, MountsDangle, PTL
----------------------------------------------------------------------------
(***************************************************************************)
(* The images of an answer.                                                *)
(***************************************************************************)
(* A node of an answer, of whatever plugin, that is of an image has its    *)
(* reference as its key, and the parts of that.                            *)
LEMMA AnswerShows ==
    ASSUME Inv, out # Pending, NEW i \in DOMAIN out.nodes
    PROVE  OfImage(out.nodes[i])
<1> DEFINE p == input.plugin
           m == Whole(p, input.files)
<1>1. out.nodes[i] \in ToSet(out.nodes)
  BY DEF ToSet
<1>2. CASE p = "k8s"
  <2> DEFINE c == Given
  <2>1. out = K8s!Resolve(c) /\ IsChunk(c)
    BY <1>2, AnswerIs DEF Answered, GivesAll, Closed
  <2> HIDE DEF c
  <2>2. out.nodes = c.nodes \o K8s!NamespaceNodes(c)
    BY <2>1 DEF K8s!Resolve
  <2>3. \A n \in ToSet(out.nodes) : OfImage(n)
    BY <2>1, <2>2, NodesOfAnswer
  <2> QED BY <1>1, <2>3
<1>3. CASE p # "k8s"
  <2>1. input \in Tree /\ out = ResolvedBy(p, m)
    <3>1. input \in Tree /\ out = AnswerTo(input)
      BY DEF Inv
    <3> QED BY <1>3, <3>1, WholeIsMerged
  <2>2. Stands(p, Needs(p, m), m)
    BY <1>3, <2>1, WholeStands
  <2> HIDE DEF m
  <2>3. CASE p = "terraform"
    <3>1. out = Terraform!Resolve(m) /\ Stands("terraform", RootKeys(m), m)
      BY <2>1, <2>2, <2>3 DEF ResolvedBy, Needs
    <3>2. \A n \in ToSet(Terraform!Resolve(m).nodes) : OfImage(n)
      BY <3>1, ResolveJoins
    <3> QED BY <1>1, <3>1, <3>2
  <2>4. CASE p # "terraform"
    <3> DEFINE r == Simple!Finish(m)
    <3>1. out = r
      BY <1>3, <2>1, <2>4 DEF ResolvedBy
    <3>2. out.nodes = m["nodes"]
      BY <3>1 DEF Simple!Finish
    <3>3. \A n \in ToSet(out.nodes) : OfImage(n)
      BY <2>2, <3>2 DEF Stands, Imaged, NodesIn
    <3> QED BY <1>1, <3>3
  <2> QED BY <2>3, <2>4
<1> QED BY <1>2, <1>3

(* What the parts make is the same, whichever module puts them together.   *)
LEMMA SameRejoined ==
    /\ \A p : Compose!Rejoined(p) = Reference!Rejoined(p)
    /\ \A text, registry : /\ Compose!Echoes(text, registry) <=> Reference!Echoes(text, registry)
                           /\ Compose!Doubled(text, registry) <=> Reference!Doubled(text, registry)
<1>1. \A p : Compose!Rejoined(p) = Reference!Rejoined(p)
  BY DEF Compose!Rejoined, Reference!Rejoined, Compose!Optional, Reference!Optional, Compose!None, Reference!None
<1>2. \A text, c : Compose!FirstAt(text, c) = Reference!FirstAt(text, c)
  BY DEF Compose!FirstAt, Reference!FirstAt, Compose!SelectInSeq, Reference!SelectInSeq, Compose!Min, Reference!Min
<1>3. \A text, registry : Compose!Echoes(text, registry) <=> Reference!Echoes(text, registry)
  BY <1>2 DEF Compose!Echoes, Reference!Echoes, Compose!After, Reference!After, Compose!Before, Reference!Before
<1>4. \A text, registry : Compose!Doubled(text, registry) <=> Reference!Doubled(text, registry)
  BY DEF Compose!Doubled, Reference!Doubled
<1> QED BY <1>1, <1>3, <1>4

(***************************************************************************)
(* Whatever plugin answers, for every tree, cut and interleaving: a colon  *)
(* is a tag's only in the final path segment, and the parts of an image    *)
(* reference put together again are the reference, unless the path behind  *)
(* the registry occurs further ahead too or begins with a slash of its own *)
(* (sdk/rust/src/ops.rs:39-43).                                            *)
(***************************************************************************)
THEOREM ImagesPutTogether == Spec => []ImagesRejoin
<1>1. Inv => ImagesRejoin
  <2> SUFFICES ASSUME Inv, out # Pending, NEW i \in DOMAIN out.nodes, out.nodes[i].label = "Image"
               PROVE  LET n == out.nodes[i] IN
                      /\ n.parts.tag # None => "/" \notin ToSet(n.parts.tag[1])
                      /\ (n.parts.registry # None => /\ ~Compose!Echoes(n.key, n.parts.registry[1])
                                                    /\ ~Compose!Doubled(n.key, n.parts.registry[1]))
                            => Compose!Rejoined(n.parts) = n.key
    BY DEF ImagesRejoin
  <2> DEFINE text == out.nodes[i].key
             p == out.nodes[i].parts
  <2>1. p = Reference!ParseImage(text) /\ Len(text) \in Nat /\ text = [j \in 1..Len(text) |-> text[j]]
    <3>1. p = Reference!ParseImage(text) /\ Facts!IsRow(text)
      BY AnswerShows DEF OfImage
    <3> QED BY <3>1 DEF Facts!IsRow
  <2> HIDE DEF text, p
  <2>2. /\ p.tag # <<>> => "/" \notin ToSet(p.tag[1])
        /\ (p.registry # <<>> => ~Reference!Echoes(text, p.registry[1]) /\ ~Reference!Doubled(text, p.registry[1]))
              => Reference!Rejoined(p) = text
    BY <2>1, PartsRejoin
  <2>3. /\ p.tag # None => "/" \notin ToSet(p.tag[1])
        /\ (p.registry # None => ~Compose!Echoes(text, p.registry[1]) /\ ~Compose!Doubled(text, p.registry[1]))
              => Compose!Rejoined(p) = text
    BY <2>2, SameRejoined DEF None
  <2> QED BY <2>3 DEF text, p
<1> QED BY <1>1, Invariance, PTL
=============================================================================
