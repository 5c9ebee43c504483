-------------------------- MODULE ManifestsProofs --------------------------
(***************************************************************************)
(* Chunks implements OneShot, and what Kubernetes, Compose and Terraform   *)
(* answer of a tree, however it is cut.                                    *)
(*                                                                         *)
(* Chunks.  A chunk being parsed has found what its files up to some place *)
(* have in them, put one behind the other (Found); so has `assemble`, up   *)
(* to the end of the last chunk it merged.  That two stretches that meet,  *)
(* joined, are one stretch (StretchesJoin) is an induction along the list  *)
(* of files, on the fact that JoinPartials is associative.                 *)
(*                                                                         *)
(* Kubernetes.  By that invariant the answer is the resolution of the      *)
(* whole tree, so what is left is to say what the whole tree gives.  Every *)
(* chunk is made of pieces put one behind the other, so what it lists is   *)
(* what any of the pieces lists (MergeAllLists), and it is Closed, every   *)
(* edge sound among its own keys, if they are.  A document gives the       *)
(* selector or the workload it is (DocumentGives), and a tree what its     *)
(* documents do (TreeGives).  The pass over the whole tree adds the nodes  *)
(* of the namespaces, the selections of the pairs that match, and their    *)
(* count.                                                                  *)
(*                                                                         *)
(* Compose and Terraform.  A partial Stands, of the keys it needs and      *)
(* those of its nodes, if its edges join such keys.  Partials put together *)
(* stand of what all of them list (MergedStands), so what a file gives     *)
(* stands if every fact of it does where it is put.                        *)
(***************************************************************************)
EXTENDS Manifests, FoldLemmas, NaturalsInduction

(* A row is a sequence over what it lists. *)
LEMMA RowsAreSeqs ==
    ASSUME NEW s, NEW t, NEW u, Facts!IsRow(s), Facts!IsRow(t), Facts!IsRow(u)
    PROVE  \E S : s \in Seq(S) /\ t \in Seq(S) /\ u \in Seq(S)
<1> DEFINE S == {s[i] : i \in 1..Len(s)} \cup {t[i] : i \in 1..Len(t)} \cup {u[i] : i \in 1..Len(u)}
<1>1. s \in [1..Len(s) -> S] /\ t \in [1..Len(t) -> S] /\ u \in [1..Len(u) -> S]
  <2>1. s = [i \in 1..Len(s) |-> s[i]] /\ t = [i \in 1..Len(t) |-> t[i]] /\ u = [i \in 1..Len(u) |-> u[i]]
    BY DEF Facts!IsRow
  <2>2. /\ \A i \in 1..Len(s) : s[i] \in S
        /\ \A i \in 1..Len(t) : t[i] \in S
        /\ \A i \in 1..Len(u) : u[i] \in S
    OBVIOUS
  <2> HIDE DEF S
  <2> QED BY <2>1, <2>2
<1> HIDE DEF S
<1>2. Len(s) \in Nat /\ Len(t) \in Nat /\ Len(u) \in Nat
  BY DEF Facts!IsRow
<1> QED BY <1>1, <1>2, FunctionIsSeq

(* A sequence is a row. *)
LEMMA SeqIsRow == ASSUME NEW S, NEW s \in Seq(S) PROVE Facts!IsRow(s)
<1>1. Len(s) \in Nat /\ DOMAIN s = 1..Len(s) /\ s \in [1..Len(s) -> S]
  OBVIOUS
<1> QED BY <1>1 DEF Facts!IsRow

(* Rows put one behind the other are a row; it does not matter which two   *)
(* are put together first.                                                 *)
LEMMA RowsJoin ==
    ASSUME NEW s, NEW t, NEW u, Facts!IsRow(s), Facts!IsRow(t), Facts!IsRow(u)
    PROVE  Facts!IsRow(s \o t) /\ (s \o t) \o u = s \o (t \o u) /\ s \o <<>> = s /\ <<>> \o s = s
<1>1. PICK S : s \in Seq(S) /\ t \in Seq(S) /\ u \in Seq(S)
  BY RowsAreSeqs
<1>2. s \o t \in Seq(S)
  BY <1>1, ConcatProperties
<1>3. Facts!IsRow(s \o t)
  BY <1>2, SeqIsRow
<1> QED BY <1>1, <1>3, ConcatAssociative, ConcatEmptySeq

(* The empty list is a row. *)
LEMMA NoneIsRow == Facts!IsRow(<<>>)
BY DEF Facts!IsRow

(* The partial nothing was found for is a partial. *)
LEMMA BlankIsPartial == ASSUME NEW F PROVE Facts!IsPartial(F, Facts!Blank(F))
BY NoneIsRow DEF Facts!IsPartial, Facts!Blank

(* Two partials joined are a partial. *)
LEMMA JoinIsPartial ==
    ASSUME NEW F, NEW c, NEW d, Facts!IsPartial(F, c), Facts!IsPartial(F, d)
    PROVE  Facts!IsPartial(F, Facts!JoinPartials(c, d))
<1>1. DOMAIN c = F
  BY DEF Facts!IsPartial
<1>2. Facts!JoinPartials(c, d) = [f \in F |-> IF f = "skipped" THEN c[f] + d[f] ELSE c[f] \o d[f]]
  BY <1>1 DEF Facts!JoinPartials
<1>3. ASSUME NEW f \in F PROVE IF f = "skipped" THEN c[f] + d[f] \in Nat ELSE Facts!IsRow(c[f] \o d[f])
  <2>1. CASE f = "skipped"
    BY <2>1 DEF Facts!IsPartial
  <2>2. CASE f # "skipped"
    <3>1. Facts!IsRow(c[f]) /\ Facts!IsRow(d[f])
      BY <2>2 DEF Facts!IsPartial
    <3> QED BY <2>2, <3>1, RowsJoin
  <2> QED BY <2>1, <2>2
<1> QED BY <1>2, <1>3 DEF Facts!IsPartial

(* Joining partials is associative. *)
LEMMA JoinIsAssociative ==
    ASSUME NEW F, NEW c, NEW d, NEW e,
           Facts!IsPartial(F, c), Facts!IsPartial(F, d), Facts!IsPartial(F, e)
    PROVE  Facts!JoinPartials(Facts!JoinPartials(c, d), e) = Facts!JoinPartials(c, Facts!JoinPartials(d, e))
<1>1. DOMAIN c = F /\ DOMAIN d = F
  BY DEF Facts!IsPartial
<1>2. Facts!JoinPartials(c, d) = [f \in F |-> IF f = "skipped" THEN c[f] + d[f] ELSE c[f] \o d[f]]
  BY <1>1 DEF Facts!JoinPartials
<1>3. Facts!JoinPartials(d, e) = [f \in F |-> IF f = "skipped" THEN d[f] + e[f] ELSE d[f] \o e[f]]
  BY <1>1 DEF Facts!JoinPartials
<1>4. Facts!JoinPartials(Facts!JoinPartials(c, d), e) =
        [f \in F |-> IF f = "skipped" THEN (c[f] + d[f]) + e[f] ELSE (c[f] \o d[f]) \o e[f]]
  <2> DEFINE cd == [f \in F |-> IF f = "skipped" THEN c[f] + d[f] ELSE c[f] \o d[f]]
  <2>1. DOMAIN cd = F /\ \A f \in F : cd[f] = IF f = "skipped" THEN c[f] + d[f] ELSE c[f] \o d[f]
    OBVIOUS
  <2> HIDE DEF cd
  <2>2. Facts!JoinPartials(cd, e) = [f \in F |-> IF f = "skipped" THEN cd[f] + e[f] ELSE cd[f] \o e[f]]
    BY <2>1 DEF Facts!JoinPartials
  <2>3. ASSUME NEW f \in F
        PROVE (IF f = "skipped" THEN cd[f] + e[f] ELSE cd[f] \o e[f])
              = (IF f = "skipped" THEN (c[f] + d[f]) + e[f] ELSE (c[f] \o d[f]) \o e[f])
    BY <2>1
  <2>4. Facts!JoinPartials(c, d) = cd
    BY <1>2 DEF cd
  <2> QED BY <2>2, <2>3, <2>4
<1>5. Facts!JoinPartials(c, Facts!JoinPartials(d, e)) =
        [f \in F |-> IF f = "skipped" THEN c[f] + (d[f] + e[f]) ELSE c[f] \o (d[f] \o e[f])]
  BY <1>1, <1>3 DEF Facts!JoinPartials
<1>6. ASSUME NEW f \in F
      PROVE  IF f = "skipped" THEN (c[f] + d[f]) + e[f] = c[f] + (d[f] + e[f])
             ELSE (c[f] \o d[f]) \o e[f] = c[f] \o (d[f] \o e[f])
  <2>1. CASE f = "skipped"
    <3>1. c[f] \in Nat /\ d[f] \in Nat /\ e[f] \in Nat
      BY <2>1 DEF Facts!IsPartial
    <3> QED BY <2>1, <3>1
  <2>2. CASE f # "skipped"
    <3> DEFINE x == c[f]
               y == d[f]
               z == e[f]
    <3>1. Facts!IsRow(x) /\ Facts!IsRow(y) /\ Facts!IsRow(z)
      BY <2>2 DEF Facts!IsPartial
    <3> HIDE DEF x, y, z
    <3>2. (x \o y) \o z = x \o (y \o z)
      BY <3>1, RowsJoin
    <3> QED BY <2>2, <3>2 DEF x, y, z
  <2> QED BY <2>1, <2>2
<1> QED BY <1>4, <1>5, <1>6

(* Joining what nothing was found for adds nothing. *)
LEMMA JoinBlank ==
    ASSUME NEW F, NEW c, Facts!IsPartial(F, c)
    PROVE  Facts!JoinPartials(c, Facts!Blank(F)) = c
<1>1. c = [f \in F |-> c[f]] /\ DOMAIN c = F
  BY DEF Facts!IsPartial
<1>2. Facts!JoinPartials(c, Facts!Blank(F)) = [f \in F |-> IF f = "skipped" THEN c[f] + 0 ELSE c[f] \o <<>>]
  BY <1>1 DEF Facts!JoinPartials, Facts!Blank
<1>3. ASSUME NEW f \in F PROVE (IF f = "skipped" THEN c[f] + 0 ELSE c[f] \o <<>>) = c[f]
  <2>1. CASE f = "skipped"
    BY <2>1 DEF Facts!IsPartial
  <2>2. CASE f # "skipped"
    <3>1. Facts!IsRow(c[f])
      BY <2>2 DEF Facts!IsPartial
    <3> QED BY <2>2, <3>1, NoneIsRow, RowsJoin
  <2> QED BY <2>1, <2>2
<1> QED BY <1>1, <1>2, <1>3
----------------------------------------------------------------------------
(***************************************************************************)
(* What the files of t behind the first i have in them, up to each place.  *)
(***************************************************************************)
Nil(t) == Facts!Blank(PartsOf(t.plugin))
Of(t, n) == FindIn(t.plugin, t.files[n])
Found(t, i) ==
    CHOOSE g : g = [n \in 0..Len(t.files) |->
        IF n = 0 THEN Nil(t) ELSE IF n <= i THEN Nil(t) ELSE Facts!JoinPartials(g[n - 1], Of(t, n))]
IsFound(t, c) == Facts!IsPartial(PartsOf(t.plugin), c)

(* The recursion defines Found. *)
LEMMA FoundIs ==
    ASSUME NEW t \in Tree, NEW i \in 0..Len(t.files)
    PROVE  /\ Len(t.files) \in Nat
           /\ Found(t, i) = [n \in 0..Len(t.files) |->
                  IF n = 0 THEN Nil(t) ELSE IF n <= i THEN Nil(t) ELSE Facts!JoinPartials(Found(t, i)[n - 1], Of(t, n))]
<1> DEFINE Def(v, n) == IF n <= i THEN Nil(t) ELSE Facts!JoinPartials(v, Of(t, n))
           g == Found(t, i)
<1>1. Len(t.files) \in Nat
  BY TreeAssumption DEF Facts!IsRow
<1>2. g = CHOOSE h : h = [n \in 0..Len(t.files) |-> IF n = 0 THEN Nil(t) ELSE Def(h[n - 1], n)]
  BY DEF Found
<1> HIDE DEF Def, g
<1>3. FiniteNatInductiveDefHypothesis(g, Nil(t), Def, 0, Len(t.files))
  BY <1>2 DEF FiniteNatInductiveDefHypothesis
<1>4. FiniteNatInductiveDefConclusion(g, Nil(t), Def, 0, Len(t.files))
  BY <1>1, <1>3, FiniteNatInductiveDef
<1>5. g = [n \in 0..Len(t.files) |-> IF n = 0 THEN Nil(t) ELSE Def(g[n - 1], n)]
  BY <1>4 DEF FiniteNatInductiveDefConclusion
<1> QED BY <1>1, <1>5 DEF Def, g

(* It starts with nothing, and takes in one file after the other. *)
LEMMA FoundSteps ==
    ASSUME NEW t \in Tree, NEW i \in 0..Len(t.files)
    PROVE  /\ Found(t, i)[i] = Nil(t)
           /\ \A n \in i..(Len(t.files) - 1) : Found(t, i)[n + 1] = Facts!JoinPartials(Found(t, i)[n], Of(t, n + 1))
<1>1. Len(t.files) \in Nat
  BY FoundIs
<1>2. \A n \in 0..Len(t.files) : Found(t, i)[n] =
          IF n = 0 THEN Nil(t) ELSE IF n <= i THEN Nil(t) ELSE Facts!JoinPartials(Found(t, i)[n - 1], Of(t, n))
  <2> DEFINE g == Found(t, i)
  <2>1. g = [n \in 0..Len(t.files) |->
                IF n = 0 THEN Nil(t) ELSE IF n <= i THEN Nil(t) ELSE Facts!JoinPartials(g[n - 1], Of(t, n))]
    BY FoundIs
  <2> HIDE DEF g
  <2>2. \A n \in 0..Len(t.files) : g[n] =
            IF n = 0 THEN Nil(t) ELSE IF n <= i THEN Nil(t) ELSE Facts!JoinPartials(g[n - 1], Of(t, n))
    BY <2>1
  <2> QED BY <2>2 DEF g
<1>3. ASSUME NEW n \in i..(Len(t.files) - 1)
      PROVE  Found(t, i)[n + 1] = Facts!JoinPartials(Found(t, i)[n], Of(t, n + 1))
  <2>1. n + 1 \in 0..Len(t.files) /\ n + 1 # 0 /\ ~(n + 1 <= i) /\ (n + 1) - 1 = n
    BY <1>1
  <2> QED BY <1>2, <2>1
<1>4. i \in 0..Len(t.files) /\ i <= i
  BY <1>1
<1> QED BY <1>2, <1>3, <1>4

(* What is found is a partial, at every place. *)
LEMMA FoundTyped ==
    ASSUME NEW t \in Tree, NEW i \in 0..Len(t.files), NEW n \in i..Len(t.files)
    PROVE  IsFound(t, Found(t, i)[n])
<1> DEFINE S == {k \in Nat : i + k <= Len(t.files) => IsFound(t, Found(t, i)[i + k])}
<1>1. Len(t.files) \in Nat
  BY FoundIs
<1>2. 0 \in S
  <2>1. i + 0 = i
    BY <1>1
  <2> QED BY <2>1, FoundSteps, BlankIsPartial DEF IsFound, Nil
<1>3. ASSUME NEW k \in Nat, k \in S PROVE k + 1 \in S
  <2> SUFFICES ASSUME i + (k + 1) <= Len(t.files) PROVE IsFound(t, Found(t, i)[i + (k + 1)])
    OBVIOUS
  <2>1. /\ i + k \in i..(Len(t.files) - 1) /\ i + (k + 1) = (i + k) + 1
        /\ i + k <= Len(t.files) /\ i + (k + 1) \in 1..Len(t.files)
    BY <1>1
  <2>2. IsFound(t, Found(t, i)[i + k])
    BY <1>3, <2>1
  <2>3. IsFound(t, Of(t, i + (k + 1)))
    <3>1. DOMAIN t.files = 1..Len(t.files)
      BY TreeAssumption DEF Facts!IsRow
    <3> QED BY <2>1, <3>1, ReadAssumption DEF IsFound, Of
  <2>4. Found(t, i)[i + (k + 1)] = Facts!JoinPartials(Found(t, i)[i + k], Of(t, i + (k + 1)))
    BY <2>1, FoundSteps
  <2> QED BY <2>2, <2>3, <2>4, JoinIsPartial DEF IsFound
<1>4. Nat \subseteq S
  <2> HIDE DEF S
  <2> QED BY <1>2, <1>3, CountingUp
<1>5. n - i \in Nat /\ i + (n - i) = n
  BY <1>1
<1>6. n - i \in S
  <2> HIDE DEF S
  <2> QED BY <1>4, <1>5
<1> QED BY <1>5, <1>6

(* Two stretches that meet, joined, are one stretch. *)
LEMMA StretchesJoin ==
    ASSUME NEW t \in Tree, NEW i \in 0..Len(t.files), NEW j \in i..Len(t.files), NEW n \in j..Len(t.files)
    PROVE  Facts!JoinPartials(Found(t, i)[j], Found(t, j)[n]) = Found(t, i)[n]
<1> DEFINE S == {k \in Nat : j + k <= Len(t.files) =>
                    Facts!JoinPartials(Found(t, i)[j], Found(t, j)[j + k]) = Found(t, i)[j + k]}
<1>1. Len(t.files) \in Nat /\ j \in 0..Len(t.files)
  BY FoundIs
<1>2. IsFound(t, Found(t, i)[j])
  BY <1>1, FoundTyped
<1>3. 0 \in S
  <2>1. j + 0 = j
    BY <1>1
  <2>2. Facts!JoinPartials(Found(t, i)[j], Nil(t)) = Found(t, i)[j]
    BY <1>2, JoinBlank DEF IsFound, Nil
  <2>3. Found(t, j)[j] = Nil(t)
    BY <1>1, FoundSteps
  <2> QED BY <2>1, <2>2, <2>3
<1>4. ASSUME NEW k \in Nat, k \in S PROVE k + 1 \in S
  <2> SUFFICES ASSUME j + (k + 1) <= Len(t.files)
               PROVE  Facts!JoinPartials(Found(t, i)[j], Found(t, j)[j + (k + 1)]) = Found(t, i)[j + (k + 1)]
    OBVIOUS
  <2>1. /\ j + k \in j..(Len(t.files) - 1) /\ j + k \in i..(Len(t.files) - 1) /\ j + k \in j..Len(t.files)
        /\ j + (k + 1) = (j + k) + 1 /\ j + (k + 1) \in 1..Len(t.files)
    BY <1>1
  <2>2. Facts!JoinPartials(Found(t, i)[j], Found(t, j)[j + k]) = Found(t, i)[j + k]
    BY <1>4, <2>1
  <2>3. /\ Found(t, i)[j + (k + 1)] = Facts!JoinPartials(Found(t, i)[j + k], Of(t, j + (k + 1)))
        /\ Found(t, j)[j + (k + 1)] = Facts!JoinPartials(Found(t, j)[j + k], Of(t, j + (k + 1)))
    BY <1>1, <2>1, FoundSteps
  <2>4. IsFound(t, Found(t, j)[j + k])
    BY <1>1, <2>1, FoundTyped
  <2>5. IsFound(t, Of(t, j + (k + 1)))
    <3>1. DOMAIN t.files = 1..Len(t.files)
      BY TreeAssumption DEF Facts!IsRow
    <3> QED BY <2>1, <3>1, ReadAssumption DEF IsFound, Of
  <2>6. Facts!JoinPartials(Facts!JoinPartials(Found(t, i)[j], Found(t, j)[j + k]), Of(t, j + (k + 1)))
          = Facts!JoinPartials(Found(t, i)[j], Facts!JoinPartials(Found(t, j)[j + k], Of(t, j + (k + 1))))
    BY <1>2, <2>4, <2>5, JoinIsAssociative DEF IsFound
  <2> QED BY <2>2, <2>3, <2>6
<1>5. Nat \subseteq S
  <2> HIDE DEF S
  <2> QED BY <1>3, <1>4, CountingUp
<1>6. n - j \in Nat /\ j + (n - j) = n
  BY <1>1
<1> QED BY <1>5, <1>6

(* All of it, in one stretch, is what one chunk gives. *)
LEMMA FoundIsWhole ==
    ASSUME NEW t \in Tree
    PROVE  Found(t, 0)[Len(t.files)] = Whole(t.plugin, t.files)
<1> DEFINE Op(c, file) == Facts!JoinPartials(c, FindIn(t.plugin, file))
<1>1. Len(t.files) \in Nat /\ DOMAIN t.files = 1..Len(t.files) /\ 0 \in 0..Len(t.files)
  BY TreeAssumption DEF Facts!IsRow
<1>2. Whole(t.plugin, t.files) = FoldLeft(Op, Nil(t), t.files)
  BY DEF Whole, Nil
<1>3. PICK up : /\ \A n \in 0..Len(t.files) : up[n] = IF n = 0 THEN Nil(t) ELSE Op(up[n - 1], t.files[n])
                /\ FoldLeft(Op, Nil(t), t.files) = up[Len(t.files)]
  <2> HIDE DEF Op
  <2>1. IsFold(Op, Nil(t), t.files, FoldLeft(Op, Nil(t), t.files))
    BY <1>1, FoldLeftSteps
  <2>2. PICK up : Steps(Op, Nil(t), t.files, up) /\ FoldLeft(Op, Nil(t), t.files) = up[Len(t.files)]
    BY <2>1 DEF IsFold
  <2>3. \A n \in 0..Len(t.files) : up[n] = IF n = 0 THEN Nil(t) ELSE Op(up[n - 1], t.files[n])
    BY <2>2 DEF Steps
  <2> QED BY <2>2, <2>3
<1> DEFINE S == {k \in Nat : k <= Len(t.files) => Found(t, 0)[k] = up[k]}
<1>4. 0 \in S
  <2>1. up[0] = Nil(t)
    BY <1>1, <1>3
  <2> QED BY <1>1, <2>1, FoundSteps
<1>5. ASSUME NEW k \in Nat, k \in S PROVE k + 1 \in S
  <2> SUFFICES ASSUME k + 1 <= Len(t.files) PROVE Found(t, 0)[k + 1] = up[k + 1]
    OBVIOUS
  <2>1. k \in 0..(Len(t.files) - 1) /\ k + 1 \in 0..Len(t.files) /\ k + 1 # 0 /\ (k + 1) - 1 = k /\ k <= Len(t.files)
    BY <1>1
  <2>2. up[k + 1] = Facts!JoinPartials(up[k], FindIn(t.plugin, t.files[k + 1]))
    BY <1>3, <2>1
  <2>3. Found(t, 0)[k + 1] = Facts!JoinPartials(Found(t, 0)[k], Of(t, k + 1))
    BY <1>1, <2>1, FoundSteps
  <2>4. Found(t, 0)[k] = up[k]
    BY <1>5, <2>1
  <2> QED BY <2>2, <2>3, <2>4 DEF Of
<1>6. Nat \subseteq S
  <2> HIDE DEF S
  <2> QED BY <1>4, <1>5, CountingUp
<1>7. Len(t.files) \in S
  <2> HIDE DEF S
  <2> QED BY <1>1, <1>6
<1>8. Found(t, 0)[Len(t.files)] = up[Len(t.files)]
  BY <1>1, <1>7
<1> HIDE DEF Op
<1> QED BY <1>2, <1>3, <1>8
----------------------------------------------------------------------------
(***************************************************************************)
(* The invariant.  Each chunk has found what its files up to some place    *)
(* have in them, and has the rest left; assemble, which begins when no     *)
(* chunk has any left, what the files of the chunks it merged have.        *)
(***************************************************************************)
Reading(t, from, to, chunk) ==
    \E place \in from..to :
        chunk = [left |-> SubSeq(t.files, place + 1, to), found |-> Found(t, from)[place]]
Cut(t, n, at, chunks) ==
    /\ at \in Cuts(n, Len(t.files))
    /\ chunks = [c \in 1..n |-> chunks[c]]
    /\ \A c \in 1..n : Reading(t, at[c - 1], at[c], chunks[c])
Merged(t, n, at, m, c) == m \in 0..n /\ c = Found(t, 0)[at[m]]
Inv ==
    /\ input \in Tree
    /\ \E n \in Nat : \E at : Cut(input, n, at, parsing) /\ Merged(input, n, at, merged, all)
    /\ merged # 0 => AllParsed
    /\ out \in {Pending, AnswerTo(input)}

(* Cuts are places in the list, in order. *)
LEMMA CutsInOrder ==
    ASSUME NEW t \in Tree, NEW n \in Nat, NEW at \in Cuts(n, Len(t.files))
    PROVE  /\ Len(t.files) \in Nat
           /\ at[0] = 0 /\ at[n] = Len(t.files)
           /\ \A c \in 0..n : at[c] \in 0..Len(t.files)
           /\ \A c \in 1..n : at[c - 1] \in 0..Len(t.files) /\ at[c] \in at[c - 1]..Len(t.files) /\ at[c - 1] < at[c]
<1>1. Len(t.files) \in Nat
  BY FoundIs, 0 \in 0..Len(t.files), TreeAssumption DEF Facts!IsRow
<1>2. /\ at \in [0..n -> 0..Len(t.files)] /\ at[0] = 0 /\ at[n] = Len(t.files)
      /\ \A c \in 1..n : at[c - 1] < at[c]
  BY DEF Cuts
<1>3. \A c \in 1..n : c - 1 \in 0..n /\ c \in 0..n
  OBVIOUS
<1>4. \A c \in 0..n : at[c] \in 0..Len(t.files)
  BY <1>2
<1> QED BY <1>1, <1>2, <1>3, <1>4

(* What a file list has left after one more file. *)
LEMMA LeftSteps ==
    ASSUME NEW t \in Tree, NEW place \in 0..Len(t.files), NEW to \in place..Len(t.files)
    PROVE  /\ SubSeq(t.files, place + 1, to) = <<>> <=> place = to
           /\ place # to => /\ Head(SubSeq(t.files, place + 1, to)) = t.files[place + 1]
                            /\ Tail(SubSeq(t.files, place + 1, to)) = SubSeq(t.files, (place + 1) + 1, to)
<1>1. Facts!IsRow(t.files) /\ Len(t.files) \in Nat
  BY TreeAssumption DEF Facts!IsRow
<1>2. PICK S : t.files \in Seq(S)
  BY <1>1, RowsAreSeqs
<1>3. CASE place = to
  <2>1. to < place + 1 /\ place + 1 \in Int /\ to \in Int
    BY <1>1, <1>3
  <2> QED BY <1>3, <2>1, SubSeqEmpty
<1>4. CASE place # to
  <2>1. place + 1 \in 1..Len(t.files) /\ to \in (place + 1)..Len(t.files)
    BY <1>1, <1>4
  <2>2. /\ Head(SubSeq(t.files, place + 1, to)) = t.files[place + 1]
        /\ Tail(SubSeq(t.files, place + 1, to)) = SubSeq(t.files, (place + 1) + 1, to)
    BY <1>2, <2>1, HeadTailOfSubSeq
  <2>3. Len(SubSeq(t.files, place + 1, to)) = to - (place + 1) + 1
    <3>1. \A i \in (place + 1)..to : t.files[i] \in S
      BY <1>1, <1>2, <2>1
    <3>2. place + 1 \in Int /\ to \in Int /\ place + 1 <= to
      BY <1>1, <2>1
    <3> QED BY <3>1, <3>2, SubSeqProperties
  <2>4. Len(SubSeq(t.files, place + 1, to)) # 0
    BY <1>1, <2>1, <2>3
  <2>5. Len(<<>>) = 0
    OBVIOUS
  <2> QED BY <1>4, <2>2, <2>4, <2>5
<1> QED BY <1>3, <1>4
(* At the start every chunk has all its files left. *)
LEMMA InitInv == Init => Inv
<1> SUFFICES ASSUME Init PROVE Inv
  OBVIOUS
<1>1. input \in Tree /\ merged = 0 /\ all = Nil(input) /\ out = Pending
  BY DEF Init, Nothing, Nil
<1>0. PICK n \in 0..Len(input.files) : \E at \in Cuts(n, Len(input.files)) :
          parsing = [c \in 1..n |-> [left |-> Pieces(input.files, n, at)[c], found |-> Nil(input)]]
  BY DEF Init, Nothing, Nil
<1>2. PICK at \in Cuts(n, Len(input.files)) :
          parsing = [c \in 1..n |-> [left |-> SubSeq(input.files, at[c - 1] + 1, at[c]), found |-> Nil(input)]]
  <2>1. PICK at \in Cuts(n, Len(input.files)) :
            parsing = [c \in 1..n |-> [left |-> Pieces(input.files, n, at)[c], found |-> Nil(input)]]
    BY <1>0
  <2>2. \A c \in 1..n : Pieces(input.files, n, at)[c] = SubSeq(input.files, at[c - 1] + 1, at[c])
    BY DEF Pieces
  <2> QED BY <2>1, <2>2
<1>3. n \in Nat
  OBVIOUS
<1>4. ASSUME NEW c \in 1..n PROVE Reading(input, at[c - 1], at[c], parsing[c])
  <2>1. /\ Len(input.files) \in Nat /\ at[c - 1] \in 0..Len(input.files)
        /\ at[c] \in at[c - 1]..Len(input.files)
    BY <1>1, <1>3, CutsInOrder
  <2>2. at[c - 1] \in at[c - 1]..at[c]
    BY <2>1
  <2>3. Found(input, at[c - 1])[at[c - 1]] = Nil(input)
    BY <1>1, <2>1, FoundSteps
  <2>4. parsing[c] = [left |-> SubSeq(input.files, at[c - 1] + 1, at[c]), found |-> Nil(input)]
    BY <1>2
  <2> QED BY <2>2, <2>3, <2>4 DEF Reading
<1>5. Cut(input, n, at, parsing)
  <2>1. parsing = [c \in 1..n |-> parsing[c]]
    BY <1>2
  <2> QED BY <1>2, <1>4, <2>1 DEF Cut
<1>6. Merged(input, n, at, merged, all)
  <2>1. at[0] = 0 /\ 0 \in 0..Len(input.files) /\ 0 \in 0..n
    BY <1>1, <1>3, CutsInOrder
  <2>2. Found(input, 0)[0] = Nil(input)
    BY <1>1, <2>1, FoundSteps
  <2> QED BY <1>1, <2>1, <2>2 DEF Merged
<1> QED BY <1>1, <1>3, <1>5, <1>6 DEF Inv

(* A file read takes its chunk one place further. *)
LEMMA ParseKeeps ==
    ASSUME Inv, NEW c \in DOMAIN parsing, ParseFile(c)
    PROVE  Inv'
<1>1. input \in Tree /\ out \in {Pending, AnswerTo(input)}
  BY DEF Inv
<1>0. PICK n \in Nat : \E at : Cut(input, n, at, parsing) /\ Merged(input, n, at, merged, all)
  BY DEF Inv
<1>2. PICK at : Cut(input, n, at, parsing) /\ Merged(input, n, at, merged, all)
  BY <1>0
<1>3. at \in Cuts(n, Len(input.files)) /\ parsing = [k \in 1..n |-> parsing[k]] /\ c \in 1..n
  BY <1>2 DEF Cut
<1>4. PICK place \in at[c - 1]..at[c] :
          parsing[c] = [left |-> SubSeq(input.files, place + 1, at[c]), found |-> Found(input, at[c - 1])[place]]
  BY <1>2, <1>3 DEF Cut, Reading
<1>5. /\ Len(input.files) \in Nat /\ at[c - 1] \in 0..Len(input.files)
      /\ at[c] \in at[c - 1]..Len(input.files)
  BY <1>1, <1>3, CutsInOrder
<1>6. place \in 0..Len(input.files) /\ at[c] \in place..Len(input.files)
  BY <1>5
<1>7. /\ parsing[c].left # <<>> /\ input' = input /\ merged' = merged /\ all' = all /\ out' = out
      /\ parsing' = [parsing EXCEPT ![c] =
            [left |-> Tail(parsing[c].left),
             found |-> Facts!JoinPartials(parsing[c].found, FindIn(input.plugin, Head(parsing[c].left)))]]
  BY DEF ParseFile
<1>8. place # at[c]
  BY <1>1, <1>4, <1>6, <1>7, LeftSteps
<1>9. /\ Head(parsing[c].left) = input.files[place + 1]
      /\ Tail(parsing[c].left) = SubSeq(input.files, (place + 1) + 1, at[c])
  BY <1>1, <1>4, <1>6, <1>8, LeftSteps
<1>10. parsing'[c] = [left |-> SubSeq(input.files, (place + 1) + 1, at[c]),
                      found |-> Found(input, at[c - 1])[place + 1]]
  <2>1. place \in at[c - 1]..(Len(input.files) - 1)
    BY <1>5, <1>8
  <2>2. Found(input, at[c - 1])[place + 1] = Facts!JoinPartials(Found(input, at[c - 1])[place], Of(input, place + 1))
    BY <1>1, <1>5, <2>1, FoundSteps
  <2>3. parsing'[c] = [left |-> Tail(parsing[c].left),
                       found |-> Facts!JoinPartials(parsing[c].found, FindIn(input.plugin, Head(parsing[c].left)))]
    BY <1>3, <1>7
  <2>4. parsing[c].found = Found(input, at[c - 1])[place]
    BY <1>4
  <2>5. Of(input, place + 1) = FindIn(input.plugin, Head(parsing[c].left))
    BY <1>9 DEF Of
  <2>6. Facts!JoinPartials(parsing[c].found, FindIn(input.plugin, Head(parsing[c].left)))
          = Found(input, at[c - 1])[place + 1]
    BY <2>2, <2>4, <2>5
  <2> QED BY <1>9, <2>3, <2>6
<1>11. Reading(input, at[c - 1], at[c], parsing'[c])
  <2>1. place + 1 \in at[c - 1]..at[c]
    BY <1>5, <1>8
  <2> QED BY <1>10, <2>1 DEF Reading
<1>12. Cut(input, n, at, parsing')
  <2>1. parsing' = [k \in 1..n |-> parsing'[k]]
    BY <1>3, <1>7
  <2>2. ASSUME NEW k \in 1..n PROVE Reading(input, at[k - 1], at[k], parsing'[k])
    <3>1. CASE k = c
      BY <1>11, <3>1
    <3>2. CASE k # c
      <4>1. parsing'[k] = parsing[k]
        BY <1>7, <3>2
      <4> QED BY <1>2, <4>1 DEF Cut
    <3> QED BY <3>1, <3>2
  <2> QED BY <1>3, <2>1, <2>2 DEF Cut
<1>13. merged = 0
  BY <1>7 DEF Inv, AllParsed
<1> QED BY <1>1, <1>2, <1>7, <1>12, <1>13 DEF Inv

(* A partial merged takes assemble to the end of the next chunk. *)
LEMMA MergeKeeps ==
    ASSUME Inv, MergePartial
    PROVE  Inv'
<1>1. input \in Tree /\ out \in {Pending, AnswerTo(input)}
  BY DEF Inv
<1>0. PICK n \in Nat : \E at : Cut(input, n, at, parsing) /\ Merged(input, n, at, merged, all)
  BY DEF Inv
<1>2. PICK at : Cut(input, n, at, parsing) /\ Merged(input, n, at, merged, all)
  BY <1>0
<1>3. at \in Cuts(n, Len(input.files)) /\ parsing = [k \in 1..n |-> parsing[k]]
  BY <1>2 DEF Cut
<1>4. merged \in 0..n /\ all = Found(input, 0)[at[merged]]
  BY <1>2 DEF Merged
<1>5. /\ AllParsed /\ merged < Len(parsing) /\ merged' = merged + 1
      /\ all' = Facts!JoinPartials(all, parsing[merged + 1].found)
      /\ input' = input /\ parsing' = parsing /\ out' = out
  BY DEF MergePartial
<1>6. Len(parsing) = n
  BY <1>3
<1>7. merged + 1 \in 1..n /\ merged + 1 \in 0..n /\ (merged + 1) - 1 = merged
  BY <1>4, <1>5, <1>6
<1>8. /\ Len(input.files) \in Nat /\ at[merged] \in 0..Len(input.files)
      /\ at[merged + 1] \in at[merged]..Len(input.files)
  <2>1. /\ Len(input.files) \in Nat /\ at[(merged + 1) - 1] \in 0..Len(input.files)
        /\ at[merged + 1] \in at[(merged + 1) - 1]..Len(input.files)
    BY <1>1, <1>3, <1>7, CutsInOrder
  <2> QED BY <1>7, <2>1
<1>9. PICK place \in at[merged]..at[merged + 1] :
          parsing[merged + 1] = [left |-> SubSeq(input.files, place + 1, at[merged + 1]),
                                 found |-> Found(input, at[merged])[place]]
  BY <1>2, <1>7 DEF Cut, Reading
<1>10. place = at[merged + 1]
  <2>1. place \in 0..Len(input.files) /\ at[merged + 1] \in place..Len(input.files)
    BY <1>8
  <2>2. parsing[merged + 1].left = <<>>
    BY <1>3, <1>5, <1>7 DEF AllParsed
  <2>3. SubSeq(input.files, place + 1, at[merged + 1]) = <<>>
    BY <1>9, <2>2
  <2> QED BY <1>1, <2>1, <2>3, LeftSteps
<1>11. all' = Found(input, 0)[at[merged + 1]]
  <2>1. all' = Facts!JoinPartials(Found(input, 0)[at[merged]], Found(input, at[merged])[at[merged + 1]])
    BY <1>4, <1>5, <1>9, <1>10
  <2>2. 0 \in 0..Len(input.files) /\ at[merged] \in 0..Len(input.files)
    BY <1>8
  <2> QED BY <1>1, <1>8, <2>1, <2>2, StretchesJoin
<1>12. Merged(input, n, at, merged', all')
  BY <1>5, <1>7, <1>11 DEF Merged
<1>13. AllParsed'
  BY <1>5 DEF AllParsed
<1> QED BY <1>1, <1>2, <1>5, <1>12, <1>13 DEF Inv

(* Everything merged is everything there is. *)
LEMMA AllIsWhole ==
    ASSUME Inv, Assembled
    PROVE  /\ out = Pending /\ out' = AnswerTo(input) /\ input' = input
           /\ parsing' = parsing /\ merged' = merged /\ all' = all
<1>1. input \in Tree
  BY DEF Inv
<1>0. PICK n \in Nat : \E at : Cut(input, n, at, parsing) /\ Merged(input, n, at, merged, all)
  BY DEF Inv
<1>2. PICK at : Cut(input, n, at, parsing) /\ Merged(input, n, at, merged, all)
  BY <1>0
<1>3. at \in Cuts(n, Len(input.files)) /\ Len(parsing) = n
  <2>1. at \in Cuts(n, Len(input.files)) /\ parsing = [k \in 1..n |-> parsing[k]]
    BY <1>2 DEF Cut
  <2> QED BY <2>1
<1>4. merged = n
  BY <1>3 DEF Assembled
<1>5. all = Found(input, 0)[Len(input.files)]
  BY <1>1, <1>2, <1>3, <1>4, CutsInOrder DEF Merged
<1>6. all = Whole(input.plugin, input.files)
  BY <1>1, <1>5, FoundIsWhole
<1> QED BY <1>6 DEF Assembled, AnswerTo

(* The answer leaves everything else as it is. *)
LEMMA AnswerKeeps ==
    ASSUME Inv, Assembled
    PROVE  Inv'
<1>1. /\ out' = AnswerTo(input) /\ input' = input /\ parsing' = parsing /\ merged' = merged /\ all' = all
  BY AllIsWhole
<1>2. AllParsed' <=> AllParsed
  BY <1>1 DEF AllParsed
<1> QED BY <1>1, <1>2 DEF Inv

(* The invariant is inductive. *)
LEMMA NextInv == Inv /\ [Next]_vars => Inv'
<1> SUFFICES ASSUME Inv, [Next]_vars PROVE Inv'
  OBVIOUS
<1>1. ASSUME NEW c \in DOMAIN parsing, ParseFile(c) PROVE Inv'
  BY <1>1, ParseKeeps
<1>2. CASE MergePartial
  BY <1>2, MergeKeeps
<1>3. CASE Assembled
  BY <1>3, AnswerKeeps
<1>4. CASE UNCHANGED vars
  <2>1. input' = input /\ parsing' = parsing /\ merged' = merged /\ all' = all /\ out' = out
    BY <1>4 DEF vars
  <2>2. AllParsed' <=> AllParsed
    BY <2>1 DEF AllParsed
  <2> QED BY <2>1, <2>2 DEF Inv
<1> QED BY <1>1, <1>2, <1>3, <1>4 DEF Next

(***************************************************************************)
(* The inductive invariant: chunks and assemble are where they are in the  *)
(* list, and have found exactly what the files they are past have in them. *)
(***************************************************************************)
THEOREM Invariance == Spec => []Inv
<1>1. Init => Inv
  BY InitInv
<1>2. Inv /\ [Next]_vars => Inv'
  BY NextInv
<1> QED BY <1>1, <1>2, PTL DEF Spec

(***************************************************************************)
(* "The result must not depend on where the chunk boundaries fell"         *)
(* (wit/preprocess.wit:156): for every plugin whose partials are put one   *)
(* behind the other, every tree, every way of cutting it and every         *)
(* interleaving of the chunks, parse and assemble are a one-shot answer    *)
(* that is a function of the tree.                                         *)
(***************************************************************************)
THEOREM Implements == Spec => Answers
<1>1. Init => Contract!Init
  BY DEF Init, Contract!Init
<1>2. Inv /\ [Next]_vars => [Contract!Answer]_(Contract!vars)
  <2> SUFFICES ASSUME Inv, [Next]_vars PROVE [Contract!Answer]_(Contract!vars)
    OBVIOUS
  <2>1. ASSUME NEW c \in DOMAIN parsing, ParseFile(c) PROVE UNCHANGED Contract!vars
    BY <2>1 DEF ParseFile, Contract!vars
  <2>2. CASE MergePartial
    BY <2>2 DEF MergePartial, Contract!vars
  <2>3. CASE Assembled
    BY <2>3, AllIsWhole DEF Contract!Answer
  <2>4. CASE UNCHANGED vars
    BY <2>4 DEF vars, Contract!vars
  <2> QED BY <2>1, <2>2, <2>3, <2>4 DEF Next
<1> QED BY <1>1, <1>2, Invariance, PTL DEF Spec, Answers, Contract!Spec
----------------------------------------------------------------------------

(* What two partials list, joined, is what the one lists or the other.     *)
LEMMA JoinItems ==
    ASSUME NEW F, NEW c, NEW d, Facts!IsPartial(F, c), Facts!IsPartial(F, d), NEW f \in F \ {"skipped"}
    PROVE  ToSet(Facts!JoinPartials(c, d)[f]) = ToSet(c[f]) \cup ToSet(d[f])
<1>1. DOMAIN c = F /\ f \in F /\ f # "skipped" /\ Facts!IsRow(c[f]) /\ Facts!IsRow(d[f])
  BY DEF Facts!IsPartial
<1>2. Facts!JoinPartials(c, d)[f] = c[f] \o d[f]
  BY <1>1 DEF Facts!JoinPartials
<1> DEFINE x == c[f]
           y == d[f]
<1>3. PICK S : x \in Seq(S) /\ y \in Seq(S)
  BY <1>1, RowsAreSeqs
<1> HIDE DEF x, y
<1>4. Range(x \o y) = Range(x) \cup Range(y)
  BY <1>3, RangeConcatenation
<1>5. ToSet(x \o y) = ToSet(x) \cup ToSet(y)
  BY <1>4 DEF Range, ToSet
<1> QED BY <1>2, <1>5 DEF x, y

(* What many partials list, joined from left to right, is what any lists.  *)
Finds(F, Find(_), seq) == \A i \in 1..Len(seq) : Facts!IsPartial(F, Find(seq[i]))
JoinsWith(Op(_,_), Find(_)) == \A c, x : Op(c, x) = Facts!JoinPartials(c, Find(x))
Lists(F, Find(_), seq, n, c) ==
    /\ Facts!IsPartial(F, c)
    /\ \A f \in F \ {"skipped"} : ToSet(c[f]) = UNION {ToSet(Find(seq[i])[f]) : i \in 1..n}
(* A fold that joins what is found keeps a list of all of it.              *)
LEMMA JoinedItems ==
    ASSUME NEW F, NEW Find(_), NEW Op(_,_), NEW seq, Len(seq) \in Nat, DOMAIN seq = 1..Len(seq),
           Finds(F, Find, seq), JoinsWith(Op, Find)
    PROVE  Lists(F, Find, seq, Len(seq), FoldLeft(Op, Facts!Blank(F), seq))
<1>1. IsFold(Op, Facts!Blank(F), seq, FoldLeft(Op, Facts!Blank(F), seq))
  BY FoldLeftSteps
<1>2. PICK up : Steps(Op, Facts!Blank(F), seq, up) /\ FoldLeft(Op, Facts!Blank(F), seq) = up[Len(seq)]
  BY <1>1 DEF IsFold
<1>3. \A n \in 0..Len(seq) : up[n] = IF n = 0 THEN Facts!Blank(F) ELSE Op(up[n - 1], seq[n])
  BY <1>2 DEF Steps
<1> DEFINE S == {n \in Nat : n <= Len(seq) => Lists(F, Find, seq, n, up[n])}
<1>4. 0 \in S
  <2>1. up[0] = Facts!Blank(F)
    BY <1>3
  <2>2. Facts!IsPartial(F, Facts!Blank(F))
    BY BlankIsPartial
  <2>3. \A f \in F \ {"skipped"} : ToSet(Facts!Blank(F)[f]) = {}
    BY DEF Facts!Blank, ToSet
  <2>4. 1..0 = {}
    OBVIOUS
  <2> QED BY <2>1, <2>2, <2>3, <2>4 DEF Lists
<1>5. ASSUME NEW n \in Nat, n \in S PROVE n + 1 \in S
  <2> SUFFICES ASSUME n + 1 <= Len(seq) PROVE Lists(F, Find, seq, n + 1, up[n + 1])
    OBVIOUS
  <2>1. n + 1 \in 0..Len(seq) /\ n + 1 \in 1..Len(seq) /\ n + 1 # 0 /\ (n + 1) - 1 = n /\ n <= Len(seq)
    OBVIOUS
  <2>2. Lists(F, Find, seq, n, up[n])
    BY <1>5, <2>1
  <2>3. up[n + 1] = Facts!JoinPartials(up[n], Find(seq[n + 1]))
    BY <1>3, <2>1 DEF JoinsWith
  <2>4. Facts!IsPartial(F, up[n]) /\ Facts!IsPartial(F, Find(seq[n + 1]))
    BY <2>1, <2>2 DEF Lists, Finds
  <2>5. Facts!IsPartial(F, up[n + 1])
    BY <2>3, <2>4, JoinIsPartial
  <2>6. ASSUME NEW f \in F \ {"skipped"}
        PROVE  ToSet(up[n + 1][f]) = UNION {ToSet(Find(seq[i])[f]) : i \in 1..(n + 1)}
    <3>1. ToSet(up[n + 1][f]) = ToSet(up[n][f]) \cup ToSet(Find(seq[n + 1])[f])
      BY <2>3, <2>4, JoinItems
    <3>2. ToSet(up[n][f]) = UNION {ToSet(Find(seq[i])[f]) : i \in 1..n}
      BY <2>2 DEF Lists
    <3>3. 1..(n + 1) = (1..n) \cup {n + 1}
      OBVIOUS
    <3> QED BY <3>1, <3>2, <3>3
  <2> QED BY <2>5, <2>6 DEF Lists
<1>6. Nat \subseteq S
  <2> HIDE DEF S
  <2> QED BY <1>4, <1>5, CountingUp
<1>7. Len(seq) \in S
  <2> HIDE DEF S
  <2> QED BY <1>6
<1> QED BY <1>2, <1>7
----------------------------------------------------------------------------
(***************************************************************************)
(* The partials of the Kubernetes plugin.  An image is a node by its       *)
(* reference, with the parts of it.                                        *)
(***************************************************************************)
OfImage(n) == n.label = "Image" => n.parts = Reference!ParseImage(n.key) /\ Facts!IsRow(n.key)
Shown(c) == \A n \in ToSet(c["nodes"]) : OfImage(n)
IsChunk(c) == Facts!IsPartial(K8s!Fields, c) /\ Shown(c)
Listed == K8s!Fields \ {"skipped"}

(* A manifest's references are taken apart as any others are.              *)
LEMMA ManifestParts == \A reference : K8s!Refs!ParseImage(reference) = Reference!ParseImage(reference)
<1>1. \A text, c : K8s!Refs!FirstAt(text, c) = Reference!FirstAt(text, c)
  BY DEF K8s!Refs!FirstAt, Reference!FirstAt, K8s!Refs!SelectInSeq, Reference!SelectInSeq, K8s!Refs!Min, Reference!Min
<1>2. \A text, c : K8s!Refs!LastAt(text, c) = Reference!LastAt(text, c)
  BY DEF K8s!Refs!LastAt, Reference!LastAt, K8s!Refs!SelectLastInSeq, Reference!SelectLastInSeq, K8s!Refs!Max, Reference!Max
<1>3. \A text, c : /\ K8s!Refs!SplitFirst(text, c) = Reference!SplitFirst(text, c)
                   /\ K8s!Refs!SplitLast(text, c) = Reference!SplitLast(text, c)
  BY <1>1, <1>2 DEF K8s!Refs!SplitFirst, Reference!SplitFirst, K8s!Refs!SplitLast, Reference!SplitLast,
                    K8s!Refs!Before, Reference!Before, K8s!Refs!After, Reference!After,
                    K8s!Refs!None, Reference!None, K8s!Refs!Some, Reference!Some
<1>4. \A s : K8s!Refs!HostLike(s) = Reference!HostLike(s)
  BY DEF K8s!Refs!HostLike, Reference!HostLike, K8s!Refs!ToSet, Reference!ToSet
<1>5. \A s : K8s!Refs!FirstSegment(s) = Reference!FirstSegment(s)
  BY <1>3 DEF K8s!Refs!FirstSegment, Reference!FirstSegment
<1>6. \A head, registry : K8s!Refs!Middle(head, registry) = Reference!Middle(head, registry)
  BY DEF K8s!Refs!Middle, Reference!Middle, K8s!Refs!After, Reference!After, K8s!Refs!None, Reference!None,
         K8s!Refs!SelectInSeq, Reference!SelectInSeq, K8s!Refs!Min, Reference!Min
<1>7. \A reference, middle : K8s!Refs!StartOf(reference, middle) = Reference!StartOf(reference, middle)
  BY DEF K8s!Refs!StartOf, Reference!StartOf
<1>8. \A reference, head, registry, name :
          K8s!Refs!Repository(reference, head, registry, name) = Reference!Repository(reference, head, registry, name)
  BY <1>6, <1>7 DEF K8s!Refs!Repository, Reference!Repository, K8s!Refs!None, Reference!None
<1> QED BY <1>3, <1>4, <1>5, <1>8 DEF K8s!Refs!ParseImage, Reference!ParseImage, K8s!Refs!None, Reference!None,
                                       K8s!Refs!Some, Reference!Some
(* The plugin's merge is the join of two partials.                         *)
LEMMA MergeIsJoin == ASSUME NEW c, NEW d PROVE K8s!Merge(c, d) = Facts!JoinPartials(c, d)
BY DEF K8s!Merge, K8s!Facts!JoinPartials, Facts!JoinPartials
(* Its empty chunk is the empty partial.                                   *)
LEMMA NothingIsBlank == K8s!Nothing = Facts!Blank(K8s!Fields)
BY DEF K8s!Nothing, K8s!Facts!Blank, Facts!Blank

(* Two chunks merged, or many, list what any of them lists.                *)
LEMMA MergeLists ==
    ASSUME NEW c, NEW d, IsChunk(c), IsChunk(d)
    PROVE  IsChunk(K8s!Merge(c, d)) /\ \A f \in Listed : ToSet(K8s!Merge(c, d)[f]) = ToSet(c[f]) \cup ToSet(d[f])
<1> DEFINE m == K8s!Merge(c, d)
<1>1. Facts!IsPartial(K8s!Fields, m) /\ \A f \in Listed : ToSet(m[f]) = ToSet(c[f]) \cup ToSet(d[f])
  BY MergeIsJoin, JoinItems, JoinIsPartial DEF IsChunk, Listed
<1> HIDE DEF m
<1>2. ToSet(m["nodes"]) = ToSet(c["nodes"]) \cup ToSet(d["nodes"])
  BY <1>1 DEF Listed, K8s!Fields
<1>3. Shown(m)
  BY <1>2 DEF Shown, IsChunk
<1> QED BY <1>1, <1>3 DEF IsChunk, m
(* So do any number of them.                                               *)
LEMMA MergeAllLists ==
    ASSUME NEW cs, Facts!IsRow(cs), \A x \in ToSet(cs) : IsChunk(x)
    PROVE  /\ IsChunk(K8s!MergeAll(cs))
           /\ \A f \in Listed : ToSet(K8s!MergeAll(cs)[f]) = UNION {ToSet(x[f]) : x \in ToSet(cs)}
<1> DEFINE Find(x) == x
<1>0. Len(cs) \in Nat /\ DOMAIN cs = 1..Len(cs) /\ ToSet(cs) = {cs[i] : i \in 1..Len(cs)}
  BY DEF Facts!IsRow, ToSet
<1>1. Finds(K8s!Fields, Find, cs)
  BY <1>0 DEF Finds, IsChunk
<1>2. JoinsWith(K8s!Merge, Find)
  BY MergeIsJoin DEF JoinsWith
<1>3. K8s!MergeAll(cs) = FoldLeft(K8s!Merge, Facts!Blank(K8s!Fields), cs)
  <2>1. K8s!MergeAll(cs) = K8s!FoldLeft(K8s!Merge, K8s!Nothing, cs)
    BY DEF K8s!MergeAll
  <2>2. \A base : K8s!FoldLeft(K8s!Merge, base, cs) = FoldLeft(K8s!Merge, base, cs)
    BY DEF K8s!FoldLeft, FoldLeft, K8s!MapThenFoldSet, MapThenFoldSet, K8s!Max, Max
  <2> QED BY <2>1, <2>2, NothingIsBlank
<1>4. \A i : Find(cs[i]) = cs[i]
  OBVIOUS
<1> HIDE DEF Find
<1>5. Lists(K8s!Fields, Find, cs, Len(cs), K8s!MergeAll(cs))
  BY <1>0, <1>1, <1>2, <1>3, JoinedItems
<1>6. ASSUME NEW f \in Listed PROVE ToSet(K8s!MergeAll(cs)[f]) = UNION {ToSet(x[f]) : x \in ToSet(cs)}
  <2>1. ToSet(K8s!MergeAll(cs)[f]) = UNION {ToSet(cs[i][f]) : i \in 1..Len(cs)}
    BY <1>4, <1>5 DEF Lists, Listed
  <2> QED BY <1>0, <2>1
<1>7. Shown(K8s!MergeAll(cs))
  <2>1. ToSet(K8s!MergeAll(cs)["nodes"]) = UNION {ToSet(x["nodes"]) : x \in ToSet(cs)}
    BY <1>6 DEF Listed, K8s!Fields
  <2> QED BY <2>1 DEF Shown, IsChunk
<1> QED BY <1>5, <1>6, <1>7 DEF Lists, IsChunk

(* Rows, and what is in them. *)
LEMMA MapRow ==
    ASSUME NEW n \in Nat, NEW g, g = [i \in 1..n |-> g[i]]
    PROVE  Facts!IsRow(g) /\ ToSet(g) = {g[i] : i \in 1..n}
<1>1. g \in [1..n -> {g[i] : i \in 1..n}]
  OBVIOUS
<1>2. g \in Seq({g[i] : i \in 1..n})
  BY <1>1, FunctionIsSeq
<1> QED BY <1>2, SeqIsRow DEF ToSet
(* Two rows, one behind the other, have what either has.                   *)
LEMMA ConcatRow ==
    ASSUME NEW s, NEW t, Facts!IsRow(s), Facts!IsRow(t)
    PROVE  Facts!IsRow(s \o t) /\ ToSet(s \o t) = ToSet(s) \cup ToSet(t)
<1>1. PICK S : s \in Seq(S) /\ t \in Seq(S)
  BY RowsAreSeqs
<1>2. Range(s \o t) = Range(s) \cup Range(t)
  BY <1>1, RangeConcatenation
<1> QED BY <1>2, RowsJoin DEF Range, ToSet
(* A tuple of one is a row of it.                                          *)
LEMMA OneRow == ASSUME NEW x PROVE Facts!IsRow(<<x>>) /\ ToSet(<<x>>) = {x}
<1> DEFINE s == <<x>>
<1>1. s \in Seq({x}) /\ DOMAIN s = {1} /\ s[1] = x
  OBVIOUS
<1> HIDE DEF s
<1>2. {s[i] : i \in {1}} = {x}
  BY <1>1
<1>3. Facts!IsRow(s) /\ ToSet(s) = {x}
  BY <1>1, <1>2, SeqIsRow DEF ToSet
<1> QED BY <1>3 DEF s
(* A tuple of two is a row of the two.                                     *)
LEMMA TwoRow == ASSUME NEW x, NEW y PROVE Facts!IsRow(<<x, y>>) /\ ToSet(<<x, y>>) = {x, y}
<1> DEFINE s == <<x, y>>
<1>1. s \in Seq({x, y}) /\ DOMAIN s = {1, 2} /\ s[1] = x /\ s[2] = y
  OBVIOUS
<1> HIDE DEF s
<1>2. {s[i] : i \in {1, 2}} = {x, y}
  BY <1>1
<1>3. Facts!IsRow(s) /\ ToSet(s) = {x, y}
  BY <1>1, <1>2, SeqIsRow DEF ToSet
<1> QED BY <1>3 DEF s
(* A tuple of three is a row of the three.                                 *)
LEMMA ThreeRow == ASSUME NEW x, NEW y, NEW z PROVE Facts!IsRow(<<x, y, z>>) /\ ToSet(<<x, y, z>>) = {x, y, z}
<1> DEFINE s == <<x, y, z>>
<1>1. s \in Seq({x, y, z}) /\ DOMAIN s = {1, 2, 3} /\ s[1] = x /\ s[2] = y /\ s[3] = z
  OBVIOUS
<1> HIDE DEF s
<1>2. {s[i] : i \in {1, 2, 3}} = {x, y, z}
  BY <1>1
<1>3. Facts!IsRow(s) /\ ToSet(s) = {x, y, z}
  BY <1>1, <1>2, SeqIsRow DEF ToSet
<1> QED BY <1>3 DEF s

(* A chunk that lists one thing, or nothing at all.                        *)
LEMMA ListedAre == Listed = {"nodes", "edges", "workloads", "selectors", "namespaces", "notes"}
BY DEF Listed, K8s!Fields
(* The empty chunk lists nothing.                                          *)
LEMMA NothingLists == IsChunk(K8s!Nothing) /\ \A f \in Listed : ToSet(K8s!Nothing[f]) = {}
<1>1. Facts!IsPartial(K8s!Fields, K8s!Nothing)
  BY NothingIsBlank, BlankIsPartial
<1>2. \A f \in Listed : K8s!Nothing[f] = <<>>
  BY NothingIsBlank DEF Listed, Facts!Blank
<1>3. \A f \in Listed : ToSet(K8s!Nothing[f]) = {}
  BY <1>2 DEF ToSet
<1>4. Shown(K8s!Nothing)
  BY <1>3, ListedAre DEF Shown
<1> QED BY <1>1, <1>3, <1>4 DEF IsChunk
(* A chunk with one field filled in lists that.                            *)
LEMMA OneLists ==
    ASSUME NEW f \in Listed, NEW v, Facts!IsRow(v), f = "nodes" => \A n \in ToSet(v) : OfImage(n)
    PROVE  /\ IsChunk([K8s!Nothing EXCEPT ![f] = v])
           /\ ToSet([K8s!Nothing EXCEPT ![f] = v][f]) = ToSet(v)
           /\ \A g \in Listed \ {f} : ToSet([K8s!Nothing EXCEPT ![f] = v][g]) = {}
<1> DEFINE c == [K8s!Nothing EXCEPT ![f] = v]
<1>1. K8s!Nothing = [g \in K8s!Fields |-> K8s!Nothing[g]] /\ f \in K8s!Fields /\ f # "skipped"
  BY NothingLists DEF IsChunk, Facts!IsPartial, Listed
<1>2. c = [g \in K8s!Fields |-> IF g = f THEN v ELSE K8s!Nothing[g]]
  BY <1>1
<1> HIDE DEF c
<1>3. Facts!IsPartial(K8s!Fields, c)
  BY <1>1, <1>2, NothingLists DEF IsChunk, Facts!IsPartial
<1>4. c[f] = v /\ \A g \in Listed \ {f} : c[g] = K8s!Nothing[g]
  BY <1>1, <1>2 DEF Listed
<1>5. ToSet(c[f]) = ToSet(v) /\ \A g \in Listed \ {f} : ToSet(c[g]) = {}
  BY <1>4, NothingLists
<1>6. Shown(c)
  BY <1>5, ListedAre DEF Shown
<1> QED BY <1>3, <1>5, <1>6 DEF c, IsChunk
----------------------------------------------------------------------------
(***************************************************************************)
(* What a chunk gives: the keys that will have a node (one for a namespace *)
(* it names), and edges, sound among keys K if each end is one of them or  *)
(* the edge aims at something by kind and name.                            *)
(***************************************************************************)
NamesIn(c) == {n.key : n \in ToSet(c["nodes"])} \cup {<<x>> : x \in ToSet(c["namespaces"])}
Aims(key) == key[2] \in Referred \cup {"Service"}
Lands(K, e) ==
    e.src \in K /\ e.type # "SELECTS" /\ (e.dst \in K \/ (e.type \in {"MOUNTS", "ROUTES_TO"} /\ Aims(e.dst)))
Sound(c, K) == \A e \in ToSet(c["edges"]) : Lands(K, e)
Quiet(c) == ToSet(c["workloads"]) = {} /\ ToSet(c["selectors"]) = {}

(* A chunk merged of others has the keys of all of them, and is sound and  *)
(* quiet if they are.                                                      *)
LEMMA MergedChunk ==
    ASSUME NEW cs, Facts!IsRow(cs), \A x \in ToSet(cs) : IsChunk(x)
    PROVE  /\ IsChunk(K8s!MergeAll(cs))
           /\ NamesIn(K8s!MergeAll(cs)) = UNION {NamesIn(x) : x \in ToSet(cs)}
           /\ \A K : (\A x \in ToSet(cs) : Sound(x, K)) => Sound(K8s!MergeAll(cs), K)
           /\ (\A x \in ToSet(cs) : Quiet(x)) => Quiet(K8s!MergeAll(cs))
<1> DEFINE m == K8s!MergeAll(cs)
<1>1. IsChunk(m) /\ \A f \in Listed : ToSet(m[f]) = UNION {ToSet(x[f]) : x \in ToSet(cs)}
  BY MergeAllLists
<1> HIDE DEF m
<1>2. /\ ToSet(m["nodes"]) = UNION {ToSet(x["nodes"]) : x \in ToSet(cs)}
      /\ ToSet(m["edges"]) = UNION {ToSet(x["edges"]) : x \in ToSet(cs)}
      /\ ToSet(m["namespaces"]) = UNION {ToSet(x["namespaces"]) : x \in ToSet(cs)}
      /\ ToSet(m["workloads"]) = UNION {ToSet(x["workloads"]) : x \in ToSet(cs)}
      /\ ToSet(m["selectors"]) = UNION {ToSet(x["selectors"]) : x \in ToSet(cs)}
  BY <1>1, ListedAre
<1>3. NamesIn(m) = UNION {NamesIn(x) : x \in ToSet(cs)}
  BY <1>2 DEF NamesIn
<1>4. \A K : (\A x \in ToSet(cs) : Sound(x, K)) => Sound(m, K)
  BY <1>2 DEF Sound
<1>5. (\A x \in ToSet(cs) : Quiet(x)) => Quiet(m)
  BY <1>2 DEF Quiet
<1> QED BY <1>1, <1>3, <1>4, <1>5 DEF m
(* The same of two chunks.                                                 *)
LEMMA MergedPair ==
    ASSUME NEW c, NEW d, IsChunk(c), IsChunk(d)
    PROVE  /\ IsChunk(K8s!Merge(c, d))
           /\ NamesIn(K8s!Merge(c, d)) = NamesIn(c) \cup NamesIn(d)
           /\ \A K : Sound(c, K) /\ Sound(d, K) => Sound(K8s!Merge(c, d), K)
           /\ Quiet(c) /\ Quiet(d) => Quiet(K8s!Merge(c, d))
<1> DEFINE m == K8s!Merge(c, d)
<1>1. IsChunk(m) /\ \A f \in Listed : ToSet(m[f]) = ToSet(c[f]) \cup ToSet(d[f])
  BY MergeLists
<1> HIDE DEF m
<1>2. /\ ToSet(m["nodes"]) = ToSet(c["nodes"]) \cup ToSet(d["nodes"])
      /\ ToSet(m["edges"]) = ToSet(c["edges"]) \cup ToSet(d["edges"])
      /\ ToSet(m["namespaces"]) = ToSet(c["namespaces"]) \cup ToSet(d["namespaces"])
      /\ ToSet(m["workloads"]) = ToSet(c["workloads"]) \cup ToSet(d["workloads"])
      /\ ToSet(m["selectors"]) = ToSet(c["selectors"]) \cup ToSet(d["selectors"])
  BY <1>1, ListedAre
<1>3. NamesIn(m) = NamesIn(c) \cup NamesIn(d)
  BY <1>2 DEF NamesIn
<1>4. \A K : Sound(c, K) /\ Sound(d, K) => Sound(m, K)
  BY <1>2 DEF Sound
<1>5. Quiet(c) /\ Quiet(d) => Quiet(m)
  BY <1>2 DEF Quiet
<1> QED BY <1>1, <1>3, <1>4, <1>5 DEF m

(* The pieces chunks are made of. *)
LEMMA NothingGives ==
    IsChunk(K8s!Nothing) /\ NamesIn(K8s!Nothing) = {} /\ Quiet(K8s!Nothing) /\ \A K : Sound(K8s!Nothing, K)
BY NothingLists, ListedAre DEF NamesIn, Quiet, Sound
(* A node gives its key.                                                   *)
LEMMA NodesGive ==
    ASSUME NEW n, OfImage(n)
    PROVE  /\ IsChunk([K8s!Nothing EXCEPT !.nodes = <<n>>])
           /\ NamesIn([K8s!Nothing EXCEPT !.nodes = <<n>>]) = {n.key}
           /\ Quiet([K8s!Nothing EXCEPT !.nodes = <<n>>])
           /\ \A K : Sound([K8s!Nothing EXCEPT !.nodes = <<n>>], K)
<1> DEFINE c == [K8s!Nothing EXCEPT !["nodes"] = <<n>>]
<1>1. "nodes" \in Listed /\ Facts!IsRow(<<n>>) /\ ToSet(<<n>>) = {n}
  BY ListedAre, OneRow
<1>2. IsChunk(c) /\ ToSet(c["nodes"]) = {n} /\ \A g \in Listed \ {"nodes"} : ToSet(c[g]) = {}
  BY <1>1, OneLists
<1>3. c = [K8s!Nothing EXCEPT !.nodes = <<n>>]
  OBVIOUS
<1> HIDE DEF c
<1>4. NamesIn(c) = {n.key} /\ Quiet(c) /\ \A K : Sound(c, K)
  BY <1>2, ListedAre DEF NamesIn, Quiet, Sound
<1> QED BY <1>2, <1>3, <1>4
(* The same, by key and label.                                             *)
LEMMA NodeGives ==
    ASSUME NEW key, NEW label, label # "Image"
    PROVE  /\ IsChunk(K8s!Node(key, label)) /\ NamesIn(K8s!Node(key, label)) = {key}
           /\ Quiet(K8s!Node(key, label)) /\ \A K : Sound(K8s!Node(key, label), K)
<1> DEFINE n == [key |-> key, label |-> label]
<1>1. n.key = key /\ K8s!Node(key, label) = [K8s!Nothing EXCEPT !.nodes = <<n>>]
  BY DEF K8s!Node
<1>2. OfImage(n)
  BY DEF OfImage
<1> HIDE DEF n
<1> QED BY <1>1, <1>2, NodesGive
(* An edge is sound where it lands.                                        *)
LEMMA EdgeGives ==
    ASSUME NEW src, NEW type, NEW dst
    PROVE  /\ IsChunk(K8s!Edge(src, type, dst)) /\ NamesIn(K8s!Edge(src, type, dst)) = {}
           /\ Quiet(K8s!Edge(src, type, dst))
           /\ \A K : Lands(K, [src |-> src, type |-> type, dst |-> dst]) => Sound(K8s!Edge(src, type, dst), K)
<1> DEFINE e == [src |-> src, type |-> type, dst |-> dst]
           c == [K8s!Nothing EXCEPT !["edges"] = <<e>>]
<1>3. c = K8s!Edge(src, type, dst)
  BY DEF K8s!Edge
<1> HIDE DEF e
<1>1. "edges" \in Listed /\ Facts!IsRow(<<e>>) /\ ToSet(<<e>>) = {e}
  BY ListedAre, OneRow
<1>2. IsChunk(c) /\ ToSet(c["edges"]) = {e} /\ \A g \in Listed \ {"edges"} : ToSet(c[g]) = {}
  BY <1>1, OneLists
<1> HIDE DEF c
<1>4. NamesIn(c) = {} /\ Quiet(c) /\ \A K : Lands(K, e) => Sound(c, K)
  BY <1>2, ListedAre DEF NamesIn, Quiet, Sound
<1> QED BY <1>2, <1>3, <1>4 DEF e
(* A namespace gives the key of the node it will have.                     *)
LEMMA NamespaceGives ==
    ASSUME NEW v, Facts!IsRow(v)
    PROVE  /\ IsChunk([K8s!Nothing EXCEPT !.namespaces = v])
           /\ NamesIn([K8s!Nothing EXCEPT !.namespaces = v]) = {<<x>> : x \in ToSet(v)}
           /\ Quiet([K8s!Nothing EXCEPT !.namespaces = v])
           /\ \A K : Sound([K8s!Nothing EXCEPT !.namespaces = v], K)
<1> DEFINE c == [K8s!Nothing EXCEPT !["namespaces"] = v]
<1>2. IsChunk(c) /\ ToSet(c["namespaces"]) = ToSet(v) /\ \A g \in Listed \ {"namespaces"} : ToSet(c[g]) = {}
  BY ListedAre, OneLists
<1>3. c = [K8s!Nothing EXCEPT !.namespaces = v]
  OBVIOUS
<1> HIDE DEF c
<1>4. NamesIn(c) = {<<x>> : x \in ToSet(v)} /\ Quiet(c) /\ \A K : Sound(c, K)
  BY <1>2, ListedAre DEF NamesIn, Quiet, Sound
<1> QED BY <1>2, <1>3, <1>4
(* Skipping a document and noting a file give no key and no edge.          *)
LEMMA SkipGives == IsChunk(K8s!Skip) /\ NamesIn(K8s!Skip) = {} /\ Quiet(K8s!Skip) /\ \A K : Sound(K8s!Skip, K)
<1> DEFINE c == [K8s!Nothing EXCEPT !["skipped"] = 1]
<1>1. K8s!Nothing = [g \in K8s!Fields |-> K8s!Nothing[g]] /\ "skipped" \in K8s!Fields
  BY NothingLists DEF IsChunk, Facts!IsPartial, K8s!Fields
<1>2. c = [g \in K8s!Fields |-> IF g = "skipped" THEN 1 ELSE K8s!Nothing[g]]
  BY <1>1
<1>3. c = K8s!Skip
  BY DEF K8s!Skip
<1> HIDE DEF c
<1>4. Facts!IsPartial(K8s!Fields, c)
  BY <1>1, <1>2, NothingLists DEF IsChunk, Facts!IsPartial
<1>5. \A f \in Listed : ToSet(c[f]) = {}
  BY <1>2, NothingLists DEF Listed
<1>6. IsChunk(c)
  BY <1>4, <1>5, ListedAre DEF IsChunk, Shown
<1> QED BY <1>3, <1>5, <1>6, ListedAre DEF NamesIn, Quiet, Sound
(* Nor does a note.                                                        *)
LEMMA NoteGives ==
    ASSUME NEW path, NEW what
    PROVE  /\ IsChunk(K8s!Note(path, what)) /\ NamesIn(K8s!Note(path, what)) = {}
           /\ Quiet(K8s!Note(path, what)) /\ \A K : Sound(K8s!Note(path, what), K)
<1> DEFINE v == <<[path |-> path, what |-> what]>>
           c == [K8s!Nothing EXCEPT !["notes"] = v]
<1>1. "notes" \in Listed /\ Facts!IsRow(v)
  BY ListedAre, OneRow
<1>3. c = K8s!Note(path, what)
  BY DEF K8s!Note
<1> HIDE DEF v
<1>2. IsChunk(c) /\ \A g \in Listed \ {"notes"} : ToSet(c[g]) = {}
  BY <1>1, OneLists
<1> HIDE DEF c
<1> QED BY <1>2, <1>3, ListedAre DEF NamesIn, Quiet, Sound
----------------------------------------------------------------------------
(***************************************************************************)
(* What a document gives: a chunk that is sound among its own keys.        *)
(***************************************************************************)
Closed(c) == IsChunk(c) /\ \A K : NamesIn(c) \subseteq K => Sound(c, K)

(* No object is labelled as an image.                                      *)
LEMMA LabelsAre == \A kind : K8s!LabelOf(kind) # "Image"
<1> SUFFICES ASSUME NEW kind PROVE K8s!LabelOf(kind) # "Image"
  OBVIOUS
<1>1. K8s!LabelOf(kind) \in {"Workload", "Volume", kind, "Resource"}
  BY DEF K8s!LabelOf
<1>2. CASE kind = "Image"
  BY <1>2 DEF K8s!LabelOf, K8s!WorkloadKinds
<1> QED BY <1>1, <1>2
(* Every object gives its own key and that of its namespace.               *)
LEMMA DeclaredGives ==
    ASSUME NEW doc
    PROVE  /\ Closed(K8s!Declared(doc)) /\ Quiet(K8s!Declared(doc))
           /\ NamesIn(K8s!Declared(doc)) = {K8s!Key(doc), <<doc.ns>>}
<1> DEFINE a == [K8s!Nothing EXCEPT !.namespaces = <<doc.ns>>]
           b == K8s!Node(K8s!Key(doc), K8s!LabelOf(doc.kind))
           e == K8s!Edge(K8s!Key(doc), "IN_NAMESPACE", <<doc.ns>>)
           key == K8s!Key(doc)
<1>1. K8s!Declared(doc) = K8s!MergeAll(<<a, b, e>>)
  BY DEF K8s!Declared
<1>2. Facts!IsRow(<<a, b, e>>) /\ ToSet(<<a, b, e>>) = {a, b, e}
  BY ThreeRow
<1>3. IsChunk(a) /\ NamesIn(a) = {<<doc.ns>>} /\ Quiet(a) /\ \A K : Sound(a, K)
  <2> DEFINE v == <<doc.ns>>
  <2>1. Facts!IsRow(v) /\ ToSet(v) = {doc.ns}
    BY OneRow
  <2>2. a = [K8s!Nothing EXCEPT !.namespaces = v]
    OBVIOUS
  <2> HIDE DEF v, a
  <2>3. IsChunk(a) /\ NamesIn(a) = {<<x>> : x \in {doc.ns}} /\ Quiet(a) /\ \A K : Sound(a, K)
    BY <2>1, <2>2, NamespaceGives
  <2> QED BY <2>3
<1>4. IsChunk(b) /\ NamesIn(b) = {key} /\ Quiet(b) /\ \A K : Sound(b, K)
  BY LabelsAre, NodeGives
<1>5. /\ IsChunk(e) /\ NamesIn(e) = {} /\ Quiet(e)
      /\ \A K : Lands(K, [src |-> key, type |-> "IN_NAMESPACE", dst |-> <<doc.ns>>]) => Sound(e, K)
  BY EdgeGives
<1>6. \A K : {key, <<doc.ns>>} \subseteq K => Sound(e, K)
  BY <1>5 DEF Lands
<1> HIDE DEF a, b, e, key
<1> DEFINE m == K8s!MergeAll(<<a, b, e>>)
<1>7. /\ IsChunk(m) /\ NamesIn(m) = UNION {NamesIn(x) : x \in {a, b, e}} /\ Quiet(m)
      /\ \A K : (\A x \in {a, b, e} : Sound(x, K)) => Sound(m, K)
  BY <1>2, <1>3, <1>4, <1>5, MergedChunk
<1> HIDE DEF m
<1>8. NamesIn(m) = {key, <<doc.ns>>}
  BY <1>3, <1>4, <1>5, <1>7
<1>9. Closed(m)
  BY <1>3, <1>4, <1>6, <1>7, <1>8 DEF Closed
<1> QED BY <1>1, <1>7, <1>8, <1>9 DEF m, key

(* A reference behind a namespace aims at something by kind and name.      *)
LEMMA ReferenceAims == ASSUME NEW ns, NEW r, IsReference(r) PROVE Aims(<<ns>> \o r)
<1>1. r = <<r[1], r[2]>> /\ r[1] \in Referred
  BY DEF IsReference
<1> DEFINE a == r[1]
           b == r[2]
<1>2. (<<ns>> \o <<a, b>>)[2] = a
  OBVIOUS
<1> QED BY <1>1, <1>2 DEF Aims

(* The volume that backs a mount is one of the document's, if any does.    *)
LEMMA BackingIsPlace ==
    ASSUME NEW doc, NEW volume, Facts!IsRow(doc.volumes)
    PROVE  K8s!Backing(doc, volume) \in {0} \cup DOMAIN doc.volumes
<1> DEFINE Test(v) == v.name = volume
           vs == doc.volumes
<1>1. Len(vs) \in Nat /\ DOMAIN vs = 1..Len(vs)
  BY DEF Facts!IsRow
<1>2. K8s!Backing(doc, volume) = K8s!SelectLastInSeq(vs, Test)
  BY DEF K8s!Backing
<1> HIDE DEF Test, vs
<1>3. K8s!SelectLastInSeq(vs, Test) = SelectLastInSeq(vs, Test)
  BY DEF K8s!SelectLastInSeq, SelectLastInSeq, K8s!Max, Max
<1>4. SelectLastInSeq(vs, Test) \in 0..Len(vs)
  BY <1>1, LastSelectedIsPlace
<1> QED BY <1>1, <1>2, <1>3, <1>4 DEF vs

(* A container's mounts aim at what backs them.                            *)
Quietly(c, key) == IsChunk(c) /\ NamesIn(c) = {} /\ Quiet(c) /\ \A K : key \in K => Sound(c, K)
(* A mount by reference lands.                                             *)
LEMMA MountGives ==
    ASSUME NEW key, NEW ns, NEW r, IsReference(r)
    PROVE  Quietly(K8s!Edge(key, "MOUNTS", <<ns>> \o r), key)
<1> DEFINE to == <<ns>> \o r
<1>1. Aims(to)
  BY ReferenceAims
<1> HIDE DEF to
<1>2. \A K : key \in K => Lands(K, [src |-> key, type |-> "MOUNTS", dst |-> to])
  BY <1>1 DEF Lands
<1>3. Quietly(K8s!Edge(key, "MOUNTS", to), key)
  BY <1>2, EdgeGives DEF Quietly
<1> QED BY <1>3 DEF to
(* So does every mount of a container, whatever volume backs it.           *)
LEMMA MountedGives ==
    ASSUME NEW doc, NEW c, IsContainer(c), Facts!IsRow(doc.volumes),
           \A i \in DOMAIN doc.volumes : IsReference(doc.volumes[i].target)
    PROVE  /\ Facts!IsRow(K8s!Mounted(doc, c))
           /\ \A x \in ToSet(K8s!Mounted(doc, c)) : Quietly(x, Append(K8s!Key(doc), c.name))
<1> DEFINE key == Append(K8s!Key(doc), c.name)
           back(i) == K8s!Backing(doc, c.mounts[i])
           piece(i) == IF back(i) = 0 THEN K8s!Nothing
                       ELSE K8s!Edge(key, "MOUNTS", <<doc.ns>> \o doc.volumes[back(i)].target)
           g == [i \in 1..Len(c.mounts) |-> piece(i)]
<1>1. Len(c.mounts) \in Nat /\ DOMAIN c.mounts = 1..Len(c.mounts)
  BY DEF IsContainer, Facts!IsRow
<1>2. K8s!Mounted(doc, c) = g
  BY <1>1 DEF K8s!Mounted
<1>3. ASSUME NEW i \in 1..Len(c.mounts) PROVE Quietly(piece(i), key)
  <2>1. back(i) \in {0} \cup DOMAIN doc.volumes
    BY BackingIsPlace
  <2> HIDE DEF back, key
  <2>2. CASE back(i) = 0
    BY <2>2, NothingGives DEF Quietly
  <2>3. CASE back(i) # 0
    <3>1. IsReference(doc.volumes[back(i)].target)
      BY <2>1, <2>3
    <3>2. Quietly(K8s!Edge(key, "MOUNTS", <<doc.ns>> \o doc.volumes[back(i)].target), key)
      BY <3>1, MountGives
    <3> QED BY <2>3, <3>2
  <2> QED BY <2>2, <2>3
<1> HIDE DEF piece, key
<1>4. Facts!IsRow(g) /\ ToSet(g) = {g[i] : i \in 1..Len(c.mounts)}
  BY <1>1, MapRow
<1>5. \A x \in ToSet(g) : Quietly(x, key)
  BY <1>3, <1>4
<1> QED BY <1>2, <1>4, <1>5 DEF key

(* An image gives a node and an edge to it, or nothing.                    *)
LEMMA ImageGives ==
    ASSUME NEW key, NEW reference, Facts!IsRow(reference)
    PROVE  /\ IsChunk(K8s!Image(key, reference)) /\ Quiet(K8s!Image(key, reference))
           /\ \A K : key \in K /\ NamesIn(K8s!Image(key, reference)) \subseteq K => Sound(K8s!Image(key, reference), K)
<1>1. CASE reference = <<>>
  BY <1>1, NothingGives DEF K8s!Image
<1>2. CASE reference # <<>>
  <2> DEFINE n == [key |-> reference, label |-> "Image", parts |-> K8s!Refs!ParseImage(reference)]
             a == [K8s!Nothing EXCEPT !.nodes = <<n>>]
             e == K8s!Edge(key, "USES_IMAGE", reference)
  <2>1. K8s!Image(key, reference) = K8s!Merge(a, e)
    BY <1>2 DEF K8s!Image
  <2>2. n.key = reference /\ OfImage(n)
    BY ManifestParts DEF OfImage
  <2> HIDE DEF n
  <2>3. IsChunk(a) /\ NamesIn(a) = {reference} /\ Quiet(a) /\ \A K : Sound(a, K)
    BY <2>2, NodesGive
  <2>4. /\ IsChunk(e) /\ NamesIn(e) = {} /\ Quiet(e)
        /\ \A K : Lands(K, [src |-> key, type |-> "USES_IMAGE", dst |-> reference]) => Sound(e, K)
    BY EdgeGives
  <2>5. \A K : key \in K /\ reference \in K => Sound(e, K)
    BY <2>4 DEF Lands
  <2> HIDE DEF a, e
  <2>6. /\ IsChunk(K8s!Merge(a, e)) /\ NamesIn(K8s!Merge(a, e)) = NamesIn(a) \cup NamesIn(e) /\ Quiet(K8s!Merge(a, e))
        /\ \A K : Sound(a, K) /\ Sound(e, K) => Sound(K8s!Merge(a, e), K)
    BY <2>3, <2>4, MergedPair
  <2>7. \A K : key \in K /\ NamesIn(K8s!Merge(a, e)) \subseteq K => Sound(K8s!Merge(a, e), K)
    BY <2>3, <2>5, <2>6
  <2> QED BY <2>1, <2>6, <2>7
<1> QED BY <1>1, <1>2

(* A container is sound among its own keys and that of its workload.       *)
LEMMA ContainerGives ==
    ASSUME NEW doc, NEW c, IsContainer(c), Facts!IsRow(doc.volumes),
           \A i \in DOMAIN doc.volumes : IsReference(doc.volumes[i].target)
    PROVE  /\ IsChunk(K8s!Container(doc, c)) /\ Quiet(K8s!Container(doc, c))
           /\ \A K : K8s!Key(doc) \in K /\ NamesIn(K8s!Container(doc, c)) \subseteq K => Sound(K8s!Container(doc, c), K)
<1>1. CASE c.name = ""
  BY <1>1, NothingGives DEF K8s!Container
<1>2. CASE c.name # ""
  <2> DEFINE key == Append(K8s!Key(doc), c.name)
             a == K8s!Node(key, "Container")
             e == K8s!Edge(K8s!Key(doc), "RUNS", key)
             i == K8s!Image(key, c.image)
             mounts == K8s!Mounted(doc, c)
             from == [n \in 1..Len(c.from) |-> K8s!Edge(key, "MOUNTS", <<doc.ns>> \o c.from[n])]
             cs == (<<a, e, i>> \o mounts) \o from
  <2>0. Len(c.from) \in Nat /\ DOMAIN c.from = 1..Len(c.from)
    BY DEF IsContainer, Facts!IsRow
  <2>1. K8s!Container(doc, c) = K8s!MergeAll(cs)
    BY <1>2, <2>0 DEF K8s!Container
  <2>2. Facts!IsRow(mounts) /\ \A x \in ToSet(mounts) : Quietly(x, key)
    BY MountedGives
  <2>3. Facts!IsRow(from) /\ \A x \in ToSet(from) : Quietly(x, key)
    <3>1. \A n \in 1..Len(c.from) : Quietly(from[n], key)
      <4> SUFFICES ASSUME NEW n \in 1..Len(c.from) PROVE Quietly(from[n], key)
        OBVIOUS
      <4>1. IsReference(c.from[n])
        BY <2>0 DEF IsContainer
      <4>2. from[n] = K8s!Edge(key, "MOUNTS", <<doc.ns>> \o c.from[n])
        OBVIOUS
      <4> HIDE DEF key, from
      <4> QED BY <4>1, <4>2, MountGives
    <3>2. from = [n \in 1..Len(c.from) |-> from[n]]
      OBVIOUS
    <3> HIDE DEF from, key
    <3>3. Facts!IsRow(from) /\ ToSet(from) = {from[n] : n \in 1..Len(c.from)}
      BY <2>0, <3>2, MapRow
    <3> QED BY <3>1, <3>3
  <2>4. IsChunk(a) /\ NamesIn(a) = {key} /\ Quiet(a) /\ \A K : Sound(a, K)
    BY NodeGives
  <2>5. IsChunk(e) /\ Quiet(e) /\ \A K : K8s!Key(doc) \in K /\ key \in K => Sound(e, K)
    <3> HIDE DEF key
    <3> QED BY EdgeGives DEF Lands
  <2>6. IsChunk(i) /\ Quiet(i) /\ \A K : key \in K /\ NamesIn(i) \subseteq K => Sound(i, K)
    BY ImageGives DEF IsContainer
  <2> HIDE DEF key, a, e, i, mounts, from
  <2>7. Facts!IsRow(cs) /\ ToSet(cs) = ({a, e, i} \cup ToSet(mounts)) \cup ToSet(from)
    <3>1. Facts!IsRow(<<a, e, i>>) /\ ToSet(<<a, e, i>>) = {a, e, i}
      BY ThreeRow
    <3>2. Facts!IsRow(<<a, e, i>> \o mounts) /\ ToSet(<<a, e, i>> \o mounts) = {a, e, i} \cup ToSet(mounts)
      BY <2>2, <3>1, ConcatRow
    <3> QED BY <2>3, <3>2, ConcatRow
  <2> HIDE DEF cs
  <2>8. \A x \in ToSet(cs) : IsChunk(x) /\ Quiet(x)
    BY <2>2, <2>3, <2>4, <2>5, <2>6, <2>7 DEF Quietly
  <2> DEFINE m == K8s!MergeAll(cs)
  <2>9. /\ IsChunk(m) /\ NamesIn(m) = UNION {NamesIn(x) : x \in ToSet(cs)} /\ Quiet(m)
        /\ \A K : (\A x \in ToSet(cs) : Sound(x, K)) => Sound(m, K)
    BY <2>7, <2>8, MergedChunk
  <2> HIDE DEF m
  <2>10. ASSUME NEW K, K8s!Key(doc) \in K, NamesIn(m) \subseteq K PROVE Sound(m, K)
    <3>1. key \in K /\ NamesIn(i) \subseteq K
      BY <2>4, <2>7, <2>9, <2>10
    <3>2. \A x \in ToSet(cs) : Sound(x, K)
      BY <2>2, <2>3, <2>4, <2>5, <2>6, <2>7, <2>10, <3>1 DEF Quietly
    <3> QED BY <2>9, <3>2
  <2> QED BY <2>1, <2>9, <2>10 DEF m
<1> QED BY <1>1, <1>2
(* Closed chunks, merged, are closed; and what they list is together.      *)
Work(c) == ToSet(c["workloads"])
Sel(c) == ToSet(c["selectors"])
(* Of any number of chunks.                                                *)
LEMMA MergedClosed ==
    ASSUME NEW cs, Facts!IsRow(cs), \A x \in ToSet(cs) : Closed(x)
    PROVE  /\ Closed(K8s!MergeAll(cs)) /\ NamesIn(K8s!MergeAll(cs)) = UNION {NamesIn(x) : x \in ToSet(cs)}
           /\ Work(K8s!MergeAll(cs)) = UNION {Work(x) : x \in ToSet(cs)}
           /\ Sel(K8s!MergeAll(cs)) = UNION {Sel(x) : x \in ToSet(cs)}
<1> DEFINE m == K8s!MergeAll(cs)
<1>1. \A x \in ToSet(cs) : IsChunk(x)
  BY DEF Closed
<1>2. /\ IsChunk(m) /\ NamesIn(m) = UNION {NamesIn(x) : x \in ToSet(cs)}
      /\ \A K : (\A x \in ToSet(cs) : Sound(x, K)) => Sound(m, K)
  BY <1>1, MergedChunk
<1>3. \A f \in Listed : ToSet(m[f]) = UNION {ToSet(x[f]) : x \in ToSet(cs)}
  BY <1>1, MergeAllLists
<1> HIDE DEF m
<1>4. Work(m) = UNION {Work(x) : x \in ToSet(cs)} /\ Sel(m) = UNION {Sel(x) : x \in ToSet(cs)}
  BY <1>3, ListedAre DEF Work, Sel
<1>5. ASSUME NEW K, NamesIn(m) \subseteq K PROVE Sound(m, K)
  <2>1. \A x \in ToSet(cs) : NamesIn(x) \subseteq K
    BY <1>2, <1>5
  <2> QED BY <1>2, <2>1 DEF Closed
<1>6. Closed(m)
  BY <1>2, <1>5 DEF Closed
<1> QED BY <1>2, <1>4, <1>6 DEF m
(* Of two chunks.                                                          *)
LEMMA PairClosed ==
    ASSUME NEW c, NEW d, Closed(c), Closed(d)
    PROVE  /\ Closed(K8s!Merge(c, d)) /\ NamesIn(K8s!Merge(c, d)) = NamesIn(c) \cup NamesIn(d)
           /\ Work(K8s!Merge(c, d)) = Work(c) \cup Work(d)
           /\ Sel(K8s!Merge(c, d)) = Sel(c) \cup Sel(d)
<1> DEFINE m == K8s!Merge(c, d)
<1>1. IsChunk(c) /\ IsChunk(d)
  BY DEF Closed
<1>2. /\ IsChunk(m) /\ NamesIn(m) = NamesIn(c) \cup NamesIn(d)
      /\ \A K : Sound(c, K) /\ Sound(d, K) => Sound(m, K)
  BY <1>1, MergedPair
<1>3. \A f \in Listed : ToSet(m[f]) = ToSet(c[f]) \cup ToSet(d[f])
  BY <1>1, MergeLists
<1> HIDE DEF m
<1>4. Work(m) = Work(c) \cup Work(d) /\ Sel(m) = Sel(c) \cup Sel(d)
  BY <1>3, ListedAre DEF Work, Sel
<1>5. Closed(m)
  BY <1>2 DEF Closed
<1> QED BY <1>2, <1>4, <1>5 DEF m

(* What a document is listed as, for the pass over the whole tree.         *)
WorkOf(d) ==
    IF d.kind \in K8s!WorkloadKinds /\ d.name # ""
    THEN {[ns |-> d.ns, key |-> K8s!Key(d), labels |-> d.labels]} ELSE {}
SelOf(d) ==
    IF d.kind = "Service" /\ d.name # "" /\ d.selector # {}
    THEN {[ns |-> d.ns, key |-> K8s!Key(d), labels |-> d.selector]} ELSE {}
Placed(d) == K8s!IsObject(d) /\ d.name # "" /\ d.kind # "Namespace"
Gives(c, d) ==
    /\ Closed(c) /\ Work(c) = WorkOf(d) /\ Sel(c) = SelOf(d)
    /\ Placed(d) => K8s!Key(d) \in NamesIn(c)

(* A workload: its containers hang on it, and it is listed once.           *)
LEMMA WorkloadGives ==
    ASSUME NEW doc, IsDocument(doc), doc.kind \in K8s!WorkloadKinds, doc.name # ""
    PROVE  Gives(K8s!Workload(doc), doc)
<1> DEFINE a == K8s!Declared(doc)
           w == [ns |-> doc.ns, key |-> K8s!Key(doc), labels |-> doc.labels]
           b == [K8s!Nothing EXCEPT !["workloads"] = <<w>>]
           g == [i \in 1..Len(doc.containers) |-> K8s!Container(doc, doc.containers[i])]
           cs == <<a, b>> \o g
           key == K8s!Key(doc)
<1>0. Len(doc.containers) \in Nat /\ DOMAIN doc.containers = 1..Len(doc.containers)
  BY DEF IsDocument, Facts!IsRow
<1>1. K8s!Workload(doc) = K8s!MergeAll(cs)
  BY <1>0 DEF K8s!Workload
<1>2. Closed(a) /\ Quiet(a) /\ NamesIn(a) = {key, <<doc.ns>>}
  BY DeclaredGives
<1>3. IsChunk(b) /\ ToSet(b["workloads"]) = {w} /\ \A f \in Listed \ {"workloads"} : ToSet(b[f]) = {}
  <2> HIDE DEF w
  <2>1. "workloads" \in Listed /\ Facts!IsRow(<<w>>) /\ ToSet(<<w>>) = {w}
    BY ListedAre, OneRow
  <2> QED BY <2>1, OneLists
<1>4. ASSUME NEW i \in 1..Len(doc.containers)
      PROVE  IsChunk(g[i]) /\ Quiet(g[i]) /\ \A K : key \in K /\ NamesIn(g[i]) \subseteq K => Sound(g[i], K)
  <2>1. IsContainer(doc.containers[i]) /\ Facts!IsRow(doc.volumes)
        /\ \A n \in DOMAIN doc.volumes : IsReference(doc.volumes[n].target)
    BY <1>0 DEF IsDocument
  <2> DEFINE c == K8s!Container(doc, doc.containers[i])
  <2>2. IsChunk(c) /\ Quiet(c) /\ \A K : key \in K /\ NamesIn(c) \subseteq K => Sound(c, K)
    BY <2>1, ContainerGives
  <2>3. g[i] = c
    OBVIOUS
  <2> HIDE DEF c, g, key
  <2> QED BY <2>2, <2>3
<1>5. g = [i \in 1..Len(doc.containers) |-> g[i]]
  OBVIOUS
<1> HIDE DEF a, b, g, key, w
<1>6. Facts!IsRow(g) /\ ToSet(g) = {g[i] : i \in 1..Len(doc.containers)}
  BY <1>0, <1>5, MapRow
<1>7. Facts!IsRow(cs) /\ ToSet(cs) = {a, b} \cup ToSet(g)
  <2>1. Facts!IsRow(<<a, b>>) /\ ToSet(<<a, b>>) = {a, b}
    BY TwoRow
  <2> QED BY <1>6, <2>1, ConcatRow
<1> HIDE DEF cs
<1>8. Work(b) = {w} /\ Sel(b) = {} /\ NamesIn(b) = {} /\ \A K : Sound(b, K)
  BY <1>3, ListedAre DEF Work, Sel, NamesIn, Sound
<1>9. \A x \in ToSet(cs) : IsChunk(x)
  BY <1>2, <1>3, <1>4, <1>6, <1>7 DEF Closed
<1> DEFINE m == K8s!MergeAll(cs)
<1>10. /\ IsChunk(m) /\ NamesIn(m) = UNION {NamesIn(x) : x \in ToSet(cs)}
       /\ \A K : (\A x \in ToSet(cs) : Sound(x, K)) => Sound(m, K)
  BY <1>7, <1>9, MergedChunk
<1>11. \A f \in Listed : ToSet(m[f]) = UNION {ToSet(x[f]) : x \in ToSet(cs)}
  BY <1>7, <1>9, MergeAllLists
<1> HIDE DEF m
<1>12. \A x \in ToSet(cs) : x # b => Work(x) = {} /\ Sel(x) = {}
  BY <1>2, <1>4, <1>6, <1>7 DEF Quiet, Work, Sel
<1>13. Work(m) = UNION {Work(x) : x \in ToSet(cs)} /\ Sel(m) = UNION {Sel(x) : x \in ToSet(cs)}
  BY <1>11, ListedAre DEF Work, Sel
<1>14. Work(m) = {w} /\ Sel(m) = {}
  <2>1. b \in ToSet(cs)
    BY <1>7
  <2>2. \A x \in ToSet(cs) : Sel(x) = {}
    BY <1>8, <1>12
  <2>3. \A x \in ToSet(cs) : Work(x) \subseteq {w}
    BY <1>8, <1>12
  <2> DEFINE ws == UNION {Work(x) : x \in ToSet(cs)}
             ss == UNION {Sel(x) : x \in ToSet(cs)}
  <2>4. ss = {}
    BY <2>2
  <2>5. w \in ws /\ ws \subseteq {w}
    BY <1>8, <2>1, <2>3
  <2>6. Work(m) = ws /\ Sel(m) = ss
    BY <1>13
  <2> HIDE DEF ws, ss
  <2> QED BY <2>4, <2>5, <2>6
<1>15. key \in NamesIn(m)
  BY <1>2, <1>7, <1>10
<1>16. ASSUME NEW K, NamesIn(m) \subseteq K PROVE Sound(m, K)
  <2>1. key \in K /\ \A x \in ToSet(cs) : NamesIn(x) \subseteq K
    BY <1>10, <1>15, <1>16
  <2>2. \A x \in ToSet(cs) : Sound(x, K)
    BY <1>2, <1>4, <1>6, <1>7, <1>8, <2>1 DEF Closed
  <2> QED BY <1>10, <2>2
<1>17. Closed(m)
  BY <1>10, <1>16 DEF Closed
<1>18. WorkOf(doc) = {w} /\ SelOf(doc) = {}
  BY DEF WorkOf, SelOf, w, K8s!WorkloadKinds
<1> QED BY <1>1, <1>14, <1>15, <1>17, <1>18 DEF Gives, m, key

(* A service is listed if it selects anything.                             *)
LEMMA ServiceGives ==
    ASSUME NEW doc, doc.kind = "Service", doc.name # ""
    PROVE  Gives(K8s!Service(doc), doc)
<1> DEFINE a == K8s!Declared(doc)
           w == [ns |-> doc.ns, key |-> K8s!Key(doc), labels |-> doc.selector]
           b == [K8s!Nothing EXCEPT !["selectors"] = <<w>>]
           r == IF doc.selector = {} THEN K8s!Nothing ELSE b
           key == K8s!Key(doc)
<1>1. K8s!Service(doc) = K8s!Merge(a, r)
  BY DEF K8s!Service
<1>2. Closed(a) /\ Quiet(a) /\ key \in NamesIn(a)
  BY DeclaredGives
<1>3. SelOf(doc) = (IF doc.selector = {} THEN {} ELSE {w}) /\ WorkOf(doc) = {}
  BY DEF WorkOf, SelOf, K8s!WorkloadKinds
<1> HIDE DEF w
<1>4. IsChunk(b) /\ ToSet(b["selectors"]) = {w} /\ \A f \in Listed \ {"selectors"} : ToSet(b[f]) = {}
  <2>1. "selectors" \in Listed /\ Facts!IsRow(<<w>>) /\ ToSet(<<w>>) = {w}
    BY ListedAre, OneRow
  <2> QED BY <2>1, OneLists
<1> HIDE DEF a, b, key
<1>5. Closed(b) /\ Work(b) = {} /\ Sel(b) = {w}
  BY <1>4, ListedAre DEF Work, Sel, NamesIn, Sound, Closed
<1>6. Closed(K8s!Nothing) /\ Work(K8s!Nothing) = {} /\ Sel(K8s!Nothing) = {}
  BY NothingGives DEF Closed, Quiet, Work, Sel
<1>7. Closed(r) /\ Work(r) = {} /\ Sel(r) = SelOf(doc)
  BY <1>3, <1>5, <1>6
<1> HIDE DEF r
<1> DEFINE m == K8s!Merge(a, r)
<1>8. Closed(m) /\ NamesIn(m) = NamesIn(a) \cup NamesIn(r) /\ Work(m) = Work(a) \cup Work(r) /\ Sel(m) = Sel(a) \cup Sel(r)
  BY <1>2, <1>7, PairClosed
<1> HIDE DEF m
<1>9. Closed(m) /\ key \in NamesIn(m) /\ Work(m) = WorkOf(doc) /\ Sel(m) = SelOf(doc)
  <2>1. Work(a) = {} /\ Sel(a) = {}
    BY <1>2 DEF Quiet, Work, Sel
  <2> QED BY <1>2, <1>3, <1>7, <1>8, <2>1
<1> QED BY <1>1, <1>9 DEF Gives, m, key

(* An ingress routes to services by name, whether any declares them.       *)
LEMMA IngressGives ==
    ASSUME NEW doc, IsDocument(doc), doc.kind = "Ingress"
    PROVE  Gives(K8s!Ingress(doc), doc)
<1> DEFINE a == K8s!Declared(doc)
           key == K8s!Key(doc)
           g == [i \in 1..Len(doc.backends) |-> K8s!Edge(key, "ROUTES_TO", <<doc.ns, "Service", doc.backends[i]>>)]
           cs == <<a>> \o g
<1>0. Len(doc.backends) \in Nat /\ DOMAIN doc.backends = 1..Len(doc.backends)
  BY DEF IsDocument, Facts!IsRow
<1>1. K8s!Ingress(doc) = K8s!MergeAll(cs)
  BY <1>0 DEF K8s!Ingress
<1>2. Closed(a) /\ Quiet(a) /\ NamesIn(a) = {key, <<doc.ns>>}
  BY DeclaredGives
<1>3. g = [i \in 1..Len(doc.backends) |-> g[i]]
  OBVIOUS
<1>4. ASSUME NEW i \in 1..Len(doc.backends) PROVE Quietly(g[i], key)
  <2> DEFINE to == <<doc.ns, "Service", doc.backends[i]>>
  <2>1. Aims(to) /\ g[i] = K8s!Edge(key, "ROUTES_TO", to)
    BY DEF Aims
  <2> HIDE DEF to, g, key
  <2>2. \A K : key \in K => Lands(K, [src |-> key, type |-> "ROUTES_TO", dst |-> to])
    BY <2>1 DEF Lands
  <2>3. Quietly(K8s!Edge(key, "ROUTES_TO", to), key)
    BY <2>2, EdgeGives DEF Quietly
  <2> QED BY <2>1, <2>3
<1> HIDE DEF a, g, key
<1>5. Facts!IsRow(g) /\ ToSet(g) = {g[i] : i \in 1..Len(doc.backends)}
  BY <1>0, <1>3, MapRow
<1>6. Facts!IsRow(cs) /\ ToSet(cs) = {a} \cup ToSet(g)
  <2>1. Facts!IsRow(<<a>>) /\ ToSet(<<a>>) = {a}
    BY OneRow
  <2> QED BY <1>5, <2>1, ConcatRow
<1> HIDE DEF cs
<1>7. \A x \in ToSet(cs) : IsChunk(x) /\ Quiet(x)
  BY <1>2, <1>4, <1>5, <1>6 DEF Closed, Quietly
<1> DEFINE m == K8s!MergeAll(cs)
<1>8. /\ IsChunk(m) /\ NamesIn(m) = UNION {NamesIn(x) : x \in ToSet(cs)} /\ Quiet(m)
      /\ \A K : (\A x \in ToSet(cs) : Sound(x, K)) => Sound(m, K)
  BY <1>6, <1>7, MergedChunk
<1> HIDE DEF m
<1>9. key \in NamesIn(m)
  BY <1>2, <1>6, <1>8
<1>10. ASSUME NEW K, NamesIn(m) \subseteq K PROVE Sound(m, K)
  <2>1. key \in K /\ NamesIn(a) \subseteq K
    BY <1>6, <1>8, <1>9, <1>10
  <2>2. \A x \in ToSet(cs) : Sound(x, K)
    BY <1>2, <1>4, <1>5, <1>6, <2>1 DEF Closed, Quietly
  <2> QED BY <1>8, <2>2
<1>11. Closed(m)
  BY <1>8, <1>10 DEF Closed
<1>12. WorkOf(doc) = {} /\ SelOf(doc) = {}
  BY DEF WorkOf, SelOf, K8s!WorkloadKinds
<1> QED BY <1>1, <1>8, <1>9, <1>11, <1>12 DEF Gives, Quiet, Work, Sel, m, key

(* Every other object is declared, and that is all.                        *)
LEMMA PlainGives ==
    ASSUME NEW doc, doc.kind \notin K8s!WorkloadKinds \cup {"Service"}
    PROVE  Gives(K8s!Declared(doc), doc)
<1>1. WorkOf(doc) = {} /\ SelOf(doc) = {}
  BY DEF WorkOf, SelOf
<1>2. /\ Closed(K8s!Declared(doc)) /\ Quiet(K8s!Declared(doc))
      /\ K8s!Key(doc) \in NamesIn(K8s!Declared(doc))
  BY DeclaredGives
<1> QED BY <1>1, <1>2 DEF Gives, Quiet, Work, Sel

(* A document gives what it is listed as, and nothing of it dangles.       *)
LEMMA DocumentGives ==
    ASSUME NEW doc, IsDocument(doc)
    PROVE  Gives(K8s!ReadDocument(doc), doc)
<1> DEFINE c == K8s!ReadDocument(doc)
<1>1. CASE doc.kind \in {"", "null"} \/ (doc.name = "" /\ doc.kind # "Namespace")
  <2>1. c = K8s!Nothing \/ c = K8s!Skip
    BY <1>1 DEF K8s!ReadDocument, K8s!Object
  <2>2. Closed(c) /\ Work(c) = {} /\ Sel(c) = {}
    BY <2>1, NothingGives, SkipGives DEF Closed, Quiet, Work, Sel
  <2>3. WorkOf(doc) = {} /\ SelOf(doc) = {} /\ ~Placed(doc)
    BY <1>1 DEF WorkOf, SelOf, Placed, K8s!IsObject, K8s!WorkloadKinds
  <2> QED BY <2>2, <2>3 DEF Gives
<1>2. CASE doc.kind = "Namespace"
  <2> DEFINE v == IF doc.name = "" THEN <<>> ELSE <<doc.name>>
  <2>1. c = [K8s!Nothing EXCEPT !.namespaces = v]
    <3>1. c = K8s!Object(doc)
      BY <1>2 DEF K8s!ReadDocument
    <3>2. doc.kind \notin K8s!WorkloadKinds /\ doc.kind # "Service" /\ doc.kind # "Ingress"
      BY <1>2 DEF K8s!WorkloadKinds
    <3>3. K8s!Object(doc) = [K8s!Nothing EXCEPT !.namespaces = v]
      BY <1>2, <3>2, Zenon DEF K8s!Object
    <3> QED BY <3>1, <3>3
  <2>2. Facts!IsRow(v)
    BY NoneIsRow, OneRow
  <2> HIDE DEF v, c
  <2>3. Closed(c) /\ Work(c) = {} /\ Sel(c) = {}
    BY <2>1, <2>2, NamespaceGives DEF Closed, Quiet, Work, Sel
  <2>4. WorkOf(doc) = {} /\ SelOf(doc) = {} /\ ~Placed(doc)
    BY <1>2 DEF WorkOf, SelOf, Placed, K8s!WorkloadKinds
  <2> QED BY <2>3, <2>4 DEF Gives, c
<1>3. CASE doc.kind \notin {"", "null", "Namespace"} /\ doc.name # ""
  <2>1. c = K8s!Object(doc)
    BY <1>3 DEF K8s!ReadDocument
  <2>2. CASE doc.kind \in K8s!WorkloadKinds
    <3>1. c = K8s!Workload(doc)
      BY <1>3, <2>1, <2>2 DEF K8s!Object, K8s!WorkloadKinds
    <3> QED BY <1>3, <2>2, <3>1, WorkloadGives
  <2>3. CASE doc.kind = "Service"
    <3>1. c = K8s!Service(doc)
      BY <1>3, <2>1, <2>3 DEF K8s!Object, K8s!WorkloadKinds
    <3> QED BY <1>3, <2>3, <3>1, ServiceGives
  <2>4. CASE doc.kind = "Ingress"
    <3>1. c = K8s!Ingress(doc)
      BY <1>3, <2>1, <2>4 DEF K8s!Object, K8s!WorkloadKinds
    <3> QED BY <2>4, <3>1, IngressGives
  <2>5. CASE doc.kind \notin K8s!WorkloadKinds \cup {"Service", "Ingress"}
    <3>1. c = K8s!Declared(doc)
      BY <1>3, <2>1, <2>5 DEF K8s!Object
    <3> QED BY <2>5, <3>1, PlainGives
  <2> QED BY <2>2, <2>3, <2>4, <2>5
<1> QED BY <1>1, <1>2, <1>3

(* A file gives what its documents do.                                     *)
DocumentsOf(f) == IF f.state = "manifest" THEN ToSet(f.docs) ELSE {}
GivesAll(c, docs) ==
    /\ Closed(c) /\ Work(c) = UNION {WorkOf(d) : d \in docs} /\ Sel(c) = UNION {SelOf(d) : d \in docs}
    /\ \A d \in docs : Placed(d) => K8s!Key(d) \in NamesIn(c)
(* A file read gives all that its documents do.                            *)
LEMMA FileGives ==
    ASSUME NEW f, IsManifest(f)
    PROVE  GivesAll(K8s!Read(f), DocumentsOf(f))
<1>1. CASE f.state # "manifest"
  <2> DEFINE n == K8s!Note(f.path, f.state)
             m == K8s!Merge(K8s!Skip, n)
  <2>1. /\ Closed(K8s!Skip) /\ Work(K8s!Skip) = {} /\ Sel(K8s!Skip) = {}
        /\ Closed(n) /\ Work(n) = {} /\ Sel(n) = {}
    BY SkipGives, NoteGives DEF Closed, Quiet, Work, Sel
  <2>2. K8s!Read(f) = m /\ DocumentsOf(f) = {}
    BY <1>1 DEF K8s!Read, DocumentsOf
  <2>3. Closed(m) /\ Work(m) = Work(K8s!Skip) \cup Work(n) /\ Sel(m) = Sel(K8s!Skip) \cup Sel(n)
    BY <2>1, PairClosed
  <2> HIDE DEF n, m
  <2>4. Closed(m) /\ Work(m) = {} /\ Sel(m) = {}
    BY <2>1, <2>3
  <2> QED BY <2>2, <2>4 DEF GivesAll
<1>2. CASE f.state = "manifest"
  <2> DEFINE cs == [i \in 1..Len(f.docs) |-> K8s!ReadDocument(f.docs[i])]
             n == IF \E i \in DOMAIN f.docs : K8s!IsObject(f.docs[i]) THEN K8s!Nothing
                  ELSE K8s!Note(f.path, "not a manifest")
             joined == K8s!MergeAll(cs)
             m == K8s!Merge(joined, n)
  <2>1. /\ Len(f.docs) \in Nat /\ DOMAIN f.docs = 1..Len(f.docs)
        /\ \A i \in 1..Len(f.docs) : IsDocument(f.docs[i])
        /\ DocumentsOf(f) = {f.docs[i] : i \in 1..Len(f.docs)}
    BY <1>2 DEF IsManifest, Facts!IsRow, DocumentsOf, ToSet
  <2>2. K8s!Read(f) = m
    BY <1>2, <2>1 DEF K8s!Read
  <2>3. Closed(n) /\ Work(n) = {} /\ Sel(n) = {}
    <3>1. CASE n = K8s!Nothing
      <4> HIDE DEF n
      <4> QED BY <3>1, NothingGives DEF Closed, Quiet, Work, Sel
    <3>2. CASE n = K8s!Note(f.path, "not a manifest")
      <4> HIDE DEF n
      <4> QED BY <3>2, NoteGives DEF Closed, Quiet, Work, Sel
    <3> QED BY <3>1, <3>2
  <2>4. cs = [i \in 1..Len(f.docs) |-> cs[i]]
    OBVIOUS
  <2>5. \A i \in 1..Len(f.docs) : Gives(cs[i], f.docs[i])
    BY <2>1, DocumentGives
  <2> HIDE DEF cs, n
  <2>6. Facts!IsRow(cs) /\ ToSet(cs) = {cs[i] : i \in 1..Len(f.docs)}
    BY <2>1, <2>4, MapRow
  <2>7. \A x \in ToSet(cs) : Closed(x)
    BY <2>5, <2>6 DEF Gives
  <2>8. /\ Closed(joined) /\ NamesIn(joined) = UNION {NamesIn(x) : x \in ToSet(cs)}
        /\ Work(joined) = UNION {Work(x) : x \in ToSet(cs)} /\ Sel(joined) = UNION {Sel(x) : x \in ToSet(cs)}
    BY <2>6, <2>7, MergedClosed
  <2> HIDE DEF joined
  <2>9. /\ Closed(m) /\ NamesIn(m) = NamesIn(joined) \cup NamesIn(n)
        /\ Work(m) = Work(joined) \cup Work(n) /\ Sel(m) = Sel(joined) \cup Sel(n)
    BY <2>3, <2>8, PairClosed
  <2> HIDE DEF m
  <2>10. Work(m) = UNION {WorkOf(d) : d \in DocumentsOf(f)}
    <3>1. UNION {Work(x) : x \in ToSet(cs)} = UNION {Work(cs[i]) : i \in 1..Len(f.docs)}
      BY <2>6
    <3>2. UNION {WorkOf(d) : d \in DocumentsOf(f)} = UNION {WorkOf(f.docs[i]) : i \in 1..Len(f.docs)}
      BY <2>1
    <3>3. \A i \in 1..Len(f.docs) : Work(cs[i]) = WorkOf(f.docs[i])
      BY <2>5 DEF Gives
    <3>4. UNION {Work(cs[i]) : i \in 1..Len(f.docs)} = UNION {WorkOf(f.docs[i]) : i \in 1..Len(f.docs)}
      BY <3>3
    <3> QED BY <2>3, <2>8, <2>9, <3>1, <3>2, <3>4
  <2>11. Sel(m) = UNION {SelOf(d) : d \in DocumentsOf(f)}
    <3>1. UNION {Sel(x) : x \in ToSet(cs)} = UNION {Sel(cs[i]) : i \in 1..Len(f.docs)}
      BY <2>6
    <3>2. UNION {SelOf(d) : d \in DocumentsOf(f)} = UNION {SelOf(f.docs[i]) : i \in 1..Len(f.docs)}
      BY <2>1
    <3>3. \A i \in 1..Len(f.docs) : Sel(cs[i]) = SelOf(f.docs[i])
      BY <2>5 DEF Gives
    <3>4. UNION {Sel(cs[i]) : i \in 1..Len(f.docs)} = UNION {SelOf(f.docs[i]) : i \in 1..Len(f.docs)}
      BY <3>3
    <3> QED BY <2>3, <2>8, <2>9, <3>1, <3>2, <3>4
  <2>12. ASSUME NEW d \in DocumentsOf(f), Placed(d) PROVE K8s!Key(d) \in NamesIn(m)
    <3>1. PICK i \in 1..Len(f.docs) : d = f.docs[i]
      BY <2>1
    <3>2. K8s!Key(d) \in NamesIn(cs[i]) /\ cs[i] \in ToSet(cs)
      BY <2>5, <2>6, <2>12, <3>1 DEF Gives
    <3> QED BY <2>8, <2>9, <3>2
  <2>13. GivesAll(m, DocumentsOf(f))
    BY <2>9, <2>10, <2>11, <2>12 DEF GivesAll
  <2> QED BY <2>2, <2>13
<1> QED BY <1>1, <1>2

(* And a tree, in one chunk, what its files do.                            *)
DocumentsIn(t) == UNION {DocumentsOf(f) : f \in ToSet(t.files)}
(* A tree read in one chunk gives all that its documents do.               *)
LEMMA TreeGives ==
    ASSUME NEW t \in Tree, t.plugin = "k8s"
    PROVE  GivesAll(Whole("k8s", t.files), DocumentsIn(t))
<1> DEFINE Find(file) == FindIn("k8s", file)
           Op(c, file) == Facts!JoinPartials(c, FindIn("k8s", file))
           m == Whole("k8s", t.files)
           files == t.files
<1>0. Len(files) \in Nat /\ DOMAIN files = 1..Len(files) /\ ToSet(files) = {files[i] : i \in 1..Len(files)}
  BY TreeAssumption DEF Facts!IsRow, ToSet
<1>1. PartsOf("k8s") = K8s!Fields /\ \A i \in 1..Len(files) : IsManifest(files[i]) /\ Find(files[i]) = K8s!Read(files[i])
  BY <1>0, ManifestAssumption
<1>2. m = FoldLeft(Op, Facts!Blank(K8s!Fields), files)
  BY <1>1 DEF Whole
<1>3. JoinsWith(Op, Find)
  BY DEF JoinsWith
<1>4. \A i \in 1..Len(files) : GivesAll(Find(files[i]), DocumentsOf(files[i]))
  <2> HIDE DEF Find, files
  <2> QED BY <1>1, FileGives
<1> HIDE DEF Find, Op, m, files
<1>5. Finds(K8s!Fields, Find, files)
  BY <1>4 DEF Finds, GivesAll, Closed, IsChunk
<1>6. Lists(K8s!Fields, Find, files, Len(files), m)
  BY <1>0, <1>2, <1>3, <1>5, JoinedItems
<1>7. Facts!IsPartial(K8s!Fields, m) /\ \A f \in Listed : ToSet(m[f]) = UNION {ToSet(Find(files[i])[f]) : i \in 1..Len(files)}
  BY <1>6 DEF Lists, Listed
<1>8. /\ ToSet(m["nodes"]) = UNION {ToSet(Find(files[i])["nodes"]) : i \in 1..Len(files)}
      /\ ToSet(m["edges"]) = UNION {ToSet(Find(files[i])["edges"]) : i \in 1..Len(files)}
      /\ ToSet(m["namespaces"]) = UNION {ToSet(Find(files[i])["namespaces"]) : i \in 1..Len(files)}
      /\ ToSet(m["workloads"]) = UNION {ToSet(Find(files[i])["workloads"]) : i \in 1..Len(files)}
      /\ ToSet(m["selectors"]) = UNION {ToSet(Find(files[i])["selectors"]) : i \in 1..Len(files)}
  BY <1>7, ListedAre
<1>9. NamesIn(m) = UNION {NamesIn(Find(files[i])) : i \in 1..Len(files)}
  BY <1>8 DEF NamesIn
<1>10. Closed(m)
  <2>1. ASSUME NEW K, NamesIn(m) \subseteq K PROVE Sound(m, K)
    <3>1. \A i \in 1..Len(files) : NamesIn(Find(files[i])) \subseteq K
      BY <1>9, <2>1
    <3>2. \A i \in 1..Len(files) : Sound(Find(files[i]), K)
      BY <1>4, <3>1 DEF GivesAll, Closed
    <3> QED BY <1>8, <3>2 DEF Sound
  <2>2. Shown(m)
    BY <1>4, <1>8 DEF GivesAll, Closed, IsChunk, Shown
  <2> QED BY <1>7, <2>1, <2>2 DEF Closed, IsChunk
<1>11. /\ UNION {WorkOf(d) : d \in DocumentsIn(t)} =
              UNION {UNION {WorkOf(d) : d \in DocumentsOf(files[i])} : i \in 1..Len(files)}
       /\ UNION {SelOf(d) : d \in DocumentsIn(t)} =
              UNION {UNION {SelOf(d) : d \in DocumentsOf(files[i])} : i \in 1..Len(files)}
  <2>1. DocumentsIn(t) = UNION {DocumentsOf(files[i]) : i \in 1..Len(files)}
    BY <1>0 DEF DocumentsIn, files
  <2> QED BY <2>1
<1>12. Work(m) = UNION {WorkOf(d) : d \in DocumentsIn(t)} /\ Sel(m) = UNION {SelOf(d) : d \in DocumentsIn(t)}
  <2>1. /\ Work(m) = UNION {Work(Find(files[i])) : i \in 1..Len(files)}
        /\ Sel(m) = UNION {Sel(Find(files[i])) : i \in 1..Len(files)}
    BY <1>8 DEF Work, Sel
  <2>2. \A i \in 1..Len(files) : /\ Work(Find(files[i])) = UNION {WorkOf(d) : d \in DocumentsOf(files[i])}
                                  /\ Sel(Find(files[i])) = UNION {SelOf(d) : d \in DocumentsOf(files[i])}
    BY <1>4 DEF GivesAll
  <2>3. UNION {Work(Find(files[i])) : i \in 1..Len(files)}
        = UNION {UNION {WorkOf(d) : d \in DocumentsOf(files[i])} : i \in 1..Len(files)}
    BY <2>2
  <2>4. UNION {Sel(Find(files[i])) : i \in 1..Len(files)}
        = UNION {UNION {SelOf(d) : d \in DocumentsOf(files[i])} : i \in 1..Len(files)}
    BY <2>2
  <2> QED BY <1>11, <2>1, <2>3, <2>4
<1>13. ASSUME NEW d \in DocumentsIn(t), Placed(d) PROVE K8s!Key(d) \in NamesIn(m)
  <2>1. PICK i \in 1..Len(files) : d \in DocumentsOf(files[i])
    BY <1>0 DEF DocumentsIn, files
  <2> QED BY <1>4, <1>9, <1>13, <2>1 DEF GivesAll
<1> QED BY <1>10, <1>12, <1>13 DEF GivesAll, m, files
----------------------------------------------------------------------------
(***************************************************************************)
(* The pass over the whole tree.                                           *)
(***************************************************************************)
(* The first of each of a sequence are what is in it.                      *)
LEMMA FirstOfEachLists ==
    ASSUME NEW S, NEW seq \in Seq(S)
    PROVE  K8s!FirstOfEach(seq) \in Seq(S) /\ Range(K8s!FirstOfEach(seq)) = Range(seq)
<1> DEFINE Op(s, x) == IF K8s!Contains(s, x) THEN s ELSE Append(s, x)
<1>1. K8s!FirstOfEach(seq) = FoldLeft(Op, <<>>, seq)
  <2>1. K8s!FirstOfEach(seq) = K8s!FoldLeft(Op, <<>>, seq)
    BY DEF K8s!FirstOfEach
  <2> HIDE DEF Op
  <2>2. K8s!FoldLeft(Op, <<>>, seq) = FoldLeft(Op, <<>>, seq)
    BY DEF K8s!FoldLeft, FoldLeft, K8s!MapThenFoldSet, MapThenFoldSet, K8s!Max, Max
  <2> QED BY <2>1, <2>2
<1>2. \A s \in Seq(S), x \in S : Op(s, x) \in Seq(S) /\ Range(Op(s, x)) = Range(s) \cup {x}
  <2> SUFFICES ASSUME NEW s \in Seq(S), NEW x \in S
               PROVE  Op(s, x) \in Seq(S) /\ Range(Op(s, x)) = Range(s) \cup {x}
    OBVIOUS
  <2>1. CASE K8s!Contains(s, x)
    <3>1. x \in Range(s)
      BY <2>1 DEF K8s!Contains, Range
    <3> QED BY <2>1, <3>1
  <2>2. CASE ~K8s!Contains(s, x)
    <3>1. Append(s, x) \in Seq(S) /\ Range(Append(s, x)) = Range(s) \cup {x}
      <4> DEFINE a == Append(s, x)
      <4>1. /\ a \in Seq(S) /\ Len(s) \in Nat /\ DOMAIN a = 1..(Len(s) + 1) /\ DOMAIN s = 1..Len(s)
            /\ a[Len(s) + 1] = x /\ \A i \in 1..Len(s) : a[i] = s[i]
        OBVIOUS
      <4> HIDE DEF a
      <4>2. Range(a) = Range(s) \cup {x}
        BY <4>1 DEF Range
      <4> QED BY <4>1, <4>2 DEF a
    <3> QED BY <2>2, <3>1
  <2> QED BY <2>1, <2>2
<1>3. Len(seq) \in Nat /\ DOMAIN seq = 1..Len(seq) /\ \A i \in 1..Len(seq) : seq[i] \in S
  OBVIOUS
<1> HIDE DEF Op
<1>4. PICK up : /\ \A n \in 0..Len(seq) : up[n] = IF n = 0 THEN <<>> ELSE Op(up[n - 1], seq[n])
                /\ FoldLeft(Op, <<>>, seq) = up[Len(seq)]
  <2>1. IsFold(Op, <<>>, seq, FoldLeft(Op, <<>>, seq))
    BY <1>3, FoldLeftSteps
  <2>2. PICK up : Steps(Op, <<>>, seq, up) /\ FoldLeft(Op, <<>>, seq) = up[Len(seq)]
    BY <2>1 DEF IsFold
  <2>3. \A n \in 0..Len(seq) : up[n] = IF n = 0 THEN <<>> ELSE Op(up[n - 1], seq[n])
    BY <2>2 DEF Steps
  <2> QED BY <2>2, <2>3
<1> DEFINE Good(n) == up[n] \in Seq(S) /\ Range(up[n]) = {seq[i] : i \in 1..n}
           T == {n \in Nat : n <= Len(seq) => Good(n)}
<1>5. 0 \in T
  <2>0. 0 \in 0..Len(seq) /\ (\A n \in 0..Len(seq) : up[n] = IF n = 0 THEN <<>> ELSE Op(up[n - 1], seq[n]))
    BY <1>3, <1>4
  <2>1. up[0] = <<>>
    BY <2>0, Zenon
  <2>2. 1..0 = {}
    OBVIOUS
  <2>3. <<>> \in Seq(S) /\ Range(<<>>) = {}
    BY DEF Range
  <2>4. {seq[i] : i \in 1..0} = {}
    BY <2>2
  <2>5. Good(0)
    BY <2>1, <2>3, <2>4
  <2> QED BY <2>5
<1>6. ASSUME NEW n \in Nat, n \in T PROVE n + 1 \in T
  <2> SUFFICES ASSUME n + 1 <= Len(seq) PROVE Good(n + 1)
    OBVIOUS
  <2>1. n + 1 \in 0..Len(seq) /\ n + 1 \in 1..Len(seq) /\ n + 1 # 0 /\ (n + 1) - 1 = n /\ n <= Len(seq)
    BY <1>3
  <2>2. up[n + 1] = Op(up[n], seq[n + 1]) /\ seq[n + 1] \in S
    BY <1>3, <1>4, <2>1
  <2>3. Good(n)
    BY <1>6, <2>1
  <2>4. 1..(n + 1) = (1..n) \cup {n + 1}
    OBVIOUS
  <2>5. {seq[i] : i \in 1..(n + 1)} = {seq[i] : i \in 1..n} \cup {seq[n + 1]}
    BY <2>4
  <2>6. Op(up[n], seq[n + 1]) \in Seq(S) /\ Range(Op(up[n], seq[n + 1])) = Range(up[n]) \cup {seq[n + 1]}
    BY <1>2, <2>2, <2>3
  <2>7. up[n + 1] \in Seq(S)
    BY <2>2, <2>6
  <2>8. Range(up[n + 1]) = {seq[i] : i \in 1..(n + 1)}
    BY <2>2, <2>3, <2>5, <2>6
  <2> QED BY <2>7, <2>8
<1>7. Nat \subseteq T
  <2> HIDE DEF T
  <2> QED BY <1>5, <1>6, CountingUp
<1>8. Good(Len(seq))
  <2>1. Len(seq) \in T
    <3> HIDE DEF T
    <3> QED BY <1>3, <1>7
  <2> HIDE DEF Good
  <2> QED BY <1>3, <2>1
<1>9. Range(seq) = {seq[i] : i \in 1..Len(seq)}
  BY <1>3 DEF Range
<1> QED BY <1>1, <1>4, <1>8, <1>9

(* The nodes of the answer are those of the chunk, and its namespaces.     *)
LEMMA NodesOfAnswer ==
    ASSUME NEW c, IsChunk(c)
    PROVE  /\ Facts!IsRow(c.nodes \o K8s!NamespaceNodes(c))
           /\ {n.key : n \in ToSet(c.nodes \o K8s!NamespaceNodes(c))} = NamesIn(c)
           /\ \A n \in ToSet(c.nodes \o K8s!NamespaceNodes(c)) : OfImage(n)
<1> DEFINE spaces == c["namespaces"]
           nodes == c["nodes"]
           names == K8s!FirstOfEach(spaces)
           g == [i \in 1..Len(names) |-> [key |-> <<names[i]>>, label |-> "Namespace"]]
<1>1. Facts!IsRow(nodes) /\ Facts!IsRow(spaces)
  BY DEF IsChunk, Facts!IsPartial, K8s!Fields
<1>2. PICK S : spaces \in Seq(S)
  <2> HIDE DEF spaces
  <2> QED BY <1>1, RowsAreSeqs
<1>3. names \in Seq(S) /\ Range(names) = Range(spaces)
  <2> HIDE DEF spaces
  <2> QED BY <1>2, FirstOfEachLists
<1>4. Len(names) \in Nat /\ DOMAIN names = 1..Len(names)
  <2> HIDE DEF names
  <2> QED BY <1>3
<1>5. K8s!NamespaceNodes(c) = g
  BY <1>4 DEF K8s!NamespaceNodes
<1>6. g = [i \in 1..Len(names) |-> g[i]] /\ \A i \in 1..Len(names) : g[i].key = <<names[i]>> /\ g[i].label # "Image"
  OBVIOUS
<1>13. \A n \in ToSet(nodes) : OfImage(n)
  BY DEF IsChunk, Shown
<1>7. {<<names[i]>> : i \in 1..Len(names)} = {<<x>> : x \in ToSet(spaces)}
  <2>1. ToSet(spaces) = {names[i] : i \in 1..Len(names)}
    <3> HIDE DEF names, spaces
    <3> QED BY <1>3, <1>4 DEF Range, ToSet
  <2> HIDE DEF names, spaces
  <2> QED BY <2>1
<1>8. NamesIn(c) = {n.key : n \in ToSet(nodes)} \cup {<<x>> : x \in ToSet(spaces)}
  BY DEF NamesIn
<1> HIDE DEF spaces, names, g
<1>9. Facts!IsRow(g) /\ ToSet(g) = {g[i] : i \in 1..Len(names)}
  BY <1>4, <1>6, MapRow
<1>10. c.nodes = nodes
  OBVIOUS
<1> HIDE DEF nodes
<1>11. Facts!IsRow(nodes \o g) /\ ToSet(nodes \o g) = ToSet(nodes) \cup ToSet(g)
  BY <1>1, <1>9, ConcatRow
<1>12. {n.key : n \in ToSet(g)} = {<<names[i]>> : i \in 1..Len(names)}
  <2>1. {n.key : n \in ToSet(g)} = {g[i].key : i \in 1..Len(names)}
    BY <1>9
  <2> QED BY <1>6, <2>1
<1>14. \A n \in ToSet(nodes \o g) : OfImage(n)
  BY <1>6, <1>9, <1>11, <1>13 DEF OfImage
<1> QED BY <1>5, <1>7, <1>8, <1>10, <1>11, <1>12, <1>14

(* Every selector listed selects the workloads listed that match it.       *)
Picked(s, w) == [src |-> s.key, type |-> "SELECTS", dst |-> w.key]
(* The selections are those of the pairs that match, and no others.        *)
LEMMA SelectedAre ==
    ASSUME NEW c, IsChunk(c)
    PROVE  /\ Facts!IsRow(K8s!Selected(c))
           /\ \A e : e \in ToSet(K8s!Selected(c)) <=>
                 \E s \in Sel(c), w \in Work(c) : K8s!Selects(s, w) /\ e = Picked(s, w)
<1> DEFINE ss == c["selectors"]
           ws == c["workloads"]
           hit(i, j) == IF K8s!Selects(ss[i], ws[j]) THEN <<Picked(ss[i], ws[j])>> ELSE <<>>
           E == {Picked(ss[i], ws[j]) : i \in 1..Len(ss), j \in 1..Len(ws)}
           of(i) == [j \in 1..Len(ws) |-> hit(i, j)]
           rows == [i \in 1..Len(ss) |-> FlattenSeq(of(i))]
<1>1. Facts!IsRow(ss) /\ Facts!IsRow(ws)
  BY DEF IsChunk, Facts!IsPartial, K8s!Fields
<1>2. /\ Len(ss) \in Nat /\ DOMAIN ss = 1..Len(ss) /\ Sel(c) = {ss[i] : i \in 1..Len(ss)}
      /\ Len(ws) \in Nat /\ DOMAIN ws = 1..Len(ws) /\ Work(c) = {ws[j] : j \in 1..Len(ws)}
  BY <1>1 DEF Facts!IsRow, Sel, Work, ToSet
<1>3. K8s!Selected(c) = FlattenSeq(rows)
  <2>1. \A seqs : K8s!FlattenSeq(seqs) = FlattenSeq(seqs)
    BY DEF K8s!FlattenSeq, FlattenSeq
  <2>2. K8s!Selected(c) = K8s!FlattenSeq([i \in 1..Len(ss) |-> K8s!FlattenSeq(of(i))])
    BY <1>2 DEF K8s!Selected, Picked
  <2> HIDE DEF ss, ws, of
  <2> QED BY <2>1, <2>2
<1> HIDE DEF ss, ws
<1>4. ASSUME NEW i \in 1..Len(ss), NEW j \in 1..Len(ws)
      PROVE  /\ hit(i, j) \in Seq(E)
             /\ Range(hit(i, j)) = IF K8s!Selects(ss[i], ws[j]) THEN {Picked(ss[i], ws[j])} ELSE {}
  <2> DEFINE e == Picked(ss[i], ws[j])
  <2>1. e \in E
    OBVIOUS
  <2> HIDE DEF e, E
  <2>2. <<e>> \in Seq(E) /\ Range(<<e>>) = {e}
    <3>1. <<e>> \in Seq(E) /\ DOMAIN <<e>> = {1} /\ <<e>>[1] = e
      BY <2>1
    <3> QED BY <3>1, OneRow DEF ToSet, Range
  <2>3. <<>> \in Seq(E) /\ Range(<<>>) = {}
    BY DEF Range
  <2>4. CASE K8s!Selects(ss[i], ws[j])
    <3>1. hit(i, j) = <<e>>
      BY <2>4 DEF e
    <3> HIDE DEF hit
    <3> QED BY <2>2, <2>4, <3>1 DEF e
  <2>5. CASE ~K8s!Selects(ss[i], ws[j])
    <3>1. hit(i, j) = <<>>
      BY <2>5
    <3> HIDE DEF hit
    <3> QED BY <2>3, <2>5, <3>1
  <2> QED BY <2>4, <2>5
<1> HIDE DEF hit, E
<1>5. ASSUME NEW i \in 1..Len(ss)
      PROVE  FlattenSeq(of(i)) \in Seq(E) /\ Range(FlattenSeq(of(i))) = UNION {Range(hit(i, j)) : j \in 1..Len(ws)}
  <2> DEFINE g == of(i)
  <2>1. g \in [1..Len(ws) -> Seq(E)]
    BY <1>4
  <2>2. DOMAIN g = 1..Len(ws) /\ \A j \in 1..Len(ws) : g[j] = hit(i, j)
    OBVIOUS
  <2> HIDE DEF g, of
  <2>3. g \in Seq(Seq(E))
    BY <1>2, <2>1, FunctionIsSeq
  <2>4. FlattenSeq(g) \in Seq(E) /\ Range(FlattenSeq(g)) = UNION {Range(g[j]) : j \in DOMAIN g}
    BY <2>3, FlattenElements
  <2>5. UNION {Range(g[j]) : j \in DOMAIN g} = UNION {Range(hit(i, j)) : j \in 1..Len(ws)}
    BY <2>2
  <2> QED BY <2>4, <2>5 DEF g
<1> HIDE DEF of
<1>6. rows \in [1..Len(ss) -> Seq(E)]
  BY <1>5
<1>7. DOMAIN rows = 1..Len(ss) /\ \A i \in 1..Len(ss) : rows[i] = FlattenSeq(of(i))
  OBVIOUS
<1> HIDE DEF rows
<1>8. rows \in Seq(Seq(E))
  BY <1>2, <1>6, FunctionIsSeq
<1>9. FlattenSeq(rows) \in Seq(E) /\ Range(FlattenSeq(rows)) = UNION {Range(rows[i]) : i \in DOMAIN rows}
  BY <1>8, FlattenElements
<1>10. ASSUME NEW e
       PROVE  e \in Range(FlattenSeq(rows)) <=>
                 \E i \in 1..Len(ss), j \in 1..Len(ws) : K8s!Selects(ss[i], ws[j]) /\ e = Picked(ss[i], ws[j])
  <2>1. e \in Range(FlattenSeq(rows)) <=> \E i \in 1..Len(ss) : e \in Range(FlattenSeq(of(i)))
    BY <1>7, <1>9
  <2>2. \A i \in 1..Len(ss) : e \in Range(FlattenSeq(of(i))) <=> \E j \in 1..Len(ws) : e \in Range(hit(i, j))
    BY <1>5
  <2>3. \A i \in 1..Len(ss), j \in 1..Len(ws) :
           e \in Range(hit(i, j)) <=> K8s!Selects(ss[i], ws[j]) /\ e = Picked(ss[i], ws[j])
    BY <1>4
  <2> QED BY <2>1, <2>2, <2>3
<1>11. Range(FlattenSeq(rows)) = ToSet(FlattenSeq(rows))
  BY DEF Range, ToSet
<1>12. Facts!IsRow(FlattenSeq(rows))
  BY <1>9, SeqIsRow
<1>13. \A e : e \in ToSet(FlattenSeq(rows)) <=>
          \E s \in Sel(c), w \in Work(c) : K8s!Selects(s, w) /\ e = Picked(s, w)
  BY <1>2, <1>10, <1>11
<1> QED BY <1>3, <1>12, <1>13

(* Nothing is counted as unmatched iff every selector selects something.   *)
LEMMA UnmatchedNone ==
    ASSUME NEW c, IsChunk(c)
    PROVE  K8s!Unmatched(c) = 0 <=> \A s \in Sel(c) : \E w \in Work(c) : K8s!Selects(s, w)
<1> DEFINE ss == c["selectors"]
           ws == c["workloads"]
           U == {i \in 1..Len(ss) : \A j \in 1..Len(ws) : ~K8s!Selects(ss[i], ws[j])}
<1>1. Facts!IsRow(ss) /\ Facts!IsRow(ws)
  BY DEF IsChunk, Facts!IsPartial, K8s!Fields
<1>2. /\ Len(ss) \in Nat /\ DOMAIN ss = 1..Len(ss) /\ Sel(c) = {ss[i] : i \in 1..Len(ss)}
      /\ Len(ws) \in Nat /\ DOMAIN ws = 1..Len(ws) /\ Work(c) = {ws[j] : j \in 1..Len(ws)}
  BY <1>1 DEF Facts!IsRow, Sel, Work, ToSet
<1>3. K8s!Unmatched(c) = Cardinality(U)
  <2>1. K8s!Unmatched(c) = K8s!Cardinality(U)
    BY <1>2 DEF K8s!Unmatched
  <2>2. K8s!Cardinality(U) = Cardinality(U)
    BY DEF K8s!Cardinality, Cardinality
  <2> QED BY <2>1, <2>2
<1>4. IsFiniteSet(U)
  <2>1. U \subseteq 1..Len(ss)
    OBVIOUS
  <2> HIDE DEF U, ss
  <2>2. IsFiniteSet(1..Len(ss))
    BY <1>2, FS_Interval
  <2> QED BY <2>1, <2>2, FS_Subset
<1>5. Cardinality(U) = 0 <=> U = {}
  <2> HIDE DEF U
  <2> QED BY <1>4, FS_EmptySet
<1>6. U = {} <=> \A s \in Sel(c) : \E w \in Work(c) : K8s!Selects(s, w)
  <2> HIDE DEF ss, ws
  <2>1. U = {} <=> \A i \in 1..Len(ss) : \E j \in 1..Len(ws) : K8s!Selects(ss[i], ws[j])
    OBVIOUS
  <2>2. (\A s \in Sel(c) : \E w \in Work(c) : K8s!Selects(s, w))
        <=> \A i \in 1..Len(ss) : \E j \in 1..Len(ws) : K8s!Selects(ss[i], ws[j])
    BY <1>2
  <2> QED BY <2>1, <2>2
<1> QED BY <1>3, <1>5, <1>6
----------------------------------------------------------------------------
(***************************************************************************)
(* The answer.                                                             *)
(***************************************************************************)
(* What is answered is resolved from what all documents of the tree give.  *)
Given == Whole("k8s", input.files)
(* An answer is the resolution of the whole tree.                          *)
LEMMA AnswerIs ==
    ASSUME Inv, Answered({"k8s"})
    PROVE  out = K8s!Resolve(Given) /\ GivesAll(Given, Documents)
<1>1. input \in Tree /\ out = AnswerTo(input) /\ input.plugin = "k8s"
  BY DEF Inv, Answered
<1>2. out = K8s!Resolve(Given)
  BY <1>1, ManifestAssumption DEF Given
<1>3. Documents = DocumentsIn(input)
  BY DEF Documents, DocumentsIn, DocumentsOf, Files
<1> QED BY <1>1, <1>2, <1>3, TreeGives DEF Given

(* Its nodes, its edges and its count, from what was given.                *)
LEMMA AnswerHas ==
    ASSUME Inv, Answered({"k8s"})
    PROVE  /\ NodeKeys = NamesIn(Given)
           /\ \A e : e \in Edges <=>
                 \/ e \in ToSet(Given["edges"])
                 \/ \E s \in Sel(Given), w \in Work(Given) : K8s!Selects(s, w) /\ e = Picked(s, w)
           /\ out.unmatched = 0 <=> \A s \in Sel(Given) : \E w \in Work(Given) : K8s!Selects(s, w)
<1> DEFINE c == Given
           nodes == c.nodes \o K8s!NamespaceNodes(c)
           edges == c.edges \o K8s!Selected(c)
<1>1. out = K8s!Resolve(c) /\ IsChunk(c)
  BY AnswerIs DEF GivesAll, Closed
<1>2. out.nodes = nodes /\ out.edges = edges /\ out.unmatched = K8s!Unmatched(c)
  BY <1>1 DEF K8s!Resolve
<1>3. NodeKeys = NamesIn(c)
  <2>1. {n.key : n \in ToSet(nodes)} = NamesIn(c)
    BY <1>1, NodesOfAnswer
  <2> HIDE DEF nodes
  <2>2. NodeKeys = {n.key : n \in ToSet(nodes)}
    BY <1>2 DEF NodeKeys, ToSet
  <2> QED BY <2>1, <2>2
<1>4. Facts!IsRow(c.edges) /\ c.edges = c["edges"]
  BY <1>1 DEF IsChunk, Facts!IsPartial, K8s!Fields
<1>5. /\ Facts!IsRow(K8s!Selected(c))
      /\ \A e : e \in ToSet(K8s!Selected(c)) <=>
            \E s \in Sel(c), w \in Work(c) : K8s!Selects(s, w) /\ e = Picked(s, w)
  BY <1>1, SelectedAre
<1>6. ToSet(edges) = ToSet(c["edges"]) \cup ToSet(K8s!Selected(c))
  BY <1>4, <1>5, ConcatRow
<1>7. K8s!Unmatched(c) = 0 <=> \A s \in Sel(c) : \E w \in Work(c) : K8s!Selects(s, w)
  BY <1>1, UnmatchedNone
<1>8. Edges = ToSet(edges)
  BY <1>2 DEF Edges
<1> HIDE DEF c, edges, nodes
<1>9. \A e : e \in Edges <=>
         \/ e \in ToSet(c["edges"])
         \/ \E s \in Sel(c), w \in Work(c) : K8s!Selects(s, w) /\ e = Picked(s, w)
  BY <1>5, <1>6, <1>8
<1> QED BY <1>2, <1>3, <1>7, <1>9 DEF c

(* What is listed is a service or a workload of the tree, and the other    *)
(* way round; their keys have nodes.                                       *)
LEMMA ListedAsDeclared ==
    ASSUME NEW c, GivesAll(c, Documents)
    PROVE  /\ \A s : s \in Sel(c) <=> \E d \in Services : s = [ns |-> d.ns, key |-> K8s!Key(d), labels |-> d.selector]
           /\ \A w : w \in Work(c) <=> \E d \in Workloads : w = [ns |-> d.ns, key |-> K8s!Key(d), labels |-> d.labels]
           /\ \A d \in Services \cup Workloads : K8s!Key(d) \in NamesIn(c)
<1>1. ASSUME NEW s
      PROVE  s \in Sel(c) <=> \E d \in Services : s = [ns |-> d.ns, key |-> K8s!Key(d), labels |-> d.selector]
  <2>1. s \in Sel(c) <=> \E d \in Documents : s \in SelOf(d)
    BY DEF GivesAll
  <2>2. \A d \in Documents : s \in SelOf(d) <=>
            d \in Services /\ s = [ns |-> d.ns, key |-> K8s!Key(d), labels |-> d.selector]
    BY DEF SelOf, Services, Objects, K8s!IsObject
  <2>3. Services \subseteq Documents
    BY DEF Services, Objects
  <2> QED BY <2>1, <2>2, <2>3
<1>2. ASSUME NEW w
      PROVE  w \in Work(c) <=> \E d \in Workloads : w = [ns |-> d.ns, key |-> K8s!Key(d), labels |-> d.labels]
  <2>1. w \in Work(c) <=> \E d \in Documents : w \in WorkOf(d)
    BY DEF GivesAll
  <2>2. \A d \in Documents : w \in WorkOf(d) <=>
            d \in Workloads /\ w = [ns |-> d.ns, key |-> K8s!Key(d), labels |-> d.labels]
    BY DEF WorkOf, Workloads, Objects, K8s!IsObject, K8s!WorkloadKinds
  <2>3. Workloads \subseteq Documents
    BY DEF Workloads, Objects
  <2> QED BY <2>1, <2>2, <2>3
<1>3. ASSUME NEW d \in Services \cup Workloads PROVE K8s!Key(d) \in NamesIn(c)
  <2>1. d \in Documents /\ Placed(d)
    BY <1>3 DEF Services, Workloads, Objects, Placed, K8s!WorkloadKinds
  <2> QED BY <2>1 DEF GivesAll
<1> QED BY <1>1, <1>2, <1>3

(* What is aimed at and declared has a node.                               *)
LEMMA DeclaredLands ==
    ASSUME NEW c, GivesAll(c, Documents), NEW key, Aims(key), Mounted(key)
    PROVE  key \in NamesIn(c)
<1>1. PICK d \in Objects : key = <<d.ns, K8s!LabelOf(d.kind), d.name>>
  BY DEF Mounted
<1>2. K8s!LabelOf(d.kind) \in {"ConfigMap", "Secret", "Volume", "Service"}
  BY <1>1 DEF Aims, Referred
<1>3. d.kind \notin K8s!WorkloadKinds
  <2>1. ASSUME d.kind \in K8s!WorkloadKinds PROVE K8s!LabelOf(d.kind) = "Workload"
    BY <2>1 DEF K8s!LabelOf, K8s!WorkloadKinds
  <2> QED BY <1>2, <2>1
<1>4. CASE d.kind = "PersistentVolumeClaim"
  <2>1. K8s!LabelOf(d.kind) = "Volume" /\ K8s!Key(d) = <<d.ns, "Volume", d.name>>
    BY <1>3, <1>4 DEF K8s!LabelOf, K8s!Key
  <2>2. Placed(d) /\ d \in Documents
    BY <1>4 DEF Objects, Placed
  <2> QED BY <1>1, <2>1, <2>2 DEF GivesAll
<1>5. CASE d.kind # "PersistentVolumeClaim"
  <2>1. K8s!LabelOf(d.kind) = d.kind
    <3>1. d.kind \in {"Service", "Ingress", "ConfigMap", "Secret"}
      <4>1. ASSUME d.kind \notin {"Service", "Ingress", "ConfigMap", "Secret"} PROVE K8s!LabelOf(d.kind) = "Resource"
        BY <1>3, <1>5, <4>1 DEF K8s!LabelOf
      <4> QED BY <1>2, <4>1
    <3> QED BY <1>3, <1>5, <3>1 DEF K8s!LabelOf
  <2>2. K8s!Key(d) = <<d.ns, d.kind, d.name>>
    BY <1>5 DEF K8s!Key
  <2>3. Placed(d) /\ d \in Documents
    BY <1>2, <2>1 DEF Objects, Placed
  <2> QED BY <1>1, <2>1, <2>2, <2>3 DEF GivesAll
<1> QED BY <1>4, <1>5

(***************************************************************************)
(* Whatever the tree, the cut and the interleaving, a service selects the  *)
(* workloads that match it and nothing else, and one that selects none is  *)
(* counted (k8s lib.rs:194).                                               *)
(***************************************************************************)
THEOREM SelectsDeclared == Spec => []SelectsAsDeclared
<1>1. Inv => SelectsAsDeclared
  <2> SUFFICES ASSUME Inv, Answered({"k8s"}) PROVE SelectsAsDeclared
    BY DEF SelectsAsDeclared
  <2> DEFINE c == Given
             S(d) == [ns |-> d.ns, key |-> K8s!Key(d), labels |-> d.selector]
             W(d) == [ns |-> d.ns, key |-> K8s!Key(d), labels |-> d.labels]
  <2>1. GivesAll(c, Documents)
    BY AnswerIs
  <2>2. /\ \A e : e \in Edges <=>
              \/ e \in ToSet(c["edges"])
              \/ \E s \in Sel(c), w \in Work(c) : K8s!Selects(s, w) /\ e = Picked(s, w)
        /\ out.unmatched = 0 <=> \A s \in Sel(c) : \E w \in Work(c) : K8s!Selects(s, w)
    BY AnswerHas
  <2>3. /\ \A s : s \in Sel(c) <=> \E d \in Services : s = S(d)
        /\ \A w : w \in Work(c) <=> \E d \in Workloads : w = W(d)
    BY <2>1, ListedAsDeclared
  <2>4. \A e \in ToSet(c["edges"]) : e.type # "SELECTS"
    BY <2>1 DEF GivesAll, Closed, Sound, Lands
  <2>5. \A s \in Services, w \in Workloads :
            (K8s!Selects(S(s), W(w)) <=> Matches(s, w)) /\ Picked(S(s), W(w)) = Selection(s, w)
    BY DEF K8s!Selects, Matches, Picked, Selection
  <2>6. \A s \in Services, w \in Workloads : Selection(s, w).type = "SELECTS"
    BY DEF Selection
  <2> HIDE DEF c, S, W
  <2>7. ASSUME NEW e
        PROVE  (\E s \in Sel(c), w \in Work(c) : K8s!Selects(s, w) /\ e = Picked(s, w))
               <=> \E s \in Services, w \in Workloads : Matches(s, w) /\ e = Selection(s, w)
    <3>1. ASSUME NEW s \in Sel(c), NEW w \in Work(c), K8s!Selects(s, w), e = Picked(s, w)
          PROVE  \E x \in Services, y \in Workloads : Matches(x, y) /\ e = Selection(x, y)
      <4>1. PICK x \in Services : s = S(x)
        BY <2>3
      <4>2. PICK y \in Workloads : w = W(y)
        BY <2>3
      <4> QED BY <2>5, <3>1, <4>1, <4>2
    <3>2. ASSUME NEW x \in Services, NEW y \in Workloads, Matches(x, y), e = Selection(x, y)
          PROVE  \E s \in Sel(c), w \in Work(c) : K8s!Selects(s, w) /\ e = Picked(s, w)
      <4>1. S(x) \in Sel(c) /\ W(y) \in Work(c)
        BY <2>3
      <4> QED BY <2>5, <3>2, <4>1
    <3> QED BY <3>1, <3>2
  <2>8. \A s \in Services, w \in Workloads : Matches(s, w) => Selection(s, w) \in Edges
    BY <2>2, <2>7
  <2>9. \A e \in Edges : e.type = "SELECTS" =>
            \E s \in Services, w \in Workloads : Matches(s, w) /\ e = Selection(s, w)
    <3> SUFFICES ASSUME NEW e \in Edges, e.type = "SELECTS"
                 PROVE  \E s \in Services, w \in Workloads : Matches(s, w) /\ e = Selection(s, w)
      OBVIOUS
    <3>1. e \notin ToSet(c["edges"])
      BY <2>4
    <3>2. \E s \in Sel(c), w \in Work(c) : K8s!Selects(s, w) /\ e = Picked(s, w)
      BY <2>2, <3>1
    <3> QED BY <2>7, <3>2
  <2>10. out.unmatched = 0 <=> \A s \in Services : \E w \in Workloads : Matches(s, w)
    <3>1. (\A s \in Sel(c) : \E w \in Work(c) : K8s!Selects(s, w))
          <=> \A s \in Services : \E w \in Workloads : Matches(s, w)
      BY <2>3, <2>5
    <3> QED BY <2>2, <3>1
  <2> QED BY <2>8, <2>9, <2>10 DEF SelectsAsDeclared
<1> QED BY <1>1, Invariance, PTL

(***************************************************************************)
(* Nor does anything dangle but a mount, or a route, of what no file of    *)
(* the tree declares (k8s lib.rs:476).                                     *)
(***************************************************************************)
THEOREM MountsDangle == Spec => []OnlyMountsDangle
<1>1. Inv => OnlyMountsDangle
  <2> SUFFICES ASSUME Inv, Answered({"k8s"}), NEW e \in Edges
               PROVE  e.src \in NodeKeys /\ (e.dst \in NodeKeys \/ (e.type \in {"MOUNTS", "ROUTES_TO"} /\ ~Mounted(e.dst)))
    BY DEF OnlyMountsDangle
  <2> DEFINE c == Given
  <2>1. GivesAll(c, Documents) /\ NodeKeys = NamesIn(c)
    BY AnswerIs, AnswerHas
  <2>2. CASE e \in ToSet(c["edges"])
    <3>1. Lands(NamesIn(c), e)
      BY <2>1, <2>2 DEF GivesAll, Closed, Sound
    <3> HIDE DEF c
    <3>2. ASSUME Aims(e.dst), Mounted(e.dst) PROVE e.dst \in NamesIn(c)
      BY <2>1, <3>2, DeclaredLands
    <3> QED BY <2>1, <3>1, <3>2 DEF Lands
  <2>3. CASE \E s \in Sel(c), w \in Work(c) : K8s!Selects(s, w) /\ e = Picked(s, w)
    <3>1. PICK s \in Sel(c), w \in Work(c) : e = Picked(s, w)
      BY <2>3
    <3> HIDE DEF c
    <3>2. s.key \in NamesIn(c) /\ w.key \in NamesIn(c)
      BY <2>1, ListedAsDeclared
    <3> QED BY <2>1, <3>1, <3>2 DEF Picked
  <2> QED BY <2>2, <2>3, AnswerHas
<1> QED BY <1>1, Invariance, PTL
----------------------------------------------------------------------------

(* What a partial lists: its nodes, their keys, its edges. *)
NodesIn(c) == ToSet(c["nodes"])
KeysIn(c) == {n.key : n \in NodesIn(c)}
EdgesIn(c) == ToSet(c["edges"])

(***************************************************************************)
(* A partial stands, of what it needs and what it lists, if its edges join *)
(* such keys.  Loose are the edges that may dangle: those of Terraform are *)
(* looked up in the tree before they are answered, and a Compose service   *)
(* may depend on another by a name that nothing has.  What a Terraform     *)
(* chunk declares it lists, and an image is taken apart by its key.        *)
(***************************************************************************)
Loose(p, e) == p = "terraform" \/ (p = "compose" /\ e.type = "DEPENDS_ON")
Joined(p, K, c) == \A e \in EdgesIn(c) : e.src \in K /\ (e.dst \in K \/ Loose(p, e))
Imaged(c) == \A n \in NodesIn(c) : OfImage(n)
Declares(p, c) == p = "terraform" => ToSet(c["declared"]) \subseteq KeysIn(c)
Stands(p, need, c) ==
    /\ Facts!IsPartial(FieldsOf(p), c)
    /\ Imaged(c) /\ Declares(p, c)
    /\ \A K : need \cup KeysIn(c) \subseteq K => Joined(p, K, c)

Simples == {"compose", "deps", "toml", "xml"}
Readers == Simples \cup {"terraform"}
(* The lists of a partial. *)
LEMMA FieldsAre ==
    ASSUME NEW p \in Readers
    PROVE  /\ {"nodes", "edges", "skipped", "notes"} \subseteq FieldsOf(p)
           /\ p \in Simples => FieldsOf(p) = Simple!Fields /\ "prose" \in FieldsOf(p)
           /\ p = "terraform" => FieldsOf(p) = Terraform!Fields /\ {"declared", "roots"} \subseteq FieldsOf(p)
BY DEF Readers, Simples, FieldsOf, Simple!Fields, Terraform!Fields

(* What needs less needs no more. *)
LEMMA StandsOn ==
    ASSUME NEW p, NEW need, NEW c, Stands(p, need, c), NEW more, need \subseteq more \cup KeysIn(c)
    PROVE  Stands(p, more, c)
BY DEF Stands

(* A partial put together of others lists what any of them lists.          *)
IsMerged(p, cs, m) ==
    /\ Facts!IsPartial(FieldsOf(p), m)
    /\ \A f \in FieldsOf(p) \ {"skipped"} : ToSet(m[f]) = UNION {ToSet(x[f]) : x \in cs}
(* It stands if they do, on what all of them list. *)
LEMMA MergedStands ==
    ASSUME NEW p \in Readers, NEW cs, NEW m, IsMerged(p, cs, m)
    PROVE  /\ KeysIn(m) = UNION {KeysIn(x) : x \in cs}
           /\ \A need : (\A x \in cs : Stands(p, need \cup UNION {KeysIn(y) : y \in cs}, x)) => Stands(p, need, m)
<1>1. "nodes" \in FieldsOf(p) \ {"skipped"} /\ "edges" \in FieldsOf(p) \ {"skipped"}
  BY FieldsAre
<1>2. NodesIn(m) = UNION {NodesIn(x) : x \in cs} /\ EdgesIn(m) = UNION {EdgesIn(x) : x \in cs}
  BY <1>1 DEF IsMerged, NodesIn, EdgesIn
<1>3. KeysIn(m) = UNION {KeysIn(x) : x \in cs}
  BY <1>2 DEF KeysIn
<1> SUFFICES ASSUME NEW need, \A x \in cs : Stands(p, need \cup UNION {KeysIn(y) : y \in cs}, x)
             PROVE  Stands(p, need, m)
  BY <1>3
<1>4. Imaged(m)
  BY <1>2 DEF Stands, Imaged
<1>5. Declares(p, m)
  <2> SUFFICES ASSUME p = "terraform" PROVE ToSet(m["declared"]) \subseteq KeysIn(m)
    BY DEF Declares
  <2>1. "declared" \in FieldsOf(p) \ {"skipped"}
    BY FieldsAre
  <2>2. ToSet(m["declared"]) = UNION {ToSet(x["declared"]) : x \in cs}
    BY <2>1 DEF IsMerged
  <2>3. \A x \in cs : ToSet(x["declared"]) \subseteq KeysIn(x)
    BY DEF Stands, Declares
  <2> QED BY <1>3, <2>2, <2>3
<1>6. ASSUME NEW K, need \cup KeysIn(m) \subseteq K PROVE Joined(p, K, m)
  <2>1. \A x \in cs : Joined(p, K, x)
    BY <1>3, <1>6 DEF Stands
  <2> QED BY <1>2, <2>1 DEF Joined
<1> QED BY <1>4, <1>5, <1>6 DEF Stands, IsMerged

(* Partials joined from left to right are put together.                    *)
Joins(Op(_,_)) == \A c, d : Op(c, d) = Facts!JoinPartials(c, d)
(* Whatever the operator that joins them is called. *)
LEMMA FoldIsMerged ==
    ASSUME NEW p \in Readers, NEW Op(_,_), Joins(Op), NEW cs, Facts!IsRow(cs),
           \A x \in ToSet(cs) : Facts!IsPartial(FieldsOf(p), x)
    PROVE  IsMerged(p, ToSet(cs), FoldLeft(Op, Facts!Blank(FieldsOf(p)), cs))
<1> DEFINE Find(x) == x
           F == FieldsOf(p)
           m == FoldLeft(Op, Facts!Blank(F), cs)
<1>0. Len(cs) \in Nat /\ DOMAIN cs = 1..Len(cs) /\ ToSet(cs) = {cs[i] : i \in 1..Len(cs)}
  BY DEF Facts!IsRow, ToSet
<1>1. Finds(F, Find, cs)
  BY <1>0 DEF Finds
<1>2. JoinsWith(Op, Find)
  BY DEF JoinsWith, Joins
<1>4. \A i : Find(cs[i]) = cs[i]
  OBVIOUS
<1> HIDE DEF Find, F
<1>5. Lists(F, Find, cs, Len(cs), m)
  BY <1>0, <1>1, <1>2, JoinedItems
<1> HIDE DEF m
<1>6. ASSUME NEW f \in F \ {"skipped"} PROVE ToSet(m[f]) = UNION {ToSet(x[f]) : x \in ToSet(cs)}
  <2>1. ToSet(m[f]) = UNION {ToSet(cs[i][f]) : i \in 1..Len(cs)}
    BY <1>4, <1>5, <1>6 DEF Lists
  <2> QED BY <1>0, <2>1
<1> QED BY <1>5, <1>6 DEF Lists, IsMerged, F, m
(* Two partials joined are put together of the two. *)
LEMMA JoinIsMerged ==
    ASSUME NEW p \in Readers, NEW c, NEW d, Facts!IsPartial(FieldsOf(p), c), Facts!IsPartial(FieldsOf(p), d)
    PROVE  IsMerged(p, {c, d}, Facts!JoinPartials(c, d))
<1>1. Facts!IsPartial(FieldsOf(p), Facts!JoinPartials(c, d))
  BY JoinIsPartial
<1>2. \A f \in FieldsOf(p) \ {"skipped"} : ToSet(Facts!JoinPartials(c, d)[f]) = ToSet(c[f]) \cup ToSet(d[f])
  BY JoinItems
<1> QED BY <1>1, <1>2 DEF IsMerged

(* A partial with one of its lists filled in. *)
Filled(p, f, v, c) == c = [Facts!Blank(FieldsOf(p)) EXCEPT ![f] = v]
LEMMA OneList ==
    ASSUME NEW p \in Readers, NEW f \in FieldsOf(p) \ {"skipped"}, NEW v, Facts!IsRow(v), NEW c, Filled(p, f, v, c)
    PROVE  /\ Facts!IsPartial(FieldsOf(p), c)
           /\ c[f] = v /\ \A g \in FieldsOf(p) \ {"skipped", f} : c[g] = <<>>
<1> DEFINE F == FieldsOf(p)
           b == Facts!Blank(F)
<1>1. /\ Facts!IsPartial(F, b) /\ b = [g \in F |-> b[g]]
      /\ \A g \in F \ {"skipped"} : b[g] = <<>>
  BY BlankIsPartial DEF Facts!IsPartial, Facts!Blank
<1> HIDE DEF F, b
<1>2. c = [g \in F |-> IF g = f THEN v ELSE b[g]] /\ f \in F /\ f # "skipped"
  BY <1>1 DEF F, b, Filled
<1>3. c = [g \in F |-> c[g]] /\ c[f] = v /\ \A g \in F \ {f} : c[g] = b[g]
  BY <1>2
<1>4. Facts!IsPartial(F, c)
  <2> SUFFICES ASSUME NEW g \in F PROVE IF g = "skipped" THEN c[g] \in Nat ELSE Facts!IsRow(c[g])
    BY <1>3 DEF Facts!IsPartial
  <2>1. CASE g = f
    BY <1>2, <1>3, <2>1
  <2>2. CASE g # f
    BY <1>1, <1>3, <2>2 DEF Facts!IsPartial
  <2> QED BY <2>1, <2>2
<1> QED BY <1>1, <1>3, <1>4 DEF F
(* One that lists no node and no edge stands of itself. *)
LEMMA NoFactStands ==
    ASSUME NEW p \in Readers, NEW c, Facts!IsPartial(FieldsOf(p), c), c["nodes"] = <<>>, c["edges"] = <<>>,
           p = "terraform" => c["declared"] = <<>>
    PROVE  KeysIn(c) = {} /\ Stands(p, {}, c)
<1>1. ToSet(<<>>) = {}
  BY DEF ToSet
<1>2. NodesIn(c) = {} /\ EdgesIn(c) = {} /\ KeysIn(c) = {}
  BY <1>1 DEF NodesIn, EdgesIn, KeysIn
<1> QED BY <1>1, <1>2 DEF Stands, Imaged, Declares, Joined
(* Nor does the empty one, nor one with another list filled in.            *)
LEMMA BlankStands ==
    ASSUME NEW p \in Readers
    PROVE  KeysIn(Facts!Blank(FieldsOf(p))) = {} /\ Stands(p, {}, Facts!Blank(FieldsOf(p)))
<1> DEFINE c == Facts!Blank(FieldsOf(p))
<1>1. Facts!IsPartial(FieldsOf(p), c)
  BY BlankIsPartial
<1>2. c["nodes"] = <<>> /\ c["edges"] = <<>> /\ (p = "terraform" => c["declared"] = <<>>)
  BY FieldsAre DEF Facts!Blank
<1> HIDE DEF c
<1> QED BY <1>1, <1>2, NoFactStands DEF c
(* A remark is no fact.                                                    *)
LEMMA AsideStands ==
    ASSUME NEW p \in Readers, NEW f \in FieldsOf(p) \ {"skipped", "nodes", "edges", "declared"}, NEW v, Facts!IsRow(v),
           NEW c, Filled(p, f, v, c)
    PROVE  KeysIn(c) = {} /\ Stands(p, {}, c)
<1>1. Facts!IsPartial(FieldsOf(p), c) /\ \A g \in FieldsOf(p) \ {"skipped", f} : c[g] = <<>>
  <2>1. f \in FieldsOf(p) \ {"skipped"}
    OBVIOUS
  <2> QED BY <2>1, OneList
<1>2. c["nodes"] = <<>> /\ c["edges"] = <<>> /\ (p = "terraform" => c["declared"] = <<>>)
  BY <1>1, FieldsAre
<1> QED BY <1>1, <1>2, NoFactStands
(* Nor is what is skipped. *)
LEMMA SkipStands ==
    ASSUME NEW p \in Readers, NEW c, c = [Facts!Blank(FieldsOf(p)) EXCEPT !["skipped"] = 1]
    PROVE  KeysIn(c) = {} /\ Stands(p, {}, c)
<1> DEFINE F == FieldsOf(p)
<1>1. c = [g \in F |-> c[g]] /\ c["skipped"] = 1 /\ \A g \in F \ {"skipped"} : c[g] = <<>>
  BY FieldsAre DEF Facts!Blank
<1>2. Facts!IsPartial(F, c)
  BY <1>1, NoneIsRow DEF Facts!IsPartial
<1>3. c["nodes"] = <<>> /\ c["edges"] = <<>> /\ (p = "terraform" => c["declared"] = <<>>)
  BY <1>1, FieldsAre
<1> QED BY <1>2, <1>3, NoFactStands
(* An edge needs its ends, or where it is loose, its source. *)
LEMMA OneEdgeStands ==
    ASSUME NEW p \in Readers, NEW e, NEW c, Filled(p, "edges", <<e>>, c)
    PROVE  KeysIn(c) = {} /\ Stands(p, {e.src, e.dst}, c) /\ (Loose(p, e) => Stands(p, {e.src}, c))
<1>1. "edges" \in FieldsOf(p) \ {"skipped"} /\ "nodes" \in FieldsOf(p) \ {"skipped", "edges"}
      /\ (p = "terraform" => "declared" \in FieldsOf(p) \ {"skipped", "edges"})
  BY FieldsAre
<1>2. Facts!IsRow(<<e>>) /\ ToSet(<<e>>) = {e}
  BY OneRow
<1>3. /\ Facts!IsPartial(FieldsOf(p), c)
      /\ c["edges"] = <<e>> /\ \A g \in FieldsOf(p) \ {"skipped", "edges"} : c[g] = <<>>
  <2> DEFINE v == <<e>>
  <2>1. Filled(p, "edges", v, c) /\ Facts!IsRow(v)
    BY <1>2
  <2> HIDE DEF v
  <2>2. /\ Facts!IsPartial(FieldsOf(p), c)
        /\ c["edges"] = v /\ \A g \in FieldsOf(p) \ {"skipped", "edges"} : c[g] = <<>>
    BY <1>1, <2>1, OneList
  <2> QED BY <2>2 DEF v
<1>4. ToSet(<<>>) = {}
  BY DEF ToSet
<1>5. NodesIn(c) = {} /\ EdgesIn(c) = {e} /\ KeysIn(c) = {} /\ Declares(p, c) /\ Imaged(c)
  BY <1>1, <1>2, <1>3, <1>4 DEF NodesIn, EdgesIn, KeysIn, Declares, Imaged
<1> QED BY <1>3, <1>5 DEF Stands, Joined
----------------------------------------------------------------------------
(***************************************************************************)
(* The output of the SDK's facade.                                         *)
(***************************************************************************)
(* It is a partial that is joined to others.                               *)
LEMMA SimpleIs ==
    ASSUME NEW p \in Simples
    PROVE  p \in Readers /\ Simple!Nothing = Facts!Blank(FieldsOf(p)) /\ Joins(Simple!Merge)
<1>1. FieldsOf(p) = Simple!Fields /\ p \in Readers
  BY FieldsAre DEF Readers
<1>2. Simple!Nothing = Facts!Blank(Simple!Fields)
  BY DEF Simple!Nothing, Simple!Blank, Facts!Blank
<1>3. Joins(Simple!Merge)
  BY DEF Joins, Simple!Merge, Simple!JoinPartials, Facts!JoinPartials
<1> QED BY <1>1, <1>2, <1>3
(* So are many of them. *)
LEMMA SimpleMerged ==
    ASSUME NEW p \in Simples, NEW cs, Facts!IsRow(cs), \A x \in ToSet(cs) : Facts!IsPartial(FieldsOf(p), x)
    PROVE  IsMerged(p, ToSet(cs), Simple!MergeAll(cs))
<1>1. Simple!MergeAll(cs) = Simple!FoldLeft(Simple!Merge, Simple!Nothing, cs)
  BY DEF Simple!MergeAll
<1>2. \A base : Simple!FoldLeft(Simple!Merge, base, cs) = FoldLeft(Simple!Merge, base, cs)
  BY DEF Simple!FoldLeft, FoldLeft, Simple!MapThenFoldSet, MapThenFoldSet, Simple!Max, Max
<1>3. IsMerged(p, ToSet(cs), FoldLeft(Simple!Merge, Facts!Blank(FieldsOf(p)), cs))
  BY SimpleIs, FoldIsMerged
<1> QED BY <1>1, <1>2, <1>3, SimpleIs
(* Merged they stand of what all of them list. *)
LEMMA MergeAllStands ==
    ASSUME NEW p \in Simples, NEW cs, Facts!IsRow(cs), \A x \in ToSet(cs) : \E need : Stands(p, need, x)
    PROVE  /\ KeysIn(Simple!MergeAll(cs)) = UNION {KeysIn(x) : x \in ToSet(cs)}
           /\ \A need : (\A x \in ToSet(cs) : Stands(p, need \cup UNION {KeysIn(y) : y \in ToSet(cs)}, x))
                        => Stands(p, need, Simple!MergeAll(cs))
<1>1. \A x \in ToSet(cs) : Facts!IsPartial(FieldsOf(p), x)
  BY DEF Stands
<1>2. IsMerged(p, ToSet(cs), Simple!MergeAll(cs))
  BY <1>1, SimpleMerged
<1> QED BY <1>2, SimpleIs, MergedStands
(* The same of two. *)
LEMMA MergeStands ==
    ASSUME NEW p \in Simples, NEW c, NEW d, NEW need,
           Stands(p, need \cup KeysIn(c) \cup KeysIn(d), c), Stands(p, need \cup KeysIn(c) \cup KeysIn(d), d)
    PROVE  KeysIn(Simple!Merge(c, d)) = KeysIn(c) \cup KeysIn(d) /\ Stands(p, need, Simple!Merge(c, d))
<1>1. Facts!IsPartial(FieldsOf(p), c) /\ Facts!IsPartial(FieldsOf(p), d)
  BY DEF Stands
<1>2. Simple!Merge(c, d) = Facts!JoinPartials(c, d) /\ p \in Readers
  BY SimpleIs DEF Joins
<1>3. IsMerged(p, {c, d}, Simple!Merge(c, d))
  BY <1>1, <1>2, JoinIsMerged
<1>4. UNION {KeysIn(x) : x \in {c, d}} = KeysIn(c) \cup KeysIn(d)
  OBVIOUS
<1>5. \A x \in {c, d} : Stands(p, need \cup UNION {KeysIn(y) : y \in {c, d}}, x)
  <2>1. need \cup UNION {KeysIn(y) : y \in {c, d}} = need \cup KeysIn(c) \cup KeysIn(d)
    BY <1>4
  <2> QED BY <2>1
<1> DEFINE m == Simple!Merge(c, d)
           cs == {c, d}
<1>6. IsMerged(p, cs, m) /\ \A x \in cs : Stands(p, need \cup UNION {KeysIn(y) : y \in cs}, x)
  BY <1>3, <1>5
<1> HIDE DEF m, cs
<1>7. Stands(p, need, m) /\ KeysIn(m) = UNION {KeysIn(y) : y \in cs}
  BY <1>2, <1>6, MergedStands
<1> QED BY <1>4, <1>7 DEF m, cs
(* What there is only in a case. *)
LEMMA WhenStands ==
    ASSUME NEW p \in Simples, NEW need, NEW test \in BOOLEAN, NEW c, test => Stands(p, need, c)
    PROVE  Stands(p, need, Simple!When(test, c)) /\ KeysIn(Simple!When(test, c)) = IF test THEN KeysIn(c) ELSE {}
<1>1. Stands(p, {}, Simple!Nothing) /\ KeysIn(Simple!Nothing) = {}
  BY SimpleIs, BlankStands
<1> QED BY <1>1, StandsOn DEF Simple!When

(* What it is made of.                                                     *)
LEMMA MintStands ==
    ASSUME NEW p \in Simples, NEW n, OfImage(n)
    PROVE  Stands(p, {}, Simple!Mint(n)) /\ KeysIn(Simple!Mint(n)) = {n.key}
<1> DEFINE c == [Facts!Blank(FieldsOf(p)) EXCEPT !["nodes"] = <<n>>]
<1>0. p \in Readers /\ p # "terraform" /\ Simple!Mint(n) = c
  BY SimpleIs DEF Simple!Mint, Simples
<1>1. "nodes" \in FieldsOf(p) \ {"skipped"} /\ "edges" \in FieldsOf(p) \ {"skipped", "nodes"}
  BY <1>0, FieldsAre
<1>2. Facts!IsRow(<<n>>) /\ ToSet(<<n>>) = {n}
  BY OneRow
<1>3. /\ Facts!IsPartial(FieldsOf(p), c)
      /\ c["nodes"] = <<n>> /\ \A g \in FieldsOf(p) \ {"skipped", "nodes"} : c[g] = <<>>
  <2> DEFINE v == <<n>>
  <2>1. Filled(p, "nodes", v, c) /\ Facts!IsRow(v)
    BY <1>2 DEF Filled
  <2> HIDE DEF v, c
  <2>2. /\ Facts!IsPartial(FieldsOf(p), c)
        /\ c["nodes"] = v /\ \A g \in FieldsOf(p) \ {"skipped", "nodes"} : c[g] = <<>>
    BY <1>0, <1>1, <2>1, OneList
  <2> QED BY <2>2 DEF v
<1> HIDE DEF c
<1>4. ToSet(<<>>) = {}
  BY DEF ToSet
<1>5. NodesIn(c) = {n} /\ EdgesIn(c) = {} /\ KeysIn(c) = {n.key} /\ Declares(p, c) /\ Imaged(c)
  BY <1>0, <1>1, <1>2, <1>3, <1>4 DEF NodesIn, EdgesIn, KeysIn, Declares, Imaged
<1> QED BY <1>0, <1>3, <1>5 DEF Stands, Joined
(* An edge needs its ends. *)
LEMMA LinkStands ==
    ASSUME NEW p \in Simples, NEW e
    PROVE  /\ Stands(p, {e.src, e.dst}, Simple!Link(e)) /\ (Loose(p, e) => Stands(p, {e.src}, Simple!Link(e)))
           /\ KeysIn(Simple!Link(e)) = {}
<1>1. p \in Readers /\ Filled(p, "edges", <<e>>, Simple!Link(e))
  BY SimpleIs DEF Simple!Link, Filled
<1> QED BY <1>1, OneEdgeStands
(* A node and an edge of it need the edge's other end. *)
LEMMA LinkedStands ==
    ASSUME NEW p \in Simples, NEW n, OfImage(n), NEW e
    PROVE  Stands(p, {e.src, e.dst} \ {n.key}, Simple!Linked(n, e)) /\ KeysIn(Simple!Linked(n, e)) = {n.key}
<1> DEFINE need == {e.src, e.dst} \ {n.key}
           c == Simple!Mint(n)
           d == Simple!Link(e)
<1>1. Stands(p, {}, c) /\ KeysIn(c) = {n.key} /\ Stands(p, {e.src, e.dst}, d) /\ KeysIn(d) = {}
  BY MintStands, LinkStands DEF OfImage
<1>2. Simple!Linked(n, e) = Simple!Merge(c, d)
  BY DEF Simple!Linked
<1> HIDE DEF c, d
<1>3. Stands(p, need \cup KeysIn(c) \cup KeysIn(d), c) /\ Stands(p, need \cup KeysIn(c) \cup KeysIn(d), d)
  BY <1>1, StandsOn
<1> HIDE DEF need
<1> QED BY <1>1, <1>2, <1>3, MergeStands DEF need
(* Remarks, prose and a file declined are no facts. *)
LEMMA RemarksStand ==
    ASSUME NEW p \in Simples, NEW path, NEW what, NEW text
    PROVE  /\ Stands(p, {}, Simple!Note(path, what)) /\ KeysIn(Simple!Note(path, what)) = {}
           /\ Stands(p, {}, Simple!Prose(text)) /\ KeysIn(Simple!Prose(text)) = {}
           /\ Stands(p, {}, Simple!Skip) /\ KeysIn(Simple!Skip) = {}
<1> DEFINE v == <<[path |-> path, what |-> what]>>
           w == <<text>>
<1>1. p \in Readers /\ Simple!Nothing = Facts!Blank(FieldsOf(p)) /\ Facts!IsRow(v) /\ Facts!IsRow(w)
  BY SimpleIs, OneRow
<1>2. "notes" \in FieldsOf(p) \ {"skipped", "nodes", "edges", "declared"}
      /\ "prose" \in FieldsOf(p) \ {"skipped", "nodes", "edges", "declared"}
  BY <1>1, FieldsAre
<1>3. /\ Filled(p, "notes", v, Simple!Note(path, what))
      /\ Filled(p, "prose", w, Simple!Prose(text))
      /\ Simple!Skip = [Facts!Blank(FieldsOf(p)) EXCEPT !["skipped"] = 1]
  BY <1>1 DEF Filled, Simple!Note, Simple!Prose, Simple!Skip
<1> HIDE DEF v, w
<1> QED BY <1>1, <1>2, <1>3, AsideStands, SkipStands
(* A file that is declined. *)
LEMMA DeclinedStands ==
    ASSUME NEW p \in Simples, NEW file, NEW why
    PROVE  Stands(p, {}, Simple!Declined(file, why)) /\ KeysIn(Simple!Declined(file, why)) = {}
<1> DEFINE c == Simple!Skip
           d == Simple!Note(file.path, why)
<1>1. Stands(p, {}, c) /\ KeysIn(c) = {} /\ Stands(p, {}, d) /\ KeysIn(d) = {}
  BY RemarksStand
<1>2. Simple!Declined(file, why) = Simple!Merge(c, d)
  BY DEF Simple!Declined
<1> HIDE DEF c, d
<1>3. Stands(p, {} \cup KeysIn(c) \cup KeysIn(d), c) /\ Stands(p, {} \cup KeysIn(c) \cup KeysIn(d), d)
  BY <1>1
<1>4. KeysIn(Simple!Merge(c, d)) = KeysIn(c) \cup KeysIn(d) /\ Stands(p, {}, Simple!Merge(c, d))
  BY <1>3, MergeStands
<1> QED BY <1>1, <1>2, <1>4
(* The Compose plugin writes its output with the facade.                   *)
LEMMA ComposeIsSimple ==
    /\ Compose!Nothing = Simple!Nothing /\ Compose!Skip = Simple!Skip
    /\ \A c, d : Compose!Merge(c, d) = Simple!Merge(c, d)
    /\ \A cs : Compose!MergeAll(cs) = Simple!MergeAll(cs)
    /\ \A n, e : Compose!Mint(n) = Simple!Mint(n) /\ Compose!Link(e) = Simple!Link(e) /\ Compose!Linked(n, e) = Simple!Linked(n, e)
    /\ \A path, what : Compose!Note(path, what) = Simple!Note(path, what)
    /\ \A text : Compose!Prose(text) = Simple!Prose(text)
    /\ \A file, why : Compose!Declined(file, why) = Simple!Declined(file, why)
    /\ \A test, c : Compose!When(test, c) = Simple!When(test, c)
<1>1. Compose!Nothing = Simple!Nothing
  BY DEF Compose!Nothing, Compose!Blank, Compose!Fields, Simple!Nothing, Simple!Blank, Simple!Fields
<1>2. \A c, d : Compose!Merge(c, d) = Simple!Merge(c, d)
  BY DEF Compose!Merge, Compose!JoinPartials, Simple!Merge, Simple!JoinPartials
<1>3. \A cs : Compose!MergeAll(cs) = Simple!MergeAll(cs)
  BY DEF Compose!MergeAll, Compose!FoldLeft, Compose!MapThenFoldSet, Compose!Max, Compose!Merge, Compose!JoinPartials,
         Compose!Nothing, Compose!Blank, Compose!Fields,
         Simple!MergeAll, Simple!FoldLeft, Simple!MapThenFoldSet, Simple!Max, Simple!Merge, Simple!JoinPartials,
         Simple!Nothing, Simple!Blank, Simple!Fields
<1>4. \A n, e : Compose!Mint(n) = Simple!Mint(n) /\ Compose!Link(e) = Simple!Link(e)
  BY <1>1 DEF Compose!Mint, Compose!Link, Simple!Mint, Simple!Link
<1>5. \A n, e : Compose!Linked(n, e) = Simple!Linked(n, e)
  BY <1>2, <1>4 DEF Compose!Linked, Simple!Linked
<1>6. Compose!Skip = Simple!Skip /\ \A path, what : Compose!Note(path, what) = Simple!Note(path, what)
  BY <1>1 DEF Compose!Skip, Compose!Note, Simple!Skip, Simple!Note
<1>7. \A text : Compose!Prose(text) = Simple!Prose(text)
  BY <1>1 DEF Compose!Prose, Simple!Prose
<1>8. \A file, why : Compose!Declined(file, why) = Simple!Declined(file, why)
  BY <1>2, <1>6 DEF Compose!Declined, Simple!Declined
<1>9. \A test, c : Compose!When(test, c) = Simple!When(test, c)
  BY <1>1 DEF Compose!When, Simple!When
<1> QED BY <1>1, <1>2, <1>3, <1>4, <1>5, <1>6, <1>7, <1>8, <1>9
(* One output for each of a list, and many outputs that stand of what all  *)
(* of them list.                                                           *)
Over(seq, g) == g = [i \in DOMAIN seq |-> g[i]]
StandFor(p, need, seq, g) == Over(seq, g) /\ \A i \in DOMAIN seq : Stands(p, need, g[i])
StandIn(p, need, cs) == \A x \in ToSet(cs) : Stands(p, need, x)
KeysFor(seq, g) == UNION {KeysIn(g[i]) : i \in DOMAIN seq}
LEMMA AllStand ==
    ASSUME NEW p \in Simples, NEW need, NEW K, NEW cs, Facts!IsRow(cs), K \subseteq UNION {KeysIn(x) : x \in ToSet(cs)},
           StandIn(p, need \cup K, cs)
    PROVE  /\ KeysIn(Simple!MergeAll(cs)) = UNION {KeysIn(x) : x \in ToSet(cs)}
           /\ Stands(p, need, Simple!MergeAll(cs))
<1> DEFINE L == UNION {KeysIn(x) : x \in ToSet(cs)}
<1>1. ASSUME NEW x \in ToSet(cs) PROVE Stands(p, need \cup L, x)
  <2>1. Stands(p, need \cup K, x) /\ need \cup K \subseteq (need \cup L) \cup KeysIn(x)
    BY DEF StandIn
  <2> HIDE DEF L
  <2> QED BY <2>1, StandsOn
<1> DEFINE m == Simple!MergeAll(cs)
<1>2. \A x \in ToSet(cs) : Facts!IsPartial(FieldsOf(p), x)
  BY <1>1 DEF Stands
<1>3. IsMerged(p, ToSet(cs), m) /\ p \in Readers
  BY <1>2, SimpleMerged, SimpleIs
<1> HIDE DEF m
<1>4. KeysIn(m) = L /\ Stands(p, need, m)
  BY <1>1, <1>3, MergedStands
<1> QED BY <1>4 DEF m
LEMMA EachOf ==
    ASSUME NEW p \in Simples, NEW need, NEW seq, Facts!IsRow(seq), NEW g, StandFor(p, need, seq, g)
    PROVE  Stands(p, need, Simple!MergeAll(g)) /\ KeysIn(Simple!MergeAll(g)) = KeysFor(seq, g)
<1> DEFINE n == Len(seq)
           K == {}
<1>1. n \in Nat /\ DOMAIN seq = 1..n /\ g = [i \in 1..n |-> g[i]] /\ \A i \in 1..n : Stands(p, need, g[i])
  BY DEF Facts!IsRow, StandFor, Over
<1> HIDE DEF n
<1>2. Facts!IsRow(g) /\ ToSet(g) = {g[i] : i \in 1..n}
  BY <1>1, MapRow
<1>3. need \cup K = need /\ K \subseteq UNION {KeysIn(x) : x \in ToSet(g)}
  OBVIOUS
<1>4. StandIn(p, need \cup K, g)
  BY <1>1, <1>2, <1>3 DEF StandIn
<1> HIDE DEF K
<1>5. KeysIn(Simple!MergeAll(g)) = UNION {KeysIn(x) : x \in ToSet(g)} /\ Stands(p, need, Simple!MergeAll(g))
  BY <1>2, <1>3, <1>4, AllStand
<1>6. UNION {KeysIn(x) : x \in ToSet(g)} = KeysFor(seq, g)
  BY <1>1, <1>2 DEF KeysFor
<1> QED BY <1>5, <1>6
(* A tuple of seven is a row of the seven.                                 *)
LEMMA SevenRow ==
    ASSUME NEW a, NEW b, NEW c, NEW d, NEW e, NEW f, NEW g
    PROVE  Facts!IsRow(<<a, b, c, d, e, f, g>>) /\ ToSet(<<a, b, c, d, e, f, g>>) = {a, b, c, d, e, f, g}
<1> DEFINE s == <<a, b, c, d, e, f, g>>
<1>1. s \in Seq({a, b, c, d, e, f, g}) /\ DOMAIN s = {1, 2, 3, 4, 5, 6, 7}
      /\ s[1] = a /\ s[2] = b /\ s[3] = c /\ s[4] = d /\ s[5] = e /\ s[6] = f /\ s[7] = g
  OBVIOUS
<1> HIDE DEF s
<1>2. {s[i] : i \in {1, 2, 3, 4, 5, 6, 7}} = {a, b, c, d, e, f, g}
  BY <1>1
<1>3. Facts!IsRow(s) /\ ToSet(s) = {a, b, c, d, e, f, g}
  BY <1>1, <1>2, SeqIsRow DEF ToSet
<1> QED BY <1>3 DEF s
----------------------------------------------------------------------------
(***************************************************************************)
(* The Compose plugin: what a project declares needs the project's node,   *)
(* and what uses a network or a volume needs what is declared as well.     *)
(***************************************************************************)
LEMMA EntityStands ==
    ASSUME NEW project, NEW kind, NEW label, label # "Image", NEW name
    PROVE  /\ Stands("compose", {<<project>>}, Compose!Entity(project, kind, label, name))
           /\ KeysIn(Compose!Entity(project, kind, label, name)) = {Compose!Under(project, kind, name)}
<1> DEFINE key == Compose!Under(project, kind, name)
           n == Compose!Node(key, label)
           e == Compose!Within(key, project)
           c == Compose!Entity(project, kind, label, name)
<1>1. n.key = key /\ n.label # "Image" /\ e.src = key /\ e.dst = <<project>>
  BY DEF Compose!Node, Compose!Within, Compose!Edge
<1>2. c = Simple!Linked(n, e) /\ "compose" \in Simples
  BY ComposeIsSimple DEF Compose!Entity, Simples
<1> HIDE DEF key, n, e, c
<1>3. Stands("compose", {e.src, e.dst} \ {n.key}, c) /\ KeysIn(c) = {n.key}
  BY <1>1, <1>2, LinkedStands DEF OfImage
<1>4. Stands("compose", {<<project>>}, c)
  <2>1. {e.src, e.dst} \ {n.key} \subseteq {<<project>>} \cup KeysIn(c)
    BY <1>1
  <2> QED BY <1>3, <2>1, StandsOn
<1> QED BY <1>1, <1>3, <1>4 DEF key, c

KeysOf(project, kind, names) == {Compose!Under(project, kind, names[i]) : i \in DOMAIN names}
Entities(project, kind, label, names, g) ==
    g = [i \in DOMAIN names |-> Compose!Entity(project, kind, label, names[i])]
(* One node for each name.                                                 *)
LEMMA EntitiesStand ==
    ASSUME NEW project, NEW kind, NEW label, label # "Image", NEW names, Facts!IsRow(names),
           NEW g, Entities(project, kind, label, names, g)
    PROVE  /\ Stands("compose", {<<project>>}, Simple!MergeAll(g))
           /\ KeysIn(Simple!MergeAll(g)) = KeysOf(project, kind, names)
<1>1. \A i \in DOMAIN names : Stands("compose", {<<project>>}, g[i]) /\ KeysIn(g[i]) = {Compose!Under(project, kind, names[i])}
  BY EntityStands DEF Entities
<1>4. StandFor("compose", {<<project>>}, names, g)
  BY <1>1 DEF StandFor, Entities, Over
<1>2. KeysFor(names, g) = KeysOf(project, kind, names)
  BY <1>1 DEF KeysOf, KeysFor
<1>3. "compose" \in Simples
  BY DEF Simples
<1> QED BY <1>2, <1>3, <1>4, EachOf
(* The networks and volumes that are declared.                             *)
LEMMA DeclaredBlocksStand ==
    ASSUME NEW project, NEW doc, Facts!IsRow(doc.networks), Facts!IsRow(doc.volumes)
    PROVE  /\ Stands("compose", {<<project>>}, Compose!DeclaredBlocks(project, doc))
           /\ KeysIn(Compose!DeclaredBlocks(project, doc)) =
                 KeysOf(project, "network", doc.networks) \cup KeysOf(project, "volume", doc.volumes)
<1> DEFINE g == [i \in DOMAIN doc.networks |-> Compose!Entity(project, "network", "Network", doc.networks[i])]
           h == [i \in DOMAIN doc.volumes |-> Compose!Entity(project, "volume", "Volume", doc.volumes[i])]
           c == Simple!MergeAll(g)
           d == Simple!MergeAll(h)
<1>1. Compose!DeclaredBlocks(project, doc) = Simple!Merge(c, d)
  BY ComposeIsSimple DEF Compose!DeclaredBlocks, Compose!Each
<1>2. /\ Entities(project, "network", "Network", doc.networks, g)
      /\ Entities(project, "volume", "Volume", doc.volumes, h)
  BY DEF Entities
<1> HIDE DEF g, h
<1>3. Stands("compose", {<<project>>}, c) /\ KeysIn(c) = KeysOf(project, "network", doc.networks)
  BY <1>2, EntitiesStand
<1>4. Stands("compose", {<<project>>}, d) /\ KeysIn(d) = KeysOf(project, "volume", doc.volumes)
  BY <1>2, EntitiesStand
<1> HIDE DEF c, d
<1>5. Stands("compose", {<<project>>} \cup KeysIn(c) \cup KeysIn(d), c) /\ Stands("compose", {<<project>>} \cup KeysIn(c) \cup KeysIn(d), d)
  BY <1>3, <1>4, StandsOn
<1>6. "compose" \in Simples
  BY DEF Simples
<1>7. /\ KeysIn(Simple!Merge(c, d)) = KeysIn(c) \cup KeysIn(d)
      /\ Stands("compose", {<<project>>}, Simple!Merge(c, d))
  BY <1>5, <1>6, MergeStands
<1> QED BY <1>1, <1>3, <1>4, <1>7
(* A use of a network or a volume mints it unless it is declared.          *)
LEMMA UsedStands ==
    ASSUME NEW project, NEW kind, NEW label, label # "Image", NEW name, NEW names, Facts!IsRow(names), NEW e,
           e.dst = Compose!Under(project, kind, name), NEW need,
           {e.src, <<project>>} \subseteq need, KeysOf(project, kind, names) \subseteq need
    PROVE  Stands("compose", need,
                  Simple!Merge(Simple!When(~Compose!Contains(names, name), Compose!Entity(project, kind, label, name)),
                               Simple!Link(e)))
<1> DEFINE test == ~Compose!Contains(names, name)
           a == Simple!When(test, Compose!Entity(project, kind, label, name))
           b == Simple!Link(e)
<1>0. "compose" \in Simples
  BY DEF Simples
<1>1. /\ Stands("compose", need, Compose!Entity(project, kind, label, name))
      /\ KeysIn(Compose!Entity(project, kind, label, name)) = {Compose!Under(project, kind, name)}
  <2> DEFINE c == Compose!Entity(project, kind, label, name)
             few == {<<project>>}
  <2>1. Stands("compose", few, c) /\ KeysIn(c) = {Compose!Under(project, kind, name)} /\ few \subseteq need \cup KeysIn(c)
    BY EntityStands
  <2> HIDE DEF c, few
  <2>2. Stands("compose", need, c)
    BY <2>1, StandsOn
  <2> QED BY <2>1, <2>2 DEF c
<1>2. Stands("compose", need, a) /\ KeysIn(a) = IF test THEN {Compose!Under(project, kind, name)} ELSE {}
  BY <1>0, <1>1, WhenStands
<1>3. ~test => Compose!Under(project, kind, name) \in need
  <2>1. ~test => \E i \in DOMAIN names : names[i] = name
    BY DEF Compose!Contains, Facts!IsRow
  <2> QED BY <2>1 DEF KeysOf
<1> HIDE DEF test, a
<1>4. Stands("compose", {e.src, e.dst}, b) /\ {e.src, e.dst} \subseteq need \cup KeysIn(a)
  BY <1>0, <1>2, <1>3, LinkStands
<1> HIDE DEF b
<1>5. Stands("compose", need \cup KeysIn(a) \cup KeysIn(b), a) /\ Stands("compose", need \cup KeysIn(a) \cup KeysIn(b), b)
  BY <1>2, <1>4, StandsOn
<1>6. Stands("compose", need, Simple!Merge(a, b))
  BY <1>0, <1>5, MergeStands
<1> QED BY <1>6 DEF a, b, test
LEMMA VolumeMountStands ==
    ASSUME NEW project, NEW container, NEW mount, NEW doc, Facts!IsRow(doc.volumes), NEW need,
           {container, <<project>>} \subseteq need, KeysOf(project, "volume", doc.volumes) \subseteq need
    PROVE  Stands("compose", need, Compose!VolumeMount(project, container, mount, doc))
<1> DEFINE name == mount.source
           e == Compose!Edge(container, "MOUNTS", Compose!Under(project, "volume", name))
           c == Simple!Merge(Simple!When(~Compose!Contains(doc.volumes, name), Compose!Entity(project, "volume", "Volume", name)),
                             Simple!Link(e))
           test == name # "" /\ mount.named
<1>1. e.src = container /\ e.dst = Compose!Under(project, "volume", name)
  BY DEF Compose!Edge
<1>2. Compose!VolumeMount(project, container, mount, doc) = Simple!When(test, c)
  BY ComposeIsSimple DEF Compose!VolumeMount
<1> HIDE DEF name, e
<1>3. Stands("compose", need, c)
  BY <1>1, UsedStands
<1> HIDE DEF c
<1>4. test \in BOOLEAN /\ "compose" \in Simples
  BY DEF Simples
<1> HIDE DEF test
<1> QED BY <1>2, <1>3, <1>4, WhenStands
LEMMA AttachedStands ==
    ASSUME NEW project, NEW workload, NEW net, NEW doc, Facts!IsRow(doc.networks), NEW need,
           {workload, <<project>>} \subseteq need, KeysOf(project, "network", doc.networks) \subseteq need
    PROVE  Stands("compose", need, Compose!Attached(project, workload, net, doc))
<1> DEFINE e == Compose!Edge(workload, "ATTACHED_TO", Compose!Under(project, "network", net))
<1>1. e.src = workload /\ e.dst = Compose!Under(project, "network", net)
  BY DEF Compose!Edge
<1>2. Compose!Attached(project, workload, net, doc) =
         Simple!Merge(Simple!When(~Compose!Contains(doc.networks, net), Compose!Entity(project, "network", "Network", net)),
                      Simple!Link(e))
  BY ComposeIsSimple DEF Compose!Attached
<1> HIDE DEF e
<1>3. Stands("compose", need,
             Simple!Merge(Simple!When(~Compose!Contains(doc.networks, net), Compose!Entity(project, "network", "Network", net)),
                          Simple!Link(e)))
  BY <1>1, UsedStands
<1> QED BY <1>2, <1>3

(* A node and an edge of it, where the edge's ends are at hand.            *)
LEMMA LinkedOn ==
    ASSUME NEW p \in Simples, NEW n, OfImage(n), NEW e,
           NEW need, {e.src, e.dst} \subseteq need \cup {n.key}
    PROVE  Stands(p, need, Simple!Linked(n, e)) /\ KeysIn(Simple!Linked(n, e)) = {n.key}
<1> DEFINE c == Simple!Linked(n, e)
<1>1. Stands(p, {e.src, e.dst} \ {n.key}, c) /\ KeysIn(c) = {n.key}
  BY LinkedStands DEF OfImage
<1> HIDE DEF c
<1>2. {e.src, e.dst} \ {n.key} \subseteq need \cup KeysIn(c)
  OBVIOUS
<1>3. Stands(p, need, c)
  BY <1>1, <1>2, StandsOn
<1> QED BY <1>1, <1>3 DEF c
(* A service's image is taken apart as any other is.                       *)
LEMMA ComposeParts == \A reference : Compose!ParseImage(reference) = Reference!ParseImage(reference)
<1>1. \A text, c : Compose!FirstAt(text, c) = Reference!FirstAt(text, c)
  BY DEF Compose!FirstAt, Reference!FirstAt, Compose!SelectInSeq, Reference!SelectInSeq, Compose!Min, Reference!Min
<1>2. \A text, c : Compose!LastAt(text, c) = Reference!LastAt(text, c)
  BY DEF Compose!LastAt, Reference!LastAt, Compose!SelectLastInSeq, Reference!SelectLastInSeq, Compose!Max, Reference!Max
<1>3. \A text, c : /\ Compose!SplitFirst(text, c) = Reference!SplitFirst(text, c)
                   /\ Compose!SplitLast(text, c) = Reference!SplitLast(text, c)
  BY <1>1, <1>2 DEF Compose!SplitFirst, Reference!SplitFirst, Compose!SplitLast, Reference!SplitLast,
                    Compose!Before, Reference!Before, Compose!After, Reference!After,
                    Compose!None, Reference!None, Compose!Some, Reference!Some
<1>4. \A s : Compose!HostLike(s) = Reference!HostLike(s)
  BY DEF Compose!HostLike, Reference!HostLike, Compose!ToSet, Reference!ToSet
<1>5. \A s : Compose!FirstSegment(s) = Reference!FirstSegment(s)
  BY <1>3 DEF Compose!FirstSegment, Reference!FirstSegment
<1>6. \A head, registry : Compose!Middle(head, registry) = Reference!Middle(head, registry)
  BY DEF Compose!Middle, Reference!Middle, Compose!After, Reference!After, Compose!None, Reference!None,
         Compose!SelectInSeq, Reference!SelectInSeq, Compose!Min, Reference!Min
<1>7. \A reference, middle : Compose!StartOf(reference, middle) = Reference!StartOf(reference, middle)
  BY DEF Compose!StartOf, Reference!StartOf
<1>8. \A reference, head, registry, name :
          Compose!Repository(reference, head, registry, name) = Reference!Repository(reference, head, registry, name)
  BY <1>6, <1>7 DEF Compose!Repository, Reference!Repository, Compose!None, Reference!None
<1> QED BY <1>3, <1>4, <1>5, <1>8 DEF Compose!ParseImage, Reference!ParseImage, Compose!None, Reference!None,
                                       Compose!Some, Reference!Some
LEMMA ComposeImageStands ==
    ASSUME NEW container, NEW reference, Facts!IsRow(reference)
    PROVE  Stands("compose", {container}, Compose!Image(container, reference))
<1> DEFINE n == [key |-> reference, label |-> "Image", external |-> FALSE, parts |-> Compose!ParseImage(reference)]
           e == Compose!Edge(container, "USES_IMAGE", reference)
<1>1. n.key = reference /\ OfImage(n) /\ e.src = container /\ e.dst = reference
  BY ComposeParts DEF Compose!Edge, OfImage
<1>2. Compose!Image(container, reference) = Simple!Linked(n, e) /\ "compose" \in Simples
  BY ComposeIsSimple DEF Compose!Image, Simples
<1> HIDE DEF n, e
<1> QED BY <1>1, <1>2, LinkedOn DEF OfImage
LEMMA EnvFileStands ==
    ASSUME NEW project, NEW container, NEW file, NEW need, {container, <<project>>} \subseteq need
    PROVE  Stands("compose", need, Compose!EnvFile(project, container, file))
<1> DEFINE key == Compose!Under(project, "configmap", file)
           n == Compose!Node(key, "ConfigMap")
           e == Compose!Edge(container, "MOUNTS", key)
           f == Compose!Within(key, project)
           a == Simple!Mint(n)
           b == Simple!Link(e)
           c == Simple!Link(f)
<1>1. /\ n.key = key /\ n.label # "Image" /\ e.src = container /\ e.dst = key
      /\ f.src = key /\ f.dst = <<project>>
  BY DEF Compose!Node, Compose!Within, Compose!Edge
<1>2. Compose!EnvFile(project, container, file) = Simple!MergeAll(<<a, b, c>>) /\ "compose" \in Simples
  BY ComposeIsSimple DEF Compose!EnvFile, Simples
<1> HIDE DEF key, n, e, f
<1>3. /\ Stands("compose", {}, a) /\ KeysIn(a) = {n.key}
      /\ Stands("compose", {e.src, e.dst}, b) /\ Stands("compose", {f.src, f.dst}, c)
  BY <1>1, <1>2, MintStands, LinkStands DEF OfImage
<1> HIDE DEF a, b, c
<1> DEFINE cs == <<a, b, c>>
           K == {key}
<1>4. Facts!IsRow(cs) /\ ToSet(cs) = {a, b, c}
  BY ThreeRow
<1> HIDE DEF cs
<1>5. Stands("compose", need \cup K, a) /\ Stands("compose", need \cup K, b) /\ Stands("compose", need \cup K, c)
  BY <1>1, <1>3, StandsOn
<1>6. StandIn("compose", need \cup K, cs)
  BY <1>4, <1>5 DEF StandIn
<1>7. K \subseteq UNION {KeysIn(x) : x \in ToSet(cs)}
  BY <1>1, <1>3, <1>4
<1> HIDE DEF K
<1>8. Stands("compose", need, Simple!MergeAll(cs))
  BY <1>2, <1>4, <1>6, <1>7, AllStand
<1> QED BY <1>2, <1>8 DEF cs
(* A service needs its project and what the project declares, and its name *)
(* is one of its keys.                                                     *)
DeclaredKeys(project, doc) == KeysOf(project, "network", doc.networks) \cup KeysOf(project, "volume", doc.volumes)
LEMMA ServiceStands ==
    ASSUME NEW project, NEW s, NEW doc, IsService(s), Facts!IsRow(doc.networks), Facts!IsRow(doc.volumes)
    PROVE  /\ Stands("compose", {<<project>>} \cup DeclaredKeys(project, doc), Compose!Service(project, s, doc))
           /\ Compose!Under(project, "service", s.name) \in KeysIn(Compose!Service(project, s, doc))
<1> DEFINE workload == Compose!Under(project, "service", s.name)
           container == Append(workload, s.name)
           need == {<<project>>} \cup DeclaredKeys(project, doc)
           K == {workload, container}
           everything == need \cup K
           nets == Compose!Attachments(s.networks)
           n1 == Compose!Node(workload, "Workload")
           e1 == Compose!Within(workload, project)
           n3 == Compose!Node(container, "Container")
           e3 == Compose!Edge(workload, "RUNS", container)
           m2 == [i \in DOMAIN s.mounts |-> Compose!VolumeMount(project, container, s.mounts[i], doc)]
           m5 == [i \in DOMAIN s.envFiles |-> Compose!EnvFile(project, container, s.envFiles[i])]
           m6 == [i \in DOMAIN nets |-> Compose!Attached(project, workload, nets[i], doc)]
           m7 == [i \in DOMAIN s.dependsOn |->
                     Simple!Link(Compose!Edge(workload, "DEPENDS_ON", Compose!Under(project, "service", s.dependsOn[i])))]
           c1 == Simple!Linked(n1, e1)
           c2 == Simple!MergeAll(m2)
           c3 == Simple!Linked(n3, e3)
           c4 == IF s.image = None THEN Simple!Nothing ELSE Compose!Image(container, s.image[1])
           c5 == Simple!MergeAll(m5)
           c6 == Simple!MergeAll(m6)
           c7 == Simple!MergeAll(m7)
           cs == <<c1, c2, c3, c4, c5, c6, c7>>
<1>0. "compose" \in Simples
  BY DEF Simples
<1>1. Compose!Service(project, s, doc) = Simple!MergeAll(cs)
  BY ComposeIsSimple DEF Compose!Service, Compose!Each, None, Compose!None
<1>2. Facts!IsRow(cs) /\ ToSet(cs) = {c1, c2, c3, c4, c5, c6, c7}
  BY SevenRow
<1>3. Facts!IsRow(nets)
  <2>1. Facts!IsRow(s.networks.names)
    BY DEF IsService
  <2>2. Facts!IsRow(s.networks.names \o s.networks.names)
    BY <2>1, ConcatRow
  <2> QED BY <2>1, <2>2 DEF Compose!Attachments
<1>4. /\ n1.key = workload /\ n1.label # "Image" /\ n3.key = container /\ n3.label # "Image"
      /\ e1.src = workload /\ e1.dst = <<project>> /\ e3.src = workload /\ e3.dst = container
  BY DEF Compose!Node, Compose!Within, Compose!Edge
<1>5. /\ {container, <<project>>} \subseteq everything /\ {workload, <<project>>} \subseteq everything
      /\ KeysOf(project, "volume", doc.volumes) \subseteq everything /\ KeysOf(project, "network", doc.networks) \subseteq everything
  BY DEF DeclaredKeys
<1> HIDE DEF workload, container, everything, nets, n1, e1, n3, e3, cs
<1>6. Stands("compose", everything, c1) /\ KeysIn(c1) = {workload}
  <2>1. {e1.src, e1.dst} \subseteq everything \cup {n1.key}
    BY <1>4, <1>5
  <2> QED BY <1>0, <1>4, <2>1, LinkedOn DEF OfImage
<1>7. Stands("compose", everything, c2)
  <2>1. StandFor("compose", everything, s.mounts, m2)
    BY <1>5, VolumeMountStands DEF StandFor, Over
  <2>2. Facts!IsRow(s.mounts)
    BY DEF IsService
  <2> HIDE DEF m2
  <2> QED BY <1>0, <2>1, <2>2, EachOf
<1>8. Stands("compose", everything, c3) /\ KeysIn(c3) = {container}
  <2>1. {e3.src, e3.dst} \subseteq everything \cup {n3.key}
    BY <1>4, <1>5
  <2> QED BY <1>0, <1>4, <2>1, LinkedOn DEF OfImage
<1>9. Stands("compose", everything, c4)
  <2>1. CASE s.image = None
    <3>1. Stands("compose", {}, Simple!Nothing)
      BY <1>0, SimpleIs, BlankStands
    <3> QED BY <2>1, <3>1, StandsOn
  <2>2. CASE s.image # None
    <3> DEFINE d == Compose!Image(container, s.image[1])
               few == {container}
    <3>1. Stands("compose", few, d) /\ few \subseteq everything \cup KeysIn(d) /\ c4 = d
      BY <1>5, <2>2, ComposeImageStands DEF IsService
    <3> HIDE DEF d, few, c4
    <3> QED BY <3>1, StandsOn
  <2> QED BY <2>1, <2>2
<1>10. Stands("compose", everything, c5)
  <2>1. StandFor("compose", everything, s.envFiles, m5)
    BY <1>5, EnvFileStands DEF StandFor, Over
  <2>2. Facts!IsRow(s.envFiles)
    BY DEF IsService
  <2> HIDE DEF m5
  <2> QED BY <1>0, <2>1, <2>2, EachOf
<1>11. Stands("compose", everything, c6)
  <2>1. StandFor("compose", everything, nets, m6)
    BY <1>5, AttachedStands DEF StandFor, Over
  <2> HIDE DEF m6
  <2> QED BY <1>0, <1>3, <2>1, EachOf
<1>12. Stands("compose", everything, c7)
  <2>1. ASSUME NEW i \in DOMAIN s.dependsOn PROVE Stands("compose", everything, m7[i])
    <3> DEFINE e == Compose!Edge(workload, "DEPENDS_ON", Compose!Under(project, "service", s.dependsOn[i]))
               d == Simple!Link(e)
               few == {e.src}
    <3>1. Loose("compose", e) /\ e.src = workload /\ m7[i] = d
      BY DEF Compose!Edge, Loose
    <3> HIDE DEF e, m7
    <3>2. Stands("compose", few, d) /\ few \subseteq everything \cup KeysIn(d)
      BY <1>0, <1>5, <3>1, LinkStands
    <3> HIDE DEF d, few
    <3> QED BY <3>1, <3>2, StandsOn
  <2>2. StandFor("compose", everything, s.dependsOn, m7)
    BY <2>1 DEF StandFor, Over
  <2>3. Facts!IsRow(s.dependsOn)
    BY DEF IsService
  <2> HIDE DEF m7
  <2> QED BY <1>0, <2>2, <2>3, EachOf
<1> HIDE DEF c1, c2, c3, c4, c5, c6, c7
<1>13. StandIn("compose", need \cup K, cs)
  BY <1>2, <1>6, <1>7, <1>8, <1>9, <1>10, <1>11, <1>12 DEF StandIn, everything
<1>14. K \subseteq UNION {KeysIn(x) : x \in ToSet(cs)}
  BY <1>2, <1>6, <1>8
<1> HIDE DEF need, K
<1>15. /\ Stands("compose", need, Simple!MergeAll(cs))
       /\ KeysIn(Simple!MergeAll(cs)) = UNION {KeysIn(x) : x \in ToSet(cs)}
  BY <1>0, <1>2, <1>13, <1>14, AllStand
<1>16. workload \in K
  BY DEF K
<1> QED BY <1>1, <1>14, <1>15, <1>16 DEF need, workload
(* The services of a file.                                                 *)
LEMMA ServicesStand ==
    ASSUME NEW project, NEW doc, Facts!IsRow(doc.networks), Facts!IsRow(doc.volumes), NEW services, Facts!IsRow(services),
           \A s \in ToSet(services) : IsService(s), NEW g,
           g = [i \in DOMAIN services |-> Simple!When(services[i].name # "", Compose!Service(project, services[i], doc))]
    PROVE  /\ Stands("compose", {<<project>>} \cup DeclaredKeys(project, doc), Simple!MergeAll(g))
           /\ \A s \in ToSet(services) : s.name # "" => Compose!Under(project, "service", s.name) \in KeysIn(Simple!MergeAll(g))
<1> DEFINE need == {<<project>>} \cup DeclaredKeys(project, doc)
<1>0. "compose" \in Simples
  BY DEF Simples
<1>1. ASSUME NEW i \in DOMAIN services
      PROVE  /\ Stands("compose", need, g[i])
             /\ services[i].name # "" => Compose!Under(project, "service", services[i].name) \in KeysIn(g[i])
  <2> DEFINE s == services[i]
             c == Compose!Service(project, s, doc)
             test == s.name # ""
  <2>1. IsService(s)
    BY DEF ToSet
  <2>2. g[i] = Simple!When(test, c) /\ test \in BOOLEAN
    OBVIOUS
  <2> HIDE DEF s
  <2>3. Stands("compose", need, c) /\ Compose!Under(project, "service", s.name) \in KeysIn(c)
    BY <2>1, ServiceStands
  <2> HIDE DEF need, c, test
  <2>4. /\ Stands("compose", need, Simple!When(test, c))
        /\ KeysIn(Simple!When(test, c)) = IF test THEN KeysIn(c) ELSE {}
    BY <1>0, <2>2, <2>3, WhenStands
  <2> QED BY <2>2, <2>3, <2>4 DEF s, test
<1> HIDE DEF need
<1>2. StandFor("compose", need, services, g)
  BY <1>1 DEF StandFor, Over
<1>3. Stands("compose", need, Simple!MergeAll(g)) /\ KeysIn(Simple!MergeAll(g)) = KeysFor(services, g)
  BY <1>0, <1>2, EachOf
<1>4. \A s \in ToSet(services) : s.name # "" => Compose!Under(project, "service", s.name) \in KeysFor(services, g)
  BY <1>1 DEF KeysFor, ToSet
<1> QED BY <1>3, <1>4 DEF need

(* What a file of Compose answers stands of itself, with a node for each   *)
(* service.                                                                *)
ServicesIn(f) ==
    IF f.state = "read" /\ f.doc.services # None
    THEN {Compose!Under(Compose!ProjectOf(f.path, f.doc), "service", s.name) :
             s \in {s \in ToSet(f.doc.services[1]) : s.name # ""}}
    ELSE {}
LEMMA ReadProjectStands ==
    ASSUME NEW f, IsProject(f), f.state = "read"
    PROVE  Stands("compose", {}, Compose!Process(f)) /\ ServicesIn(f) \subseteq KeysIn(Compose!Process(f))
<1> DEFINE doc == f.doc
           project == Compose!ProjectOf(f.path, doc)
           n == Compose!Node(<<project>>, "Namespace")
           services == doc.services[1]
           g == [i \in DOMAIN services |-> Simple!When(services[i].name # "", Compose!Service(project, services[i], doc))]
           c1 == Simple!Mint(n)
           c2 == Compose!DeclaredBlocks(project, doc)
           c3 == IF doc.services = None THEN Simple!Note(f.path, "services is not a mapping") ELSE Simple!MergeAll(g)
           cs == <<c1, c2, c3>>
           K == {<<project>>} \cup DeclaredKeys(project, doc)
           none == {}
<1>0. "compose" \in Simples
  BY DEF Simples
<1>1. Compose!Process(f) = Simple!MergeAll(cs)
  BY ComposeIsSimple DEF Compose!Process, Compose!Extract, Compose!Each, None, Compose!None
<1>2. Facts!IsRow(doc.networks) /\ Facts!IsRow(doc.volumes)
      /\ (doc.services # None => Facts!IsRow(services) /\ \A s \in ToSet(services) : IsService(s))
  BY DEF IsProject
<1>3. Facts!IsRow(cs) /\ ToSet(cs) = {c1, c2, c3}
  BY ThreeRow
<1>4. n.key = <<project>> /\ n.label # "Image"
  BY DEF Compose!Node
<1>5. ServicesIn(f) = IF doc.services # None
                      THEN {Compose!Under(project, "service", s.name) : s \in {s \in ToSet(services) : s.name # ""}} ELSE {}
  BY DEF ServicesIn
<1>6. doc.services # None =>
         /\ Stands("compose", K, Simple!MergeAll(g))
         /\ \A s \in ToSet(services) : s.name # "" => Compose!Under(project, "service", s.name) \in KeysIn(Simple!MergeAll(g))
  <2> DEFINE h == g
  <2>1. h = [i \in DOMAIN services |-> Simple!When(services[i].name # "", Compose!Service(project, services[i], doc))]
    OBVIOUS
  <2> HIDE DEF h, services, project, doc
  <2> QED BY <1>2, <2>1, ServicesStand DEF h
<1> HIDE DEF cs, n, g, project, doc, services
<1>7. Stands("compose", none, c1) /\ KeysIn(c1) = {<<project>>}
  BY <1>0, <1>4, MintStands DEF OfImage
<1>8. Stands("compose", {<<project>>}, c2) /\ KeysIn(c2) = DeclaredKeys(project, doc)
  BY <1>2, DeclaredBlocksStand DEF DeclaredKeys
<1>9. Stands("compose", K, c3) /\ ServicesIn(f) \subseteq KeysIn(c3)
  <2>1. CASE doc.services = None
    <3> DEFINE d == Simple!Note(f.path, "services is not a mapping")
    <3>1. Stands("compose", {}, d) /\ c3 = d
      BY <1>0, <2>1, RemarksStand
    <3> HIDE DEF d, c3
    <3> QED BY <1>5, <2>1, <3>1, StandsOn
  <2>2. CASE doc.services # None
    <3>1. c3 = Simple!MergeAll(g)
      BY <2>2
    <3> HIDE DEF c3
    <3> QED BY <1>5, <1>6, <2>2, <3>1
  <2> QED BY <2>1, <2>2
<1> HIDE DEF c1, c2, c3
<1>10. K \subseteq UNION {KeysIn(x) : x \in ToSet(cs)}
  BY <1>3, <1>7, <1>8
<1>11. Stands("compose", none \cup K, c1) /\ Stands("compose", none \cup K, c2) /\ Stands("compose", none \cup K, c3)
  BY <1>7, <1>8, <1>9, StandsOn
<1>12. StandIn("compose", none \cup K, cs)
  BY <1>3, <1>11 DEF StandIn
<1> HIDE DEF K, none
<1>13. /\ Stands("compose", none, Simple!MergeAll(cs))
       /\ KeysIn(Simple!MergeAll(cs)) = UNION {KeysIn(x) : x \in ToSet(cs)}
  BY <1>0, <1>3, <1>10, <1>12, AllStand
<1>14. ServicesIn(f) \subseteq KeysIn(Simple!MergeAll(cs))
  BY <1>3, <1>9, <1>13
<1> QED BY <1>1, <1>13, <1>14 DEF none
LEMMA ProjectStands ==
    ASSUME NEW f, IsProject(f)
    PROVE  Stands("compose", {}, Compose!Process(f)) /\ ServicesIn(f) \subseteq KeysIn(Compose!Process(f))
<1>0. "compose" \in Simples
  BY DEF Simples
<1>1. CASE f.state = "read"
  BY <1>1, ReadProjectStands
<1>2. CASE f.state # "read"
  <2>1. ServicesIn(f) = {}
    BY <1>2 DEF ServicesIn
  <2>2. CASE f.state = "unreadable"
    <3>1. Compose!Process(f) = Simple!Declined(f, "unreadable")
      BY <2>2, ComposeIsSimple DEF Compose!Process
    <3> QED BY <1>0, <2>1, <3>1, DeclinedStands
  <2>3. CASE f.state = "invalid"
    <3>1. Compose!Process(f) = Simple!Declined(f, "not valid YAML")
      BY <2>3, ComposeIsSimple DEF Compose!Process, Compose!Extract
    <3> QED BY <1>0, <2>1, <3>1, DeclinedStands
  <2>4. CASE f.state = "empty"
    <3>1. Compose!Process(f) = Simple!Note(f.path, "empty")
      BY <2>4, ComposeIsSimple DEF Compose!Process, Compose!Extract
    <3> QED BY <1>0, <2>1, <3>1, RemarksStand
  <2>5. CASE f.state = "other"
    <3>1. Compose!Process(f) = Simple!Declined(f, "not a Compose file")
      BY <2>5, ComposeIsSimple DEF Compose!Process, Compose!Extract
    <3> QED BY <1>0, <2>1, <3>1, DeclinedStands
  <2> QED BY <1>2, <2>2, <2>3, <2>4, <2>5 DEF IsProject
<1> QED BY <1>1, <1>2
----------------------------------------------------------------------------
(***************************************************************************)
(* Lists, however they are put together, are lists.                        *)
(***************************************************************************)
LEMMA FlattenRow ==
    ASSUME NEW ss, Facts!IsRow(ss), \A i \in DOMAIN ss : Facts!IsRow(ss[i])
    PROVE  Facts!IsRow(FlattenSeq(ss)) /\ ToSet(FlattenSeq(ss)) = UNION {ToSet(ss[i]) : i \in DOMAIN ss}
<1> DEFINE S == UNION {ToSet(ss[i]) : i \in DOMAIN ss}
<1>1. \A i \in DOMAIN ss : ss[i] \in Seq(S)
  <2> SUFFICES ASSUME NEW i \in DOMAIN ss PROVE ss[i] \in Seq(S)
    OBVIOUS
  <2> DEFINE s == ss[i]
  <2>1. Facts!IsRow(s) /\ ToSet(s) \subseteq S
    OBVIOUS
  <2> HIDE DEF s, S
  <2>2. Len(s) \in Nat /\ s \in [1..Len(s) -> S]
    BY <2>1 DEF Facts!IsRow, ToSet
  <2>3. s \in Seq(S)
    BY <2>2, FunctionIsSeq
  <2> QED BY <2>3 DEF s
<1> HIDE DEF S
<1>2. Len(ss) \in Nat /\ ss \in [1..Len(ss) -> Seq(S)]
  BY <1>1 DEF Facts!IsRow
<1>3. ss \in Seq(Seq(S))
  BY <1>2, FunctionIsSeq
<1>4. FlattenSeq(ss) \in Seq(S) /\ Range(FlattenSeq(ss)) = UNION {Range(ss[m]) : m \in DOMAIN ss}
  BY <1>3, FlattenElements
<1> QED BY <1>4, SeqIsRow DEF Range, ToSet
(* What passes of a list.                                                  *)
Passes(seq, g) == Over(seq, g) /\ \A i \in DOMAIN seq : g[i] = <<seq[i]>> \/ g[i] = <<>>
LEMMA FilterRow ==
    ASSUME NEW seq, Facts!IsRow(seq), NEW g, Passes(seq, g)
    PROVE  Facts!IsRow(FlattenSeq(g)) /\ ToSet(FlattenSeq(g)) \subseteq ToSet(seq)
<1> DEFINE n == Len(seq)
<1>1. n \in Nat /\ DOMAIN seq = 1..n /\ DOMAIN g = 1..n /\ g = [i \in 1..n |-> g[i]]
  BY DEF Facts!IsRow, Passes, Over
<1> HIDE DEF n
<1>2. Facts!IsRow(g)
  BY <1>1, MapRow
<1>3. ToSet(<<>>) = {}
  BY DEF ToSet
<1>4. \A i \in DOMAIN g : Facts!IsRow(g[i]) /\ ToSet(g[i]) \subseteq ToSet(seq)
  <2> SUFFICES ASSUME NEW i \in DOMAIN g PROVE Facts!IsRow(g[i]) /\ ToSet(g[i]) \subseteq ToSet(seq)
    OBVIOUS
  <2>1. seq[i] \in ToSet(seq)
    BY <1>1 DEF ToSet
  <2>2. CASE g[i] = <<seq[i]>>
    BY <2>1, <2>2, OneRow
  <2>3. CASE g[i] = <<>>
    BY <1>3, <2>3, NoneIsRow
  <2> QED BY <1>1, <2>2, <2>3 DEF Passes
<1> QED BY <1>2, <1>4, FlattenRow
(* One more at the end. *)
LEMMA AppendRow ==
    ASSUME NEW s, Facts!IsRow(s), NEW x
    PROVE  Facts!IsRow(Append(s, x)) /\ ToSet(Append(s, x)) = ToSet(s) \cup {x}
<1> DEFINE t == <<x>>
<1>1. Facts!IsRow(t) /\ ToSet(t) = {x}
  BY OneRow
<1>2. PICK S : s \in Seq(S) /\ t \in Seq(S)
  BY <1>1, RowsAreSeqs
<1> HIDE DEF t
<1>3. Facts!IsRow(s \o t) /\ ToSet(s \o t) = ToSet(s) \cup {x}
  BY <1>1, ConcatRow
<1>4. Append(s, x) = s \o t
  <2>1. s \in Seq(S \cup {x})
    BY <1>2
  <2> QED BY <2>1 DEF t
<1> QED BY <1>3, <1>4
(* A finite set listed is a list of it. *)
LEMMA SetIsListed ==
    ASSUME NEW S, IsFiniteSet(S)
    PROVE  Cardinality(S) \in Nat /\ \E f \in [1..Cardinality(S) -> S] : IsInjective(f)
<1> DEFINE n == Cardinality(S)
<1>1. n \in Nat /\ ExistsBijection(1..n, S)
  BY FS_CardinalityType
<1>2. \E f \in [1..n -> S] : IsInjective(f)
  <2>1. PICK f \in Bijection(1..n, S) : TRUE
    BY <1>1 DEF ExistsBijection
  <2>2. f \in [1..n -> S] /\ \A x, y \in 1..n : f[x] = f[y] => x = y
    BY <2>1 DEF Bijection, Injection, IsInjective
  <2> QED BY <2>2 DEF IsInjective
<1> QED BY <1>1, <1>2
LEMMA ListOfSet ==
    ASSUME NEW S, NEW n \in Nat, NEW s \in [1..n -> S]
    PROVE  Facts!IsRow(s) /\ ToSet(s) \subseteq S
<1>1. s \in Seq(S) /\ DOMAIN s = 1..n /\ \A i \in 1..n : s[i] \in S
  BY FunctionIsSeq
<1> QED BY <1>1, SeqIsRow DEF ToSet
(* The elements of a list are finitely many. *)
LEMMA RowIsFinite ==
    ASSUME NEW s, Facts!IsRow(s)
    PROVE  IsFiniteSet(DOMAIN s) /\ IsFiniteSet(ToSet(s))
<1>1. PICK S : s \in Seq(S)
  <2>1. Len(s) \in Nat /\ s \in [1..Len(s) -> ToSet(s)]
    BY DEF Facts!IsRow, ToSet
  <2> QED BY <2>1, FunctionIsSeq
<1> QED BY <1>1, FiniteElements
(* A tuple of four is a row of the four. *)
LEMMA FourRow ==
    ASSUME NEW a, NEW b, NEW c, NEW d
    PROVE  Facts!IsRow(<<a, b, c, d>>) /\ ToSet(<<a, b, c, d>>) = {a, b, c, d}
<1> DEFINE s == <<a, b, c, d>>
<1>1. s \in Seq({a, b, c, d}) /\ DOMAIN s = {1, 2, 3, 4} /\ s[1] = a /\ s[2] = b /\ s[3] = c /\ s[4] = d
  OBVIOUS
<1> HIDE DEF s
<1>2. {s[i] : i \in {1, 2, 3, 4}} = {a, b, c, d}
  BY <1>1
<1>3. Facts!IsRow(s) /\ ToSet(s) = {a, b, c, d}
  BY <1>1, <1>2, SeqIsRow DEF ToSet
<1> QED BY <1>3 DEF s
----------------------------------------------------------------------------
(***************************************************************************)
(* The Terraform plugin: its partials are put together as the others are,  *)
(* and an edge of one is loose.                                            *)
(***************************************************************************)
LEMMA TerraformIs ==
    /\ Terraform!Nothing = Facts!Blank(FieldsOf("terraform")) /\ "terraform" \in Readers
    /\ Joins(Terraform!Merge)
    /\ \A cs : Terraform!MergeAll(cs) = FoldLeft(Terraform!Merge, Facts!Blank(FieldsOf("terraform")), cs)
<1>1. Terraform!Nothing = Facts!Blank(FieldsOf("terraform")) /\ "terraform" \in Readers
  BY DEF FieldsOf, Readers, Terraform!Nothing, Terraform!Blank, Facts!Blank
<1>2. Joins(Terraform!Merge)
  BY DEF Joins, Terraform!Merge, Terraform!JoinPartials, Facts!JoinPartials
<1>3. \A base, cs : Terraform!FoldLeft(Terraform!Merge, base, cs) = FoldLeft(Terraform!Merge, base, cs)
  BY DEF Terraform!FoldLeft, FoldLeft, Terraform!MapThenFoldSet, MapThenFoldSet, Terraform!Max, Max
<1>4. \A cs : Terraform!MergeAll(cs) = Terraform!FoldLeft(Terraform!Merge, Terraform!Nothing, cs)
  BY DEF Terraform!MergeAll
<1> QED BY <1>1, <1>2, <1>3, <1>4
(* Many that stand of what all of them list stand together. *)
LEMMA TerraformAllStand ==
    ASSUME NEW need, NEW K, NEW cs, Facts!IsRow(cs), K \subseteq UNION {KeysIn(x) : x \in ToSet(cs)},
           StandIn("terraform", need \cup K, cs)
    PROVE  /\ Stands("terraform", need, Terraform!MergeAll(cs))
           /\ KeysIn(Terraform!MergeAll(cs)) = UNION {KeysIn(x) : x \in ToSet(cs)}
           /\ \A f \in FieldsOf("terraform") \ {"skipped"} :
                 ToSet(Terraform!MergeAll(cs)[f]) = UNION {ToSet(x[f]) : x \in ToSet(cs)}
<1> DEFINE L == UNION {KeysIn(x) : x \in ToSet(cs)}
           m == Terraform!MergeAll(cs)
<1>1. ASSUME NEW x \in ToSet(cs) PROVE Stands("terraform", need \cup L, x)
  <2>1. Stands("terraform", need \cup K, x) /\ need \cup K \subseteq (need \cup L) \cup KeysIn(x)
    BY DEF StandIn
  <2> HIDE DEF L
  <2> QED BY <2>1, StandsOn
<1>2. \A x \in ToSet(cs) : Facts!IsPartial(FieldsOf("terraform"), x)
  BY <1>1 DEF Stands
<1>3. IsMerged("terraform", ToSet(cs), m)
  BY <1>2, TerraformIs, FoldIsMerged
<1> HIDE DEF m
<1>4. KeysIn(m) = L /\ Stands("terraform", need, m)
  BY <1>1, <1>3, TerraformIs, MergedStands
<1> QED BY <1>3, <1>4 DEF m, IsMerged
LEMMA TerraformEach ==
    ASSUME NEW need, NEW seq, Facts!IsRow(seq), NEW g, StandFor("terraform", need, seq, g)
    PROVE  Stands("terraform", need, Terraform!MergeAll(g))
<1> DEFINE n == Len(seq)
           K == {}
<1>1. n \in Nat /\ DOMAIN seq = 1..n /\ g = [i \in 1..n |-> g[i]] /\ \A i \in 1..n : Stands("terraform", need, g[i])
  BY DEF Facts!IsRow, StandFor, Over
<1> HIDE DEF n
<1>2. Facts!IsRow(g) /\ ToSet(g) = {g[i] : i \in 1..n}
  BY <1>1, MapRow
<1>3. need \cup K = need /\ K \subseteq UNION {KeysIn(x) : x \in ToSet(g)}
  OBVIOUS
<1>4. StandIn("terraform", need \cup K, g)
  BY <1>1, <1>2, <1>3 DEF StandIn
<1> HIDE DEF K
<1> QED BY <1>2, <1>3, <1>4, TerraformAllStand
LEMMA TerraformMergeStands ==
    ASSUME NEW c, NEW d, NEW need,
           Stands("terraform", need \cup KeysIn(c) \cup KeysIn(d), c), Stands("terraform", need \cup KeysIn(c) \cup KeysIn(d), d)
    PROVE  /\ Stands("terraform", need, Terraform!Merge(c, d))
           /\ KeysIn(Terraform!Merge(c, d)) = KeysIn(c) \cup KeysIn(d)
<1> DEFINE m == Terraform!Merge(c, d)
           cs == {c, d}
<1>1. Facts!IsPartial(FieldsOf("terraform"), c) /\ Facts!IsPartial(FieldsOf("terraform"), d)
  BY DEF Stands
<1>2. m = Facts!JoinPartials(c, d) /\ "terraform" \in Readers
  BY TerraformIs DEF Joins
<1> HIDE DEF m
<1>3. IsMerged("terraform", cs, m)
  BY <1>1, <1>2, JoinIsMerged
<1>4. UNION {KeysIn(x) : x \in cs} = KeysIn(c) \cup KeysIn(d)
  OBVIOUS
<1>5. need \cup UNION {KeysIn(x) : x \in cs} = need \cup KeysIn(c) \cup KeysIn(d)
  BY <1>4
<1>6. \A x \in cs : Stands("terraform", need \cup UNION {KeysIn(y) : y \in cs}, x)
  BY <1>5
<1> HIDE DEF cs
<1>7. Stands("terraform", need, m) /\ KeysIn(m) = UNION {KeysIn(y) : y \in cs}
  BY <1>2, <1>3, <1>6, MergedStands
<1> QED BY <1>4, <1>7 DEF m
(* A node is listed with what it declares; an edge needs its source. *)
LEMMA PushStands ==
    ASSUME NEW n, OfImage(n), NEW e
    PROVE  /\ Stands("terraform", {}, Terraform!PushNode(n)) /\ KeysIn(Terraform!PushNode(n)) = {n.key}
           /\ Stands("terraform", {e.src}, Terraform!PushEdge(e)) /\ KeysIn(Terraform!PushEdge(e)) = {}
<1> DEFINE F == FieldsOf("terraform")
           b == Facts!Blank(F)
           v == <<n>>
           w == <<n.key>>
           c == Terraform!PushNode(n)
           d == Terraform!PushEdge(e)
<1>1. Terraform!Nothing = b /\ "terraform" \in Readers
  BY TerraformIs
<1>2. Facts!IsRow(v) /\ Facts!IsRow(w) /\ ToSet(v) = {n} /\ ToSet(w) = {n.key} /\ ToSet(<<>>) = {}
  BY OneRow DEF ToSet
<1>3. /\ Facts!IsPartial(F, b) /\ DOMAIN b = F
      /\ \A g \in F \ {"skipped"} : b[g] = <<>>
  BY BlankIsPartial DEF Facts!Blank
<1>4. {"nodes", "edges", "skipped", "declared"} \subseteq F
  BY <1>1, FieldsAre
<1>5. c = [b EXCEPT !["nodes"] = v, !["declared"] = w]
  BY <1>1 DEF Terraform!PushNode
<1>6. Filled("terraform", "edges", <<e>>, d)
  BY <1>1 DEF Terraform!PushEdge, Filled
<1>7. Stands("terraform", {e.src}, d) /\ KeysIn(d) = {}
  <2>1. Loose("terraform", e)
    BY DEF Loose
  <2> HIDE DEF d
  <2> QED BY <1>1, <1>6, <2>1, OneEdgeStands
<1> HIDE DEF b, v, w, c, d, F
<1>8. c = [g \in F |-> IF g = "declared" THEN w ELSE IF g = "nodes" THEN v ELSE b[g]]
  BY <1>3, <1>4, <1>5 DEF Facts!IsPartial
<1>9. c = [g \in F |-> c[g]] /\ c["nodes"] = v /\ c["declared"] = w /\ c["edges"] = <<>>
      /\ \A g \in F \ {"nodes", "declared"} : c[g] = b[g]
  BY <1>3, <1>4, <1>8
<1>10. Facts!IsPartial(F, c)
  <2> SUFFICES ASSUME NEW g \in F PROVE IF g = "skipped" THEN c[g] \in Nat ELSE Facts!IsRow(c[g])
    BY <1>9 DEF Facts!IsPartial
  <2>1. CASE g \in {"nodes", "declared"}
    BY <1>2, <1>9, <2>1
  <2>2. CASE g \notin {"nodes", "declared"}
    BY <1>3, <1>9, <2>2 DEF Facts!IsPartial
  <2> QED BY <2>1, <2>2
<1>11. NodesIn(c) = {n} /\ EdgesIn(c) = {} /\ KeysIn(c) = {n.key}
  BY <1>2, <1>9 DEF NodesIn, EdgesIn, KeysIn
<1>12. Imaged(c) /\ Declares("terraform", c)
  BY <1>2, <1>9, <1>11 DEF Imaged, Declares
<1> QED BY <1>7, <1>10, <1>11, <1>12 DEF Stands, Joined, F, c, d
LEMMA TerraformRemarksStand ==
    ASSUME NEW file, NEW what
    PROVE  /\ Stands("terraform", {}, Terraform!Nothing) /\ Stands("terraform", {}, Terraform!Skip)
           /\ Stands("terraform", {}, Terraform!Note(file.path, what))
           /\ Stands("terraform", {}, Terraform!Declining(file, what))
<1> DEFINE v == <<[path |-> file.path, what |-> what]>>
           c == Terraform!Skip
           d == Terraform!Note(file.path, what)
           none == {}
<1>1. "terraform" \in Readers /\ Terraform!Nothing = Facts!Blank(FieldsOf("terraform")) /\ Facts!IsRow(v)
  BY TerraformIs, OneRow
<1>2. "notes" \in FieldsOf("terraform") \ {"skipped", "nodes", "edges", "declared"}
  BY <1>1, FieldsAre
<1>3. /\ Filled("terraform", "notes", v, d) /\ c = [Facts!Blank(FieldsOf("terraform")) EXCEPT !["skipped"] = 1]
  BY <1>1 DEF Filled, Terraform!Note, Terraform!Skip
<1>4. Terraform!Declining(file, what) = Terraform!Merge(c, d)
  BY DEF Terraform!Declining
<1> HIDE DEF v, c, d
<1>5. Stands("terraform", none, c) /\ Stands("terraform", none, d) /\ Stands("terraform", none, Terraform!Nothing)
  BY <1>1, <1>2, <1>3, AsideStands, SkipStands, BlankStands
<1> HIDE DEF none
<1>6. Stands("terraform", none \cup KeysIn(c) \cup KeysIn(d), c) /\ Stands("terraform", none \cup KeysIn(c) \cup KeysIn(d), d)
  BY <1>5, StandsOn
<1>7. Stands("terraform", none, Terraform!Merge(c, d))
  BY <1>6, TerraformMergeStands
<1> QED BY <1>4, <1>5, <1>7 DEF none, c, d
(***************************************************************************)
(* What the parser hands over, and the references in it, by how deeply it  *)
(* is nested.                                                              *)
(***************************************************************************)
LEMMA ExpressionIs ==
    \A n \in 0..Nesting :
        Terraform!Expression[n] = IF n = 0 THEN {} ELSE Terraform!Expressions(Seq(Terraform!Expression[n - 1]))
<1> DEFINE Def(v, n) == Terraform!Expressions(Seq(v))
           f == CHOOSE f : f = [n \in 0..Nesting |-> IF n = 0 THEN {} ELSE Def(f[n - 1], n)]
<1>1. Terraform!Expression = f
  BY DEF Terraform!Expression
<1>2. FiniteNatInductiveDefHypothesis(f, {}, Def, 0, Nesting)
  BY DEF FiniteNatInductiveDefHypothesis
<1> HIDE DEF f, Def
<1>3. FiniteNatInductiveDefConclusion(f, {}, Def, 0, Nesting)
  BY <1>2, NestingAssumption, FiniteNatInductiveDef
<1>4. f = [n \in 0..Nesting |-> IF n = 0 THEN {} ELSE Def(f[n - 1], n)]
  BY <1>3 DEF FiniteNatInductiveDefConclusion
<1> QED BY <1>1, <1>4 DEF Def
LEMMA BodyIs ==
    \A n \in 0..Nesting :
        Terraform!Body[n] = IF n = 0 THEN {}
                            ELSE [attrs : Seq([key : STRING, expr : Terraform!Expression[Nesting]]),
                                  blocks : Seq(Terraform!Body[n - 1])]
<1> DEFINE Def(v, n) == [attrs : Seq([key : STRING, expr : Terraform!Expression[Nesting]]), blocks : Seq(v)]
           f == CHOOSE f : f = [n \in 0..Nesting |-> IF n = 0 THEN {} ELSE Def(f[n - 1], n)]
<1>1. Terraform!Body = f
  BY DEF Terraform!Body
<1>2. FiniteNatInductiveDefHypothesis(f, {}, Def, 0, Nesting)
  BY DEF FiniteNatInductiveDefHypothesis
<1> HIDE DEF f, Def
<1>3. FiniteNatInductiveDefConclusion(f, {}, Def, 0, Nesting)
  BY <1>2, NestingAssumption, FiniteNatInductiveDef
<1>4. f = [n \in 0..Nesting |-> IF n = 0 THEN {} ELSE Def(f[n - 1], n)]
  BY <1>3 DEF FiniteNatInductiveDefConclusion
<1> QED BY <1>1, <1>4 DEF Def
LEMMA TerraformFlattens == \A ss : Terraform!FlattenSeq(ss) = FlattenSeq(ss)
BY DEF Terraform!FlattenSeq, FlattenSeq
LEMMA RefsBelowIs ==
    \A n \in 0..Nesting :
        Terraform!RefsBelow[n] = IF n = 0 THEN <<>>
                                 ELSE [expr \in Terraform!Expression[n] |-> Terraform!RefsOver(Terraform!RefsBelow[n - 1], expr)]
<1> DEFINE Def(v, n) == [expr \in Terraform!Expression[n] |-> Terraform!RefsOver(v, expr)]
           f == CHOOSE f : f = [n \in 0..Nesting |-> IF n = 0 THEN <<>> ELSE Def(f[n - 1], n)]
<1>1. Terraform!RefsBelow = f
  BY DEF Terraform!RefsBelow
<1>2. FiniteNatInductiveDefHypothesis(f, <<>>, Def, 0, Nesting)
  BY DEF FiniteNatInductiveDefHypothesis
<1> HIDE DEF f, Def
<1>3. FiniteNatInductiveDefConclusion(f, <<>>, Def, 0, Nesting)
  BY <1>2, NestingAssumption, FiniteNatInductiveDef
<1>4. f = [n \in 0..Nesting |-> IF n = 0 THEN <<>> ELSE Def(f[n - 1], n)]
  BY <1>3 DEF FiniteNatInductiveDefConclusion
<1> QED BY <1>1, <1>4 DEF Def
InsideOf(below, body) ==
    [depth \in 0..(Terraform!MaxDepth + 1) |->
        <<body>> \o (IF depth = 0 THEN <<>>
                     ELSE FlattenSeq([i \in DOMAIN body.blocks |-> below[body.blocks[i]][depth - 1]]))]
LEMMA InsideIs ==
    \A n \in 0..Nesting :
        Terraform!Inside[n] = IF n = 0 THEN <<>>
                              ELSE [body \in Terraform!Body[n] |-> InsideOf(Terraform!Inside[n - 1], body)]
<1> DEFINE Def(v, n) == [body \in Terraform!Body[n] |-> InsideOf(v, body)]
           f == CHOOSE f : f = [n \in 0..Nesting |-> IF n = 0 THEN <<>> ELSE Def(f[n - 1], n)]
<1>1. Terraform!Inside = f
  BY DEF Terraform!Inside, InsideOf, Terraform!FlattenSeq, FlattenSeq
<1>2. FiniteNatInductiveDefHypothesis(f, <<>>, Def, 0, Nesting)
  BY DEF FiniteNatInductiveDefHypothesis
<1> HIDE DEF f, Def
<1>3. FiniteNatInductiveDefConclusion(f, <<>>, Def, 0, Nesting)
  BY <1>2, NestingAssumption, FiniteNatInductiveDef
<1>4. f = [n \in 0..Nesting |-> IF n = 0 THEN <<>> ELSE Def(f[n - 1], n)]
  BY <1>3 DEF FiniteNatInductiveDefConclusion
<1> QED BY <1>1, <1>4 DEF Def

(* The references of an expression are a list.                             *)
LEMMA RefsAreRow == \A expr \in Terraform!Expression[Nesting] : Facts!IsRow(Terraform!RefsIn(expr))
<1> DEFINE Good(n) == \A expr \in Terraform!Expression[n] : Facts!IsRow(Terraform!RefsBelow[n][expr])
           S == {n \in Nat : n <= Nesting => Good(n)}
<1>1. 0 \in S
  <2>1. Terraform!Expression[0] = {}
    <3>1. 0 \in 0..Nesting
      BY NestingAssumption
    <3> QED BY <3>1, ExpressionIs
  <2> QED BY <2>1
<1>2. ASSUME NEW n \in Nat, n \in S PROVE n + 1 \in S
  <2> SUFFICES ASSUME n + 1 <= Nesting PROVE Good(n + 1)
    BY NestingAssumption
  <2> DEFINE inner == Terraform!Expression[n]
             below == Terraform!RefsBelow[n]
  <2>1. n + 1 \in 0..Nesting /\ n + 1 # 0 /\ (n + 1) - 1 = n /\ n <= Nesting
    BY NestingAssumption
  <2>2. Terraform!Expression[n + 1] = Terraform!Expressions(Seq(inner))
    <3>1. Terraform!Expression[n + 1] = Terraform!Expressions(Seq(Terraform!Expression[(n + 1) - 1]))
      BY <2>1, ExpressionIs
    <3> QED BY <2>1, <3>1
  <2>3. Terraform!RefsBelow[n + 1] = [expr \in Terraform!Expression[n + 1] |-> Terraform!RefsOver(below, expr)]
    <3>1. Terraform!RefsBelow[n + 1] = [expr \in Terraform!Expression[n + 1] |-> Terraform!RefsOver(Terraform!RefsBelow[(n + 1) - 1], expr)]
      BY <2>1, RefsBelowIs
    <3> QED BY <2>1, <3>1
  <2>4. \A x \in inner : Facts!IsRow(below[x])
    BY <1>2, <2>1
  <2> HIDE DEF inner, below
  <2>5. ASSUME NEW expr \in Terraform!Expressions(Seq(inner)) PROVE Facts!IsRow(Terraform!RefsOver(below, expr))
    <3> DEFINE parts == expr.parts
               m == Len(parts)
               g == [i \in DOMAIN parts |-> below[parts[i]]]
    <3>1. CASE expr.e = "over"
      <4>1. expr \in [e : {"over"}, parts : Seq(inner)]
        BY <3>1 DEF Terraform!Expressions, Terraform!Traversals
      <4>2. parts \in Seq(inner) /\ Terraform!RefsOver(below, expr) = Terraform!FlattenSeq(g)
        BY <3>1, <4>1 DEF Terraform!RefsOver
      <4>5. Terraform!FlattenSeq(g) = FlattenSeq(g)
        BY TerraformFlattens
      <4> HIDE DEF parts
      <4>3. m \in Nat /\ DOMAIN parts = 1..m /\ DOMAIN g = 1..m /\ g = [i \in 1..m |-> g[i]] /\ \A i \in DOMAIN g : Facts!IsRow(g[i])
        BY <2>4, <4>2
      <4> HIDE DEF m, g
      <4>4. Facts!IsRow(g)
        BY <4>3, MapRow
      <4> QED BY <4>2, <4>3, <4>4, <4>5, FlattenRow
    <3>2. CASE expr.e = "traversal"
      BY <3>2, OneRow DEF Terraform!RefsOver
    <3>3. CASE expr.e \notin {"over", "traversal"}
      BY <3>3, NoneIsRow DEF Terraform!RefsOver
    <3> QED BY <3>1, <3>2, <3>3
  <2> QED BY <2>2, <2>3, <2>5
<1> HIDE DEF S
<1>3. Nesting \in S
  BY <1>1, <1>2, CountingUp, NestingAssumption
<1> QED BY <1>3, NestingAssumption DEF S, Terraform!RefsIn
(* So are the bodies of a body, each with a list of attributes.            *)
Attribute == [key : STRING, expr : Terraform!Expression[Nesting]]
IsBody(b) == b.attrs \in Seq(Attribute)
AreBodies(s) == Facts!IsRow(s) /\ \A b \in ToSet(s) : IsBody(b)
LEMMA InsideAreBodies ==
    ASSUME NEW n \in Nat, n + 1 <= Nesting, NEW below,
           \A x \in Terraform!Body[n] : \A depth \in 0..(Terraform!MaxDepth + 1) : AreBodies(below[x][depth]),
           NEW body \in [attrs : Seq(Attribute), blocks : Seq(Terraform!Body[n])], NEW depth \in 0..(Terraform!MaxDepth + 1)
    PROVE  AreBodies(InsideOf(below, body)[depth]) /\ InsideOf(below, body)[depth] # <<>>
<1> DEFINE blocks == body.blocks
           inner == Terraform!Body[n]
           m == Len(blocks)
           g == [i \in DOMAIN blocks |-> below[blocks[i]][depth - 1]]
           s == <<body>>
           t == FlattenSeq(g)
<1>1. blocks \in Seq(inner) /\ IsBody(body)
  BY DEF IsBody
<1>2. InsideOf(below, body)[depth] = s \o (IF depth = 0 THEN <<>> ELSE t)
  BY DEF InsideOf
<1>3. Facts!IsRow(s) /\ ToSet(s) = {body} /\ Len(s) = 1
  BY OneRow
<1>4. AreBodies(<<>>)
  BY NoneIsRow DEF AreBodies, ToSet
<1>5. depth # 0 => AreBodies(t)
  <2> SUFFICES ASSUME depth # 0 PROVE AreBodies(t)
    OBVIOUS
  <2>1. depth - 1 \in 0..(Terraform!MaxDepth + 1)
    BY DEF Terraform!MaxDepth
  <2> HIDE DEF blocks
  <2>2. m \in Nat /\ DOMAIN blocks = 1..m /\ DOMAIN g = 1..m /\ g = [i \in 1..m |-> g[i]] /\ \A i \in DOMAIN g : AreBodies(g[i])
    BY <1>1, <2>1
  <2> HIDE DEF m, g, t
  <2>3. Facts!IsRow(g) /\ \A i \in DOMAIN g : Facts!IsRow(g[i])
    BY <2>2, MapRow DEF AreBodies
  <2>4. Facts!IsRow(t) /\ ToSet(t) = UNION {ToSet(g[i]) : i \in DOMAIN g}
    BY <2>3, FlattenRow DEF t
  <2> QED BY <2>2, <2>4 DEF AreBodies
<1> DEFINE u == IF depth = 0 THEN <<>> ELSE t
<1>6. AreBodies(u)
  BY <1>4, <1>5
<1> HIDE DEF s, t, u
<1>7. Facts!IsRow(s \o u) /\ ToSet(s \o u) = ToSet(s) \cup ToSet(u)
  BY <1>3, <1>6, ConcatRow DEF AreBodies
<1>8. AreBodies(s \o u)
  BY <1>1, <1>3, <1>6, <1>7 DEF AreBodies
<1>9. s \o u # <<>>
  <2>1. PICK S : s \in Seq(S) /\ u \in Seq(S)
    BY <1>3, <1>6, RowsAreSeqs DEF AreBodies
  <2>2. Len(s \o u) = Len(s) + Len(u) /\ Len(u) \in Nat
    BY <2>1
  <2> QED BY <1>3, <2>2
<1> QED BY <1>2, <1>8, <1>9 DEF u
LEMMA BodiesStand ==
    \A body \in Terraform!Body[Nesting] : \A depth \in 0..(Terraform!MaxDepth + 1) :
        AreBodies(Terraform!Bodies(body, depth)) /\ Terraform!Bodies(body, depth) # <<>> /\ IsBody(body)
<1> DEFINE Depths == 0..(Terraform!MaxDepth + 1)
           Good(n) == \A body \in Terraform!Body[n] : IsBody(body) /\ \A depth \in Depths :
                        AreBodies(Terraform!Inside[n][body][depth]) /\ Terraform!Inside[n][body][depth] # <<>>
           S == {n \in Nat : n <= Nesting => Good(n)}
<1>1. 0 \in S
  <2>1. Terraform!Body[0] = {}
    <3>1. 0 \in 0..Nesting
      BY NestingAssumption
    <3> QED BY <3>1, BodyIs
  <2> QED BY <2>1
<1>2. ASSUME NEW n \in Nat, n \in S PROVE n + 1 \in S
  <2> SUFFICES ASSUME n + 1 <= Nesting PROVE Good(n + 1)
    BY NestingAssumption
  <2> DEFINE inner == Terraform!Body[n]
             below == Terraform!Inside[n]
  <2>1. n + 1 \in 0..Nesting /\ n + 1 # 0 /\ (n + 1) - 1 = n /\ n <= Nesting
    BY NestingAssumption
  <2>2. Terraform!Body[n + 1] = [attrs : Seq(Attribute), blocks : Seq(inner)]
    <3>1. Terraform!Body[n + 1] = [attrs : Seq(Attribute), blocks : Seq(Terraform!Body[(n + 1) - 1])]
      BY <2>1, BodyIs DEF Attribute
    <3> QED BY <2>1, <3>1
  <2>3. Terraform!Inside[n + 1] = [body \in Terraform!Body[n + 1] |-> InsideOf(below, body)]
    <3>1. Terraform!Inside[n + 1] = [body \in Terraform!Body[n + 1] |-> InsideOf(Terraform!Inside[(n + 1) - 1], body)]
      BY <2>1, InsideIs
    <3> QED BY <2>1, <3>1
  <2>4. \A x \in inner : \A depth \in Depths : AreBodies(below[x][depth])
    BY <1>2, <2>1
  <2>5. ASSUME NEW body \in [attrs : Seq(Attribute), blocks : Seq(inner)]
        PROVE  IsBody(body) /\ \A depth \in Depths :
                AreBodies(InsideOf(below, body)[depth]) /\ InsideOf(below, body)[depth] # <<>>
    <3>1. IsBody(body)
      BY DEF IsBody
    <3> HIDE DEF below
    <3>2. ASSUME NEW depth \in Depths PROVE AreBodies(InsideOf(below, body)[depth]) /\ InsideOf(below, body)[depth] # <<>>
      BY <2>4, InsideAreBodies
    <3> QED BY <3>1, <3>2
  <2> HIDE DEF Depths, inner, below
  <2> QED BY <2>2, <2>3, <2>5
<1> HIDE DEF S
<1>3. Nesting \in S
  BY <1>1, <1>2, CountingUp, NestingAssumption
<1> QED BY <1>3, NestingAssumption DEF S, Terraform!Bodies

(* The addresses that an expression, an attribute, a body and the bodies   *)
(* in it name are a list.                                                  *)
LEMMA AddressRow == \A t : Facts!IsRow(Terraform!AddressOf(t))
<1> SUFFICES ASSUME NEW t PROVE Facts!IsRow(Terraform!AddressOf(t))
  OBVIOUS
<1> DEFINE r == Terraform!AddressOf(t)
           one == t.root \o <<".">> \o t.attrs[1]
           two == one \o <<".">> \o t.attrs[2]
           g1 == t.root \in Terraform!MetaRoots
           g2 == t.root \in {<<"var">>, <<"module">>}
           g3 == t.root = <<"data">>
           v2 == IF Len(t.attrs) = 0 THEN <<>> ELSE <<one>>
           v3 == IF Len(t.attrs) < 2 THEN <<>> ELSE <<two>>
           v4 == IF Terraform!Contains(t.root, "_") /\ Len(t.attrs) > 0 THEN <<one>> ELSE <<>>
<1>1. r = CASE g1 -> <<>> [] g2 -> v2 [] g3 -> v3 [] OTHER -> v4
  BY DEF Terraform!AddressOf, Terraform!None, Terraform!Some
<1>2. v2 \in {<<>>, <<one>>} /\ v3 \in {<<>>, <<two>>} /\ v4 \in {<<>>, <<one>>}
  OBVIOUS
<1> HIDE DEF r, one, two, g1, g2, g3, v2, v3, v4
<1>3. r \in {<<>>, v2, v3, v4}
  BY <1>1
<1>4. r \in {<<>>, <<one>>, <<two>>}
  BY <1>2, <1>3
<1>5. Facts!IsRow(<<one>>) /\ Facts!IsRow(<<two>>)
  BY OneRow
<1>6. Facts!IsRow(r)
  BY <1>4, <1>5, NoneIsRow
<1> QED BY <1>6 DEF r
(* A list of lists, one for each of another list. *)
AllListed(seq, g) == Over(seq, g) /\ \A i \in DOMAIN seq : Facts!IsRow(g[i])
LEMMA ListedRow ==
    ASSUME NEW seq, Facts!IsRow(seq), NEW g, AllListed(seq, g)
    PROVE  Facts!IsRow(g) /\ Facts!IsRow(Terraform!FlattenSeq(g))
           /\ ToSet(Terraform!FlattenSeq(g)) = UNION {ToSet(g[i]) : i \in DOMAIN seq}
<1> DEFINE n == Len(seq)
<1>1. n \in Nat /\ DOMAIN seq = 1..n /\ DOMAIN g = 1..n /\ g = [i \in 1..n |-> g[i]] /\ \A i \in DOMAIN g : Facts!IsRow(g[i])
  BY DEF Facts!IsRow, AllListed, Over
<1> HIDE DEF n
<1>2. Facts!IsRow(g)
  BY <1>1, MapRow
<1> QED BY <1>1, <1>2, FlattenRow, TerraformFlattens
LEMMA AddressesRow == \A expr \in Terraform!Expression[Nesting] : Facts!IsRow(Terraform!Addresses(expr))
<1> SUFFICES ASSUME NEW expr \in Terraform!Expression[Nesting] PROVE Facts!IsRow(Terraform!Addresses(expr))
  OBVIOUS
<1> DEFINE refs == Terraform!RefsIn(expr)
           g == [i \in DOMAIN refs |-> Terraform!AddressOf(refs[i])]
<1>1. Facts!IsRow(refs) /\ Terraform!Addresses(expr) = Terraform!FlattenSeq(g)
  BY RefsAreRow DEF Terraform!Addresses
<1>2. AllListed(refs, g)
  BY AddressRow DEF AllListed, Over
<1> HIDE DEF refs, g
<1> QED BY <1>1, <1>2, ListedRow
LEMMA StatedRow == \A attr \in Attribute : \A nested \in BOOLEAN : Facts!IsRow(Terraform!Stated(attr, nested))
<1> SUFFICES ASSUME NEW attr \in Attribute, NEW nested \in BOOLEAN PROVE Facts!IsRow(Terraform!Stated(attr, nested))
  OBVIOUS
<1> DEFINE to == Terraform!Addresses(attr.expr)
           via == IF attr.key = "depends_on" /\ ~nested THEN "depends_on" ELSE "reference"
           n == Len(to)
           g == [i \in DOMAIN to |-> <<to[i], via>>]
<1>1. attr.expr \in Terraform!Expression[Nesting]
  BY DEF Attribute
<1>2. Facts!IsRow(to) /\ Terraform!Stated(attr, nested) = g
  BY <1>1, AddressesRow DEF Terraform!Stated
<1> HIDE DEF to, via
<1>3. n \in Nat /\ DOMAIN to = 1..n
  BY <1>2 DEF Facts!IsRow
<1> HIDE DEF n
<1>4. g = [i \in 1..n |-> g[i]]
  BY <1>3
<1> HIDE DEF g
<1> QED BY <1>2, <1>3, <1>4, MapRow
LEMMA AttributesAre ==
    ASSUME NEW b, IsBody(b)
    PROVE  Facts!IsRow(b.attrs) /\ \A i \in DOMAIN b.attrs : b.attrs[i] \in Attribute
<1>1. b.attrs \in Seq(Attribute)
  BY DEF IsBody
<1> QED BY <1>1, SeqIsRow
LEMMA StatedByRow == ASSUME NEW b, IsBody(b), NEW nested \in BOOLEAN PROVE Facts!IsRow(Terraform!StatedBy(b, nested))
<1> DEFINE attrs == b.attrs
           g == [i \in DOMAIN attrs |-> Terraform!Stated(attrs[i], nested)]
<1>1. Facts!IsRow(attrs) /\ \A i \in DOMAIN attrs : attrs[i] \in Attribute
  BY AttributesAre
<1>2. Terraform!StatedBy(b, nested) = Terraform!FlattenSeq(g)
  BY DEF Terraform!StatedBy
<1> HIDE DEF attrs
<1>3. AllListed(attrs, g)
  BY <1>1, StatedRow DEF AllListed, Over
<1> HIDE DEF g
<1> QED BY <1>1, <1>2, <1>3, ListedRow
LEMMA NestedRow == \A body \in Terraform!Body[Nesting] : Facts!IsRow(Terraform!Nested(body))
<1> SUFFICES ASSUME NEW body \in Terraform!Body[Nesting] PROVE Facts!IsRow(Terraform!Nested(body))
  OBVIOUS
<1> DEFINE s == Terraform!Bodies(body, Terraform!MaxDepth + 1)
           nested == Tail(s)
           g == [i \in DOMAIN nested |-> Terraform!StatedBy(nested[i], TRUE)]
<1>1. Terraform!MaxDepth + 1 \in 0..(Terraform!MaxDepth + 1)
  BY DEF Terraform!MaxDepth
<1>2. AreBodies(s) /\ s # <<>>
  BY <1>1, BodiesStand
<1>3. Terraform!Nested(body) = Terraform!FlattenSeq(g)
  BY DEF Terraform!Nested
<1> HIDE DEF s
<1>4. Facts!IsRow(nested) /\ \A i \in DOMAIN nested : IsBody(nested[i])
  <2> DEFINE S == {b : b \in ToSet(s)}
  <2>1. Len(s) \in Nat /\ s \in [1..Len(s) -> S]
    BY <1>2 DEF AreBodies, Facts!IsRow, ToSet
  <2>2. s \in Seq(S)
    BY <2>1, FunctionIsSeq
  <2>3. nested \in Seq(S)
    BY <1>2, <2>2
  <2> HIDE DEF nested
  <2>4. Facts!IsRow(nested) /\ \A i \in DOMAIN nested : nested[i] \in S
    BY <2>3, SeqIsRow
  <2> QED BY <1>2, <2>4 DEF AreBodies
<1> HIDE DEF nested
<1>5. AllListed(nested, g)
  BY <1>4, StatedByRow DEF AllListed, Over
<1> HIDE DEF g
<1> QED BY <1>3, <1>4, <1>5, ListedRow
(* A finite set, and what a map has entries for. *)
LEMMA TerraformSetRow ==
    ASSUME NEW S, IsFiniteSet(S)
    PROVE  Facts!IsRow(Terraform!SetToSeq(S)) /\ ToSet(Terraform!SetToSeq(S)) \subseteq S
<1> DEFINE n == Cardinality(S)
           s == Terraform!SetToSeq(S)
<1>1. Terraform!Cardinality(S) = n
  BY DEF Terraform!Cardinality, Cardinality
<1>2. n \in Nat /\ \E f \in [1..n -> S] : Terraform!IsInjective(f)
  <2>1. \A f : Terraform!IsInjective(f) <=> IsInjective(f)
    BY DEF Terraform!IsInjective, IsInjective
  <2> QED BY <2>1, SetIsListed
<1> HIDE DEF n
<1>3. s \in [1..n -> S]
  BY <1>1, <1>2 DEF Terraform!SetToSeq
<1> HIDE DEF s
<1>4. Facts!IsRow(s) /\ ToSet(s) \subseteq S
  BY <1>2, <1>3, ListOfSet
<1> QED BY <1>4 DEF s
LEMMA EntriesAreFinite ==
    ASSUME NEW pairs, Facts!IsRow(pairs)
    PROVE  IsFiniteSet(DOMAIN Terraform!FirstMap(pairs))
<1> DEFINE f == [i \in DOMAIN pairs |-> pairs[i][1]]
<1>1. IsFiniteSet(DOMAIN f)
  BY RowIsFinite
<1>2. DOMAIN Terraform!FirstMap(pairs) = {f[i] : i \in DOMAIN f}
  BY DEF Terraform!FirstMap
<1> HIDE DEF f
<1> QED BY <1>1, <1>2, FiniteRange
(* What refers needs itself: the other end of a reference is looked up. *)
LEMMA ReferencesStand ==
    ASSUME NEW block, block.body \in Terraform!Body[Nesting], NEW key
    PROVE  Stands("terraform", {key}, Terraform!References(block, key))
<1> DEFINE near == Terraform!StatedBy(block.body, FALSE)
           far == Terraform!Nested(block.body)
           pairs == near \o far
           via == Terraform!FirstMap(pairs)
           S == DOMAIN via \ {key}
           others == Terraform!SetToSeq(S)
           Type(dst) == IF dst[1] = "var" /\ dst[2] = "." THEN "USES_VARIABLE" ELSE "DEPENDS_ON"
           e == [i \in DOMAIN others |-> Terraform!EdgeBy(key, Type(others[i]), others[i], via[others[i]])]
           g == [i \in DOMAIN others |-> Terraform!PushEdge(e[i])]
<1>1. Terraform!References(block, key) = Terraform!MergeAll(g)
  BY DEF Terraform!References
<1>2. \A i \in DOMAIN others : e[i].src = key
  BY DEF Terraform!EdgeBy
<1>3. Facts!IsRow(near) /\ Facts!IsRow(far)
  <2>1. 0 \in 0..(Terraform!MaxDepth + 1)
    BY DEF Terraform!MaxDepth
  <2>2. IsBody(block.body)
    BY <2>1, BodiesStand
  <2> QED BY <2>2, StatedByRow, NestedRow
<1> HIDE DEF near, far
<1>4. Facts!IsRow(pairs)
  BY <1>3, ConcatRow
<1> HIDE DEF pairs
<1>5. IsFiniteSet(S)
  <2>1. IsFiniteSet(DOMAIN via)
    BY <1>4, EntriesAreFinite
  <2> HIDE DEF via
  <2> QED BY <2>1, FS_RemoveElement
<1> HIDE DEF via, S
<1>6. Facts!IsRow(others)
  BY <1>5, TerraformSetRow
<1> HIDE DEF others, Type
<1>7. \A i \in DOMAIN others : Stands("terraform", {key}, g[i])
  <2> SUFFICES ASSUME NEW i \in DOMAIN others PROVE Stands("terraform", {key}, g[i])
    OBVIOUS
  <2> DEFINE x == e[i]
             c == Terraform!PushEdge(x)
             n == [key |-> key, label |-> ""]
  <2>1. x.src = key /\ g[i] = c /\ n.label # "Image"
    BY <1>2
  <2> HIDE DEF x, n
  <2>2. Stands("terraform", {x.src}, c)
    BY <2>1, PushStands DEF OfImage
  <2> QED BY <2>1, <2>2
<1>8. Over(others, g)
  BY DEF Over
<1> HIDE DEF e, g
<1>9. StandFor("terraform", {key}, others, g)
  BY <1>7, <1>8 DEF StandFor
<1> HIDE DEF others
<1> QED BY <1>1, <1>6, <1>9, TerraformEach
----------------------------------------------------------------------------
(***************************************************************************)
(* Terraform: what runs an image, which is taken apart as any other is.    *)
(***************************************************************************)
LEMMA TerraformParts == \A reference : Terraform!ParseImage(reference) = Reference!ParseImage(reference)
<1>1. \A text, c : Terraform!FirstAt(text, c) = Reference!FirstAt(text, c)
  BY DEF Terraform!FirstAt, Reference!FirstAt, Terraform!SelectInSeq, Reference!SelectInSeq, Terraform!Min, Reference!Min
<1>2. \A text, c : Terraform!LastAt(text, c) = Reference!LastAt(text, c)
  BY DEF Terraform!LastAt, Reference!LastAt, Terraform!SelectLastInSeq, Reference!SelectLastInSeq, Terraform!Max, Reference!Max
<1>3. \A text, c : /\ Terraform!SplitFirst(text, c) = Reference!SplitFirst(text, c)
                   /\ Terraform!SplitLast(text, c) = Reference!SplitLast(text, c)
  BY <1>1, <1>2 DEF Terraform!SplitFirst, Reference!SplitFirst, Terraform!SplitLast, Reference!SplitLast,
                    Terraform!Before, Reference!Before, Terraform!After, Reference!After,
                    Terraform!None, Reference!None, Terraform!Some, Reference!Some
<1>4. \A s : Terraform!HostLike(s) = Reference!HostLike(s)
  BY DEF Terraform!HostLike, Reference!HostLike, Terraform!ToSet, Reference!ToSet
<1>5. \A s : Terraform!FirstSegment(s) = Reference!FirstSegment(s)
  BY <1>3 DEF Terraform!FirstSegment, Reference!FirstSegment
<1>6. \A head, registry : Terraform!Middle(head, registry) = Reference!Middle(head, registry)
  BY DEF Terraform!Middle, Reference!Middle, Terraform!After, Reference!After, Terraform!None, Reference!None,
         Terraform!SelectInSeq, Reference!SelectInSeq, Terraform!Min, Reference!Min
<1>7. \A reference, middle : Terraform!StartOf(reference, middle) = Reference!StartOf(reference, middle)
  BY DEF Terraform!StartOf, Reference!StartOf
<1>8. \A reference, head, registry, name :
          Terraform!Repository(reference, head, registry, name) = Reference!Repository(reference, head, registry, name)
  BY <1>6, <1>7 DEF Terraform!Repository, Reference!Repository, Terraform!None, Reference!None
<1> QED BY <1>3, <1>4, <1>5, <1>8 DEF Terraform!ParseImage, Reference!ParseImage, Terraform!None, Reference!None,
                                       Terraform!Some, Reference!Some
LEMMA TextRow ==
    ASSUME NEW expr \in Terraform!Expression[Nesting], expr.e = "string"
    PROVE  Facts!IsRow(expr.text)
<1>1. Nesting # 0
  BY ExpressionIs, NestingAssumption
<1> DEFINE parts == Seq(Terraform!Expression[Nesting - 1])
<1>2. Terraform!Expression[Nesting] = Terraform!Expressions(parts)
  BY <1>1, ExpressionIs, NestingAssumption
<1> HIDE DEF parts
<1>3. expr.text \in Seq(STRING)
  BY <1>2 DEF Terraform!Expressions, Terraform!Traversals
<1> QED BY <1>3, SeqIsRow
LEMMA TerraformImageStands ==
    ASSUME NEW attr \in Attribute, NEW key
    PROVE  Stands("terraform", {key}, Terraform!Image(attr, key))
<1> DEFINE text == attr.expr.text
           n == [key |-> text, label |-> "Image", external |-> FALSE, parts |-> Terraform!ParseImage(text)]
           e == Terraform!Edge(key, "USES_IMAGE", text)
           c == Terraform!PushNode(n)
           d == Terraform!PushEdge(e)
           none == Terraform!Nothing
           need == {key}
<1>1. n.key = text /\ (Facts!IsRow(text) => OfImage(n)) /\ e.src = key
  BY TerraformParts DEF Terraform!Edge, OfImage
<1>2. Terraform!Image(attr, key) = IF attr.key \in Terraform!ImageArgs /\ attr.expr.e = "string"
                                   THEN Terraform!Merge(c, d) ELSE none
  BY DEF Terraform!Image
<1>3. CASE ~Facts!IsRow(text)
  <2>1. attr.expr.e # "string"
    BY <1>3, TextRow DEF Attribute
  <2>2. Terraform!Image(attr, key) = none
    BY <1>2, <2>1
  <2>3. Stands("terraform", {}, none)
    BY TerraformRemarksStand
  <2> HIDE DEF none
  <2> QED BY <2>2, <2>3, StandsOn
<1> SUFFICES ASSUME Facts!IsRow(text) PROVE Stands("terraform", {key}, Terraform!Image(attr, key))
  BY <1>3
<1> HIDE DEF n, e, text
<1>7. Stands("terraform", {}, c) /\ Stands("terraform", need, d)
  BY <1>1, PushStands DEF OfImage
<1> HIDE DEF c, d, need
<1>4. Stands("terraform", need \cup KeysIn(c) \cup KeysIn(d), c) /\ Stands("terraform", need \cup KeysIn(c) \cup KeysIn(d), d)
  BY <1>7, StandsOn
<1>5. Stands("terraform", need, Terraform!Merge(c, d))
  BY <1>4, TerraformMergeStands
<1>6. Stands("terraform", need, none)
  <2>1. Stands("terraform", {}, none)
    BY TerraformRemarksStand
  <2> HIDE DEF none
  <2> QED BY <2>1, StandsOn
<1> QED BY <1>2, <1>5, <1>6 DEF need
LEMMA ImagesStand ==
    ASSUME NEW body \in Terraform!Body[Nesting], NEW key
    PROVE  Stands("terraform", {key}, Terraform!Images(body, key))
<1> DEFINE s == Terraform!Bodies(body, Terraform!MaxDepth)
           Named(b) == Terraform!MergeAll([i \in DOMAIN b.attrs |-> Terraform!Image(b.attrs[i], key)])
           g == [i \in DOMAIN s |-> Named(s[i])]
           need == {key}
<1>1. Terraform!MaxDepth \in 0..(Terraform!MaxDepth + 1)
  BY DEF Terraform!MaxDepth
<1>2. Facts!IsRow(s) /\ \A i \in DOMAIN s : IsBody(s[i])
  <2>1. AreBodies(s)
    BY <1>1, BodiesStand
  <2> HIDE DEF s
  <2> QED BY <2>1 DEF AreBodies, ToSet
<1>3. Terraform!Images(body, key) = Terraform!MergeAll(g)
  BY DEF Terraform!Images
<1> HIDE DEF s
<1>4. ASSUME NEW b, IsBody(b) PROVE Stands("terraform", need, Named(b))
  <2> DEFINE attrs == b.attrs
             h == [i \in DOMAIN attrs |-> Terraform!Image(attrs[i], key)]
  <2>1. Facts!IsRow(attrs) /\ \A i \in DOMAIN attrs : attrs[i] \in Attribute
    BY <1>4, AttributesAre
  <2> HIDE DEF attrs
  <2>2. StandFor("terraform", need, attrs, h)
    BY <2>1, TerraformImageStands DEF StandFor, Over
  <2> HIDE DEF h
  <2>3. Stands("terraform", need, Terraform!MergeAll(h))
    BY <2>1, <2>2, TerraformEach
  <2> QED BY <2>3 DEF h, attrs
<1> HIDE DEF Named, need
<1>5. StandFor("terraform", need, s, g)
  BY <1>2, <1>4 DEF StandFor, Over
<1> HIDE DEF g
<1>6. Stands("terraform", need, Terraform!MergeAll(g))
  BY <1>2, <1>5, TerraformEach
<1> QED BY <1>3, <1>6 DEF need
(***************************************************************************)
(* The blocks of a file need the directory it is in.                       *)
(***************************************************************************)
LEMMA InRootStands ==
    ASSUME NEW key, NEW label, label # "Image", NEW root
    PROVE  Stands("terraform", {}, Terraform!InRoot(key, label, root)) /\ KeysIn(Terraform!InRoot(key, label, root)) = {key}
<1> DEFINE n == Terraform!Node(key, label)
           e == Terraform!Edge(key, "IN_NAMESPACE", <<root>>)
           c == Terraform!PushNode(n)
           d == Terraform!PushEdge(e)
           none == {}
<1>1. n.key = key /\ n.label # "Image" /\ e.src = key
  BY DEF Terraform!Node, Terraform!Edge
<1>2. Terraform!InRoot(key, label, root) = Terraform!Merge(c, d)
  BY DEF Terraform!InRoot
<1> HIDE DEF n, e
<1>3. Stands("terraform", none, c) /\ KeysIn(c) = {key} /\ Stands("terraform", {key}, d) /\ KeysIn(d) = {}
  BY <1>1, PushStands DEF OfImage
<1> HIDE DEF c, d, none
<1>4. Stands("terraform", none \cup KeysIn(c) \cup KeysIn(d), c) /\ Stands("terraform", none \cup KeysIn(c) \cup KeysIn(d), d)
  BY <1>3, StandsOn
<1>5. Stands("terraform", none, Terraform!Merge(c, d)) /\ KeysIn(Terraform!Merge(c, d)) = KeysIn(c) \cup KeysIn(d)
  BY <1>4, TerraformMergeStands
<1>6. KeysIn(c) \cup KeysIn(d) = {key}
  BY <1>3
<1> QED BY <1>2, <1>5, <1>6 DEF none
LEMMA ResourceStands ==
    ASSUME NEW block, block.body \in Terraform!Body[Nesting], NEW root
    PROVE  Stands("terraform", {}, Terraform!ResourceBlock(block, root))
<1> DEFINE key == block.labels[1] \o <<".">> \o block.labels[2]
           e == Terraform!Edge(key, "PROVIDED_BY", Terraform!Provider(block.labels[1]))
           x == Terraform!InRoot(key, "Infra", root)
           y == Terraform!PushEdge(e)
           z == Terraform!Images(block.body, key)
           w == Terraform!References(block, key)
           cs == <<x, y, z, w>>
           K == {key}
           need == {}
<1>1. Terraform!ResourceBlock(block, root) = Terraform!MergeAll(cs)
  BY DEF Terraform!ResourceBlock
<1> HIDE DEF key
<1>2. e.src = key
  BY DEF Terraform!Edge
<1> HIDE DEF e
<1>3. Stands("terraform", {}, x) /\ KeysIn(x) = K
  BY InRootStands
<1>4. Stands("terraform", K, y)
  <2> DEFINE n == [key |-> key, label |-> ""]
  <2>1. n.label # "Image"
    OBVIOUS
  <2> HIDE DEF n
  <2>2. Stands("terraform", {e.src}, y)
    BY <2>1, PushStands DEF OfImage
  <2> QED BY <1>2, <2>2
<1>5. Stands("terraform", K, z) /\ Stands("terraform", K, w)
  BY ImagesStand, ReferencesStand
<1> HIDE DEF x, y, z, w, K
<1>6. Stands("terraform", need \cup K, x) /\ Stands("terraform", need \cup K, y) /\ Stands("terraform", need \cup K, z)
      /\ Stands("terraform", need \cup K, w)
  BY <1>3, <1>4, <1>5, StandsOn
<1>7. Facts!IsRow(cs) /\ ToSet(cs) = {x, y, z, w}
  BY FourRow
<1> HIDE DEF cs, need
<1>8. StandIn("terraform", need \cup K, cs) /\ K \subseteq UNION {KeysIn(c) : c \in ToSet(cs)}
  BY <1>3, <1>6, <1>7 DEF StandIn
<1>9. Stands("terraform", need, Terraform!MergeAll(cs))
  BY <1>7, <1>8, TerraformAllStand
<1> QED BY <1>1, <1>9 DEF need
LEMMA DataStands ==
    ASSUME NEW block, block.body \in Terraform!Body[Nesting], NEW root
    PROVE  Stands("terraform", {}, Terraform!DataBlock(block, root))
<1> DEFINE key == <<"data", ".">> \o block.labels[1] \o <<".">> \o block.labels[2]
           c == Terraform!InRoot(key, "DataSource", root)
           d == Terraform!References(block, key)
           none == {}
<1>1. Terraform!DataBlock(block, root) = Terraform!Merge(c, d)
  BY DEF Terraform!DataBlock
<1> HIDE DEF key
<1>2. Stands("terraform", none, c) /\ KeysIn(c) = {key} /\ Stands("terraform", {key}, d)
  BY InRootStands, ReferencesStand
<1> HIDE DEF c, d, none
<1>3. Stands("terraform", none \cup KeysIn(c) \cup KeysIn(d), c) /\ Stands("terraform", none \cup KeysIn(c) \cup KeysIn(d), d)
  BY <1>2, StandsOn
<1>4. Stands("terraform", none, Terraform!Merge(c, d))
  BY <1>3, TerraformMergeStands
<1> QED BY <1>1, <1>4 DEF none
LEMMA ModuleStands ==
    ASSUME NEW block, block.body \in Terraform!Body[Nesting], NEW root
    PROVE  Stands("terraform", {<<root>>}, Terraform!ModuleBlock(block, root))
<1> DEFINE key == <<"module", ".">> \o block.labels[1]
           n == Terraform!Node(key, "Module")
           e == Terraform!Edge(<<root>>, "USES_MODULE", key)
           x == Terraform!PushNode(n)
           y == Terraform!PushEdge(e)
           z == Terraform!References(block, key)
           cs == <<x, y, z>>
           K == {key}
           need == {<<root>>}
<1>1. Terraform!ModuleBlock(block, root) = Terraform!MergeAll(cs)
  BY DEF Terraform!ModuleBlock
<1> HIDE DEF key
<1>2. n.key = key /\ n.label # "Image" /\ e.src = <<root>>
  BY DEF Terraform!Node, Terraform!Edge
<1> HIDE DEF n, e
<1>3. Stands("terraform", {}, x) /\ KeysIn(x) = K /\ Stands("terraform", need, y)
  BY <1>2, PushStands DEF OfImage
<1>4. Stands("terraform", K, z)
  BY ReferencesStand
<1> HIDE DEF x, y, z, K, need
<1>5. Stands("terraform", need \cup K, x) /\ Stands("terraform", need \cup K, y) /\ Stands("terraform", need \cup K, z)
  BY <1>3, <1>4, StandsOn
<1>6. Facts!IsRow(cs) /\ ToSet(cs) = {x, y, z}
  BY ThreeRow
<1> HIDE DEF cs
<1>7. StandIn("terraform", need \cup K, cs) /\ K \subseteq UNION {KeysIn(c) : c \in ToSet(cs)}
  BY <1>3, <1>5, <1>6 DEF StandIn
<1>8. Stands("terraform", need, Terraform!MergeAll(cs))
  BY <1>6, <1>7, TerraformAllStand
<1> QED BY <1>1, <1>8 DEF need
(* What an output exposes is what its value names. *)
LEMMA OutputStands ==
    ASSUME NEW block, block.body \in Terraform!Body[Nesting], NEW root
    PROVE  Stands("terraform", {}, Terraform!OutputBlock(block, root))
<1> DEFINE key == <<"output", ".">> \o block.labels[1]
           attrs == block.body.attrs
           f == [i \in DOMAIN attrs |-> IF attrs[i].key = "value" THEN <<attrs[i]>> ELSE <<>>]
           values == Terraform!FlattenSeq(f)
           h == [i \in DOMAIN values |-> Terraform!Addresses(values[i].expr)]
           exposed == Terraform!FlattenSeq(h)
           e == [i \in DOMAIN exposed |-> Terraform!Edge(key, "EXPOSES", exposed[i])]
           g == [i \in DOMAIN exposed |-> Terraform!PushEdge(e[i])]
           c == Terraform!InRoot(key, "Output", root)
           d == Terraform!MergeAll(g)
           none == {}
<1>1. Terraform!OutputBlock(block, root) = Terraform!Merge(c, d)
  BY DEF Terraform!OutputBlock, Terraform!Filter
<1> HIDE DEF key
<1>2. Facts!IsRow(attrs) /\ \A x \in ToSet(attrs) : x \in Attribute
  <2>1. 0 \in 0..(Terraform!MaxDepth + 1)
    BY DEF Terraform!MaxDepth
  <2>2. IsBody(block.body)
    BY <2>1, BodiesStand
  <2>3. Facts!IsRow(attrs) /\ \A i \in DOMAIN attrs : attrs[i] \in Attribute
    BY <2>2, AttributesAre
  <2> QED BY <2>3 DEF ToSet
<1> HIDE DEF attrs
<1>3. Passes(attrs, f)
  BY DEF Passes, Over
<1> HIDE DEF f
<1>4. Facts!IsRow(values) /\ ToSet(values) \subseteq ToSet(attrs)
  BY <1>2, <1>3, FilterRow, TerraformFlattens
<1> HIDE DEF values
<1>5. AllListed(values, h)
  <2> SUFFICES ASSUME NEW i \in DOMAIN values PROVE Facts!IsRow(h[i])
    BY DEF AllListed, Over
  <2>1. values[i] \in Attribute
    BY <1>2, <1>4 DEF ToSet
  <2>2. values[i].expr \in Terraform!Expression[Nesting]
    BY <2>1 DEF Attribute
  <2> QED BY <2>2, AddressesRow
<1> HIDE DEF h
<1>6. Facts!IsRow(exposed)
  BY <1>4, <1>5, ListedRow
<1> HIDE DEF exposed
<1>7. \A i \in DOMAIN exposed : Stands("terraform", {key}, g[i])
  <2> SUFFICES ASSUME NEW i \in DOMAIN exposed PROVE Stands("terraform", {key}, g[i])
    OBVIOUS
  <2> DEFINE x == e[i]
             n == [key |-> key, label |-> ""]
             p == Terraform!PushEdge(x)
  <2>1. x.src = key /\ g[i] = p /\ n.label # "Image"
    BY DEF Terraform!Edge
  <2> HIDE DEF x, n
  <2>2. Stands("terraform", {x.src}, p)
    BY <2>1, PushStands DEF OfImage
  <2> QED BY <2>1, <2>2
<1>8. Over(exposed, g)
  BY DEF Over
<1> HIDE DEF e, g
<1>9. StandFor("terraform", {key}, exposed, g)
  BY <1>7, <1>8 DEF StandFor
<1>10. Stands("terraform", {key}, d)
  BY <1>6, <1>9, TerraformEach
<1>11. Stands("terraform", none, c) /\ KeysIn(c) = {key}
  BY InRootStands
<1> HIDE DEF c, d, none
<1>12. Stands("terraform", none \cup KeysIn(c) \cup KeysIn(d), c) /\ Stands("terraform", none \cup KeysIn(c) \cup KeysIn(d), d)
  BY <1>10, <1>11, StandsOn
<1>13. Stands("terraform", none, Terraform!Merge(c, d))
  BY <1>12, TerraformMergeStands
<1> QED BY <1>1, <1>13 DEF none
LEMMA BlockStands ==
    ASSUME NEW block, block.body \in Terraform!Body[Nesting], NEW root
    PROVE  Stands("terraform", {<<root>>}, Terraform!Structure(block, root))
<1> DEFINE need == {<<root>>}
           none == {}
           k == block.is
           vkey == <<"var", ".">> \o block.labels[1]
           pkey == <<"provider", ".">> \o block.labels[1]
           v1 == Terraform!ResourceBlock(block, root)
           v2 == Terraform!DataBlock(block, root)
           v3 == Terraform!ModuleBlock(block, root)
           v4 == Terraform!InRoot(vkey, "Variable", root)
           v5 == Terraform!OutputBlock(block, root)
           v6 == Terraform!InRoot(pkey, "Provider", root)
           v7 == Terraform!Nothing
           v8 == Terraform!Skip
           short == Len(block.labels) < Terraform!LabelsOf(k)
           r == Terraform!Structure(block, root)
<1>1. r = IF short THEN v8
          ELSE CASE k = "resource" -> v1 [] k = "data" -> v2 [] k = "module" -> v3 [] k = "variable" -> v4
                 [] k = "output" -> v5 [] k = "provider" -> v6 [] OTHER -> v7
  BY DEF Terraform!Structure, Terraform!VariableBlock, Terraform!ProviderBlock
<1>2. Stands("terraform", none, v1) /\ Stands("terraform", none, v2) /\ Stands("terraform", none, v5)
  BY ResourceStands, DataStands, OutputStands
<1>3. Stands("terraform", need, v3)
  BY ModuleStands
<1>4. Stands("terraform", none, v4) /\ Stands("terraform", none, v6)
  BY InRootStands
<1>5. Stands("terraform", none, v7) /\ Stands("terraform", none, v8)
  BY TerraformRemarksStand
<1> HIDE DEF v1, v2, v3, v4, v5, v6, v7, v8, r, short, need
<1>6. /\ Stands("terraform", need, v1) /\ Stands("terraform", need, v2) /\ Stands("terraform", need, v4)
      /\ Stands("terraform", need, v5) /\ Stands("terraform", need, v6) /\ Stands("terraform", need, v7)
      /\ Stands("terraform", need, v8)
  BY <1>2, <1>4, <1>5, StandsOn
<1>7. r \in {v1, v2, v3, v4, v5, v6, v7, v8}
  BY <1>1
<1>8. Stands("terraform", need, r)
  BY <1>3, <1>6, <1>7
<1> QED BY <1>8 DEF r, need
=============================================================================
