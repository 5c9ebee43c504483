----------------------------- MODULE FoldLemmas -----------------------------
(***************************************************************************)
(* Facts about the operators the models are built from: the folds, what is *)
(* selected of a sequence, and finite sets. A fold is defined by recursion *)
(* over its data, so each lemma about one is proved from the least number, *)
(* or the smallest set, at which it would fail.                            *)
(* At the end, of ImageRef: what the parts of an image reference make, put *)
(* together again.                                                         *)
(***************************************************************************)
EXTENDS Integers, Sequences, FiniteSets, SequencesExt, SequenceTheorems, FiniteSetTheorems, WellFoundedInduction, TLAPS

(* Numbers are ordered as a well-founded relation. *)
Below == OpToRel(<, Nat)
(* A smaller number is below a larger one. *)
LEMMA BelowIs == \A m, n \in Nat : m < n => <<m, n>> \in Below
BY DEF OpToRel, Below

(* A set of numbers that is not empty has a least one. *)
LEMMA LeastNumber ==
    ASSUME NEW S, S \subseteq Nat, S # {}
    PROVE  \E n \in S : \A m \in S : n <= m
<1>1. PICK n \in S : \A m \in S : <<m, n>> \notin Below
  BY NatLessThanWellFounded, WFMin DEF Below
<1>2. \A m \in S : ~(m < n)
  BY <1>1, BelowIs
<1> HIDE <1>1
<1> QED BY <1>2

(* A set that has zero, and with a number the next one, has them all. *)
LEMMA CountingUp ==
    ASSUME NEW S, 0 \in S, \A n \in Nat : n \in S => n + 1 \in S
    PROVE  Nat \subseteq S
<1> SUFFICES ASSUME Nat \ S # {} PROVE FALSE
  OBVIOUS
<1>1. PICK n \in Nat \ S : \A m \in Nat \ S : n <= m
  BY LeastNumber
<1>2. n - 1 \in Nat
  OBVIOUS
<1>3. n - 1 \in S
  BY <1>1, <1>2
<1> QED BY <1>2, <1>3

(* A fold over a sequence, prefix by prefix. *)
Steps(op(_,_), base, seq, up) ==
    up = [n \in 0..Len(seq) |-> IF n = 0 THEN base ELSE op(up[n - 1], seq[n])]
IsFold(op(_,_), base, seq, r) == \E up : Steps(op, base, seq, up) /\ r = up[Len(seq)]

(* The largest of the first n numbers is n. *)
LEMMA MaxOfPrefix == ASSUME NEW n \in Nat \ {0} PROVE Max(1..n) = n
<1>1. n \in 1..n /\ \A y \in 1..n : n >= y
  OBVIOUS
<1>2. \A x \in 1..n : (\A y \in 1..n : x >= y) => x = n
  OBVIOUS
<1> QED BY <1>1, <1>2 DEF Max

(* The largest of a bounded set of numbers is in it. *)
LEMMA MaxInSet == ASSUME NEW N \in Nat, NEW s \in SUBSET (1..N), s # {} PROVE Max(s) \in s
<1> DEFINE C == {c \in Nat : \A y \in s : c >= y}
<1>1. N \in C
  OBVIOUS
<1>2. PICK c \in C : \A d \in C : c <= d
  BY <1>1, LeastNumber
<1>3. c \in s
  <2> SUFFICES ASSUME c \notin s PROVE FALSE
    OBVIOUS
  <2>1. \A y \in s : c > y /\ c - 1 >= y
    BY <1>2
  <2>2. PICK y \in s : y \in 1..N
    OBVIOUS
  <2>3. c - 1 \in Nat
    BY <2>1, <2>2
  <2> QED BY <1>2, <2>1, <2>3
<1>4. \E x \in s : \A y \in s : x >= y
  BY <1>2, <1>3
<1> QED BY <1>4 DEF Max

(* FoldLeft over a sequence is the last of the folds over its prefixes. *)
LEMMA FoldLeftSteps ==
    ASSUME NEW op(_,_), NEW base, NEW seq, Len(seq) \in Nat, DOMAIN seq = 1..Len(seq)
    PROVE  IsFold(op, base, seq, FoldLeft(op, base, seq))
<1> DEFINE N == Len(seq)
           D == SUBSET (1..N)
           Def(g, s) == IF s = {} THEN base ELSE op(g[s \ {Max(s)}], seq[Max(s)])
           iter == CHOOSE g : g = [s \in D |-> Def(g, s)]
           R == StrictSubsetOrdering(1..N)
<1>1. FoldLeft(op, base, seq) = iter[1..N]
  BY DEF FoldLeft, MapThenFoldSet
<1>2. IsWellFoundedOn(R, D)
  <2>1. IsFiniteSet(1..N)
    BY FS_Interval
  <2>2. FiniteSubsetsOf(1..N) = D
    BY <2>1, FS_FiniteSubsetsOfFinite
  <2>3. IsWellFoundedOn(R, FiniteSubsetsOf(1..N))
    BY FS_StrictSubsetOrderingWellFounded
  <2> QED BY <2>2, <2>3
<1>3. WFDefOn(R, D, Def)
  <2> SUFFICES ASSUME NEW g, NEW h, NEW s \in D, \A t \in SetLessThan(s, R, D) : g[t] = h[t]
               PROVE  Def(g, s) = Def(h, s)
    BY DEF WFDefOn
  <2>1. CASE s = {}
    BY <2>1
  <2>2. CASE s # {}
    <3>1. s \ {Max(s)} \in SetLessThan(s, R, D)
      BY <2>2, MaxInSet DEF SetLessThan, StrictSubsetOrdering
    <3> QED BY <3>1
  <2> QED BY <2>1, <2>2
<1>4. OpDefinesFcn(iter, D, Def)
  BY DEF OpDefinesFcn
<1>5. WFInductiveDefines(iter, D, Def)
  <2> HIDE DEF Def, iter, R, D
  <2> QED BY <1>2, <1>3, <1>4, WFInductiveDef
<1>6. iter = [s \in D |-> Def(iter, s)]
  BY <1>5 DEF WFInductiveDefines
<1> DEFINE up == [n \in 0..N |-> iter[1..n]]
<1>7. Steps(op, base, seq, up)
  <2> HIDE DEF iter
  <2> SUFFICES ASSUME NEW n \in 0..N
               PROVE  iter[1..n] = IF n = 0 THEN base ELSE op(up[n - 1], seq[n])
    BY DEF Steps
  <2>1. CASE n = 0
    <3>1. 1..n = {} /\ {} \in D
      BY <2>1
    <3> QED BY <1>6, <2>1, <3>1
  <2>2. CASE n # 0
    <3>1. 1..n \in D /\ 1..n # {} /\ Max(1..n) = n /\ (1..n) \ {n} = 1..(n - 1)
      <4>1. n \in Nat \ {0} /\ n \in 1..n /\ 1..n \subseteq 1..N
        BY <2>2
      <4>2. (1..n) \ {n} = 1..(n - 1)
        BY <4>1
      <4> QED BY <4>1, <4>2, MaxOfPrefix
    <3>2. up[n - 1] = iter[1..(n - 1)]
      BY <2>2
    <3>3. iter[1..n] = op(iter[1..(n - 1)], seq[n])
      BY <1>6, <3>1
    <3> QED BY <2>2, <3>2, <3>3
  <2> QED BY <2>1, <2>2
<1> QED BY <1>1, <1>7 DEF IsFold

Keeps(op(_,_), S, seq) == \A x \in S, n \in 1..Len(seq) : op(x, seq[n]) \in S

(* What starts in a set, and is kept in it by every step, ends in it. *)
LEMMA FoldStays ==
    ASSUME NEW op(_,_), NEW base, NEW seq, NEW r, NEW S, Len(seq) \in Nat,
           IsFold(op, base, seq, r), base \in S, Keeps(op, S, seq)
    PROVE  r \in S
<1>1. PICK up : Steps(op, base, seq, up) /\ r = up[Len(seq)]
  BY DEF IsFold
<1>2. \A n \in 0..Len(seq) : up[n] = IF n = 0 THEN base ELSE op(up[n - 1], seq[n])
  BY <1>1 DEF Steps
<1> DEFINE T == {n \in Nat : n <= Len(seq) => up[n] \in S}
<1>3. 0 \in T
  BY <1>2
<1>4. ASSUME NEW n \in Nat, n \in T PROVE n + 1 \in T
  <2> SUFFICES ASSUME n + 1 <= Len(seq) PROVE up[n + 1] \in S
    OBVIOUS
  <2>1. n + 1 \in 1..Len(seq) /\ n + 1 \in 0..Len(seq) /\ n + 1 # 0 /\ (n + 1) - 1 = n
    OBVIOUS
  <2>2. up[n] \in S
    BY <1>4
  <2>3. up[n + 1] = op(up[n], seq[n + 1])
    BY <1>2, <2>1
  <2> QED BY <2>1, <2>2, <2>3 DEF Keeps
<1>5. Nat \subseteq T
  <2> HIDE DEF T
  <2> QED BY <1>3, <1>4, CountingUp
<1> QED BY <1>1, <1>5

FlattenUp(seqs, up) == up = [n \in 1..Len(seqs) |-> IF n = 1 THEN seqs[n] ELSE up[n - 1] \o seqs[n]]
(* FlattenSeq puts one sequence behind the other. *)
LEMMA FlattenSteps ==
    ASSUME NEW seqs, Len(seqs) \in Nat \ {0}
    PROVE  \E up : FlattenUp(seqs, up) /\ FlattenSeq(seqs) = up[Len(seqs)]
<1> DEFINE N == Len(seqs)
           g == CHOOSE g : g = [n \in 1..N |-> IF n = 1 THEN seqs[1] ELSE g[n - 1] \o seqs[n]]
           up == CHOOSE up : up = [n \in 1..N |-> IF n = 1 THEN seqs[n] ELSE up[n - 1] \o seqs[n]]
<1>1. FiniteNatInductiveDefHypothesis(g, seqs[1], LAMBDA v, n : v \o seqs[n], 1, N)
  BY DEF FiniteNatInductiveDefHypothesis
<1>2. FiniteNatInductiveDefConclusion(g, seqs[1], LAMBDA v, n : v \o seqs[n], 1, N)
  BY <1>1, FiniteNatInductiveDef
<1>3. g = [n \in 1..N |-> IF n = 1 THEN seqs[1] ELSE g[n - 1] \o seqs[n]]
  BY <1>2 DEF FiniteNatInductiveDefConclusion
<1> HIDE DEF g
<1>4. g = [n \in 1..N |-> IF n = 1 THEN seqs[n] ELSE g[n - 1] \o seqs[n]]
  BY <1>3
<1>5. up = [n \in 1..N |-> IF n = 1 THEN seqs[n] ELSE up[n - 1] \o seqs[n]]
  BY <1>4
<1>6. FlattenSeq(seqs) = up[N]
  BY DEF FlattenSeq
<1> QED BY <1>5, <1>6 DEF FlattenUp

(* A flattened sequence has the elements of the sequences it was made of. *)
LEMMA FlattenElements ==
    ASSUME NEW S, NEW seqs \in Seq(Seq(S))
    PROVE  /\ FlattenSeq(seqs) \in Seq(S)
           /\ Range(FlattenSeq(seqs)) = UNION {Range(seqs[m]) : m \in DOMAIN seqs}
<1>0. Len(seqs) \in Nat /\ DOMAIN seqs = 1..Len(seqs) /\ \A m \in 1..Len(seqs) : seqs[m] \in Seq(S)
  OBVIOUS
<1>1. CASE Len(seqs) = 0
  BY <1>1 DEF FlattenSeq, Range
<1>2. CASE Len(seqs) # 0
  <2> DEFINE Upto(n) == UNION {Range(seqs[m]) : m \in 1..n}
  <2>1. PICK up : FlattenUp(seqs, up) /\ FlattenSeq(seqs) = up[Len(seqs)]
    BY <1>0, <1>2, FlattenSteps
  <2>2. \A n \in 1..Len(seqs) : up[n] = IF n = 1 THEN seqs[n] ELSE up[n - 1] \o seqs[n]
    BY <2>1 DEF FlattenUp
  <2> DEFINE Good(n) == up[n] \in Seq(S) /\ Range(up[n]) = Upto(n)
             T == {n \in Nat : n \in 1..Len(seqs) => Good(n)}
  <2>3. 0 \in T
    OBVIOUS
  <2>4. ASSUME NEW n \in Nat, n \in T PROVE n + 1 \in T
    <3>0. SUFFICES ASSUME n + 1 \in 1..Len(seqs) PROVE Good(n + 1)
      <4> HIDE DEF Good
      <4> QED OBVIOUS
    <3>1. seqs[n + 1] \in Seq(S)
      BY <1>0, <3>0
    <3>2. CASE n = 0
      <4>1. up[n + 1] = seqs[n + 1]
        BY <2>2, <3>0, <3>2
      <4>2. 1..(n + 1) = {n + 1}
        BY <3>2
      <4>3. Upto(n + 1) = Range(seqs[n + 1])
        BY <4>2
      <4> QED BY <3>1, <4>1, <4>3
    <3>3. CASE n # 0
      <4>1. n \in 1..Len(seqs) /\ (n + 1) - 1 = n /\ n + 1 # 1
        BY <1>0, <3>0, <3>3
      <4>2. Good(n)
        BY <2>4, <4>1
      <4>3. up[n + 1] = up[n] \o seqs[n + 1]
        BY <2>2, <3>0, <4>1
      <4>4. up[n + 1] \in Seq(S)
        BY <3>1, <4>2, <4>3
      <4>5. Range(up[n + 1]) = Range(up[n]) \cup Range(seqs[n + 1])
        BY <3>1, <4>2, <4>3, RangeConcatenation
      <4>6. Upto(n + 1) = Upto(n) \cup Range(seqs[n + 1])
        <5>1. 1..(n + 1) = (1..n) \cup {n + 1}
          OBVIOUS
        <5> QED BY <5>1
      <4> QED BY <4>2, <4>4, <4>5, <4>6
    <3> QED BY <3>2, <3>3
  <2>5. Len(seqs) \in T
    <3>1. Nat \subseteq T
      <4> HIDE DEF T
      <4> QED BY <2>3, <2>4, CountingUp
    <3> HIDE DEF T
    <3> QED BY <1>0, <3>1
  <2>6. Good(Len(seqs))
    <3> HIDE DEF Good
    <3> QED BY <1>0, <1>2, <2>5
  <2> QED BY <1>0, <2>1, <2>6
<1> QED BY <1>1, <1>2

SetSteps(op(_,_), base, S, up) ==
    up = [T \in SUBSET S |-> IF T = {} THEN base
                             ELSE op(CHOOSE x \in T : TRUE, up[T \ {CHOOSE x \in T : TRUE}])]
IsSetFold(op(_,_), base, S, r) == \E up : SetSteps(op, base, S, up) /\ r = up[S]
(* FoldSet over a finite set is the last of the folds over its parts. *)
LEMMA FoldSetSteps ==
    ASSUME NEW op(_,_), NEW base, NEW S, IsFiniteSet(S)
    PROVE  IsSetFold(op, base, S, FoldSet(op, base, S))
<1> DEFINE D == SUBSET S
           One(T) == CHOOSE x \in T : TRUE
           Def(g, T) == IF T = {} THEN base ELSE op(One(T), g[T \ {One(T)}])
           up == CHOOSE g : g = [T \in D |-> Def(g, T)]
           R == StrictSubsetOrdering(S)
<1>1. FoldSet(op, base, S) = up[S]
  BY DEF FoldSet, MapThenFoldSet
<1>2. IsWellFoundedOn(R, D)
  <2>1. FiniteSubsetsOf(S) = D
    BY FS_FiniteSubsetsOfFinite
  <2>2. IsWellFoundedOn(R, FiniteSubsetsOf(S))
    BY FS_StrictSubsetOrderingWellFounded
  <2> QED BY <2>1, <2>2
<1>3. WFDefOn(R, D, Def)
  <2> SUFFICES ASSUME NEW g, NEW h, NEW T \in D, \A U \in SetLessThan(T, R, D) : g[U] = h[U]
               PROVE  Def(g, T) = Def(h, T)
    BY DEF WFDefOn
  <2>1. CASE T = {}
    BY <2>1
  <2>2. CASE T # {}
    <3>1. T \ {One(T)} \in SetLessThan(T, R, D)
      BY <2>2 DEF SetLessThan, StrictSubsetOrdering
    <3> QED BY <3>1
  <2> QED BY <2>1, <2>2
<1>4. OpDefinesFcn(up, D, Def)
  BY DEF OpDefinesFcn
<1>5. WFInductiveDefines(up, D, Def)
  <2> HIDE DEF Def, up, R, D
  <2> QED BY <1>2, <1>3, <1>4, WFInductiveDef
<1>6. SetSteps(op, base, S, up)
  BY <1>5 DEF WFInductiveDefines, SetSteps
<1> QED BY <1>1, <1>6 DEF IsSetFold

KeptBy(op(_,_), S, E) == \A x \in S, e \in E : op(x, e) \in S
(* The same of FoldLeft: an invariant of the step is one of the fold. *)
LEMMA FoldLeftStays ==
    ASSUME NEW op(_,_), NEW base, NEW E, NEW seq \in Seq(E), NEW S, base \in S, KeptBy(op, S, E)
    PROVE  FoldLeft(op, base, seq) \in S
<1>1. Len(seq) \in Nat /\ DOMAIN seq = 1..Len(seq) /\ \A n \in 1..Len(seq) : seq[n] \in E
  OBVIOUS
<1>2. Keeps(op, S, seq)
  BY <1>1 DEF Keeps, KeptBy
<1>3. IsFold(op, base, seq, FoldLeft(op, base, seq))
  BY <1>1, FoldLeftSteps
<1> QED BY <1>1, <1>2, <1>3, FoldStays

Meets(Good(_), r) == Good(r)
KeepsGood(op(_,_), Good(_), seq) == \A x : \A n \in 1..Len(seq) : Good(x) => Good(op(x, seq[n]))
(* The same where what is kept is no set. *)
LEMMA FoldLeftMeets ==
    ASSUME NEW op(_,_), NEW base, NEW seq, Len(seq) \in Nat, DOMAIN seq = 1..Len(seq),
           NEW Good(_), Meets(Good, base), KeepsGood(op, Good, seq)
    PROVE  Meets(Good, FoldLeft(op, base, seq))
<1>1. IsFold(op, base, seq, FoldLeft(op, base, seq))
  BY FoldLeftSteps
<1>2. PICK up : Steps(op, base, seq, up) /\ FoldLeft(op, base, seq) = up[Len(seq)]
  BY <1>1 DEF IsFold
<1>3. \A n \in 0..Len(seq) : up[n] = IF n = 0 THEN base ELSE op(up[n - 1], seq[n])
  BY <1>2 DEF Steps
<1> DEFINE T == {n \in Nat : n <= Len(seq) => Good(up[n])}
<1>4. 0 \in T
  BY <1>3 DEF Meets
<1>5. ASSUME NEW n \in Nat, n \in T PROVE n + 1 \in T
  <2> SUFFICES ASSUME n + 1 <= Len(seq) PROVE Good(up[n + 1])
    OBVIOUS
  <2>1. n + 1 \in 1..Len(seq) /\ n + 1 \in 0..Len(seq) /\ n + 1 # 0 /\ (n + 1) - 1 = n
    OBVIOUS
  <2>2. Good(up[n])
    BY <1>5
  <2>3. up[n + 1] = op(up[n], seq[n + 1])
    BY <1>3, <2>1
  <2> QED BY <2>1, <2>2, <2>3 DEF KeepsGood
<1>6. Nat \subseteq T
  <2> HIDE DEF T
  <2> QED BY <1>4, <1>5, CountingUp
<1> QED BY <1>2, <1>6 DEF Meets

(* SelectInSeq is a place in the sequence, or zero. *)
LEMMA SelectedIsPlace ==
    ASSUME NEW Test(_), NEW seq, Len(seq) \in Nat
    PROVE  SelectInSeq(seq, Test) \in 0..Len(seq)
<1> DEFINE I == {i \in 1..Len(seq) : Test(seq[i])}
<1>1. CASE I = {}
  BY <1>1 DEF SelectInSeq
<1>2. CASE I # {}
  <2>0. I \subseteq Nat /\ I \subseteq 0..Len(seq)
    OBVIOUS
  <2>1. PICK n \in I : \A m \in I : n <= m
    <3> HIDE DEF I
    <3> QED BY <1>2, <2>0, LeastNumber
  <2>2. Min(I) \in I
    <3> HIDE DEF I
    <3> QED BY <2>1 DEF Min
  <2>3. SelectInSeq(seq, Test) = Min(I)
    BY <1>2 DEF SelectInSeq
  <2> HIDE DEF I
  <2> QED BY <2>0, <2>2, <2>3
<1> QED BY <1>1, <1>2

(* SelectLastInSeq is a place in the sequence, or zero. *)
LEMMA LastSelectedIsPlace ==
    ASSUME NEW Test(_), NEW seq, Len(seq) \in Nat
    PROVE  SelectLastInSeq(seq, Test) \in 0..Len(seq)
<1> DEFINE I == {i \in 1..Len(seq) : Test(seq[i])}
<1>1. CASE I = {}
  BY <1>1 DEF SelectLastInSeq
<1>2. CASE I # {}
  <2>1. SelectLastInSeq(seq, Test) = Max(I)
    BY <1>2 DEF SelectLastInSeq
  <2>2. I \in SUBSET (1..Len(seq)) /\ I \subseteq 0..Len(seq)
    OBVIOUS
  <2> HIDE DEF I
  <2>3. Max(I) \in I
    BY <1>2, <2>2, MaxInSet
  <2> QED BY <2>1, <2>2, <2>3
<1> QED BY <1>1, <1>2

Holds(Good(_,_), T, r) == Good(T, r)
Grows(op(_,_), S, Good(_,_)) == \A T \in SUBSET S, x \in S : \A r :
  x \notin T /\ Good(T, r) => Good(T \cup {x}, op(x, r))
(* A relation between a part of a finite set and the fold over it, kept    *)
(* when one element is added, holds of the whole set.                      *)
LEMMA FoldSetGrows ==
    ASSUME NEW op(_,_), NEW base, NEW S, IsFiniteSet(S), NEW Good(_,_), Holds(Good, {}, base), Grows(op, S, Good)
    PROVE  Holds(Good, S, FoldSet(op, base, S))
<1>1. PICK up : SetSteps(op, base, S, up) /\ FoldSet(op, base, S) = up[S]
  BY FoldSetSteps DEF IsSetFold
<1>2. \A T \in SUBSET S : up[T] = IF T = {} THEN base
                                  ELSE op(CHOOSE x \in T : TRUE, up[T \ {CHOOSE x \in T : TRUE}])
  BY <1>1 DEF SetSteps
<1> DEFINE N == {n \in Nat : \A T \in SUBSET S : Cardinality(T) = n => Good(T, up[T])}
<1>3. 0 \in N
  <2> SUFFICES ASSUME NEW T \in SUBSET S, Cardinality(T) = 0 PROVE Good(T, up[T])
    OBVIOUS
  <2>1. T = {}
    BY FS_Subset, FS_EmptySet
  <2>2. up[T] = base
    BY <1>2, <2>1
  <2> QED BY <2>1, <2>2 DEF Holds
<1>4. ASSUME NEW n \in Nat, n \in N PROVE n + 1 \in N
  <2> SUFFICES ASSUME NEW T \in SUBSET S, Cardinality(T) = n + 1 PROVE Good(T, up[T])
    OBVIOUS
  <2> DEFINE x == CHOOSE x \in T : TRUE
             U == T \ {x}
  <2>1. IsFiniteSet(T)
    BY FS_Subset
  <2>2. T # {}
    <3>1. Cardinality(T) # 0
      OBVIOUS
    <3> QED BY <3>1, FS_EmptySet
  <2>3. x \in T
    BY <2>2
  <2>4. Cardinality(U) = (n + 1) - 1
    <3> HIDE DEF x
    <3> QED BY <2>1, <2>3, FS_RemoveElement
  <2>5. up[T] = op(x, up[U])
    BY <1>2, <2>2
  <2> HIDE DEF x
  <2>6. U \in SUBSET S /\ x \in S /\ x \notin U /\ U \cup {x} = T
    BY <2>3
  <2>7. Cardinality(U) = n
    BY <2>4
  <2>8. Good(U, up[U])
    BY <1>4, <2>6, <2>7
  <2> HIDE DEF U
  <2>9. Good(U \cup {x}, op(x, up[U]))
    BY <2>6, <2>8 DEF Grows
  <2> QED BY <2>5, <2>6, <2>9
<1>5. Nat \subseteq N
  <2> HIDE DEF N
  <2> QED BY <1>3, <1>4, CountingUp
<1>6. Cardinality(S) \in Nat
  BY FS_CardinalityType
<1>7. Good(S, up[S])
  BY <1>5, <1>6
<1> QED BY <1>1, <1>7 DEF Holds

(* A function on a finite set has finitely many values. *)
LEMMA FiniteRange ==
    ASSUME NEW f, IsFiniteSet(DOMAIN f)
    PROVE  IsFiniteSet({f[x] : x \in DOMAIN f})
<1> DEFINE g == [x \in DOMAIN f |-> f[x]]
           T == {f[x] : x \in DOMAIN f}
<1>1. g \in Surjection(DOMAIN f, T)
  BY DEF Surjection
<1> QED BY <1>1, FS_Surjection

(* A sequence has finitely many places, and finitely many elements. *)
LEMMA FiniteElements ==
    ASSUME NEW S, NEW seq \in Seq(S)
    PROVE  IsFiniteSet(DOMAIN seq) /\ IsFiniteSet(ToSet(seq))
<1>1. IsFiniteSet(DOMAIN seq)
  <2>1. DOMAIN seq = 1..Len(seq) /\ Len(seq) \in Nat
    OBVIOUS
  <2>2. IsFiniteSet(1..Len(seq))
    BY <2>1, FS_Interval
  <2> QED BY <2>1, <2>2
<1> QED BY <1>1, FiniteRange DEF ToSet

(* The values of a function on a finite set, each finite, have a finite union. *)
LEMMA FiniteUnion ==
    ASSUME NEW f, IsFiniteSet(DOMAIN f), \A x \in DOMAIN f : IsFiniteSet(f[x])
    PROVE  IsFiniteSet(UNION {f[x] : x \in DOMAIN f})
BY FiniteRange, FS_UNION

(* A function on 1..n is a sequence. *)
LEMMA FunctionIsSeq == ASSUME NEW S, NEW n \in Nat, NEW f \in [1..n -> S] PROVE f \in Seq(S)
OBVIOUS
----------------------------------------------------------------------------
(***************************************************************************)
(* Image references.  The parts a reference is cut into, with what stood   *)
(* between them, are the reference.                                        *)
(***************************************************************************)
Reference == INSTANCE ImageRef

(* Where a character stands first, if it stands anywhere.                  *)
LEMMA FirstIs ==
    ASSUME NEW text, Len(text) \in Nat, NEW c, NEW n, n = Reference!FirstAt(text, c)
    PROVE  \/ n = 0 /\ \A i \in 1..Len(text) : text[i] # c
           \/ n \in 1..Len(text) /\ text[n] = c /\ \A i \in 1..(n - 1) : text[i] # c
<1> DEFINE I == {i \in 1..Len(text) : text[i] = c}
<1>1. n = IF I # {} THEN Min(I) ELSE 0
  BY DEF Reference!FirstAt, Reference!SelectInSeq, Reference!Min, Min
<1>2. CASE I = {}
  BY <1>1, <1>2
<1>3. CASE I # {}
  <2>1. PICK k \in I : \A m \in I : k <= m
    <3>1. I \subseteq Nat
      OBVIOUS
    <3> HIDE DEF I
    <3> QED BY <1>3, <3>1, LeastNumber
  <2>2. n = k
    <3>1. n = CHOOSE x \in I : \A m \in I : x <= m
      BY <1>1, <1>3 DEF Min
    <3>2. n \in I /\ \A m \in I : n <= m
      BY <2>1, <3>1
    <3> QED BY <2>1, <3>2
  <2>3. ASSUME NEW i \in 1..(n - 1) PROVE text[i] # c
    <3>1. i \in 1..Len(text) /\ i < n
      BY <2>1, <2>2
    <3> QED BY <2>1, <2>2, <3>1
  <2> QED BY <2>1, <2>2, <2>3
<1> QED BY <1>2, <1>3

(* Where it stands last.                                                   *)
LEMMA LastIs ==
    ASSUME NEW text, Len(text) \in Nat, NEW c, NEW n, n = Reference!LastAt(text, c)
    PROVE  \/ n = 0 /\ \A i \in 1..Len(text) : text[i] # c
           \/ n \in 1..Len(text) /\ text[n] = c /\ \A i \in (n + 1)..Len(text) : text[i] # c
<1> DEFINE I == {i \in 1..Len(text) : text[i] = c}
<1>1. n = IF I # {} THEN Max(I) ELSE 0
  BY DEF Reference!LastAt, Reference!SelectLastInSeq, Reference!Max, Max
<1>2. CASE I = {}
  BY <1>1, <1>2
<1>3. CASE I # {}
  <2> DEFINE J == {k \in Nat : \A i \in I : i <= k}
  <2>1. PICK k \in J : \A m \in J : k <= m
    <3>1. Len(text) \in J
      OBVIOUS
    <3>2. J \subseteq Nat /\ J # {}
      BY <3>1
    <3> HIDE DEF J
    <3> QED BY <3>2, LeastNumber
  <2>2. k \in I
    <3> SUFFICES ASSUME k \notin I PROVE FALSE
      OBVIOUS
    <3>1. k # 0
      BY <1>3
    <3>2. k - 1 \in J
      BY <3>1
    <3> QED BY <2>1, <3>1, <3>2
  <2>3. n = k
    <3>1. n = CHOOSE x \in I : \A m \in I : x >= m
      BY <1>1, <1>3 DEF Max
    <3>2. k \in I /\ \A m \in I : k >= m
      BY <2>2
    <3>3. n \in I /\ \A m \in I : n >= m
      BY <3>1, <3>2
    <3> QED BY <3>2, <3>3
  <2>4. ASSUME NEW i \in (n + 1)..Len(text) PROVE text[i] # c
    BY <2>2, <2>3
  <2> QED BY <2>2, <2>3, <2>4
<1> QED BY <1>2, <1>3

(* What stands before a separator and what stands behind it.               *)
LEMMA CutAt ==
    ASSUME NEW S, NEW text \in Seq(S), NEW n \in 1..Len(text)
    PROVE  /\ Reference!Before(text, n) \in Seq(S) /\ Len(Reference!Before(text, n)) = n - 1
           /\ Reference!After(text, n) \in Seq(S) /\ Len(Reference!After(text, n)) = Len(text) - n
           /\ \A i \in 1..(n - 1) : Reference!Before(text, n)[i] = text[i]
           /\ \A i \in 1..(Len(text) - n) : Reference!After(text, n)[i] = text[n + i]
           /\ text = Reference!Before(text, n) \o <<text[n]>> \o Reference!After(text, n)
<1>1. Reference!Before(text, n) = SubSeq(text, 1, n - 1) /\ Reference!After(text, n) = SubSeq(text, n + 1, Len(text))
  BY DEF Reference!Before, Reference!After
<1> DEFINE b == SubSeq(text, 1, n - 1)
           a == SubSeq(text, n + 1, Len(text))
<1>2. b \in Seq(S) /\ Len(b) = n - 1 /\ \A i \in 1..(n - 1) : b[i] = text[i]
  OBVIOUS
<1>3. a \in Seq(S) /\ Len(a) = Len(text) - n /\ \A i \in 1..(Len(text) - n) : a[i] = text[n + i]
  OBVIOUS
<1>4. text = b \o <<text[n]>> \o a
  <2> DEFINE m == <<text[n]>>
             r == b \o m
             s == r \o a
  <2>1. text[n] \in S
    OBVIOUS
  <2>2. m \in Seq(S) /\ Len(m) = 1 /\ m[1] = text[n]
    BY <2>1
  <2> HIDE DEF a, b, m
  <2>3. r \in Seq(S) /\ Len(r) = n /\ \A i \in 1..n : r[i] = text[i]
    <3>1. r \in Seq(S) /\ Len(r) = Len(b) + Len(m)
      BY <1>2, <2>2, ConcatProperties
    <3>2. \A i \in 1..(Len(b) + Len(m)) : r[i] = IF i <= Len(b) THEN b[i] ELSE m[i - Len(b)]
      BY <1>2, <2>2, ConcatProperties
    <3> HIDE DEF r
    <3> QED BY <1>2, <2>2, <3>1, <3>2
  <2> HIDE DEF r
  <2>4. s \in Seq(S) /\ Len(s) = Len(text) /\ \A i \in 1..Len(text) : s[i] = text[i]
    <3>1. s \in Seq(S) /\ Len(s) = Len(r) + Len(a)
      BY <1>3, <2>3, ConcatProperties
    <3>2. \A i \in 1..(Len(r) + Len(a)) : s[i] = IF i <= Len(r) THEN r[i] ELSE a[i - Len(r)]
      BY <1>3, <2>3, ConcatProperties
    <3> HIDE DEF s
    <3>3. Len(r) + Len(a) = Len(text) /\ Len(r) = n /\ Len(text) \in Nat
      BY <1>3, <2>3
    <3>4. ASSUME NEW i \in 1..Len(text) PROVE s[i] = text[i]
      <4>1. CASE i <= n
        BY <2>3, <3>2, <3>3, <4>1
      <4>2. CASE i > n
        <5>1. i - n \in 1..(Len(text) - n) /\ n + (i - n) = i
          BY <4>2
        <5>2. a[i - n] = text[n + (i - n)]
          BY <1>3, <5>1
        <5>3. s[i] = a[i - n]
          BY <3>2, <3>3, <4>2
        <5> QED BY <5>1, <5>2, <5>3
      <4> QED BY <4>1, <4>2
    <3> QED BY <3>1, <3>3, <3>4
  <2> HIDE DEF s
  <2>5. s = text
    BY <2>4, SeqEqual
  <2> QED BY <2>5 DEF s, r, m
<1> QED BY <1>1, <1>2, <1>3, <1>4

(* Concatenation as an operator of its own, by its laws alone.             *)
Glue(s, t) == s \o t
(* It stays within the sequences over a set, and associates.               *)
LEMMA GlueIs ==
    ASSUME NEW S
    PROVE  /\ \A s, t \in Seq(S) : Glue(s, t) \in Seq(S)
           /\ \A s, t, z \in Seq(S) : Glue(Glue(s, t), z) = Glue(s, Glue(t, z))
<1>1. ASSUME NEW s \in Seq(S), NEW t \in Seq(S) PROVE Glue(s, t) \in Seq(S)
  BY ConcatProperties DEF Glue
<1>2. ASSUME NEW s \in Seq(S), NEW t \in Seq(S), NEW z \in Seq(S) PROVE Glue(Glue(s, t), z) = Glue(s, Glue(t, z))
  BY ConcatAssociative DEF Glue
<1> QED BY <1>1, <1>2

(* split_once and rsplit_once: the text, or what stands on either side of  *)
(* the first, the last separator.                                          *)
LEMMA SplitsFirst ==
    ASSUME NEW S, NEW text \in Seq(S), NEW c
    PROVE  \/ Reference!SplitFirst(text, c) = <<text, <<>>>> /\ \A i \in 1..Len(text) : text[i] # c
           \/ \E b, a \in Seq(S) : /\ Reference!SplitFirst(text, c) = <<b, <<a>>>>
                                   /\ text = Glue(Glue(b, <<c>>), a) /\ c \in S
                                   /\ \A i \in 1..Len(b) : b[i] # c
<1> DEFINE n == Reference!FirstAt(text, c)
           b == Reference!Before(text, n)
           a == Reference!After(text, n)
<1>1. Reference!SplitFirst(text, c) = IF n = 0 THEN <<text, <<>>>> ELSE <<b, <<a>>>>
  BY DEF Reference!SplitFirst, Reference!None, Reference!Some
<1>2. \/ n = 0 /\ \A i \in 1..Len(text) : text[i] # c
      \/ n \in 1..Len(text) /\ text[n] = c /\ \A i \in 1..(n - 1) : text[i] # c
  BY FirstIs
<1> HIDE DEF n
<1>3. CASE n = 0
  BY <1>1, <1>2, <1>3
<1>4. CASE n \in 1..Len(text) /\ text[n] = c /\ \A i \in 1..(n - 1) : text[i] # c
  <2>1. /\ b \in Seq(S) /\ Len(b) = n - 1 /\ a \in Seq(S)
        /\ \A i \in 1..(n - 1) : b[i] = text[i]
        /\ text = b \o <<c>> \o a
    <3> HIDE DEF a, b
    <3>1. n \in 1..Len(text)
      BY <1>4
    <3>2. /\ b \in Seq(S) /\ Len(b) = n - 1 /\ a \in Seq(S) /\ Len(a) = Len(text) - n
          /\ \A i \in 1..(n - 1) : b[i] = text[i]
          /\ \A i \in 1..(Len(text) - n) : a[i] = text[n + i]
          /\ text = b \o <<text[n]>> \o a
      BY <3>1, CutAt DEF a, b
    <3>3. text[n] = c
      BY <1>4
    <3> QED BY ONLY <3>2, <3>3
  <2>2. c \in S /\ n # 0
    BY <1>4
  <2> HIDE DEF a, b
  <2>3. \A i \in 1..Len(b) : b[i] # c
    BY <1>4, <2>1
  <2>4. text = Glue(Glue(b, <<c>>), a)
    BY ONLY <2>1 DEF Glue
  <2>5. b \in Seq(S) /\ a \in Seq(S)
    BY ONLY <2>1
  <2> QED BY ONLY <1>1, <2>2, <2>3, <2>4, <2>5
<1> QED BY <1>2, <1>3, <1>4

LEMMA SplitsLast ==
    ASSUME NEW S, NEW text \in Seq(S), NEW c
    PROVE  \/ Reference!SplitLast(text, c) = <<<<>>, text>> /\ \A i \in 1..Len(text) : text[i] # c
           \/ \E b, a \in Seq(S) : /\ Reference!SplitLast(text, c) = <<<<b>>, a>>
                                   /\ text = Glue(Glue(b, <<c>>), a) /\ c \in S
                                   /\ \A i \in 1..Len(a) : a[i] # c
<1> DEFINE n == Reference!LastAt(text, c)
           b == Reference!Before(text, n)
           a == Reference!After(text, n)
<1>1. Reference!SplitLast(text, c) = IF n = 0 THEN <<<<>>, text>> ELSE <<<<b>>, a>>
  BY DEF Reference!SplitLast, Reference!None, Reference!Some
<1>2. \/ n = 0 /\ \A i \in 1..Len(text) : text[i] # c
      \/ n \in 1..Len(text) /\ text[n] = c /\ \A i \in (n + 1)..Len(text) : text[i] # c
  BY LastIs
<1> HIDE DEF n
<1>3. CASE n = 0
  BY <1>1, <1>2, <1>3
<1>4. CASE n \in 1..Len(text) /\ text[n] = c /\ \A i \in (n + 1)..Len(text) : text[i] # c
  <2>1. /\ b \in Seq(S) /\ a \in Seq(S) /\ Len(a) = Len(text) - n
        /\ \A i \in 1..(Len(text) - n) : a[i] = text[n + i]
        /\ text = b \o <<c>> \o a
    <3> HIDE DEF a, b
    <3>1. n \in 1..Len(text)
      BY <1>4
    <3>2. /\ b \in Seq(S) /\ Len(b) = n - 1 /\ a \in Seq(S) /\ Len(a) = Len(text) - n
          /\ \A i \in 1..(n - 1) : b[i] = text[i]
          /\ \A i \in 1..(Len(text) - n) : a[i] = text[n + i]
          /\ text = b \o <<text[n]>> \o a
      BY <3>1, CutAt DEF a, b
    <3>3. text[n] = c
      BY <1>4
    <3> QED BY ONLY <3>2, <3>3
  <2>2. c \in S /\ n # 0
    BY <1>4
  <2> HIDE DEF a, b
  <2>3. \A i \in 1..Len(a) : a[i] # c
    <3> SUFFICES ASSUME NEW i \in 1..Len(a) PROVE a[i] # c
      OBVIOUS
    <3>1. n + i \in (n + 1)..Len(text) /\ i \in 1..(Len(text) - n)
      BY <1>4, <2>1
    <3> QED BY <1>4, <2>1, <3>1
  <2>4. text = Glue(Glue(b, <<c>>), a)
    BY ONLY <2>1 DEF Glue
  <2>5. b \in Seq(S) /\ a \in Seq(S)
    BY ONLY <2>1
  <2> QED BY ONLY <1>1, <2>2, <2>3, <2>4, <2>5
<1> QED BY <1>2, <1>3, <1>4

(* A slice, by its places.                                                 *)
LEMMA SliceOf ==
    ASSUME NEW S, NEW text \in Seq(S), NEW n \in 1..Len(text), NEW e \in n..Len(text), NEW x, x = SubSeq(text, n, e)
    PROVE  x \in Seq(S) /\ Len(x) = e - n + 1 /\ \A i \in 1..(e - n + 1) : x[i] = text[n + i - 1]
<1>1. \A i \in n..e : text[i] \in S
  OBVIOUS
<1>2. n \in Int /\ e \in Int /\ n <= e
  OBVIOUS
<1> QED BY <1>1, <1>2

(* A slice of what is put one behind the other.                            *)
LEMMA SliceIs ==
    ASSUME NEW S, NEW u \in Seq(S), NEW v \in Seq(S), NEW w \in Seq(S), NEW text, text = u \o v \o w
    PROVE  /\ text \in Seq(S) /\ Len(text) = Len(u) + Len(v) + Len(w)
           /\ SubSeq(text, Len(u) + 1, Len(u) + Len(v)) = v
           /\ \A i \in 1..Len(u) : text[i] = u[i]
           /\ \A i \in 1..Len(v) : text[Len(u) + i] = v[i]
           /\ \A i \in 1..Len(w) : text[Len(u) + Len(v) + i] = w[i]
<1> DEFINE r == u \o v
           s == r \o w
           x == SubSeq(s, Len(u) + 1, Len(u) + Len(v))
<1>1. /\ r \in Seq(S) /\ Len(r) = Len(u) + Len(v)
      /\ \A i \in 1..(Len(u) + Len(v)) : r[i] = IF i <= Len(u) THEN u[i] ELSE v[i - Len(u)]
  BY ConcatProperties
<1> HIDE DEF r
<1>2. /\ s \in Seq(S) /\ Len(s) = Len(r) + Len(w)
      /\ \A i \in 1..(Len(r) + Len(w)) : s[i] = IF i <= Len(r) THEN r[i] ELSE w[i - Len(r)]
  <2>1. r \in Seq(S) /\ w \in Seq(S)
    BY <1>1
  <2>2. Len(s) = Len(r) + Len(w) /\ s \in Seq(S)
    BY <2>1, ConcatProperties
  <2>3. \A i \in 1..(Len(r) + Len(w)) : s[i] = IF i <= Len(r) THEN r[i] ELSE w[i - Len(r)]
    BY <2>1, ConcatProperties
  <2> HIDE DEF s
  <2> QED BY <2>2, <2>3
<1> HIDE DEF s
<1>3. Len(u) \in Nat /\ Len(v) \in Nat /\ Len(w) \in Nat
  OBVIOUS
<1>4. \A i \in 1..Len(u) : s[i] = u[i]
  BY <1>1, <1>2, <1>3
<1>5. \A i \in 1..Len(v) : s[Len(u) + i] = v[i]
  <2> SUFFICES ASSUME NEW i \in 1..Len(v) PROVE s[Len(u) + i] = v[i]
    OBVIOUS
  <2>1. Len(u) + i \in 1..(Len(u) + Len(v)) /\ ~(Len(u) + i <= Len(u)) /\ (Len(u) + i) - Len(u) = i
    BY <1>3
  <2>2. r[Len(u) + i] = v[i]
    BY <1>1, <2>1
  <2> QED BY <1>1, <1>2, <1>3, <2>1, <2>2
<1>6. \A i \in 1..Len(w) : s[Len(u) + Len(v) + i] = w[i]
  <2> SUFFICES ASSUME NEW i \in 1..Len(w) PROVE s[Len(u) + Len(v) + i] = w[i]
    OBVIOUS
  <2> DEFINE k == Len(u) + Len(v) + i
  <2>1. k \in 1..(Len(r) + Len(w)) /\ ~(k <= Len(r)) /\ k - Len(r) = i
    BY <1>1, <1>3
  <2> HIDE DEF k
  <2>2. s[k] = w[i]
    BY <1>2, <2>1
  <2> QED BY <2>2 DEF k
<1>7. x = v
  <2>1. x \in Seq(S) /\ Len(x) = Len(v) /\ \A i \in 1..Len(v) : x[i] = s[Len(u) + 1 + i - 1]
    BY <1>1, <1>2, <1>3
  <2> HIDE DEF x
  <2>2. \A i \in 1..Len(v) : x[i] = v[i]
    <3> SUFFICES ASSUME NEW i \in 1..Len(v) PROVE x[i] = v[i]
      OBVIOUS
    <3>1. Len(u) + 1 + i - 1 = Len(u) + i
      BY <1>3
    <3> QED BY <1>5, <2>1, <3>1
  <2> QED BY <2>1, <2>2, SeqEqual
<1>8. s \in Seq(S) /\ Len(s) = Len(u) + Len(v) + Len(w)
  BY <1>1, <1>2
<1>9. text = s
  BY DEF s, r
<1> QED BY <1>4, <1>5, <1>6, <1>7, <1>8, <1>9 DEF x

(* Where a slice starts is where it occurs first.                          *)
LEMMA StartIs ==
    ASSUME NEW text, NEW part, NEW k \in 1..Len(text), Len(text) \in Nat,
           SubSeq(text, k, k + Len(part) - 1) = part,
           \A m \in 1..(k - 1) : SubSeq(text, m, m + Len(part) - 1) # part
    PROVE  Reference!StartOf(text, part) = k
<1> DEFINE Is(n) == /\ SubSeq(text, n, n + Len(part) - 1) = part
                    /\ \A m \in 1..(n - 1) : SubSeq(text, m, m + Len(part) - 1) # part
<1>1. Is(k)
  OBVIOUS
<1>2. ASSUME NEW n \in 1..Len(text), Is(n) PROVE n = k
  <2>1. ~(n < k) /\ ~(k < n)
    BY <1>1, <1>2
  <2> QED BY <2>1
<1> HIDE DEF Is
<1>3. Reference!StartOf(text, part) = CHOOSE n \in 1..Len(text) : Is(n)
  BY DEF Reference!StartOf, Is
<1> QED BY <1>1, <1>2, <1>3

(* What lies behind the registry is found where it stands.                 *)
LEMMA MiddleIs ==
    ASSUME NEW S, NEW r \in Seq(S), NEW m \in Seq(S), "/" \in S, m # <<>>, m[1] # "/"
    PROVE  Reference!Middle(r \o <<"/">> \o m, <<r>>) = m
<1> DEFINE one == <<"/">>
           none == <<>>
           h == r \o one \o m
           rest == Reference!After(h, Len(r))
           n == Reference!SelectInSeq(rest, LAMBDA c : c # "/")
           both == one \o m
<1>1. one \in Seq(S) /\ none \in Seq(S) /\ Len(one) = 1 /\ one[1] = "/" /\ Len(none) = 0 /\ Len(m) \in Nat \ {0} /\ Len(r) \in Nat
  OBVIOUS
<1>2. Reference!Middle(h, <<r>>) = IF n = 0 THEN none ELSE SubSeq(rest, n, Len(rest))
  BY DEF Reference!Middle, Reference!None
<1> HIDE DEF one, none
<1>3. both \in Seq(S) /\ Len(both) = 1 + Len(m) /\ h = r \o both /\ both \o none = both
  <2>1. both \in Seq(S) /\ Len(both) = 1 + Len(m)
    <3>1. one \in Seq(S) /\ m \in Seq(S)
      BY <1>1
    <3>2. one \o m \in Seq(S) /\ Len(one \o m) = Len(one) + Len(m)
      BY ONLY <3>1, ConcatProperties
    <3> QED BY <1>1, <3>2
  <2>2. h = r \o both
    BY <1>1, ConcatAssociative
  <2> HIDE DEF both
  <2>3. both \o none = both
    BY <2>1, ConcatEmptySeq DEF none
  <2> QED BY <2>1, <2>2, <2>3
<1>4. both[1] = "/" /\ \A i \in 1..Len(m) : both[1 + i] = m[i]
  <2>1. \A i \in 1..(Len(one) + Len(m)) : both[i] = IF i <= Len(one) THEN one[i] ELSE m[i - Len(one)]
    BY <1>1, ConcatProperties
  <2> HIDE DEF both
  <2>2. ASSUME NEW i \in 1..Len(m) PROVE both[1 + i] = m[i]
    <3>1. 1 + i \in 1..(Len(one) + Len(m)) /\ ~(1 + i <= Len(one)) /\ (1 + i) - Len(one) = i
      BY <1>1
    <3> QED BY <2>1, <3>1
  <2> QED BY <1>1, <2>1, <2>2
<1> HIDE DEF both
<1>5. rest = both
  <2>1. rest = SubSeq(h, Len(r) + 1, Len(h))
    BY DEF Reference!After
  <2>2. h = r \o both \o none
    <3>1. r \o both \in Seq(S)
      BY <1>3, ConcatProperties
    <3> QED BY <1>3, <3>1, ConcatEmptySeq DEF none
  <2> HIDE DEF h, rest
  <2>3. Len(h) = Len(r) + Len(both) /\ SubSeq(h, Len(r) + 1, Len(r) + Len(both)) = both
    <3>1. r \in Seq(S) /\ both \in Seq(S) /\ none \in Seq(S)
      BY <1>1, <1>3
    <3>2. Len(h) = Len(r) + Len(both) + Len(none) /\ SubSeq(h, Len(r) + 1, Len(r) + Len(both)) = both
      BY ONLY <2>2, <3>1, SliceIs
    <3> QED BY <1>1, <1>3, <3>2
  <2> QED BY <2>1, <2>3
<1> HIDE DEF rest, h
<1>6. n = 2
  <2> DEFINE I == {i \in 1..Len(both) : both[i] # "/"}
  <2>1. n = IF I # {} THEN CHOOSE x \in I : \A y \in I : x <= y ELSE 0
    BY <1>5 DEF Reference!SelectInSeq, Reference!Min
  <2>2. 2 \in I /\ \A y \in I : 2 <= y
    <3>1. 2 \in 1..Len(both) /\ 1 \in 1..Len(m)
      BY <1>1, <1>3
    <3>2. both[1 + 1] = m[1]
      BY <1>4, <3>1
    <3> QED BY <1>4, <3>1, <3>2
  <2>3. \A x \in I : (\A y \in I : x <= y) => x = 2
    BY <2>2
  <2> HIDE DEF I, n
  <2> QED BY <2>1, <2>2, <2>3
<1> HIDE DEF n
<1>7. SubSeq(both, 2, Len(both)) = m
  <2> DEFINE x == SubSeq(both, 2, Len(both))
  <2>1. x \in Seq(S) /\ Len(x) = Len(m) /\ \A i \in 1..Len(m) : x[i] = both[2 + i - 1]
    BY <1>1, <1>3, SubSeqProperties
  <2> HIDE DEF x
  <2>2. \A i \in 1..Len(m) : x[i] = m[i]
    <3> SUFFICES ASSUME NEW i \in 1..Len(m) PROVE x[i] = m[i]
      OBVIOUS
    <3>1. 2 + i - 1 = 1 + i
      OBVIOUS
    <3> QED BY <1>4, <2>1, <3>1
  <2> QED BY <2>1, <2>2, SeqEqual DEF x
<1>8. Reference!Middle(h, <<r>>) = m
  <2>1. Reference!Middle(h, <<r>>) = SubSeq(rest, n, Len(rest))
    BY ONLY <1>2, <1>6
  <2>2. SubSeq(rest, n, Len(rest)) = SubSeq(both, 2, Len(both))
    BY ONLY <1>5, <1>6
  <2> QED BY ONLY <1>7, <2>1, <2>2
<1>9. h = r \o <<"/">> \o m
  BY DEF h, one
<1> QED BY ONLY <1>8, <1>9

(* str::find finds the path behind the registry where it stands, unless    *)
(* its first segment also occurs inside the registry.                      *)
LEMMA FoundBehind ==
    ASSUME NEW S, NEW r \in Seq(S), NEW m \in Seq(S), NEW w \in Seq(S), "/" \in S, m # <<>>, m[1] # "/",
           NEW text, text = r \o <<"/">> \o (m \o <<"/">> \o w), ~Reference!Echoes(text, r)
    PROVE  Reference!StartOf(text, m) = Len(r) + 2
<1> DEFINE one == <<"/">>
           tail == m \o one \o w
           k == Reference!FirstAt(tail, "/")
           path == SubSeq(tail, 1, k - 1)
           at == Len(r) + 2
<1>1. one \in Seq(S) /\ Len(one) = 1 /\ one[1] = "/" /\ Len(m) \in Nat \ {0} /\ Len(r) \in Nat /\ Len(w) \in Nat
  OBVIOUS
<1>2. text = r \o one \o tail
  OBVIOUS
<1> HIDE DEF one
<1>3. /\ tail \in Seq(S) /\ Len(tail) = Len(m) + 1 + Len(w)
      /\ \A i \in 1..Len(m) : tail[i] = m[i]
      /\ tail[Len(m) + 1] = "/"
  <2>1. /\ tail \in Seq(S) /\ Len(tail) = Len(m) + Len(one) + Len(w)
        /\ \A i \in 1..Len(m) : tail[i] = m[i]
        /\ \A i \in 1..Len(one) : tail[Len(m) + i] = one[i]
    <3>1. m \in Seq(S) /\ one \in Seq(S) /\ w \in Seq(S) /\ tail = m \o one \o w
      BY <1>1
    <3> HIDE DEF tail
    <3> QED BY ONLY <3>1, SliceIs
  <2> HIDE DEF tail
  <2> QED BY <1>1, <2>1
<1> HIDE DEF tail
<1>4. /\ text \in Seq(S) /\ Len(text) = Len(r) + 1 + Len(tail)
      /\ \A i \in 1..Len(tail) : text[Len(r) + 1 + i] = tail[i]
      /\ text[Len(r) + 1] = "/"
  <2>1. /\ text \in Seq(S) /\ Len(text) = Len(r) + Len(one) + Len(tail)
        /\ \A i \in 1..Len(one) : text[Len(r) + i] = one[i]
        /\ \A i \in 1..Len(tail) : text[Len(r) + Len(one) + i] = tail[i]
    <3>1. r \in Seq(S) /\ one \in Seq(S) /\ tail \in Seq(S)
      BY <1>1, <1>3
    <3> QED BY ONLY <1>2, <3>1, SliceIs
  <2> QED BY <1>1, <2>1
<1>5. SubSeq(text, at, Len(text)) = tail
  <2> DEFINE x == SubSeq(text, at, Len(text))
  <2>1. x \in Seq(S) /\ Len(x) = Len(tail) /\ \A i \in 1..Len(tail) : x[i] = text[at + i - 1]
    <3>1. at \in Nat \ {0} /\ at <= Len(text) + 1 /\ Len(text) - at + 1 = Len(tail) /\ Len(tail) \in Nat
      BY <1>1, <1>3, <1>4
    <3>2. at \in 1..Len(text) /\ Len(text) \in at..Len(text)
      BY <1>1, <1>3, <1>4
    <3> HIDE DEF at, x
    <3>3. x = SubSeq(text, at, Len(text))
      BY DEF x
    <3>4. text \in Seq(S)
      BY <1>4
    <3>5. x \in Seq(S) /\ Len(x) = Len(text) - at + 1 /\ \A i \in 1..(Len(text) - at + 1) : x[i] = text[at + i - 1]
      BY ONLY <3>2, <3>3, <3>4, SliceOf
    <3> QED BY <3>1, <3>5
  <2> HIDE DEF x
  <2>2. \A i \in 1..Len(tail) : x[i] = tail[i]
    <3> SUFFICES ASSUME NEW i \in 1..Len(tail) PROVE x[i] = tail[i]
      OBVIOUS
    <3>1. at + i - 1 = Len(r) + 1 + i
      BY <1>1
    <3> QED BY <1>4, <2>1, <3>1
  <2> QED BY <1>3, <2>1, <2>2, SeqEqual DEF x
<1>6. k \in 2..(Len(m) + 1)
  <2>1. k = Reference!FirstAt(tail, "/")
    OBVIOUS
  <2> HIDE DEF k
  <2>2. \/ k = 0 /\ \A i \in 1..Len(tail) : tail[i] # "/"
        \/ k \in 1..Len(tail) /\ tail[k] = "/" /\ \A i \in 1..(k - 1) : tail[i] # "/"
    <3>1. Len(tail) \in Nat
      BY <1>3
    <3> QED BY <2>1, <3>1, FirstIs
  <2>3. Len(m) + 1 \in 1..Len(tail) /\ 1 \in 1..Len(m)
    BY <1>1, <1>3
  <2>4. k # 0 /\ k # 1 /\ ~(Len(m) + 1 < k)
    BY <1>3, <2>2, <2>3
  <2> QED BY <1>1, <1>3, <2>2, <2>4
<1>7. ~\E n \in DOMAIN r : SubSeq(text, n, n + Len(path) - 1) = path /\ path # <<>>
  <2>1. Reference!Echoes(text, r) <=> path # <<>> /\ \E n \in DOMAIN r : SubSeq(text, n, n + Len(path) - 1) = path
    <3>1. Reference!After(text, Len(r) + 1) = tail
      <4>1. Len(r) + 1 + 1 = at
        BY <1>1
      <4> HIDE DEF at
      <4> QED BY <1>5, <4>1 DEF Reference!After
    <3>2. Reference!Before(tail, k) = path
      BY DEF Reference!Before
    <3> HIDE DEF path
    <3> QED BY <3>1, <3>2 DEF Reference!Echoes
  <2> HIDE DEF path
  <2> QED BY <2>1
<1> HIDE DEF k
<1>8. path \in Seq(S) /\ Len(path) = k - 1 /\ \A i \in 1..(k - 1) : path[i] = m[i]
  <2>1. k - 1 \in 1..Len(m) /\ k - 1 \in 1..Len(tail)
    BY <1>1, <1>3, <1>6
  <2>2. path \in Seq(S) /\ Len(path) = k - 1 /\ \A i \in 1..(k - 1) : path[i] = tail[1 + i - 1]
    BY <1>3, <2>1, SliceOf
  <2> HIDE DEF path
  <2>3. \A i \in 1..(k - 1) : path[i] = m[i]
    <3> SUFFICES ASSUME NEW i \in 1..(k - 1) PROVE path[i] = m[i]
      OBVIOUS
    <3>1. 1 + i - 1 = i /\ i \in 1..Len(m)
      BY <2>1
    <3> QED BY <1>3, <2>2, <3>1
  <2> QED BY <2>2, <2>3
<1> HIDE DEF path
<1>9. path # <<>>
  BY <1>6, <1>8
<1> DEFINE Slice(n) == SubSeq(text, n, n + Len(m) - 1)
<1>10. ASSUME NEW n \in 1..(Len(r) + 2)
       PROVE  Slice(n) \in Seq(S) /\ Len(Slice(n)) = Len(m) /\ \A i \in 1..Len(m) : Slice(n)[i] = text[n + i - 1]
  <2> DEFINE e == n + Len(m) - 1
  <2>1. n \in 1..Len(text) /\ e \in n..Len(text) /\ e - n + 1 = Len(m)
    BY <1>1, <1>3, <1>4
  <2> HIDE DEF e
  <2>2. /\ SubSeq(text, n, e) \in Seq(S) /\ Len(SubSeq(text, n, e)) = e - n + 1
        /\ \A i \in 1..(e - n + 1) : SubSeq(text, n, e)[i] = text[n + i - 1]
    <3>1. text \in Seq(S)
      BY <1>4
    <3> QED BY ONLY <2>1, <3>1, SliceOf
  <2> QED BY <2>1, <2>2 DEF e
<1>11. Slice(at) = m
  <2> DEFINE x == Slice(at)
  <2>1. x \in Seq(S) /\ Len(x) = Len(m) /\ \A i \in 1..Len(m) : x[i] = text[at + i - 1]
    BY <1>1, <1>10
  <2> HIDE DEF x
  <2>2. \A i \in 1..Len(m) : x[i] = m[i]
    <3> SUFFICES ASSUME NEW i \in 1..Len(m) PROVE x[i] = m[i]
      OBVIOUS
    <3>1. at + i - 1 = Len(r) + 1 + i /\ i \in 1..Len(tail)
      BY <1>1, <1>3
    <3> QED BY <1>3, <1>4, <2>1, <3>1
  <2> QED BY <2>1, <2>2, SeqEqual DEF x
<1>12. ASSUME NEW n \in 1..(at - 1), Slice(n) = m PROVE FALSE
  <2>1. \A i \in 1..Len(m) : text[n + i - 1] = m[i]
    <3>1. n \in 1..(Len(r) + 2)
      BY <1>1
    <3> QED BY <1>10, <1>12, <3>1
  <2>2. CASE n = Len(r) + 1
    <3>1. 1 \in 1..Len(m) /\ n + 1 - 1 = n
      BY <1>1
    <3> QED BY <1>4, <2>1, <2>2, <3>1
  <2>3. CASE n \in 1..Len(r)
    <3> DEFINE x == SubSeq(text, n, n + Len(path) - 1)
               e == n + Len(path) - 1
    <3>1. n \in 1..Len(text) /\ e \in n..Len(text) /\ e - n + 1 = k - 1
      BY <1>1, <1>3, <1>4, <1>6, <1>8, <2>3
    <3> HIDE DEF e
    <3>2. /\ SubSeq(text, n, e) \in Seq(S) /\ Len(SubSeq(text, n, e)) = k - 1
          /\ \A i \in 1..(k - 1) : SubSeq(text, n, e)[i] = text[n + i - 1]
      <4>1. text \in Seq(S)
        BY <1>4
      <4>2. /\ SubSeq(text, n, e) \in Seq(S) /\ Len(SubSeq(text, n, e)) = e - n + 1
            /\ \A i \in 1..(e - n + 1) : SubSeq(text, n, e)[i] = text[n + i - 1]
        BY ONLY <3>1, <4>1, SliceOf
      <4> QED BY <3>1, <4>2
    <3>3. x \in Seq(S) /\ Len(x) = k - 1 /\ \A i \in 1..(k - 1) : x[i] = text[n + i - 1]
      BY <3>2 DEF e
    <3> HIDE DEF x
    <3>4. \A i \in 1..(k - 1) : x[i] = path[i]
      <4> SUFFICES ASSUME NEW i \in 1..(k - 1) PROVE x[i] = path[i]
        OBVIOUS
      <4>1. i \in 1..Len(m)
        BY <1>1, <1>6
      <4> QED BY <1>8, <2>1, <3>3, <4>1
    <3>5. x = path
      BY <1>8, <3>3, <3>4, SeqEqual
    <3>6. n \in DOMAIN r
      BY <2>3
    <3> QED BY <1>7, <1>9, <3>5, <3>6 DEF x
  <2>4. n = Len(r) + 1 \/ n \in 1..Len(r)
    BY <1>1
  <2> QED BY <2>2, <2>3, <2>4
<1>13. at \in 1..Len(text) /\ at - 1 \in Nat
  BY <1>1, <1>3, <1>4
<1>14. Reference!StartOf(text, m) = at
  <2> HIDE DEF at
  <2>1. \A n \in 1..(at - 1) : SubSeq(text, n, n + Len(m) - 1) # m
    BY <1>12
  <2>2. Len(text) \in Nat /\ SubSeq(text, at, at + Len(m) - 1) = m
    <3>1. Len(text) \in Nat
      BY <1>4
    <3> QED BY ONLY <3>1, <1>11
  <2> QED BY ONLY <1>13, <2>1, <2>2, StartIs
<1> QED BY <1>14

(* Five sequences in a row, taken together as three and as two.            *)
LEMMA FiveParts ==
    ASSUME NEW S, NEW r \in Seq(S), NEW one \in Seq(S), NEW a \in Seq(S), NEW name \in Seq(S), NEW e \in Seq(S),
           NEW text, text = Glue(Glue(Glue(Glue(Glue(r, one), a), one), name), e)
    PROVE  /\ text = Glue(Glue(Glue(r, one), Glue(Glue(a, one), name)), e)
           /\ text = Glue(Glue(r, one), Glue(Glue(a, one), Glue(name, e)))
           /\ Glue(r, one) \in Seq(S) /\ Glue(Glue(a, one), name) \in Seq(S)
           /\ Glue(name, e) \in Seq(S) /\ Glue(Glue(a, one), Glue(name, e)) \in Seq(S)
<1> DEFINE u == Glue(r, one)
           x == Glue(Glue(a, one), name)
           y == Glue(Glue(a, one), Glue(name, e))
           all == Glue(Glue(Glue(Glue(u, a), one), name), e)
           Q == Seq(S)
<1>1. \A s, t \in Q : Glue(s, t) \in Q
  BY GlueIs
<1>2. \A s, t, z \in Q : Glue(Glue(s, t), z) = Glue(s, Glue(t, z))
  BY GlueIs
<1>3. r \in Q /\ one \in Q /\ a \in Q /\ name \in Q /\ e \in Q
  OBVIOUS
<1> HIDE DEF Q
<1>4. u \in Q /\ Glue(a, one) \in Q /\ x \in Q /\ Glue(name, e) \in Q /\ y \in Q
  BY ONLY <1>1, <1>3
<1> HIDE DEF u
<1>5. Glue(Glue(Glue(u, a), one), name) = Glue(u, x)
  <2>1. Glue(Glue(u, a), one) = Glue(u, Glue(a, one))
    BY ONLY <1>2, <1>3, <1>4
  <2>2. Glue(Glue(u, Glue(a, one)), name) = Glue(u, x)
    BY ONLY <1>2, <1>3, <1>4
  <2> QED BY ONLY <2>1, <2>2
<1>6. all = Glue(Glue(u, x), e)
  BY ONLY <1>5
<1>7. Glue(Glue(u, x), e) = Glue(u, Glue(x, e))
  BY ONLY <1>2, <1>3, <1>4
<1>8. Glue(x, e) = y
  BY ONLY <1>2, <1>3, <1>4
<1>9. all = Glue(u, y)
  BY ONLY <1>6, <1>7, <1>8
<1>10. u \in Seq(S) /\ x \in Seq(S) /\ Glue(name, e) \in Seq(S) /\ y \in Seq(S)
  BY <1>4 DEF Q
<1> QED BY <1>6, <1>9, <1>10 DEF u

(* What split_once leaves, put together, is what it was given.             *)
LEMMA CutFirst ==
    ASSUME NEW S, NEW text \in Seq(S), NEW c, NEW r, r = Reference!SplitFirst(text, c)
    PROVE  /\ r[1] \in Seq(S) /\ Reference!Optional(c, r[2]) \in Seq(S) /\ text = Glue(r[1], Reference!Optional(c, r[2]))
           /\ r[2] # <<>> => \A x \in ToSet(r[2][1]) : x \in ToSet(text)
<1>1. CASE r = <<text, <<>>>>
  <2>1. r[1] = text /\ r[2] = <<>> /\ Reference!Optional(c, r[2]) = <<>>
    BY <1>1 DEF Reference!Optional, Reference!None
  <2>2. Glue(text, <<>>) = text
    BY ConcatEmptySeq DEF Glue
  <2>3. ASSUME r[2] # <<>> PROVE FALSE
    BY <2>1, <2>3
  <2> QED BY ONLY <2>1, <2>2, <2>3, text \in Seq(S), <<>> \in Seq(S)
<1>2. ASSUME NEW b \in Seq(S), NEW a \in Seq(S), r = <<b, <<a>>>>, text = b \o <<c>> \o a, c \in S
      PROVE  /\ r[1] \in Seq(S) /\ Reference!Optional(c, r[2]) \in Seq(S) /\ text = Glue(r[1], Reference!Optional(c, r[2]))
             /\ r[2] # <<>> => \A x \in ToSet(r[2][1]) : x \in ToSet(text)
  <2> DEFINE one == <<c>>
             o == Reference!Optional(c, r[2])
  <2>1. r[1] = b /\ r[2] # <<>> /\ r[2][1] = a /\ o = one \o a
    BY <1>2 DEF Reference!Optional, Reference!None
  <2>2. one \in Seq(S) /\ Len(one) = 1
    BY <1>2
  <2> HIDE DEF one, o
  <2>3. one \o a \in Seq(S)
    BY ONLY <1>2, <2>2, ConcatProperties
  <2>4. text = b \o one \o a
    BY <1>2 DEF one
  <2>5. text = b \o (one \o a)
    <3>1. a \in Seq(S) /\ b \in Seq(S) /\ one \in Seq(S)
      BY <1>2, <2>2
    <3>2. (b \o one) \o a = b \o (one \o a)
      BY ONLY <3>1, ConcatAssociative
    <3> QED BY ONLY <2>4, <3>2
  <2>6. ASSUME NEW x \in ToSet(a) PROVE x \in ToSet(text)
    <3>1. PICK i \in 1..Len(a) : x = a[i]
      BY <1>2 DEF ToSet
    <3>2. Len(text) = Len(b) + Len(one) + Len(a) /\ text[Len(b) + Len(one) + i] = a[i]
      BY ONLY <1>2, <2>2, <2>4, <3>1, SliceIs
    <3>3. Len(b) + Len(one) + i \in 1..Len(text)
      BY <1>2, <2>2, <3>2
    <3> QED BY <3>1, <3>2, <3>3 DEF ToSet
  <2>7. text = Glue(b, o)
    BY ONLY <2>1, <2>5 DEF Glue
  <2> QED BY ONLY <1>2, <2>1, <2>3, <2>6, <2>7 DEF o
<1>3. \/ r = <<text, <<>>>>
      \/ \E b, a \in Seq(S) : r = <<b, <<a>>>> /\ text = Glue(Glue(b, <<c>>), a) /\ c \in S
  BY SplitsFirst DEF Reference!None
<1>4. ASSUME NEW b \in Seq(S), NEW a \in Seq(S), r = <<b, <<a>>>>, text = Glue(Glue(b, <<c>>), a), c \in S
      PROVE  /\ r[1] \in Seq(S) /\ Reference!Optional(c, r[2]) \in Seq(S) /\ text = Glue(r[1], Reference!Optional(c, r[2]))
             /\ r[2] # <<>> => \A x \in ToSet(r[2][1]) : x \in ToSet(text)
  <2>1. text = b \o <<c>> \o a
    BY ONLY <1>4 DEF Glue
  <2> QED BY ONLY <1>2, <1>4, <2>1
<1> QED BY ONLY <1>1, <1>3, <1>4

(* The first segment of a path is all of it, or what a slash stands behind. *)
LEMMA SegmentIs ==
    ASSUME NEW S, NEW h \in Seq(S), NEW r, r = Reference!FirstSegment(h)
    PROVE  r \in Seq(S) /\ (r = h \/ \E a \in Seq(S) : h = Glue(Glue(r, <<"/">>), a))
<1> DEFINE x == Reference!SplitFirst(h, "/")
<1>1. r = x[1]
  BY DEF Reference!FirstSegment
<1>2. \/ x = <<h, Reference!None>>
      \/ \E b, a \in Seq(S) : x = <<b, <<a>>>> /\ h = Glue(Glue(b, <<"/">>), a)
  BY SplitsFirst DEF Reference!None
<1> HIDE DEF x
<1>3. CASE x = <<h, Reference!None>>
  BY ONLY <1>1, <1>3, h \in Seq(S)
<1>4. ASSUME NEW b \in Seq(S), NEW a \in Seq(S), x = <<b, <<a>>>>, h = Glue(Glue(b, <<"/">>), a)
      PROVE  r \in Seq(S) /\ \E z \in Seq(S) : h = Glue(Glue(r, <<"/">>), z)
  <2>1. r = b
    BY ONLY <1>1, <1>4
  <2> QED BY ONLY <1>4, <2>1
<1> QED BY ONLY <1>2, <1>3, <1>4

(* A registry is what it is cut from, or what stands before the first slash. *)
LEMMA RepositoryIs ==
    ASSUME NEW S, NEW h \in Seq(S), NEW name \in Seq(S), NEW e \in Seq(S), "/" \in S,
           NEW text, text = Glue(Glue(Glue(h, <<"/">>), name), e),
           NEW r, r = Reference!FirstSegment(h), ~Reference!Echoes(text, r), ~Reference!Doubled(text, r)
    PROVE  /\ text = Glue(Glue(Append(r, "/"), Reference!Repository(text, <<h>>, <<r>>, name)), e)
           /\ Reference!Repository(text, <<h>>, <<r>>, name) \in Seq(S) /\ r \in Seq(S)
<1> DEFINE one == <<"/">>
           p == Reference!Repository(text, <<h>>, <<r>>, name)
           m == Reference!Middle(h, <<r>>)
           start == Reference!StartOf(text, m)
           end == start + Len(m) + Len(name)
<1>1. one \in Seq(S) /\ Len(one) = 1 /\ one[1] = "/" /\ Len(h) \in Nat /\ Len(name) \in Nat /\ Len(e) \in Nat
  OBVIOUS
<1>2. p = IF m = <<>> \/ end > Len(text) THEN name ELSE SubSeq(text, start, end)
  BY DEF Reference!Repository, Reference!None
<1> HIDE DEF one
<1>3. r \in Seq(S) /\ (r = h \/ \E a \in Seq(S) : h = r \o one \o a)
  <2>1. r \in Seq(S) /\ (r = h \/ \E a \in Seq(S) : h = Glue(Glue(r, <<"/">>), a))
    BY SegmentIs
  <2>2. ASSUME NEW a \in Seq(S), h = Glue(Glue(r, <<"/">>), a) PROVE h = r \o one \o a
    BY ONLY <2>2 DEF one, Glue
  <2> QED BY ONLY <2>1, <2>2
<1>4. Append(r, "/") = r \o one
  BY <1>3, AppendIsConcat DEF one
<1>5. text = (h \o one \o name) \o e
  BY DEF one, Glue
<1> HIDE DEF p
<1>6. ASSUME r = h PROVE p \in Seq(S) /\ text = Append(r, "/") \o p \o e
  <2> DEFINE rest == Reference!After(h, Len(r))
             n == Reference!SelectInSeq(rest, LAMBDA c : c # "/")
  <2>1. rest = <<>>
    BY <1>1, <1>6 DEF Reference!After
  <2>2. n = 0
    <3> HIDE DEF rest
    <3>1. {i \in 1..Len(rest) : rest[i] # "/"} = {}
      BY <2>1
    <3> QED BY <3>1 DEF Reference!SelectInSeq
  <2> HIDE DEF n, rest
  <2>3. m = <<>>
    BY <2>2 DEF Reference!Middle, Reference!None, n, rest
  <2>4. p = name
    BY <1>2, <2>3
  <2> QED BY ONLY <1>4, <1>5, <1>6, <2>4, name \in Seq(S)
<1>7. ASSUME NEW a \in Seq(S), h = r \o one \o a
      PROVE  p \in Seq(S) /\ text = Append(r, "/") \o p \o e
  <2> DEFINE w == name \o e
             tail == a \o one \o w
             v == a \o one \o name
             u == r \o one
  <2>1. w \in Seq(S) /\ v \in Seq(S) /\ u \in Seq(S) /\ Len(u) = Len(r) + 1 /\ Len(v) = Len(a) + 1 + Len(name)
        /\ tail \in Seq(S) /\ text = r \o one \o tail /\ text = u \o v \o e
    <3> HIDE DEF one
    <3>1. a \in Seq(S) /\ r \in Seq(S) /\ one \in Seq(S) /\ name \in Seq(S) /\ e \in Seq(S)
      BY <1>1, <1>3, <1>7
    <3>2. text = (((r \o one) \o a) \o one \o name) \o e
      BY ONLY <1>5, <1>7
    <3>3. /\ text = u \o v \o e /\ text = r \o one \o tail
          /\ u \in Seq(S) /\ v \in Seq(S) /\ w \in Seq(S) /\ tail \in Seq(S)
      <4>1. text = Glue(Glue(Glue(Glue(Glue(r, one), a), one), name), e)
        BY ONLY <3>2 DEF Glue
      <4>2. /\ text = Glue(Glue(Glue(r, one), Glue(Glue(a, one), name)), e)
            /\ text = Glue(Glue(r, one), Glue(Glue(a, one), Glue(name, e)))
            /\ Glue(r, one) \in Seq(S) /\ Glue(Glue(a, one), name) \in Seq(S)
            /\ Glue(name, e) \in Seq(S) /\ Glue(Glue(a, one), Glue(name, e)) \in Seq(S)
        BY ONLY <3>1, <4>1, FiveParts
      <4> QED BY ONLY <4>2 DEF Glue
    <3>4. Len(u) = Len(r) + Len(one)
      BY ONLY <3>1, ConcatProperties
    <3>5. a \o one \in Seq(S)
      BY ONLY <3>1, ConcatProperties
    <3>6. Len(a \o one) = Len(a) + Len(one)
      BY ONLY <3>1, ConcatProperties
    <3> DEFINE ao == a \o one
    <3>7. Len(v) = Len(ao) + Len(name)
      <4> HIDE DEF ao
      <4>1. ao \in Seq(S)
        BY <3>5 DEF ao
      <4>2. Len(ao \o name) = Len(ao) + Len(name)
        BY ONLY <3>1, <4>1, ConcatProperties
      <4> QED BY ONLY <4>2 DEF ao
    <3> HIDE DEF u, v, w, tail
    <3> QED BY ONLY <1>1, <3>3, <3>4, <3>6, <3>7 DEF ao
  <2>2. a # <<>> /\ a[1] # "/"
    <3>1. /\ Len(tail) = Len(a) + 1 + Len(w) /\ Len(w) \in Nat /\ Len(a) \in Nat /\ Len(r) \in Nat
          /\ \A i \in 1..Len(a) : tail[i] = a[i]
          /\ tail[Len(a) + 1] = "/"
      <4>1. a \in Seq(S) /\ one \in Seq(S) /\ w \in Seq(S) /\ tail = a \o one \o w
        BY <1>1, <1>7, <2>1
      <4> HIDE DEF tail, w
      <4>2. /\ Len(tail) = Len(a) + Len(one) + Len(w)
            /\ \A i \in 1..Len(a) : tail[i] = a[i]
            /\ \A i \in 1..Len(one) : tail[Len(a) + i] = one[i]
        BY ONLY <4>1, SliceIs
      <4> QED BY <1>1, <1>3, <4>1, <4>2
    <3> HIDE DEF tail, w, u, v
    <3>2. /\ Len(text) = Len(r) + 1 + Len(tail)
          /\ \A i \in 1..Len(tail) : text[Len(r) + 1 + i] = tail[i]
      <4>1. r \in Seq(S) /\ one \in Seq(S) /\ tail \in Seq(S) /\ text = r \o one \o tail
        BY <1>1, <1>3, <2>1
      <4>2. /\ Len(text) = Len(r) + Len(one) + Len(tail)
            /\ \A i \in 1..Len(tail) : text[Len(r) + Len(one) + i] = tail[i]
        BY ONLY <4>1, SliceIs
      <4> QED BY <1>1, <4>2
    <3>3. 1 \in 1..Len(tail) /\ Len(r) + 1 + 1 = Len(r) + 2 /\ Len(r) + 2 \in DOMAIN text
      <4>1. text \in Seq(S)
        <5>1. u \in Seq(S) /\ v \in Seq(S) /\ e \in Seq(S)
          BY <2>1
        <5> QED BY ONLY <2>1, <5>1, SliceIs
      <4> QED BY <3>1, <3>2, <4>1
    <3>4. tail[1] # "/"
      BY <3>2, <3>3 DEF Reference!Doubled
    <3>5. a # <<>>
      <4> SUFFICES ASSUME a = <<>> PROVE FALSE
        OBVIOUS
      <4>1. Len(a) + 1 = 1
        OBVIOUS
      <4> QED BY <3>1, <3>4, <4>1
    <3>6. 1 \in 1..Len(a)
      BY <1>7, <3>5
    <3> QED BY <3>1, <3>4, <3>5, <3>6
  <2> HIDE DEF u, v, tail
  <2>3. m = a
    <3>1. h = r \o <<"/">> \o a
      BY <1>7 DEF one
    <3>2. Reference!Middle(r \o <<"/">> \o a, <<r>>) = a
      BY <1>3, <1>7, <2>2, MiddleIs
    <3> QED BY ONLY <3>1, <3>2 DEF m
  <2>4. start = Len(u) + 1
    <3>1. text = r \o <<"/">> \o (a \o <<"/">> \o w)
      BY <2>1 DEF one, tail
    <3>2. r \in Seq(S) /\ a \in Seq(S) /\ w \in Seq(S) /\ "/" \in S /\ a # <<>> /\ a[1] # "/" /\ ~Reference!Echoes(text, r)
      BY <1>3, <1>7, <2>1, <2>2
    <3> HIDE DEF w
    <3>3. Reference!StartOf(text, a) = Len(r) + 2
      BY ONLY <3>1, <3>2, FoundBehind
    <3>4. Len(r) \in Nat
      BY <1>3
    <3> QED BY <2>1, <2>3, <3>3, <3>4
  <2> HIDE DEF m, start, w
  <2>5. end = Len(u) + Len(v) /\ Len(text) = Len(u) + Len(v) + Len(e) /\ SubSeq(text, Len(u) + 1, Len(u) + Len(v)) = v
    <3>1. u \in Seq(S) /\ v \in Seq(S) /\ e \in Seq(S) /\ text = u \o v \o e
      BY <2>1
    <3>2. Len(text) = Len(u) + Len(v) + Len(e) /\ SubSeq(text, Len(u) + 1, Len(u) + Len(v)) = v
      BY ONLY <3>1, SliceIs
    <3>3. Len(u) \in Nat /\ Len(a) \in Nat /\ Len(name) \in Nat
      BY <1>1, <1>7, <3>1
    <3>4. end = Len(u) + 1 + Len(a) + Len(name)
      BY ONLY <2>3, <2>4
    <3>5. Len(v) = Len(a) + 1 + Len(name) /\ Len(v) \in Nat
      BY ONLY <2>1, <3>3
    <3> HIDE DEF end
    <3> QED BY ONLY <3>2, <3>3, <3>4, <3>5
  <2>6. p = v
    <3>1. Len(u) \in Nat /\ Len(v) \in Nat /\ Len(e) \in Nat
      BY <2>1
    <3>2. ~(end > Len(text)) /\ m # <<>>
      BY <2>2, <2>3, <2>5, <3>1
    <3> HIDE DEF end
    <3> QED BY <1>2, <2>4, <2>5, <3>2
  <2>7. text = u \o v \o e
    BY <2>1
  <2>8. v \in Seq(S)
    BY <2>1
  <2> QED BY ONLY <1>4, <2>6, <2>7, <2>8 DEF u
<1>8. p \in Seq(S) /\ text = Append(r, "/") \o p \o e
  <2>1. CASE r = h
    BY ONLY <1>6, <2>1
  <2>2. CASE \E a \in Seq(S) : h = r \o one \o a
    <3>1. PICK a \in Seq(S) : h = r \o one \o a
      BY ONLY <2>2
    <3> QED BY ONLY <1>7, <3>1
  <2> QED BY ONLY <1>3, <2>1, <2>2
<1>9. text = Glue(Glue(Append(r, "/"), p), e)
  BY ONLY <1>8 DEF Glue
<1> QED BY ONLY <1>3, <1>8, <1>9 DEF p

(* Without a registry, the repository is the path as it was written.       *)
LEMMA WholePathIs ==
    ASSUME NEW S, NEW h \in Seq(S), NEW name \in Seq(S), NEW e \in Seq(S), "/" \in S,
           NEW text, text = Glue(Glue(Glue(h, <<"/">>), name), e)
    PROVE  /\ text = Glue(Reference!Repository(text, <<h>>, Reference!None, name), e)
           /\ Reference!Repository(text, <<h>>, Reference!None, name) \in Seq(S)
<1> DEFINE one == <<"/">>
           none == <<>>
           path == Glue(Glue(h, one), name)
           w == Glue(Glue(one, name), e)
           start == Reference!StartOf(text, h)
           end == start + Len(h) + Len(name)
           p == Reference!Repository(text, <<h>>, Reference!None, name)
<1>1. one \in Seq(S) /\ none \in Seq(S) /\ Len(one) = 1 /\ Len(none) = 0
  OBVIOUS
<1>2. p = IF end > Len(text) THEN name ELSE SubSeq(text, start, end)
  BY DEF Reference!Repository, Reference!Middle, Reference!None
<1>3. text = Glue(path, e)
  OBVIOUS
<1> HIDE DEF one, none, p
<1>4. path \in Seq(S) /\ Glue(one, name) \in Seq(S) /\ w \in Seq(S)
  <2>1. Glue(h, one) \in Seq(S) /\ Glue(one, name) \in Seq(S)
    BY <1>1, GlueIs
  <2> QED BY <2>1, GlueIs
<1>5. text = Glue(h, w)
  <2>1. path = Glue(h, Glue(one, name))
    BY <1>1, GlueIs
  <2> HIDE DEF path
  <2>2. Glue(Glue(h, Glue(one, name)), e) = Glue(h, w)
    BY <1>4, GlueIs
  <2> QED BY ONLY <1>3, <2>1, <2>2
<1> HIDE DEF w, path
<1>6. text = none \o h \o w /\ text = none \o path \o e
  <2>1. none \o h = h /\ none \o path = path
    BY ONLY <1>4, h \in Seq(S), ConcatEmptySeq DEF none
  <2> QED BY ONLY <1>3, <1>5, <2>1 DEF Glue
<1>7. Len(path) = Len(h) + 1 + Len(name) /\ Len(h) \in Nat /\ Len(name) \in Nat /\ Len(e) \in Nat
  <2>1. path = h \o one \o name
    BY DEF path, Glue
  <2>2. one \in Seq(S)
    BY <1>1
  <2>3. Len(path) = Len(h) + Len(one) + Len(name)
    BY ONLY <2>1, <2>2, h \in Seq(S), name \in Seq(S), SliceIs
  <2> QED BY <1>1, <2>3
<1>8. SubSeq(text, 1, Len(h)) = h
  <2>1. SubSeq(text, Len(none) + 1, Len(none) + Len(h)) = h
    <3>1. none \in Seq(S) /\ w \in Seq(S) /\ text = none \o h \o w
      BY ONLY <1>1, <1>4, <1>6
    <3> QED BY ONLY <3>1, h \in Seq(S), SliceIs
  <2>2. Len(none) + 1 = 1 /\ Len(none) + Len(h) = Len(h)
    BY ONLY <1>1, <1>7
  <2> QED BY ONLY <2>1, <2>2
<1>9. SubSeq(text, 1, Len(path)) = path /\ Len(text) = Len(path) + Len(e)
  <2>1. SubSeq(text, Len(none) + 1, Len(none) + Len(path)) = path /\ Len(text) = Len(none) + Len(path) + Len(e)
    BY ONLY <1>1, <1>4, <1>6, e \in Seq(S), SliceIs
  <2>2. Len(none) + 1 = 1 /\ Len(none) + Len(path) = Len(path)
    BY ONLY <1>1, <1>7
  <2> QED BY ONLY <2>1, <2>2
<1>10. start = 1
  <2>1. Len(text) \in Nat /\ 1 \in 1..Len(text) /\ 1 + Len(h) - 1 = Len(h)
    BY ONLY <1>7, <1>9
  <2>2. SubSeq(text, 1, 1 + Len(h) - 1) = h
    BY ONLY <1>8, <2>1
  <2>3. \A m \in 1..(1 - 1) : SubSeq(text, m, m + Len(h) - 1) # h
    OBVIOUS
  <2> QED BY ONLY <2>1, <2>2, <2>3, StartIs
<1>11. end = Len(path) /\ ~(end > Len(text))
  BY ONLY <1>7, <1>9, <1>10
<1> HIDE DEF start, end
<1>12. p = path
  BY ONLY <1>2, <1>9, <1>10, <1>11
<1> QED BY ONLY <1>3, <1>4, <1>12 DEF p

(* What stands before and behind the last slash; the part behind has none. *)
LEMMA PathIs ==
    ASSUME NEW S, NEW text \in Seq(S), NEW x, x = Reference!SplitLast(text, "/")
    PROVE  /\ x[2] \in Seq(S) /\ "/" \notin ToSet(x[2])
           /\ \/ x[1] = Reference!None /\ text = x[2]
              \/ \E h \in Seq(S) : x[1] = <<h>> /\ text = Glue(Glue(h, <<"/">>), x[2])
<1>1. \/ x = <<Reference!None, text>> /\ \A i \in 1..Len(text) : text[i] # "/"
      \/ \E b, a \in Seq(S) : x = <<<<b>>, a>> /\ text = Glue(Glue(b, <<"/">>), a) /\ \A i \in 1..Len(a) : a[i] # "/"
  BY SplitsLast DEF Reference!None
<1>2. CASE x = <<Reference!None, text>> /\ \A i \in 1..Len(text) : text[i] # "/"
  <2>1. x[1] = Reference!None /\ x[2] = text
    BY ONLY <1>2
  <2>2. "/" \notin ToSet(text)
    BY <1>2 DEF ToSet
  <2> QED BY ONLY <2>1, <2>2, text \in Seq(S)
<1>3. ASSUME NEW b \in Seq(S), NEW a \in Seq(S), x = <<<<b>>, a>>, text = Glue(Glue(b, <<"/">>), a),
             \A i \in 1..Len(a) : a[i] # "/"
      PROVE  /\ x[2] \in Seq(S) /\ "/" \notin ToSet(x[2])
             /\ \E h \in Seq(S) : x[1] = <<h>> /\ text = Glue(Glue(h, <<"/">>), x[2])
  <2>1. x[1] = <<b>> /\ x[2] = a
    BY ONLY <1>3
  <2>2. "/" \notin ToSet(a)
    BY <1>3 DEF ToSet
  <2> QED BY ONLY <1>3, <2>1, <2>2
<1> QED BY ONLY <1>1, <1>2, <1>3

(* The parts of a reference, put together again, are the reference.        *)
LEMMA PartsRejoin ==
    ASSUME NEW text, Len(text) \in Nat, text = [i \in 1..Len(text) |-> text[i]], NEW p, p = Reference!ParseImage(text)
    PROVE  /\ p.tag # <<>> => "/" \notin ToSet(p.tag[1])
           /\ (p.registry # <<>> => ~Reference!Echoes(text, p.registry[1]) /\ ~Reference!Doubled(text, p.registry[1]))
                 => Reference!Rejoined(p) = text
<1> DEFINE S == {text[i] : i \in 1..Len(text)} \cup {"/"}
           digested == Reference!SplitFirst(text, "@")
           path == Reference!SplitLast(digested[1], "/")
           named == Reference!SplitFirst(path[2], ":")
           T == Reference!Optional(":", named[2])
           D == Reference!Optional("@", digested[2])
           segment == Reference!FirstSegment(path[1][1])
           registry == IF path[1] # Reference!None /\ Reference!HostLike(segment) THEN Reference!Some(segment) ELSE Reference!None
           e == Glue(T, D)
<1>1. text \in Seq(S) /\ "/" \in S
  <2>1. text \in [1..Len(text) -> S]
    OBVIOUS
  <2>2. "/" \in S
    OBVIOUS
  <2> HIDE DEF S
  <2> QED BY <2>1, <2>2
<1> HIDE DEF S
<1>0. \A s, t, z \in Seq(S) : Glue(Glue(s, t), z) = Glue(s, Glue(t, z))
  BY ONLY GlueIs
<1>2. p = [registry |-> registry, repository |-> Reference!Repository(text, path[1], registry, named[1]),
           tag |-> named[2], digest |-> digested[2]]
  BY DEF Reference!ParseImage
<1>3. p.registry = registry /\ p.repository = Reference!Repository(text, path[1], registry, named[1])
      /\ p.tag = named[2] /\ p.digest = digested[2]
  BY ONLY <1>2
<1>4. digested[1] \in Seq(S) /\ D \in Seq(S) /\ text = Glue(digested[1], D)
  BY <1>1, CutFirst
<1> HIDE DEF digested, D
<1>5. /\ path[2] \in Seq(S) /\ "/" \notin ToSet(path[2])
      /\ \/ path[1] = Reference!None /\ digested[1] = path[2]
         \/ \E h \in Seq(S) : path[1] = <<h>> /\ digested[1] = Glue(Glue(h, <<"/">>), path[2])
  BY <1>4, PathIs
<1> HIDE DEF path
<1>6. /\ named[1] \in Seq(S) /\ T \in Seq(S) /\ path[2] = Glue(named[1], T)
      /\ named[2] # <<>> => \A x \in ToSet(named[2][1]) : x \in ToSet(path[2])
  BY <1>5, CutFirst
<1> HIDE DEF named, T
<1>7. p.tag # <<>> => "/" \notin ToSet(p.tag[1])
  BY ONLY <1>3, <1>5, <1>6
<1>8. e \in Seq(S)
  BY ONLY <1>4, <1>6, GlueIs
<1>9. Reference!Rejoined(p) = Glue(Glue(Glue(IF registry = Reference!None THEN <<>> ELSE Append(registry[1], "/"),
                                       p.repository), T), D)
  BY <1>3 DEF Reference!Rejoined, Glue, T, D
<1>10. text = Glue(digested[1], D) /\ path[2] = Glue(named[1], T)
  BY ONLY <1>4, <1>6
<1> HIDE DEF registry
<1>11. ASSUME path[1] = Reference!None PROVE Reference!Rejoined(p) = text
  <2>1. registry = Reference!None /\ p.repository = named[1]
    BY <1>3, <1>11 DEF registry, Reference!Repository
  <2>2. digested[1] = path[2]
    BY <1>5, <1>11 DEF Reference!None
  <2>3. Glue(<<>>, named[1]) = named[1]
    BY ONLY <1>6, ConcatEmptySeq DEF Glue
  <2> QED BY ONLY <1>9, <1>10, <2>1, <2>2, <2>3
<1>12. ASSUME NEW h \in Seq(S), path[1] = <<h>>, digested[1] = Glue(Glue(h, <<"/">>), path[2]),
              p.registry # <<>> => ~Reference!Echoes(text, p.registry[1]) /\ ~Reference!Doubled(text, p.registry[1])
       PROVE  Reference!Rejoined(p) = text
  <2> DEFINE one == <<"/">>
             front == Glue(h, one)
  <2>1. one \in Seq(S)
    BY <1>1
  <2> HIDE DEF one
  <2>2. front \in Seq(S)
    BY ONLY <2>1, h \in Seq(S), GlueIs
  <2> HIDE DEF front
  <2>3. text = Glue(Glue(front, named[1]), e)
    <3>1. digested[1] = Glue(front, Glue(named[1], T))
      BY ONLY <1>10, <1>12 DEF front, one
    <3>2. Glue(front, Glue(named[1], T)) = Glue(Glue(front, named[1]), T)
      <4>1. named[1] \in Seq(S) /\ T \in Seq(S)
        BY ONLY <1>6
      <4> QED BY ONLY <1>0, <2>2, <4>1
    <3>3. Glue(front, named[1]) \in Seq(S)
      BY ONLY <1>6, <2>2, GlueIs
    <3>4. Glue(Glue(Glue(front, named[1]), T), D) = Glue(Glue(front, named[1]), e)
      BY ONLY <1>4, <1>6, <3>3, GlueIs
    <3> QED BY ONLY <1>10, <3>1, <3>2, <3>4
  <2>4. CASE registry = Reference!None
    <3>1. p.repository = Reference!Repository(text, <<h>>, Reference!None, named[1])
      BY ONLY <1>3, <1>12, <2>4
    <3>2. text = Glue(p.repository, e) /\ p.repository \in Seq(S)
      <4>1. text = Glue(Glue(Glue(h, <<"/">>), named[1]), e)
        BY ONLY <2>3 DEF front, one
      <4>2. named[1] \in Seq(S) /\ e \in Seq(S) /\ "/" \in S
        BY ONLY <1>1, <1>6, <1>8
      <4> HIDE DEF e
      <4> QED BY ONLY <3>1, <4>1, <4>2, h \in Seq(S), WholePathIs
    <3>3. Glue(<<>>, p.repository) = p.repository
      BY ONLY <3>2, ConcatEmptySeq DEF Glue
    <3>4. Glue(Glue(p.repository, T), D) = Glue(p.repository, e)
      <4>1. p.repository \in Seq(S) /\ T \in Seq(S) /\ D \in Seq(S)
        BY ONLY <1>4, <1>6, <3>2
      <4> QED BY ONLY <1>0, <4>1
    <3> QED BY ONLY <1>9, <2>4, <3>2, <3>3, <3>4
  <2>5. CASE registry # Reference!None
    <3> DEFINE r == Reference!FirstSegment(h)
               ahead == Append(r, "/")
    <3>1. registry = <<r>>
      BY <1>12, <2>5 DEF registry, Reference!Some
    <3>2. p.repository = Reference!Repository(text, <<h>>, <<r>>, named[1])
      BY ONLY <1>3, <1>12, <3>1
    <3>3. ~Reference!Echoes(text, r) /\ ~Reference!Doubled(text, r)
      <4>1. p.registry = <<r>> /\ p.registry # <<>> /\ p.registry[1] = r
        BY ONLY <1>3, <3>1
      <4> HIDE DEF r
      <4> QED BY ONLY <1>12, <4>1
    <3>4. text = Glue(Glue(Append(r, "/"), p.repository), e) /\ p.repository \in Seq(S) /\ r \in Seq(S)
      <4>1. text = Glue(Glue(Glue(h, <<"/">>), named[1]), e)
        BY ONLY <2>3 DEF front, one
      <4>2. named[1] \in Seq(S) /\ e \in Seq(S) /\ "/" \in S
        BY ONLY <1>1, <1>6, <1>8
      <4>3. r = Reference!FirstSegment(h)
        OBVIOUS
      <4> HIDE DEF e, r
      <4> QED BY ONLY <3>2, <3>3, <4>1, <4>2, <4>3, h \in Seq(S), RepositoryIs
    <3> HIDE DEF r
    <3>5. ahead \in Seq(S)
      BY ONLY <1>1, <3>4
    <3> HIDE DEF ahead
    <3>6. text = Glue(Glue(ahead, p.repository), e)
      BY ONLY <3>4 DEF ahead
    <3>7. Glue(ahead, p.repository) \in Seq(S)
      BY ONLY <3>4, <3>5, GlueIs
    <3>8. Glue(Glue(Glue(ahead, p.repository), T), D) = Glue(Glue(ahead, p.repository), e)
      BY ONLY <1>4, <1>6, <3>7, GlueIs
    <3>9. Reference!Rejoined(p) = Glue(Glue(Glue(ahead, p.repository), T), D)
      <4>1. registry # Reference!None /\ registry[1] = r
        BY ONLY <2>5, <3>1
      <4> QED BY ONLY <1>9, <4>1 DEF ahead
    <3> QED BY ONLY <3>6, <3>8, <3>9
  <2> QED BY ONLY <2>4, <2>5
<1> QED BY ONLY <1>5, <1>7, <1>11, <1>12
=============================================================================
