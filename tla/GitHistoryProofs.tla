-------------------------- MODULE GitHistoryProofs --------------------------
(***************************************************************************)
(* Proofs about GitWalk and GitHistory for every repository, every object  *)
(* store, every setting and every ceiling: the safety properties that      *)
(* MCGitWalk and MCGitHistory check on three commits.                      *)
(*                                                                         *)
(* The walk.  The inductive invariant IInv says what the loops maintain:   *)
(* every oid offered is either read or missing (Accounts), what was read   *)
(* is kept or still in the frontier (Split), is led to by the tips         *)
(* (Grounded), and is no newer than what is kept if dates allow (Ordered); *)
(* and the marking pass is a closure computation within the kept commits   *)
(* (Marks).                                                                *)
(*                                                                         *)
(* The graph.  The walk keeps IInv, since what is written after it changes *)
(* none of its variables; the graph then grows by one node at a time, with *)
(* the edges that leave it, from what the walk kept.                       *)
(*                                                                         *)
(* Written: the nodes are those of the turns taken, each rebase with a key *)
(* of its own.  Pointed: an edge's ends are written or will be.  Counted:  *)
(* what the turns taken called for is in the graph or in `dropped`.        *)
(***************************************************************************)
EXTENDS GitHistory, FiniteSetTheorems, TLAPS

allTips == refTips \cup logTips

(* Every oid offered was read or found missing, and every parent of a kept *)
(* commit was offered, as was every tip no longer on the list.             *)
Accounts ==
    /\ seen = commits \cup missing
    /\ missing \cap (commits \cup store) = {}
    /\ allTips \ (todo \cup {Zero}) \subseteq seen
    /\ \A c \in selected : ParentsOf(c) \subseteq seen
    /\ \A m \in missing : m \in allTips \/ \E c \in selected : m \in ParentsOf(c)

(* While the walk runs, a commit read is in the frontier or kept, not both. *)
Split ==
    /\ phase = "walk" =>
         /\ commits = selected \cup frontier
         /\ selected \cap frontier = {}
         /\ ~truncated /\ stack = {} /\ reachable = {}
    /\ todo # {} => phase = "walk" /\ selected = {}
    /\ phase # "walk" => (truncated <=> commits # selected)

(* What was read is in every set that holds the tips read and, with each   *)
(* of its commits, the parents read.                                       *)
ReadClosed(S) ==
    /\ allTips \cap commits \subseteq S
    /\ \A c \in S \cap commits : ParentsOf(c) \cap commits \subseteq S
Grounded == \A S \in SUBSET Oid : ReadClosed(S) => commits \subseteq S

(* Nothing read and not kept is newer than what is kept. *)
Ordered ==
    DatesNonIncreasing => \A k \in selected : \A f \in commits \ selected : ts[f] <= ts[k]

(* The list and the set of kept commits agree, within the ceiling. *)
Listed ==
    /\ selected = {order[i] : i \in DOMAIN order}
    /\ \A i, j \in DOMAIN order : order[i] = order[j] => i = j
    /\ DatesNonIncreasing =>
         \A i, j \in DOMAIN order : i < j => ts[order[j]] <= ts[order[i]]
    /\ max > 0 => Len(order) <= max
    /\ truncated => Len(order) = max

(* The marking pass: what it has visited or has still to visit is led to   *)
(* by the kept ref tips through kept commits, and nothing is forgotten.    *)
KeptClosed(S) ==
    /\ refTips \cap selected \subseteq S
    /\ \A c \in S \cap selected : ParentsOf(c) \cap selected \subseteq S
Marks ==
    /\ phase # "walk" =>
         /\ refTips \cap selected \subseteq stack \cup reachable
         /\ \A c \in reachable : ParentsOf(c) \cap selected \subseteq stack \cup reachable
         /\ \A S \in SUBSET Oid : KeptClosed(S) => stack \cup reachable \subseteq S
    /\ phase = "done" => stack = {}

IInv ==
    TypeOK /\ Accounts /\ Split /\ Grounded /\ Ordered /\ Listed /\ Marks
----------------------------------------------------------------------------
(* A commit's parents are oids. *)
LEMMA ParentsTyped ==
    ASSUME TypeOK, NEW c \in Oid
    PROVE  ParentsOf(c) \subseteq Oid
BY DEF TypeOK, ParentsOf

(* A read never names the all-zero oid, nor an oid twice. *)
LEMMA FreshTyped ==
    ASSUME NEW oids, oids \subseteq Oid \cup {Zero}
    PROVE  /\ Fresh(oids) \subseteq oids \cap Oid
           /\ Fresh(oids) \cap seen = {}
BY OidAssumption DEF Fresh

(* However the tips were come by, a walk that has not begun is typed. *)
LEMMA StartTyped ==
    ASSUME parents \in [Oid -> Seq(Oid)], ts \in [Oid -> Int], max \in Nat,
           refTips \subseteq Oid, logTips \subseteq Oid \cup {Zero}, store \subseteq Oid,
           WalkInit
    PROVE  TypeOK
BY <<>> \in Seq(Oid) DEF WalkInit, TypeOK

LEMMA TypeInit == Init => TypeOK
<1> SUFFICES ASSUME Init PROVE TypeOK
  OBVIOUS
<1>1. parents \in [Oid -> Seq(Oid)] /\ ts \in [Oid -> Int] /\ max \in Nat
  BY HistoriesAssumption, DatesAssumption, CeilingsAssumption DEF Init
<1>2. refTips \subseteq Oid /\ logTips \subseteq Oid \cup {Zero}
  BY TipsAssumption DEF Init
<1>3. store \subseteq Oid
  BY StoresAssumption DEF Init
<1> QED BY <1>1, <1>2, <1>3, StartTyped DEF Init

LEMMA TypeNext == TypeOK /\ [Next]_vars => TypeOK'
<1> SUFFICES ASSUME TypeOK, [Next]_vars PROVE TypeOK'
  OBVIOUS
<1> USE DEF TypeOK
<1>1. ASSUME NEW t \in todo, OfferTip(t) PROVE TypeOK'
  <2>1. Fresh({t}) \subseteq Oid
    BY FreshTyped
  <2> QED BY <1>1, <2>1 DEF OfferTip, Offer, repo
<1>2. ASSUME NEW c \in frontier, Keep(c) PROVE TypeOK'
  <2>1. c \in Oid /\ c \in commits /\ Fresh(ParentsOf(c)) \subseteq Oid
    BY ParentsTyped, FreshTyped
  <2> QED BY <1>2, <2>1 DEF Keep, Offer, repo
<1>3. ASSUME NEW c \in frontier, HitCeiling(c) PROVE TypeOK'
  BY <1>3 DEF HitCeiling, StartMarking, repo
<1>4. CASE Exhaust
  BY <1>4 DEF Exhaust, StartMarking, repo, walk
<1>5. ASSUME NEW c \in stack, Mark(c) PROVE TypeOK'
  BY <1>5 DEF Mark, repo, walk
<1>6. CASE Marked
  BY <1>6 DEF Marked, repo, walk
<1>7. ASSUME NEW c \in store, Prune(c) PROVE TypeOK'
  BY <1>7 DEF Prune, repo, walk
<1>8. CASE UNCHANGED vars
  BY <1>8 DEF vars, repo, walk
<1> QED BY <1>1, <1>2, <1>3, <1>4, <1>5, <1>6, <1>7, <1>8 DEF Next, Step

(* Type correctness, for every repository. *)
THEOREM TypeCorrect == Spec => []TypeOK
<1>1. Init => TypeOK
  BY TypeInit
<1>2. TypeOK /\ [Next]_vars => TypeOK'
  BY TypeNext
<1> QED BY <1>1, <1>2, PTL DEF Spec
----------------------------------------------------------------------------
(* Only OfferTip and Keep read commits or change what is kept, and no step *)
(* adds to the object store.                                               *)
Still == UNCHANGED <<repo, seen, commits, missing, order, selected, todo>>

LEMMA StillSteps ==
    ASSUME [Next]_vars,
           ~(\E t \in todo : OfferTip(t)), ~(\E c \in frontier : Keep(c))
    PROVE  Still /\ store' \subseteq store
<1> USE DEF Still
<1>1. ASSUME NEW c \in frontier, HitCeiling(c) PROVE Still /\ store' = store
  BY <1>1 DEF HitCeiling
<1>2. ASSUME NEW c \in stack, Mark(c) PROVE Still /\ store' = store
  BY <1>2 DEF Mark, walk
<1>3. ASSUME NEW c \in store, Prune(c) PROVE Still /\ store' \subseteq store
  BY <1>3 DEF Prune, walk
<1>4. Exhaust \/ Marked \/ UNCHANGED vars => Still /\ store' = store
  BY DEF Exhaust, Marked, walk, vars
<1> QED BY <1>1, <1>2, <1>3, <1>4 DEF Next, Step

(* Every oid offered stays accounted for. *)
LEMMA AccountsNext == TypeOK /\ Accounts /\ Split /\ [Next]_vars => Accounts'
<1> SUFFICES ASSUME TypeOK, Accounts, Split, [Next]_vars PROVE Accounts'
  OBVIOUS
<1> USE DEF Accounts, allTips
<1>1. ASSUME NEW t \in todo, OfferTip(t) PROVE Accounts'
  <2>1. parents' = parents /\ refTips' = refTips /\ logTips' = logTips /\ store' = store
        /\ selected' = selected /\ todo' = todo \ {t}
    BY <1>1 DEF OfferTip, repo
  <2>2. \A c \in selected : ParentsOf(c)' = ParentsOf(c)
    BY <2>1 DEF ParentsOf
  <2>3. Fresh({t}) \subseteq {t} /\ {t} \subseteq Fresh({t}) \cup seen \cup {Zero}
        /\ Fresh({t}) \cap seen = {}
    BY DEF Fresh
  <2>4. /\ seen' = seen \cup Fresh({t})
        /\ commits' = commits \cup (Fresh({t}) \cap store)
        /\ missing' = missing \cup (Fresh({t}) \ store)
    BY <1>1 DEF OfferTip, Offer
  <2>5. t \in refTips \cup logTips
    BY DEF TypeOK
  <2>6. \A m \in missing' : m \in (refTips \cup logTips) \/ \E c \in selected : m \in ParentsOf(c)
    BY <2>3, <2>4, <2>5
  <2>7. \A c \in selected' : ParentsOf(c)' \subseteq seen'
    BY <2>1, <2>2, <2>4
  <2>8. (refTips \cup logTips) \ (todo' \cup {Zero}) \subseteq seen'
    BY <2>1, <2>3, <2>4
  <2>9. missing' \cap (commits' \cup store') = {} /\ seen' = commits' \cup missing'
    BY <2>1, <2>3, <2>4
  <2>10. \A m \in missing' :
           m \in (refTips \cup logTips)' \/ \E c \in selected' : m \in ParentsOf(c)'
    BY <2>1, <2>2, <2>6
  <2> QED BY <2>1, <2>7, <2>8, <2>9, <2>10
<1>2. ASSUME NEW c \in frontier, Keep(c) PROVE Accounts'
  <2>1. parents' = parents /\ refTips' = refTips /\ logTips' = logTips /\ store' = store
        /\ selected' = selected \cup {c} /\ todo' = todo
    BY <1>2 DEF Keep, repo
  <2>2. \A d : ParentsOf(d)' = ParentsOf(d)
    BY <2>1 DEF ParentsOf
  <2> DEFINE new == Fresh(ParentsOf(c))
  <2>3. new \subseteq ParentsOf(c) /\ ParentsOf(c) \subseteq new \cup seen
        /\ new \cap seen = {}
    BY ParentsTyped, OidAssumption DEF Fresh, TypeOK
  <2>4. /\ seen' = seen \cup new
        /\ commits' = commits \cup (new \cap store)
        /\ missing' = missing \cup (new \ store)
    BY <1>2 DEF Keep, Offer
  <2> HIDE DEF new
  <2>5. \A m \in missing' : \/ m \in (refTips \cup logTips)
                            \/ \E d \in selected \cup {c} : m \in ParentsOf(d)
    BY <2>3, <2>4
  <2>6. \A d \in selected \cup {c} : ParentsOf(d) \subseteq seen'
    BY <2>3, <2>4
  <2> QED BY <2>1, <2>2, <2>3, <2>4, <2>5, <2>6
<1>3. CASE Still /\ store' \subseteq store
  BY <1>3 DEF Still, repo, ParentsOf
<1> QED BY <1>1, <1>2, <1>3, StillSteps

(* A commit read is in exactly one of the frontier and the kept set. *)
LEMMA SplitNext == TypeOK /\ Accounts /\ Split /\ [Next]_vars => Split'
<1> SUFFICES ASSUME TypeOK, Accounts, Split, [Next]_vars PROVE Split'
  OBVIOUS
<1> USE DEF Split
<1>1. ASSUME NEW t \in todo, OfferTip(t) PROVE Split'
  <2>1. Fresh({t}) \cap seen = {}
    BY DEF Fresh
  <2> QED BY <1>1, <2>1 DEF OfferTip, Offer, TypeOK
<1>2. ASSUME NEW c \in frontier, Keep(c) PROVE Split'
  <2>1. Fresh(ParentsOf(c)) \cap seen = {}
    BY DEF Fresh
  <2> QED BY <1>2, <2>1 DEF Keep, Offer, TypeOK
<1>3. ASSUME NEW c \in frontier, HitCeiling(c) PROVE Split'
  <2>1. c \in commits /\ c \notin selected
    BY <1>3 DEF HitCeiling
  <2> QED BY <1>3, <2>1 DEF HitCeiling, StartMarking
<1>4. CASE Exhaust
  BY <1>4 DEF Exhaust, StartMarking, walk
<1>5. ASSUME NEW c \in stack, Mark(c) PROVE Split'
  BY <1>5 DEF Mark, walk
<1>6. CASE Marked
  BY <1>6 DEF Marked, walk
<1>7. ASSUME NEW c \in store, Prune(c) PROVE Split'
  BY <1>7 DEF Prune, walk
<1>8. CASE UNCHANGED vars
  BY <1>8 DEF vars, walk
<1> QED BY <1>1, <1>2, <1>3, <1>4, <1>5, <1>6, <1>7, <1>8 DEF Next, Step

(* Nothing is read that the tips do not lead to. *)
LEMMA GroundedNext == TypeOK /\ Split /\ Grounded /\ [Next]_vars => Grounded'
<1> SUFFICES ASSUME TypeOK, Split, Grounded, [Next]_vars,
                    NEW S \in SUBSET Oid, ReadClosed(S)'
             PROVE  commits' \subseteq S
  BY DEF Grounded
<1> USE DEF allTips
<1>1. ASSUME UNCHANGED repo, commits \subseteq commits'
      PROVE  commits \subseteq S
  <2>1. \A c : ParentsOf(c)' = ParentsOf(c)
    BY <1>1 DEF ParentsOf, repo
  <2>2. ReadClosed(S)
    BY <1>1, <2>1 DEF ReadClosed, repo
  <2> QED BY <2>2 DEF Grounded
<1>2. ASSUME NEW t \in todo, OfferTip(t) PROVE commits' \subseteq S
  <2>1. /\ UNCHANGED repo /\ commits \subseteq commits'
        /\ commits' \subseteq commits \cup {t} /\ t \in refTips \cup logTips
    BY <1>2 DEF OfferTip, Offer, Fresh, TypeOK
  <2>2. commits \subseteq S
    BY <1>1, <2>1
  <2> QED BY <2>1, <2>2 DEF ReadClosed, repo
<1>3. ASSUME NEW c \in frontier, Keep(c) PROVE commits' \subseteq S
  <2>1. /\ UNCHANGED repo /\ commits \subseteq commits'
        /\ commits' \subseteq commits \cup ParentsOf(c) /\ c \in commits
    BY <1>3 DEF Keep, Offer, Fresh, TypeOK
  <2>2. commits \subseteq S
    BY <1>1, <2>1
  <2>3. ParentsOf(c)' = ParentsOf(c)
    BY <2>1 DEF ParentsOf, repo
  <2>4. ParentsOf(c) \cap commits' \subseteq S
    BY <2>1, <2>2, <2>3 DEF ReadClosed
  <2> QED BY <2>1, <2>2, <2>4
<1>4. CASE Still
  BY <1>1, <1>4 DEF Still
<1> QED BY <1>2, <1>3, <1>4, StillSteps

(* No commit still to be kept is newer than a kept one, if dates allow. *)
LEMMA OrderedNext == TypeOK /\ Split /\ Ordered /\ [Next]_vars => Ordered'
<1> SUFFICES ASSUME TypeOK, Split, Ordered, [Next]_vars, DatesNonIncreasing',
                    NEW k \in selected', NEW f \in commits' \ selected'
             PROVE  (ts[f] <= ts[k])'
  BY DEF Ordered
<1>1. UNCHANGED <<parents, ts>> => DatesNonIncreasing
  BY DEF DatesNonIncreasing, ParentsOf
<1>2. ASSUME NEW t \in todo, OfferTip(t) PROVE FALSE
  BY <1>2 DEF OfferTip, Split
<1>3. ASSUME NEW c \in frontier, Keep(c) PROVE (ts[f] <= ts[k])'
  <2>1. /\ UNCHANGED <<parents, ts>>
        /\ selected' = selected \cup {c} /\ c \in Oid
        /\ f \in commits \cup ParentsOf(c)
        /\ c \in commits \ selected
    BY <1>3 DEF Keep, Offer, Fresh, TypeOK, repo, Split
  <2>2. DatesNonIncreasing
    BY <1>1, <2>1
  <2>3. f \in Oid /\ k \in Oid
    BY <2>1, ParentsTyped DEF TypeOK
  <2>4. ts[f] \in Int /\ ts[k] \in Int /\ ts[c] \in Int
    BY <2>1, <2>3 DEF TypeOK
  <2>5. k \in selected => ts[c] <= ts[k]
    BY <2>1, <2>2 DEF Ordered
  <2>6. f \in ParentsOf(c) => ts[f] <= ts[c]
    BY <2>1, <2>2 DEF DatesNonIncreasing
  <2>7. f \in commits => f \in frontier
    BY <1>3, <2>1 DEF Split, Keep
  <2>8. f \in commits => ts[f] <= ts[c]
    BY <1>3, <2>7 DEF Keep, Newest
  <2>9. ts[f] <= ts[c] /\ ts[c] <= ts[k]
    BY <2>1, <2>4, <2>5, <2>6, <2>8
  <2>10. ts[f] <= ts[k]
    BY <2>4, <2>9
  <2> QED BY <2>1, <2>10
<1>4. CASE Still
  BY <1>1, <1>4 DEF Ordered, Still, repo
<1> QED BY <1>2, <1>3, <1>4, StillSteps

(* The list of kept commits: no repetition, newest first if dates allow,   *)
(* and never beyond the ceiling.                                           *)
LEMMA ListedNext ==
    TypeOK /\ Split /\ Ordered /\ Listed /\ [Next]_vars => Listed'
<1> SUFFICES ASSUME TypeOK, Split, Ordered, Listed, [Next]_vars PROVE Listed'
  OBVIOUS
<1>1. ASSUME NEW t \in todo, OfferTip(t) PROVE Listed'
  BY <1>1 DEF OfferTip, Listed, repo, DatesNonIncreasing, ParentsOf
<1>2. ASSUME NEW c \in frontier, Keep(c) PROVE Listed'
  <2> DEFINE n == Len(order)
  <2>1. /\ UNCHANGED <<parents, ts, max, truncated>> /\ truncated = FALSE
        /\ order' = Append(order, c) /\ selected' = selected \cup {c}
        /\ c \in Oid /\ c \in commits \ selected
        /\ max > 0 => n < max
    BY <1>2 DEF Keep, repo, TypeOK, Split, AtCeiling
  <2>2. /\ n \in Nat /\ DOMAIN order = 1..n /\ DOMAIN order' = 1..(n + 1)
        /\ \A i \in 1..n : order'[i] = order[i] /\ order[i] \in selected
        /\ order'[n + 1] = c /\ Len(order') = n + 1
    BY <2>1 DEF TypeOK, Listed
  <2>3. selected' = {order'[i] : i \in DOMAIN order'}
    <3>1. \A x \in selected : \E i \in 1..n : x = order'[i]
      BY <2>2 DEF Listed
    <3> QED BY <2>1, <2>2, <3>1
  <2>4. \A i, j \in DOMAIN order' : order'[i] = order'[j] => i = j
    BY <2>1, <2>2 DEF Listed
  <2>5. ASSUME DatesNonIncreasing', NEW i \in DOMAIN order', NEW j \in DOMAIN order', i < j
        PROVE  ts[order'[j]] <= ts[order'[i]]
    <3>1. DatesNonIncreasing
      BY <2>1, <2>5 DEF DatesNonIncreasing, ParentsOf
    <3>2. CASE j = n + 1
      BY <2>1, <2>2, <2>5, <3>1, <3>2 DEF Ordered
    <3>3. CASE j # n + 1
      <4>1. i \in 1..n /\ j \in 1..n
        BY <2>2, <2>5, <3>3
      <4> QED BY <2>2, <2>5, <3>1, <4>1 DEF Listed
    <3> QED BY <3>2, <3>3
  <2>6. max > 0 => Len(order') <= max
    BY <2>1, <2>2 DEF TypeOK
  <2> QED BY <2>1, <2>3, <2>4, <2>5, <2>6 DEF Listed
<1>3. ASSUME NEW c \in frontier, HitCeiling(c) PROVE Listed'
  <2>1. Len(order) = max
    BY <1>3 DEF HitCeiling, AtCeiling, Listed, TypeOK
  <2> QED BY <1>3, <2>1 DEF HitCeiling, Listed, repo, DatesNonIncreasing, ParentsOf
<1>4. CASE Still /\ truncated' = truncated
  BY <1>4 DEF Still, Listed, repo, DatesNonIncreasing, ParentsOf
<1>5. ASSUME NEW c \in stack, Mark(c) PROVE truncated' = truncated
  BY <1>5 DEF Mark, walk
<1>6. ASSUME NEW c \in store, Prune(c) PROVE truncated' = truncated
  BY <1>6 DEF Prune, walk
<1>7. Exhaust \/ Marked \/ UNCHANGED vars => truncated' = truncated
  BY DEF Exhaust, Marked, walk, vars
<1> QED BY <1>1, <1>2, <1>3, <1>4, <1>5, <1>6, <1>7, StillSteps DEF Next, Step

(* The marking pass starts at the kept ref tips, and only there. *)
LEMMA StartMarkingMarks ==
    ASSUME TypeOK, reachable = {}, UNCHANGED <<repo, selected, reachable>>, StartMarking
    PROVE  Marks'
BY DEF StartMarking, Marks, KeptClosed, repo, TypeOK

(* The marking pass forgets nothing and invents nothing. *)
LEMMA MarksNext == TypeOK /\ Split /\ Marks /\ [Next]_vars => Marks'
<1> SUFFICES ASSUME TypeOK, Split, Marks, [Next]_vars PROVE Marks'
  OBVIOUS
<1>1. ASSUME NEW t \in todo, OfferTip(t) PROVE Marks'
  BY <1>1 DEF OfferTip, Marks
<1>2. ASSUME NEW c \in frontier, Keep(c) PROVE Marks'
  BY <1>2 DEF Keep, Marks
<1>3. ASSUME NEW c \in frontier, HitCeiling(c) PROVE Marks'
  <2>1. reachable = {}
    BY <1>3 DEF HitCeiling, Split
  <2> QED BY <1>3, <2>1, StartMarkingMarks DEF HitCeiling
<1>4. CASE Exhaust
  <2>1. reachable = {} /\ UNCHANGED <<repo, selected, reachable>>
    BY <1>4 DEF Exhaust, Split, walk
  <2> QED BY <1>4, <2>1, StartMarkingMarks DEF Exhaust
<1>5. ASSUME NEW c \in stack, Mark(c) PROVE Marks'
  <2>1. /\ phase = "mark" /\ phase' = "mark" /\ UNCHANGED <<repo, selected>>
        /\ reachable' = reachable \cup {c}
        /\ stack' = (stack \ {c}) \cup ((ParentsOf(c) \cap selected) \ (reachable \cup {c}))
        /\ c \in selected
    BY <1>5 DEF Mark, walk, TypeOK
  <2>2. \A d : ParentsOf(d)' = ParentsOf(d)
    BY <2>1 DEF ParentsOf, repo
  <2>3. (refTips \cap selected)' \subseteq stack' \cup reachable'
    BY <2>1 DEF Marks, repo
  <2>4. \A d \in reachable' : (ParentsOf(d) \cap selected)' \subseteq stack' \cup reachable'
    BY <2>1, <2>2 DEF Marks
  <2>5. ASSUME NEW S \in SUBSET Oid, KeptClosed(S)' PROVE stack' \cup reachable' \subseteq S
    <3>1. KeptClosed(S)
      BY <2>1, <2>2, <2>5 DEF KeptClosed, repo
    <3>2. stack \cup reachable \subseteq S /\ c \in S
      BY <2>1, <3>1, <1>5 DEF Marks
    <3>3. ParentsOf(c) \cap selected \subseteq S
      BY <2>1, <3>1, <3>2 DEF KeptClosed
    <3> QED BY <2>1, <3>2, <3>3
  <2> QED BY <2>1, <2>3, <2>4, <2>5 DEF Marks
<1>6. ASSUME UNCHANGED <<repo, selected, stack, reachable>>, phase = "walk" <=> phase' = "walk",
             phase' = "done" => stack' = {}
      PROVE  Marks'
  BY <1>6 DEF Marks, KeptClosed, ParentsOf, repo
<1>7. CASE Marked
  BY <1>6, <1>7 DEF Marked, walk
<1>8. ASSUME NEW c \in store, Prune(c) PROVE Marks'
  BY <1>6, <1>8 DEF Prune, walk
<1>9. CASE UNCHANGED vars
  BY <1>6, <1>9 DEF vars, walk, Marks
<1> QED BY <1>1, <1>2, <1>3, <1>4, <1>5, <1>7, <1>8, <1>9 DEF Next, Step
----------------------------------------------------------------------------
LEMMA WalkStarts == TypeOK /\ WalkInit => IInv
<1> SUFFICES ASSUME TypeOK, WalkInit PROVE IInv
  OBVIOUS
<1>1. Accounts /\ Split /\ Grounded /\ Ordered /\ Marks
  BY DEF WalkInit, Accounts, Split, Grounded, Ordered, Marks, allTips
<1>2. Listed
  <2>1. order = <<>> /\ DOMAIN order = {} /\ Len(order) = 0 /\ selected = {} /\ truncated = FALSE
    BY DEF WalkInit
  <2> QED BY <2>1 DEF Listed, TypeOK
<1> QED BY <1>1, <1>2 DEF IInv

LEMMA IInvInit == Init => IInv
BY TypeInit, WalkStarts DEF Init

LEMMA IInvNext == IInv /\ [Next]_vars => IInv'
BY TypeNext, AccountsNext, SplitNext, GroundedNext, OrderedNext, ListedNext, MarksNext DEF IInv

THEOREM Invariance == Spec => []IInv
<1> QED BY IInvInit, IInvNext, PTL DEF Spec
----------------------------------------------------------------------------
(* What the walk has accounted for once it has ended. *)
LEMMA WalkEnded ==
    ASSUME IInv, phase # "walk"
    PROVE  /\ allTips \ (missing \cup {Zero}) \subseteq commits
           /\ \A c \in selected : ParentsOf(c) \ missing \subseteq commits
           /\ commits \subseteq Oid /\ selected \subseteq commits
           /\ commits \cap missing = {}
<1>1. todo = {}
  BY DEF IInv, Split
<1> QED BY <1>1 DEF IInv, Accounts, TypeOK

LEMMA CompleteFromInv == IInv => CompleteUnlessTruncated
<1> SUFFICES ASSUME IInv, phase # "walk", ~truncated
             PROVE  selected = Leads(allTips)
  BY DEF CompleteUnlessTruncated, allTips
<1>1. commits = selected
  BY DEF IInv, Split
<1>2. ASSUME NEW c \in selected, NEW S \in SUBSET Oid, Closed(allTips, S)
      PROVE  c \in S
  <2>1. ReadClosed(S)
    BY <1>2, WalkEnded, OidAssumption DEF Closed, ReadClosed
  <2> QED BY <1>1, <2>1 DEF IInv, Grounded
<1>3. Closed(allTips, selected)
  BY <1>1, WalkEnded DEF Closed
<1> QED BY <1>1, <1>2, <1>3, WalkEnded DEF Leads

(* A read the ceiling did not stop keeps exactly what the tips lead to, on *)
(* every repository, with `git gc` deleting objects meanwhile.             *)
THEOREM Completeness == Spec => []CompleteUnlessTruncated
<1> QED BY Invariance, CompleteFromInv, PTL

(* A truncated graph never looks like a complete one, at any ceiling. *)
THEOREM CeilingIsHonest == Spec => []CeilingHonest
<1>1. IInv => CeilingHonest
  BY DEF IInv, CeilingHonest, Listed, Split
<1> QED BY Invariance, <1>1, PTL

(* No commit is kept twice. *)
THEOREM NoCommitTwice == Spec => []KeptOnce
<1>1. IInv => KeptOnce
  BY DEF IInv, KeptOnce, Listed
<1> QED BY Invariance, <1>1, PTL

(* What is reported missing was named, and is not held. *)
THEOREM MissingIsHonest == Spec => []MissingIsNamed
<1>1. IInv => MissingIsNamed
  BY OidAssumption DEF IInv, MissingIsNamed, Accounts, TypeOK, allTips
<1> QED BY Invariance, <1>1, PTL

LEMMA NewestFromInv == IInv => NewestKept
<1> SUFFICES ASSUME IInv, phase # "walk", DatesNonIncreasing
             PROVE  /\ \A k \in selected : \A u \in Leads(allTips) \ selected : ts[u] <= ts[k]
                    /\ \A i, j \in DOMAIN order : i < j => ts[order[j]] <= ts[order[i]]
  BY DEF NewestKept, allTips
<1> DEFINE older == {x \in Oid : \A k \in selected : ts[x] <= ts[k]}
<1>1. commits \ selected \subseteq older
  BY WalkEnded DEF IInv, Ordered
<1>2. ASSUME NEW x \in older PROVE ParentsOf(x) \subseteq older
  <2>1. ASSUME NEW p \in ParentsOf(x), NEW k \in selected PROVE p \in Oid /\ ts[p] <= ts[k]
    <3>1. p \in Oid /\ k \in Oid
      BY ParentsTyped, WalkEnded DEF IInv
    <3>2. ts[p] \in Int /\ ts[x] \in Int /\ ts[k] \in Int
      BY <3>1 DEF IInv, TypeOK
    <3>3. ts[p] <= ts[x] /\ ts[x] <= ts[k]
      BY DEF DatesNonIncreasing
    <3> QED BY <3>1, <3>2, <3>3
  <2> QED BY <2>1, ParentsTyped DEF IInv
<1>3. Closed(allTips, selected \cup older)
  BY <1>1, <1>2, WalkEnded DEF Closed
<1>4. Leads(allTips) \subseteq selected \cup older
  BY <1>3, WalkEnded DEF Leads
<1>5. \A i, j \in DOMAIN order : i < j => ts[order[j]] <= ts[order[i]]
  BY DEF IInv, Listed
<1> QED BY <1>4, <1>5

(* A ceiling keeps the newest commits, when no commit is older than its    *)
(* parents; without that assumption TLC has counterexamples.               *)
THEOREM CeilingKeepsNewest == Spec => []NewestKept
<1> QED BY Invariance, NewestFromInv, PTL

LEMMA ReachableFromInv == IInv => ReachableExact
<1> SUFFICES ASSUME IInv, phase = "done", ~truncated \/ DatesDecreasing
             PROVE  reachable = selected \cap Leads(refTips)
  BY DEF ReachableExact
<1>1. /\ refTips \cap selected \subseteq reachable /\ reachable \subseteq selected
      /\ \A c \in reachable : ParentsOf(c) \cap selected \subseteq reachable
      /\ \A S \in SUBSET Oid : KeptClosed(S) => reachable \subseteq S
  BY DEF IInv, Marks, TypeOK
<1>2. ASSUME NEW S \in SUBSET Oid, Closed(refTips, S) PROVE reachable \subseteq S
  <2>1. KeptClosed(S)
    BY <1>2, WalkEnded, OidAssumption DEF Closed, KeptClosed
  <2> QED BY <1>1, <2>1
<1>3. refTips \ (missing \cup {Zero}) \subseteq commits
  BY WalkEnded DEF allTips
<1>4. CASE ~truncated
  <2>1. Closed(refTips, reachable)
    BY <1>1, <1>3, <1>4, WalkEnded DEF Closed, IInv, Split
  <2> QED BY <1>1, <1>2, <2>1, WalkEnded DEF Leads
<1>5. CASE DatesDecreasing
  <2> DEFINE below == {x \in Oid \ selected : \A k \in selected : ts[x] <= ts[k]}
  <2>1. DatesNonIncreasing
    <3> SUFFICES ASSUME NEW c \in Oid, NEW p \in ParentsOf(c) PROVE ts[p] <= ts[c]
      BY DEF DatesNonIncreasing
    <3>1. p \in Oid /\ ts[p] \in Int /\ ts[c] \in Int
      BY ParentsTyped DEF IInv, TypeOK
    <3> QED BY <1>5, <3>1 DEF DatesDecreasing
  <2>2. commits \ selected \subseteq below
    BY <2>1, WalkEnded DEF IInv, Ordered
  <2>3. ASSUME NEW x \in below, NEW p \in ParentsOf(x) PROVE p \in below
    <3>1. p \in Oid /\ ts[p] < ts[x]
      BY <1>5, ParentsTyped DEF IInv, DatesDecreasing
    <3>2. ASSUME NEW k \in selected PROVE ts[p] < ts[k]
      <4>1. k \in Oid /\ ts[p] \in Int /\ ts[x] \in Int /\ ts[k] \in Int
        BY <3>1, WalkEnded DEF IInv, TypeOK
      <4> QED BY <3>1, <4>1
    <3>3. ASSUME NEW k \in selected PROVE ts[p] <= ts[k] /\ p # k
      <4>1. ts[p] \in Int /\ ts[k] \in Int
        BY <3>1, WalkEnded DEF IInv, TypeOK
      <4> QED BY <3>2, <4>1
    <3> QED BY <3>1, <3>3
  <2>4. Closed(refTips, reachable \cup below)
    <3>1. refTips \ (missing \cup {Zero}) \subseteq reachable \cup below
      BY <1>1, <1>3, <2>2
    <3>2. \A c \in reachable : ParentsOf(c) \ missing \subseteq reachable \cup below
      BY <1>1, <2>2, WalkEnded
    <3> QED BY <2>3, <3>1, <3>2 DEF Closed
  <2>5. Leads(refTips) \cap selected \subseteq reachable
    BY <1>1, <2>4, WalkEnded DEF Leads
  <2> QED BY <1>1, <1>2, <2>5, WalkEnded DEF Leads
<1> QED BY <1>4, <1>5

(* `reachable` is exact when the read is complete, and when it is not but  *)
(* every commit is newer than its parents: clock skew, and dates that tie, *)
(* are the only way a truncated read can get it wrong.                     *)
THEOREM ReachableIsExact == Spec => []ReachableExact
<1> QED BY Invariance, ReachableFromInv, PTL
----------------------------------------------------------------------------
(***************************************************************************)
(* The graph written after the walk.                                       *)
(***************************************************************************)
names == Collected(world, opts)

(* Nothing is written before the walk has ended. *)
Unwritten ==
    /\ emitted = 0 /\ runsDone = 0 /\ refsLeft = names
    /\ nodes = {} /\ edges = {} /\ dropped = 0 /\ notes = {}

CommitNodes == {CommitKey(order[i]) : i \in 1..emitted}
RefNodes == {RefKey(name) : name \in names \ refsLeft}
RunNodes == {k \in nodes : k[1] = "rebase"}
Written ==
    /\ emitted \in 0..Len(order) /\ runsDone \in Nat /\ refsLeft \subseteq names
    /\ nodes = CommitNodes \cup RefNodes \cup RunNodes
    /\ IsFiniteSet(RunNodes) /\ Cardinality(RunNodes) = runsDone

(* An edge leaves a node already written, for a commit kept or a ref that  *)
(* was collected, which need not have been written yet.                    *)
Ahead == {CommitKey(c) : c \in selected} \cup {RefKey(name) : name \in names}
Pointed == \A e \in edges : e.src \in nodes /\ e.dst \in Ahead

(* What the turns taken call for: parents, a target per ref, rebase ends.  *)
ParentsDue == UNION {{<<order[i], j>> : j \in DOMAIN parents[order[i]]} : i \in 1..emitted}
EndsDue == UNION {{<<r, end>> : end \in NamedEnds(world.runs[r])} : r \in 1..runsDone}
Pointers == {e \in edges : e.ty # "ON"}
Counted ==
    /\ IsFiniteSet(Pointers) /\ IsFiniteSet(ParentsDue) /\ IsFiniteSet(EndsDue)
    /\ dropped \in Nat
    /\ Cardinality(Pointers) + dropped =
         Cardinality(ParentsDue) + Cardinality(names \ refsLeft) + Cardinality(EndsDue)
    /\ dropped = 0 => \A name \in names \ refsLeft : \E e \in edges : e.src = RefKey(name)

(* The notes are made last, of what nothing changes any more.              *)
Noted ==
    notes # {} =>
        /\ emitted = Len(order) /\ refsLeft = {}
        /\ opts.reflog => runsDone = Len(world.runs)
        /\ missing # {} => "missing" \in notes
        /\ truncated => "truncated" \in notes
        /\ dropped > 0 => "dropped" \in notes

GraphInv ==
    /\ world \in Worlds
    /\ phase # "done" => Unwritten
    /\ Written /\ Pointed /\ Counted /\ Noted
----------------------------------------------------------------------------
(* What the walk starts from is typed. *)
LEMMA TipsTyped ==
    ASSUME world \in Worlds
    PROVE  RefTips(world, opts) \subseteq Oid /\ LogTips(world, opts) \subseteq Oid \cup {Zero}
<1>1. \A oid \in Oid : Deref(world, oid) \in Oid
  BY WorldsAssumption DEF Deref
<1>2. \A name \in names : Target(world, name) \in Oid
  BY <1>1, WorldsAssumption DEF Target, Peel, Collected, names
<1>3. RefTips(world, opts) \subseteq Oid
  BY <1>2, WorldsAssumption DEF RefTips, names
<1>4. LogTips(world, opts) \subseteq Oid \cup {Zero}
  BY WorldsAssumption DEF LogTips
<1> QED BY <1>3, <1>4

LEMMA NamesFinite == ASSUME world \in Worlds PROVE IsFiniteSet(names)
BY WorldsAssumption, FS_Subset DEF names, Collected

(* An empty graph accounts for no turn taken. *)
LEMMA NothingWritten ==
    ASSUME world \in Worlds, Unwritten, order \in Seq(Oid)
    PROVE  GraphInv
<1>1. Len(order) \in Nat
  OBVIOUS
<1>2. 1..0 = {} /\ names \ refsLeft = {}
  BY DEF Unwritten
<1>3. CommitNodes = {} /\ RefNodes = {} /\ RunNodes = {} /\ Pointers = {}
  BY <1>2 DEF Unwritten, CommitNodes, RefNodes, RunNodes, Pointers
<1>4. ParentsDue = {} /\ EndsDue = {}
  BY <1>2 DEF Unwritten, ParentsDue, EndsDue
<1>5. Written
  BY <1>1, <1>3, FS_EmptySet DEF Unwritten, Written
<1>6. Counted
  BY <1>2, <1>3, <1>4, FS_EmptySet DEF Unwritten, Counted
<1> QED BY <1>5, <1>6 DEF GraphInv, Unwritten, Pointed, Noted

LEMMA HistStarts == HistInit => IInv /\ GraphInv
<1> SUFFICES ASSUME HistInit PROVE IInv /\ GraphInv
  OBVIOUS
<1>1. IInv
  <2>1. parents \in [Oid -> Seq(Oid)] /\ ts \in [Oid -> Int] /\ max \in Nat /\ store \subseteq Oid
    BY HistoriesAssumption, DatesAssumption, CeilingsAssumption, StoresAssumption DEF HistInit
  <2>2. refTips \subseteq Oid /\ logTips \subseteq Oid \cup {Zero} /\ WalkInit
    BY TipsTyped DEF HistInit
  <2> QED BY <2>1, <2>2, StartTyped, WalkStarts
<1>2. world \in Worlds /\ Unwritten
  BY DEF HistInit, Unwritten, names
<1> QED BY <1>1, <1>2, NothingWritten DEF IInv, TypeOK

(* The walk's invariant holds of the whole read. *)
LEMMA WalkNext == IInv /\ [HistNext]_histVars => IInv'
<1> SUFFICES ASSUME IInv, [HistNext]_histVars PROVE IInv'
  OBVIOUS
<1>1. [Next]_vars
  BY DEF HistNext, histVars, Walking, EmitCommit, EmitRef, EmitRebase, Report
<1> QED BY <1>1, IInvNext

(* Once the walk has ended none of its steps is taken. *)
LEMMA WalkIsOver == ASSUME IInv, Next PROVE phase # "done"
BY DEF Next, Step, OfferTip, Keep, HitCeiling, Exhaust, Mark, Marked, Prune

LEMMA WalkingNext == IInv /\ GraphInv /\ Walking => GraphInv'
<1> SUFFICES ASSUME IInv, GraphInv, Walking PROVE GraphInv'
  OBVIOUS
<1>1. phase # "done" /\ UNCHANGED <<inputs, emission>>
  BY WalkIsOver DEF Walking
<1>2. Unwritten' /\ world' \in Worlds
  BY <1>1 DEF GraphInv, Unwritten, inputs, emission, names, Collected
<1>3. order' \in Seq(Oid)
  BY WalkNext DEF HistNext, IInv, TypeOK
<1>4. (world \in Worlds /\ Unwritten /\ order \in Seq(Oid) => GraphInv)'
  BY NothingWritten, PTL
<1> QED BY <1>2, <1>3, <1>4
----------------------------------------------------------------------------
(* A non-empty finite set of numbers has a least one: its initial segments *)
(* have one that is minimal among them.                                    *)
LEMMA LeastExists ==
    ASSUME NEW T \in SUBSET Nat, IsFiniteSet(T), T # {}
    PROVE  \E m \in T : \A n \in T : m <= n
<1> DEFINE upTo(m) == {n \in T : n <= m}
           segments == {upTo(m) : m \in T}
<1>1. segments \subseteq FiniteSubsetsOf(T) /\ segments # {}
  <2>1. \A m \in T : upTo(m) \in SUBSET T
    OBVIOUS
  <2>2. FiniteSubsetsOf(T) = SUBSET T
    BY FS_FiniteSubsetsOfFinite
  <2>3. \A m \in T : upTo(m) \in segments
    OBVIOUS
  <2>4. segments # {}
    BY <2>3
  <2>5. segments \subseteq SUBSET T
    BY <2>1
  <2> HIDE DEF segments, upTo
  <2> QED BY <2>2, <2>4, <2>5
<1>2. PICK S \in segments : \A R \in segments : <<R, S>> \notin StrictSubsetOrdering(T)
  BY <1>1, WFMin, FS_StrictSubsetOrderingWellFounded
<1>3. PICK m \in T : S = upTo(m)
  BY <1>2
<1>4. ASSUME NEW n \in T, n < m PROVE FALSE
  <2>1. upTo(n) \subseteq upTo(m) /\ m \in upTo(m) /\ m \notin upTo(n)
    <3>1. m \in Nat /\ n \in Nat /\ \A x \in T : x \in Nat
      OBVIOUS
    <3>2. \A x \in T : x <= n => x <= m
      BY <1>4, <3>1
    <3>3. m <= m /\ ~(m <= n)
      BY <1>4, <3>1
    <3>4. upTo(n) \subseteq upTo(m)
      BY <3>2
    <3>5. m \in upTo(m)
      BY <3>3
    <3>6. m \notin upTo(n)
      BY <3>3
    <3> QED BY <3>4, <3>5, <3>6
  <2>2. <<upTo(n), upTo(m)>> \in StrictSubsetOrdering(T)
    BY <2>1 DEF StrictSubsetOrdering
  <2> QED BY <1>2, <1>3, <2>2
<1> QED BY <1>4

(* There is a free suffix among one more than the rebases written.         *)
LEMMA RebaseKeyFresh ==
    ASSUME Written, NEW run
    PROVE  RebaseKey(run) \notin nodes /\ RebaseKey(run)[1] = "rebase"
<1> DEFINE key(n) == <<"rebase", run.ref, run.at, n>>
           free == {n \in 1..(runsDone + 1) : key(n) \notin nodes}
<1>1. runsDone \in Nat /\ IsFiniteSet(1..(runsDone + 1))
        /\ Cardinality(1..(runsDone + 1)) = runsDone + 1
  BY FS_Interval DEF Written
<1>2. free # {}
  <2> SUFFICES ASSUME \A n \in 1..(runsDone + 1) : key(n) \in nodes PROVE FALSE
    OBVIOUS
  <2> DEFINE f == [n \in 1..(runsDone + 1) |-> key(n)]
  <2>1. f \in [1..(runsDone + 1) -> RunNodes]
    BY DEF RunNodes
  <2>2. \E x, y \in 1..(runsDone + 1) : x # y /\ f[x] = f[y]
    <3> HIDE DEF f
    <3> QED BY <1>1, <2>1, FS_PigeonHole DEF Written
  <2> QED BY <2>2
<1>3. free \in SUBSET Nat /\ IsFiniteSet(free)
  <2>1. free \in SUBSET (1..(runsDone + 1)) /\ 1..(runsDone + 1) \subseteq Nat
    BY <1>1
  <2> HIDE DEF free
  <2> QED BY <1>1, <2>1, FS_Subset
<1>4. \E m \in free : \A n \in free : m <= n
  <2> HIDE DEF free
  <2> QED BY <1>2, <1>3, LeastExists
<1>5. RebaseKey(run) = key(CHOOSE n \in free : \A m \in free : n <= m)
  BY DEF RebaseKey
<1> QED BY <1>4, <1>5

(* Sets that grow by something new grow by its size.                       *)
LEMMA CountGrows ==
    ASSUME NEW S, NEW T, IsFiniteSet(S), IsFiniteSet(T), S \cap T = {}
    PROVE  IsFiniteSet(S \cup T) /\ Cardinality(S \cup T) = Cardinality(S) + Cardinality(T)
             /\ Cardinality(S) \in Nat /\ Cardinality(T) \in Nat
BY FS_Union, FS_EmptySet, FS_CardinalityType

(* A set whose members are told apart by a function has as many images.    *)
LEMMA SameCount ==
    ASSUME NEW S, NEW T, IsFiniteSet(S), NEW f \in [S -> T],
           \A x, y \in S : f[x] = f[y] => x = y,
           \A t \in T : \E x \in S : f[x] = t
    PROVE  IsFiniteSet(T) /\ Cardinality(T) = Cardinality(S)
<1>1. f \in Bijection(S, T)
  BY DEF Bijection, Injection, Surjection, IsInjective
<1> QED BY <1>1, FS_Bijection DEF ExistsBijection
----------------------------------------------------------------------------
(* A turn of the writing adds a new node and the edges `out` that leave it. *)
Turn(key, out) ==
    /\ phase = "done" /\ UNCHANGED <<vars, inputs>>
    /\ nodes' = nodes \cup {key} /\ edges' = edges \cup out
    /\ key \notin nodes
    /\ \A e \in out : e.src = key /\ e.dst \in Ahead

LEMMA TurnPoints ==
    ASSUME Pointed, NEW key, NEW out, Turn(key, out)
    PROVE  Pointed' /\ names' = names
BY DEF Turn, Pointed, Ahead, vars, walk, inputs, names, Collected, CommitKey, RefKey, Kind

LEMMA TurnCounts ==
    ASSUME Pointed, IsFiniteSet(Pointers), NEW key, NEW out, Turn(key, out),
           IsFiniteSet({e \in out : e.ty # "ON"})
    PROVE  /\ IsFiniteSet(Pointers')
           /\ Cardinality(Pointers') = Cardinality(Pointers) + Cardinality({e \in out : e.ty # "ON"})
           /\ Cardinality(Pointers) \in Nat /\ Cardinality({e \in out : e.ty # "ON"}) \in Nat
<1> DEFINE new == {e \in out : e.ty # "ON"}
<1>1. Pointers' = Pointers \cup new
  BY DEF Pointers, Turn
<1>2. Pointers \cap new = {}
  BY DEF Pointers, Turn, Pointed
<1> HIDE DEF new
<1> QED BY <1>1, <1>2, CountGrows DEF new

(* What one turn of `emit_commits` writes. *)
LEMMA CommitTurn ==
    ASSUME IInv, GraphInv, EmitCommit,
           NEW c, c = order[emitted + 1],
           NEW kept, kept = {i \in DOMAIN parents[c] : Kept(parents[c][i])},
           NEW out, out = {Edge(CommitKey(c), "PARENT", CommitKey(parents[c][i]), i) : i \in kept}
    PROVE  /\ Turn(CommitKey(c), out)
           /\ emitted' = emitted + 1 /\ emitted < Len(order)
           /\ dropped' = dropped + Cardinality(DOMAIN parents[c] \ kept)
           /\ UNCHANGED <<refsLeft, runsDone, notes>>
           /\ c \notin {order[i] : i \in 1..emitted} /\ c \in Oid
<1>1. /\ phase = "done" /\ UNCHANGED <<vars, inputs, refsLeft, runsDone, notes>>
      /\ nodes' = nodes \cup {CommitKey(c)} /\ edges' = edges \cup out
      /\ dropped' = dropped + Cardinality(DOMAIN parents[c] \ kept)
      /\ emitted' = emitted + 1 /\ emitted < Len(order)
  BY DEF EmitCommit
<1>2. order \in Seq(Oid) /\ emitted \in 0..Len(order) /\ Len(order) \in Nat
  BY DEF IInv, TypeOK, GraphInv, Written
<1>3. emitted + 1 \in DOMAIN order /\ \A i \in 1..emitted : i \in DOMAIN order /\ i # emitted + 1
  BY <1>1, <1>2
<1>4. c \in Oid /\ c \notin {order[i] : i \in 1..emitted}
  BY <1>2, <1>3 DEF IInv, Listed
<1>5. CommitKey(c) \notin nodes
  <2>1. CommitKey(c) \notin CommitNodes
    BY <1>4 DEF CommitNodes, CommitKey
  <2>2. CommitKey(c) \notin RefNodes /\ CommitKey(c) \notin RunNodes
    BY DEF RefNodes, RunNodes, CommitKey, RefKey
  <2> QED BY <2>1, <2>2 DEF GraphInv, Written
<1>6. \A e \in out : e.src = CommitKey(c) /\ e.dst \in Ahead
  BY DEF Edge, Ahead, Kept
<1> QED BY <1>1, <1>4, <1>5, <1>6 DEF Turn

LEMMA CommitNext == IInv /\ GraphInv /\ EmitCommit => GraphInv'
<1> SUFFICES ASSUME IInv, GraphInv, EmitCommit PROVE GraphInv'
  OBVIOUS
<1> DEFINE c == order[emitted + 1]
           D == DOMAIN parents[c]
           kept == {i \in D : Kept(parents[c][i])}
           out == {Edge(CommitKey(c), "PARENT", CommitKey(parents[c][i]), i) : i \in kept}
           due == {<<c, j>> : j \in D}
<1>1. /\ Turn(CommitKey(c), out)
      /\ emitted' = emitted + 1 /\ emitted < Len(order)
      /\ dropped' = dropped + Cardinality(D \ kept)
      /\ UNCHANGED <<refsLeft, runsDone, notes>>
      /\ c \notin {order[i] : i \in 1..emitted} /\ c \in Oid
  BY CommitTurn
<1>2. /\ emitted \in 0..Len(order) /\ Len(order) \in Nat
      /\ 1..(emitted + 1) = (1..emitted) \cup {emitted + 1}
  BY DEF IInv, TypeOK, GraphInv, Written
<1>3. /\ UNCHANGED <<order, parents, world, opts>> /\ phase' = phase /\ phase = "done"
      /\ Pointed' /\ names' = names
  BY <1>1, TurnPoints DEF Turn, vars, repo, walk, inputs, GraphInv
<1>4. Written'
  <2>1. CommitNodes' = CommitNodes \cup {CommitKey(c)}
    BY <1>1, <1>2, <1>3 DEF CommitNodes, CommitKey
  <2>2. RefNodes' = RefNodes
    BY <1>1, <1>3 DEF RefNodes, RefKey, Kind
  <2>3. RunNodes' = RunNodes
    BY <1>1 DEF Turn, RunNodes, CommitKey
  <2>4. nodes' = CommitNodes' \cup RefNodes' \cup RunNodes'
    BY <1>1, <2>1, <2>2, <2>3 DEF Turn, GraphInv, Written
  <2> QED BY <1>1, <1>2, <1>3, <2>3, <2>4 DEF GraphInv, Written
<1>5. IsFiniteSet(D)
  <2>1. parents[c] \in Seq(Oid)
    BY <1>1 DEF IInv, TypeOK
  <2>2. D = 1..Len(parents[c]) /\ Len(parents[c]) \in Nat
    BY <2>1
  <2> QED BY <2>2, FS_Interval
<1>6. IsFiniteSet(due) /\ Cardinality(due) = Cardinality(D)
  <2> DEFINE f == [j \in D |-> <<c, j>>]
  <2>1. f \in [D -> due] /\ \A x, y \in D : f[x] = f[y] => x = y
    OBVIOUS
  <2>2. \A t \in due : \E x \in D : f[x] = t
    OBVIOUS
  <2> HIDE DEF f, due, D
  <2> QED BY <1>5, <2>1, <2>2, SameCount
<1>7. IsFiniteSet(kept) /\ Cardinality(D) = Cardinality(kept) + Cardinality(D \ kept)
        /\ Cardinality(kept) \in Nat /\ Cardinality(D \ kept) \in Nat
  <2>1. kept \in SUBSET D /\ D \ kept \in SUBSET D
    OBVIOUS
  <2> HIDE DEF kept, D
  <2>2. IsFiniteSet(kept) /\ IsFiniteSet(D \ kept)
    BY <1>5, <2>1, FS_Subset
  <2>3. D = kept \cup (D \ kept) /\ kept \cap (D \ kept) = {}
    BY <2>1
  <2> QED BY <2>2, <2>3, CountGrows
<1>8. {e \in out : e.ty # "ON"} = out /\ IsFiniteSet(out) /\ Cardinality(out) = Cardinality(kept)
  <2> DEFINE f == [i \in kept |-> Edge(CommitKey(c), "PARENT", CommitKey(parents[c][i]), i)]
  <2>1. f \in [kept -> out] /\ \A x, y \in kept : f[x] = f[y] => x = y
    BY DEF Edge
  <2>2. \A t \in out : \E x \in kept : f[x] = t
    OBVIOUS
  <2>3. {e \in out : e.ty # "ON"} = out
    BY DEF Edge
  <2> HIDE DEF f, out, kept
  <2> QED BY <1>7, <2>1, <2>2, <2>3, SameCount
<1>9. ParentsDue' = ParentsDue \cup due /\ ParentsDue \cap due = {}
  BY <1>1, <1>2, <1>3 DEF ParentsDue
<1>10. EndsDue' = EndsDue
  BY <1>1, <1>3 DEF EndsDue, NamedEnds, Ends
<1>11. Counted'
  <2> HIDE DEF c, D, kept, out, due
  <2>1. /\ IsFiniteSet(Pointers')
        /\ Cardinality(Pointers') = Cardinality(Pointers) + Cardinality(kept)
        /\ Cardinality(Pointers) \in Nat
    BY <1>1, <1>8, TurnCounts DEF GraphInv, Counted
  <2>2. /\ IsFiniteSet(ParentsDue')
        /\ Cardinality(ParentsDue') = Cardinality(ParentsDue) + Cardinality(D)
        /\ Cardinality(ParentsDue) \in Nat /\ Cardinality(D) \in Nat
    <3>1. IsFiniteSet(ParentsDue) /\ ParentsDue \cap due = {}
      BY <1>9 DEF GraphInv, Counted
    <3>2. /\ IsFiniteSet(ParentsDue \cup due)
          /\ Cardinality(ParentsDue \cup due) = Cardinality(ParentsDue) + Cardinality(due)
          /\ Cardinality(ParentsDue) \in Nat /\ Cardinality(due) \in Nat
      BY <1>6, <3>1, CountGrows
    <3> QED BY <1>6, <1>9, <3>2
  <2>3. Cardinality(EndsDue) \in Nat /\ Cardinality(names \ refsLeft) \in Nat
    BY NamesFinite, FS_Difference, FS_CardinalityType DEF GraphInv, Counted
  <2>4. dropped' \in Nat /\ (dropped' = 0 => dropped = 0)
    BY <1>1, <1>7 DEF GraphInv, Counted
  <2>5. dropped' = 0 => \A name \in names' \ refsLeft' : \E e \in edges' : e.src = RefKey(name)'
    BY <1>1, <1>3, <2>4 DEF GraphInv, Counted, Turn, RefKey, Kind
  <2>6. Cardinality(Pointers') + dropped' =
          Cardinality(ParentsDue') + Cardinality(names' \ refsLeft') + Cardinality(EndsDue')
    <3>1. names' \ refsLeft' = names \ refsLeft /\ EndsDue' = EndsDue
      BY <1>1, <1>3, <1>10
    <3>2. /\ Cardinality(Pointers) + dropped =
               Cardinality(ParentsDue) + Cardinality(names \ refsLeft) + Cardinality(EndsDue)
          /\ dropped \in Nat
      BY DEF GraphInv, Counted
    <3>3. dropped' = dropped + Cardinality(D \ kept)
      BY <1>1
    <3>4. /\ Cardinality(names' \ refsLeft') = Cardinality(names \ refsLeft)
          /\ Cardinality(EndsDue') = Cardinality(EndsDue)
      BY <3>1
    <3>5. Cardinality(Pointers') + dropped' =
            (Cardinality(Pointers) + dropped) + Cardinality(D)
      BY <1>7, <2>1, <3>2, <3>3
    <3> QED BY <2>2, <2>3, <3>2, <3>4, <3>5
  <2> QED BY <1>10, <2>1, <2>2, <2>4, <2>5, <2>6 DEF GraphInv, Counted
<1>12. Noted'
  BY <1>1, <1>2 DEF GraphInv, Noted
<1> QED BY <1>3, <1>4, <1>11, <1>12 DEF GraphInv
----------------------------------------------------------------------------
(* One turn of `emit_refs`: an edge to the target, or one more dropped.    *)
LEMMA RefEdgeOrDropped ==
    ASSUME NEW name
    PROVE  /\ IsFiniteSet(RefEdges(name)) /\ Cardinality(RefEdges(name)) \in Nat
           /\ DroppedRef(name) \in Nat
           /\ Cardinality(RefEdges(name)) + DroppedRef(name) = 1
           /\ DroppedRef(name) = 0 => \E e \in RefEdges(name) : e.src = RefKey(name)
           /\ \A e \in RefEdges(name) :
                e.src = RefKey(name) /\ e.dst \in Ahead /\ e.ty # "ON"
<1>1. \A e \in RefEdges(name) : e.src = RefKey(name) /\ e.dst \in Ahead /\ e.ty # "ON"
  BY DEF RefEdges, Edge, Ahead
<1>2. CASE RefEdges(name) = {}
  BY <1>1, <1>2, FS_EmptySet DEF DroppedRef
<1>3. CASE RefEdges(name) # {}
  <2>1. PICK e : RefEdges(name) = {e}
    BY <1>3 DEF RefEdges
  <2>2. IsFiniteSet(RefEdges(name)) /\ Cardinality(RefEdges(name)) = 1
    BY <2>1, FS_Singleton
  <2>3. DroppedRef(name) = 0
    BY <1>3 DEF DroppedRef
  <2>4. \E x \in RefEdges(name) : x.src = RefKey(name)
    BY <1>1, <1>3
  <2> QED BY <1>1, <2>2, <2>3, <2>4
<1> QED BY <1>2, <1>3

LEMMA RefNext ==
    ASSUME IInv, GraphInv, NEW name \in refsLeft, EmitRef(name)
    PROVE  GraphInv'
<1> DEFINE out == RefEdges(name)
<1>1. /\ phase = "done" /\ UNCHANGED <<vars, inputs, emitted, runsDone, notes>>
      /\ nodes' = nodes \cup {RefKey(name)} /\ edges' = edges \cup out
      /\ dropped' = dropped + DroppedRef(name) /\ refsLeft' = refsLeft \ {name}
      /\ emitted = Len(order) /\ name \in names /\ refsLeft # {}
  BY DEF EmitRef, GraphInv, Written
<1>2. RefKey(name) \notin nodes
  <2>1. RefKey(name) \notin RefNodes
    BY DEF RefNodes, RefKey
  <2>2. RefKey(name) \notin CommitNodes /\ RefKey(name) \notin RunNodes
    BY DEF CommitNodes, RunNodes, CommitKey, RefKey
  <2> QED BY <2>1, <2>2 DEF GraphInv, Written
<1>3. Turn(RefKey(name), out)
  BY <1>1, <1>2, RefEdgeOrDropped DEF Turn
<1>4. /\ UNCHANGED <<order, parents, world, opts>> /\ phase' = phase
      /\ Pointed' /\ names' = names
  BY <1>1, <1>3, TurnPoints DEF vars, repo, walk, inputs, GraphInv
<1>5. names' \ refsLeft' = (names \ refsLeft) \cup {name} /\ name \notin names \ refsLeft
  BY <1>1, <1>4
<1>6. Written'
  <2>1. CommitNodes' = CommitNodes
    BY <1>1, <1>4 DEF CommitNodes, CommitKey
  <2>2. RefNodes' = RefNodes \cup {RefKey(name)}
    BY <1>4, <1>5 DEF RefNodes, RefKey, Kind
  <2>3. RunNodes' = RunNodes
    BY <1>1 DEF RunNodes, RefKey
  <2>4. nodes' = CommitNodes' \cup RefNodes' \cup RunNodes'
    BY <1>1, <2>1, <2>2, <2>3 DEF GraphInv, Written
  <2> QED BY <1>1, <1>4, <2>3, <2>4 DEF GraphInv, Written
<1>7. ParentsDue' = ParentsDue /\ EndsDue' = EndsDue
  BY <1>1, <1>4 DEF ParentsDue, EndsDue, NamedEnds, Ends
<1>8. Counted'
  <2>1. {e \in out : e.ty # "ON"} = out
    BY RefEdgeOrDropped
  <2>2. /\ IsFiniteSet(Pointers')
        /\ Cardinality(Pointers') = Cardinality(Pointers) + Cardinality(out)
        /\ Cardinality(Pointers) \in Nat /\ Cardinality(out) \in Nat
    BY <1>3, <2>1, RefEdgeOrDropped, TurnCounts DEF GraphInv, Counted
  <2>3. IsFiniteSet(names \ refsLeft) /\ Cardinality(names \ refsLeft) \in Nat
    BY NamesFinite, FS_Difference, FS_CardinalityType DEF GraphInv
  <2>4. Cardinality(names' \ refsLeft') = Cardinality(names \ refsLeft) + 1
    BY <1>5, <2>3, FS_AddElement
  <2>5. Cardinality(ParentsDue) \in Nat /\ Cardinality(EndsDue) \in Nat
    BY FS_CardinalityType DEF GraphInv, Counted
  <2>6. /\ dropped \in Nat /\ DroppedRef(name) \in Nat
        /\ dropped' = dropped + DroppedRef(name)
        /\ Cardinality(out) + DroppedRef(name) = 1
    BY <1>1, RefEdgeOrDropped DEF GraphInv, Counted
  <2>7. dropped' = 0 => \A n \in names' \ refsLeft' : \E e \in edges' : e.src = RefKey(n)'
    <3> SUFFICES ASSUME dropped' = 0, NEW n \in names' \ refsLeft'
                 PROVE  \E e \in edges' : e.src = RefKey(n)'
      OBVIOUS
    <3>1. dropped = 0 /\ DroppedRef(name) = 0 /\ RefKey(n)' = RefKey(n)
      BY <1>4, <2>6 DEF RefKey, Kind
    <3>2. CASE n = name
      BY <1>1, <3>1, <3>2, RefEdgeOrDropped
    <3>3. CASE n # name
      BY <1>1, <1>5, <3>1, <3>3 DEF GraphInv, Counted
    <3> QED BY <3>2, <3>3
  <2>8. Cardinality(Pointers') + dropped' =
          Cardinality(ParentsDue') + Cardinality(names' \ refsLeft') + Cardinality(EndsDue')
    <3>1. /\ Cardinality(ParentsDue') = Cardinality(ParentsDue)
          /\ Cardinality(EndsDue') = Cardinality(EndsDue)
      BY <1>7
    <3>2. Cardinality(Pointers) + dropped =
            Cardinality(ParentsDue) + Cardinality(names \ refsLeft) + Cardinality(EndsDue)
      BY DEF GraphInv, Counted
    <3>3. Cardinality(Pointers') + dropped' = (Cardinality(Pointers) + dropped) + 1
      BY <2>2, <2>6
    <3> QED BY <2>3, <2>4, <2>5, <3>1, <3>2, <3>3
  <2> QED BY <1>7, <2>2, <2>6, <2>7, <2>8 DEF GraphInv, Counted
<1>9. Noted'
  BY <1>1 DEF GraphInv, Noted
<1> QED BY <1>1, <1>4, <1>6, <1>8, <1>9 DEF GraphInv
----------------------------------------------------------------------------
(* One turn of `emit_rebases`: the ends a run names are finitely many.     *)
LEMMA EndsFinite ==
    ASSUME NEW run, run.produced \in Seq(Oid \cup {Zero})
    PROVE  IsFiniteSet(NamedEnds(run))
<1> DEFINE D == DOMAIN run.produced
           steps == {<<"PRODUCED", run.produced[i], i>> : i \in D}
           f == [i \in D |-> <<"PRODUCED", run.produced[i], i>>]
           one == <<"ONTO", run.onto, 0>>
           two == <<"REPLACED", run.replaced, 0>>
           three == <<"RESULT", run.result, 0>>
<1>1. IsFiniteSet(D)
  <2>1. D = 1..Len(run.produced) /\ Len(run.produced) \in Nat
    OBVIOUS
  <2> QED BY <2>1, FS_Interval
<1>2. IsFiniteSet(steps)
  <2>1. f \in [D -> steps] /\ \A x, y \in D : f[x] = f[y] => x = y
    OBVIOUS
  <2>2. \A t \in steps : \E x \in D : f[x] = t
    OBVIOUS
  <2> HIDE DEF f, steps, D
  <2> QED BY <1>1, <2>1, <2>2, SameCount
<1>3. Ends(run) = ((steps \cup {one}) \cup {two}) \cup {three}
  BY DEF Ends
<1>4. IsFiniteSet(Ends(run))
  <2> HIDE DEF steps, one, two, three
  <2>1. IsFiniteSet(steps \cup {one})
    BY <1>2, FS_AddElement
  <2>2. IsFiniteSet((steps \cup {one}) \cup {two})
    BY <2>1, FS_AddElement
  <2>3. IsFiniteSet(((steps \cup {one}) \cup {two}) \cup {three})
    BY <2>2, FS_AddElement
  <2> QED BY <1>3, <2>3
<1> QED BY <1>4, FS_Subset DEF NamedEnds

LEMMA RebaseNext == IInv /\ GraphInv /\ EmitRebase => GraphInv'
<1> SUFFICES ASSUME IInv, GraphInv, EmitRebase PROVE GraphInv'
  OBVIOUS
<1> DEFINE run == world.runs[runsDone + 1]
           key == RebaseKey(run)
           ends == NamedEnds(run)
           kept == {end \in ends : Kept(end[2])}
           on == {name \in names : name = run.ref /\ Kind(name) # "tags"}
           new == {Edge(key, end[1], CommitKey(end[2]), end[3]) : end \in kept}
           out == new \cup {Edge(key, "ON", RefKey(name), 0) : name \in on}
           due == {<<runsDone + 1, end>> : end \in ends}
<1>1. /\ phase = "done" /\ UNCHANGED <<vars, inputs, emitted, refsLeft, notes>>
      /\ nodes' = nodes \cup {key} /\ edges' = edges \cup out
      /\ dropped' = dropped + Cardinality(ends \ kept)
      /\ opts.reflog /\ runsDone < Len(world.runs) /\ runsDone' = runsDone + 1
  BY DEF EmitRebase, names
<1>2. /\ runsDone \in Nat /\ Len(world.runs) \in Nat
      /\ runsDone + 1 \in DOMAIN world.runs
      /\ 1..(runsDone + 1) = (1..runsDone) \cup {runsDone + 1}
  BY <1>1, WorldsAssumption DEF GraphInv, Written
<1>3. key \notin nodes /\ key[1] = "rebase"
  BY RebaseKeyFresh DEF GraphInv
<1>4. \A e \in out : e.src = key /\ e.dst \in Ahead
  BY DEF Edge, Ahead, Kept
<1>5. Turn(key, out)
  <2> HIDE DEF key, out
  <2> QED BY <1>1, <1>3, <1>4 DEF Turn
<1>6. /\ UNCHANGED <<order, parents, world, opts>> /\ phase' = phase
      /\ Pointed' /\ names' = names
  <2> HIDE DEF key, out
  <2> QED BY <1>1, <1>5, TurnPoints DEF vars, repo, walk, inputs, GraphInv
<1>7. Written'
  <2> HIDE DEF key
  <2>1. CommitNodes' = CommitNodes
    BY <1>1, <1>6 DEF CommitNodes, CommitKey
  <2>2. RefNodes' = RefNodes
    BY <1>1, <1>6 DEF RefNodes, RefKey, Kind
  <2>3. RunNodes' = RunNodes \cup {key} /\ key \notin RunNodes
    BY <1>1, <1>3 DEF RunNodes
  <2>4. IsFiniteSet(RunNodes') /\ Cardinality(RunNodes') = runsDone + 1
    BY <2>3, FS_AddElement DEF GraphInv, Written
  <2>5. nodes' = CommitNodes' \cup RefNodes' \cup RunNodes'
    BY <1>1, <2>1, <2>2, <2>3 DEF GraphInv, Written
  <2> QED BY <1>1, <1>2, <1>6, <2>4, <2>5 DEF GraphInv, Written
<1>8. ParentsDue' = ParentsDue
  BY <1>1, <1>6 DEF ParentsDue
<1>9. EndsDue' = EndsDue \cup due /\ EndsDue \cap due = {}
  BY <1>1, <1>2, <1>6 DEF EndsDue, NamedEnds, Ends
<1>10. IsFiniteSet(ends)
  <2>1. run.produced \in Seq(Oid \cup {Zero})
    BY <1>2, WorldsAssumption DEF GraphInv
  <2> QED BY <2>1, EndsFinite
<1>11. IsFiniteSet(due) /\ Cardinality(due) = Cardinality(ends)
  <2> DEFINE f == [end \in ends |-> <<runsDone + 1, end>>]
  <2> HIDE DEF ends
  <2>1. f \in [ends -> due] /\ \A x, y \in ends : f[x] = f[y] => x = y
    OBVIOUS
  <2>2. \A t \in due : \E x \in ends : f[x] = t
    OBVIOUS
  <2> HIDE DEF f, due
  <2> QED BY <1>10, <2>1, <2>2, SameCount
<1>12. IsFiniteSet(kept) /\ Cardinality(ends) = Cardinality(kept) + Cardinality(ends \ kept)
         /\ Cardinality(kept) \in Nat /\ Cardinality(ends \ kept) \in Nat
  <2> HIDE DEF ends
  <2>1. kept \in SUBSET ends /\ ends \ kept \in SUBSET ends
    OBVIOUS
  <2> HIDE DEF kept
  <2>2. IsFiniteSet(kept) /\ IsFiniteSet(ends \ kept)
    BY <1>10, <2>1, FS_Subset
  <2>3. ends = kept \cup (ends \ kept) /\ kept \cap (ends \ kept) = {}
    BY <2>1
  <2> QED BY <2>2, <2>3, CountGrows
<1>13. {e \in out : e.ty # "ON"} = new /\ IsFiniteSet(new) /\ Cardinality(new) = Cardinality(kept)
  <2> DEFINE f == [end \in kept |-> Edge(key, end[1], CommitKey(end[2]), end[3])]
  <2>1. \A end \in kept : end = <<end[1], end[2], end[3]>> /\ end[1] # "ON"
    BY DEF NamedEnds, Ends
  <2>2. {e \in out : e.ty # "ON"} = new
    BY <2>1 DEF Edge
  <2> HIDE DEF kept, key
  <2>3. f \in [kept -> new]
    OBVIOUS
  <2>4. \A x, y \in kept : f[x] = f[y] => x = y
    BY <2>1 DEF Edge, CommitKey
  <2>5. \A t \in new : \E x \in kept : f[x] = t
    OBVIOUS
  <2> HIDE DEF f, new, out
  <2> QED BY <1>12, <2>2, <2>3, <2>4, <2>5, SameCount
<1>14. Counted'
  <2> HIDE DEF key, ends, kept, new, out, due
  <2>1. /\ IsFiniteSet(Pointers')
        /\ Cardinality(Pointers') = Cardinality(Pointers) + Cardinality(kept)
        /\ Cardinality(Pointers) \in Nat
    BY <1>5, <1>13, TurnCounts DEF GraphInv, Counted
  <2>2. /\ IsFiniteSet(EndsDue')
        /\ Cardinality(EndsDue') = Cardinality(EndsDue) + Cardinality(ends)
        /\ Cardinality(EndsDue) \in Nat /\ Cardinality(ends) \in Nat
    <3>1. IsFiniteSet(EndsDue) /\ EndsDue \cap due = {}
      BY <1>9 DEF GraphInv, Counted
    <3>2. /\ IsFiniteSet(EndsDue \cup due)
          /\ Cardinality(EndsDue \cup due) = Cardinality(EndsDue) + Cardinality(due)
          /\ Cardinality(EndsDue) \in Nat /\ Cardinality(due) \in Nat
      BY <1>11, <3>1, CountGrows
    <3> QED BY <1>9, <1>11, <3>2
  <2>3. Cardinality(ParentsDue) \in Nat /\ Cardinality(names \ refsLeft) \in Nat
    BY NamesFinite, FS_Difference, FS_CardinalityType DEF GraphInv, Counted
  <2>4. dropped \in Nat /\ dropped' \in Nat /\ (dropped' = 0 => dropped = 0)
    BY <1>1, <1>12 DEF GraphInv, Counted
  <2>5. dropped' = 0 => \A name \in names' \ refsLeft' : \E e \in edges' : e.src = RefKey(name)'
    BY <1>1, <1>6, <2>4 DEF GraphInv, Counted, RefKey, Kind
  <2>6. Cardinality(Pointers') + dropped' =
          Cardinality(ParentsDue') + Cardinality(names' \ refsLeft') + Cardinality(EndsDue')
    <3>1. /\ Cardinality(names' \ refsLeft') = Cardinality(names \ refsLeft)
          /\ Cardinality(ParentsDue') = Cardinality(ParentsDue)
      BY <1>1, <1>6, <1>8
    <3>2. Cardinality(Pointers) + dropped =
            Cardinality(ParentsDue) + Cardinality(names \ refsLeft) + Cardinality(EndsDue)
      BY DEF GraphInv, Counted
    <3>3. dropped' = dropped + Cardinality(ends \ kept)
      BY <1>1
    <3>4. Cardinality(Pointers') + dropped' =
            (Cardinality(Pointers) + dropped) + Cardinality(ends)
      BY <1>12, <2>1, <2>4, <3>3
    <3> QED BY <2>2, <2>3, <3>1, <3>2, <3>4
  <2> QED BY <1>8, <2>1, <2>2, <2>4, <2>5, <2>6 DEF GraphInv, Counted
<1>15. Noted'
  BY <1>1, <1>2 DEF GraphInv, Noted
<1> QED BY <1>1, <1>6, <1>7, <1>14, <1>15 DEF GraphInv
----------------------------------------------------------------------------
(* What the graph is said to be depends on nothing else. *)
LEMMA GraphStands ==
    ASSUME UNCHANGED <<vars, inputs, emitted, refsLeft, runsDone, nodes, edges, dropped>>
    PROVE  /\ Written' <=> Written
           /\ Pointed' <=> Pointed
           /\ Counted' <=> Counted
<1>1. /\ UNCHANGED <<order, selected, parents, world, opts>>
      /\ UNCHANGED <<emitted, refsLeft, runsDone, nodes, edges, dropped>>
  BY DEF vars, repo, walk, inputs
<1>2. names' = names /\ \A name : RefKey(name)' = RefKey(name)
  BY <1>1 DEF names, Collected, RefKey, Kind
<1>3. CommitNodes' = CommitNodes /\ RefNodes' = RefNodes /\ RunNodes' = RunNodes
  BY <1>1, <1>2 DEF CommitNodes, CommitKey, RefNodes, RunNodes
<1>4. Ahead' = Ahead
  BY <1>1, <1>2 DEF Ahead, CommitKey
<1>5. Pointers' = Pointers /\ ParentsDue' = ParentsDue /\ EndsDue' = EndsDue
  BY <1>1 DEF Pointers, ParentsDue, EndsDue, NamedEnds, Ends
<1>6. Written' <=> Written
  BY <1>1, <1>2, <1>3 DEF Written
<1>7. Pointed' <=> Pointed
  BY <1>1, <1>4 DEF Pointed
<1>8. Counted' <=> Counted
  BY <1>1, <1>2, <1>5 DEF Counted
<1> QED BY <1>6, <1>7, <1>8

LEMMA ReportNext == IInv /\ GraphInv /\ Report => GraphInv'
<1> SUFFICES ASSUME IInv, GraphInv, Report PROVE GraphInv'
  OBVIOUS
<1>1. /\ UNCHANGED <<vars, inputs, emitted, refsLeft, runsDone, nodes, edges, dropped>>
      /\ phase = "done" /\ emitted = Len(order) /\ refsLeft = {}
      /\ opts.reflog => runsDone = Len(world.runs)
  BY DEF Report
<1>2. /\ missing # {} => "missing" \in notes'
      /\ truncated => "truncated" \in notes'
      /\ dropped > 0 => "dropped" \in notes'
  BY DEF Report, MissingNote
<1>3. Written' /\ Pointed' /\ Counted'
  BY <1>1, GraphStands DEF GraphInv
<1>4. Noted'
  BY <1>1, <1>2 DEF Noted, vars, walk, inputs
<1> QED BY <1>1, <1>3, <1>4 DEF GraphInv, vars, inputs

LEMMA GraphStutter == GraphInv /\ UNCHANGED histVars => GraphInv'
<1> SUFFICES ASSUME GraphInv, UNCHANGED histVars PROVE GraphInv'
  OBVIOUS
<1>1. UNCHANGED <<vars, inputs, emitted, refsLeft, runsDone, nodes, edges, dropped, notes>>
  BY DEF histVars, emission
<1>2. Written' /\ Pointed' /\ Counted'
  BY <1>1, GraphStands DEF GraphInv
<1>3. names' = names /\ world' = world /\ phase' = phase
  BY <1>1 DEF vars, inputs, names, Collected
<1>4. Noted'
  BY <1>1 DEF GraphInv, Noted, vars, walk, inputs
<1> QED BY <1>1, <1>2, <1>3, <1>4 DEF GraphInv, Unwritten

(* What is written stands, turn after turn, in every read of every repository. *)
THEOREM GraphInvariance == HistSpec => [](IInv /\ GraphInv)
<1>1. IInv /\ GraphInv /\ [HistNext]_histVars => GraphInv'
  BY WalkingNext, CommitNext, RefNext, RebaseNext, ReportNext, GraphStutter DEF HistNext
<1> QED BY HistStarts, WalkNext, <1>1, PTL DEF HistSpec

(* No edge of the finished graph names a node that is not in it, whatever  *)
(* the ceiling, the settings and the state of the object store.            *)
THEOREM NoEdgeDangles == HistSpec => []NoDanglingEdge
<1>1. IInv /\ GraphInv => NoDanglingEdge
  <2> SUFFICES ASSUME IInv, GraphInv, Reported, NEW e \in edges
               PROVE  e.src \in nodes /\ e.dst \in nodes
    BY DEF NoDanglingEdge
  <2>1. emitted = Len(order) /\ refsLeft = {}
    BY DEF GraphInv, Noted, Reported
  <2>2. \A c \in selected : CommitKey(c) \in nodes
    BY <2>1 DEF IInv, TypeOK, Listed, GraphInv, Written, CommitNodes
  <2>3. \A name \in names : RefKey(name) \in nodes
    BY <2>1 DEF GraphInv, Written, RefNodes
  <2> QED BY <2>2, <2>3 DEF GraphInv, Pointed, Ahead
<1> QED BY <1>1, GraphInvariance, PTL

(* Every edge the history calls for is in the finished graph or counted in *)
(* `dropped`, once, for any number of commits, refs and rebases.           *)
THEOREM NoEdgeUncounted == HistSpec => []EdgesAccounted
<1>1. IInv /\ GraphInv => EdgesAccounted
  <2> SUFFICES ASSUME IInv, GraphInv, Reported
               PROVE  Cardinality(Pointers) + dropped = Wanted
    BY DEF EdgesAccounted, Pointers
  <2>1. emitted = Len(order) /\ refsLeft = {}
    BY DEF GraphInv, Noted, Reported
  <2>2. ParentsDue = UNION {{<<c, i>> : i \in DOMAIN parents[c]} : c \in selected}
    BY <2>1 DEF ParentsDue, IInv, TypeOK, Listed
  <2>3. names \ refsLeft = Collected(world, opts)
    BY <2>1 DEF names
  <2> QED BY <2>2, <2>3 DEF GraphInv, Counted, EndsDue, Wanted
<1> QED BY <1>1, GraphInvariance, PTL

(* A report silent about a ceiling, missing objects and dropped edges is   *)
(* of a complete graph, whatever `git gc` removed while it was read.       *)
THEOREM SilenceIsCompleteness == HistSpec => []SilenceMeansComplete
<1>1. IInv /\ GraphInv => SilenceMeansComplete
  <2> SUFFICES ASSUME IInv, GraphInv, Reported, notes \cap {"truncated", "missing", "dropped"} = {}
               PROVE  /\ (refTips \cup logTips) \ {Zero} \subseteq selected
                      /\ \A c \in selected : ParentsOf(c) \subseteq selected
                      /\ \A name \in names : \E e \in edges : e.src = RefKey(name)
    BY DEF SilenceMeansComplete, names
  <2>1. /\ refsLeft = {} /\ missing = {} /\ ~truncated /\ dropped = 0
    BY DEF GraphInv, Noted, Counted, Reported, IInv, TypeOK
  <2>2. phase # "walk"
    BY DEF GraphInv, Unwritten, Reported
  <2>3. commits = selected
    BY <2>1, <2>2 DEF IInv, Split
  <2> QED BY <2>1, <2>2, <2>3, WalkEnded DEF allTips, GraphInv, Counted
<1> QED BY <1>1, GraphInvariance, PTL

(* Every rebase has a node of its own, however many share a second. *)
THEOREM RebasesStayApart == HistSpec => []RebasesApart
<1>1. IInv /\ GraphInv => RebasesApart
  BY DEF GraphInv, Written, RunNodes, RebasesApart
<1> QED BY <1>1, GraphInvariance, PTL
=============================================================================
