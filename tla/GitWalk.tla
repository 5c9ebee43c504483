------------------------------ MODULE GitWalk ------------------------------
(***************************************************************************)
(* The commit walk of the git plugin: `walk_commits` and `reachable_from`  *)
(* of plugins/git/parser/src/lib.rs.  From the tips (what branches, tags   *)
(* and a detached HEAD name, then everything the reflogs name) the walk    *)
(* keeps the newest commit of its frontier until the frontier is empty or  *)
(* the ceiling `max_commits` is reached; a second pass then marks the kept *)
(* commits that a ref can still reach.                                     *)
(*                                                                         *)
(* The object store is live: while the plugin reads, `git gc` in the same  *)
(* repository may delete objects (Prune).  Objects are immutable, so a     *)
(* read returns the one content an oid can have, or nothing.               *)
(*                                                                         *)
(* Abstractions.  The heap of (committer date, oid) is the set of its      *)
(* oids; a tie of dates, which the code breaks by the oid's spelling, is   *)
(* broken either way.  The DFS stack is a set, since its order cannot be   *)
(* seen in the set it computes.                                            *)
(***************************************************************************)
EXTENDS Integers, Sequences, FiniteSets

CONSTANTS
    Oid,        \* object names
    Zero,       \* the all-zero oid, git's "nothing was here"
    Histories,  \* the commit graphs considered: who is whose parent, in order
    Dates,      \* the assignments of committer dates considered
    Stores,     \* the sets of commits the object store may hold at the start
    TipSets,    \* what refs and reflogs may name
    Ceilings    \* the values of `max_commits` considered; 0 is "no ceiling"

ASSUME OidAssumption == Zero \notin Oid
ASSUME HistoriesAssumption == Histories \subseteq [Oid -> Seq(Oid)]
ASSUME DatesAssumption == Dates \subseteq [Oid -> Int]
ASSUME StoresAssumption == Stores \subseteq SUBSET Oid
ASSUME TipsAssumption ==
    TipSets \subseteq [refs : SUBSET Oid, logs : SUBSET (Oid \cup {Zero})]
ASSUME CeilingsAssumption == Ceilings \subseteq Nat

VARIABLES
    parents,    \* oid -> its parents, in the order the commit object lists them
    ts,         \* oid -> committer date
    refTips,    \* what branches, tags and a detached HEAD name
    logTips,    \* what the reflog entries name
    max,        \* opts.max_commits
    store,      \* the oids an object-store read finds a commit for
    phase,      \* "walk", then "mark", then "done"
    todo,       \* tips not yet offered
    seen,       \* oids offered, each at most once
    commits,    \* commits read, including ones beyond the ceiling
    missing,    \* oids something named that no read found a commit for
    frontier,   \* commits read and not yet popped
    order,      \* commits kept, in the order they were popped
    selected,   \* the same commits, as a set
    truncated,  \* the ceiling stopped the walk
    stack,      \* commits the marking pass still has to visit
    reachable   \* kept commits a ref can still reach

repo == <<parents, ts, refTips, logTips, max>>
walk == <<todo, seen, commits, missing, frontier, order, selected, truncated>>
vars == <<repo, store, phase, walk, stack, reachable>>

ParentsOf(c) == {parents[c][i] : i \in DOMAIN parents[c]}
----------------------------------------------------------------------------
WalkInit ==
    /\ todo = refTips \cup logTips
    /\ seen = {} /\ commits = {} /\ missing = {} /\ frontier = {}
    /\ order = <<>> /\ selected = {} /\ truncated = FALSE
    /\ phase = "walk" /\ stack = {} /\ reachable = {}

Init ==
    /\ parents \in Histories
    /\ ts \in Dates
    /\ max \in Ceilings
    /\ store \in Stores
    /\ \E tips \in TipSets : refTips = tips.refs /\ logTips = tips.logs
    /\ WalkInit

(***************************************************************************)
(* The closure `offer`: an oid is read the first time it is named, and is  *)
(* then either a commit of the frontier or missing.                        *)
(***************************************************************************)
FreshOffersAgain(oids) == oids \ {Zero}
FreshWithZero(oids) == oids \ seen
Fresh(oids) == oids \ (seen \cup {Zero})

OfferStopsAtMissing(oids, rest) ==
    LET found == {o \in Fresh(oids) : Fresh(oids) \subseteq store}
    IN  /\ seen' = seen \cup Fresh(oids)
        /\ commits' = commits \cup found
        /\ frontier' = rest \cup found
        /\ missing' = missing \cup (Fresh(oids) \ store)
Offer(oids, rest) ==
    LET found == Fresh(oids) \cap store
    IN  /\ seen' = seen \cup Fresh(oids)
        /\ commits' = commits \cup found
        /\ frontier' = rest \cup found
        /\ missing' = missing \cup (Fresh(oids) \ store)

(* The tips, in the order `read_history` collects them: refs, then logs. *)
OfferTip(t) ==
    /\ phase = "walk"
    /\ t \in todo
    /\ t \in refTips \/ todo \cap refTips = {}
    /\ todo' = todo \ {t}
    /\ Offer({t}, frontier)
    /\ UNCHANGED <<repo, store, phase, order, selected, truncated, stack, reachable>>

OldestFirst(S) == {c \in S : \A d \in S : ts[c] <= ts[d]}
Newest(S) == {c \in S : \A d \in S : ts[c] >= ts[d]}

AtCeilingLate == max > 0 /\ Len(order) > max
AtCeiling == max > 0 /\ Len(order) >= max

(* One turn of the `while let Some(..) = frontier.pop()` loop below the ceiling. *)
Keep(c) ==
    /\ phase = "walk" /\ todo = {}
    /\ c \in Newest(frontier)
    /\ ~AtCeiling
    /\ order' = Append(order, c)
    /\ selected' = selected \cup {c}
    /\ Offer(ParentsOf(c), frontier \ {c})
    /\ UNCHANGED <<repo, store, phase, todo, truncated, stack, reachable>>

(* `reachable_from` starts from the ref tips that were kept. *)
StartMarkingFromLogs == phase' = "mark" /\ stack' = (refTips \cup logTips) \cap selected
StartMarkingUnfiltered == phase' = "mark" /\ stack' = refTips
StartMarking == phase' = "mark" /\ stack' = refTips \cap selected

(* The turn that finds the ceiling reached: the popped commit is let go. *)
HitCeiling(c) ==
    /\ phase = "walk" /\ todo = {}
    /\ c \in Newest(frontier)
    /\ AtCeiling
    /\ frontier' = frontier \ {c}
    /\ truncated' = TRUE
    /\ StartMarking
    /\ UNCHANGED <<repo, store, todo, seen, commits, missing, order, selected, reachable>>

Exhaust ==
    /\ phase = "walk" /\ todo = {} /\ frontier = {}
    /\ StartMarking
    /\ UNCHANGED <<repo, store, walk, reachable>>

(* One turn of `reachable_from`: through kept parents only. *)
Mark(c) ==
    /\ phase = "mark"
    /\ c \in stack
    /\ reachable' = reachable \cup {c}
    /\ stack' = (stack \ {c}) \cup ((ParentsOf(c) \cap selected) \ (reachable \cup {c}))
    /\ UNCHANGED <<repo, store, phase, walk>>

Marked ==
    /\ phase = "mark" /\ stack = {}
    /\ phase' = "done"
    /\ UNCHANGED <<repo, store, walk, stack, reachable>>

(* The repository's own `git gc`, while the plugin reads. *)
Prune(c) ==
    /\ phase = "walk"
    /\ c \in store
    /\ store' = store \ {c}
    /\ UNCHANGED <<repo, phase, walk, stack, reachable>>

Step ==
    \/ \E t \in todo : OfferTip(t)
    \/ \E c \in frontier : Keep(c)
    \/ \E c \in frontier : HitCeiling(c)
    \/ Exhaust
    \/ \E c \in stack : Mark(c)
    \/ Marked

Next == Step \/ \E c \in store : Prune(c)

Spec == Init /\ [][Next]_vars
----------------------------------------------------------------------------
TypeOK ==
    /\ parents \in [Oid -> Seq(Oid)]
    /\ ts \in [Oid -> Int]
    /\ max \in Nat
    /\ refTips \subseteq Oid
    /\ logTips \subseteq Oid \cup {Zero}
    /\ store \subseteq Oid
    /\ phase \in {"walk", "mark", "done"}
    /\ todo \subseteq refTips \cup logTips
    /\ seen \subseteq Oid
    /\ commits \subseteq seen /\ missing \subseteq seen
    /\ frontier \subseteq commits /\ selected \subseteq commits
    /\ order \in Seq(Oid)
    /\ truncated \in BOOLEAN
    /\ stack \subseteq selected /\ reachable \subseteq selected

(***************************************************************************)
(* What a set of tips leads to: the least set that holds the tips and the  *)
(* parents of its members, going through no object found to be missing.    *)
(***************************************************************************)
Closed(T, S) ==
    /\ T \ (missing \cup {Zero}) \subseteq S
    /\ \A c \in S : ParentsOf(c) \ missing \subseteq S
Leads(T) == {c \in Oid : \A S \in SUBSET Oid : Closed(T, S) => c \in S}

(* A commit is never older than its parents; or always newer than them. *)
DatesNonIncreasing == \A c \in Oid : \A p \in ParentsOf(c) : ts[p] <= ts[c]
DatesDecreasing == \A c \in Oid : \A p \in ParentsOf(c) : ts[p] < ts[c]

(***************************************************************************)
(* A read the ceiling did not stop kept exactly what the tips lead to:     *)
(* nothing a ref or a reflog still leads to is lost, nothing else kept,    *)
(* whatever the dates are and whatever `git gc` removed meanwhile.         *)
(***************************************************************************)
CompleteUnlessTruncated ==
    phase # "walk" /\ ~truncated => selected = Leads(refTips \cup logTips)

(***************************************************************************)
(* "A truncated graph must never look like a complete one"                 *)
(* (Options.max_commits): the flag is raised exactly when a commit that    *)
(* was read is not kept, the graph then holds exactly `max` commits, and   *)
(* no graph holds more.                                                    *)
(***************************************************************************)
CeilingHonest ==
    /\ max > 0 => Len(order) <= max
    /\ phase # "walk" =>
         /\ truncated <=> commits # selected
         /\ truncated => Len(order) = max

(***************************************************************************)
(* No commit is kept twice, so the node keys `commit:<sha>` are unique,    *)
(* even when a commit is a tip and several commits' parent.                *)
(***************************************************************************)
KeptOnce ==
    /\ selected = {order[i] : i \in DOMAIN order}
    /\ \A i, j \in DOMAIN order : order[i] = order[j] => i = j

(***************************************************************************)
(* "Newest-first because that is what a ceiling should keep": as long as   *)
(* no commit is older than its parents, no commit the ceiling left out is  *)
(* newer than a commit that was kept, and `order` is sorted.               *)
(***************************************************************************)
NewestKept ==
    phase # "walk" /\ DatesNonIncreasing =>
        /\ \A k \in selected : \A u \in Leads(refTips \cup logTips) \ selected : ts[u] <= ts[k]
        /\ \A i, j \in DOMAIN order : i < j => ts[order[j]] <= ts[order[i]]

(***************************************************************************)
(* What is reported missing was named by a tip or by a kept commit, is not *)
(* in the store and is never also reported as a commit; the all-zero oid   *)
(* is "not missing: it never existed".                                     *)
(***************************************************************************)
MissingIsNamed ==
    /\ missing \cap (store \cup commits \cup {Zero}) = {}
    /\ \A m \in missing : \/ m \in refTips \cup logTips
                          \/ \E c \in selected : m \in ParentsOf(c)

(***************************************************************************)
(* The `reachable` property of a kept commit is exact (true if and only if *)
(* a branch, a tag or a detached HEAD leads there) when the read was not   *)
(* truncated, and when it was but every commit is newer than its parents.  *)
(***************************************************************************)
ReachableExact ==
    phase = "done" /\ (~truncated \/ DatesDecreasing) =>
        reachable = selected \cap Leads(refTips)
=============================================================================
