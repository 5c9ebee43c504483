----------------------------- MODULE GitHistory -----------------------------
(***************************************************************************)
(* `read_history` of plugins/git/parser/src/lib.rs around the commit walk: *)
(* which refs and reflogs give the walk its tips, and the graph written    *)
(* from what the walk kept.  `emit_commits`, `emit_refs` and               *)
(* `emit_rebases` each leave out an edge whose far end was not kept and    *)
(* count it in `dropped`; the notes are the reader's only sign of it.      *)
(*                                                                         *)
(* Abstractions.  Node properties are left out, except `reachable`, which  *)
(* is the walk's variable.  A node is its key, an edge its ends, type and  *)
(* position.  Refs of one kind are written in any order (the code sorts    *)
(* them by name); commits and rebases keep theirs.                         *)
(***************************************************************************)
EXTENDS GitWalk

CONSTANTS
    None,       \* an oid field left empty
    Worlds,     \* the refs, tag objects, reflogs and rebases considered
    Settings    \* the `[plugins.git]` switches considered

(* What git keeps names oids; a reflog may also name the all-zero one, and *)
(* the rebases found in it form a list.                                    *)
ASSUME WorldsAssumption ==
    \A w \in Worlds :
        /\ IsFiniteSet(DOMAIN w.refs)
        /\ \A name \in DOMAIN w.refs :
             w.refs[name].oid \in Oid /\ w.refs[name].peeled \in Oid \cup {None}
        /\ \A t \in DOMAIN w.tagObjects : w.tagObjects[t] \in Oid
        /\ w.detached \subseteq Oid
        /\ \A l \in DOMAIN w.logs : w.logs[l] \subseteq Oid \cup {Zero}
        /\ w.runs \in Seq({w.runs[r] : r \in DOMAIN w.runs})
        /\ \A r \in DOMAIN w.runs : w.runs[r].produced \in Seq(Oid \cup {Zero})

VARIABLES
    world,      \* what refs.rs and reflog.rs read, and the tag objects held
    opts,       \* opts.tags, opts.remotes, opts.reflog
    emitted,    \* how many of `order` emit_commits has written
    refsLeft,   \* names of the collected refs not yet written
    runsDone,   \* how many rebases emit_rebases has written
    nodes, edges, dropped,
    notes       \* the notes of the report, as a set; {} until it is made

inputs == <<world, opts>>
emission == <<emitted, refsLeft, runsDone, nodes, edges, dropped, notes>>
histVars == <<vars, inputs, emission>>
----------------------------------------------------------------------------
(***************************************************************************)
(* A world's refs are a function from refnames to [kind, oid, peeled]; tag *)
(* objects held are a function from their oid to the object they name.     *)
(***************************************************************************)
Kind(name) == world.refs[name].kind

(* `collect_refs`: a ref outside heads, remotes and tags is not collected. *)
Collected(w, o) ==
    {name \in DOMAIN w.refs :
        LET kind == w.refs[name].kind
        IN  \/ kind = "heads"
            \/ kind = "remotes" /\ o.remotes
            \/ kind = "tags" /\ o.tags}

(* `peel`: packed-refs may have done it; else at most three tag objects. *)
Deref(w, oid) == IF oid \in DOMAIN w.tagObjects THEN w.tagObjects[oid] ELSE oid
Peel(w, ref) ==
    IF ref.peeled # None THEN ref.peeled
    ELSE Deref(w, Deref(w, Deref(w, ref.oid)))

Target(w, name) ==
    IF w.refs[name].kind = "tags" THEN Peel(w, w.refs[name]) ELSE w.refs[name].oid

(* The tips: collected refs, a detached HEAD, then every reflog's oids. *)
RefTips(w, o) ==
    {Target(w, name) : name \in Collected(w, o)} \cup w.detached
LogTips(w, o) == IF o.reflog THEN UNION {w.logs[l] : l \in DOMAIN w.logs} ELSE {}

HistInit ==
    /\ parents \in Histories
    /\ ts \in Dates
    /\ max \in Ceilings
    /\ store \in Stores
    /\ world \in Worlds
    /\ opts \in Settings
    /\ refTips = RefTips(world, opts)
    /\ logTips = LogTips(world, opts)
    /\ WalkInit
    /\ emitted = 0 /\ runsDone = 0
    /\ refsLeft = Collected(world, opts)
    /\ nodes = {} /\ edges = {} /\ dropped = 0 /\ notes = {}

(* `read_history` walks and marks before it writes anything. *)
Walking == Next /\ UNCHANGED <<inputs, emission>>

CommitKey(c) == <<"commit", c>>
Edge(src, ty, dst, n) == [src |-> src, ty |-> ty, dst |-> dst, n |-> n]

(* One turn of `emit_commits`. *)
KeptIfRead(oid) == oid \in commits
Kept(oid) == oid \in selected
EmitCommit ==
    /\ phase = "done" /\ emitted < Len(order)
    /\ LET c == order[emitted + 1]
           kept == {i \in DOMAIN parents[c] : Kept(parents[c][i])}
       IN  /\ nodes' = nodes \cup {CommitKey(c)}
           /\ edges' = edges \cup
                {Edge(CommitKey(c), "PARENT", CommitKey(parents[c][i]), i) : i \in kept}
           /\ dropped' = dropped + Cardinality(DOMAIN parents[c] \ kept)
    /\ emitted' = emitted + 1
    /\ UNCHANGED <<vars, inputs, refsLeft, runsDone, notes>>

RefKey(name) == <<IF Kind(name) = "tags" THEN "tag" ELSE "branch", name>>

(* One turn of either loop of `emit_refs`: branches, then tags. *)
RefEdges(name) ==
    LET ty == IF Kind(name) = "tags" THEN "TAGS" ELSE "TIP"
    IN  {Edge(RefKey(name), ty, CommitKey(c), 0) : c \in {Target(world, name)} \cap selected}
DroppedBranch(name) == IF RefEdges(name) = {} /\ Kind(name) # "tags" THEN 1 ELSE 0
DroppedRef(name) == IF RefEdges(name) = {} THEN 1 ELSE 0

EmitRef(name) ==
    /\ phase = "done" /\ emitted = Len(order)
    /\ name \in refsLeft
    /\ Kind(name) = "tags" => \A other \in refsLeft : Kind(other) = "tags"
    /\ nodes' = nodes \cup {RefKey(name)}
    /\ edges' = edges \cup RefEdges(name)
    /\ dropped' = dropped + DroppedRef(name)
    /\ refsLeft' = refsLeft \ {name}
    /\ UNCHANGED <<vars, inputs, emitted, runsDone, notes>>

(* The key of a rebase: two of one branch within a second are told apart   *)
(* by the first suffix not yet used.                                       *)
KeyWithoutSuffix(run) == <<"rebase", run.ref, run.at, 1>>
RebaseKey(run) ==
    LET key(n) == <<"rebase", run.ref, run.at, n>>
        free == {n \in 1..(runsDone + 1) : key(n) \notin nodes}
    IN  key(CHOOSE n \in free : \A m \in free : n <= m)

(* The ends of a rebase; an empty oid is neither an edge nor a dropped one. *)
Ends(run) ==
    {<<"ONTO", run.onto, 0>>, <<"REPLACED", run.replaced, 0>>, <<"RESULT", run.result, 0>>}
      \cup {<<"PRODUCED", run.produced[i], i>> : i \in DOMAIN run.produced}
NamedEnds(run) == {end \in Ends(run) : end[2] # None}

(* One turn of `emit_rebases`. *)
EmitRebase ==
    /\ phase = "done" /\ emitted = Len(order) /\ refsLeft = {}
    /\ opts.reflog /\ runsDone < Len(world.runs)
    /\ LET run == world.runs[runsDone + 1]
           key == RebaseKey(run)
           kept == {end \in NamedEnds(run) : Kept(end[2])}
           on == {name \in Collected(world, opts) : name = run.ref /\ Kind(name) # "tags"}
       IN  /\ nodes' = nodes \cup {key}
           /\ edges' = edges
                \cup {Edge(key, end[1], CommitKey(end[2]), end[3]) : end \in kept}
                \cup {Edge(key, "ON", RefKey(name), 0) : name \in on}
           /\ dropped' = dropped + Cardinality(NamedEnds(run) \ kept)
    /\ runsDone' = runsDone + 1
    /\ UNCHANGED <<vars, inputs, emitted, refsLeft, notes>>

(* The notes: each account of what is not in the graph, when there is one. *)
MissingNoteIfDropped == IF missing # {} /\ dropped > 0 THEN {"missing"} ELSE {}
MissingNote == IF missing # {} THEN {"missing"} ELSE {}
Report ==
    /\ phase = "done" /\ emitted = Len(order) /\ refsLeft = {} /\ notes = {}
    /\ opts.reflog => runsDone = Len(world.runs)
    /\ notes' = {"reported"} \cup MissingNote
                  \cup (IF truncated THEN {"truncated"} ELSE {})
                  \cup (IF dropped > 0 THEN {"dropped"} ELSE {})
                  \cup (IF order = <<>> THEN {"no commits"} ELSE {})
    /\ UNCHANGED <<vars, inputs, emitted, refsLeft, runsDone, nodes, edges, dropped>>

HistNext ==
    \/ Walking
    \/ EmitCommit
    \/ \E name \in refsLeft : EmitRef(name)
    \/ EmitRebase
    \/ Report

HistSpec == HistInit /\ [][HistNext]_histVars
----------------------------------------------------------------------------
Reported == "reported" \in notes

(***************************************************************************)
(* An edge of the finished graph never names a node that is not in it:     *)
(* neither a commit beyond the ceiling or gone from the store, nor a       *)
(* branch that the settings left out.                                      *)
(***************************************************************************)
NoDanglingEdge ==
    Reported => \A e \in edges : e.src \in nodes /\ e.dst \in nodes

(***************************************************************************)
(* "Counted, because an absent TIP would otherwise look like a branch      *)
(* pointing at nothing on purpose": every edge the history calls for is    *)
(* either in the graph or in `dropped`, once.                              *)
(***************************************************************************)
Wanted ==
    Cardinality(UNION {{<<c, i>> : i \in DOMAIN parents[c]} : c \in selected})
      + Cardinality(Collected(world, opts))
      + Cardinality(UNION {{<<r, end>> : end \in NamedEnds(world.runs[r])} : r \in 1..runsDone})
EdgesAccounted ==
    Reported => Cardinality({e \in edges : e.ty # "ON"}) + dropped = Wanted

(***************************************************************************)
(* A report without an account of something left out is of a complete      *)
(* graph: every ref it names points at a commit of the graph, every commit *)
(* has all its parents there, and so has everything the reflogs name.      *)
(***************************************************************************)
SilenceMeansComplete ==
    Reported /\ notes \cap {"truncated", "missing", "dropped"} = {} =>
        /\ (refTips \cup logTips) \ {Zero} \subseteq selected
        /\ \A c \in selected : ParentsOf(c) \subseteq selected
        /\ \A name \in Collected(world, opts) : \E e \in edges : e.src = RefKey(name)

(***************************************************************************)
(* Every rebase has a node of its own, even two of one branch within the   *)
(* same second, so no rebase's edges are mixed with another's.             *)
(***************************************************************************)
RebasesApart ==
    Cardinality({k \in nodes : k[1] = "rebase"}) = runsDone
=============================================================================
