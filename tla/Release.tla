------------------------------ MODULE Release ------------------------------
(***************************************************************************)
(* The release workflow (.github/workflows/release.yml): a tag             *)
(* `<plugin>-v<semver>` builds a plugin, publishes it with its checksum    *)
(* and records it in `catalog.json` on master.  Every tag has a            *)
(* concurrency group of its own, so the runs of different tags interleave  *)
(* freely: they read the catalog, edit it and race to push it.             *)
(*                                                                         *)
(* External, and modelled as the workflow counts on it: GitHub starts the  *)
(* runs of a tag one at a time with at most one queued behind it, a tag    *)
(* may be pushed again or its run started over, any step may be killed, a  *)
(* release `gh` creates appears with all of its assets, and people push    *)
(* commits to master that leave the catalog alone.                         *)
(*                                                                         *)
(* Abstractions.  What a build made is a number, and so is its checksum:   *)
(* every build is another one, since a tag can be moved and the toolchain  *)
(* is `stable`.  A row of the catalog is the tag its version and url name  *)
(* and the checksum it pins.  A commit on master is counted.               *)
(***************************************************************************)
EXTENDS Naturals, FiniteSets

CONSTANTS
    Plugin, Tag,
    PluginOf,   \* the plugin a tag releases
    Listed,     \* the plugins with exactly one row in the catalog
    First,      \* the tag each plugin's row names at the beginning
    None,       \* no build
    MaxRuns,    \* a bound on the runs that are started
    MaxOthers   \* a bound on the commits people push

ASSUME PluginOfAssumption == PluginOf \in [Tag -> Plugin]
ASSUME ListedAssumption == Listed \subseteq Plugin
ASSUME FirstAssumption ==
    First \in [Plugin -> Tag] /\ \A p \in Plugin : PluginOf[First[p]] = p
ASSUME NoneAssumption == None \notin Nat
ASSUME BoundsAssumption == MaxRuns \in Nat /\ MaxOthers \in Nat

VARIABLES
    made,       \* the tags whose release exists
    release,    \* its two assets
    catalog,    \* the rows of catalog.json on master
    commits,    \* how many commits master has
    \* the run of each tag
    at,         \* the step it is at, or how it ended
    queued,     \* the run waiting behind it
    built,      \* what its build made
    base, head, \* the catalog, and the commit of master, its checkout is based on
    edit,       \* the catalog in its checkout
    tries,      \* push attempts it has lost
    stuck,      \* its rebase stopped on a conflict
    from,       \* history: master when it checked it out
    \* bounds
    builds, others, runs

published == <<made, release, catalog, commits>>
job == <<built, base, head, edit, tries, stuck, from>>
counters == <<builds, others, runs>>
vars == <<published, at, queued, job, counters>>

Row == [tag : Tag, sha : Nat]
PluginSteps == {"build", "publish", "checksum"}
CatalogSteps == {"checkout", "update", "pull", "push"}
PluginEnds == {"never", "plugin killed"}
CatalogEnds == {"recorded", "not listed", "unpublished", "bad catalog", "lost", "catalog killed"}

NoAssets == [wasm |-> None, sha |-> None]
Assets(b) == [wasm |-> b, sha |-> b]
Init ==
    /\ made = {t \in Tag : \E p \in Plugin : First[p] = t}
    /\ release = [t \in Tag |-> IF t \in made THEN Assets(0) ELSE NoAssets]
    /\ catalog = [p \in Plugin |-> [tag |-> First[p], sha |-> 0]]
    /\ commits = 0
    /\ at = [t \in Tag |-> "never"] /\ queued = [t \in Tag |-> "none"]
    /\ built = [t \in Tag |-> None]
    /\ base = [t \in Tag |-> catalog] /\ edit = base /\ head = [t \in Tag |-> 0]
    /\ tries = [t \in Tag |-> 0] /\ stuck = [t \in Tag |-> FALSE]
    /\ from = [t \in Tag |-> 0]
    /\ builds = 0 /\ others = 0 /\ runs = 0
----------------------------------------------------------------------------
(* The `plugin` job. *)
Go(t, here, there) == at[t] = here /\ at' = [at EXCEPT ![t] = there]

Build(t) ==
    /\ Go(t, "build", "publish")
    /\ builds' = builds + 1
    /\ built' = [built EXCEPT ![t] = builds + 1]
    /\ UNCHANGED <<published, queued, base, head, edit, tries, stuck, from, others, runs>>

CreateRelease(t) ==
    /\ t \notin made /\ made' = made \cup {t}
    /\ Go(t, "publish", "checkout")
    /\ release' = [release EXCEPT ![t] = Assets(built[t])]
    /\ UNCHANGED <<catalog, commits, queued, job, counters>>

(* Of a release that exists only the missing assets are uploaded, in turn. *)
AssetClobbered(old, new) == new
Asset(old, new) == IF old = None THEN new ELSE old

UploadWasm(t) ==
    /\ t \in made
    /\ Go(t, "publish", "checksum")
    /\ release' = [release EXCEPT ![t].wasm = Asset(@, built[t])]
    /\ UNCHANGED <<made, catalog, commits, queued, job, counters>>

UploadChecksum(t) ==
    /\ Go(t, "checksum", "checkout")
    /\ release' = [release EXCEPT ![t].sha = Asset(@, built[t])]
    /\ UNCHANGED <<made, catalog, commits, queued, job, counters>>
----------------------------------------------------------------------------
(* The `catalog` job. *)
Checkout(t) ==
    /\ Go(t, "checkout", "update")
    /\ base' = [base EXCEPT ![t] = catalog]
    /\ head' = [head EXCEPT ![t] = commits]
    /\ edit' = [edit EXCEPT ![t] = catalog]
    /\ from' = [from EXCEPT ![t] = commits]
    /\ tries' = [tries EXCEPT ![t] = 0]
    /\ stuck' = [stuck EXCEPT ![t] = FALSE]
    /\ UNCHANGED <<published, queued, built, counters>>

(* The checksum is read back from the release. *)
ReadBackOwn(t) == built[t]
ReadBack(t) == release[t].sha
Recorded(t) == [edit[t] EXCEPT ![PluginOf[t]] = [tag |-> t, sha |-> ReadBack(t)]]

(* `check-catalog.sh --online`: every row pins its release's checksum. *)
Checked(rows) == \A p \in Plugin : release[rows[p].tag].sha = rows[p].sha

(* Where the step leads; a plugin with no row, or several, is left alone. *)
AfterUpdate(t) ==
    IF ReadBack(t) = None THEN "unpublished"
    ELSE IF PluginOf[t] \notin Listed THEN "not listed"
    ELSE IF ~Checked(Recorded(t)) THEN "bad catalog"
    ELSE IF Recorded(t) = edit[t] THEN "recorded" ELSE "pull"
UpdateEntry(t) ==
    /\ Go(t, "update", AfterUpdate(t))
    /\ edit' = [edit EXCEPT ![t] = IF AfterUpdate(t) = "pull" THEN Recorded(t) ELSE @]
    /\ UNCHANGED <<published, queued, built, base, head, tries, stuck, from, counters>>

(* An attempt that fails is one of three. *)
LoseTryUncapped(t) ==
    /\ tries' = [tries EXCEPT ![t] = @ + 1]
    /\ at' = [at EXCEPT ![t] = IF tries[t] = 3 THEN "lost" ELSE "pull"]
LoseTryForever(t) ==
    /\ tries' = [tries EXCEPT ![t] = IF @ < 2 THEN @ + 1 ELSE @]
    /\ at' = [at EXCEPT ![t] = "pull"]
LoseTryEarly(t) ==
    /\ tries' = [tries EXCEPT ![t] = @ + 1]
    /\ at' = [at EXCEPT ![t] = IF tries[t] = 1 THEN "lost" ELSE "pull"]
LoseTry(t) ==
    /\ tries' = [tries EXCEPT ![t] = @ + 1]
    /\ at' = [at EXCEPT ![t] = IF tries[t] = 2 THEN "lost" ELSE "pull"]

(***************************************************************************)
(* `git pull --rebase`: the one row edited here is carried over onto       *)
(* master, unless master's row has become another since this checkout; a   *)
(* rebase that stopped on that stays stopped, and fails every later pull.  *)
(***************************************************************************)
Conflict(t) ==
    LET p == PluginOf[t] IN catalog[p] \notin {base[t][p], edit[t][p]}
RebasedOurs(t) == edit[t]
Rebased(t) == [catalog EXCEPT ![PluginOf[t]] = edit[t][PluginOf[t]]]

PullStops(t) ==
    /\ at[t] = "pull"
    /\ stuck[t] \/ Conflict(t)
    /\ stuck' = [stuck EXCEPT ![t] = TRUE]
    /\ LoseTry(t)
    /\ UNCHANGED <<published, queued, built, base, head, edit, from, counters>>

PullRebases(t) ==
    /\ ~stuck[t] /\ ~Conflict(t)
    /\ Go(t, "pull", "push")
    /\ edit' = [edit EXCEPT ![t] = Rebased(t)]
    /\ base' = [base EXCEPT ![t] = catalog]
    /\ head' = [head EXCEPT ![t] = commits]
    /\ UNCHANGED <<published, queued, built, tries, stuck, from, counters>>

(* A push goes through if master is still where the rebase left it. *)
PushLands(t) ==
    /\ head[t] = commits
    /\ Go(t, "push", "recorded")
    /\ catalog' = edit[t]
    /\ commits' = commits + 1
    /\ UNCHANGED <<made, release, queued, job, counters>>

PushLosesRace(t) ==
    /\ at[t] = "push" /\ head[t] # commits
    /\ LoseTry(t)
    /\ UNCHANGED <<published, queued, built, base, head, edit, stuck, from, counters>>

Work(t) ==
    \/ Build(t) \/ CreateRelease(t) \/ UploadWasm(t) \/ UploadChecksum(t)
    \/ Checkout(t) \/ UpdateEntry(t)
    \/ PullStops(t) \/ PullRebases(t) \/ PushLands(t) \/ PushLosesRace(t)
----------------------------------------------------------------------------
(* GitHub and people. *)
Running(t) == at[t] \in PluginSteps \cup CatalogSteps

(***************************************************************************)
(* A tag is pushed, or pushed again, or all its jobs are run again; or the *)
(* failed catalog job of its last run is run again.  Whatever was waiting  *)
(* in the group of the tag is cancelled.                                   *)
(***************************************************************************)
Enqueue(t, kind) ==
    /\ runs < MaxRuns /\ runs' = runs + 1
    /\ kind = "catalog" => at[t] \in CatalogEnds \ {"recorded", "not listed"}
    /\ queued' = [queued EXCEPT ![t] = kind]
    /\ UNCHANGED <<published, at, job, builds, others>>

Begin(t) ==
    /\ ~Running(t) /\ queued[t] # "none"
    /\ at' = [at EXCEPT ![t] = IF queued[t] = "all" THEN "build" ELSE "checkout"]
    /\ queued' = [queued EXCEPT ![t] = "none"]
    /\ UNCHANGED <<published, job, counters>>

Kill(t) ==
    /\ Running(t)
    /\ at' = [at EXCEPT ![t] = IF at[t] \in PluginSteps THEN "plugin killed" ELSE "catalog killed"]
    /\ UNCHANGED <<published, queued, job, counters>>

(* Making a release by hand, without its assets, pushes its tag as well. *)
MakeByHand(t) ==
    /\ runs < MaxRuns /\ runs' = runs + 1
    /\ t \notin made /\ made' = made \cup {t}
    /\ at[t] = "never" /\ queued[t] = "none"
    /\ queued' = [queued EXCEPT ![t] = "all"]
    /\ UNCHANGED <<release, catalog, commits, at, job, builds, others>>

OtherCommit ==
    /\ others < MaxOthers /\ others' = others + 1
    /\ commits' = commits + 1
    /\ UNCHANGED <<made, release, catalog, at, queued, job, builds, runs>>

Next ==
    \/ \E t \in Tag : \/ Work(t) \/ Begin(t) \/ Kill(t) \/ MakeByHand(t)
                      \/ \E kind \in {"all", "catalog"} : Enqueue(t, kind)
    \/ OtherCommit

(* GitHub starts what is queued and carries on what has started. *)
Fairness == \A t \in Tag : WF_vars(Work(t)) /\ WF_vars(Begin(t))
Spec == Init /\ [][Next]_vars /\ Fairness
----------------------------------------------------------------------------
TypeOK ==
    /\ made \subseteq Tag
    /\ release \in [Tag -> [wasm : Nat \cup {None}, sha : Nat \cup {None}]]
    /\ catalog \in [Plugin -> Row]
    /\ commits \in Nat
    /\ at \in [Tag -> PluginSteps \cup CatalogSteps \cup PluginEnds \cup CatalogEnds]
    /\ queued \in [Tag -> {"none", "all", "catalog"}]
    /\ built \in [Tag -> Nat \cup {None}]
    /\ base \in [Tag -> [Plugin -> Row]] /\ edit \in [Tag -> [Plugin -> Row]]
    /\ head \in [Tag -> Nat] /\ from \in [Tag -> Nat]
    /\ tries \in [Tag -> 0..3] /\ stuck \in [Tag -> BOOLEAN]
    /\ builds \in Nat /\ runs \in 0..MaxRuns /\ others \in 0..MaxOthers

(***************************************************************************)
(* Whatever was killed, run again or raced, every row of the catalog, and  *)
(* every row about to be pushed, pins the checksum asset of the release it *)
(* names.  So the check of all rows that each release makes never fails    *)
(* one release because of another, and no run finds its checksum missing.  *)
(***************************************************************************)
PinsPublished ==
    /\ Checked(catalog)
    /\ \A t \in Tag : at[t] \notin {"unpublished", "bad catalog"}
    /\ \A t \in Tag : at[t] = "push" => Checked(edit[t])

(***************************************************************************)
(* Two releases racing for master do not undo each other: a push changes   *)
(* the row of its own plugin alone, and an asset never changes.            *)
(***************************************************************************)
OthersKept ==
    [][/\ \A p \in Plugin : catalog'[p] # catalog[p] =>
             \E t \in Tag : PluginOf[t] = p /\ at[t] = "push" /\ catalog'[p].tag = t
       /\ \A t \in Tag : /\ release[t].wasm # None => release'[t].wasm = release[t].wasm
                         /\ release[t].sha # None => release'[t].sha = release[t].sha]_vars

(***************************************************************************)
(* "The catalog step rebases and retries its own push" (release.yml:48): a *)
(* run that gives up lost to three commits at least, or a commit landed on *)
(* its row, which takes a second tag of its own plugin.  Two plugins       *)
(* releasing at once, one commit each, never cost one a release.           *)
(***************************************************************************)
GivesUpOnlyOutraced ==
    \A t \in Tag : at[t] = "lost" =>
        \/ commits >= from[t] + 3
        \/ /\ stuck[t] /\ commits > from[t]
           /\ \E u \in Tag \ {t} : PluginOf[u] = PluginOf[t]

(* Every run ends: what is started is finished, killed or given up. *)
RunsEnd == \A t \in Tag : Running(t) ~> ~Running(t)

(***************************************************************************)
(* As documented in release.yml:173: the checksum is "read back from the   *)
(* release rather than recomputed, so what the catalog pins is what an     *)
(* installer will download".                                               *)
(***************************************************************************)
PinIsWhatIsDownloaded ==
    \A p \in Plugin : release[catalog[p].tag].wasm = catalog[p].sha
=============================================================================
