--------------------------- MODULE ReleaseProofs ---------------------------
(***************************************************************************)
(* Proofs about the release workflow, for every set of plugins and tags    *)
(* and any number of runs, kills and concurrent commits.                   *)
(*                                                                         *)
(* What makes the safety properties inductive is that a checksum asset is  *)
(* written once: a row that names a release and pins its checksum keeps    *)
(* doing so in every stale checkout, in every rebase and on master.        *)
(***************************************************************************)
EXTENDS Release, TLAPS

(* A release that is not made has no assets. *)
Releases == \A t \in Tag \ made : release[t].wasm = None /\ release[t].sha = None

(* Rows sit at their own plugin and pin what their release publishes. *)
Sound(rows) == Checked(rows) /\ \A p \in Plugin : PluginOf[rows[p].tag] = p
Catalogs == Sound(catalog) /\ \A t \in Tag : Sound(edit[t])

(* What has been done by the time a run is at a step. *)
StepsOf(t) ==
    /\ at[t] \in {"publish", "checksum"} => built[t] # None
    /\ at[t] = "checksum" => t \in made
    /\ at[t] \in CatalogSteps \cup CatalogEnds => release[t].sha # None
    /\ queued[t] = "catalog" => at[t] \in CatalogEnds
    /\ at[t] \notin {"unpublished", "bad catalog"}
Steps == \A t \in Tag : StepsOf(t)

(* A checkout is behind master or is master, but for the row it edits. *)
CheckoutOf(t) ==
    /\ from[t] <= head[t] /\ head[t] <= commits
    /\ head[t] = commits => base[t] = catalog
    /\ at[t] \in {"pull", "push"} =>
          edit[t][PluginOf[t]] = [tag |-> t, sha |-> release[t].sha]
    /\ at[t] = "push" =>
          \A q \in Plugin \ {PluginOf[t]} : edit[t][q] = base[t][q]
Checkouts == \A t \in Tag : CheckoutOf(t)

(* A rebase stopped because a second tag of the plugin landed its row. *)
Outraced(t) ==
    /\ commits > from[t]
    /\ \E u \in Tag \ {t} : PluginOf[u] = PluginOf[t]

(* Every attempt lost was lost to a commit of its own. *)
AttemptsOf(t) ==
    /\ at[t] = "update" => tries[t] = 0 /\ ~stuck[t]
    /\ at[t] = "pull" => /\ tries[t] <= 2
                         /\ stuck[t] => Outraced(t)
                         /\ ~stuck[t] => commits >= from[t] + tries[t]
    /\ at[t] = "push" => tries[t] <= 2 /\ ~stuck[t] /\ head[t] >= from[t] + tries[t]
    /\ at[t] = "lost" => \/ commits >= from[t] + 3
                         \/ stuck[t] /\ Outraced(t)
Attempts == \A t \in Tag : AttemptsOf(t)

(* The types, in the parts that change together. *)
TypePublished ==
    /\ made \subseteq Tag
    /\ release \in [Tag -> [wasm : Nat \cup {None}, sha : Nat \cup {None}]]
    /\ catalog \in [Plugin -> Row] /\ commits \in Nat
TypeRuns ==
    /\ at \in [Tag -> PluginSteps \cup CatalogSteps \cup PluginEnds \cup CatalogEnds]
    /\ queued \in [Tag -> {"none", "all", "catalog"}]
TypeBuilt == built \in [Tag -> Nat \cup {None}] /\ builds \in Nat
TypeCheckouts ==
    /\ base \in [Tag -> [Plugin -> Row]] /\ edit \in [Tag -> [Plugin -> Row]]
    /\ head \in [Tag -> Nat] /\ from \in [Tag -> Nat]
TypeAttempts == tries \in [Tag -> 0..3] /\ stuck \in [Tag -> BOOLEAN]
TypeCounters == runs \in 0..MaxRuns /\ others \in 0..MaxOthers

IInv == TypeOK /\ Releases /\ Catalogs /\ Steps /\ Checkouts /\ Attempts

USE PluginOfAssumption, ListedAssumption, FirstAssumption, NoneAssumption, BoundsAssumption
----------------------------------------------------------------------------
(* The workflow starts in the invariant. *)
LEMMA InitIInv == Init => IInv
<1> SUFFICES ASSUME Init PROVE IInv
    OBVIOUS
<1>1. TypeOK
    BY DEF Init, TypeOK, NoAssets, Assets, Row, PluginEnds
<1>2. Releases
    BY DEF Init, Releases, NoAssets
<1>3. Sound(catalog)
    <2>1. \A p \in Plugin : release[catalog[p].tag] = Assets(0) /\ catalog[p].sha = 0
        BY DEF Init
    <2> QED
        BY <2>1 DEF Init, Sound, Checked, Assets
<1>4. Catalogs
    BY <1>3 DEF Init, Catalogs, Sound, Checked
<1>5. Steps /\ Checkouts /\ Attempts
    BY DEF Init, Steps, StepsOf, Checkouts, CheckoutOf, Attempts, AttemptsOf,
       CatalogSteps, CatalogEnds
<1> QED
    BY <1>1, <1>2, <1>4, <1>5 DEF IInv
----------------------------------------------------------------------------
(* Which steps change what. *)
LEMMA ChangePublished == [Next]_vars =>
    \/ UNCHANGED <<made, release, catalog, commits>>
    \/ \E t \in Tag : CreateRelease(t) \/ UploadWasm(t) \/ UploadChecksum(t) \/ MakeByHand(t) \/ PushLands(t)
    \/ OtherCommit
    BY DEF Next, Work, vars, published, job, counters, Build, Checkout, UpdateEntry,
       PullStops, PullRebases, PushLosesRace, Begin, Kill, Enqueue

LEMMA ChangeBuilt == [Next]_vars =>
    \/ UNCHANGED <<built, builds>>
    \/ \E t \in Tag : Build(t)
    BY DEF Next, Work, vars, published, job, counters, CreateRelease, UploadWasm,
       UploadChecksum, Checkout, UpdateEntry, PullStops, PullRebases, PushLands,
       PushLosesRace, Begin, Kill, MakeByHand, Enqueue, OtherCommit

LEMMA ChangeCheckouts == [Next]_vars =>
    \/ UNCHANGED <<base, edit, head, from>>
    \/ \E t \in Tag : Checkout(t) \/ UpdateEntry(t) \/ PullRebases(t)
    BY DEF Next, Work, vars, published, job, counters, Build, CreateRelease,
       UploadWasm, UploadChecksum, PullStops, PushLands, PushLosesRace, Begin, Kill,
       MakeByHand, Enqueue, OtherCommit

LEMMA ChangeAttempts == [Next]_vars =>
    \/ UNCHANGED <<tries, stuck>>
    \/ \E t \in Tag : Checkout(t) \/ PullStops(t) \/ PushLosesRace(t)
    BY DEF Next, Work, vars, published, job, counters, Build, CreateRelease,
       UploadWasm, UploadChecksum, UpdateEntry, PullRebases, PushLands, Begin, Kill,
       MakeByHand, Enqueue, OtherCommit

LEMMA ChangeCounters == [Next]_vars =>
    \/ UNCHANGED <<runs, others>>
    \/ \E t \in Tag : MakeByHand(t) \/ \E kind \in {"all", "catalog"} : Enqueue(t, kind)
    \/ OtherCommit
    BY DEF Next, Work, vars, published, job, counters, Build, CreateRelease,
       UploadWasm, UploadChecksum, Checkout, UpdateEntry, PullStops, PullRebases,
       PushLands, PushLosesRace, Begin, Kill, MakeByHand

(* Every value keeps its type. *)
LEMMA TypeNext == IInv /\ [Next]_vars => TypeOK'
<1> SUFFICES ASSUME IInv, [Next]_vars PROVE TypeOK'
    OBVIOUS
<1>0. TypePublished /\ TypeRuns /\ TypeBuilt /\ TypeCheckouts /\ TypeAttempts /\ TypeCounters
    BY DEF IInv, TypeOK, TypePublished, TypeRuns, TypeBuilt, TypeCheckouts,
       TypeAttempts, TypeCounters
<1>1. TypePublished'
    <2> USE DEF TypePublished
    <2>1. ASSUME NEW t \in Tag, CreateRelease(t) PROVE TypePublished'
        BY <1>0, <2>1 DEF CreateRelease, Assets, TypeBuilt
    <2>2. ASSUME NEW t \in Tag, UploadWasm(t) PROVE TypePublished'
        <3>1. Asset(release[t].wasm, built[t]) \in Nat \cup {None}
            BY <1>0 DEF Asset, TypeBuilt
        <3> QED
            <4> DEFINE new == [release[t] EXCEPT !.wasm = Asset(@, built[t])]
            <4>1. new \in [wasm : Nat \cup {None}, sha : Nat \cup {None}]
                BY <1>0, <3>1
            <4>2. release' = [release EXCEPT ![t] = new]
                BY <2>2 DEF UploadWasm
            <4> QED
                BY <1>0, <2>2, <4>1, <4>2 DEF UploadWasm
    <2>3. ASSUME NEW t \in Tag, UploadChecksum(t) PROVE TypePublished'
        <3>1. Asset(release[t].sha, built[t]) \in Nat \cup {None}
            BY <1>0 DEF Asset, TypeBuilt
        <3> QED
            BY <1>0, <2>3, <3>1 DEF UploadChecksum
    <2>4. ASSUME NEW t \in Tag, MakeByHand(t) PROVE TypePublished'
        BY <1>0, <2>4 DEF MakeByHand
    <2>5. ASSUME NEW t \in Tag, PushLands(t) PROVE TypePublished'
        BY <1>0, <2>5 DEF PushLands, TypeCheckouts
    <2>6. CASE OtherCommit
        BY <1>0, <2>6 DEF OtherCommit
    <2> QED
        BY <1>0, <2>1, <2>2, <2>3, <2>4, <2>5, <2>6, ChangePublished
<1>2. TypeRuns'
    <2> USE DEF TypeRuns, PluginSteps, CatalogSteps, PluginEnds, CatalogEnds, Go
    <2>1. ASSUME NEW t \in Tag, Work(t) PROVE TypeRuns'
        <3>1. CASE Build(t) \/ CreateRelease(t) \/ UploadWasm(t) \/ UploadChecksum(t) \/ Checkout(t)
            BY <1>0, <3>1 DEF Build, CreateRelease, UploadWasm, UploadChecksum, Checkout, job
        <3>2. CASE UpdateEntry(t)
            BY <1>0, <3>2 DEF UpdateEntry, AfterUpdate
        <3>3. CASE PullStops(t) \/ PushLosesRace(t)
            BY <1>0, <3>3 DEF PullStops, PushLosesRace, LoseTry
        <3>4. CASE PullRebases(t) \/ PushLands(t)
            BY <1>0, <3>4 DEF PullRebases, PushLands, job
        <3> QED
            BY <1>0, <2>1, <3>1, <3>2, <3>3, <3>4 DEF Work
    <2>2. ASSUME NEW t \in Tag, Begin(t) \/ Kill(t) \/ MakeByHand(t) PROVE TypeRuns'
        <3>1. CASE Begin(t)
            BY <1>0, <3>1 DEF Begin
        <3>2. CASE Kill(t)
            BY <1>0, <3>2 DEF Kill
        <3>3. CASE MakeByHand(t)
            BY <1>0, <3>3 DEF MakeByHand
        <3> QED
            BY <2>2, <3>1, <3>2, <3>3
    <2>3. ASSUME NEW t \in Tag, NEW kind \in {"all", "catalog"}, Enqueue(t, kind) PROVE TypeRuns'
        BY <1>0, <2>3 DEF Enqueue, job
    <2>4. CASE OtherCommit \/ UNCHANGED vars
        BY <1>0, <2>4 DEF OtherCommit, vars
    <2> QED
        BY <1>0, <2>1, <2>2, <2>3, <2>4 DEF Next
<1>3. TypeBuilt'
    BY <1>0, ChangeBuilt DEF TypeBuilt, Build
<1>4. TypeCheckouts'
    <2> USE DEF TypeCheckouts
    <2>1. ASSUME NEW t \in Tag, Checkout(t) PROVE TypeCheckouts'
        BY <1>0, <2>1 DEF Checkout, TypePublished
    <2>2. ASSUME NEW t \in Tag, UpdateEntry(t) PROVE TypeCheckouts'
        <3>1. AfterUpdate(t) = "pull" => Recorded(t) \in [Plugin -> Row]
            <4>1. release[t].sha \in Nat \cup {None}
                BY <1>0 DEF TypePublished
            <4> QED
                BY <1>0, <4>1 DEF AfterUpdate, Recorded, ReadBack, Row
        <3> QED
            BY <1>0, <2>2, <3>1 DEF UpdateEntry
    <2>3. ASSUME NEW t \in Tag, PullRebases(t) PROVE TypeCheckouts'
        <3>1. Rebased(t) \in [Plugin -> Row]
            BY <1>0 DEF Rebased, TypePublished
        <3> QED
            BY <1>0, <2>3, <3>1 DEF PullRebases, TypePublished
    <2> QED
        BY <1>0, <2>1, <2>2, <2>3, ChangeCheckouts
<1>5. TypeAttempts'
    <2> USE DEF TypeAttempts
    <2>1. ASSUME NEW t \in Tag, Checkout(t) PROVE TypeAttempts'
        BY <1>0, <2>1 DEF Checkout
    <2>2. ASSUME NEW t \in Tag, PullStops(t) PROVE TypeAttempts'
        <3>1. tries[t] + 1 \in 0..3
            BY <1>0, <2>2 DEF IInv, PullStops, Attempts, AttemptsOf
        <3> QED
            BY <1>0, <2>2, <3>1 DEF PullStops, LoseTry
    <2>3. ASSUME NEW t \in Tag, PushLosesRace(t) PROVE TypeAttempts'
        <3>1. tries[t] + 1 \in 0..3
            BY <1>0, <2>3 DEF IInv, PushLosesRace, Attempts, AttemptsOf
        <3> QED
            BY <1>0, <2>3, <3>1 DEF PushLosesRace, LoseTry
    <2> QED
        BY <1>0, <2>1, <2>2, <2>3, ChangeAttempts
<1>6. TypeCounters'
    <2> USE DEF TypeCounters
    <2>1. ASSUME NEW t \in Tag, NEW kind \in {"all", "catalog"}, Enqueue(t, kind) PROVE TypeCounters'
        <3>1. runs < MaxRuns /\ runs' = runs + 1 /\ others' = others
            BY <2>1 DEF Enqueue
        <3> QED
            BY <1>0, <3>1, BoundsAssumption
    <2>2. ASSUME NEW t \in Tag, MakeByHand(t) PROVE TypeCounters'
        <3>1. runs < MaxRuns /\ runs' = runs + 1 /\ others' = others
            BY <2>2 DEF MakeByHand
        <3> QED
            BY <1>0, <3>1, BoundsAssumption
    <2>3. CASE OtherCommit
        BY <1>0, <2>3, BoundsAssumption DEF OtherCommit
    <2> QED
        BY <1>0, <2>1, <2>2, <2>3, ChangeCounters
<1> QED
    BY <1>1, <1>2, <1>3, <1>4, <1>5, <1>6
       DEF TypeOK, TypePublished, TypeRuns, TypeBuilt, TypeCheckouts, TypeAttempts, TypeCounters
----------------------------------------------------------------------------
(* An asset is written once: no step replaces or removes it. *)
LEMMA AssetsKept ==
    IInv /\ [Next]_vars =>
        \A t \in Tag : /\ release[t].wasm # None => release'[t].wasm = release[t].wasm
                       /\ release[t].sha # None => release'[t].sha = release[t].sha
<1> SUFFICES ASSUME IInv, [Next]_vars, NEW u \in Tag
             PROVE  /\ release[u].wasm # None => release'[u].wasm = release[u].wasm
                    /\ release[u].sha # None => release'[u].sha = release[u].sha
    OBVIOUS
<1>0. TypePublished /\ Releases
    BY DEF IInv, TypeOK, TypePublished
<1>1. ASSUME NEW t \in Tag, CreateRelease(t) PROVE release[t].wasm = None /\ release[t].sha = None
    BY <1>0, <1>1 DEF CreateRelease, Releases
<1>2. ASSUME NEW t \in Tag, UploadWasm(t) PROVE
          release' = [release EXCEPT ![t].wasm = IF release[t].wasm = None THEN built[t] ELSE release[t].wasm]
    BY <1>2 DEF UploadWasm, Asset
<1>3. ASSUME NEW t \in Tag, UploadChecksum(t) PROVE
          release' = [release EXCEPT ![t].sha = IF release[t].sha = None THEN built[t] ELSE release[t].sha]
    BY <1>3 DEF UploadChecksum, Asset
<1> QED
    BY <1>0, <1>1, <1>2, <1>3, ChangePublished
       DEF TypePublished, CreateRelease, MakeByHand, PushLands, OtherCommit

(* So a sound catalog, checked out at any time, remains sound. *)
LEMMA StaysSound ==
    ASSUME NEW rows \in [Plugin -> Row], Sound(rows),
           \A t \in Tag : release[t].sha # None => release'[t].sha = release[t].sha
    PROVE  \A p \in Plugin : /\ release'[rows[p].tag].sha = rows[p].sha
                             /\ PluginOf[rows[p].tag] = p
    BY NoneAssumption DEF Sound, Checked, Row

LEMMA ReleasesNext == IInv /\ [Next]_vars => Releases'
<1> SUFFICES ASSUME IInv, [Next]_vars PROVE Releases'
    OBVIOUS
<1>0. TypePublished /\ Releases
    BY DEF IInv, TypeOK, TypePublished
<1>1. ASSUME NEW t \in Tag, CreateRelease(t) PROVE Releases'
    BY <1>0, <1>1 DEF CreateRelease, TypePublished, Releases
<1>2. ASSUME NEW t \in Tag, UploadWasm(t) \/ UploadChecksum(t) PROVE Releases'
    <2>1. t \in made /\ made' = made /\ \A u \in Tag \ {t} : release'[u] = release[u]
        <3>1. CASE UploadWasm(t)
            BY <1>0, <3>1 DEF UploadWasm, TypePublished
        <3>2. CASE UploadChecksum(t)
            BY <1>0, <3>2 DEF IInv, Steps, StepsOf, UploadChecksum, Go, TypePublished
        <3> QED
            BY <1>2, <3>1, <3>2
    <2> QED
        BY <1>0, <2>1 DEF Releases
<1>3. ASSUME made \subseteq made', release' = release PROVE Releases'
    BY <1>0, <1>3 DEF Releases
<1> QED
    BY <1>1, <1>2, <1>3, ChangePublished DEF MakeByHand, PushLands, OtherCommit

(* A row that was read back from its release is sound, so a run that got   *)
(* this far finds nothing wrong with the catalog.                          *)
LEMMA RecordedSound ==
    ASSUME IInv, NEW t \in Tag
    PROVE  Sound(Recorded(t))
<1>0. TypeCheckouts /\ Sound(edit[t])
    BY DEF IInv, TypeOK, TypeCheckouts, Catalogs
<1>1. Recorded(t)[PluginOf[t]] = [tag |-> t, sha |-> release[t].sha]
    BY <1>0, PluginOfAssumption DEF Recorded, ReadBack, TypeCheckouts
<1>2. \A p \in Plugin \ {PluginOf[t]} : Recorded(t)[p] = edit[t][p]
    BY <1>0, PluginOfAssumption DEF Recorded, TypeCheckouts
<1> QED
    BY <1>0, <1>1, <1>2 DEF Sound, Checked

LEMMA CatalogsNext == IInv /\ [Next]_vars => Catalogs'
<1> SUFFICES ASSUME IInv, [Next]_vars PROVE Catalogs'
    OBVIOUS
<1>0. TypePublished /\ TypeCheckouts /\ Catalogs
    BY DEF IInv, TypeOK, TypePublished, TypeCheckouts
<1> DEFINE Pins(rows) == \A p \in Plugin : /\ release'[rows[p].tag].sha = rows[p].sha
                                           /\ PluginOf[rows[p].tag] = p
<1>1. Pins(catalog) /\ \A t \in Tag : Pins(edit[t])
    BY <1>0, AssetsKept, StaysSound DEF TypePublished, TypeCheckouts, Catalogs
<1>2. Pins(catalog')
    <2>1. catalog' = catalog \/ \E t \in Tag : catalog' = edit[t]
        BY ChangePublished DEF CreateRelease, UploadWasm, UploadChecksum,
           MakeByHand, PushLands, OtherCommit
    <2> QED
        BY <1>1, <2>1
<1>3. ASSUME NEW u \in Tag PROVE Pins(edit'[u])
    <2>1. ASSUME NEW t \in Tag, Checkout(t) PROVE Pins(edit'[u])
        BY <1>0, <1>1, <2>1 DEF Checkout, TypeCheckouts
    <2>2. ASSUME NEW t \in Tag, UpdateEntry(t) PROVE Pins(edit'[u])
        <3>1. release' = release
            BY <2>2 DEF UpdateEntry, published
        <3>2. Pins(Recorded(t))
            BY <3>1, RecordedSound DEF Sound, Checked
        <3>3. edit'[u] \in {edit[u], Recorded(t)}
            BY <1>0, <2>2 DEF UpdateEntry, TypeCheckouts
        <3> QED
            BY <1>1, <3>2, <3>3
    <2>3. ASSUME NEW t \in Tag, PullRebases(t) PROVE Pins(edit'[u])
        <3>1. \A p \in Plugin : Rebased(t)[p] \in {catalog[p], edit[t][p]}
            BY <1>0 DEF Rebased, TypePublished
        <3>2. edit'[u] \in {edit[u], Rebased(t)}
            BY <1>0, <2>3 DEF PullRebases, TypeCheckouts
        <3> QED
            BY <1>1, <3>1, <3>2
    <2>4. CASE edit' = edit
        BY <1>1, <2>4
    <2> QED
        BY <2>1, <2>2, <2>3, <2>4, ChangeCheckouts
<1> QED
    BY <1>2, <1>3 DEF Catalogs, Sound, Checked
LEMMA StepsNext == IInv /\ [Next]_vars => Steps'
<1> SUFFICES ASSUME IInv, [Next]_vars, NEW u \in Tag
             PROVE  StepsOf(u)'
    BY DEF Steps
<1>0. /\ TypePublished /\ TypeRuns /\ TypeBuilt /\ Steps
      /\ release[u].sha # None => release'[u].sha # None
    BY AssetsKept DEF IInv, TypeOK, TypePublished, TypeRuns, TypeBuilt
<1>a. builds + 1 # None
    <2>1. builds + 1 \in Nat
        BY <1>0 DEF TypeBuilt
    <2> QED
        BY <2>1, NoneAssumption
<1>b. ASSUME NEW t \in Tag, UploadChecksum(t), built[t] # None PROVE release'[t].sha # None
    <2>1. release' = [release EXCEPT ![t].sha = IF release[t].sha = None THEN built[t] ELSE release[t].sha]
        BY <1>b DEF UploadChecksum, Asset
    <2> QED
        BY <1>0, <1>b, <2>1 DEF TypePublished
<1> USE DEF Steps, StepsOf, TypeRuns, CatalogSteps, CatalogEnds, PluginSteps, PluginEnds, Go
<1>1. ASSUME NEW t \in Tag, Build(t) PROVE StepsOf(u)'
    BY <1>0, <1>a, <1>1 DEF Build, TypeBuilt, published
<1>2. ASSUME NEW t \in Tag, CreateRelease(t) PROVE StepsOf(u)'
    <2>1. release'[t].sha # None
        BY <1>0, <1>2 DEF CreateRelease, TypePublished, Assets
    <2> QED
        BY <1>0, <1>2, <2>1 DEF CreateRelease, job
<1>3. ASSUME NEW t \in Tag, UploadWasm(t) PROVE StepsOf(u)'
    BY <1>0, <1>3 DEF UploadWasm, TypePublished, TypeBuilt, published, job, counters
<1>4. ASSUME NEW t \in Tag, UploadChecksum(t) PROVE StepsOf(u)'
    <2>1. built[t] # None
        BY <1>0, <1>4 DEF UploadChecksum
    <2> QED
        BY <1>0, <1>b, <1>4, <2>1 DEF UploadChecksum, job
<1>5. ASSUME NEW t \in Tag, Checkout(t) PROVE StepsOf(u)'
    BY <1>0, <1>5 DEF Checkout, TypePublished, TypeBuilt, published, job, counters
<1>6. ASSUME NEW t \in Tag, UpdateEntry(t) PROVE StepsOf(u)'
    <2>1. Checked(Recorded(t))
        BY RecordedSound DEF Sound
    <2>2. AfterUpdate(t) \in {"not listed", "recorded", "pull"}
        BY <1>0, <1>6, <2>1 DEF UpdateEntry, AfterUpdate, ReadBack
    <2> QED
        BY <1>0, <1>6, <2>2 DEF UpdateEntry, published
<1>7. ASSUME NEW t \in Tag, PullStops(t) PROVE StepsOf(u)'
    BY <1>0, <1>7 DEF PullStops, LoseTry, published
<1>8. ASSUME NEW t \in Tag, PullRebases(t) PROVE StepsOf(u)'
    BY <1>0, <1>8 DEF PullRebases, TypePublished, TypeBuilt, published, job, counters
<1>9. ASSUME NEW t \in Tag, PushLands(t) PROVE StepsOf(u)'
    BY <1>0, <1>9 DEF PushLands, TypePublished, TypeBuilt, published, job, counters
<1>10. ASSUME NEW t \in Tag, PushLosesRace(t) PROVE StepsOf(u)'
    BY <1>0, <1>10 DEF PushLosesRace, LoseTry, published
<1>11. ASSUME NEW t \in Tag, Begin(t) PROVE StepsOf(u)'
    BY <1>0, <1>11 DEF Begin, TypePublished, TypeBuilt, published, job, counters
<1>12. ASSUME NEW t \in Tag, Kill(t) PROVE StepsOf(u)'
    BY <1>0, <1>12 DEF Kill, Running, published, job
<1>13. ASSUME NEW t \in Tag, MakeByHand(t) PROVE StepsOf(u)'
    BY <1>0, <1>13 DEF MakeByHand, TypePublished, TypeBuilt, published, job, counters
<1>14. ASSUME NEW t \in Tag, NEW kind \in {"all", "catalog"}, Enqueue(t, kind) PROVE StepsOf(u)'
    BY <1>0, <1>14 DEF Enqueue, TypePublished, TypeBuilt, published, job, counters
<1>15. CASE OtherCommit
    BY <1>0, <1>15 DEF OtherCommit, TypePublished, TypeBuilt, published, job, counters
<1>16. CASE UNCHANGED vars
    BY <1>0, <1>16 DEF vars, TypePublished, TypeBuilt, published, job, counters
<1> QED
    BY <1>1, <1>2, <1>3, <1>4, <1>5, <1>6, <1>7, <1>8, <1>9, <1>10, <1>11, <1>12,
       <1>13, <1>14, <1>15, <1>16 DEF Next, Work

(* What a run has checked out goes stale, never wrong. *)
LEMMA CheckoutsNext == IInv /\ [Next]_vars => Checkouts'
<1> SUFFICES ASSUME IInv, [Next]_vars, NEW u \in Tag
             PROVE  CheckoutOf(u)'
    BY DEF Checkouts
<1>0. /\ TypePublished /\ TypeRuns /\ TypeCheckouts /\ Steps /\ Checkouts
      /\ release[u].sha # None => release'[u].sha = release[u].sha
    BY AssetsKept DEF IInv, TypeOK, TypePublished, TypeRuns, TypeCheckouts
<1>a. at[u] \in CatalogSteps => release'[u].sha = release[u].sha
    BY <1>0 DEF Steps, StepsOf
<1> USE DEF Checkouts, CheckoutOf, TypeRuns, TypeCheckouts, CatalogSteps, PluginSteps, Go
<1>1. ASSUME NEW t \in Tag, Build(t) PROVE CheckoutOf(u)'
    BY <1>0, <1>a, <1>1 DEF Build, TypePublished, published, job, counters
<1>2. ASSUME NEW t \in Tag, CreateRelease(t) PROVE CheckoutOf(u)'
    BY <1>0, <1>a, <1>2 DEF CreateRelease, TypePublished, published, job, counters
<1>3. ASSUME NEW t \in Tag, UploadWasm(t) PROVE CheckoutOf(u)'
    BY <1>0, <1>a, <1>3 DEF UploadWasm, TypePublished, published, job, counters
<1>4. ASSUME NEW t \in Tag, UploadChecksum(t) PROVE CheckoutOf(u)'
    BY <1>0, <1>a, <1>4 DEF UploadChecksum, TypePublished, published, job, counters
<1>5. ASSUME NEW t \in Tag, Checkout(t) PROVE CheckoutOf(u)'
    BY <1>0, <1>a, <1>5 DEF Checkout, TypePublished, published, job, counters
<1>6. ASSUME NEW t \in Tag, UpdateEntry(t) PROVE CheckoutOf(u)'
    <2>1. Recorded(t)[PluginOf[t]] = [tag |-> t, sha |-> release[t].sha]
        BY <1>0, PluginOfAssumption DEF Recorded, ReadBack
    <2>2. AfterUpdate(t) # "push"
        BY DEF AfterUpdate
    <2>3. release' = release /\ at'[t] = AfterUpdate(t)
        BY <1>0, <1>6 DEF UpdateEntry, published
    <2>4. at'[t] = "pull" => edit'[t] = Recorded(t)
        BY <1>0, <2>3, <1>6 DEF UpdateEntry
    <2>5. u # t => at'[u] = at[u] /\ edit'[u] = edit[u]
        BY <1>0, <1>6 DEF UpdateEntry
    <2>6. /\ from' = from /\ head' = head /\ commits' = commits
          /\ base' = base /\ catalog' = catalog
        BY <1>6 DEF UpdateEntry, published
    <2>7. CASE u = t
        BY <1>0, <2>1, <2>2, <2>3, <2>4, <2>6, <2>7
    <2>8. CASE u # t
        BY <1>0, <2>3, <2>5, <2>6, <2>8
    <2> QED
        BY <2>7, <2>8
<1>7. ASSUME NEW t \in Tag, PullStops(t) PROVE CheckoutOf(u)'
    BY <1>0, <1>7 DEF PullStops, LoseTry, published
<1>8. ASSUME NEW t \in Tag, PullRebases(t) PROVE CheckoutOf(u)'
    <2>1. /\ Rebased(t)[PluginOf[t]] = edit[t][PluginOf[t]]
          /\ \A q \in Plugin \ {PluginOf[t]} : Rebased(t)[q] = catalog[q]
        BY <1>0, PluginOfAssumption DEF Rebased, TypePublished
    <2>2. release' = release /\ commits' = commits /\ catalog' = catalog /\ from' = from
        BY <1>8 DEF PullRebases, published
    <2>3. CASE u = t
        <3>1. at[t] = "pull" /\ edit'[t] = Rebased(t) /\ base'[t] = catalog /\ head'[t] = commits
            BY <1>0, <1>8 DEF PullRebases
        <3>2. from[t] <= commits
            <4>1. from[t] \in Nat /\ head[t] \in Nat /\ commits \in Nat
                BY <1>0 DEF TypePublished
            <4>2. from[t] <= head[t] /\ head[t] <= commits
                BY <1>0
            <4> QED
                BY <4>1, <4>2
        <3>3. commits <= commits
            BY <1>0 DEF TypePublished
        <3> QED
            BY <1>0, <2>1, <2>2, <2>3, <3>1, <3>2, <3>3
    <2>4. CASE u # t
        <3>1. at'[u] = at[u] /\ edit'[u] = edit[u] /\ base'[u] = base[u] /\ head'[u] = head[u]
            BY <1>0, <2>4, <1>8 DEF PullRebases
        <3> QED
            BY <1>0, <2>2, <3>1
    <2> QED
        BY <2>3, <2>4
<1>9. ASSUME NEW t \in Tag, PushLands(t) PROVE CheckoutOf(u)'
    BY <1>0, <1>a, <1>9 DEF PushLands, TypePublished, published, job, counters
<1>10. ASSUME NEW t \in Tag, PushLosesRace(t) PROVE CheckoutOf(u)'
    BY <1>0, <1>10 DEF PushLosesRace, LoseTry, published
<1>11. ASSUME NEW t \in Tag, Begin(t) PROVE CheckoutOf(u)'
    BY <1>0, <1>a, <1>11 DEF Begin, TypePublished, published, job, counters
<1>12. ASSUME NEW t \in Tag, Kill(t) PROVE CheckoutOf(u)'
    BY <1>0, <1>a, <1>12 DEF Kill, TypePublished, published, job, counters
<1>13. ASSUME NEW t \in Tag, MakeByHand(t) PROVE CheckoutOf(u)'
    BY <1>0, <1>a, <1>13 DEF MakeByHand, TypePublished, published, job, counters
<1>14. ASSUME NEW t \in Tag, NEW kind \in {"all", "catalog"}, Enqueue(t, kind) PROVE CheckoutOf(u)'
    BY <1>0, <1>a, <1>14 DEF Enqueue, TypePublished, published, job, counters
<1>15. CASE OtherCommit
    BY <1>0, <1>a, <1>15 DEF OtherCommit, TypePublished, published, job, counters
<1>16. CASE UNCHANGED vars
    BY <1>0, <1>a, <1>16 DEF vars, TypePublished, published, job, counters
<1> QED
    BY <1>1, <1>2, <1>3, <1>4, <1>5, <1>6, <1>7, <1>8, <1>9, <1>10, <1>11, <1>12,
       <1>13, <1>14, <1>15, <1>16 DEF Next, Work

(* A rebase stops on a commit that a second tag of the plugin landed. *)
LEMMA StoppedIsOutraced ==
    ASSUME IInv, NEW t \in Tag, at[t] = "pull", stuck[t] \/ Conflict(t)
    PROVE  Outraced(t)
<1>0. TypePublished /\ TypeCheckouts /\ AttemptsOf(t) /\ CheckoutOf(t) /\ Sound(catalog)
    BY DEF IInv, TypeOK, TypePublished, TypeCheckouts, Attempts, Checkouts, Catalogs
<1>1. CASE stuck[t]
    BY <1>0, <1>1 DEF AttemptsOf
<1>2. CASE Conflict(t)
    <2> DEFINE p == PluginOf[t]
               row == catalog[p]
    <2>1. p \in Plugin
        BY PluginOfAssumption
    <2>2. row.tag \in Tag /\ row = [tag |-> row.tag, sha |-> row.sha]
        BY <1>0, <2>1 DEF TypePublished, Row
    <2>3. PluginOf[row.tag] = p /\ release[row.tag].sha = row.sha
        BY <1>0, <2>1 DEF Sound, Checked
    <2>4. row # base[t][p] /\ row # edit[t][p]
        BY <1>2 DEF Conflict
    <2>5. edit[t][p] = [tag |-> t, sha |-> release[t].sha]
        BY <1>0 DEF CheckoutOf
    <2>6. row.tag # t
        BY <2>2, <2>3, <2>4, <2>5
    <2>7. commits > from[t]
        <3>1. from[t] <= head[t] /\ head[t] <= commits /\ head[t] # commits
            BY <1>0, <2>4 DEF CheckoutOf
        <3>2. from[t] \in Nat /\ head[t] \in Nat /\ commits \in Nat
            BY <1>0 DEF TypeCheckouts, TypePublished
        <3> QED
            BY <3>1, <3>2
    <2> QED
        BY <2>2, <2>3, <2>6, <2>7 DEF Outraced
<1> QED
    BY <1>1, <1>2

(* Attempts are accounted for whoever is stepping. *)
LEMMA AttemptsNext == IInv /\ [Next]_vars => Attempts'
<1> SUFFICES ASSUME IInv, [Next]_vars, NEW u \in Tag
             PROVE  AttemptsOf(u)'
    BY DEF Attempts
<1>0. /\ TypePublished /\ TypeRuns /\ TypeCheckouts /\ TypeAttempts /\ Attempts /\ Checkouts
    BY DEF IInv, TypeOK, TypePublished, TypeRuns, TypeCheckouts, TypeAttempts
<1>a. commits \in Nat /\ from[u] \in Nat /\ head[u] \in Nat /\ tries[u] \in 0..3
    BY <1>0 DEF TypePublished, TypeCheckouts, TypeAttempts
<1> USE DEF Attempts, AttemptsOf, TypeRuns, Go
<1>1. ASSUME NEW t \in Tag, Build(t) PROVE AttemptsOf(u)'
    BY <1>0, <1>a, <1>1 DEF Build, Outraced, TypeAttempts, TypeCheckouts, PluginSteps,
       CatalogSteps, published, job, counters
<1>2. ASSUME NEW t \in Tag, CreateRelease(t) PROVE AttemptsOf(u)'
    BY <1>0, <1>a, <1>2 DEF CreateRelease, Outraced, TypeAttempts, TypeCheckouts,
       PluginSteps, CatalogSteps, published, job, counters
<1>3. ASSUME NEW t \in Tag, UploadWasm(t) PROVE AttemptsOf(u)'
    BY <1>0, <1>a, <1>3 DEF UploadWasm, Outraced, TypeAttempts, TypeCheckouts,
       PluginSteps, CatalogSteps, published, job, counters
<1>4. ASSUME NEW t \in Tag, UploadChecksum(t) PROVE AttemptsOf(u)'
    BY <1>0, <1>a, <1>4 DEF UploadChecksum, Outraced, TypeAttempts, TypeCheckouts,
       PluginSteps, CatalogSteps, published, job, counters
<1>5. ASSUME NEW t \in Tag, Checkout(t) PROVE AttemptsOf(u)'
    BY <1>0, <1>a, <1>5 DEF Checkout, Outraced, TypeAttempts, TypeCheckouts,
       PluginSteps, CatalogSteps, published, job, counters
<1>6. ASSUME NEW t \in Tag, UpdateEntry(t) PROVE AttemptsOf(u)'
    <2>1. AfterUpdate(t) \notin {"update", "push", "lost"}
        BY DEF AfterUpdate
    <2>2. at'[t] = AfterUpdate(t) /\ (u # t => at'[u] = at[u])
        BY <1>0, <1>6 DEF UpdateEntry
    <2>3. tries' = tries /\ stuck' = stuck /\ from' = from /\ commits' = commits /\ head' = head
        BY <1>6 DEF UpdateEntry, published
    <2>4. tries[t] = 0 /\ ~stuck[t]
        BY <1>0, <1>6 DEF UpdateEntry
    <2>5. commits >= from[t]
        <3>1. from[t] \in Nat /\ head[t] \in Nat /\ from[t] <= head[t] /\ head[t] <= commits
            BY <1>0 DEF TypeCheckouts, Checkouts, CheckoutOf
        <3> QED
            BY <1>a, <3>1
    <2>6. CASE u = t
        BY <1>a, <2>1, <2>2, <2>3, <2>4, <2>5, <2>6
    <2>7. CASE u # t
        BY <1>0, <2>2, <2>3, <2>7 DEF Outraced
    <2> QED
        BY <2>6, <2>7
<1>7. ASSUME NEW t \in Tag, PullStops(t) PROVE AttemptsOf(u)'
    <2>1. from' = from /\ commits' = commits /\ head' = head
        BY <1>7 DEF PullStops, published
    <2>2. CASE u = t
        <3>1. stuck'[t] /\ at'[t] \in {"pull", "lost"} /\ (at'[t] = "pull" => tries[t] # 2)
            BY <1>0, <1>7 DEF PullStops, LoseTry, TypeAttempts
        <3>2. Outraced(t)
            BY <1>7, StoppedIsOutraced DEF PullStops
        <3>3. tries'[t] = tries[t] + 1 /\ tries[t] <= 2
            BY <1>0, <1>7 DEF PullStops, LoseTry, TypeAttempts
        <3> QED
            BY <1>a, <2>1, <2>2, <3>1, <3>2, <3>3 DEF Outraced
    <2>3. CASE u # t
        <3>1. at'[u] = at[u] /\ tries'[u] = tries[u] /\ stuck'[u] = stuck[u]
            BY <1>0, <2>3, <1>7 DEF PullStops, LoseTry, TypeAttempts
        <3> QED
            BY <1>0, <2>1, <3>1 DEF Outraced
    <2> QED
        BY <2>2, <2>3
<1>8. ASSUME NEW t \in Tag, PullRebases(t) PROVE AttemptsOf(u)'
    BY <1>0, <1>a, <1>8 DEF PullRebases, Outraced, TypeAttempts, TypeCheckouts,
       PluginSteps, CatalogSteps, published, job, counters
<1>9. ASSUME NEW t \in Tag, PushLands(t) PROVE AttemptsOf(u)'
    <2>1. from' = from /\ head' = head /\ stuck' = stuck /\ tries' = tries /\ commits' = commits + 1
        BY <1>9 DEF PushLands, job
    <2>2. at'[u] = "recorded" \/ at'[u] = at[u]
        BY <1>0, <1>9 DEF PushLands
    <2> QED
        BY <1>0, <1>a, <2>1, <2>2 DEF Outraced
<1>10. ASSUME NEW t \in Tag, PushLosesRace(t) PROVE AttemptsOf(u)'
    <2>1. from' = from /\ commits' = commits /\ head' = head /\ stuck' = stuck
        BY <1>10 DEF PushLosesRace, published
    <2>2. CASE u = t
        <3>1. at[t] = "push" /\ at'[t] = IF tries[t] = 2 THEN "lost" ELSE "pull"
            BY <1>0, <1>10 DEF PushLosesRace, LoseTry, TypeAttempts
        <3>2. ~stuck[t] /\ tries[t] <= 2 /\ head[t] >= from[t] + tries[t]
            BY <1>0, <3>1
        <3>3. head[t] <= commits /\ head[t] # commits
            BY <1>0, <1>10 DEF PushLosesRace, Checkouts, CheckoutOf
        <3>4. commits >= from[t] + (tries[t] + 1)
            BY <1>a, <2>2, <3>2, <3>3
        <3>5. tries'[t] = tries[t] + 1
            BY <1>0, <1>10 DEF PushLosesRace, LoseTry, TypeAttempts
        <3> QED
            BY <1>a, <2>1, <2>2, <3>1, <3>2, <3>4, <3>5
    <2>3. CASE u # t
        <3>1. at'[u] = at[u] /\ tries'[u] = tries[u] /\ stuck'[u] = stuck[u]
            BY <1>0, <2>3, <1>10 DEF PushLosesRace, LoseTry, TypeAttempts
        <3> QED
            BY <1>0, <2>1, <3>1 DEF Outraced
    <2> QED
        BY <2>2, <2>3
<1>11. ASSUME NEW t \in Tag, Begin(t) PROVE AttemptsOf(u)'
    BY <1>0, <1>a, <1>11 DEF Begin, Outraced, TypeAttempts, TypeCheckouts,
       PluginSteps, CatalogSteps, published, job, counters
<1>12. ASSUME NEW t \in Tag, Kill(t) PROVE AttemptsOf(u)'
    BY <1>0, <1>a, <1>12 DEF Kill, Outraced, TypeAttempts, TypeCheckouts, PluginSteps,
       CatalogSteps, published, job, counters
<1>13. ASSUME NEW t \in Tag, MakeByHand(t) PROVE AttemptsOf(u)'
    BY <1>0, <1>a, <1>13 DEF MakeByHand, Outraced, TypeAttempts, TypeCheckouts,
       PluginSteps, CatalogSteps, published, job, counters
<1>14. ASSUME NEW t \in Tag, NEW kind \in {"all", "catalog"}, Enqueue(t, kind) PROVE AttemptsOf(u)'
    BY <1>0, <1>a, <1>14 DEF Enqueue, Outraced, TypeAttempts, TypeCheckouts,
       PluginSteps, CatalogSteps, published, job, counters
<1>15. CASE OtherCommit
    BY <1>0, <1>a, <1>15 DEF OtherCommit, Outraced, TypeAttempts, TypeCheckouts,
       PluginSteps, CatalogSteps, published, job, counters
<1>16. CASE UNCHANGED vars
    BY <1>0, <1>a, <1>16 DEF vars, Outraced, TypeAttempts, TypeCheckouts, PluginSteps,
       CatalogSteps, published, job, counters
<1> QED
    BY <1>1, <1>2, <1>3, <1>4, <1>5, <1>6, <1>7, <1>8, <1>9, <1>10, <1>11, <1>12,
       <1>13, <1>14, <1>15, <1>16 DEF Next, Work

----------------------------------------------------------------------------
(* The invariant holds of every state of every behaviour. *)
THEOREM Invariance == Spec => []IInv
<1>1. IInv /\ [Next]_vars => IInv'
    BY TypeNext, ReleasesNext, CatalogsNext, StepsNext, CheckoutsNext, AttemptsNext DEF IInv
<1> QED
    BY InitIInv, <1>1, PTL DEF Spec

(***************************************************************************)
(* Every variable of the workflow keeps its type; no run loses more than   *)
(* three attempts (`for attempt in 1 2 3`).                                *)
(***************************************************************************)
THEOREM TypeCorrect == Spec => []TypeOK
<1>1. IInv => TypeOK
    BY DEF IInv
<1> QED
    BY <1>1, Invariance, PTL

(***************************************************************************)
(* Whatever is killed, run again or raced, every row of the catalog pins   *)
(* the checksum its release publishes, and `check-catalog.sh --online`     *)
(* fails no release.                                                       *)
(***************************************************************************)
THEOREM PinsArePublished == Spec => []PinsPublished
<1>1. IInv => PinsPublished
    BY DEF IInv, Catalogs, Sound, Steps, StepsOf, PinsPublished
<1> QED
    BY <1>1, Invariance, PTL

(***************************************************************************)
(* A run gives up on master only when three commits at least beat it, or a *)
(* second tag of its own plugin did: no number of releases of other        *)
(* plugins, one commit each, can make it fail with fewer.                  *)
(***************************************************************************)
THEOREM GivingUpIsOutraced == Spec => []GivesUpOnlyOutraced
<1>1. IInv => GivesUpOnlyOutraced
    BY DEF IInv, Attempts, AttemptsOf, Outraced, GivesUpOnlyOutraced
<1> QED
    BY <1>1, Invariance, PTL

(***************************************************************************)
(* However many releases race, a push changes the row of its own plugin    *)
(* alone, although it writes a whole file it checked out earlier, and an   *)
(* asset that is up is never replaced.                                     *)
(***************************************************************************)
THEOREM RacesKeepOthers == Spec => OthersKept
<1> DEFINE Kept == /\ \A p \in Plugin : catalog'[p] # catalog[p] =>
                        \E t \in Tag : PluginOf[t] = p /\ at[t] = "push" /\ catalog'[p].tag = t
                   /\ \A t \in Tag : /\ release[t].wasm # None => release'[t].wasm = release[t].wasm
                                     /\ release[t].sha # None => release'[t].sha = release[t].sha
<1>1. ASSUME IInv, [Next]_vars PROVE Kept
    <2>1. ASSUME NEW p \in Plugin, catalog'[p] # catalog[p]
          PROVE  \E t \in Tag : PluginOf[t] = p /\ at[t] = "push" /\ catalog'[p].tag = t
        <3>1. PICK t \in Tag : PushLands(t)
            BY <1>1, <2>1, ChangePublished DEF CreateRelease, UploadWasm,
               UploadChecksum, MakeByHand, OtherCommit
        <3>2. at[t] = "push" /\ head[t] = commits /\ catalog' = edit[t]
            BY <3>1 DEF PushLands, Go
        <3>3. CheckoutOf(t)
            BY <1>1 DEF IInv, Checkouts
        <3>4. p = PluginOf[t]
            BY <2>1, <3>2, <3>3 DEF CheckoutOf
        <3> QED
            BY <3>2, <3>3, <3>4 DEF CheckoutOf
    <2> QED
        BY <1>1, <2>1, AssetsKept
<1>2. IInv /\ [Next]_vars => [Kept]_vars
    BY <1>1
<1> QED
    BY <1>2, Invariance, PTL DEF Spec, OthersKept
=============================================================================
