# Formal models of the drsg preprocessor plugins

This directory holds TLA+ models of the preprocessor plugins of this repository and of the workflow that
releases them, the TLC configurations that check the models on small instances, and TLAPS proofs of the
properties that matter most. Every definition is translated from the source; `PROJECT.json` gives, for each
one, the lines it stands for, and lists the runs, the mutations that show a property has teeth, the theorems,
and the places in the code that are hard to test.

    tlc -workers 2 -config MCGitWalk.cfg MCGitWalk      # one run
    tlapm GitRefsProofs.tla                             # one module of proofs

Contents: [1 the system](#1-the-system) · [2 the modules](#2-the-modules) · [3 the runs](#3-what-the-runs-show) ·
[4 fairness](#4-fairness) · [5 the proofs](#5-what-is-proved) · [6 what the models found](#6-what-the-models-found) ·
[7 what is not modelled](#7-what-is-not-modelled) · [8 plan](#8-plan)

## 1. The system

A *preprocessor* is a sandboxed WASM component that turns files into facts: nodes with keys, edges between
keys, notes on what could not be done. The contract (`wit/preprocess.wit`) has two phases. The host lists the
files a plugin claims, cuts the list into chunks, and calls `parse` on every chunk, in parallel, each in an
instance of its own; then it calls `assemble` once, in a fresh instance, with the partial results *in chunk
order*. Inside a call a plugin is sequential. While it reads, the tree is live: an editor, or git itself, may
change what the next `host.read` returns.

Sixteen plugins share two SDKs (`sdk/rust`, `sdk/go`). Some are *simple*: what a file says does not
depend on another file, and the SDK merges (toml, xml, compose, deps). The rest keep facts per file and resolve
them against each other in `assemble`. One, git, is handed a whole repository as a single chunk. A plugin is
published by `release.yml`, which builds it, makes a GitHub release and pins its checksum in `catalog.json`; the
host installs what the catalog pins.

| Component | State | Operations | Interacts with | What makes it correct |
|---|---|---|---|---|
| Contract, `wit/preprocess.wit` | partials in chunk order | `describe`, `parse`, `assemble` | host, every plugin | the answer does not depend on chunk boundaries or on the order in which chunks finish |
| SDKs, `sdk/rust/src`, `sdk/go` | the merged output, route table | `partial::{encode,decode,merge}`, `Routes` | all plugins | concatenation in order; one half of a route is matched by the other |
| Git walk, `plugins/git/parser/src/lib.rs` | frontier, seen, kept, missing | `offer`, `walk_commits`, `reachable_from` | object store, refs, reflog | complete unless it says it is not; honest about the ceiling; no commit twice |
| Git graph, same file | nodes, edges, `dropped`, notes | `collect_refs`, `emit_*`, report | walk | no edge without its ends; nothing left out in silence |
| Git refs, `refs.rs` | ref map, HEAD | `read_refs`, `read_head` | git at work in the same directory | a value reported is one the ref had while it was read |
| Git reflog, `reflog.rs` | the run in progress, the runs closed | `classify`, `find_rebases` | whatever git and its user wrote | a rebase found is one that happened, with its own steps |
| Git objects, `odb.rs`, `object.rs` | pack indexes, cached packs | `read`, delta chains | walk | an object held anywhere is found; no recursion without a bound |
| Kubernetes, `plugins/k8s/src/lib.rs` | nodes, edges, workloads and services waiting for each other | `parse`, `assemble`, `resolve` | SDK | selection across files and chunks; one node per namespace |
| Compose, TOML, deps, XML | nodes and edges of one file | one reader per format | SDK merge | keys agree across files; an edge has its ends; a coordinate, a column, an image is read as written |
| Terraform, `plugins/terraform/src/lib.rs` | nodes, references waiting for what they name | `parse`, `assemble` | SDK | a reference is an edge or is counted, in whatever file and chunk its target is |
| Python, `plugins/py/parser/src` | facts per file; index, externals, ledger, edges | `parse_chunk`, `assemble` | SDK routes | no call dropped in silence; one node per key; inheritance as the language has it |
| Java, Kotlin, C#, `plugins/{java,kotlin,csharp}/parser/src` | facts per file; type index, beans or registrations, route table | the walk over a syntax tree, `assemble` | SDK routes | as Python; a call a container would wire stands beside the call as written, and is never a guess |
| TypeScript, Go, Rust, C, Web | as Python | as Python | SDK routes | as Python, by each language's own rules |
| Release, `.github/workflows/release.yml` | releases, assets, checkouts, master, the catalog | two jobs per run, push and retry | other releases, people pushing, GitHub | a row pins the checksum that was published; a push never loses somebody else's row |
| Catalog check, `scripts/check-catalog.sh` | none | offline and online checks | release, CI | every row's checksum is the published one |
| CI, `ci.yml`, `justfile` | none between runs | build, test | | |

What is hard here is not concurrency inside a plugin, of which there is none, but: what is read
while someone else writes it (refs, objects); answers that must not depend on order (chunks, sites, files);
edges between things one of which may be missing; the partial failure of a multi-step publication; and long
sequences of legal git commands that nobody wrote a test for.

## 2. The modules

    GitRefs   GitReflog      what a repository says its tips are        (each on its own)
    GitWalk                  commits from tips, newest first, to a ceiling
      └─ GitHistory          EXTENDS GitWalk: where tips come from, and the graph written

    OneShot                  the contract: one answer, a function of the tree
    Chunks                   implements it, for any plugin: chunks, partials, a merge
      └─ Manifests           EXTENDS Chunks: Kubernetes, Compose and Terraform files; what is asked of K8s
           └─ Declarations   EXTENDS Manifests, with the reading and resolving of six plugins:
           ├─ K8s  Terraform      the two that resolve across files in `assemble`
           └─ Compose  Deps  TomlTables  Mybatis (a mapper and the SQL in it)
                ├─ SimpleOutput   the SDK's output
                └─ ImageRef       the SDK's image references   (K8s and Terraform too)

    FactGraph                partials and how they are joined; maps, edges and nodes of a graph
      ← TypedFacts ← TypedResolve ← Jvm     what the typed languages share
    JavaPlugin  KotlinPlugin  CSharpPlugin           the walk of a file, and assemble
    Languages                INSTANCEs the three: parse per chunk in any order, assemble once

    PyFacts                  what one Python file says
      └─ PyResolve           EXTENDS PyFacts: `assemble`, site by site
    Release                  runs of the release workflow, GitHub, master

    *Proofs                  theorems about GitWalk and GitHistory (GitHistoryProofs), GitRefs,
                             GitReflog, Release, PyResolve; of Chunks, Kubernetes, Compose and blocks of
                             Terraform (ManifestsProofs), which DeclarationsProofs EXTENDS with the rest
    FoldLemmas               what the last three need to know of folds, sets, image references
    MC*, *Trees              the instances TLC checks

**GitWalk** models `walk_commits` with its closure `offer`, and `reachable_from`. `OfferTip`, `HitCeiling`,
`Keep`, `Exhaust` are the turns of the loop, `Mark` a turn of the marking pass. The heap of (date, oid)
is a set whose maximum by date is popped; ties are broken either way, since the code breaks them by the oid's
spelling. `Prune` is external: `git gc` may delete any object between two reads, so a read may fail that would
have succeeded a moment ago.

**GitHistory** models `read_history` around the walk: `RefTips`, `LogTips` and `Peel` (a packed tag's peeled oid
wins, else at most three tag objects are followed), then one action for each turn of `emit_commits`,
`emit_refs` and `emit_rebases`, then `Report`. Properties of nodes are left out.

**GitRefs** interleaves the plugin's host calls — list, packed-refs, each loose file, HEAD — with git's own
steps: moving and creating a ref, `pack-refs` (which renames the new file into place and only then removes loose
ones), deletion (packed line first, loose file second), switching HEAD. HEAD may name a branch, one that is not among the
refs read (`unborn`), a commit (`detached`) or be unreadable (`none`). `held`, `settled` and `disturbed` are
history variables: what each ref has been since the listing.

**GitReflog** puts the parser's loop beside the git that writes the log. Git commits, starts, picks,
is stopped, finishes, aborts or quits a rebase; every move appends an entry, and the loop consumes it by `ScanEntry`,
so the state after any prefix is what a read at that moment returns.

**OneShot** says only this: at some time the answer appears, and it is `AnswerTo(input)`. **Chunks** models the SDK's
and the two resolving plugins' `parse` and `assemble`: `ParseFile` reads one file of one chunk into the partial of that
chunk, `MergePartial` takes the partials in chunk order, `Assembled` resolves and answers. The host's part is external:
`Cuts`, over every way of cutting, and the interleaving of the chunks. A partial is a record of lists and one count, as
the structs of the plugins are, and two are put together field by field (`JoinPartials` of FactGraph). What a partial is
made of, what a file contributes and what is resolved are constants of Chunks, and **Declarations** gives them their
values for six plugins; **Manifests**, between the two, states what an answer must say of a tree of Kubernetes
manifests, whatever the other plugins are, and what the files of Kubernetes, Compose and Terraform are. What a file
contributes is an operator of the plugin's module: `Object` for every kind of a Kubernetes document; every kind of block
with the references in its expressions, at every depth the code walks, for Terraform; services with what they are wired
to for Compose; six manifest readers for deps; tables, arrays and their nesting for TOML; for XML the event loop over a
mapper with its open statement, fragments and result maps, and the scan of a statement's tokens for tables, aliases and
columns. Files come parsed (YAML, HCL, TOML, XML and SQL tokens are data): `IsDocument`, `IsProject`, `IsConfiguration`,
`IsTables`, `IsBuildFile` and `IsXml` say what of, and `Nesting` how deeply expressions, blocks and tables are nested at
most, so that what the code does by recursion is a recursive function of the depth. An image reference alone is taken
apart character by character, since its grammar is what can go wrong.

**Languages** models the components of Java, Kotlin and C#: a chunk is a file, `ParseChunk` may happen in any order,
`AssembleAll` once, over the partials in chunk order. The first part of each plugin's module is the walk over a syntax tree: types,
members, hints, what is returned and injected, registrations, imports, extension methods, the forms of a
call's receiver, routes served and asked for. The second is its `assemble`: `FindMethod` along declared
bases to `Depth`, `ReceiverCall` and its siblings, what a name means in a file (`SimpleRef`, `QualifiedRef` in
`Jvm`; usings, enclosing namespaces and aliases in C#), then what a container would wire — Spring's stereotypes,
`@Bean`, qualifiers and primaries in `Jvm`, `AddScoped` and keyed services in C# — and at the end the nodes
for ends nobody declared. `TypedFacts` also joins, normalises and matches route templates for all three. Routes are there
because the walks and `assemble` are modelled whole: of their detail the properties see that a route's nodes and edges
are whole and do not depend on the order of the files, and not how each annotation or client call spells its path. In C# a member
without a name the walk asks for — an indexer, a destructor, the accessors of an event — is walked past, with the
calls in its body, as the code does.

**PyFacts** is a function of a file, as the parser is: package discovery by `__init__.py`, imports (relative ones,
stars, aliases), functions, classes with attributes, overloads, decorators, and the five kinds
of call the collector tells apart (`KindOf`). **PyResolve** runs `assemble` as steps: `Gather` (nodes, containment,
imports), `ResolveCall` and `ResolveBase` per site in the code's order, `Refer` (strings and functions handed as
values), `Finish` (ledger, types used, implied and external nodes). The lookups — `DeclOf`, `Plain`, `Chain`,
`Receiver`, `MethodWalk`, `ExternalType` — are operators with the code's names.

**Release** models a run as two jobs of steps: build, create the release, or complete an existing one asset by
asset; check out master, read the published checksum back, edit the row, check the catalog online, push, and on a
lost race pull with rebase and try again, three times. Runs of one tag are serialised by the concurrency group,
runs of different tags are not. External: GitHub starting, queueing and killing runs, people pushing to master, a
release made by hand.

Each of the modules says in its header what it abstracts. Common to all: names are model values or small
sequences, never text; of a node or an edge only what the properties tell apart is kept; what a WASM trap,
an out-of-memory or a malicious host could do is out of scope.

## 3. What the runs show

| Run | Instance | What it shows |
|---|---|---|
| `git_walk` | every acyclic history of 3 commits with ≤ 2 parents, every date assignment over 2 dates, store missing any one commit, gc at any time, ceilings 0, 1, 2 | `CompleteUnlessTruncated`, `CeilingHonest`, `KeptOnce`, `NewestKept`, `MissingIsNamed`, `ReachableExact`, and `TypeOK` |
| `git_history` | line, merge, fork; normal and reversed dates; tags of tags with the inner object gone; detached HEAD; rebases sharing a second; all settings; ceilings 0, 2 | `NoDanglingEdge`, `EdgesAccounted`, `SilenceMeansComplete`, `RebasesApart` |
| `git_refs` | 2 refs, 2 oids, every way of keeping them loose, packed, both, symbolic or not at all; up to 4 steps of git anywhere | `Regular`, `SettledReported`, `UnbornIsHonest`, and `TypeOK` |
| `git_refs_pack` | same, git only packs | violated: `EveryStableRef` (section 6) |
| `git_reflog` | 2 branches, every log of up to 6 entries | `FoundIsWhatHappened`, `FinishedReported`, `StepsApart` |
| `declarations` | trees for six plugins, every way of cutting them, every interleaving of the chunks | `SelectsAsDeclared` (Kubernetes), `ReferencesAsDeclared` (Terraform), `ColumnsUnderTheirTable` (XML), `OnlyReferencesDangle`, `ImagesRejoin`, and that all six implement `OneShot` (`Answers`) |
| `deps_pom` | same | violated: `DependsAsWritten` |
| `languages` | 162 trees of up to four Java, Kotlin or C# files, every order of parsing the chunks | `Whole`, `MissesCounted`, `CallsLand`, `PortKept`, `NeverGuessed`, `OrderFree` |
| `py` | 64 trees of up to 4 files | `GraphIsWhole`, `NoCallDropped`, `ShapesSurvive`, `BasesAreClasses`, `OverridesWin` |
| `py_own_methods` | same | violated: `OwnMethods` |
| `release` | 2 plugins, 5 tags, 2 runs in all, 2 commits of other people | `PinsPublished`, `GivesUpOnlyOutraced`, action property `OthersKept`, liveness `RunsEnd`, and `TypeOK` |
| `release_pin` | same, nobody else pushes | violated: `PinIsWhatIsDownloaded` |

Deadlock is not checked anywhere: a plugin's call ends, and so does a release.

Why the bounds are enough to be worth something:

* *Three commits* are the least with a merge, a fork and a chain with a middle that can be missing or
  beyond the ceiling; *two dates* give ties, order and reversal; ceilings of one and two stop the walk with
  the frontier empty, with one and with several commits waiting. For every number of commits there are the proofs.
* *Two refs*: the reads of two refs have no common effect, so what can go wrong goes wrong with one; the second one
  is for HEAD to be switched to. *Four steps of git* are enough for a pack (two steps) with an update before and after.
* *Six reflog entries* hold two rebases with a step each, or one with an interruption and a successor; again
  the proofs cover every number.
* *Declarations*: three files for Kubernetes and Terraform (a service, a workload it selects and one it does not, an
  overlay that declares a workload again; a reference, what it names, and a root that has neither), two for the plugins
  whose files do not refer to each other, with the unreadable, the unparsed and the empty file among them. Image
  references are enumerated: every registry form, every path of up to two segments of which one may echo the registry,
  tag and digest or not. The mappers join, include a fragment that includes itself, extend result maps, interpolate a
  table and nest a subquery.
* *Languages*: per language, a port with no, one or two implementations in every state of ambiguity (stereotype, `@Bean`,
  qualifier, primary, collection; unkeyed, keyed, factory and duplicate registrations) times the ways of injecting it;
  a base two steps up in another package or namespace, with a namesake near the caller; static imports, extensions,
  companions, partial types; a file that does not parse; a controller under a prefix and callers of its routes. The trees
  are chosen and not enumerated, since what is rare in enumerated ones is what can go wrong. Their unusual shape is
  that every name binds somewhere else than the nearest candidate.
* The Python trees are chosen likewise: overrides along a line, in a diamond, in a cycle; a
  factory with a declared return; a value that yields to an import; stars and `__all__`; a stub beside
  its module; a package whose `__init__.py` does not parse; a coroutine awaited, dropped and scheduled by one
  caller; receivers and bases inside the tree and outside. `Depth` is 3 where the code has 5, so that hierarchies
  as deep as the bound are among the trees.
* *Two runs in all* are a release and its repetition after whatever happened to the first, or two tags that race, of one
  plugin or of two; *five tags* are what they are chosen from. `MaxOthers` pushes plus the other run's are as many as
  the three attempts a run makes. The proofs cover every number of runs, tags and pushes.

What the properties except, and why:

* `Regular` leaves out a ref that is a symbolic ref throughout the read, and `UnbornIsHonest` a branch that is one: the
  code passes over such refs. Without the exceptions TLC finds both violated in the run's own instance, with git at rest
  (section 6). `SettledReported` speaks of refs that held one oid throughout.
* `NeverGuessed` counts the types of the tree a container could hand out for a port. Two kinds of candidates no
  rule of the code counts, so they are excepted: a registration of a type the tree does not declare, and a factory method
  whose declared type is the port itself. The trees have both, and without the exceptions TLC finds the property violated
  in the C# trees by the first and in the Java trees by the second (section 6).
* `OrderFree` compares the answer with that of every order of the files, halves of partial types included, unless files
  contest what the code lets the first of them settle (`Contested`): a key declared twice, extensions of one name for one type,
  registrations under one key, the name of a bean; or, for C#, a member that two bases named by different halves of a type
  offer, a partial type whose key is a namespace, and two global usings with a type of one name.
* `NoCallDropped` and `ShapesSurvive` speak of each call (`Calls`): the edge asked for is the one from the call's own caller to
  the key its own lookup gives (`ResolveSite`), with the shape of the site.
* `ColumnsUnderTheirTable` asks, in a statement of several tables, that the text qualifies the column by a name that stands for
  the very table it is put under; a column a result map gives to the only table named needs no qualifier.

Every property of a passing run is paired with a mutation of a modelled definition — a dropped guard, a swapped
order, a weaker test — under which TLC finds it violated (`mutants` in `PROJECT.json`). The mutated operators stand
beside the ones they replace: `FreshOffersAgain`, `MergePartialBefore`, `ReceiverCallRewired`, `RulesAny`,
`LoseTryEarly`, …

## 4. Fairness

Only `Release` assumes any: weak fairness of the work of each running job and of the start of queued runs. GitHub
runs a job's steps one after another until one fails, and takes the next run out of a concurrency group's queue. It
does not assume that a run is never killed, that nobody pushes, or that a push succeeds; `RunsEnd` says every
run ends, not that it succeeds.

The plugin models have safety properties alone. Their loops end because what they consume is finite (tips and
commits, loose files of a listing, entries, sites, files), which is visible in the model (each action consumes one) and
bounded by TLC's finite search; no scheduling is involved that fairness would describe. That Declarations implements
OneShot is shown for safety; that the host does call `assemble` is not the plugin's to promise.

## 5. What is proved

TLC checks three commits; the theorems hold for every value of the constants. All assumptions about constants are
named in the modules that declare them (`OidAssumption`, `HistoriesAssumption`, `WorldsAssumption`, …) and are
evaluated by TLC for the instances.

**GitHistoryProofs: the walk.** None of the properties is inductive by itself: that nothing is lost depends on what the
frontier still holds, and exact reachability depends on what the order of the walk was. `IInv` is the conjunction of

* `Accounts` — `seen` is exactly the commits read and the oids found missing; what is missing was never held or read;
  the tips no longer in `todo` and the parents of every kept commit have been offered; every missing oid is
  a tip or a parent of a kept commit;
* `Split` — while the walk runs, the commits read are the kept ones and those waiting in the frontier, and these are
  disjoint; afterwards the walk is truncated exactly when something read was not kept;
* `Grounded` — what is read lies in every set that holds the tips and is closed under the parents that can be read;
* `Ordered` — if no commit is older than its parents, nothing read and not kept is newer than anything kept;
* `Listed` — `order` lists exactly what is kept, once, within the ceiling and (under the same condition) by date; a
  truncated walk lists as many commits as the ceiling allows;
* `Marks` — the marking pass has the kept ref tips, and the parents of what it marked, in its stack or its marks, and
  both lie in every set that is closed that way.

Theorems: `TypeCorrect`, `Invariance`, `Completeness` (`CompleteUnlessTruncated`: for every history, every set of
tips and whatever gc deletes), `CeilingIsHonest`, `NoCommitTwice`, `MissingIsHonest`, `CeilingKeepsNewest`,
`ReachableIsExact`. Transitive reachability (`Leads`) is the least set closed under parents, so the proofs argue with
closed sets instead of inducting over paths.

**GitHistoryProofs: the graph** builds on that invariant: `GraphInvariance` shows `IInv /\ GraphInv` of the composition, where
`GraphInv` says that nothing is written before the walk ends, that the nodes are exactly those of the turns taken
(`Written`; a rebase finds a free key because there are more candidates than rebases before it), that an edge's ends
are written or among what is still ahead (`Pointed`), and that edges and `dropped` together number what the turns
taken called for (`Counted`, an argument about cardinalities). From it: `NoEdgeDangles`, `NoEdgeUncounted`,
`SilenceIsCompleteness` and `RebasesStayApart`, for every repository, every setting, any ceiling and whatever gc does.

**GitRefsProofs.** `TypeCorrect`, `ReadIsRegular` (as long as git only moves and creates refs, any number of refs and
steps), `UnbornWasUnborn` (with the exception of `UnbornIsHonest`: a branch that is a symbolic ref throughout) and
`SettledRefsAreReported`. The invariant of the first three ties each phase to the
history variables: an undisturbed packed line or loose file read is a value in `held`. The last needs more: a ref that
has not moved and has a current packed line is told by that line, unless it is being deleted; one without is told by
its listed loose file; and packing and deleting one ref exclude each other.

**GitReflogProofs.** `StepsStayApart`, `FinishesAreReported` and `RebasesAreTraced`, for any number of branches,
commits and rebases and whatever the user does while one is stopped. All three rest on `Placed`: runs are in the order
of their rebases and the run in progress is of the latest one, which is not finished. On top of it, `Own` says a run's
steps were written by its rebase or its abort, `Completions` that there is one completed run per finished rebase, and
`Traces` that a rebase nobody interfered with has one run, in progress or closed, that holds all it did.

**ReleaseProofs.** `TypeCorrect`, `PinsArePublished`, `GivingUpIsOutraced`, `RacesKeepOthers`. The key fact is that the
checksum asset is written once and never replaced; hence every row of every checkout, however stale, is
sound forever, and rebasing a sound edit onto a sound catalog is sound.

**ManifestsProofs: the contract.** `Implements` is the refinement: `Spec => Answers`, so for every plugin whose partials
are records of lists that are put one behind the other, every tree, every way to cut it, and every interleaving of the
chunks, the answer is the one a single chunk would give. It assumes what the types of the code say, that a tree is a
list of files (`TreeAssumption`) and that reading a file gives a partial of the plugin's type (`ReadAssumption`); TLC
evaluates both for the six plugins of Declarations. The invariant (`Invariance`) says where everybody is: there are
places in the list at which the host cut it, each chunk has found exactly what its files up to some place have in them
(`Found`) and has the files behind that place left, and `assemble`, which starts when no chunk has any left, what the
files up to the end of the last chunk merged have. That merging a chunk takes it to the end of the next one is
`StretchesJoin`, an induction along the list on the associativity of `JoinPartials` (`JoinIsAssociative`), which holds
of lists and of numbers and would of neither if `assemble` took the partials in another order.

**ManifestsProofs: Kubernetes.** `SelectsDeclared` states `SelectsAsDeclared` for every tree of manifests: a service selects exactly
the workloads of its namespace with the labels it names, and the count of those that select nothing is zero exactly when
there are none. `MountsDangle` states the Kubernetes part of `OnlyReferencesDangle`: no edge lacks a node at either end, but
a mount or a route to what no file declares. Beyond the assumptions of Chunks they take that the plugin called `k8s` is
module K8s and that what the YAML parser hands over are lists where the code iterates (`ManifestAssumption`, which TLC
evaluates for the trees of the run). By `Invariance` the answer is the resolution of the whole tree, so no interleaving is
left to argue about. What remains goes up from the pieces: a chunk lists what any chunk it is merged of lists
(`MergeAllLists`), and is `Closed`, every edge of it sound among its own keys, if they are, or, for a container, if they are
together with its workload (`ContainerGives`); so a document gives exactly the selector or the workload it is, the node its
key has, and a closed chunk (`DocumentGives`), and a tree what its documents do (`TreeGives`). The answer adds the nodes of
the namespaces, the selections of the pairs that match, and their count (`NodesOfAnswer`, `SelectedAre`, `UnmatchedNone`).
A mount's target is compared by kind and name because that is all the code knows of it: that it has a node whenever any
file declares it is `DeclaredLands`.

**ManifestsProofs and DeclarationsProofs: the other plugins.** `ReferencesDangle` states `OnlyReferencesDangle` for
every tree of every plugin, every cut and every interleaving: an edge joins nodes of the answer, but for a mount, a
route or a `depends_on` of what no file of the tree declares. What the host hands over is assumed to have the types the
code iterates over (`DeclarationAssumption`, `NestingAssumption`), no more: names, keys, texts and cycles among them are
arbitrary. The argument is one for the five beside Kubernetes: a partial `Stands`, of the keys it needs and those of its
nodes, if its edges join such keys (or are of a kind that is looked up later). Partials put together stand of what all
of them list (`MergedStands`), so a node with its edges may be put before or after what they lead to, and what remains
is to say of each fact what it needs: a Compose service its project and the networks and volumes declared
(`ServiceStands`), a TOML key the table it is in, a column its statement and its table. What is nested is read by how
deeply it is, with sets of numbers again: what an expression refers to is a list however deep it is (`RefsAreRow`), a
table's items stand in the table, and the open element, fragments and result maps of a mapper stay of the right shape
whatever the order of its events (`StartedKeeps`, `EndedKeeps`). A file stands of itself (`FileStands`) and so does the
tree, whatever the chunks (`WholeIsMerged`, `WholeStands`). Two plugins need one argument more: Terraform keeps an edge
in `assemble` only if what it leads to was declared or is a root, and both have nodes by then (`ResolveJoins`); and
every service of Compose that has a name has a node, so what `depends_on` lacks is what nobody declared
(`ServiceHasNode`).

`ImagesPutTogether` states `ImagesRejoin` likewise. That an image's node has the parts of its own key goes the same way
(`OfImage`, of chunks, of partials that stand, of answers: `AnswerShows`). What the parts make when put together again is
about `parse_image` alone, for any text at all (`PartsRejoin` of FoldLemmas): cut at the first `@`, the last `/` and the first `:`
after it, a text is its pieces (`SplitFirst`, `SplitLast`), and the slice from where the path first occurs to where the name
ends is path and name, as the path occurs nowhere earlier: it would begin inside the registry, and its first segment would
end there too, since the first slash from there on is the one behind the registry (`Echoes`, `FoundBehind`).
The proof is what showed the second exception, a slash right behind the registry, which the code trims (`Doubled`).

**PyResolveProofs.** `GraphWhole`, `CallsKept`, `ShapesKept` and `BasesClasses` state four of the five invariants of
`py` for any list of files, whatever they say and in whatever order they come. The proof goes up from the parser: what
it writes down for each kind of statement is well formed (`ParseTyped`), hence a lookup gives a key or nothing, and a
site is answered by a key with its stand-ins, by silence if it calls a builtin, or not at all (`SiteAnswers`). On that
rests the invariant (`Invariant`): `Progress` (what each phase has left to do), `Material` (the ledger's keys are none a file
could declare, and everything is finite), `Distinct` (the nodes have the keys of `seen`, each once), `BasesShown`
(a stand-in is never in `seen`, and what something extends is a class among them), `CallsShown` (a call is on the list,
or calls a builtin, or has the edge of its own answer, with its shape) and `Told` (a shape that is told is told of an edge,
and "unawaited" of a coroutine). That the answer of a site is the same whenever it is asked for, though stand-ins, nodes and the
ledger grow meanwhile, is `AnswersStay`: every lookup depends on the files alone. None of the four properties is
inductive by itself, since they speak of a finished graph only: that `Finish` mints no key twice is because the ledger, the
ends implied and the stand-ins are disjoint from each other and from `seen`, which every action before it must
keep. Names are any set that has no reserved word of the model in it (`NameAssumption`).

**FoldLemmas.** A fold is defined by recursion over its data, and the induction theorems of the prover's library, which take
a predicate as a parameter, are out of reach of its back ends. Where the proofs above need an induction they argue with a *set*
of numbers that has zero and with each number the next (`CountingUp`), or with the least number at which something fails;
`FoldLeftSteps`, `FlattenSteps` and `FoldSetSteps` unfold the community modules' folds into such steps.

Only model-checked: liveness (`RunsEnd`), as the prover has no rule for fairness or `ENABLED`; `OverridesWin`, which is
about all paths through a graph of classes of any depth; `ReferencesAsDeclared`, which is not true of every tree (beyond
five nested blocks the code looks no further, and an image spelled like an address counts as declared), and whose proof
would have to say what the trees checked do not have; `ColumnsUnderTheirTable`, whose proof would have to follow the
scan of a statement's tokens through every state of its folds; and the six invariants of `languages`, whose modules walk
syntax trees with `RECURSIVE` operators, which the prover cannot read, not even to prove something that does not depend
on them.

## 6. What the models found

Four runs are expected to end in a violation. Each checks one sentence of the repository against what the code does.

1. `git_refs_pack` (bug): `read_refs` reads packed-refs first and loose files second. A ref that `git gc` packs in
   between is in neither read and is lost. git reads them the other way round for this reason.
2. `py_own_methods` (bug): methods are indexed by the bare name of their class, so `self.m()` in a nested class is
   resolved to a key that nothing declares and gets a stand-in of type `Type`; a namesake at module level is
   answered for instead.
3. `deps_pom` (bug): `pom()` takes any `groupId`, `artifactId` or `version` below a `<dependency>` for its own, so an
   `<exclusion>` in it overwrites the coordinate: the excluded artifact is recorded, the one depended on is lost.
4. `release_pin` (divergence): a run killed between the uploads of its two assets, and run again with another build,
   publishes a checksum that is not the plugin's.

Smaller observations made while reading, not checked by a run of their own.

*git.*

* "refs first, so a truncated read keeps what a branch can still reach" (git `lib.rs:231`): the frontier is a heap by
  date, so the order of tips decides nothing. "The newest commits" is true only if dates do not run backwards
  (`NewestKept` carries the condition). In a truncated read `reachable: false` may also mean that the way from a
  branch leads through a commit the ceiling cut off (`lib.rs:632`).
* A commit made while a rebase is stopped splits a rebase that finished in two runs, the first of them unfinished
  (`reflog.rs:182`); `FinishedReported` and `StepsApart` say what survives.
* A branch that is a symbolic ref (`git symbolic-ref refs/heads/dev refs/heads/main`) is not among the refs, and a HEAD on it
  is reported unborn (`refs.rs:108`), where `refs.rs:17` says that such a HEAD "names a branch that does not exist yet".
* A symbolic ref does not hide the packed value of its name (`refs.rs:54`); oids of SHA-256 repositories are skipped.
* With remotes or tags switched off their reflogs are still read (`lib.rs:331`), so a commit they lead to is called
  unreachable.
* An abort's entry is read as a step of the rebase (`reflog.rs:136`); a rebase of a detached HEAD is attributed to
  a branch one of whose rebases ended on the same commit (`reflog.rs:230`).
* The bound on delta chains is not checked on the path of offset deltas (`odb.rs:204`).

*Declarations.*

* Kubernetes: a document without a kind adds to `skipped`, but its file is named only when no document in it is an
  object (`lib.rs:250`), against "is counted and named" (`lib.rs:28`). A namespace and an image of one name share a
  key (`lib.rs:187`, `lib.rs:521`).
* Compose: `networks` in list form attaches each network twice (`lib.rs:321`), an undeclared network or an env_file is
  minted once per mention (`lib.rs:287` says "a second node under the same key is a second node"), and `depends_on` may
  name a service nobody declares (`lib.rs:326`: "An edge must not point at a node nobody minted").
* Image references are sliced where their path *first* occurs, so `docker.io/docker/app` is cut at the wrong place, and a
  second slash behind the registry (`docker.io//app`) is lost; `ImagesRejoin` carries both exceptions.
* Terraform: keys of root modules are not told apart, index expressions are not walked, and `lib.rs:21` and
  `lib.rs:80` disagree on the extensions claimed.
* deps: a requirement with several extras keeps the later extras at the head of its version.
* XML: a self-closed `<resultMap extends/>`, `<sql/>` or `<select/>` opens and never closes; a result map's columns go to
  the only table named even when `${…}` stands for another; in `INSERT INTO t … FROM t` one table counts as two.
* TOML: a quoted key with a dot in it collides with the table nested that way.

*Languages.*

* A call to an inherited member reads the bases two steps up with the imports of the file that calls (java
  `resolve.rs:293`; also Kotlin and C#), so they may be unresolved or bound to a namesake.
* Java: a static import of an *inherited* member ends at a key nothing declares, which is why `CallsLand` excepts what
  the source spells out. Java and Kotlin: a `@Bean` method that returns an interface is never an implementor (so a
  stereotype beside it is taken for the only bean), two `@Bean` methods of one type collapse, and a parameter that is
  not injected but named like an injected field is dispatched.
* Kotlin: an untyped member property drops the calls of its initialiser uncounted; a constructor parameter that is no
  property has its types recorded against a key nothing declares; a property and a function of one name share a key.
* C#: of several registrations of one service, one for a type outside the tree is dropped before the rest are counted
  (`resolve.rs:715`), and a single other one is wired with high confidence, where the README (`plugins/csharp/README.md:149`)
  says that nothing is emitted "when several registrations answer and nothing chooses between them".
* C#: of two extension methods of one name for one type the file first in order decides (`resolve.rs:150`). A registration
  under a key that is no string literal is recorded as unkeyed (`walk.rs:1121`); keyed injection
  falls back to a sole unkeyed registration; a property spelled like a type is read as the type; types of the
  global namespace have an empty parent key; calls in field initialisers are not read.
* The label of a node for something outside the tree depends on which file mentions it first.
* Python: when a package's `__init__.py` does not parse, a class of that package is taken for external by
  `from pkg import …`, and a method inherited beyond five classes goes to the ledger. The first star import wins, where
  in Python the last does.

## 7. What is not modelled

`PROJECT.json` lists every component with its status. Left out for good: text (parsers of TOML, YAML, HCL, XML,
SQL tokens and the languages; formatting, wording, logos), inflating and decoding git objects, partials that do not
decode, the WASM boundary and its generated bindings, the git component (it copies what the parser returns), the CI
workflow, the catalog's shape checks, properties of nodes and edges on which nothing else depends.

Left out for now: the lookup of the object store (loose, packed, deltas, a cache) while git repacks; the Web, C,
TypeScript, Go and Rust plugins and the Go SDK. Of the plugins modelled in part: in Python routes (`resolve.rs`
315–458), type aliases, source text and test flags, and classes nest one deep; in Java, Kotlin and C# docs, values, enum
constants, type arguments beyond what a hint needs and operators; in XML the lexer, line numbers and
statement attributes; in the SDK the encoding of a partial and what a tag says about a revision.

## 8. Plan

In order of what the system depends on:

1. `GitOdb`: loose objects, packs, offset and reference deltas, a cache, and git repacking meanwhile; abstractly,
   a partial function from oids to objects. `GitWalk`'s reads refine to it. Worth proving: what is returned for an oid
   is that object.
2. The remaining language resolvers on `FactGraph` and `TypedResolve`, those with an unusual rule first: Web
   (nearest-first binding), C (linkage, headers), TypeScript (re-exports, module resolution), Go (embedding), Rust
   (facades, impls, receivers).
3. Routes of Python, and how prefixes are conferred through includes of includes.
4. Proofs of what the other resolving plugins answer: of Terraform, what a reference is an edge of (`ReferencesAsDeclared`, with the
   depth and the images named); of XML, which columns a statement is given; of Java, Kotlin and C#, once their walks are
   recursive functions of the depth, as those of Terraform, TOML and the mappers are.
