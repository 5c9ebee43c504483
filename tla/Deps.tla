-------------------------------- MODULE Deps --------------------------------
(***************************************************************************)
(* The Deps plugin (plugins/deps): what a build manifest says it is for    *)
(* and which packages it depends on, one reader per ecosystem.             *)
(*                                                                         *)
(* Abstractions.  A file is its path, `state`, `kind` (which reader its    *)
(* base name picks) and its `content`: for package.json and pyproject.toml *)
(* the tables that are read; for requirements, go.mod and gradle the lines *)
(* that are not blank, comments cut off, by what they are; for a pom the   *)
(* parser's events.  A coordinate is <<group, artifact>>, "" if missing; a *)
(* package of another ecosystem is <<"", name>>.                           *)
(***************************************************************************)
EXTENDS SimpleOutput

Dep(key, version, scope) == [key |-> key, version |-> version, scope |-> scope]
Read(declares, deps) == [declares |-> declares, deps |-> deps]
(* A version as written; a requirement may leave extras ahead of it.       *)
AsWritten(version) == <<<<>>, version>>
ScopedTo(scope, pairs) == [i \in DOMAIN pairs |-> Dep(<<"", pairs[i][1]>>, AsWritten(pairs[i][2]), scope)]

(* package.json: four fields, each a list of <<name, version>>.            *)
PackageJson(c) ==
    Read(c.name, ScopedTo("runtime", c.dependencies) \o ScopedTo("dev", c.devDependencies)
                 \o ScopedTo("runtime", c.peerDependencies) \o ScopedTo("optional", c.optionalDependencies))

(* go.mod: single requires, and blocks of them.                            *)
GoLine(r, line) ==
    LET required == Append(r.deps, Dep(<<"", line.path>>, AsWritten(line.version), "runtime"))
    IN CASE r.inside /\ line.is = "close" -> [r EXCEPT !.inside = FALSE]
         [] r.inside /\ line.is = "pair" -> [r EXCEPT !.deps = required]
         [] ~r.inside /\ line.is = "module" -> [r EXCEPT !.declares = Some(line.path)]
         [] ~r.inside /\ line.is = "require block" -> [r EXCEPT !.inside = TRUE]
         [] ~r.inside /\ line.is = "require" -> [r EXCEPT !.deps = required]
         [] OTHER -> r
GoMod(lines) ==
    LET r == FoldLeft(GoLine, [inside |-> FALSE, declares |-> None, deps |-> <<>>], lines)
    IN Read(r.declares, r.deps)

(* One PEP 508 requirement.  Behind the name the first extra is cut off    *)
(* with its brackets; further ones stay at the head of the version.        *)
Requirement(spec, scope) ==
    IF spec.name = "" THEN <<>>
    ELSE <<Dep(<<"", spec.name>>, <<IF spec.extras = <<>> THEN <<>> ELSE Tail(spec.extras), spec.range>>, scope)>>
RequirementsOf(specs, scope) == FlattenSeq([i \in DOMAIN specs |-> Requirement(specs[i], scope)])
Requirements(lines) ==
    Read(None, RequirementsOf(Filter(lines, LAMBDA l : ~l.option), "runtime"))
Pyproject(c) ==
    Read(c.name, RequirementsOf(c.dependencies, "runtime") \o RequirementsOf(FlattenSeq(c.groups), "optional")
                 \o ScopedTo("runtime", Filter(c.poetry, LAMBDA p : p[1] # "python")))

(***************************************************************************)
(* pom.xml: a fold over the events [ev |-> "start" | "end", name] and      *)
(* [ev |-> "text", text].  What is read inside a `dependency` element, at  *)
(* whatever depth, is kept until that element ends.                        *)
(***************************************************************************)
ScopeOf(scope) == CASE scope = "test" -> "test" [] scope = "provided" -> "dev" [] OTHER -> "runtime"
Opening == [path |-> <<>>, deps |-> <<>>, own |-> <<"", "">>,
            groupId |-> "", artifactId |-> "", version |-> "", scope |-> ""]
Ended(r, name) ==
    IF name = "dependency" /\ r.artifactId # ""
    THEN [r EXCEPT !.path = Front(@), !.groupId = "", !.artifactId = "", !.version = "", !.scope = "",
                   !.deps = Append(@, Dep(<<r.groupId, r.artifactId>>, AsWritten(r.version), ScopeOf(r.scope)))]
    ELSE [r EXCEPT !.path = Front(@)]
Texted(r, text) ==
    LET inside == Contains(r.path, "dependency")
        at == IF r.path = <<>> THEN "" ELSE Last(r.path)
    IN CASE inside /\ at \in {"groupId", "artifactId", "version", "scope"} -> [r EXCEPT ![at] = text]
         [] ~inside /\ at = "groupId" /\ Len(r.path) = 2 -> [r EXCEPT !.own[1] = text]
         [] ~inside /\ at = "artifactId" /\ Len(r.path) = 2 -> [r EXCEPT !.own[2] = text]
         [] OTHER -> r
PomEvent(r, event) ==
    CASE event.ev = "start" -> [r EXCEPT !.path = Append(@, event.name)]
      [] event.ev = "end" -> Ended(r, event.name)
      [] event.ev = "text" -> Texted(r, event.text)
Pom(events) ==
    LET r == FoldLeft(PomEvent, Opening, events)
    IN Read(IF r.own[2] = "" THEN None ELSE Some(r.own), r.deps)

(* build.gradle: the written forms `config 'g:a:v'`.                       *)
GradleScope(config) ==
    CASE config \in {"testImplementation", "testRuntimeOnly", "androidTestImplementation"} -> "test"
      [] config \in {"implementation", "api", "runtimeOnly"} -> "runtime"
      [] config \in {"compileOnly", "annotationProcessor"} -> "dev"
      [] OTHER -> ""
Gradle(lines) ==
    LET written == Filter(lines, LAMBDA l : GradleScope(l.config) # "" /\ Len(l.spec) >= 2)
        Part(spec, n) == IF n \in DOMAIN spec THEN spec[n] ELSE ""
    IN Read(None, [i \in DOMAIN written |->
                      Dep(<<written[i].spec[1], written[i].spec[2]>>, AsWritten(Part(written[i].spec, 3)),
                          GradleScope(written[i].config))])

ReadManifest(file) ==
    CASE file.kind = "package.json" -> PackageJson(file.content)
      [] file.kind = "go.mod" -> GoMod(file.content)
      [] file.kind = "requirements.txt" -> Requirements(file.content)
      [] file.kind = "pyproject.toml" -> Pyproject(file.content)
      [] file.kind = "pom.xml" -> Pom(file.content)
      [] file.kind = "build.gradle" -> Gradle(file.content)
      [] file.kind \in {"unknown", "unparsed"} -> Read(None, <<>>)

Declared(path, dep) ==
    Linked(External(dep.key, "Package"),
           [src |-> path, type |-> "DEPENDS_ON", dst |-> dep.key, by |-> dep.scope, version |-> dep.version])
Process(file) ==
    IF file.state = "unreadable" THEN Declined(file, "unreadable")
    ELSE LET read == ReadManifest(file)
             One(dep) == Declared(<<file.path>>, dep)
         IN MergeAll(<<Mint([key |-> <<file.path>>, label |-> "Manifest", external |-> FALSE, declares |-> read.declares]),
                       Each(read.deps, One),
                       When(read.deps # <<>>, Note(file.path, "declared dependencies"))>>)
=============================================================================
