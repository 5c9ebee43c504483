------------------------------ MODULE Compose ------------------------------
(***************************************************************************)
(* The Compose plugin (plugins/compose): a file's project, its declared    *)
(* networks and volumes, and its services with what they are wired to.     *)
(*                                                                         *)
(* Abstractions.  A file is its path [dir, base, stem], what became of     *)
(* reading it (`state`) and its first document: name ("" if none), the     *)
(* keys under `networks` and `volumes`, and the entries of `services`, or  *)
(* None where that is no mapping.  A service is what the graph is made of: *)
(* mounts ([source, named]), image (None or the reference), envFiles,      *)
(* networks ([listed, names]) and dependsOn.  Properties of nodes and      *)
(* edges are left out, ports, commands and environment among them.         *)
(***************************************************************************)
EXTENDS SimpleOutput, ImageRef

(* Its own name, else the directory that holds it, else the file's stem.   *)
ProjectOf(path, doc) ==
    CASE doc.name # "" -> doc.name
      [] doc.name = "" /\ path.dir = <<>> -> path.stem
      [] doc.name = "" /\ path.dir # <<>> -> IF Last(path.dir) = "" THEN "compose" ELSE Last(path.dir)

Under(project, kind, name) == <<project, kind, name>>
Within(key, project) == Edge(key, "IN_NAMESPACE", <<project>>)
Entity(project, kind, label, name) ==
    Linked(Node(Under(project, kind, name), label), Within(Under(project, kind, name), project))

(* What is declared at the top level is minted whether or not it is used;  *)
(* what is used and not declared, by every use.                            *)
DeclaredBlocks(project, doc) ==
    LET Network(name) == Entity(project, "network", "Network", name)
        Volume(name) == Entity(project, "volume", "Volume", name)
    IN Merge(Each(doc.networks, Network), Each(doc.volumes, Volume))

VolumeMount(project, container, mount, doc) ==
    When(mount.source # "" /\ mount.named,
         Merge(When(~Contains(doc.volumes, mount.source), Entity(project, "volume", "Volume", mount.source)),
               Link(Edge(container, "MOUNTS", Under(project, "volume", mount.source)))))

Image(container, reference) ==
    Linked([key |-> reference, label |-> "Image", external |-> FALSE, parts |-> ParseImage(reference)],
           Edge(container, "USES_IMAGE", reference))

EnvFile(project, container, file) ==
    MergeAll(<<Mint(Node(Under(project, "configmap", file), "ConfigMap")),
               Link(Edge(container, "MOUNTS", Under(project, "configmap", file))),
               Link(Within(Under(project, "configmap", file), project))>>)

(* The listed form of `networks` is read by one_or_many and by keys_of.    *)
Attachments(networks) == IF networks.listed THEN networks.names \o networks.names ELSE networks.names
AttachedUnminted(project, workload, net, doc) ==
    Link(Edge(workload, "ATTACHED_TO", Under(project, "network", net)))
Attached(project, workload, net, doc) ==
    Merge(When(~Contains(doc.networks, net), Entity(project, "network", "Network", net)),
          Link(Edge(workload, "ATTACHED_TO", Under(project, "network", net))))

Service(project, s, doc) ==
    LET workload == Under(project, "service", s.name)
        container == Append(workload, s.name)
        Mount(mount) == VolumeMount(project, container, mount, doc)
        Env(file) == EnvFile(project, container, file)
        Net(net) == Attached(project, workload, net, doc)
        Dependency(name) == Link(Edge(workload, "DEPENDS_ON", Under(project, "service", name)))
    IN MergeAll(<<Linked(Node(workload, "Workload"), Within(workload, project)),
                  Each(s.mounts, Mount),
                  Linked(Node(container, "Container"), Edge(workload, "RUNS", container)),
                  IF s.image = None THEN Nothing ELSE Image(container, s.image[1]),
                  Each(s.envFiles, Env),
                  Each(Attachments(s.networks), Net),
                  Each(s.dependsOn, Dependency)>>)

Extract(file) ==
    LET doc == file.doc
        project == ProjectOf(file.path, doc)
        One(s) == When(s.name # "", Service(project, s, doc))
    IN CASE file.state = "invalid" -> Declined(file, "not valid YAML")
         [] file.state = "empty" -> Note(file.path, "empty")
         [] file.state = "other" -> Declined(file, "not a Compose file")
         [] file.state = "read" ->
               MergeAll(<<Mint(Node(<<project>>, "Namespace")), DeclaredBlocks(project, doc),
                          IF doc.services = None THEN Note(file.path, "services is not a mapping")
                          ELSE Each(doc.services[1], One)>>)
Process(file) == IF file.state = "unreadable" THEN Declined(file, "unreadable") ELSE Extract(file)
=============================================================================
