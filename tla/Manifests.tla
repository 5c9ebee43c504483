------------------------------ MODULE Manifests ------------------------------
(***************************************************************************)
(* What a repository says it runs: the files of Kubernetes, Compose and    *)
(* Terraform, and what the answer to a tree of Kubernetes manifests says   *)
(* of the objects they declare, in whatever chunks they are.               *)
(***************************************************************************)
EXTENDS Chunks

CONSTANT Nesting    \* how deeply what a parser hands over is nested at most
ASSUME NestingAssumption == Nesting \in Nat

None == <<>>
K8s == INSTANCE K8s
Simple == INSTANCE SimpleOutput
Compose == INSTANCE Compose
Terraform == INSTANCE Terraform

(* The lists of a plugin's partial: most write theirs with the facade.     *)
FieldsOf(plugin) ==
    CASE plugin = "k8s" -> K8s!Fields [] plugin = "terraform" -> Terraform!Fields [] OTHER -> Simple!Fields
----------------------------------------------------------------------------
(* What the files are, as far as they are read.  A list is a list, and     *)
(* what a document refers to is named by kind and name.                    *)
Referred == {"ConfigMap", "Secret", "Volume"}
IsReference(r) == r = <<r[1], r[2]>> /\ r[1] \in Referred
IsContainer(c) ==
    /\ Facts!IsRow(c.mounts) /\ Facts!IsRow(c.from) /\ Facts!IsRow(c.image)
    /\ \A i \in DOMAIN c.from : IsReference(c.from[i])
IsDocument(d) ==
    /\ d.kind \in K8s!WorkloadKinds =>
          /\ Facts!IsRow(d.containers) /\ \A i \in DOMAIN d.containers : IsContainer(d.containers[i])
          /\ Facts!IsRow(d.volumes) /\ \A i \in DOMAIN d.volumes : IsReference(d.volumes[i].target)
    /\ d.kind = "Ingress" => Facts!IsRow(d.backends)
IsManifest(f) == f.state = "manifest" => Facts!IsRow(f.docs) /\ \A i \in DOMAIN f.docs : IsDocument(f.docs[i])

IsService(s) ==
    /\ Facts!IsRow(s.mounts) /\ Facts!IsRow(s.envFiles) /\ Facts!IsRow(s.networks.names)
    /\ Facts!IsRow(s.dependsOn) /\ (s.image # None => Facts!IsRow(s.image[1]))
IsProject(f) ==
    /\ f.state \in {"unreadable", "invalid", "empty", "other", "read"}
    /\ f.state = "read" =>
          /\ Facts!IsRow(f.doc.networks) /\ Facts!IsRow(f.doc.volumes)
          /\ f.doc.services # None =>
                Facts!IsRow(f.doc.services[1]) /\ \A s \in ToSet(f.doc.services[1]) : IsService(s)
IsConfiguration(f) ==
    /\ f.state \in {"unreadable", "values", "invalid", "read"}
    /\ f.state = "read" => Facts!IsRow(f.blocks) /\ \A b \in ToSet(f.blocks) : b.body \in Terraform!Body[Nesting]

(* The plugin called k8s is the one of module K8s, and reads manifests.    *)
ASSUME ManifestAssumption ==
    \A t \in Tree : t.plugin = "k8s" =>
        /\ PartsOf("k8s") = K8s!Fields
        /\ \A i \in DOMAIN t.files : IsManifest(t.files[i]) /\ FindIn("k8s", t.files[i]) = K8s!Read(t.files[i])
        /\ AnswerTo(t) = K8s!Resolve(Whole("k8s", t.files))
----------------------------------------------------------------------------
Answered(plugins) == out # Pending /\ input.plugin \in plugins
Files(states) == {f \in ToSet(input.files) : f.state \in states}
NodeKeys == {out.nodes[i].key : i \in DOMAIN out.nodes}
Edges == ToSet(out.edges)

Documents == UNION {ToSet(f.docs) : f \in Files({"manifest"})}
Objects == {d \in Documents : K8s!IsObject(d) /\ d.name # ""}

(***************************************************************************)
(* A Kubernetes service selects the workloads of its namespace that carry  *)
(* every label it names, in whatever files and chunks the two are, and     *)
(* nothing else; one that names labels none carries is counted instead     *)
(* (k8s lib.rs:194).  An overlay may declare a key again, with labels of   *)
(* its own.                                                                *)
(***************************************************************************)
Services == {d \in Objects : d.kind = "Service" /\ d.selector # {}}
Workloads == {d \in Objects : d.kind \in K8s!WorkloadKinds}
Matches(s, w) == s.ns = w.ns /\ \A l \in s.selector : l \in w.labels
Selection(s, w) == [src |-> K8s!Key(s), type |-> "SELECTS", dst |-> K8s!Key(w)]
SelectsAsDeclared ==
    Answered({"k8s"}) =>
        /\ \A s \in Services, w \in Workloads : Matches(s, w) => Selection(s, w) \in Edges
        /\ \A e \in Edges : e.type = "SELECTS" =>
              \E s \in Services, w \in Workloads : Matches(s, w) /\ e = Selection(s, w)
        /\ out.unmatched = 0 <=> \A s \in Services : \E w \in Workloads : Matches(s, w)

(***************************************************************************)
(* Every edge joins two nodes of the answer, except a mount or a route to  *)
(* something that no file of the tree declares (k8s lib.rs:476).           *)
(***************************************************************************)
Mounted(key) == \E d \in Objects : key = <<d.ns, K8s!LabelOf(d.kind), d.name>>
OnlyMountsDangle ==
    Answered({"k8s"}) => \A e \in Edges :
        e.src \in NodeKeys /\ (e.dst \in NodeKeys \/ (e.type \in {"MOUNTS", "ROUTES_TO"} /\ ~Mounted(e.dst)))
=============================================================================
