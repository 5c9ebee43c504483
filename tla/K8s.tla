-------------------------------- MODULE K8s --------------------------------
(***************************************************************************)
(* The Kubernetes plugin (plugins/k8s): manifests in chunks, each parsed   *)
(* by an instance of its own that shares nothing with the others, and one  *)
(* assemble that resolves over the whole tree what no chunk could.         *)
(*                                                                         *)
(* Abstractions.  A YAML document is what the plugin looks at in it: a     *)
(* kind ("" where apiVersion or kind is missing, "null" for an empty one), *)
(* a namespace (already `default` where none is written), a name, and what *)
(* its kind is read for: the pod template is already found, its volumes    *)
(* are those that something backs, and "" stands for a field that is       *)
(* missing.  Properties of nodes and edges are left out, but for the       *)
(* labels a selector is matched with.  A key `a/b/c` is <<a, b, c>>.       *)
(***************************************************************************)
EXTENDS Naturals, Sequences, FiniteSets, SequencesExt

Facts == INSTANCE FactGraph
Refs == INSTANCE ImageRef
----------------------------------------------------------------------------
(* What is found, in the order in which it is found: a chunk. *)
Fields == {"nodes", "edges", "workloads", "selectors", "namespaces", "skipped", "notes"}
Nothing == Facts!Blank(Fields)
Merge(c, d) == Facts!JoinPartials(c, d)
MergeAll(chunks) == FoldLeft(Merge, Nothing, chunks)

Node(key, label) == [Nothing EXCEPT !.nodes = <<[key |-> key, label |-> label]>>]
Edge(src, type, dst) == [Nothing EXCEPT !.edges = <<[src |-> src, type |-> type, dst |-> dst]>>]
Skip == [Nothing EXCEPT !.skipped = 1]
Note(path, what) == [Nothing EXCEPT !.notes = <<[path |-> path, what |-> what]>>]

WorkloadKinds == {"Deployment", "StatefulSet", "DaemonSet", "Job", "CronJob",
                  "ReplicaSet", "ReplicationController", "Pod"}
LabelOf(kind) ==
    CASE kind \in WorkloadKinds -> "Workload"
      [] kind = "PersistentVolumeClaim" -> "Volume"
      [] kind \in {"Service", "Ingress", "ConfigMap", "Secret"} -> kind
      [] OTHER -> "Resource"
Key(doc) ==
    <<doc.ns, IF doc.kind = "PersistentVolumeClaim" THEN "Volume" ELSE doc.kind, doc.name>>

(* Every object names its namespace, and has a node and an edge into it. *)
Declared(doc) ==
    MergeAll(<<[Nothing EXCEPT !.namespaces = <<doc.ns>>],
               Node(Key(doc), LabelOf(doc.kind)),
               Edge(Key(doc), "IN_NAMESPACE", <<doc.ns>>)>>)

(***************************************************************************)
(* A container: its image, and what it mounts.  A volume is mounted by its *)
(* local name, which the last volume of that name backs.                   *)
(***************************************************************************)
Backing(doc, volume) == SelectLastInSeq(doc.volumes, LAMBDA v : v.name = volume)
Mounted(doc, c) ==
    [i \in DOMAIN c.mounts |->
        LET b == Backing(doc, c.mounts[i]) IN
        IF b = 0 THEN Nothing
        ELSE Edge(Append(Key(doc), c.name), "MOUNTS", <<doc.ns>> \o doc.volumes[b].target)]
Image(ckey, reference) ==
    IF reference = <<>> THEN Nothing
    ELSE Merge([Nothing EXCEPT !.nodes = <<[key |-> reference, label |-> "Image", parts |-> Refs!ParseImage(reference)]>>],
               Edge(ckey, "USES_IMAGE", reference))
Container(doc, c) ==
    IF c.name = "" THEN Nothing
    ELSE LET ckey == Append(Key(doc), c.name) IN
         MergeAll(<<Node(ckey, "Container"), Edge(Key(doc), "RUNS", ckey), Image(ckey, c.image)>>
                  \o Mounted(doc, c)
                  \o [i \in DOMAIN c.from |-> Edge(ckey, "MOUNTS", <<doc.ns>> \o c.from[i])])

Workload(doc) ==
    MergeAll(<<Declared(doc),
               [Nothing EXCEPT !.workloads =
                   <<[ns |-> doc.ns, key |-> Key(doc), labels |-> doc.labels]>>]>>
             \o [i \in DOMAIN doc.containers |-> Container(doc, doc.containers[i])])

Service(doc) ==
    Merge(Declared(doc),
          IF doc.selector = {} THEN Nothing
          ELSE [Nothing EXCEPT !.selectors =
                   <<[ns |-> doc.ns, key |-> Key(doc), labels |-> doc.selector]>>])

Ingress(doc) ==
    MergeAll(<<Declared(doc)>> \o
             [i \in DOMAIN doc.backends |->
                 Edge(Key(doc), "ROUTES_TO", <<doc.ns, "Service", doc.backends[i]>>)])

Object(doc) ==
    CASE doc.name = "" /\ doc.kind # "Namespace" -> Skip
      [] doc.kind = "Namespace" ->
            [Nothing EXCEPT !.namespaces = IF doc.name = "" THEN <<>> ELSE <<doc.name>>]
      [] doc.name # "" /\ doc.kind \in WorkloadKinds -> Workload(doc)
      [] doc.name # "" /\ doc.kind = "Service" -> Service(doc)
      [] doc.name # "" /\ doc.kind = "Ingress" -> Ingress(doc)
      [] OTHER -> Declared(doc)

(* One file, read and parsed; it is noted if no document is an object. *)
IsObject(doc) == doc.kind \notin {"", "null"}
ReadDocument(doc) ==
    CASE doc.kind = "null" -> Nothing
      [] doc.kind = "" -> Skip
      [] OTHER -> Object(doc)
Read(file) ==
    IF file.state # "manifest" THEN Merge(Skip, Note(file.path, file.state))
    ELSE Merge(MergeAll([i \in DOMAIN file.docs |-> ReadDocument(file.docs[i])]),
               IF \E i \in DOMAIN file.docs : IsObject(file.docs[i]) THEN Nothing
               ELSE Note(file.path, "not a manifest"))
----------------------------------------------------------------------------
(* The whole-tree pass. *)
FirstOfEach(seq) == FoldLeft(LAMBDA s, x : IF Contains(s, x) THEN s ELSE Append(s, x), <<>>, seq)
NamespaceNodes(c) ==
    LET names == FirstOfEach(c.namespaces) IN
    [i \in DOMAIN names |-> [key |-> <<names[i]>>, label |-> "Namespace"]]

SelectsAnywhere(s, w) == s.labels \subseteq w.labels
Selects(s, w) == w.ns = s.ns /\ s.labels \subseteq w.labels
Selected(c) ==
    FlattenSeq([i \in DOMAIN c.selectors |->
        FlattenSeq([j \in DOMAIN c.workloads |->
            LET s == c.selectors[i]
                w == c.workloads[j]
            IN IF Selects(s, w) THEN <<[src |-> s.key, type |-> "SELECTS", dst |-> w.key]>> ELSE <<>>])])
Unmatched(c) ==
    Cardinality({i \in DOMAIN c.selectors :
                    \A j \in DOMAIN c.workloads : ~Selects(c.selectors[i], c.workloads[j])})

Resolve(c) ==
    [nodes |-> c.nodes \o NamespaceNodes(c),
     edges |-> c.edges \o Selected(c),
     skipped |-> c.skipped,
     notes |-> c.notes,
     unmatched |-> Unmatched(c)]
=============================================================================
