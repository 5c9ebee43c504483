------------------------------ MODULE ImageRef ------------------------------
(***************************************************************************)
(* `parse_image` of sdk/rust/src/ops.rs, by which every plugin that reads  *)
(* a declaration of something running takes an image reference apart.  A   *)
(* reference is a sequence of characters; a word without a separator in it *)
(* may be written as one character.  The revision of a tag is left out.    *)
(***************************************************************************)
EXTENDS FactGraph

FirstAt(text, c) == SelectInSeq(text, LAMBDA x : x = c)
LastAt(text, c) == SelectLastInSeq(text, LAMBDA x : x = c)
Before(text, n) == SubSeq(text, 1, n - 1)
After(text, n) == SubSeq(text, n + 1, Len(text))

(* split_once, rsplit_once: what stands before the separator, and after.   *)
SplitFirst(text, c) ==
    LET n == FirstAt(text, c) IN IF n = 0 THEN <<text, None>> ELSE <<Before(text, n), Some(After(text, n))>>
SplitLast(text, c) ==
    LET n == LastAt(text, c) IN IF n = 0 THEN <<None, text>> ELSE <<Some(Before(text, n)), After(text, n)>>

(* str::find: where the first occurrence starts; there is one.             *)
StartOf(text, part) ==
    CHOOSE n \in 1..Len(text) :
        /\ SubSeq(text, n, n + Len(part) - 1) = part
        /\ \A m \in 1..(n - 1) : SubSeq(text, m, m + Len(part) - 1) # part

HostLike(segment) == "." \in ToSet(segment) \/ ":" \in ToSet(segment) \/ segment = <<"localhost">>
FirstSegment(path) == SplitFirst(path, "/")[1]

(* What lies between the registry and the last segment.                    *)
Middle(head, registry) ==
    IF registry = None THEN head
    ELSE LET rest == After(head, Len(registry[1]))
             n == SelectInSeq(rest, LAMBDA c : c # "/")
         IN IF n = 0 THEN <<>> ELSE SubSeq(rest, n, Len(rest))

(* The slice runs over the middle, the slash and the name after it.        *)
Repository(reference, head, registry, name) ==
    LET middle == Middle(head[1], registry)
        start == StartOf(reference, middle)
        end == start + Len(middle) + Len(name)
    IN IF head = None \/ (registry # None /\ middle = <<>>) \/ end > Len(reference) THEN name
       ELSE SubSeq(reference, start, end)

ParseImageAnyColon(reference) ==
    LET digested == SplitFirst(reference, "@")
        tagged == SplitFirst(digested[1], ":")
        path == SplitLast(tagged[1], "/")
        registry == IF path[1] # None /\ HostLike(FirstSegment(path[1][1])) THEN Some(FirstSegment(path[1][1])) ELSE None
    IN [registry |-> registry, repository |-> Repository(reference, path[1], registry, path[2]),
        tag |-> tagged[2], digest |-> digested[2]]
ParseImage(reference) ==
    LET digested == SplitFirst(reference, "@")
        path == SplitLast(digested[1], "/")
        named == SplitFirst(path[2], ":")
        registry == IF path[1] # None /\ HostLike(FirstSegment(path[1][1])) THEN Some(FirstSegment(path[1][1])) ELSE None
    IN [registry |-> registry, repository |-> Repository(reference, path[1], registry, named[1]),
        tag |-> named[2], digest |-> digested[2]]

(***************************************************************************)
(* What the parts make, put together again; and the references whose path  *)
(* behind the registry also occurs further ahead, or begins with a slash.  *)
(***************************************************************************)
Optional(separator, part) == IF part = None THEN <<>> ELSE <<separator>> \o part[1]
Rejoined(p) ==
    (IF p.registry = None THEN <<>> ELSE Append(p.registry[1], "/"))
    \o p.repository \o Optional(":", p.tag) \o Optional("@", p.digest)
Echoes(reference, registry) ==
    LET tail == After(reference, Len(registry) + 1)
        path == Before(tail, FirstAt(tail, "/"))
    IN path # <<>> /\ \E n \in DOMAIN registry : SubSeq(reference, n, n + Len(path) - 1) = path
Doubled(reference, registry) == Len(registry) + 2 \in DOMAIN reference /\ reference[Len(registry) + 2] = "/"
=============================================================================
