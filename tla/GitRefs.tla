------------------------------ MODULE GitRefs ------------------------------
(***************************************************************************)
(* `read_refs` and `read_head` of plugins/git/parser/src/refs.rs, reading  *)
(* a repository in which git is at work.  The plugin lists the repository  *)
(* once, then reads `packed-refs`, then every loose ref of the listing,    *)
(* then HEAD, each a separate host call; between two of them git may move  *)
(* a ref, fold loose refs into `packed-refs`, delete a ref or switch HEAD. *)
(*                                                                         *)
(* Git's own order is external: pack-refs renames the new `packed-refs`    *)
(* into place and then removes each loose file that still holds the value  *)
(* it packed; a delete rewrites `packed-refs` and then removes the file.   *)
(*                                                                         *)
(* Abstractions.  A loose file holds an oid, a symbolic ref (whatever it   *)
(* names) or nothing; sorting is left out, since the reads of two refs     *)
(* have no common effect; the peeled oid of a packed tag is GitHistory's.  *)
(***************************************************************************)
EXTENDS Naturals, FiniteSets

CONSTANTS
    Name,       \* full refnames
    Oid,        \* object names
    Absent,     \* no such file, or no such line
    Symbolic,   \* the content of a loose file that starts with `ref:`
    Acts,       \* what git does meanwhile, among "update", "pack", "delete", "switch"
    MaxGit      \* a bound on git's steps

ASSUME NamesAssumption == Absent \notin Oid /\ Symbolic \notin Oid /\ Absent # Symbolic
ASSUME MaxGitAssumption == MaxGit \in Nat

VARIABLES
    loose, packed,  \* the two places a ref is kept
    head,           \* the branch HEAD names, or the commit it holds, or nothing that can be read
    pruning,        \* loose refs pack-refs has packed and not yet removed
    deleting,       \* refs whose delete has rewritten `packed-refs`
    gitSteps,       \* how many steps git has taken
    phase,          \* "list", "packed", "loose", "head", "done"
    unread,         \* loose refs of the listing not yet read
    refs,           \* the map read_refs builds
    headRead,       \* what read_head returned: [kind, name]
    held,           \* history: the values each ref has had since the listing
    settled,        \* history: refs whose packed line was current at the listing
    disturbed       \* history: git has packed or deleted refs since the listing

gitVars == <<loose, packed, head, pruning, deleting, gitSteps>>
readVars == <<phase, unread, refs, headRead>>
history == <<held, settled, disturbed>>
vars == <<gitVars, readVars, history>>

Heads == Name \cup Oid \cup {Absent}

(* What git takes a ref to be: the loose file, else the packed line. *)
Value(n) == IF loose[n] # Absent THEN loose[n] ELSE packed[n]

Init ==
    /\ loose \in [Name -> Oid \cup {Absent, Symbolic}]
    /\ packed \in [Name -> Oid \cup {Absent}]
    /\ head \in Heads
    /\ pruning = {} /\ deleting = {} /\ gitSteps = 0
    /\ phase = "list" /\ unread = {}
    /\ refs = [n \in Name |-> Absent]
    /\ headRead = [kind |-> "none", name |-> head]
    /\ held = [n \in Name |-> {Value(n)}] /\ settled = {} /\ disturbed = FALSE
----------------------------------------------------------------------------
(* The plugin. *)

(* `files.list("")`, the one listing of a read. *)
List ==
    /\ phase = "list"
    /\ unread' = {n \in Name : loose[n] # Absent}
    /\ held' = [n \in Name |-> {Value(n)}]
    /\ settled' = {n \in Name : packed[n] = Value(n)}
    /\ disturbed' = FALSE
    /\ phase' = "packed"
    /\ UNCHANGED <<gitVars, refs, headRead>>

ReadPacked ==
    /\ phase = "packed"
    /\ refs' = packed
    /\ phase' = "loose"
    /\ UNCHANGED <<gitVars, unread, headRead, history>>

(* A listed file that is gone, symbolic or not an oid is passed over. *)
OverwriteOrForget(n) ==
    [refs EXCEPT ![n] = IF loose[n] \in Oid THEN loose[n] ELSE Absent]
OverwriteAlways(n) == [refs EXCEPT ![n] = loose[n]]
OverwriteIfAbsent(n) ==
    IF loose[n] \in Oid /\ refs[n] = Absent THEN [refs EXCEPT ![n] = loose[n]] ELSE refs
Overwrite(n) ==
    IF loose[n] \in Oid THEN [refs EXCEPT ![n] = loose[n]] ELSE refs

ReadLoose(n) ==
    /\ phase = "loose" /\ n \in unread
    /\ refs' = Overwrite(n)
    /\ unread' = unread \ {n}
    /\ UNCHANGED <<gitVars, phase, headRead, history>>

AllLooseRead ==
    /\ phase = "loose" /\ unread = {}
    /\ phase' = "head"
    /\ UNCHANGED <<gitVars, unread, refs, headRead, history>>

(* HEAD names a branch, which is unborn unless read_refs found it, or it   *)
(* holds a commit; where it can be read as neither there is no answer.     *)
HeadKindTrusting(h) ==
    IF h \in Name THEN "unborn" ELSE IF h \in Oid THEN "detached" ELSE "none"
HeadKind(h) ==
    IF h \in Name THEN (IF refs[h] # Absent THEN "branch" ELSE "unborn")
    ELSE IF h \in Oid THEN "detached" ELSE "none"
ReadHead ==
    /\ phase = "head"
    /\ headRead' = [kind |-> HeadKind(head), name |-> head]
    /\ phase' = "done"
    /\ UNCHANGED <<gitVars, unread, refs, history>>

Plugin == List \/ ReadPacked \/ (\E n \in unread : ReadLoose(n)) \/ AllLooseRead \/ ReadHead
----------------------------------------------------------------------------
(* Git. *)
Git(act) ==
    /\ act \in Acts
    /\ phase # "done" /\ gitSteps < MaxGit
    /\ gitSteps' = gitSteps + 1
    /\ disturbed' = (disturbed \/ act \in {"pack", "delete"})
    /\ UNCHANGED readVars

NoteValues ==
    /\ held' = [n \in Name |-> held[n] \cup {Value(n)'}]
    /\ UNCHANGED settled

(* A commit, a fetch or a push moves a ref or makes one: a loose file. *)
Update(n, o) ==
    /\ Git("update")
    /\ n \notin deleting
    /\ loose[n] # Symbolic /\ Value(n) # o
    /\ loose' = [loose EXCEPT ![n] = o]
    /\ UNCHANGED <<packed, head, pruning, deleting>>
    /\ NoteValues

(* `git switch`, to a branch or, with --detach, to a commit. *)
Switch(to) ==
    /\ Git("switch")
    /\ head' = to
    /\ UNCHANGED <<loose, packed, pruning, deleting>>
    /\ NoteValues

PackRefs ==
    /\ Git("pack")
    /\ pruning = {} /\ deleting = {}
    /\ packed' = [n \in Name |-> IF loose[n] \in Oid THEN loose[n] ELSE packed[n]]
    /\ pruning' = {n \in Name : loose[n] \in Oid}
    /\ UNCHANGED <<loose, head, deleting>>
    /\ NoteValues

PruneLoose(n) ==
    /\ Git("pack")
    /\ n \in pruning
    /\ pruning' = pruning \ {n}
    /\ loose' = IF loose[n] = packed[n] THEN [loose EXCEPT ![n] = Absent] ELSE loose
    /\ UNCHANGED <<packed, head, deleting>>
    /\ NoteValues

DeletePacked(n) ==
    /\ Git("delete")
    /\ pruning = {} /\ n \notin deleting
    /\ Value(n) \in Oid
    /\ packed' = [packed EXCEPT ![n] = Absent]
    /\ deleting' = deleting \cup {n}
    /\ UNCHANGED <<loose, head, pruning>>
    /\ NoteValues

DeleteLoose(n) ==
    /\ Git("delete")
    /\ n \in deleting
    /\ loose' = [loose EXCEPT ![n] = Absent]
    /\ deleting' = deleting \ {n}
    /\ UNCHANGED <<packed, head, pruning>>
    /\ NoteValues

GitStep ==
    \/ \E n \in Name, o \in Oid : Update(n, o)
    \/ \E to \in Name \cup Oid : Switch(to)
    \/ \E n \in Name : PruneLoose(n) \/ DeletePacked(n) \/ DeleteLoose(n)
    \/ PackRefs

Next == Plugin \/ GitStep
Spec == Init /\ [][Next]_vars
----------------------------------------------------------------------------
TypeOK ==
    /\ loose \in [Name -> Oid \cup {Absent, Symbolic}]
    /\ packed \in [Name -> Oid \cup {Absent}]
    /\ head \in Heads
    /\ pruning \subseteq Name /\ deleting \subseteq Name
    /\ gitSteps \in 0..MaxGit
    /\ phase \in {"list", "packed", "loose", "head", "done"}
    /\ unread \subseteq Name
    /\ refs \in [Name -> Oid \cup {Absent}]
    /\ headRead \in [kind : {"none", "detached", "branch", "unborn"}, name : Heads]
    /\ held \in [Name -> SUBSET (Oid \cup {Absent, Symbolic})]
    /\ settled \subseteq Name
    /\ disturbed \in BOOLEAN

(***************************************************************************)
(* As long as git only moves and creates refs and switches HEAD, the read  *)
(* is regular: every ref is reported at a value it had during the read,    *)
(* and one that is not reported did not exist at some time during it.  A   *)
(* ref that is symbolic throughout is the exception: ReadLoose passes it   *)
(* over, so it is left out, or reported at the packed line it shadows.     *)
(***************************************************************************)
Regular ==
    phase \in {"head", "done"} /\ ~disturbed =>
        \A n \in Name : \/ refs[n] \in held[n]
                       \/ (held[n] = {Symbolic} /\ refs[n] \in {Absent, packed[n]})

(***************************************************************************)
(* Whatever git does meanwhile, packing and deleting included, a ref that  *)
(* did not move during the read is reported at its value if its packed     *)
(* line was current when the read began: a race with git can lose or age   *)
(* only a ref whose latest value was loose.                                *)
(***************************************************************************)
SettledReported ==
    phase = "done" =>
        \A n \in settled : \A o \in Oid : held[n] = {o} => refs[n] = o

(***************************************************************************)
(* As long as git neither packs nor deletes, HEAD is reported unborn only  *)
(* if the branch it names did not exist at some time during the read (a    *)
(* switch to a branch made a moment ago).  The exception is a branch that  *)
(* is a symbolic ref throughout: read_refs leaves it out, so read_head     *)
(* takes it for one that is not there, although it exists.  The doc of     *)
(* Head::Unborn (refs.rs:17), "`HEAD` names a branch that does not exist   *)
(* yet", does not provide for that.                                        *)
(***************************************************************************)
UnbornIsHonest ==
    headRead.kind = "unborn" /\ ~disturbed =>
        Absent \in held[headRead.name] \/ held[headRead.name] = {Symbolic}

(***************************************************************************)
(* As documented of read_refs (refs.rs:34): "Every ref, loose and packed,  *)
(* sorted by name with loose winning".  A ref that existed and did not     *)
(* move during the read is reported, at its value.                         *)
(***************************************************************************)
EveryStableRef ==
    phase = "done" =>
        \A n \in Name : \A o \in Oid : held[n] = {o} => refs[n] = o
=============================================================================
