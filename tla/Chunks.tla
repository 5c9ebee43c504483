------------------------------- MODULE Chunks -------------------------------
(***************************************************************************)
(* A plugin behind the contract (wit/preprocess.wit).  The host routes a   *)
(* tree to it and splits the files into chunks; each chunk is parsed by an *)
(* instance of its own that shares nothing with the others, in any         *)
(* interleaving; one instance assembles the partials, in chunk order.      *)
(* What a file contributes, and what is made of the whole, is the          *)
(* plugin's; that partials are put one behind the other is theirs all.     *)
(***************************************************************************)
EXTENDS Naturals, Sequences, FiniteSets, SequencesExt

CONSTANTS
    Tree,               \* [plugin, files]: what the host may route to a plugin
    PartsOf(_),         \* what a plugin's partial is made of
    FindIn(_, _),       \* what `parse` finds in a file
    ResolveAll(_, _),   \* the answer `assemble` makes of all that was found
    Pending             \* no answer yet

VARIABLES
    input,      \* the plugin, and its files in the order the host listed them
    parsing,    \* of each chunk: the files left to read, and what was found
    merged,     \* how many partials assemble has merged
    all,        \* what it has merged
    out         \* the answer

vars == <<input, parsing, merged, all, out>>

Facts == INSTANCE FactGraph

(* A list of files, each of which gives a partial of the plugin's type.    *)
ASSUME TreeAssumption == \A t \in Tree : Facts!IsRow(t.files)
ASSUME ReadAssumption ==
    \A t \in Tree : \A i \in DOMAIN t.files : Facts!IsPartial(PartsOf(t.plugin), FindIn(t.plugin, t.files[i]))
----------------------------------------------------------------------------
(* Every way to cut a list into pieces, none of them empty.  A cut is the  *)
(* number of files ahead of it.                                            *)
Cuts(n, length) ==
    {at \in [0..n -> 0..length] : at[0] = 0 /\ at[n] = length /\ \A c \in 1..n : at[c - 1] < at[c]}
Pieces(seq, n, at) == [c \in 1..n |-> SubSeq(seq, at[c - 1] + 1, at[c])]

Nothing == Facts!Blank(PartsOf(input.plugin))

Init ==
    /\ input \in Tree
    /\ \E n \in 0..Len(input.files) : \E at \in Cuts(n, Len(input.files)) :
          LET chunks == Pieces(input.files, n, at) IN
          parsing = [c \in 1..n |-> [left |-> chunks[c], found |-> Nothing]]
    /\ merged = 0 /\ all = Nothing /\ out = Pending

(* `parse` (`process` behind it) reads the next file of its chunk.         *)
ParseFile(c) ==
    /\ parsing[c].left # <<>>
    /\ parsing' = [parsing EXCEPT ![c] =
          [left |-> Tail(@.left), found |-> Facts!JoinPartials(@.found, FindIn(input.plugin, Head(@.left)))]]
    /\ UNCHANGED <<input, merged, all, out>>

(* `assemble` merges the next partial, and answers when it has merged all. *)
AllParsed == \A c \in DOMAIN parsing : parsing[c].left = <<>>
MergePartialBefore ==
    /\ AllParsed /\ merged < Len(parsing)
    /\ merged' = merged + 1
    /\ all' = Facts!JoinPartials(parsing[merged + 1].found, all)
    /\ UNCHANGED <<input, parsing, out>>
MergePartial ==
    /\ AllParsed /\ merged < Len(parsing)
    /\ merged' = merged + 1
    /\ all' = Facts!JoinPartials(all, parsing[merged + 1].found)
    /\ UNCHANGED <<input, parsing, out>>

Assembled ==
    /\ merged = Len(parsing) /\ out = Pending
    /\ out' = ResolveAll(input.plugin, all)
    /\ UNCHANGED <<input, parsing, merged, all>>

Next == MergePartial \/ Assembled \/ \E c \in DOMAIN parsing : ParseFile(c)
Spec == Init /\ [][Next]_vars
----------------------------------------------------------------------------
(* The answer if the whole tree were one chunk and one instance read it.   *)
Whole(plugin, files) ==
    FoldLeft(LAMBDA c, file : Facts!JoinPartials(c, FindIn(plugin, file)), Facts!Blank(PartsOf(plugin)), files)
AnswerTo(tree) == ResolveAll(tree.plugin, Whole(tree.plugin, tree.files))
Contract == INSTANCE OneShot WITH Input <- Tree

(***************************************************************************)
(* "The result must not depend on where the chunk boundaries fell"         *)
(* (wit/preprocess.wit:156), nor on how the chunks interleaved.            *)
(***************************************************************************)
Answers == Contract!Spec
=============================================================================
