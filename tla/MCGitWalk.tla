----------------------------- MODULE MCGitWalk -----------------------------
(***************************************************************************)
(* Small repositories for GitWalk.  A commit's name is a number and its    *)
(* parents have smaller numbers (a commit cannot name itself through a     *)
(* hash), so every acyclic graph of at most two parents per commit occurs. *)
(***************************************************************************)
EXTENDS GitWalk, SequencesExt

CONSTANTS N, MaxDate

MCOid == 1..N

MCHistories ==
    LET upto(c) == {s \in UNION {SUBSET (1..(c - 1))} : Cardinality(s) <= 2}
        sets == {f \in [MCOid -> SUBSET MCOid] : \A c \in MCOid : f[c] \in upto(c)}
    IN  {[c \in MCOid |-> SetToSortSeq(f[c], <)] : f \in sets}

MCDates == [MCOid -> 1..MaxDate]

(* Every commit is held, or one of them is not: a shallow clone, or a gc. *)
MCStores == {MCOid} \cup {MCOid \ {c} : c \in MCOid}
FullStore == {MCOid}

MCTipSets ==
    {t \in [refs : SUBSET MCOid, logs : SUBSET (MCOid \cup {Zero})] :
        /\ t.refs \cap t.logs = {}
        /\ Cardinality(t.refs) <= 2 /\ Cardinality(t.logs) <= 2}
=============================================================================
