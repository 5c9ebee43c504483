---------------------------- MODULE MCGitHistory ----------------------------
(***************************************************************************)
(* Small repositories for GitHistory: three commits 1..3, tag objects 11   *)
(* and 12, a branch, a remote-tracking branch, a tag and a stash, reflogs  *)
(* of HEAD and of the remote branch, and rebases that share a second.      *)
(***************************************************************************)
EXTENDS GitHistory

Commit == 1..3
MCOid == Commit \cup {11, 12}

Line == [c \in MCOid |-> IF c \in 2..3 THEN <<c - 1>> ELSE <<>>]
Merge == [c \in MCOid |-> IF c = 3 THEN <<2, 1>> ELSE <<>>]
Fork == [c \in MCOid |-> IF c \in 2..3 THEN <<1>> ELSE <<>>]
MCHistories == {Line, Merge, Fork}

MCDates == {[c \in MCOid |-> c], [c \in MCOid |-> IF c = 1 THEN 5 ELSE 1]}
MCStores == {Commit} \cup {Commit \ {c} : c \in Commit}

Ref(kind, oid, peeled) == [kind |-> kind, oid |-> oid, peeled |-> peeled]
main(c) == Ref("heads", c, None)
RefSets ==
    LET remote == Ref("remotes", 2, None)
        tags == {Ref("tags", 3, None), Ref("tags", 11, None), Ref("tags", 11, 1)}
    IN  {[n \in {"main"} |-> main(c)] : c \in Commit}
          \cup {[n \in {"main", "origin", "v1"} |->
                    CASE n = "main" -> main(1) [] n = "origin" -> remote [] OTHER -> t] : t \in tags}

(* Tag object 11 names tag object 12, which names commit 2; 12 may be gone. *)
TagObjects == {[t \in {11, 12} |-> IF t = 11 THEN 12 ELSE 2], [t \in {11} |-> 12]}

Run(ref, at, onto, replaced, result, produced) ==
    [ref |-> ref, at |-> at, onto |-> onto, replaced |-> replaced,
     result |-> result, produced |-> produced]
MCRuns ==
    { <<>>,
      <<Run("main", 7, 1, 2, 3, <<2, 3>>)>>,
      <<Run("main", 7, 1, 2, 3, <<3>>), Run("main", 7, None, None, 2, <<>>),
        Run("v1", 7, 1, 1, 2, <<2>>)>> }

(* HEAD's reflog names what the rebases read from it name. *)
Logs(runs) ==
    [l \in {"HEAD", "origin"} |->
        IF l = "HEAD"
        THEN {0} \cup UNION {{end[2] : end \in NamedEnds(runs[r])} : r \in DOMAIN runs}
        ELSE {2}]

MCWorlds ==
    UNION {[refs : RefSets, tagObjects : TagObjects, detached : {{}, {3}},
            logs : {Logs(runs)}, runs : {runs}] : runs \in MCRuns}

MCSettings == {[tags |-> t, remotes |-> r, reflog |-> g] :
                  t \in BOOLEAN, r \in BOOLEAN, g \in BOOLEAN}
MCTipSets == [refs : SUBSET MCOid, logs : SUBSET (MCOid \cup {Zero})]
=============================================================================
