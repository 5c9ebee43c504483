----------------------------- MODULE GitReflog -----------------------------
(***************************************************************************)
(* `find_rebases` of plugins/git/parser/src/reflog.rs against the git that *)
(* writes the log it reads.  Git (external) moves HEAD: it commits, starts *)
(* a rebase, replays a commit, lets the user commit while a rebase is      *)
(* stopped, finishes, aborts, or quits a rebase without a trace.  Each     *)
(* move appends one entry to HEAD's reflog, and the loop of find_rebases   *)
(* is the fold of that log by ScanEntry: the state reached after any       *)
(* prefix is what a read at that moment returns.                           *)
(*                                                                         *)
(* Abstractions.  A reflog message is the word that classify tells apart;  *)
(* times, subjects and the interactive flag are left out.  A commit that   *)
(* git writes is the next number.  `rebase` in a run is history: which     *)
(* rebase the entry came from, for the properties alone.                   *)
(***************************************************************************)
EXTENDS Naturals, Sequences

CONSTANTS
    Branch,     \* local branches
    NoRef,      \* the empty refname: HEAD is detached, or nothing was named
    NoOid,      \* the empty oid of a field never filled
    Acts,       \* which of "stop", "abort", "quit", "expire", "detach" occur
    MaxEntries  \* a bound on the entries of HEAD's reflog

ASSUME RefAssumption == NoRef \notin Branch
ASSUME OidAssumption == NoOid \notin Nat

VARIABLES
    \* git
    at,         \* the branch HEAD is on, or NoRef
    head,       \* the commit HEAD is at
    fresh,      \* the next commit git writes
    rebases,    \* every rebase git has run, in order
    branchLog,  \* per branch: the oids its own log's rebase entries moved it to
    entries,    \* how many entries HEAD's log has
    \* find_rebases
    runs,       \* the rebases closed so far
    current     \* the run in progress, a sequence of at most one

gitVars == <<at, head, fresh, rebases, branchLog, entries>>
vars == <<gitVars, runs, current>>
----------------------------------------------------------------------------
(* The parser. *)

EmptyRun == [ref |-> NoRef, onto |-> NoOid, replaced |-> NoOid, result |-> NoOid,
             produced |-> <<>>, completed |-> FALSE, rebase |-> Len(rebases)]

(***************************************************************************)
(* `classify`, over the messages git writes.  The old backend's `rebase:   *)
(* checkout` and `rebase finished` are a start and a finish; whatever else *)
(* starts with `rebase` is a step.                                         *)
(***************************************************************************)
OpOf(message) ==
    CASE message \in {"rebase (start)", "rebase: checkout"} -> "start"
      [] message \in {"rebase (finish)", "rebase finished"} -> "finish"
      [] message \in {"rebase (pick)", "rebase: pick", "rebase (abort)"} -> "step"
      [] OTHER -> "none"

CloseForgets == runs
Close == runs \o current

Opened(e) == [EmptyRun EXCEPT !.onto = e.new, !.replaced = e.old, !.rebase = e.rebase]
StartJoins(e) ==
    /\ runs' = runs
    /\ current' = IF current = <<>> THEN <<Opened(e)>> ELSE current
Start(e) == runs' = Close /\ current' = <<Opened(e)>>

FinishedOf(run, e) ==
    [run EXCEPT !.ref = e.ref, !.result = e.new, !.completed = TRUE, !.rebase = e.rebase]
FinishNeedsStart(e) ==
    /\ runs' = IF current = <<>> THEN runs ELSE Append(runs, FinishedOf(current[1], e))
    /\ current' = <<>>
Finish(e) ==
    /\ runs' = Append(runs, FinishedOf(IF current = <<>> THEN EmptyRun ELSE current[1], e))
    /\ current' = <<>>

Step(e) ==
    /\ runs' = runs
    /\ current' = IF current = <<>> THEN <<>>
                  ELSE <<[current[1] EXCEPT !.produced = Append(@, e.new)]>>

(* An entry that is no rebase's ends an unfinished run. *)
Other == runs' = Close /\ current' = <<>>

ScanEntry(e) ==
    CASE OpOf(e.message) = "start" -> Start(e)
      [] OpOf(e.message) = "finish" -> Finish(e)
      [] OpOf(e.message) = "step" -> Step(e)
      [] OpOf(e.message) = "none" -> Other

(* A finish that named no branch: the ref whose own log made this move. *)
Resolve(run) ==
    LET moved == {b \in Branch : run.result \in branchLog[b]}
    IN  IF run.ref # NoRef \/ run.result = NoOid \/ moved = {} THEN run
        ELSE [run EXCEPT !.ref = CHOOSE b \in moved : TRUE]

(* What find_rebases returns when the log is read now. *)
Found == [i \in DOMAIN Close |-> Resolve(Close[i])]
----------------------------------------------------------------------------
(* Git. *)
Going == rebases # <<>> /\ rebases[Len(rebases)].state = "going"
Latest == Len(rebases)

Rebase(onto, replaced, start) ==
    [branch |-> at, onto |-> onto, replaced |-> replaced, result |-> NoOid,
     produced |-> <<>>, state |-> "going", interrupted |-> FALSE, start |-> start]

Init ==
    /\ at \in Branch
    /\ head = 1 /\ fresh = 2
    /\ branchLog = [b \in Branch |-> {}]
    /\ entries = 0
    /\ \/ rebases = <<>>
       \/ "expire" \in Acts /\ rebases = <<Rebase(NoOid, NoOid, "expired")>>
    /\ runs = <<>> /\ current = <<>>

(* One move of HEAD, one entry of its reflog. *)
Move(message, new, ref, rebase) ==
    /\ entries < MaxEntries
    /\ entries' = entries + 1
    /\ head' = new
    /\ ScanEntry([message |-> message, old |-> head, new |-> new, ref |-> ref,
                  rebase |-> rebase])

Commit ==
    /\ ~Going
    /\ Move("commit", fresh, NoRef, 0)
    /\ fresh' = fresh + 1
    /\ UNCHANGED <<at, rebases, branchLog>>

Checkout(b, c) ==
    /\ ~Going
    /\ b = NoRef => "detach" \in Acts
    /\ at' = b
    /\ Move("checkout", c, NoRef, 0)
    /\ UNCHANGED <<fresh, rebases, branchLog>>

StartRebase(onto, message) ==
    /\ ~Going
    /\ onto # head
    /\ rebases' = Append(rebases, Rebase(onto, head, "logged"))
    /\ Move(message, onto, NoRef, Latest + 1)
    /\ UNCHANGED <<at, fresh, branchLog>>

Pick(message) ==
    /\ Going
    /\ Move(message, fresh, NoRef, Latest)
    /\ rebases' = [rebases EXCEPT ![Latest].produced = Append(@, fresh)]
    /\ fresh' = fresh + 1
    /\ UNCHANGED <<at, branchLog>>

(* The user commits, or amends, while the rebase is stopped. *)
CommitWhileStopped ==
    /\ "stop" \in Acts /\ Going
    /\ Move("commit", fresh, NoRef, Latest)
    /\ rebases' = [rebases EXCEPT ![Latest].interrupted = TRUE]
    /\ fresh' = fresh + 1
    /\ UNCHANGED <<at, branchLog>>

FinishRebase(message) ==
    /\ Going
    /\ Move(message, head, at, Latest)
    /\ rebases' = [rebases EXCEPT ![Latest].result = head, ![Latest].state = "finished"]
    /\ branchLog' = [b \in Branch |-> branchLog[b] \cup (IF b = at THEN {head} ELSE {})]
    /\ UNCHANGED <<at, fresh>>

Abort ==
    /\ "abort" \in Acts /\ Going /\ rebases[Latest].start = "logged"
    /\ Move("rebase (abort)", rebases[Latest].replaced, NoRef, Latest)
    /\ rebases' = [rebases EXCEPT ![Latest].state = "aborted"]
    /\ UNCHANGED <<at, fresh, branchLog>>

(* `git rebase --quit` leaves HEAD where it is, detached, and logs nothing. *)
Quit ==
    /\ "quit" \in Acts /\ Going
    /\ rebases' = [rebases EXCEPT ![Latest].state = "quit"]
    /\ at' = NoRef
    /\ UNCHANGED <<head, fresh, branchLog, entries, runs, current>>

Next ==
    \/ Commit
    \/ \E b \in Branch \cup {NoRef}, c \in 1..(fresh - 1) : Checkout(b, c)
    \/ \E onto \in 1..(fresh - 1), m \in {"rebase (start)", "rebase: checkout"} : StartRebase(onto, m)
    \/ \E m \in {"rebase (pick)", "rebase: pick"} : Pick(m)
    \/ CommitWhileStopped
    \/ \E m \in {"rebase (finish)", "rebase finished"} : FinishRebase(m)
    \/ Abort
    \/ Quit

Spec == Init /\ [][Next]_vars
----------------------------------------------------------------------------
(***************************************************************************)
(* A rebase that is neither aborted nor interrupted by the user's own      *)
(* commit is read back exactly, whatever happened to the others: one run,  *)
(* in its place, with what it was based on, replaced, wrote and ended on,  *)
(* finished, quit or still going.  Of one whose start has expired only the *)
(* finish is found.  A rebase on a detached HEAD may be given the branch   *)
(* one of whose rebases ended on the same commit (see Resolve).            *)
(***************************************************************************)
Traced(i) == rebases[i].start = "logged" \/ rebases[i].state = "finished"
Plain(i) == rebases[i].state # "aborted" /\ ~rebases[i].interrupted
RunsOf(i) == {j \in DOMAIN Found : Found[j].rebase = i}
Expected(i, ref) ==
    LET r == rebases[i]
    IN  [ref |-> ref, onto |-> r.onto, replaced |-> r.replaced, result |-> r.result,
         produced |-> IF r.start = "logged" THEN r.produced ELSE <<>>,
         completed |-> r.state = "finished", rebase |-> i]
Attributed(i) ==
    LET r == rebases[i]
    IN  IF r.state # "finished" THEN {NoRef}
        ELSE IF r.branch # NoRef THEN {r.branch}
        ELSE {NoRef} \cup {b \in Branch : r.result \in branchLog[b]}
FoundIsWhatHappened ==
    /\ \A i \in DOMAIN rebases :
          Traced(i) /\ Plain(i) =>
              \E j \in RunsOf(i), ref \in Attributed(i) :
                  RunsOf(i) = {j} /\ Found[j] = Expected(i, ref)
    /\ \A j, k \in DOMAIN Found : j < k => Found[j].rebase <= Found[k].rebase

(***************************************************************************)
(* Whatever the user does in between, every rebase that finished gives     *)
(* exactly one completed run, with the branch and the tip it ended on.     *)
(***************************************************************************)
FinishedReported ==
    \A i \in DOMAIN rebases :
        LET mine == {j \in DOMAIN Close : Close[j].completed /\ Close[j].rebase = i}
        IN  IF rebases[i].state = "finished"
            THEN \E j \in mine : /\ mine = {j}
                                 /\ Close[j].result = rebases[i].result
                                 /\ Close[j].ref = rebases[i].branch
            ELSE mine = {}

(***************************************************************************)
(* Whatever the user does in between, no run lists under one rebase what   *)
(* another wrote: the steps of a run were all written by its rebase, or    *)
(* are where its abort returned to.                                        *)
(***************************************************************************)
StepsApart ==
    \A j \in DOMAIN Close : \A k \in DOMAIN Close[j].produced :
        LET r == rebases[Close[j].rebase]
            o == Close[j].produced[k]
        IN  \/ \E i \in DOMAIN r.produced : r.produced[i] = o
            \/ r.state = "aborted" /\ o = r.replaced
=============================================================================
