-------------------------- MODULE GitReflogProofs ---------------------------
(***************************************************************************)
(* Proofs about GitReflog for any number of branches, commits, entries and *)
(* rebases, and any of the things a user may do while one is stopped: what *)
(* find_rebases reads back is what git did.                                *)
(*                                                                         *)
(* The argument.  A run in progress is always of the latest rebase, since  *)
(* whatever starts the next one closes it (Placed); so a step is entered   *)
(* where it belongs (Own), a finish completes one run of its own rebase    *)
(* (Completions), and a rebase nobody interfered with has one run (Traces). *)
(***************************************************************************)
EXTENDS GitReflog, TLAPS

Ref == Branch \cup {NoRef}
OptOid == Nat \cup {NoOid}
RebaseRecord ==
    [branch : Ref, onto : OptOid, replaced : OptOid, result : OptOid,
     produced : Seq(OptOid), state : {"going", "finished", "aborted", "quit"},
     interrupted : BOOLEAN, start : {"logged", "expired"}]
Run ==
    [ref : Ref, onto : OptOid, replaced : OptOid, result : OptOid,
     produced : Seq(OptOid), completed : BOOLEAN, rebase : Nat]

Typed ==
    /\ at \in Ref /\ head \in OptOid /\ fresh \in Nat
    /\ rebases \in Seq(RebaseRecord) /\ runs \in Seq(Run)
    /\ current = <<>> \/ \E c \in Run : current = <<c>>

(* The runs are of rebases that were, in their order, the one in progress  *)
(* of the latest.                                                          *)
Placed ==
    /\ \A j \in DOMAIN runs : runs[j].rebase \in DOMAIN rebases
    /\ \A j, k \in DOMAIN runs : j < k => runs[j].rebase <= runs[k].rebase
    /\ \A i \in DOMAIN rebases : rebases[i].state = "going" => i = Latest
    /\ Going => rebases[Latest].branch = at
    /\ current # <<>> =>
         /\ Latest \in DOMAIN rebases /\ current[1].rebase = Latest
         /\ ~current[1].completed /\ rebases[Latest].state # "finished"

(* The steps of a run were written by its rebase, or by its abort.         *)
Wrote(run, rs) ==
    \A k \in DOMAIN run.produced :
        LET r == rs[run.rebase]
            o == run.produced[k]
        IN  \/ \E i \in DOMAIN r.produced : r.produced[i] = o
            \/ r.state = "aborted" /\ o = r.replaced
Own ==
    /\ \A j \in DOMAIN runs : Wrote(runs[j], rebases)
    /\ current # <<>> => Wrote(current[1], rebases)

(* One completed run for each rebase that finished, none for another.      *)
Completes(j, i) == runs[j].completed /\ runs[j].rebase = i
Completions ==
    \A i \in DOMAIN rebases :
        /\ \A j \in DOMAIN runs : Completes(j, i) =>
             /\ rebases[i].state = "finished"
             /\ runs[j].result = rebases[i].result /\ runs[j].ref = rebases[i].branch
        /\ rebases[i].state = "finished" =>
             \E j \in DOMAIN runs :
                Completes(j, i) /\ \A k \in DOMAIN runs : Completes(k, i) => k = j

(* A rebase nobody interfered with has one run, here in progress or there  *)
(* among those closed, with all that it did.                               *)
RawOf(r, i) ==
    [ref |-> IF r.state = "finished" THEN r.branch ELSE NoRef, onto |-> r.onto,
     replaced |-> r.replaced, result |-> r.result,
     produced |-> IF r.start = "logged" THEN r.produced ELSE <<>>,
     completed |-> r.state = "finished", rebase |-> i]
NoneOf(i) == \A j \in DOMAIN runs : runs[j].rebase # i
Here(i, r) == current # <<>> /\ current[1] = RawOf(r, i) /\ NoneOf(i)
There(i, r) ==
    /\ current # <<>> => i # Latest
    /\ \E n \in DOMAIN runs :
          runs[n] = RawOf(r, i) /\ \A k \in DOMAIN runs : runs[k].rebase = i => k = n
Trace(i, r) ==
    /\ r.state # "finished" => r.result = NoOid
    /\ r.start = "expired" => r.onto = NoOid /\ r.replaced = NoOid
    /\ r.state = "going" /\ ~r.interrupted =>
         NoneOf(i) /\ (r.start = "expired" => current = <<>>)
    /\ (r.start = "logged" \/ r.state = "finished") /\ r.state # "aborted" /\ ~r.interrupted =>
         Here(i, r) \/ There(i, r)
Traces == \A i \in DOMAIN rebases : Trace(i, rebases[i])
----------------------------------------------------------------------------
(* A run in progress is closed by being put last. *)
LEMMA CloseIs ==
    ASSUME Typed
    PROVE  /\ Close \in Seq(Run)
           /\ \/ current = <<>> /\ Close = runs
              \/ \E c \in Run : current = <<c>> /\ current # <<>> /\ Close = Append(runs, c)
<1>1. CASE current = <<>>
  <2>1. Close = runs /\ runs \in Seq(Run)
    BY <1>1 DEF Typed, Close
  <2> QED BY <1>1, <2>1
<1>2. ASSUME NEW c \in Run, current = <<c>>
      PROVE  Close = Append(runs, c) /\ Close \in Seq(Run) /\ current # <<>>
  <2>1. Close = runs \o <<c>> /\ runs \in Seq(Run)
    BY <1>2 DEF Close, Typed
  <2>2. runs \o <<c>> = Append(runs, c) /\ Append(runs, c) \in Seq(Run)
    BY <2>1
  <2>3. <<c>> # <<>>
    OBVIOUS
  <2> QED BY <1>2, <2>1, <2>2, <2>3
<1> QED BY <1>1, <1>2 DEF Typed

(* The latest rebase, when one is going. *)
LEMMA GoingIs ==
    ASSUME Typed, Going
    PROVE  /\ Latest \in DOMAIN rebases /\ DOMAIN rebases = 1..Latest /\ Latest \in Nat
           /\ rebases[Latest] \in RebaseRecord /\ rebases[Latest].state = "going"
BY DEF Typed, Going, Latest

(* What git does to its rebases and the loop to its runs, step by step.    *)
Closing == runs' = Close /\ current' = <<>>
Stepping(o) ==
    /\ runs' = runs
    /\ current' = IF current = <<>> THEN <<>>
                  ELSE <<[current[1] EXCEPT !.produced = Append(@, o)]>>
Amended(r) == rebases' = [rebases EXCEPT ![Latest] = r]
WithStep(r, o) == [r EXCEPT !.produced = Append(@, o)]
Opening(r) ==
    [EmptyRun EXCEPT !.onto = r.onto, !.replaced = r.replaced, !.rebase = Latest + 1]
Completed(r) ==
    LET run == IF current = <<>> THEN EmptyRun ELSE current[1]
    IN  [run EXCEPT !.ref = at, !.result = r.result, !.completed = TRUE, !.rebase = Latest]

LEMMA EmptySeq == \A S : <<>> \in Seq(S)
OBVIOUS

LEMMA CommitDoes ==
    ASSUME Commit \/ \E b \in Ref, c \in 1..(fresh - 1) : Checkout(b, c)
    PROVE  rebases' = rebases /\ Closing
<1>1. CASE Commit
  <2> DEFINE e == [message |-> "commit", old |-> head, new |-> fresh, ref |-> NoRef, rebase |-> 0]
  <2>1. ScanEntry(e) /\ rebases' = rebases /\ e.message = "commit"
    BY <1>1 DEF Commit, Move
  <2> QED BY <2>1 DEF ScanEntry, OpOf, Other, Closing
<1>2. ASSUME NEW b \in Ref, NEW c \in 1..(fresh - 1), Checkout(b, c)
      PROVE  rebases' = rebases /\ Closing
  <2> DEFINE e == [message |-> "checkout", old |-> head, new |-> c, ref |-> NoRef, rebase |-> 0]
  <2>1. ScanEntry(e) /\ rebases' = rebases /\ e.message = "checkout"
    BY <1>2 DEF Checkout, Move
  <2> QED BY <2>1 DEF ScanEntry, OpOf, Other, Closing
<1> QED BY <1>1, <1>2

LEMMA StartDoes ==
    ASSUME Typed, NEW onto \in Nat, NEW m \in {"rebase (start)", "rebase: checkout"},
           StartRebase(onto, m)
    PROVE  \E r \in RebaseRecord :
              /\ r.state = "going" /\ r.start = "logged" /\ ~r.interrupted
              /\ r.produced = <<>> /\ r.result = NoOid /\ r.branch = at
              /\ ~Going /\ rebases' = Append(rebases, r)
              /\ runs' = Close /\ current' = <<Opening(r)>>
<1> DEFINE r == Rebase(onto, head, "logged")
<1>1. r \in RebaseRecord
  BY EmptySeq DEF Typed, Rebase, RebaseRecord, OptOid
<1>2. runs' = Close /\ current' = <<Opening(r)>>
  <2> DEFINE e == [message |-> m, old |-> head, new |-> onto, ref |-> NoRef, rebase |-> Latest + 1]
  <2>1. ScanEntry(e) /\ e.message \in {"rebase (start)", "rebase: checkout"}
    BY DEF StartRebase, Move
  <2>2. runs' = Close /\ current' = <<Opened(e)>>
    BY <2>1 DEF ScanEntry, OpOf, Start
  <2>3. /\ e.new = onto /\ e.old = head /\ e.rebase = Latest + 1
        /\ r.onto = onto /\ r.replaced = head
    BY DEF Rebase
  <2>4. Opened(e) = Opening(r)
    BY <2>3 DEF Opened, Opening
  <2> QED BY <2>2, <2>4
<1> QED BY <1>1, <1>2 DEF StartRebase, Rebase

LEMMA PickDoes ==
    ASSUME Typed, NEW m \in {"rebase (pick)", "rebase: pick"}, Pick(m)
    PROVE  Going /\ Amended(WithStep(rebases[Latest], fresh)) /\ Stepping(fresh)
<1>1. Going /\ Stepping(fresh)
  <2> DEFINE e == [message |-> m, old |-> head, new |-> fresh, ref |-> NoRef, rebase |-> Latest]
  <2>1. ScanEntry(e) /\ e.message \in {"rebase (pick)", "rebase: pick"} /\ e.new = fresh /\ Going
    BY DEF Pick, Move
  <2> QED BY <2>1 DEF ScanEntry, OpOf, Step, Stepping
<1>2. Amended(WithStep(rebases[Latest], fresh))
  BY <1>1, GoingIs DEF Pick, Amended, WithStep, Typed
<1> QED BY <1>1, <1>2

LEMMA AbortDoes ==
    ASSUME Typed, Abort
    PROVE  /\ Going /\ Amended([rebases[Latest] EXCEPT !.state = "aborted"])
           /\ Stepping(rebases[Latest].replaced)
<1>1. Going /\ Stepping(rebases[Latest].replaced)
  <2> DEFINE e == [message |-> "rebase (abort)", old |-> head, new |-> rebases[Latest].replaced,
                   ref |-> NoRef, rebase |-> Latest]
  <2>1. /\ ScanEntry(e) /\ e.message = "rebase (abort)" /\ Going
        /\ e.new = rebases[Latest].replaced
    BY DEF Abort, Move
  <2> QED BY <2>1 DEF ScanEntry, OpOf, Step, Stepping
<1> QED BY <1>1, GoingIs DEF Abort, Amended, Typed

LEMMA QuitDoes ==
    ASSUME Typed, Quit
    PROVE  /\ Going /\ Amended([rebases[Latest] EXCEPT !.state = "quit"])
           /\ UNCHANGED <<runs, current>>
BY GoingIs DEF Quit, Amended, Typed

LEMMA StoppedDoes ==
    ASSUME Typed, CommitWhileStopped
    PROVE  Going /\ Amended([rebases[Latest] EXCEPT !.interrupted = TRUE]) /\ Closing
<1>1. Going /\ Closing
  <2> DEFINE e == [message |-> "commit", old |-> head, new |-> fresh, ref |-> NoRef, rebase |-> Latest]
  <2>1. ScanEntry(e) /\ e.message = "commit" /\ Going
    BY DEF CommitWhileStopped, Move
  <2> QED BY <2>1 DEF ScanEntry, OpOf, Other, Closing
<1> QED BY <1>1, GoingIs DEF CommitWhileStopped, Amended, Typed

LEMMA FinishDoes ==
    ASSUME Typed, NEW m \in {"rebase (finish)", "rebase finished"}, FinishRebase(m)
    PROVE  \E r \in RebaseRecord :
              /\ Going /\ Amended(r)
              /\ r = [rebases[Latest] EXCEPT !.result = head, !.state = "finished"]
              /\ runs' = Append(runs, Completed(r)) /\ current' = <<>>
<1> DEFINE r == [rebases[Latest] EXCEPT !.result = head, !.state = "finished"]
<1>1. Going /\ rebases[Latest] \in RebaseRecord
  BY GoingIs DEF FinishRebase
<1>2. r \in RebaseRecord
  BY <1>1 DEF RebaseRecord, Typed
<1>3. Amended(r)
  BY <1>1, GoingIs DEF FinishRebase, Amended, Typed
<1>4. Finish([message |-> m, old |-> head, new |-> head, ref |-> at, rebase |-> Latest])
  <2> DEFINE e == [message |-> m, old |-> head, new |-> head, ref |-> at, rebase |-> Latest]
  <2>1. ScanEntry(e) /\ e.message \in {"rebase (finish)", "rebase finished"}
    BY DEF FinishRebase, Move
  <2>2. Finish(e)
    BY <2>1 DEF ScanEntry, OpOf
  <2> QED BY <2>2
<1>5. runs' = Append(runs, Completed(r)) /\ current' = <<>>
  BY <1>1, <1>4 DEF Finish, FinishedOf, Completed, EmptyRun, RebaseRecord
<1> QED BY <1>1, <1>2, <1>3, <1>5
----------------------------------------------------------------------------
(* A run or a rebase more, at the end. *)
LEMMA Appended ==
    ASSUME NEW S, NEW q \in Seq(S), NEW c \in S
    PROVE  LET p == Append(q, c)
           IN  /\ p \in Seq(S) /\ Len(q) \in Nat /\ Len(p) = Len(q) + 1
               /\ DOMAIN p = DOMAIN q \cup {Len(q) + 1}
               /\ \A j \in DOMAIN q : j \in Nat /\ j < Len(q) + 1 /\ p[j] = q[j]
               /\ p[Len(q) + 1] = c /\ Len(q) + 1 \notin DOMAIN q
OBVIOUS

(* The runs afterwards: the same, or one more. *)
Added(c) == runs' = Append(runs, c) /\ c \in Run
LEMMA ClosingAdds ==
    ASSUME Typed, runs' = Close
    PROVE  \/ current = <<>> /\ runs' = runs
           \/ \E c \in Run : current = <<c>> /\ Added(c)
BY CloseIs DEF Added

LEMMA AddedIs ==
    ASSUME Typed, NEW c, Added(c)
    PROVE  /\ runs' \in Seq(Run) /\ Len(runs) \in Nat
           /\ DOMAIN runs' = DOMAIN runs \cup {Len(runs) + 1}
           /\ \A j \in DOMAIN runs : j \in Nat /\ j < Len(runs) + 1 /\ runs'[j] = runs[j]
           /\ runs'[Len(runs) + 1] = c /\ Len(runs) + 1 \notin DOMAIN runs
BY Appended DEF Typed, Added

(* The rebases afterwards: the latest amended, or one more. *)
LEMMA AmendedIs ==
    ASSUME Typed, Going, NEW r \in RebaseRecord, Amended(r)
    PROVE  /\ rebases' \in Seq(RebaseRecord) /\ DOMAIN rebases' = DOMAIN rebases
           /\ Latest' = Latest /\ Latest \in DOMAIN rebases /\ rebases'[Latest] = r
           /\ \A i \in DOMAIN rebases : i # Latest => rebases'[i] = rebases[i]
BY GoingIs DEF Typed, Amended, Latest

LEMMA RunsTyped ==
    ASSUME Typed, NEW r \in RebaseRecord, NEW o \in OptOid
    PROVE  /\ EmptyRun \in Run /\ Opening(r) \in Run /\ Completed(r) \in Run
           /\ WithStep(r, o) \in RebaseRecord
<1>1. EmptyRun \in Run
  BY EmptySeq DEF Typed, EmptyRun, Run, Ref, OptOid
<1>2. Latest + 1 \in Nat /\ Latest \in Nat
  BY DEF Typed, Latest
<1>3. Opening(r) \in Run
  BY <1>1, <1>2 DEF Opening, Run, RebaseRecord
<1>4. Completed(r) \in Run
  <2>1. (IF current = <<>> THEN EmptyRun ELSE current[1]) \in Run
    BY <1>1 DEF Typed
  <2> QED BY <1>2, <2>1 DEF Completed, Run, RebaseRecord, Typed
<1>5. \A q \in Seq(OptOid) : Append(q, o) \in Seq(OptOid)
  OBVIOUS
<1>6. WithStep(r, o) \in RebaseRecord
  BY <1>5 DEF WithStep, RebaseRecord
<1> QED BY <1>1, <1>3, <1>4, <1>6

LEMMA SteppedTyped ==
    ASSUME NEW c \in Run, NEW o \in OptOid
    PROVE  [c EXCEPT !.produced = Append(@, o)] \in Run
<1>1. \A q \in Seq(OptOid) : Append(q, o) \in Seq(OptOid)
  OBVIOUS
<1> QED BY <1>1 DEF Run

(* A commit's number is an oid, and the branch HEAD is on a ref. *)
LEMMA GitTyped ==
    ASSUME Typed, Next
    PROVE  at' \in Ref /\ head' \in OptOid /\ fresh' \in Nat
<1> USE DEF Typed, OptOid, Ref
<1>1. CASE Commit
  BY <1>1 DEF Commit, Move
<1>2. ASSUME NEW b \in Branch \cup {NoRef}, NEW c \in 1..(fresh - 1), Checkout(b, c)
      PROVE  at' \in Ref /\ head' \in OptOid /\ fresh' \in Nat
  BY <1>2 DEF Checkout, Move
<1>3. ASSUME NEW onto \in 1..(fresh - 1), NEW m, StartRebase(onto, m)
      PROVE  at' \in Ref /\ head' \in OptOid /\ fresh' \in Nat
  BY <1>3 DEF StartRebase, Move
<1>4. ASSUME NEW m, Pick(m) PROVE at' \in Ref /\ head' \in OptOid /\ fresh' \in Nat
  BY <1>4 DEF Pick, Move
<1>5. CASE CommitWhileStopped
  BY <1>5 DEF CommitWhileStopped, Move
<1>6. ASSUME NEW m, FinishRebase(m) PROVE at' \in Ref /\ head' \in OptOid /\ fresh' \in Nat
  BY <1>6 DEF FinishRebase, Move
<1>7. CASE Abort
  <2>1. rebases[Latest].replaced \in OptOid
    BY <1>7, GoingIs DEF Abort, RebaseRecord
  <2> QED BY <1>7, <2>1 DEF Abort, Move
<1>8. CASE Quit
  BY <1>8 DEF Quit
<1> QED BY <1>1, <1>2, <1>3, <1>4, <1>5, <1>6, <1>7, <1>8 DEF Next

(* The steps, by what they do. *)
Closes == rebases' = rebases /\ Closing
Starts(r) ==
    /\ r.state = "going" /\ r.start = "logged" /\ ~r.interrupted
    /\ r.produced = <<>> /\ r.result = NoOid /\ r.branch = at /\ at' = at
    /\ ~Going /\ rebases' = Append(rebases, r)
    /\ runs' = Close /\ current' = <<Opening(r)>>
Picks(o) == Going /\ at' = at /\ Amended(WithStep(rebases[Latest], o)) /\ Stepping(o)
Stops == Going /\ at' = at /\ Amended([rebases[Latest] EXCEPT !.interrupted = TRUE]) /\ Closing
Finishes(r) ==
    /\ Going /\ at' = at /\ Amended(r)
    /\ r = [rebases[Latest] EXCEPT !.result = head, !.state = "finished"]
    /\ runs' = Append(runs, Completed(r)) /\ current' = <<>>
Aborts ==
    /\ Going /\ at' = at /\ Amended([rebases[Latest] EXCEPT !.state = "aborted"])
    /\ Stepping(rebases[Latest].replaced)
Quits ==
    /\ Going /\ Amended([rebases[Latest] EXCEPT !.state = "quit"])
    /\ UNCHANGED <<runs, current>>

LEMMA StepDoes ==
    ASSUME Typed, Next
    PROVE  \/ ~Going /\ Closes
           \/ \E r \in RebaseRecord : Starts(r)
           \/ Picks(fresh)
           \/ Stops
           \/ \E r \in RebaseRecord : Finishes(r)
           \/ Aborts
           \/ Quits
<1>1. CASE Commit \/ \E b \in Branch \cup {NoRef}, c \in 1..(fresh - 1) : Checkout(b, c)
  <2>1. ~Going
    BY <1>1 DEF Commit, Checkout
  <2> QED BY <1>1, <2>1, CommitDoes DEF Closes, Ref
<1>2. ASSUME NEW onto \in Nat, NEW m \in {"rebase (start)", "rebase: checkout"},
             StartRebase(onto, m)
      PROVE  \E r \in RebaseRecord : Starts(r)
  <2>1. at' = at
    BY <1>2 DEF StartRebase
  <2> QED BY <1>2, <2>1, StartDoes DEF Starts
<1>3. ASSUME NEW m \in {"rebase (pick)", "rebase: pick"}, Pick(m) PROVE Picks(fresh)
  BY <1>3, PickDoes DEF Pick, Picks
<1>4. CASE CommitWhileStopped
  BY <1>4, StoppedDoes DEF CommitWhileStopped, Stops
<1>5. ASSUME NEW m \in {"rebase (finish)", "rebase finished"}, FinishRebase(m)
      PROVE  \E r \in RebaseRecord : Finishes(r)
  BY <1>5, FinishDoes DEF FinishRebase, Finishes
<1>6. CASE Abort
  BY <1>6, AbortDoes DEF Abort, Aborts
<1>7. CASE Quit
  BY <1>7, QuitDoes DEF Quits
<1>8. 1..(fresh - 1) \subseteq Nat
  BY DEF Typed
<1> QED BY <1>1, <1>2, <1>3, <1>4, <1>5, <1>6, <1>7, <1>8 DEF Next
----------------------------------------------------------------------------
LEMMA TypedInit == Init => Typed
<1> SUFFICES ASSUME Init PROVE Typed
  OBVIOUS
<1>1. at \in Ref /\ head \in OptOid /\ fresh \in Nat /\ runs = <<>> /\ current = <<>>
  BY DEF Init, Ref, OptOid
<1>2. rebases \in Seq(RebaseRecord)
  <2>1. Rebase(NoOid, NoOid, "expired") \in RebaseRecord
    BY <1>1, EmptySeq DEF Rebase, RebaseRecord, OptOid
  <2>2. <<Rebase(NoOid, NoOid, "expired")>> \in Seq(RebaseRecord)
    BY <2>1
  <2> QED BY <2>2, EmptySeq DEF Init
<1> QED BY <1>1, <1>2, EmptySeq DEF Typed

LEMMA TypedNext == Typed /\ Next => Typed'
<1> SUFFICES ASSUME Typed, Next PROVE Typed'
  OBVIOUS
<1>1. at' \in Ref /\ head' \in OptOid /\ fresh' \in Nat
  BY GitTyped
<1>2. (current = <<>> \/ \E c \in Run : current = <<c>>) /\ runs \in Seq(Run)
        /\ rebases \in Seq(RebaseRecord) /\ fresh \in OptOid
  BY DEF Typed, OptOid
<1>3. Closing => runs' \in Seq(Run) /\ current' = <<>>
  BY CloseIs DEF Closing
<1>4. ASSUME NEW o \in OptOid, Stepping(o)
      PROVE  runs' \in Seq(Run) /\ (current' = <<>> \/ \E c \in Run : current' = <<c>>)
  <2>1. CASE current = <<>>
    BY <1>2, <1>4, <2>1 DEF Stepping
  <2>2. ASSUME NEW c \in Run, current = <<c>>
        PROVE  current' = <<[c EXCEPT !.produced = Append(@, o)]>>
    BY <1>4, <2>2 DEF Stepping
  <2>3. ASSUME NEW c \in Run, current = <<c>>
        PROVE  \E d \in Run : current' = <<d>>
    BY <2>2, <2>3, SteppedTyped
  <2> QED BY <1>2, <1>4, <2>1, <2>3 DEF Stepping
<1>5. ASSUME NEW r \in RebaseRecord, Going, Amended(r) PROVE rebases' \in Seq(RebaseRecord)
  BY <1>5, AmendedIs
<1>6. Going => rebases[Latest] \in RebaseRecord
  BY GoingIs
<1>7. CASE Closes
  BY <1>1, <1>2, <1>3, <1>7 DEF Closes, Typed
<1>8. ASSUME NEW r \in RebaseRecord, Starts(r) PROVE Typed'
  <2>1. rebases' \in Seq(RebaseRecord) /\ Opening(r) \in Run
    BY <1>2, <1>8, RunsTyped DEF Starts
  <2> QED BY <1>1, <1>8, <2>1, CloseIs DEF Starts, Typed
<1>9. CASE Picks(fresh)
  <2>1. WithStep(rebases[Latest], fresh) \in RebaseRecord
    BY <1>2, <1>6, <1>9, RunsTyped DEF Picks
  <2> QED BY <1>1, <1>2, <1>4, <1>5, <1>9, <2>1 DEF Picks, Typed
<1>10. CASE Stops
  <2>1. [rebases[Latest] EXCEPT !.interrupted = TRUE] \in RebaseRecord
    BY <1>6, <1>10 DEF Stops, RebaseRecord
  <2> QED BY <1>1, <1>3, <1>5, <1>10, <2>1 DEF Stops, Typed
<1>11. ASSUME NEW r \in RebaseRecord, Finishes(r) PROVE Typed'
  <2>1. Completed(r) \in Run
    BY <1>2, RunsTyped
  <2>2. runs' \in Seq(Run) /\ current' = <<>>
    BY <1>2, <1>11, <2>1 DEF Finishes
  <2> QED BY <1>1, <1>5, <1>11, <2>2 DEF Finishes, Typed
<1>12. CASE Aborts
  <2>1. /\ [rebases[Latest] EXCEPT !.state = "aborted"] \in RebaseRecord
        /\ rebases[Latest].replaced \in OptOid
    BY <1>6, <1>12 DEF Aborts, RebaseRecord
  <2> QED BY <1>1, <1>4, <1>5, <1>12, <2>1 DEF Aborts, Typed
<1>13. CASE Quits
  <2>1. [rebases[Latest] EXCEPT !.state = "quit"] \in RebaseRecord
    BY <1>6, <1>13 DEF Quits, RebaseRecord
  <2> QED BY <1>1, <1>2, <1>5, <1>13, <2>1 DEF Quits, Typed
<1> QED BY <1>7, <1>8, <1>9, <1>10, <1>11, <1>12, <1>13, StepDoes

LEMMA PlacedNext == Typed /\ Placed /\ Next => Placed'
<1> SUFFICES ASSUME Typed, Placed, Next PROVE Placed'
  OBVIOUS
<1>1. /\ \A j \in DOMAIN runs : runs[j].rebase \in DOMAIN rebases
      /\ \A j, k \in DOMAIN runs : j < k => runs[j].rebase <= runs[k].rebase
      /\ DOMAIN rebases = 1..Latest /\ Latest \in Nat
  BY DEF Typed, Placed, Latest
(* However the runs grow, it is by one of the latest rebase.               *)
<1>2. ASSUME DOMAIN rebases \subseteq DOMAIN rebases',
             runs' = runs \/ \E c : Added(c) /\ c.rebase = Latest /\ Latest \in DOMAIN rebases
      PROVE  /\ \A j \in DOMAIN runs' : runs'[j].rebase \in DOMAIN rebases'
             /\ \A j, k \in DOMAIN runs' : j < k => runs'[j].rebase <= runs'[k].rebase
  <2>1. CASE runs' = runs
    BY <1>1, <1>2, <2>1
  <2>2. ASSUME NEW c, Added(c), c.rebase = Latest, Latest \in DOMAIN rebases
        PROVE  /\ \A j \in DOMAIN runs' : runs'[j].rebase \in DOMAIN rebases'
               /\ \A j, k \in DOMAIN runs' : j < k => runs'[j].rebase <= runs'[k].rebase
    <3>1. /\ Len(runs) \in Nat /\ DOMAIN runs' = DOMAIN runs \cup {Len(runs) + 1}
          /\ \A j \in DOMAIN runs : j \in Nat /\ j < Len(runs) + 1 /\ runs'[j] = runs[j]
          /\ runs'[Len(runs) + 1] = c
      BY <2>2, AddedIs
    <3>2. \A j \in DOMAIN runs : runs[j].rebase <= Latest
      BY <1>1
    <3>3. \A j \in DOMAIN runs' : runs'[j].rebase \in DOMAIN rebases'
      BY <1>1, <1>2, <2>2, <3>1
    <3>4. ASSUME NEW j \in DOMAIN runs', NEW k \in DOMAIN runs', j < k
          PROVE  runs'[j].rebase <= runs'[k].rebase
      <4>1. j \in DOMAIN runs
        BY <3>1, <3>4
      <4>2. CASE k \in DOMAIN runs
        BY <1>1, <3>1, <3>4, <4>1, <4>2
      <4>3. CASE k = Len(runs) + 1
        BY <2>2, <3>1, <3>2, <4>1, <4>3
      <4> QED BY <3>1, <4>2, <4>3
    <3> QED BY <3>3, <3>4
  <2> QED BY <1>2, <2>1, <2>2
<1>3. ASSUME Closing
      PROVE  runs' = runs \/ \E c : Added(c) /\ c.rebase = Latest /\ Latest \in DOMAIN rebases
  BY <1>3, ClosingAdds DEF Closing, Placed
<1>4. Going => rebases[Latest] \in RebaseRecord /\ rebases[Latest].state = "going"
                 /\ rebases[Latest].branch = at
  BY GoingIs DEF Placed
(* A step within the latest rebase.                                        *)
<1>5. ASSUME Going, NEW r \in RebaseRecord, Amended(r), r.branch = rebases[Latest].branch,
             r.state = "going" => at' = at,
             runs' = runs \/ \E c : Added(c) /\ c.rebase = Latest /\ Latest \in DOMAIN rebases,
             current' # <<>> => /\ current'[1].rebase = Latest /\ ~current'[1].completed
                                /\ r.state # "finished"
      PROVE  Placed'
  <2>1. /\ DOMAIN rebases' = DOMAIN rebases /\ Latest' = Latest /\ Latest \in DOMAIN rebases
        /\ rebases'[Latest] = r
        /\ \A i \in DOMAIN rebases : i # Latest => rebases'[i] = rebases[i]
    BY <1>5, AmendedIs
  <2>2. Going' => r.state = "going"
    BY <2>1 DEF Going, Latest
  <2>3. \A i \in DOMAIN rebases' : rebases'[i].state = "going" => i = Latest'
    BY <2>1 DEF Placed
  <2>4. Going' => rebases'[Latest'].branch = at'
    BY <1>4, <1>5, <2>1, <2>2
  <2>5. current' # <<>> =>
          /\ Latest' \in DOMAIN rebases' /\ current'[1].rebase = Latest'
          /\ ~current'[1].completed /\ rebases'[Latest'].state # "finished"
    BY <1>5, <2>1
  <2> QED BY <1>2, <1>5, <2>1, <2>3, <2>4, <2>5 DEF Placed
(* A step entered in the run in progress.                                  *)
<1>6. ASSUME NEW o, Stepping(o)
      PROVE  /\ runs' = runs
             /\ current' # <<>> => /\ current # <<>> /\ current'[1].rebase = current[1].rebase
                                   /\ current'[1].completed = current[1].completed
  <2>1. CASE current = <<>>
    BY <1>6, <2>1 DEF Stepping
  <2>2. ASSUME NEW c \in Run, current = <<c>>
        PROVE  /\ current # <<>> /\ current'[1].rebase = current[1].rebase
               /\ current'[1].completed = current[1].completed
    <3>1. current # <<>> /\ current[1] = c
      BY <2>2
    <3>2. current'[1] = [c EXCEPT !.produced = Append(@, o)]
      BY <1>6, <3>1 DEF Stepping
    <3> QED BY <3>1, <3>2 DEF Run
  <2> QED BY <1>6, <2>1, <2>2 DEF Stepping, Typed
<1>7. CASE ~Going /\ Closes
  <2>1. current' = <<>> /\ rebases' = rebases /\ Latest' = Latest /\ ~Going'
    BY <1>7 DEF Closes, Closing, Latest, Going
  <2> QED BY <1>2, <1>3, <1>7, <2>1 DEF Closes, Placed
<1>8. ASSUME NEW r \in RebaseRecord, Starts(r) PROVE Placed'
  <2>1. /\ DOMAIN rebases' = DOMAIN rebases \cup {Latest + 1} /\ Latest' = Latest + 1
        /\ \A i \in DOMAIN rebases : i < Latest + 1 /\ rebases'[i] = rebases[i]
        /\ rebases'[Latest + 1] = r
    BY <1>8, Appended DEF Starts, Typed, Latest
  <2>2. runs' = runs \/ \E c : Added(c) /\ c.rebase = Latest /\ Latest \in DOMAIN rebases
    BY <1>8, ClosingAdds DEF Starts, Placed
  <2>3. \A i \in DOMAIN rebases : rebases[i].state # "going"
    <3>1. \A i \in DOMAIN rebases : rebases[i].state = "going" => i = Latest /\ rebases # <<>>
      BY <1>1 DEF Placed
    <3> QED BY <1>8, <3>1 DEF Starts, Going, Latest
  <2>4. Opening(r).rebase = Latest + 1 /\ ~Opening(r).completed
    BY DEF Opening, EmptyRun
  <2>5. current'[1] = Opening(r)
    BY <1>8 DEF Starts
  <2>6. r.state = "going" /\ r.branch = at'
    BY <1>8 DEF Starts
  <2> QED BY <1>2, <2>1, <2>2, <2>3, <2>4, <2>5, <2>6 DEF Placed
<1>9. CASE Picks(fresh)
  <2>1. /\ Going /\ Amended(WithStep(rebases[Latest], fresh)) /\ Stepping(fresh) /\ at' = at
        /\ rebases[Latest] \in RebaseRecord
    BY <1>4, <1>9 DEF Picks
  <2>2. /\ WithStep(rebases[Latest], fresh) \in RebaseRecord
        /\ WithStep(rebases[Latest], fresh).branch = rebases[Latest].branch
        /\ WithStep(rebases[Latest], fresh).state = "going"
    BY <1>4, <2>1, RunsTyped DEF WithStep, RebaseRecord, Typed, OptOid
  <2> QED BY <1>5, <1>6, <2>1, <2>2 DEF Placed
<1>10. CASE Stops
  <2> DEFINE r == [rebases[Latest] EXCEPT !.interrupted = TRUE]
  <2>1. Going /\ at' = at /\ Amended(r) /\ Closing
    BY <1>10 DEF Stops
  <2>2. r \in RebaseRecord /\ r.branch = rebases[Latest].branch
    BY <1>4, <2>1 DEF RebaseRecord
  <2> HIDE DEF r
  <2> QED BY <1>3, <1>5, <2>1, <2>2 DEF Closing
<1>11. ASSUME NEW r \in RebaseRecord, Finishes(r) PROVE Placed'
  <2>1. /\ Going /\ at' = at /\ Amended(r) /\ runs' = Append(runs, Completed(r)) /\ current' = <<>>
        /\ r.branch = rebases[Latest].branch
    BY <1>4, <1>11 DEF Finishes, RebaseRecord
  <2>2. Completed(r) \in Run /\ Completed(r).rebase = Latest
    <3>1. Completed(r) \in Run
      BY RunsTyped DEF Typed, OptOid
    <3>2. (IF current = <<>> THEN EmptyRun ELSE current[1]) \in Run
      BY RunsTyped DEF Typed, OptOid
    <3> QED BY <3>1, <3>2 DEF Completed, Run
  <2>3. Added(Completed(r)) /\ Latest \in DOMAIN rebases
    BY <2>1, <2>2, GoingIs DEF Added
  <2> QED BY <1>5, <2>1, <2>2, <2>3
<1>12. CASE Aborts
  <2> DEFINE r == [rebases[Latest] EXCEPT !.state = "aborted"]
  <2>1. Going /\ at' = at /\ Amended(r) /\ Stepping(rebases[Latest].replaced)
    BY <1>12 DEF Aborts
  <2>2. r \in RebaseRecord /\ r.branch = rebases[Latest].branch /\ r.state = "aborted"
    BY <1>4, <2>1 DEF RebaseRecord
  <2> HIDE DEF r
  <2> QED BY <1>5, <1>6, <2>1, <2>2 DEF Placed
<1>13. CASE Quits
  <2> DEFINE r == [rebases[Latest] EXCEPT !.state = "quit"]
  <2>1. Going /\ Amended(r) /\ UNCHANGED <<runs, current>>
    BY <1>13 DEF Quits
  <2>2. r \in RebaseRecord /\ r.branch = rebases[Latest].branch /\ r.state = "quit"
    BY <1>4, <2>1 DEF RebaseRecord
  <2> HIDE DEF r
  <2> QED BY <1>5, <2>1, <2>2 DEF Placed
<1> QED BY <1>7, <1>8, <1>9, <1>10, <1>11, <1>12, <1>13, StepDoes

LEMMA PlacedInit == Init => Placed
<1> SUFFICES ASSUME Init PROVE Placed
  OBVIOUS
<1>1. runs = <<>> /\ current = <<>>
  BY DEF Init
<1>2. CASE rebases = <<>>
  BY <1>1, <1>2 DEF Placed, Going, Latest
<1>3. CASE rebases = <<Rebase(NoOid, NoOid, "expired")>>
  <2>1. Latest = 1 /\ DOMAIN rebases = {1} /\ rebases[1].branch = at
    BY <1>3 DEF Latest, Rebase
  <2> QED BY <1>1, <2>1 DEF Placed
<1> QED BY <1>2, <1>3 DEF Init
----------------------------------------------------------------------------
(* What a rebase wrote stays written, and where its abort returned to. *)
Kept(rs, rt) ==
    \A i \in DOMAIN rs :
        /\ \A k \in DOMAIN rs[i].produced :
              k \in DOMAIN rt[i].produced /\ rt[i].produced[k] = rs[i].produced[k]
        /\ rs[i].state = "aborted" => rt[i].state = "aborted" /\ rt[i].replaced = rs[i].replaced

LEMMA WroteStays ==
    ASSUME NEW rs, NEW rt, Kept(rs, rt), NEW run, run.rebase \in DOMAIN rs, Wrote(run, rs)
    PROVE  Wrote(run, rt)
BY DEF Wrote, Kept

LEMMA AmendedKeeps ==
    ASSUME Typed, Going, NEW r \in RebaseRecord, Amended(r),
           \A k \in DOMAIN rebases[Latest].produced :
               k \in DOMAIN r.produced /\ r.produced[k] = rebases[Latest].produced[k]
    PROVE  Kept(rebases, rebases')
<1>1. /\ rebases'[Latest] = r /\ rebases[Latest].state = "going"
      /\ \A i \in DOMAIN rebases : i # Latest => rebases'[i] = rebases[i]
  BY AmendedIs, GoingIs
<1> QED BY <1>1 DEF Kept

LEMMA StepKeeps ==
    ASSUME Typed, Next
    PROVE  Kept(rebases, rebases')
<1>1. Going => rebases[Latest] \in RebaseRecord
  BY GoingIs
<1>2. CASE rebases' = rebases
  BY <1>2 DEF Kept
<1>3. ASSUME NEW r \in RebaseRecord, Starts(r) PROVE Kept(rebases, rebases')
  <2>1. \A i \in DOMAIN rebases : rebases'[i] = rebases[i]
    BY <1>3, Appended DEF Starts, Typed
  <2> QED BY <2>1 DEF Kept
<1>4. CASE Picks(fresh)
  <2> DEFINE r == WithStep(rebases[Latest], fresh)
  <2>1. Going /\ Amended(r) /\ rebases[Latest] \in RebaseRecord /\ fresh \in OptOid
    BY <1>1, <1>4 DEF Picks, Typed, OptOid
  <2>2. r \in RebaseRecord
    BY <2>1, RunsTyped
  <2>3. r.produced = Append(rebases[Latest].produced, fresh)
           /\ rebases[Latest].produced \in Seq(OptOid)
    BY <2>1 DEF WithStep, RebaseRecord
  <2>4. \A k \in DOMAIN rebases[Latest].produced :
            k \in DOMAIN r.produced /\ r.produced[k] = rebases[Latest].produced[k]
    <3> HIDE DEF r
    <3> QED BY <2>1, <2>3, Appended
  <2> HIDE DEF r
  <2> QED BY <2>1, <2>2, <2>4, AmendedKeeps
<1>5. CASE Stops
  <2> DEFINE r == [rebases[Latest] EXCEPT !.interrupted = TRUE]
  <2>1. Going /\ Amended(r) /\ r \in RebaseRecord /\ r.produced = rebases[Latest].produced
    BY <1>1, <1>5 DEF Stops, RebaseRecord
  <2> HIDE DEF r
  <2> QED BY <2>1, AmendedKeeps
<1>6. ASSUME NEW r \in RebaseRecord, Finishes(r) PROVE Kept(rebases, rebases')
  <2>1. Going /\ Amended(r) /\ r.produced = rebases[Latest].produced
    BY <1>1, <1>6 DEF Finishes, RebaseRecord
  <2> QED BY <2>1, AmendedKeeps
<1>7. CASE Aborts
  <2> DEFINE r == [rebases[Latest] EXCEPT !.state = "aborted"]
  <2>1. Going /\ Amended(r) /\ r \in RebaseRecord /\ r.produced = rebases[Latest].produced
    BY <1>1, <1>7 DEF Aborts, RebaseRecord
  <2> HIDE DEF r
  <2> QED BY <2>1, AmendedKeeps
<1>8. CASE Quits
  <2> DEFINE r == [rebases[Latest] EXCEPT !.state = "quit"]
  <2>1. Going /\ Amended(r) /\ r \in RebaseRecord /\ r.produced = rebases[Latest].produced
    BY <1>1, <1>8 DEF Quits, RebaseRecord
  <2> HIDE DEF r
  <2> QED BY <2>1, AmendedKeeps
<1> QED BY <1>2, <1>3, <1>4, <1>5, <1>6, <1>7, <1>8, StepDoes DEF Closes

LEMMA OwnInit == Init => Own
BY DEF Init, Own

(* A step is entered in the run of the rebase that made it. *)
LEMMA SteppedOwn ==
    ASSUME Typed, Placed, NEW o \in OptOid, Stepping(o), current # <<>>,
           Wrote(current[1], rebases'),
           LET r == rebases'[Latest]
           IN  \/ \E i \in DOMAIN r.produced : r.produced[i] = o
               \/ r.state = "aborted" /\ o = r.replaced
    PROVE  Wrote(current'[1], rebases')
<1>1. PICK c \in Run : current = <<c>>
  BY DEF Typed
<1> DEFINE d == [c EXCEPT !.produced = Append(@, o)]
<1>2. current[1] = c /\ current'[1] = d /\ c.rebase = Latest
  BY <1>1 DEF Stepping, Placed
<1>3. d.rebase = Latest /\ d.produced = Append(c.produced, o) /\ c.produced \in Seq(OptOid)
  BY <1>2 DEF Run
<1> HIDE DEF d
<1>4. /\ DOMAIN d.produced = DOMAIN c.produced \cup {Len(c.produced) + 1}
      /\ \A k \in DOMAIN c.produced : d.produced[k] = c.produced[k]
      /\ d.produced[Len(c.produced) + 1] = o
  BY <1>3, Appended
<1>5. Wrote(c, rebases')
  BY <1>2
<1> QED BY <1>2, <1>3, <1>4, <1>5 DEF Wrote

LEMMA OwnNext == Typed /\ Placed /\ Own /\ Next => Own'
<1> SUFFICES ASSUME Typed, Placed, Own, Next PROVE Own'
  OBVIOUS
<1>1. \A j \in DOMAIN runs : Wrote(runs[j], rebases')
  BY StepKeeps, WroteStays DEF Own, Placed
<1>2. current # <<>> => Wrote(current[1], rebases')
  BY StepKeeps, WroteStays DEF Own, Placed
<1>3. ASSUME NEW c, Added(c), Wrote(c, rebases')
      PROVE  \A j \in DOMAIN runs' : Wrote(runs'[j], rebases')
  BY <1>1, <1>3, AddedIs
<1>4. ASSUME runs' = Close PROVE \A j \in DOMAIN runs' : Wrote(runs'[j], rebases')
  <2>1. CASE runs' = runs
    BY <1>1, <2>1
  <2>2. ASSUME NEW c \in Run, current = <<c>>, Added(c)
        PROVE  \A j \in DOMAIN runs' : Wrote(runs'[j], rebases')
    <3>1. current[1] = c /\ current # <<>>
      BY <2>2
    <3> QED BY <1>2, <1>3, <2>2, <3>1
  <2> QED BY <1>4, <2>1, <2>2, ClosingAdds
<1>5. Going => rebases[Latest] \in RebaseRecord
  BY GoingIs
<1>6. CASE Closing
  BY <1>4, <1>6 DEF Closing, Own
<1>7. ASSUME NEW r \in RebaseRecord, Starts(r) PROVE Own'
  <2>1. current'[1] = Opening(r) /\ DOMAIN Opening(r).produced = {}
    BY <1>7 DEF Starts, Opening, EmptyRun
  <2>2. Wrote(current'[1], rebases')
    BY <2>1 DEF Wrote
  <2> QED BY <1>4, <1>7, <2>2 DEF Starts, Own
<1>8. ASSUME NEW o \in OptOid, Stepping(o),
             LET r == rebases'[Latest]
             IN  \/ \E i \in DOMAIN r.produced : r.produced[i] = o
                 \/ r.state = "aborted" /\ o = r.replaced
      PROVE  Own'
  <2>1. runs' = runs /\ (current = <<>> => current' = <<>>)
    BY <1>8 DEF Stepping
  <2>2. current # <<>> => Wrote(current'[1], rebases')
    BY <1>2, <1>8, SteppedOwn
  <2> QED BY <1>1, <2>1, <2>2 DEF Own
<1>9. CASE Picks(fresh)
  <2> DEFINE r == WithStep(rebases[Latest], fresh)
  <2>1. Going /\ Amended(r) /\ Stepping(fresh) /\ fresh \in OptOid
    BY <1>9 DEF Picks, Typed, OptOid
  <2>2. r \in RebaseRecord
    BY <1>5, <2>1, RunsTyped
  <2>3. r.produced = Append(rebases[Latest].produced, fresh)
           /\ rebases[Latest].produced \in Seq(OptOid)
    BY <1>5, <2>1 DEF WithStep, RebaseRecord
  <2> HIDE DEF r
  <2>4. \E i \in DOMAIN r.produced : r.produced[i] = fresh
    BY <2>1, <2>3, Appended
  <2>5. rebases'[Latest] = r
    BY <2>1, <2>2, AmendedIs
  <2> QED BY <1>8, <2>1, <2>4, <2>5
<1>10. CASE Aborts
  <2> DEFINE r == [rebases[Latest] EXCEPT !.state = "aborted"]
  <2>1. Going /\ Amended(r) /\ Stepping(rebases[Latest].replaced)
    BY <1>10 DEF Aborts
  <2>2. /\ r \in RebaseRecord /\ r.state = "aborted" /\ r.replaced = rebases[Latest].replaced
        /\ r.replaced \in OptOid
    BY <1>5, <2>1 DEF RebaseRecord
  <2> HIDE DEF r
  <2>3. rebases'[Latest] = r
    BY <2>1, <2>2, AmendedIs
  <2> QED BY <1>8, <2>1, <2>2, <2>3
<1>11. ASSUME NEW r \in RebaseRecord, Finishes(r) PROVE Own'
  <2> DEFINE run == IF current = <<>> THEN EmptyRun ELSE current[1]
  <2>1. runs' = Append(runs, Completed(r)) /\ current' = <<>> /\ Completed(r) \in Run
    BY <1>11, RunsTyped DEF Finishes, Typed, OptOid
  <2>2. Completed(r).rebase = Latest /\ Completed(r).produced = run.produced
    <3>1. run \in Run
      BY RunsTyped DEF Typed, OptOid
    <3>2. Completed(r) =
            [run EXCEPT !.ref = at, !.result = r.result, !.completed = TRUE, !.rebase = Latest]
      BY DEF Completed
    <3> HIDE DEF run
    <3> QED BY <3>1, <3>2 DEF Run
  <2>3. Wrote(Completed(r), rebases')
    <3>1. CASE current = <<>>
      BY <2>2, <3>1 DEF Wrote, EmptyRun
    <3>2. CASE current # <<>>
      <4>1. run = current[1] /\ current[1].rebase = Latest
        BY <3>2 DEF Placed
      <4> QED BY <1>2, <2>2, <3>2, <4>1 DEF Wrote
    <3> QED BY <3>1, <3>2
  <2> QED BY <1>3, <2>1, <2>3 DEF Added, Own
<1>12. CASE Quits
  BY <1>1, <1>2, <1>12 DEF Quits, Own
<1> QED BY <1>6, <1>7, <1>9, <1>10, <1>11, <1>12, StepDoes DEF Closes, Stops

(***************************************************************************)
(* StepsApart: whatever the user does in between, the steps of every run   *)
(* that find_rebases returns were written by the run's own rebase, or are  *)
(* where its abort returned to.                                            *)
(***************************************************************************)
THEOREM StepsStayApart == Spec => []StepsApart
<1>1. Typed /\ Placed /\ Own => StepsApart
  <2> SUFFICES ASSUME Typed, Placed, Own, NEW j \in DOMAIN Close PROVE Wrote(Close[j], rebases)
    BY DEF StepsApart, Wrote
  <2>1. CASE Close = runs
    BY <2>1 DEF Own
  <2>2. ASSUME NEW c \in Run, current = <<c>>, current # <<>>, Close = Append(runs, c)
        PROVE  Wrote(Close[j], rebases)
    <3>1. Wrote(c, rebases)
      BY <2>2 DEF Own
    <3>2. DOMAIN Close = DOMAIN runs \cup {Len(runs) + 1} /\ Close[Len(runs) + 1] = c
            /\ \A k \in DOMAIN runs : Close[k] = runs[k]
      BY <2>2, Appended DEF Typed
    <3> QED BY <3>1, <3>2 DEF Own
  <2> QED BY <2>1, <2>2, CloseIs
<1>2. Init => Typed /\ Placed /\ Own
  BY TypedInit, PlacedInit, OwnInit
<1>3. Typed /\ Placed /\ Own /\ [Next]_vars => (Typed /\ Placed /\ Own)'
  <2>1. UNCHANGED vars /\ Typed /\ Placed /\ Own => (Typed /\ Placed /\ Own)'
    BY DEF vars, gitVars, Typed, Placed, Own, Going, Latest
  <2> QED BY <2>1, TypedNext, PlacedNext, OwnNext
<1> QED BY <1>1, <1>2, <1>3, PTL DEF Spec
----------------------------------------------------------------------------
LEMMA CompletionsInit == Init => Completions
<1> SUFFICES ASSUME Init PROVE Completions
  OBVIOUS
<1>1. runs = <<>> /\ \A i \in DOMAIN rebases : rebases[i].state = "going"
  BY DEF Init, Rebase
<1> QED BY <1>1 DEF Completions, Completes

LEMMA CompletionsNext == Typed /\ Placed /\ Completions /\ Next => Completions'
<1> SUFFICES ASSUME Typed, Placed, Completions, Next PROVE Completions'
  OBVIOUS
<1> DEFINE Same(i) ==
      /\ rebases'[i].state = rebases[i].state /\ rebases'[i].result = rebases[i].result
      /\ rebases'[i].branch = rebases[i].branch
(* No run completed and no rebase finished.                                *)
<1>1. ASSUME runs' = runs \/ \E c : Added(c) /\ ~c.completed,
             \A i \in DOMAIN rebases' :
                 \/ i \in DOMAIN rebases /\ rebases[i].state = "finished" /\ Same(i)
                 \/ i \in DOMAIN rebases /\ rebases[i].state # "finished"
                      /\ rebases'[i].state # "finished"
                 \/ i \notin DOMAIN rebases /\ rebases'[i].state # "finished"
      PROVE  Completions'
  <2>1. \A i : \A j \in DOMAIN runs : Completes(j, i)' <=> Completes(j, i)
    BY <1>1, AddedIs DEF Completes
  <2>2. \A j \in DOMAIN runs : j \in DOMAIN runs' /\ runs'[j] = runs[j]
    BY <1>1, AddedIs
  <2>3. \A i : \A j \in DOMAIN runs' : Completes(j, i)' => j \in DOMAIN runs
    BY <1>1, AddedIs DEF Completes
  <2>4. ASSUME NEW i \in DOMAIN rebases', NEW j \in DOMAIN runs', Completes(j, i)'
        PROVE  /\ rebases'[i].state = "finished"
               /\ runs'[j].result = rebases'[i].result /\ runs'[j].ref = rebases'[i].branch
    <3>1. j \in DOMAIN runs /\ Completes(j, i)
      BY <2>1, <2>3, <2>4
    <3>2. i \in DOMAIN rebases
      BY <3>1 DEF Completes, Placed
    <3> QED BY <1>1, <2>2, <3>1, <3>2 DEF Completions
  <2>5. ASSUME NEW i \in DOMAIN rebases', rebases'[i].state = "finished"
        PROVE  \E j \in DOMAIN runs' :
                  Completes(j, i)' /\ \A k \in DOMAIN runs' : Completes(k, i)' => k = j
    <3>1. i \in DOMAIN rebases /\ rebases[i].state = "finished"
      BY <1>1, <2>5
    <3>2. PICK j \in DOMAIN runs :
             Completes(j, i) /\ \A k \in DOMAIN runs : Completes(k, i) => k = j
      BY <3>1 DEF Completions
    <3> QED BY <2>1, <2>2, <2>3, <3>2
  <2> QED BY <2>4, <2>5 DEF Completions
<1>2. ASSUME runs' = Close PROVE runs' = runs \/ \E c : Added(c) /\ ~c.completed
  <2>1. ASSUME NEW c \in Run, current = <<c>> PROVE ~c.completed
    BY <2>1 DEF Placed
  <2> QED BY <1>2, <2>1, ClosingAdds
<1>3. Going => rebases[Latest] \in RebaseRecord /\ rebases[Latest].state = "going"
  BY GoingIs
(* A step within the rebase that is going.                                 *)
<1>4. ASSUME Going, NEW r \in RebaseRecord, Amended(r), r.state # "finished",
             runs' = runs \/ \E c : Added(c) /\ ~c.completed
      PROVE  Completions'
  <2>1. /\ DOMAIN rebases' = DOMAIN rebases /\ rebases'[Latest] = r
        /\ \A i \in DOMAIN rebases : i # Latest => rebases'[i] = rebases[i]
    BY <1>4, AmendedIs
  <2> QED BY <1>1, <1>3, <1>4, <2>1
<1>5. CASE Closes
  BY <1>1, <1>2, <1>5 DEF Closes, Closing
<1>6. ASSUME NEW r \in RebaseRecord, Starts(r) PROVE Completions'
  <2>1. /\ DOMAIN rebases' = DOMAIN rebases \cup {Len(rebases) + 1}
        /\ \A i \in DOMAIN rebases : rebases'[i] = rebases[i]
        /\ Len(rebases) + 1 \notin DOMAIN rebases
        /\ rebases'[Len(rebases) + 1] = r /\ r.state = "going"
    BY <1>6, Appended DEF Starts, Typed
  <2>2. runs' = runs \/ \E c : Added(c) /\ ~c.completed
    BY <1>2, <1>6 DEF Starts
  <2> QED BY <1>1, <2>1, <2>2
<1>7. CASE Picks(fresh)
  <2> DEFINE r == WithStep(rebases[Latest], fresh)
  <2>1. Going /\ Amended(r) /\ runs' = runs /\ fresh \in OptOid
    BY <1>7 DEF Picks, Stepping, Typed, OptOid
  <2>2. r \in RebaseRecord /\ r.state = "going"
    BY <1>3, <2>1, RunsTyped DEF WithStep, RebaseRecord
  <2> HIDE DEF r
  <2> QED BY <1>4, <2>1, <2>2
<1>8. CASE Stops
  <2> DEFINE r == [rebases[Latest] EXCEPT !.interrupted = TRUE]
  <2>1. Going /\ Amended(r) /\ Closing
    BY <1>8 DEF Stops
  <2>2. r \in RebaseRecord /\ r.state = "going"
    BY <1>3, <2>1 DEF RebaseRecord
  <2> HIDE DEF r
  <2> QED BY <1>2, <1>4, <2>1, <2>2 DEF Closing
<1>9. CASE Aborts
  <2> DEFINE r == [rebases[Latest] EXCEPT !.state = "aborted"]
  <2>1. Going /\ Amended(r) /\ runs' = runs
    BY <1>9 DEF Aborts, Stepping
  <2>2. r \in RebaseRecord /\ r.state = "aborted"
    BY <1>3, <2>1 DEF RebaseRecord
  <2> HIDE DEF r
  <2> QED BY <1>4, <2>1, <2>2
<1>10. CASE Quits
  <2> DEFINE r == [rebases[Latest] EXCEPT !.state = "quit"]
  <2>1. Going /\ Amended(r) /\ runs' = runs
    BY <1>10 DEF Quits
  <2>2. r \in RebaseRecord /\ r.state = "quit"
    BY <1>3, <2>1 DEF RebaseRecord
  <2> HIDE DEF r
  <2> QED BY <1>4, <2>1, <2>2
(* A finish completes one run, of the rebase that was going.               *)
<1>11. ASSUME NEW r \in RebaseRecord, Finishes(r) PROVE Completions'
  <2>1. /\ Going /\ Amended(r) /\ runs' = Append(runs, Completed(r))
        /\ r.state = "finished" /\ r.branch = at
    BY <1>3, <1>11 DEF Finishes, RebaseRecord, Placed
  <2>2. /\ Completed(r) \in Run /\ Completed(r).rebase = Latest /\ Completed(r).completed
        /\ Completed(r).result = r.result /\ Completed(r).ref = at
    <3> DEFINE run == IF current = <<>> THEN EmptyRun ELSE current[1]
    <3>1. run \in Run /\ Completed(r) \in Run
      BY RunsTyped DEF Typed, OptOid
    <3>2. Completed(r) =
            [run EXCEPT !.ref = at, !.result = r.result, !.completed = TRUE, !.rebase = Latest]
      BY DEF Completed
    <3> HIDE DEF run
    <3> QED BY <3>1, <3>2 DEF Run
  <2>3. /\ DOMAIN rebases' = DOMAIN rebases /\ rebases'[Latest] = r /\ Latest \in DOMAIN rebases
        /\ \A i \in DOMAIN rebases : i # Latest => rebases'[i] = rebases[i]
    BY <2>1, AmendedIs
  <2>4. PICK n, l :
          /\ l = Latest /\ DOMAIN runs' = DOMAIN runs \cup {n} /\ n \notin DOMAIN runs
          /\ \A j \in DOMAIN runs : runs'[j] = runs[j]
          /\ runs'[n] = Completed(r)
    BY <2>1, <2>2, AddedIs DEF Added
  <2>5. \A j \in DOMAIN runs : ~Completes(j, l)
    BY <1>3, <2>1, <2>3, <2>4 DEF Completions
  <2>6. \A j \in DOMAIN runs, i \in DOMAIN rebases : Completes(j, i)' <=> Completes(j, i)
    BY <2>4 DEF Completes
  <2>7. \A i \in DOMAIN rebases : Completes(n, i)' <=> i = l
    BY <2>2, <2>4 DEF Completes
  <2>8. ASSUME NEW i \in DOMAIN rebases, i # l
        PROVE  /\ \A j \in DOMAIN runs' : Completes(j, i)' =>
                     /\ rebases'[i].state = "finished"
                     /\ runs'[j].result = rebases'[i].result
                     /\ runs'[j].ref = rebases'[i].branch
               /\ rebases'[i].state = "finished" =>
                     \E j \in DOMAIN runs' :
                        Completes(j, i)' /\ \A k \in DOMAIN runs' : Completes(k, i)' => k = j
    <3>1. \A j \in DOMAIN runs' : Completes(j, i)' <=> j \in DOMAIN runs /\ Completes(j, i)
      BY <2>4, <2>6, <2>7, <2>8
    <3>2. rebases'[i] = rebases[i]
      BY <2>3, <2>4, <2>8
    <3>3. /\ \A j \in DOMAIN runs : Completes(j, i) =>
               /\ rebases[i].state = "finished"
               /\ runs[j].result = rebases[i].result /\ runs[j].ref = rebases[i].branch
          /\ rebases[i].state = "finished" =>
               \E j \in DOMAIN runs :
                  Completes(j, i) /\ \A k \in DOMAIN runs : Completes(k, i) => k = j
      BY DEF Completions
    <3> QED BY <2>4, <3>1, <3>2, <3>3
  <2>9. \A j \in DOMAIN runs' : Completes(j, l)' <=> j = n
    BY <2>3, <2>4, <2>5, <2>6, <2>7
  <2>10. rebases'[l].state = "finished" /\ runs'[n].result = rebases'[l].result
           /\ runs'[n].ref = rebases'[l].branch
    BY <2>1, <2>2, <2>3, <2>4
  <2>11. ASSUME NEW i \in DOMAIN rebases
         PROVE  /\ \A j \in DOMAIN runs' : Completes(j, i)' =>
                      /\ rebases'[i].state = "finished"
                      /\ runs'[j].result = rebases'[i].result
                      /\ runs'[j].ref = rebases'[i].branch
                /\ rebases'[i].state = "finished" =>
                      \E j \in DOMAIN runs' :
                         Completes(j, i)' /\ \A k \in DOMAIN runs' : Completes(k, i)' => k = j
    BY <2>4, <2>8, <2>9, <2>10
  <2> QED BY <2>3, <2>11 DEF Completions
<1> QED BY <1>5, <1>6, <1>7, <1>8, <1>9, <1>10, <1>11, StepDoes

(***************************************************************************)
(* FinishedReported: whatever the user does in between, every rebase that  *)
(* finished gives find_rebases exactly one completed run, with the branch  *)
(* and the tip it ended on, and no other rebase gives one.                 *)
(***************************************************************************)
THEOREM FinishesAreReported == Spec => []FinishedReported
<1>1. Typed /\ Placed /\ Completions => FinishedReported
  <2> SUFFICES ASSUME Typed, Placed, Completions, NEW i \in DOMAIN rebases
               PROVE  LET mine == {j \in DOMAIN Close : Close[j].completed /\ Close[j].rebase = i}
                      IN  IF rebases[i].state = "finished"
                          THEN \E j \in mine : /\ mine = {j}
                                               /\ Close[j].result = rebases[i].result
                                               /\ Close[j].ref = rebases[i].branch
                          ELSE mine = {}
    BY DEF FinishedReported
  <2> DEFINE mine == {j \in DOMAIN Close : Close[j].completed /\ Close[j].rebase = i}
  <2>1. /\ \A j \in DOMAIN runs : j \in DOMAIN Close /\ Close[j] = runs[j]
        /\ \A j \in DOMAIN Close : j \in DOMAIN runs \/ ~Close[j].completed
    <3>1. CASE Close = runs
      BY <3>1
    <3>2. ASSUME NEW c \in Run, current = <<c>>, current # <<>>, Close = Append(runs, c)
          PROVE  /\ \A j \in DOMAIN runs : j \in DOMAIN Close /\ Close[j] = runs[j]
                 /\ \A j \in DOMAIN Close : j \in DOMAIN runs \/ ~Close[j].completed
      <4>1. ~c.completed
        BY <3>2 DEF Placed
      <4> QED BY <3>2, <4>1, Appended DEF Typed
    <3> QED BY <3>1, <3>2, CloseIs
  <2>2. mine = {j \in DOMAIN runs : Completes(j, i)}
    BY <2>1 DEF Completes
  <2>3. CASE rebases[i].state = "finished"
    <3>1. PICK j \in DOMAIN runs :
             Completes(j, i) /\ \A k \in DOMAIN runs : Completes(k, i) => k = j
      BY <2>3 DEF Completions
    <3>2. mine = {j}
      BY <2>2, <3>1
    <3>3. Close[j].result = rebases[i].result /\ Close[j].ref = rebases[i].branch
      BY <2>1, <3>1 DEF Completions
    <3> QED BY <2>3, <3>2, <3>3
  <2>4. CASE rebases[i].state # "finished"
    <3>1. mine = {}
      BY <2>2, <2>4 DEF Completions
    <3> QED BY <2>4, <3>1
  <2> QED BY <2>3, <2>4
<1>2. Init => Typed /\ Placed /\ Completions
  BY TypedInit, PlacedInit, CompletionsInit
<1>3. Typed /\ Placed /\ Completions /\ [Next]_vars => (Typed /\ Placed /\ Completions)'
  <2>1. UNCHANGED vars /\ Typed /\ Placed /\ Completions => (Typed /\ Placed /\ Completions)'
    BY DEF vars, gitVars, Typed, Placed, Completions, Completes, Going, Latest
  <2> QED BY <2>1, TypedNext, PlacedNext, CompletionsNext
<1> QED BY <1>1, <1>2, <1>3, PTL DEF Spec
----------------------------------------------------------------------------
(* A closed run stays where it is. *)
LEMMA ThereStays ==
    ASSUME Typed, NEW i, NEW r, There(i, r), current' # <<>> => i # Latest',
           runs' = runs \/ \E c : Added(c) /\ c.rebase # i
    PROVE  There(i, r)'
<1>1. PICK n \in DOMAIN runs :
         runs[n] = RawOf(r, i) /\ \A k \in DOMAIN runs : runs[k].rebase = i => k = n
  BY DEF There
<1>2. /\ n \in DOMAIN runs' /\ runs'[n] = runs[n]
      /\ \A k \in DOMAIN runs' : runs'[k].rebase = i => k \in DOMAIN runs /\ runs[k].rebase = i
  BY AddedIs
<1>3. RawOf(r, i)' = RawOf(r, i)
  BY DEF RawOf
<1> QED BY <1>1, <1>2, <1>3 DEF There

(* The run in progress is closed with all it holds. *)
LEMMA HereCloses ==
    ASSUME Typed, NEW i, NEW r, Here(i, r), current' # <<>> => i # Latest', runs' = Close
    PROVE  There(i, r)'
<1>1. PICK c \in Run : current = <<c>> /\ Added(c)
  BY ClosingAdds DEF Here
<1>2. c = RawOf(r, i) /\ c.rebase = i /\ NoneOf(i)
  BY <1>1 DEF Here, RawOf
<1>3. PICK n : n = Len(runs) + 1
  OBVIOUS
<1>4. /\ DOMAIN runs' = DOMAIN runs \cup {n} /\ runs'[n] = c
      /\ \A j \in DOMAIN runs : runs'[j] = runs[j]
  BY <1>1, <1>3, AddedIs
<1>5. \A k \in DOMAIN runs' : runs'[k].rebase = i => k = n
  BY <1>2, <1>4 DEF NoneOf
<1> QED BY <1>2, <1>4, <1>5 DEF There

(* A rebase that is over, when the run in progress is closed. *)
LEMMA TraceCloses ==
    ASSUME Typed, Placed, NEW i \in DOMAIN rebases, NEW r, r = rebases[i], Trace(i, r),
           r.state # "going", current' # <<>> => i # Latest', runs' = Close
    PROVE  Trace(i, r)'
<1>1. There(i, r) => There(i, r)'
  <2> SUFFICES ASSUME There(i, r) PROVE There(i, r)'
    OBVIOUS
  <2>1. ASSUME NEW c \in Run, current = <<c>> PROVE c.rebase # i
    <3>1. current # <<>> /\ current[1] = c
      BY <2>1
    <3> QED BY <3>1 DEF There, Placed
  <2> QED BY <2>1, ClosingAdds, ThereStays
<1>2. Here(i, r) => There(i, r)'
  BY HereCloses
<1> QED BY <1>1, <1>2 DEF Trace

(* A rebase that was over before the latest, in a step within that one. *)
LEMMA TraceStays ==
    ASSUME Typed, Placed, Going, NEW i \in DOMAIN rebases, i # Latest, NEW r, r = rebases[i],
           Trace(i, r), Latest' = Latest,
           runs' = runs \/ \E c : Added(c) /\ c.rebase = Latest
    PROVE  Trace(i, r)'
<1>1. r.state # "going"
  BY DEF Placed
<1>2. ~Here(i, r)
  BY DEF Here, RawOf, Placed
<1>3. There(i, r) => There(i, r)'
  BY ThereStays
<1> QED BY <1>1, <1>2, <1>3 DEF Trace

LEMMA TracesInit == Init => Traces
<1> SUFFICES ASSUME Init, NEW i \in DOMAIN rebases PROVE Trace(i, rebases[i])
  BY DEF Traces
<1>1. runs = <<>> /\ current = <<>> /\ rebases[i] = Rebase(NoOid, NoOid, "expired")
  BY DEF Init
<1> QED BY <1>1 DEF Trace, Rebase, NoneOf

(* A step within the rebase that is going: the others are as they were. *)
LEMMA AmendedTraces ==
    ASSUME Typed, Placed, Traces, Going, NEW r \in RebaseRecord, Amended(r),
           runs' = runs \/ \E c : Added(c) /\ c.rebase = Latest,
           \A l : l = Latest => Trace(l, r)'
    PROVE  Traces'
<1>1. /\ DOMAIN rebases' = DOMAIN rebases /\ rebases'[Latest] = r /\ Latest' = Latest
      /\ \A i \in DOMAIN rebases : i # Latest => rebases'[i] = rebases[i]
  BY AmendedIs
<1>2. ASSUME NEW i \in DOMAIN rebases, i # Latest PROVE Trace(i, rebases[i])'
  <2>1. PICK q : q = rebases[i]
    OBVIOUS
  <2>2. Trace(i, q)
    BY <2>1 DEF Traces
  <2>3. Trace(i, q)'
    BY <1>1, <1>2, <2>1, <2>2, TraceStays
  <2>4. rebases'[i] = q
    BY <1>1, <1>2, <2>1
  <2> QED BY <2>3, <2>4
<1>3. ASSUME NEW i \in DOMAIN rebases, i = Latest PROVE Trace(i, rebases[i])'
  BY <1>1, <1>3
<1> QED BY <1>1, <1>2, <1>3 DEF Traces

LEMMA SameRun ==
    ASSUME NEW a \in Run, NEW b \in Run, a.ref = b.ref, a.onto = b.onto,
           a.replaced = b.replaced, a.result = b.result, a.produced = b.produced,
           a.completed <=> b.completed, a.rebase = b.rebase
    PROVE  a = b
<1>1. a.completed = b.completed
  BY DEF Run
<1> QED BY <1>1 DEF Run

LEMMA RawTyped == \A r \in RebaseRecord, i \in Nat : RawOf(r, i) \in Run
<1> SUFFICES ASSUME NEW r \in RebaseRecord, NEW i \in Nat PROVE RawOf(r, i) \in Run
  OBVIOUS
<1>1. (IF r.state = "finished" THEN r.branch ELSE NoRef) \in Ref
  BY DEF RebaseRecord, Ref
<1>2. (IF r.start = "logged" THEN r.produced ELSE <<>>) \in Seq(OptOid)
  BY EmptySeq DEF RebaseRecord
<1>3. PICK ref \in Ref, produced \in Seq(OptOid), completed \in BOOLEAN :
         /\ ref = IF r.state = "finished" THEN r.branch ELSE NoRef
         /\ produced = IF r.start = "logged" THEN r.produced ELSE <<>>
         /\ completed = (r.state = "finished")
  BY <1>1, <1>2
<1>4. [ref |-> ref, onto |-> r.onto, replaced |-> r.replaced, result |-> r.result,
       produced |-> produced, completed |-> completed, rebase |-> i] \in Run
  BY DEF Run, RebaseRecord
<1> QED BY <1>3, <1>4 DEF RawOf

LEMMA TracesNext == Typed /\ Placed /\ Traces /\ Next => Traces'
<1> SUFFICES ASSUME Typed, Placed, Traces, Next PROVE Traces'
  OBVIOUS
<1>1. runs' = Close => runs' = runs \/ \E c : Added(c) /\ c.rebase = Latest
  <2>1. ASSUME NEW c \in Run, current = <<c>> PROVE c.rebase = Latest
    BY <2>1 DEF Placed
  <2> QED BY <2>1, ClosingAdds
<1>2. PICK l, q : l = Latest /\ q = rebases[l]
  OBVIOUS
<1>3. ASSUME Going
      PROVE  /\ q \in RebaseRecord /\ q.state = "going" /\ q.branch = at /\ Trace(l, q)
             /\ l \in DOMAIN rebases
  BY <1>2, <1>3, GoingIs DEF Placed, Traces
<1>4. CASE ~Going /\ Closes
  <2>1. ASSUME NEW i \in DOMAIN rebases PROVE Trace(i, rebases[i])'
    <3>1. PICK r : r = rebases[i]
      OBVIOUS
    <3>2. Trace(i, r) /\ r.state # "going"
      <4>1. r.state = "going" => i = Latest /\ rebases # <<>>
        BY <3>1 DEF Placed
      <4> QED BY <1>4, <3>1, <4>1 DEF Traces, Going, Latest
    <3>3. runs' = Close /\ current' = <<>> /\ rebases'[i] = r
      BY <1>4, <3>1 DEF Closes, Closing
    <3> QED BY <3>1, <3>2, <3>3, TraceCloses
  <2> QED BY <1>4, <2>1 DEF Closes, Traces
<1>5. ASSUME NEW r \in RebaseRecord, Starts(r) PROVE Traces'
  <2>1. /\ DOMAIN rebases' = DOMAIN rebases \cup {Latest + 1} /\ Latest' = Latest + 1
        /\ \A i \in DOMAIN rebases : i # Latest + 1 /\ rebases'[i] = rebases[i]
        /\ rebases'[Latest + 1] = r
    BY <1>5, Appended DEF Starts, Typed, Latest
  <2>2. ASSUME NEW i \in DOMAIN rebases PROVE Trace(i, rebases[i])'
    <3>1. PICK o : o = rebases[i]
      OBVIOUS
    <3>2. Trace(i, o) /\ o.state # "going"
      <4>1. o.state = "going" => i = Latest /\ rebases # <<>>
        BY <3>1 DEF Placed
      <4> QED BY <1>5, <3>1, <4>1 DEF Traces, Going, Latest, Starts
    <3>3. runs' = Close /\ i # Latest' /\ rebases'[i] = o
      BY <1>5, <2>1, <3>1 DEF Starts
    <3> QED BY <3>1, <3>2, <3>3, TraceCloses
  <2>3. PICK n : n = Latest + 1
    OBVIOUS
  <2>4. Trace(n, r)'
    <3>1. NoneOf(n)'
      <4>1. \A j \in DOMAIN runs : runs[j].rebase # n
        BY <2>1, <2>3 DEF Placed
      <4>2. runs' = runs \/ \E c : Added(c) /\ c.rebase = Latest
        BY <1>1, <1>5 DEF Starts
      <4>3. Latest # n
        BY <2>3 DEF Latest, Typed
      <4> QED BY <4>1, <4>2, <4>3, AddedIs DEF NoneOf
    <3>2. /\ r.state = "going" /\ r.start = "logged" /\ r.produced = <<>> /\ r.result = NoOid
          /\ current' = <<Opening(r)>>
      BY <1>5 DEF Starts
    <3>3. Opening(r) = RawOf(r, n)
      <4>1. RawOf(r, n) \in Run /\ Opening(r) \in Run
        BY <2>3, RunsTyped, RawTyped DEF Typed, OptOid, Latest
      <4>2. /\ RawOf(r, n).ref = NoRef /\ RawOf(r, n).onto = r.onto
            /\ RawOf(r, n).replaced = r.replaced /\ RawOf(r, n).result = NoOid
            /\ RawOf(r, n).produced = <<>> /\ ~RawOf(r, n).completed /\ RawOf(r, n).rebase = n
        BY <3>2 DEF RawOf
      <4>3. /\ Opening(r).ref = NoRef /\ Opening(r).onto = r.onto
            /\ Opening(r).replaced = r.replaced /\ Opening(r).result = NoOid
            /\ Opening(r).produced = <<>> /\ ~Opening(r).completed /\ Opening(r).rebase = Latest + 1
        BY DEF Opening, EmptyRun
      <4> QED BY <2>3, <4>1, <4>2, <4>3, SameRun
    <3>4. current' # <<>> /\ current'[1] = RawOf(r, n)
      BY <3>2, <3>3
    <3>5. Here(n, r)'
      BY <3>1, <3>4 DEF Here, RawOf
    <3> QED BY <3>1, <3>2, <3>5 DEF Trace
  <2>5. rebases'[n] = r
    BY <2>1, <2>3
  <2>6. ASSUME NEW i \in DOMAIN rebases' PROVE Trace(i, rebases[i])'
    <3>1. CASE i = n
      BY <2>4, <2>5, <3>1
    <3> QED BY <2>1, <2>2, <2>3, <3>1
  <2> QED BY <2>6 DEF Traces
<1>6. CASE Picks(fresh)
  <2>1. PICK o, r : o = fresh /\ r = WithStep(q, o)
    OBVIOUS
  <2>2. Going /\ Amended(r) /\ Stepping(o) /\ o \in OptOid
    BY <1>2, <1>6, <2>1 DEF Picks, Typed, OptOid
  <2>3. /\ r \in RebaseRecord /\ r.state = "going" /\ r.result = q.result /\ r.onto = q.onto
        /\ r.replaced = q.replaced /\ r.start = q.start /\ r.interrupted = q.interrupted
        /\ r.produced = Append(q.produced, o)
    <3>1. r \in RebaseRecord
      BY <1>3, <2>1, <2>2, RunsTyped
    <3> QED BY <1>3, <2>1, <2>2, <3>1 DEF WithStep, RebaseRecord
  <2>4. runs' = runs /\ (current = <<>> => current' = <<>>)
    BY <2>2 DEF Stepping
  <2>5. NoneOf(l) => NoneOf(l)'
    BY <2>4 DEF NoneOf
  <2>6. There(l, q) => ~NoneOf(l)
    BY DEF There, NoneOf, RawOf
  <2>7. ASSUME Here(l, q), q.start = "logged" PROVE Here(l, r)'
    <3>1. PICK c \in Run : current = <<c>>
      BY <2>7 DEF Here, Typed
    <3>2. c = RawOf(q, l) /\ current' = <<[c EXCEPT !.produced = Append(@, o)]>> /\ NoneOf(l)'
      BY <2>2, <2>5, <2>7, <3>1 DEF Here, Stepping
    <3>3. [c EXCEPT !.produced = Append(@, o)] = RawOf(r, l)
      <4> DEFINE d == [c EXCEPT !.produced = Append(@, o)]
      <4>1. d \in Run
        BY <2>2, SteppedTyped
      <4>2. /\ d.ref = c.ref /\ d.onto = c.onto /\ d.replaced = c.replaced /\ d.result = c.result
            /\ d.produced = Append(c.produced, o) /\ d.completed = c.completed
            /\ d.rebase = c.rebase
        BY DEF Run
      <4>3. /\ c.ref = NoRef /\ c.onto = q.onto /\ c.replaced = q.replaced /\ c.result = q.result
            /\ c.produced = q.produced /\ ~c.completed /\ c.rebase = l
        BY <1>3, <2>2, <2>7, <3>2 DEF RawOf
      <4>4. /\ RawOf(r, l).ref = NoRef /\ RawOf(r, l).onto = q.onto
            /\ RawOf(r, l).replaced = q.replaced /\ RawOf(r, l).result = q.result
            /\ RawOf(r, l).produced = Append(q.produced, o)
            /\ ~RawOf(r, l).completed /\ RawOf(r, l).rebase = l
        BY <2>3, <2>7 DEF RawOf
      <4>5. RawOf(r, l) \in Run
        BY <1>2, <2>3, RawTyped DEF Typed, Latest
      <4> HIDE DEF d
      <4>6. d = RawOf(r, l)
        BY <4>1, <4>2, <4>3, <4>4, <4>5, SameRun
      <4> QED BY <4>6 DEF d
    <3>4. current' # <<>> /\ current'[1] = RawOf(r, l)
      BY <3>2, <3>3
    <3> QED BY <3>2, <3>4 DEF Here, RawOf
  <2>8. Trace(l, r)'
    BY <1>3, <2>2, <2>3, <2>4, <2>5, <2>6, <2>7 DEF Trace, RebaseRecord
  <2> QED BY <1>2, <2>2, <2>3, <2>4, <2>8, AmendedTraces
<1>7. CASE Stops
  <2>1. PICK r : r = [q EXCEPT !.interrupted = TRUE]
    OBVIOUS
  <2>2. Going /\ Amended(r) /\ Closing
    BY <1>2, <1>7, <2>1 DEF Stops
  <2>3. /\ r \in RebaseRecord /\ r.interrupted /\ r.result = q.result /\ r.onto = q.onto
        /\ r.replaced = q.replaced /\ r.start = q.start /\ r.state = q.state
    BY <1>3, <2>1, <2>2 DEF RebaseRecord
  <2>4. Trace(l, r)'
    BY <1>3, <2>2, <2>3 DEF Trace
  <2> QED BY <1>1, <1>2, <2>2, <2>3, <2>4, AmendedTraces DEF Closing
<1>8. CASE Aborts
  <2>1. PICK r : r = [q EXCEPT !.state = "aborted"]
    OBVIOUS
  <2>2. Going /\ Amended(r) /\ runs' = runs
    BY <1>2, <1>8, <2>1 DEF Aborts, Stepping
  <2>3. /\ r \in RebaseRecord /\ r.state = "aborted" /\ r.result = q.result /\ r.onto = q.onto
        /\ r.replaced = q.replaced /\ r.start = q.start
    BY <1>3, <2>1, <2>2 DEF RebaseRecord
  <2>4. Trace(l, r)'
    BY <1>3, <2>2, <2>3 DEF Trace
  <2> QED BY <1>2, <2>2, <2>3, <2>4, AmendedTraces
<1>9. CASE Quits
  <2>1. PICK r : r = [q EXCEPT !.state = "quit"]
    OBVIOUS
  <2>2. Going /\ Amended(r) /\ runs' = runs /\ current' = current
    BY <1>2, <1>9, <2>1 DEF Quits
  <2>3. /\ r \in RebaseRecord /\ r.state = "quit" /\ r.result = q.result /\ r.onto = q.onto
        /\ r.replaced = q.replaced /\ r.start = q.start /\ r.interrupted = q.interrupted
        /\ r.produced = q.produced /\ q.state = "going"
    BY <1>3, <2>1, <2>2 DEF RebaseRecord
  <2>4. There(l, q) => ~NoneOf(l)
    BY DEF There, NoneOf, RawOf
  <2>5. Here(l, q) => Here(l, r)'
    BY <2>2, <2>3 DEF Here, RawOf, NoneOf
  <2>6. Trace(l, r)'
    BY <1>3, <2>2, <2>3, <2>4, <2>5 DEF Trace
  <2> QED BY <1>2, <2>2, <2>3, <2>6, AmendedTraces
<1>10. ASSUME NEW r \in RebaseRecord, Finishes(r) PROVE Traces'
  <2>1. /\ Going /\ Amended(r) /\ runs' = Append(runs, Completed(r)) /\ current' = <<>>
        /\ r.state = "finished" /\ r.branch = at /\ r.onto = q.onto /\ r.start = q.start
        /\ r.replaced = q.replaced /\ r.interrupted = q.interrupted /\ r.produced = q.produced
    <3>1. r = [q EXCEPT !.result = head, !.state = "finished"] /\ Going
      BY <1>2, <1>10 DEF Finishes
    <3> QED BY <1>3, <1>10, <3>1 DEF Finishes, RebaseRecord
  <2>2. PICK c : c = Completed(r)
    OBVIOUS
  <2>3. c \in Run /\ c.rebase = l /\ Added(c)
    <3> DEFINE run == IF current = <<>> THEN EmptyRun ELSE current[1]
    <3>1. run \in Run /\ Completed(r) \in Run
      BY RunsTyped DEF Typed, OptOid
    <3>2. Completed(r) =
            [run EXCEPT !.ref = at, !.result = r.result, !.completed = TRUE, !.rebase = Latest]
      BY DEF Completed
    <3> HIDE DEF run
    <3> QED BY <1>2, <2>1, <2>2, <3>1, <3>2 DEF Run, Added
  <2>4. ASSUME ~q.interrupted PROVE c = RawOf(r, l) /\ NoneOf(l)
    <3>1. NoneOf(l) /\ (q.start = "expired" => current = <<>>)
      BY <1>3, <2>1, <2>4 DEF Trace
    <3>2. CASE q.start = "expired"
      <4>1. c = [EmptyRun EXCEPT !.ref = at, !.result = r.result, !.completed = TRUE, !.rebase = l]
        BY <1>2, <2>2, <3>1, <3>2 DEF Completed
      <4>2. q.onto = NoOid /\ q.replaced = NoOid
        BY <1>3, <2>1, <3>2 DEF Trace
      <4> QED BY <2>1, <3>1, <3>2, <4>1, <4>2 DEF EmptyRun, RawOf
    <3>3. CASE q.start = "logged"
      <4>1. Here(l, q)
        <5>1. There(l, q) => ~NoneOf(l)
          BY DEF There, NoneOf, RawOf
        <5> QED BY <1>3, <2>1, <2>4, <3>1, <3>3, <5>1 DEF Trace
      <4>2. c = [RawOf(q, l) EXCEPT !.ref = at, !.result = r.result, !.completed = TRUE,
                                    !.rebase = l]
        BY <1>2, <2>2, <4>1 DEF Completed, Here
      <4> QED BY <2>1, <3>1, <3>3, <4>2 DEF RawOf
    <3> QED BY <1>3, <2>1, <3>2, <3>3 DEF RebaseRecord
  <2>5. ASSUME ~q.interrupted PROVE There(l, r)'
    <3>1. PICK n : n = Len(runs) + 1
      OBVIOUS
    <3>2. /\ DOMAIN runs' = DOMAIN runs \cup {n} /\ runs'[n] = c
          /\ \A j \in DOMAIN runs : runs'[j] = runs[j]
      BY <2>3, <3>1, AddedIs
    <3>3. c = RawOf(r, l) /\ NoneOf(l)
      BY <2>4, <2>5
    <3>4. n \in DOMAIN runs' /\ runs'[n] = RawOf(r, l)
             /\ \A k \in DOMAIN runs' : runs'[k].rebase = l => k = n
      BY <3>2, <3>3 DEF NoneOf
    <3> QED BY <2>1, <3>4 DEF There, RawOf
  <2>6. Trace(l, r)'
    BY <1>3, <2>1, <2>5 DEF Trace
  <2> QED BY <1>2, <2>1, <2>3, <2>6, AmendedTraces
<1> QED BY <1>4, <1>5, <1>6, <1>7, <1>8, <1>9, <1>10, StepDoes

(* What is expected of a rebase is its run, whatever branch is named. *)
LEMMA ExpectedIs ==
    ASSUME Typed, NEW i \in DOMAIN rebases, NEW ref \in Ref
    PROVE  /\ [RawOf(rebases[i], i) EXCEPT !.ref = ref] = Expected(i, ref)
           /\ ref = RawOf(rebases[i], i).ref => RawOf(rebases[i], i) = Expected(i, ref)
<1>1. i \in Nat /\ rebases[i] \in RebaseRecord
  BY DEF Typed
<1>2. PICK raw \in Run : raw = RawOf(rebases[i], i)
  BY <1>1, RawTyped
<1>3. /\ raw.onto = rebases[i].onto /\ raw.replaced = rebases[i].replaced
      /\ raw.result = rebases[i].result /\ raw.rebase = i
      /\ raw.produced = IF rebases[i].start = "logged" THEN rebases[i].produced ELSE <<>>
      /\ raw.completed <=> rebases[i].state = "finished"
  BY <1>2 DEF RawOf
<1>4. raw.completed = (rebases[i].state = "finished")
  BY <1>3 DEF Run
<1>5. Expected(i, ref) =
        [ref |-> ref, onto |-> raw.onto, replaced |-> raw.replaced, result |-> raw.result,
         produced |-> raw.produced, completed |-> raw.completed, rebase |-> raw.rebase]
  BY <1>3, <1>4 DEF Expected
<1>6. raw = [ref |-> raw.ref, onto |-> raw.onto, replaced |-> raw.replaced,
             result |-> raw.result, produced |-> raw.produced, completed |-> raw.completed,
             rebase |-> raw.rebase]
  BY DEF Run
<1>7. [raw EXCEPT !.ref = ref] =
        [ref |-> ref, onto |-> raw.onto, replaced |-> raw.replaced, result |-> raw.result,
         produced |-> raw.produced, completed |-> raw.completed, rebase |-> raw.rebase]
  BY DEF Run
<1> QED BY <1>2, <1>5, <1>6, <1>7

(* The one run of a rebase nobody interfered with, among those returned. *)
LEMMA OneRun ==
    ASSUME Typed, Placed, Traces, NEW i \in DOMAIN rebases, Traced(i), Plain(i)
    PROVE  \E n \in DOMAIN Close :
              /\ Close[n] = RawOf(rebases[i], i)
              /\ \A k \in DOMAIN Close : Close[k].rebase = i => k = n
<1>1. Here(i, rebases[i]) \/ There(i, rebases[i])
  BY DEF Traces, Trace, Traced, Plain
<1>2. RawOf(rebases[i], i).rebase = i
  BY DEF RawOf
<1>3. CASE current = <<>>
  BY <1>1, <1>3, CloseIs DEF Here, There
<1>4. ASSUME NEW c \in Run, current = <<c>>, current # <<>>, Close = Append(runs, c)
      PROVE  \E n \in DOMAIN Close :
                /\ Close[n] = RawOf(rebases[i], i)
                /\ \A k \in DOMAIN Close : Close[k].rebase = i => k = n
  <2>1. /\ DOMAIN Close = DOMAIN runs \cup {Len(runs) + 1} /\ Close[Len(runs) + 1] = c
        /\ \A j \in DOMAIN runs : Close[j] = runs[j]
    BY <1>4, Appended DEF Typed
  <2>2. c = current[1] /\ c.rebase = Latest
    BY <1>4 DEF Placed
  <2>3. CASE Here(i, rebases[i])
    BY <2>1, <2>2, <2>3 DEF Here, NoneOf
  <2>4. CASE There(i, rebases[i])
    BY <1>4, <2>1, <2>2, <2>4 DEF There
  <2> QED BY <1>1, <2>3, <2>4
<1> QED BY <1>3, <1>4, CloseIs

(***************************************************************************)
(* FoundIsWhatHappened: a rebase that is neither aborted nor interrupted   *)
(* by the user's own commit is read back exactly, as one run in its place, *)
(* whatever happened to the others.                                        *)
(***************************************************************************)
THEOREM RebasesAreTraced == Spec => []FoundIsWhatHappened
<1>1. Typed /\ Placed /\ Traces => FoundIsWhatHappened
  <2> SUFFICES ASSUME Typed, Placed, Traces PROVE FoundIsWhatHappened
    OBVIOUS
  <2>1. DOMAIN Found = DOMAIN Close /\ \A j \in DOMAIN Close : Found[j] = Resolve(Close[j])
    BY DEF Found
  <2>2. \A run \in Run : Resolve(run).rebase = run.rebase
    BY DEF Resolve, Run
  <2>3. \A j \in DOMAIN Close : Close[j] \in Run /\ Found[j].rebase = Close[j].rebase
    BY <2>1, <2>2, CloseIs
  <2>4. ASSUME NEW i \in DOMAIN rebases, Traced(i), Plain(i)
        PROVE  \E j \in RunsOf(i), ref \in Attributed(i) :
                  RunsOf(i) = {j} /\ Found[j] = Expected(i, ref)
    <3>1. PICK n \in DOMAIN Close :
             /\ Close[n] = RawOf(rebases[i], i)
             /\ \A k \in DOMAIN Close : Close[k].rebase = i => k = n
      BY <2>4, OneRun
    <3>2. RunsOf(i) = {n}
      <4>1. Close[n].rebase = i
        BY <3>1 DEF RawOf
      <4> QED BY <2>1, <2>3, <3>1, <4>1 DEF RunsOf
    <3>3. rebases[i] \in RebaseRecord /\ Trace(i, rebases[i])
      BY DEF Typed, Traces
    <3> DEFINE raw == RawOf(rebases[i], i)
               moved == {b \in Branch : raw.result \in branchLog[b]}
    <3>4. /\ raw.result = rebases[i].result
          /\ raw.ref = IF rebases[i].state = "finished" THEN rebases[i].branch ELSE NoRef
      BY DEF RawOf
    <3>5. Found[n] = Resolve(raw)
      BY <2>1, <3>1
    <3>6. CASE raw.ref # NoRef \/ raw.result = NoOid \/ moved = {}
      <4>1. Found[n] = raw
        BY <3>5, <3>6 DEF Resolve
      <4>2. raw.ref \in Attributed(i) /\ raw.ref \in Ref
        BY <3>3, <3>4 DEF Attributed, RebaseRecord, Ref
      <4>3. Found[n] = Expected(i, raw.ref)
        BY <4>1, <4>2, ExpectedIs
      <4> QED BY <3>2, <4>2, <4>3
    <3>7. CASE ~(raw.ref # NoRef \/ raw.result = NoOid \/ moved = {})
      <4>1. PICK b \in moved : b = CHOOSE m \in moved : TRUE
        BY <3>7
      <4>2. Found[n] = [raw EXCEPT !.ref = b] /\ b \in Ref
        BY <3>5, <3>7, <4>1 DEF Resolve, Ref
      <4>3. rebases[i].state = "finished" /\ rebases[i].branch = NoRef
        BY <3>3, <3>4, <3>7 DEF Trace
      <4>4. b \in Attributed(i)
        BY <3>4, <4>1, <4>3 DEF Attributed
      <4>5. Found[n] = Expected(i, b)
        BY <4>2, ExpectedIs
      <4> QED BY <3>2, <4>4, <4>5
    <3> QED BY <3>6, <3>7
  <2>5. ASSUME NEW j \in DOMAIN Close, NEW k \in DOMAIN Close, j < k
        PROVE  Close[j].rebase <= Close[k].rebase
    <3>1. CASE Close = runs
      BY <2>5, <3>1 DEF Placed
    <3>2. ASSUME NEW c \in Run, current = <<c>>, current # <<>>, Close = Append(runs, c)
          PROVE  Close[j].rebase <= Close[k].rebase
      <4>1. /\ DOMAIN Close = DOMAIN runs \cup {Len(runs) + 1} /\ Close[Len(runs) + 1] = c
            /\ \A m \in DOMAIN runs : m \in Nat /\ m < Len(runs) + 1 /\ Close[m] = runs[m]
            /\ Len(runs) \in Nat
        BY <3>2, Appended DEF Typed
      <4>2. c.rebase = Latest
        BY <3>2 DEF Placed
      <4>3. \A m \in DOMAIN runs : runs[m].rebase <= Latest
        BY DEF Placed, Typed, Latest
      <4>4. j \in DOMAIN runs
        BY <2>5, <4>1
      <4>5. CASE k \in DOMAIN runs
        BY <2>5, <4>1, <4>4, <4>5 DEF Placed
      <4>6. CASE k = Len(runs) + 1
        BY <4>1, <4>2, <4>3, <4>4, <4>6
      <4> QED BY <4>1, <4>5, <4>6
    <3> QED BY <3>1, <3>2, CloseIs
  <2>6. \A j, k \in DOMAIN Found : j < k => Found[j].rebase <= Found[k].rebase
    BY <2>1, <2>3, <2>5
  <2> QED BY <2>4, <2>6 DEF FoundIsWhatHappened
<1>2. Init => Typed /\ Placed /\ Traces
  BY TypedInit, PlacedInit, TracesInit
<1>3. Typed /\ Placed /\ Traces /\ [Next]_vars => (Typed /\ Placed /\ Traces)'
  <2>1. UNCHANGED vars /\ Typed /\ Placed /\ Traces => (Typed /\ Placed /\ Traces)'
    BY DEF vars, gitVars, Typed, Placed, Traces, Trace, Here, There, NoneOf, RawOf, Going, Latest
  <2> QED BY <2>1, TypedNext, PlacedNext, TracesNext
<1> QED BY <1>1, <1>2, <1>3, PTL DEF Spec
=============================================================================
