--------------------------- MODULE GitRefsProofs ---------------------------
(***************************************************************************)
(* Proofs about GitRefs for any number of refs, any values and any number  *)
(* of git steps: a read during which git only moves refs, creates them and *)
(* switches HEAD is regular.  Once git packs or deletes it is not (the run *)
(* git_refs_pack): both properties claim nothing of a disturbed read.      *)
(***************************************************************************)
EXTENDS GitRefs, TLAPS

(* What is reported of a ref it was at some time, unless it is symbolic.   *)
Fits(n) == \/ refs[n] \in held[n]
           \/ (held[n] = {Symbolic} /\ refs[n] \in {Absent, packed[n]})
Unborn(n) == Absent \in held[n] \/ held[n] = {Symbolic}

(***************************************************************************)
(* In an undisturbed read `packed-refs` has not changed and no loose ref   *)
(* has vanished since the listing, so what is still to be corrected is a   *)
(* listed loose ref, and what is settled (Fits) was true at some time.     *)
(***************************************************************************)
Undisturbed ==
    /\ phase # "list" => \A n \in Name : loose[n] = Symbolic => held[n] = {Symbolic}
    /\ phase = "packed" => \A n \in Name \ unread : packed[n] \in held[n]
    /\ phase # "list" => \A n \in unread : loose[n] # Absent
    /\ phase = "loose" => \A n \in unread : refs[n] = packed[n]
    /\ phase \in {"loose", "head", "done"} => \A n \in Name \ unread : Fits(n)
    /\ headRead.kind = "unborn" => Unborn(headRead.name)
RefsInv ==
    /\ \A n \in Name : Value(n) \in held[n]
    /\ phase \in {"list", "head", "done"} => unread = {}
    /\ headRead.kind = "unborn" => phase = "done" /\ headRead.name \in Name
    /\ ~disturbed => Undisturbed
IInv == TypeOK /\ RefsInv
----------------------------------------------------------------------------
(* Types hold whatever git does. *)
LEMMA TypeInit == Init => TypeOK
<1> SUFFICES ASSUME Init PROVE TypeOK
  OBVIOUS
<1>1. loose \in [Name -> Oid \cup {Absent, Symbolic}] /\ packed \in [Name -> Oid \cup {Absent}]
  BY DEF Init
<1>2. \A n \in Name : Value(n) \in Oid \cup {Absent, Symbolic}
  BY <1>1 DEF Value
<1>3. disturbed \in BOOLEAN
  BY DEF Init
<1>4. headRead \in [kind : {"none", "detached", "branch", "unborn"}, name : Heads]
  BY DEF Init
<1>5. held \in [Name -> SUBSET (Oid \cup {Absent, Symbolic})] /\ refs \in [Name -> Oid \cup {Absent}]
  BY <1>2 DEF Init
<1> QED BY <1>1, <1>3, <1>4, <1>5, MaxGitAssumption DEF Init, TypeOK

LEMMA TypeNext == TypeOK /\ [Next]_vars => TypeOK'
<1> SUFFICES ASSUME TypeOK, [Next]_vars PROVE TypeOK'
  OBVIOUS
<1> USE DEF TypeOK
<1>1. \A n \in Name : Value(n) \in Oid \cup {Absent, Symbolic}
  BY DEF Value
<1>2. ASSUME loose' \in [Name -> Oid \cup {Absent, Symbolic}],
             packed' \in [Name -> Oid \cup {Absent}], NoteValues
      PROVE  /\ held' \in [Name -> SUBSET (Oid \cup {Absent, Symbolic})]
             /\ settled' \subseteq Name
  BY <1>2 DEF NoteValues, Value
<1>3. ASSUME NEW a \in Acts, Git(a)
      PROVE  /\ gitSteps' \in 0..MaxGit /\ phase' = phase /\ unread' = unread
             /\ refs' = refs /\ headRead' = headRead
  BY <1>3, MaxGitAssumption DEF Git, readVars
<1>4. CASE List
  BY <1>1, <1>4 DEF List, gitVars
<1>5. CASE ReadPacked
  BY <1>5 DEF ReadPacked, gitVars, history
<1>6. ASSUME NEW n \in unread, ReadLoose(n) PROVE TypeOK'
  BY <1>6 DEF ReadLoose, Overwrite, gitVars, history
<1>7. CASE AllLooseRead
  BY <1>7 DEF AllLooseRead, gitVars, history
<1>8. CASE ReadHead
  BY <1>8 DEF ReadHead, HeadKind, gitVars, history
<1>9. ASSUME NEW n \in Name, NEW o \in Oid, Update(n, o) PROVE TypeOK'
  <2>1. loose' \in [Name -> Oid \cup {Absent, Symbolic}] /\ packed' = packed
    BY <1>9 DEF Update
  <2> QED BY <1>2, <1>3, <1>9, <2>1 DEF Update, Git
<1>10. ASSUME NEW to \in Name \cup Oid, Switch(to) PROVE TypeOK'
  BY <1>2, <1>3, <1>10 DEF Switch, Git, Heads
<1>11. CASE PackRefs
  <2>1. packed' \in [Name -> Oid \cup {Absent}] /\ loose' = loose
    BY <1>11 DEF PackRefs
  <2> QED BY <1>2, <1>3, <1>11, <2>1 DEF PackRefs, Git
<1>12. ASSUME NEW n \in Name, PruneLoose(n) PROVE TypeOK'
  <2>1. loose' \in [Name -> Oid \cup {Absent, Symbolic}] /\ packed' = packed
    BY <1>12 DEF PruneLoose
  <2> QED BY <1>2, <1>3, <1>12, <2>1 DEF PruneLoose, Git
<1>13. ASSUME NEW n \in Name, DeletePacked(n) PROVE TypeOK'
  <2>1. packed' \in [Name -> Oid \cup {Absent}] /\ loose' = loose
    BY <1>13 DEF DeletePacked
  <2> QED BY <1>2, <1>3, <1>13, <2>1 DEF DeletePacked, Git
<1>14. ASSUME NEW n \in Name, DeleteLoose(n) PROVE TypeOK'
  <2>1. loose' \in [Name -> Oid \cup {Absent, Symbolic}] /\ packed' = packed
    BY <1>14 DEF DeleteLoose
  <2> QED BY <1>2, <1>3, <1>14, <2>1 DEF DeleteLoose, Git
<1>15. CASE UNCHANGED vars
  BY <1>15 DEF vars, gitVars, readVars, history
<1> QED BY <1>4, <1>5, <1>6, <1>7, <1>8, <1>9, <1>10, <1>11, <1>12, <1>13, <1>14, <1>15
        DEF Next, Plugin, GitStep

(* The reader of refs is type-correct in every repository. *)
THEOREM TypeCorrect == Spec => []TypeOK
<1> QED BY TypeInit, TypeNext, PTL DEF Spec
----------------------------------------------------------------------------
LEMMA RefsInit == Init => RefsInv
<1> SUFFICES ASSUME Init PROVE RefsInv
  OBVIOUS
<1>1. /\ \A n \in Name : Value(n) \in held[n]
      /\ phase = "list" /\ unread = {} /\ headRead.kind # "unborn"
  BY DEF Init
<1> QED BY <1>1 DEF RefsInv, Undisturbed

(* What a ref was stays among what it has been. *)
LEMMA HeldGrows ==
    ASSUME TypeOK, NoteValues, NEW n \in Name
    PROVE  held[n] \subseteq held'[n] /\ Value(n)' \in held'[n]
BY DEF TypeOK, NoteValues

(* The steps of the plugin, whatever git has done. *)
LEMMA PluginNext == IInv /\ Plugin => RefsInv'
<1> SUFFICES ASSUME IInv, Plugin PROVE RefsInv'
  OBVIOUS
<1> USE NamesAssumption DEF IInv, TypeOK, RefsInv, Undisturbed, Value, Fits, Unborn
<1>1. CASE List
  BY <1>1 DEF List, gitVars
<1>2. CASE ReadPacked
  BY <1>2 DEF ReadPacked, gitVars, history
<1>3. ASSUME NEW n \in unread, ReadLoose(n) PROVE RefsInv'
  <2>1. /\ phase = "loose" /\ phase' = "loose" /\ unread' = unread \ {n}
        /\ UNCHANGED <<loose, packed, held, headRead, disturbed>>
        /\ refs' = Overwrite(n) /\ n \in Name
    BY <1>3 DEF ReadLoose, gitVars, history
  <2>2. \A m \in Name \ {n} : refs'[m] = refs[m]
    BY <2>1 DEF Overwrite
  <2>3. ASSUME ~disturbed PROVE Undisturbed'
    <3>1. CASE loose[n] \in Oid
      <4>1. refs'[n] = loose[n] /\ loose[n] \in held[n]
        BY <2>1, <3>1 DEF Overwrite
      <4>2. Fits(n)'
        BY <2>1, <3>1, <4>1
      <4> QED BY <2>1, <2>2, <2>3, <4>2
    <3>2. CASE loose[n] = Symbolic
      <4>1. refs' = refs /\ held[n] = {Symbolic}
        BY <2>1, <2>3, <3>2 DEF Overwrite
      <4>2. Fits(n)'
        BY <2>1, <2>3, <4>1
      <4> QED BY <2>1, <2>2, <2>3, <4>2
    <3> QED BY <2>1, <2>3, <3>1, <3>2
  <2>4. \A m \in Name : Value(m)' \in held'[m]
    BY <2>1
  <2> QED BY <2>1, <2>3, <2>4 DEF RefsInv
<1>4. CASE AllLooseRead
  BY <1>4 DEF AllLooseRead, gitVars, history
<1>5. CASE ReadHead
  BY <1>5 DEF ReadHead, HeadKind, gitVars, history
<1> QED BY <1>1, <1>2, <1>3, <1>4, <1>5 DEF Plugin

(* Git packs or deletes: the read is disturbed. *)
LEMMA DisturbingNext ==
    ASSUME IInv, NoteValues, disturbed', UNCHANGED readVars
    PROVE  RefsInv'
BY HeldGrows DEF IInv, RefsInv, readVars

(* Git moves or creates a ref, or switches HEAD. *)
LEMMA QuietNext ==
    ASSUME IInv, NoteValues, UNCHANGED <<packed, disturbed, readVars>>,
           \A n \in Name : loose'[n] = loose[n] \/ (loose[n] # Symbolic /\ loose'[n] \in Oid)
    PROVE  RefsInv'
<1> USE NamesAssumption DEF IInv
<1>1. \A n \in Name : held[n] \subseteq held'[n] /\ Value(n)' \in held'[n]
  BY HeldGrows
<1>2. UNCHANGED <<phase, unread, refs, headRead, packed, disturbed>>
  BY DEF readVars
<1>3. unread \subseteq Name /\ (headRead.kind = "unborn" => headRead.name \in Name)
  BY DEF TypeOK, RefsInv
<1>4. CASE disturbed
  BY <1>1, <1>2, <1>4 DEF RefsInv
<1>5. CASE ~disturbed
  <2>1. Undisturbed
    BY <1>5 DEF RefsInv
  <2>2. \A n \in Name : /\ loose'[n] = Symbolic => loose[n] = Symbolic
                        /\ loose[n] # Absent => loose'[n] # Absent
    BY DEF TypeOK
  <2>3. ASSUME NEW n \in Name, held[n] = {Symbolic} PROVE held'[n] = {Symbolic}
    <3>1. Value(n) = Symbolic
      BY <2>3 DEF RefsInv
    <3>2. loose[n] = Symbolic
      BY <3>1 DEF Value, TypeOK
    <3>3. loose'[n] = Symbolic
      BY <3>2
    <3>4. Value(n)' = Symbolic
      BY <3>3 DEF Value
    <3> QED BY <2>3, <3>4 DEF NoteValues, TypeOK
  <2>4. \A n \in Name : Fits(n) => Fits(n)'
    BY <1>1, <1>2, <2>3 DEF Fits
  <2>5. phase # "list" => \A n \in Name : loose'[n] = Symbolic => held'[n] = {Symbolic}
    BY <2>1, <2>2, <2>3 DEF Undisturbed
  <2>6. phase = "packed" => \A n \in Name \ unread : packed[n] \in held'[n]
    BY <1>1, <2>1 DEF Undisturbed
  <2>7. phase \in {"loose", "head", "done"} => \A n \in Name \ unread : Fits(n)'
    BY <2>1, <2>4 DEF Undisturbed
  <2>8. headRead.kind = "unborn" => Unborn(headRead.name)'
    BY <1>1, <1>2, <1>3, <2>1, <2>3 DEF Undisturbed, Unborn
  <2>9. phase # "list" => \A n \in unread : loose'[n] # Absent
    BY <1>3, <2>1, <2>2 DEF Undisturbed
  <2>10. Undisturbed'
    BY <1>2, <2>1, <2>5, <2>6, <2>7, <2>8, <2>9 DEF Undisturbed
  <2> QED BY <1>1, <1>2, <2>10 DEF RefsInv
<1> QED BY <1>4, <1>5

LEMMA GitNext == IInv /\ GitStep => RefsInv'
<1> SUFFICES ASSUME IInv, GitStep PROVE RefsInv'
  OBVIOUS
<1> USE DEF IInv
<1>1. TypeOK
  OBVIOUS
<1>2. ASSUME NEW n \in Name, NEW o \in Oid, Update(n, o) PROVE RefsInv'
  <2>1. \A m \in Name : loose'[m] = loose[m] \/ (loose[m] # Symbolic /\ loose'[m] \in Oid)
    BY <1>2 DEF Update, TypeOK
  <2>2. NoteValues /\ UNCHANGED <<packed, readVars>> /\ disturbed' = disturbed
    BY <1>1, <1>2 DEF Update, Git, TypeOK
  <2> QED BY <2>1, <2>2, QuietNext
<1>3. ASSUME NEW to \in Name \cup Oid, Switch(to) PROVE RefsInv'
  <2>1. NoteValues /\ UNCHANGED <<loose, packed, readVars>> /\ disturbed' = disturbed
    BY <1>1, <1>3 DEF Switch, Git, TypeOK
  <2> QED BY <2>1, QuietNext
<1>4. CASE PackRefs
  BY <1>4, DisturbingNext DEF PackRefs, Git
<1>5. ASSUME NEW n \in Name, PruneLoose(n) PROVE RefsInv'
  BY <1>5, DisturbingNext DEF PruneLoose, Git
<1>6. ASSUME NEW n \in Name, DeletePacked(n) PROVE RefsInv'
  BY <1>6, DisturbingNext DEF DeletePacked, Git
<1>7. ASSUME NEW n \in Name, DeleteLoose(n) PROVE RefsInv'
  BY <1>7, DisturbingNext DEF DeleteLoose, Git
<1> QED BY <1>2, <1>3, <1>4, <1>5, <1>6, <1>7 DEF GitStep

LEMMA RefsStutter == IInv /\ UNCHANGED vars => RefsInv'
BY DEF IInv, RefsInv, Undisturbed, Fits, Unborn, Value, vars, gitVars, readVars, history

LEMMA Invariance == Spec => []IInv
<1>1. Init => IInv
  BY TypeInit, RefsInit DEF IInv
<1>2. IInv /\ [Next]_vars => IInv'
  BY TypeNext, PluginNext, GitNext, RefsStutter DEF IInv, Next
<1> QED BY <1>1, <1>2, PTL DEF Spec

(* As long as git only moves and creates refs, every ref is reported at a  *)
(* value it had during the read, and none that existed throughout is left  *)
(* out, but for a ref that is symbolic throughout: it is left out, or      *)
(* reported at the packed line it shadows.                                 *)
THEOREM ReadIsRegular == Spec => []Regular
<1>1. IInv => Regular
  BY DEF IInv, RefsInv, Undisturbed, Regular, Fits
<1> QED BY Invariance, <1>1, PTL

(* As long as git neither packs nor deletes, HEAD is called unborn only if *)
(* the branch it names did not exist at some time during the read, or is a *)
(* symbolic ref throughout, which the reading of refs passes over.         *)
THEOREM UnbornWasUnborn == Spec => []UnbornIsHonest
<1>1. IInv => UnbornIsHonest
  BY DEF IInv, RefsInv, Undisturbed, Unborn, UnbornIsHonest
<1> QED BY Invariance, <1>1, PTL
----------------------------------------------------------------------------
(***************************************************************************)
(* A ref whose packed line was current at the listing and that has not     *)
(* moved since.  Its packed line still says so, unless git is deleting the *)
(* ref, and then its loose file, which was listed, does.  Packing and      *)
(* deleting exclude each other (both hold packed-refs' lock), so a loose   *)
(* file that is pruned leaves the line behind.                             *)
(***************************************************************************)
Unmoved(n, o) == n \in settled /\ held[n] = {o}
Deleted(n) == n \in deleting /\ packed[n] = Absent
Told(n, o) ==
    /\ packed[n] = o \/ Deleted(n)
    /\ phase = "packed" /\ loose[n] # Absent => n \in unread
    /\ phase = "loose" => refs[n] = o \/ (n \in unread /\ Deleted(n))
    /\ phase \in {"head", "done"} => refs[n] = o
SettledInv ==
    /\ pruning = {} \/ deleting = {}
    /\ phase = "list" => settled = {}
    /\ \A n \in Name : \A o \in Oid : Unmoved(n, o) => Told(n, o)

(* What has had one value since the listing has it now. *)
LEMMA UnmovedIsValue ==
    ASSUME IInv, NEW n \in Name, NEW o \in Oid, Unmoved(n, o)
    PROVE  Value(n) = o
BY DEF IInv, RefsInv, Unmoved

LEMMA SettledPlugin == IInv /\ SettledInv /\ Plugin => SettledInv'
<1> SUFFICES ASSUME IInv, SettledInv, Plugin PROVE SettledInv'
  OBVIOUS
<1> USE NamesAssumption
<1>1. CASE List
  <2>1. /\ UNCHANGED <<packed, loose, pruning, deleting>> /\ phase' = "packed"
        /\ settled' = {n \in Name : packed[n] = Value(n)}
        /\ held' = [n \in Name |-> {Value(n)}]
        /\ unread' = {n \in Name : loose[n] # Absent}
    BY <1>1 DEF List, gitVars
  <2>2. ASSUME NEW n \in Name, NEW o \in Oid, Unmoved(n, o)' PROVE Told(n, o)'
    BY <2>1, <2>2 DEF Unmoved, Told
  <2> QED BY <2>1, <2>2 DEF SettledInv
<1>2. ASSUME UNCHANGED <<gitVars, history>>, phase # "list", phase' # "list",
             \A n \in Name : \A o \in Oid :
                 Unmoved(n, o) /\ Told(n, o) /\ Value(n) = o => Told(n, o)'
      PROVE  SettledInv'
  <2>1. ASSUME NEW n \in Name, NEW o \in Oid, Unmoved(n, o)' PROVE Told(n, o)'
    <3>1. Unmoved(n, o)
      BY <1>2, <2>1 DEF history, Unmoved
    <3> QED BY <1>2, <3>1, UnmovedIsValue DEF SettledInv
  <2> QED BY <1>2, <2>1 DEF SettledInv, gitVars
<1>3. CASE ReadPacked
  BY <1>2, <1>3 DEF ReadPacked, gitVars, history, Told, Deleted, Value
<1>4. ASSUME NEW m \in unread, ReadLoose(m) PROVE SettledInv'
  <2>1. /\ UNCHANGED <<gitVars, history, phase>> /\ phase = "loose"
        /\ UNCHANGED <<loose, packed, deleting>>
        /\ unread' = unread \ {m} /\ refs' = Overwrite(m)
    BY <1>4 DEF ReadLoose, gitVars
  <2>2. m \in Name /\ refs \in [Name -> Oid \cup {Absent}]
    BY DEF IInv, TypeOK
  <2>3. ASSUME NEW n \in Name, NEW o \in Oid, Told(n, o), Value(n) = o
        PROVE  Told(n, o)'
    <3>1. CASE n # m
      <4>1. refs'[n] = refs[n]
        BY <2>1, <2>2, <3>1 DEF Overwrite
      <4> QED BY <2>1, <2>3, <3>1, <4>1 DEF Told, Deleted
    <3>2. CASE n = m
      <4>1. loose[n] \in {o, Absent}
        BY <2>3 DEF Value
      <4>2. refs'[n] = o
        BY <2>1, <2>2, <2>3, <3>2, <4>1 DEF Overwrite, Told, Deleted, Value
      <4> QED BY <2>1, <2>3, <4>2 DEF Told, Deleted
    <3> QED BY <3>1, <3>2
  <2> QED BY <1>2, <2>1, <2>3
<1>5. CASE AllLooseRead
  BY <1>2, <1>5 DEF AllLooseRead, gitVars, history, Told, Deleted
<1>6. CASE ReadHead
  BY <1>2, <1>6 DEF ReadHead, gitVars, history, Told, Deleted
<1> QED BY <1>1, <1>3, <1>4, <1>5, <1>6 DEF Plugin

(* A step of git after which a ref has one value left it its value. *)
LEMMA UnmovedByGit ==
    ASSUME IInv, NoteValues, NEW n \in Name, NEW o \in Oid, Unmoved(n, o)'
    PROVE  Unmoved(n, o) /\ Value(n) = o /\ Value(n)' = o
<1>1. settled' = settled /\ held[n] \subseteq held'[n] /\ Value(n)' \in held'[n]
  BY HeldGrows DEF IInv, NoteValues
<1>2. Value(n) \in held[n]
  BY DEF IInv, RefsInv
<1>3. held'[n] = {o} /\ n \in settled
  BY <1>1 DEF Unmoved
<1> QED BY <1>1, <1>2, <1>3 DEF Unmoved

LEMMA SettledGit == IInv /\ SettledInv /\ GitStep => SettledInv'
<1> SUFFICES ASSUME IInv, SettledInv, GitStep PROVE SettledInv'
  OBVIOUS
<1> USE NamesAssumption
<1>1. /\ packed \in [Name -> Oid \cup {Absent}] /\ loose \in [Name -> Oid \cup {Absent, Symbolic}]
      /\ pruning \subseteq Name /\ deleting \subseteq Name
  BY DEF IInv, TypeOK
(* Enough that what is told of a ref whose value stands is still told.     *)
<1>2. ASSUME NoteValues, UNCHANGED readVars, pruning' = {} \/ deleting' = {},
             \A n \in Name : \A o \in Oid :
                Told(n, o) /\ Value(n) = o /\ Value(n)' = o =>
                  /\ packed'[n] = o \/ Deleted(n)'
                  /\ loose'[n] # Absent => loose[n] # Absent
                  /\ Deleted(n) => Deleted(n)'
      PROVE  SettledInv'
  <2>1. ASSUME NEW n \in Name, NEW o \in Oid, Unmoved(n, o)' PROVE Told(n, o)'
    <3>1. Unmoved(n, o) /\ Value(n) = o /\ Value(n)' = o
      BY <1>2, <2>1, UnmovedByGit
    <3>2. Told(n, o)
      BY <3>1 DEF SettledInv
    <3> QED BY <1>2, <3>1, <3>2 DEF Told, readVars
  <2> QED BY <1>2, <2>1 DEF SettledInv, NoteValues, readVars
<1>3. ASSUME NEW m \in Name, NEW p \in Oid, Update(m, p) PROVE SettledInv'
  <2>1. NoteValues /\ UNCHANGED readVars /\ UNCHANGED <<packed, pruning, deleting>>
    BY <1>3 DEF Update, Git
  <2>2. Value(m) # p /\ Value(m)' = p /\ \A n \in Name \ {m} : loose'[n] = loose[n]
    BY <1>1, <1>3 DEF Update, Value
  <2> QED BY <1>2, <2>1, <2>2 DEF SettledInv, Told, Deleted
<1>4. ASSUME NEW to \in Name \cup Oid, Switch(to) PROVE SettledInv'
  BY <1>2, <1>4 DEF Switch, Git, SettledInv, Told, Deleted
<1>5. CASE PackRefs
  BY <1>1, <1>2, <1>5 DEF PackRefs, Git, Deleted, Told, Value
<1>6. ASSUME NEW m \in Name, PruneLoose(m) PROVE SettledInv'
  <2>1. NoteValues /\ UNCHANGED readVars /\ UNCHANGED <<packed, deleting>>
    BY <1>6 DEF PruneLoose, Git
  <2>2. deleting = {} /\ \A n \in Name : loose'[n] # Absent => loose'[n] = loose[n]
    BY <1>1, <1>6 DEF PruneLoose, SettledInv
  <2> QED BY <1>2, <2>1, <2>2 DEF Told, Deleted
<1>7. ASSUME NEW m \in Name, DeletePacked(m) PROVE SettledInv'
  <2>1. /\ NoteValues /\ UNCHANGED readVars /\ UNCHANGED <<loose, pruning>>
        /\ pruning = {} /\ m \notin deleting /\ deleting' = deleting \cup {m}
        /\ packed' = [packed EXCEPT ![m] = Absent]
    BY <1>7 DEF DeletePacked, Git
  <2> QED BY <1>1, <1>2, <2>1 DEF Told, Deleted
<1>8. ASSUME NEW m \in Name, DeleteLoose(m) PROVE SettledInv'
  <2>1. /\ NoteValues /\ UNCHANGED readVars /\ UNCHANGED <<packed, pruning>>
        /\ m \in deleting /\ deleting' = deleting \ {m}
        /\ loose' = [loose EXCEPT ![m] = Absent]
    BY <1>8 DEF DeleteLoose, Git
  <2>2. Value(m)' = packed[m]
    BY <1>1, <2>1 DEF Value
  <2> QED BY <1>1, <1>2, <2>1, <2>2 DEF SettledInv, Told, Deleted
<1> QED BY <1>3, <1>4, <1>5, <1>6, <1>7, <1>8 DEF GitStep

LEMMA SettledStutter == SettledInv /\ UNCHANGED vars => SettledInv'
BY DEF SettledInv, Unmoved, Told, Deleted, vars, gitVars, readVars, history

(* Whatever git does meanwhile, packing and deleting included, a ref that  *)
(* did not move is reported at its value if its packed line was current    *)
(* when the read began, for any number of refs and of steps of git.        *)
THEOREM SettledRefsAreReported == Spec => []SettledReported
<1>1. Init => SettledInv
  BY DEF Init, SettledInv, Unmoved
<1>2. IInv /\ SettledInv /\ [Next]_vars => SettledInv'
  BY SettledPlugin, SettledGit, SettledStutter DEF Next
<1>3. IInv /\ SettledInv => SettledReported
  BY DEF IInv, TypeOK, SettledInv, Unmoved, Told, SettledReported
<1> QED BY Invariance, <1>1, <1>2, <1>3, PTL DEF Spec
=============================================================================
