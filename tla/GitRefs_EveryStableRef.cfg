SPECIFICATION Spec
CONSTANTS
    Name = {main, dev}
    Oid = {c1, c2}
    Absent = Absent
    Symbolic = Symbolic
    Acts = {"pack"}
    MaxGit = 3
INVARIANTS EveryStableRef
CHECK_DEADLOCK FALSE
