SPECIFICATION Spec
CONSTANTS
    Name = {main, dev}
    Oid = {c1, c2}
    Absent = Absent
    Symbolic = Symbolic
    Acts = {"update", "switch", "pack", "delete"}
    MaxGit = 4
INVARIANTS TypeOK Regular UnbornIsHonest SettledReported
CHECK_DEADLOCK FALSE
