SPECIFICATION Spec
CONSTANTS
    Branch = {main, topic}
    NoRef = NoRef
    NoOid = NoOid
    Acts = {"stop", "abort", "quit", "expire", "detach"}
    MaxEntries = 6
INVARIANTS FoundIsWhatHappened FinishedReported StepsApart
CHECK_DEADLOCK FALSE
