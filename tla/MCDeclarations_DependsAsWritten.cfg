SPECIFICATION Spec
CONSTANTS
    Tree <- Trees
    PartsOf <- FieldsOf
    FindIn <- ReadBy
    ResolveAll <- ResolvedBy
    Pending = Pending
    Nesting = 4
INVARIANTS DependsAsWritten
CHECK_DEADLOCK FALSE
