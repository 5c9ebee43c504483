SPECIFICATION Spec
CONSTANTS
    Tree <- Trees
    PartsOf <- FieldsOf
    FindIn <- ReadBy
    ResolveAll <- ResolvedBy
    Pending = Pending
    Nesting = 4
INVARIANTS SelectsAsDeclared OnlyReferencesDangle ReferencesAsDeclared ColumnsUnderTheirTable ImagesRejoin
PROPERTIES Answers
CHECK_DEADLOCK FALSE
