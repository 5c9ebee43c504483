SPECIFICATION Spec
CONSTANTS
    Name <- AllNames
    Underscored = {"_aux"}
    Label = "tree"
    Builtins = {"print", "Exception", "int"}
    Depth = 3
    Trees <- AllTrees
INVARIANTS OwnMethods
CHECK_DEADLOCK FALSE
