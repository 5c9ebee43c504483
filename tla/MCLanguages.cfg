SPECIFICATION Spec
CONSTANTS
    Projects <- AllProjects
    Capitalised <- Capitals
    Variables <- Vars
    JavaLang <- Lang
    Decapitalized <- Decap
    DefaultImports <- Lang
    SystemTypes <- Lang
    Interfaced <- Interfaces
    Suffixed <- WithSuffix
    Membered <- Members
    Controllers <- Controls
INVARIANTS
    Whole
    MissesCounted
    CallsLand
    PortKept
    NeverGuessed
    OrderFree
CHECK_DEADLOCK FALSE
