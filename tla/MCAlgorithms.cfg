CONSTANTS
    MaxByte = 3
    Newline = 0
    MaxWord = 3
    Utf8 <- NarrowOnly
    Variants <- MCVariants
    Regexps <- NarrowRegexps
    Forests <- MCForests
    Paths <- MCPaths
    Labels = {"b"}
    Values = {"v"}
    MaxNodes = 4
    Modules <- MCModules
    Beginnings <- MCBeginnings
    Keys <- MCKeys
    MaxTyped = 4
SPECIFICATION Spec
INVARIANTS
    MinusIsDifference
    RmIsExact
    SetIsExact
    InsIsAdjacent
    ReadsBack
    NothingIsLost
CHECK_DEADLOCK FALSE
