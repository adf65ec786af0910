CONSTANTS
    Source <- MCSource
    BadSyntax <- MCBadSyntax
    Base <- MCBase
    Leaves <- MCLeaves
    Computed <- MCComputed
    CorpusModules <- MCCorpusModules
    Disk <- MCDisk
    GlobMatch <- MCGlobMatch
    Accepts <- MCAccepts
    Unsupported <- MCUnsupported
    Requests <- MCRequests
    MaxCalls = 2
SPECIFICATION Spec
INVARIANTS
    ForcingIsOwn
    AnswersAreMeanings
    ChoiceIsRight
    AgreesWithUpstream
PROPERTIES
    MemoIsFinal
    ImplementsBindings
    EveryCallReturns
CHECK_DEADLOCK FALSE
