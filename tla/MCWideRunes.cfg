CONSTANTS
    MaxByte = 3
    Newline = 0
    MaxWord = 2
    Utf8 <- OneWide
    Variants <- MCVariants
    Regexps <- WideRegexps
SPECIFICATION MinusSpec
INVARIANTS
    MinusIsDifference
