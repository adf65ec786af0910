SPECIFICATION Spec
CONSTANTS
  Key = {"k", "l"}
  Value = {"u", "v"}
  Junk = "junk"
  NoValue = NoValue
  Missing = Missing
  Absent = Absent
  Gap = {"wide", "narrow", "tab", "none"}
  Canonical = "tab"
  Handle = {"g1", "g2"}
  File = {"e", "f", "x*"}
  Pattern <- WithRefused
  Refused = {"x*"}
  Disk <- TwoFiles
  Text <- SomeTexts
  NewNode <- Stored
  ChangeBound = 2
INVARIANTS TypeOK SkeletonParses
PROPERTIES OwnLayoutKept BuildReproducesTree EveryFileAccountedFor
