SPECIFICATION Spec
CONSTANTS
  Key = {"k", "l"}
  Value = {"u", "v"}
  Junk = "junk"
  NoValue = NoValue
  Missing = Missing
  Absent = Absent
  Gap = {"wide", "narrow", "tab", "none"}
  Canonical = "tab"
  Handle = {"g1"}
  File = {"e", "f"}
  Pattern <- OneEach
  Refused = {}
  Disk <- TwoFiles
  Text <- SomeTexts
  NewNode <- Valueless
  ChangeBound = 2
PROPERTIES BuildReproducesTree
