SPECIFICATION Spec
CONSTANTS
  NodeBound = 4
  Spare = 3
  NoValue = NoValue
  Spelling <- OddSpelling
  Value = {"v"}
  VarName = {}
  Label = {"a", "b", "..", "x|y"}
  SetPaths <- TreeSet
  SubPairs <- TreeSub
  InsertCalls <- TreeInsert
  RemovePaths <- TreeRemove
  MovePairs <- TreeMove
  StoreCalls <- TreeStore
  BindPaths <- NoInput
  ReadPaths <- TreeRead
VIEW Shape
INVARIANTS TypeOK LinksAgree PathRoundTrip
PROPERTIES EditsTheTree FailureOnlyAdds SetMultipleCovers SetMultipleCounts RemoveIsExact MoveKeepsSubtree WritesKeepNodes
