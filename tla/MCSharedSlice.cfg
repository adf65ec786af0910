SPECIFICATION Spec
CONSTANTS
  NodeBound = 6
  Spare = 3
  NoValue = NoValue
  Spelling <- NoSpelling
  Value = {"v"}
  VarName = {"x"}
  Label = {"a", "b"}
  SetPaths <- MovedSet
  SubPairs <- MovedSub
  InsertCalls <- NoInput
  RemovePaths <- MovedRemove
  MovePairs <- MovedMove
  StoreCalls <- NoInput
  BindPaths <- MovedBind
  ReadPaths <- NoInput
VIEW Shape
PROPERTIES WritesKeepNodes
