SPECIFICATION Spec
CONSTANTS
  NodeBound = 5
  Spare = 3
  NoValue = NoValue
  Spelling <- NoSpelling
  Value = {"v"}
  VarName = {}
  Label = {"a", "b"}
  SetPaths <- InsideSet
  SubPairs <- NoInput
  InsertCalls <- NoInput
  RemovePaths <- NoInput
  MovePairs <- InsideMove
  StoreCalls <- NoInput
  BindPaths <- NoInput
  ReadPaths <- NoInput
VIEW Shape
PROPERTIES MoveKeepsSubtree
