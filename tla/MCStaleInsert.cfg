SPECIFICATION Spec
CONSTANTS
  NodeBound = 5
  Spare = 3
  NoValue = NoValue
  Spelling <- NoSpelling
  Value = {"v"}
  VarName = {"x"}
  Label = {"a", "b"}
  SetPaths <- EmptiedSet
  SubPairs <- NoInput
  InsertCalls <- EmptiedInsert
  RemovePaths <- NoInput
  MovePairs <- NoInput
  StoreCalls <- EmptiedStore
  BindPaths <- EmptiedBind
  ReadPaths <- NoInput
VIEW Shape
INVARIANTS NeverPanics
CHECK_DEADLOCK FALSE
