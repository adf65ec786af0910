SPECIFICATION Spec
CONSTANTS
  NodeBound = 5
  Spare = 3
  NoValue = NoValue
  Spelling <- OddSpelling
  Value = {"v"}
  VarName = {}
  Label = {"a", "b", "x|y"}
  SetPaths <- OddSet
  SubPairs <- NoInput
  InsertCalls <- OddInsert
  RemovePaths <- NoInput
  MovePairs <- NoInput
  StoreCalls <- NoInput
  BindPaths <- NoInput
  ReadPaths <- OddRead
VIEW Shape
INVARIANTS EveryPathLeadsBack
