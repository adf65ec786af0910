SPECIFICATION Spec
CONSTANTS
  NodeBound = 4
  Spare = 3
  NoValue = NoValue
  Spelling <- NoSpelling
  Value = {"v"}
  VarName = {"x"}
  Label = {"a", "b", ".."}
  SetPaths <- VarSet
  SubPairs <- VarSub
  InsertCalls <- VarInsert
  RemovePaths <- VarRemove
  MovePairs <- VarMove
  StoreCalls <- NoInput
  BindPaths <- VarBind
  ReadPaths <- VarRead
VIEW Shape
INVARIANTS ForestAgrees
PROPERTIES EditsTheTree DetachedEditsStayOut
