SPECIFICATION Spec
CONSTANTS
  Node <- MCNode
  Root = 1
  Label = {"a"}
  Value = {"v"}
  NoValue = NoValue
INVARIANTS SiblingsInLine Rooted
PROPERTY OrderStable
