SPECIFICATION Spec
CONSTANTS
  None = None
  EncEq = "="
  EncSlash = "/"
  Digit = {"1", "2", "3", "4"}
  SquareLimit = 2
  Name = {"settings", "lists", "quoted", "elements", "switches", "blocks", "markup"}
  Body <- RecBody
  LensOf <- Catalogue
  Texts <- TextsOf
  Trees <- TreesOf
INVARIANTS GetIsRight BuildReadsBack BuildAccepts LayoutKept UntouchedKept
