SPECIFICATION Spec
CONSTANTS
  None = None
  EncEq = "="
  EncSlash = "/"
  Digit = {"1", "2", "3", "4"}
  SquareLimit = 2
  Name = {"numbered"}
  Body <- RecBody
  LensOf <- Catalogue
  Texts <- TextsOf
  Trees <- TreesOf
INVARIANT LayoutKept
