CONSTANTS
  Texts = {"edge", "7"}
  Atoi <- Numbers
  NaN = NaN
  Unnamed = "unnamed"
  Default = "default"
  MaxDepth = 5
  MaxSize = 5
SPECIFICATION Spec
INVARIANT TypeOK
INVARIANT OrderlyFilesAreRead
INVARIANT NamesDistinct
PROPERTY TextsStayInPlace
CHECK_DEADLOCK FALSE
