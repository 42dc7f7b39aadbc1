SPECIFICATION Spec
CONSTANTS
  Char = {a, b}
  NUL = NUL
  Size = 2
  SplitDecrement = TRUE
  Calls = {"getchar"}
INVARIANTS NoStrandedKey
