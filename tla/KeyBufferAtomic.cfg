SPECIFICATION Spec
CONSTANTS
  Char = {a, b, d}
  NUL = NUL
  Size = 3
  SplitDecrement = FALSE
  Calls = {"getchar", "nonblock"}
INVARIANTS RingAgrees NoStrandedKey
PROPERTY ImplementsQueue
