SPECIFICATION FairThread
CONSTANTS
  Char = {a, b}
  NUL = NUL
  Size = 2
  SplitDecrement = FALSE
  Calls = {"getchar"}
PROPERTIES KeyDelivered
