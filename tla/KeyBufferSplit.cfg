SPECIFICATION FairTyping
CONSTANTS
  Char = {a, b}
  NUL = NUL
  Size = 3
  SplitDecrement = TRUE
  Calls = {"getchar", "nonblock", "clear"}
INVARIANTS TypeOK GetcharFindsKey ReadsWrittenSlot
PROPERTIES KeyDelivered
