SPECIFICATION TerminalFairSpec
CONSTANTS
  Width = 3
  Height = 2
  Glyph = {"a", "b", "h", "r", "?", ">", "^", "C"}
  Residue = "residue"
  KeyChars = {"a", "b"}
  LineSize = 3
  BufferSize = 2
  Prompt <- MCPrompt
  Replies <- MCReplies
  ClearCommand <- MCClear
  RebootCommand <- MCReboot
  Rebooting <- MCRebooting
  Unknown <- MCUnknown
  Hint <- MCHint
INVARIANTS ShellTypeOK LineOnScreen NothingAhead
PROPERTIES ImplementsLineEditor ImplementsTypeAhead RoomAgain
