SPECIFICATION FramebufferSpec
CONSTANTS
  Width = 3
  Height = 2
  Glyph = {"a", "b"}
  Residue = "residue"
  FbWidth = 13
  FbHeight = 9
  Pitch = 15
  FontWidth = 2
  FontHeight = 2
  Scale = 2
  GlyphRow <- MCGlyphRow
INVARIANTS TypeOK EraseUndoesEcho PutMovesOn ScreenShowsCells PaddingUntouched
