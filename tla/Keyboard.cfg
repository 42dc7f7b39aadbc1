SPECIFICATION Spec
CONSTANTS
  Keys <- TypistKeys
  Size = 1
  Rollover = 2
  MaxHeld = 1
  MaxWire = 2
  MaxTyped = 2
INVARIANTS TypeOK TypedAsEngraved ModifiersTrackKeys LayoutFollowsKeys EveryCharacterTypeable
