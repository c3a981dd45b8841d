SPECIFICATION Spec
CONSTANTS
  Turn <- RunTurn
  Options <- ViewOptions
  Factories <- ViewFactories
  Lazy <- MCLazy
  ReservedTags <- MCReservedTags
  ConfigKeyCodes <- MCConfigKeyCodes
  CssTransitions <- ViewCssTransitions
  MAX_UPDATE_COUNT = 4
  Roots <- ViewRoots
  Tasks <- ViewTasks
  Touched = {"i", "em"}
  Texts = {}
  Keystrokes = {}
  MaxEvents = 3
INVARIANTS ShowsTheView KeptOrGone
PROPERTY TransitionsEnd
CHECK_DEADLOCK FALSE
