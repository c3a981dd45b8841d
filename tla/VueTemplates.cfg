SPECIFICATION Spec
CONSTANTS
  Turn <- RunTurn
  Options <- MCOptions
  Factories <- MCFactories
  Lazy = {}
  ReservedTags <- MCReservedTags
  ConfigKeyCodes <- MCConfigKeyCodes
  CssTransitions <- MCCssTransitions
  MAX_UPDATE_COUNT = 4
  Roots <- MCRoots
  Tasks <- MCTasks
  Touched = {}
  Texts = {}
  Keystrokes = {}
  MaxEvents = 2
INVARIANT DomIsMeaning
PROPERTY KeyedKept
CHECK_DEADLOCK FALSE
