SPECIFICATION Spec
CONSTANTS
  Turn <- RunTurn
  Options <- UpdateOptions
  Factories <- UpdateFactories
  Lazy = {}
  ReservedTags <- MCReservedTags
  ConfigKeyCodes <- MCConfigKeyCodes
  CssTransitions <- UpdateCssTransitions
  MAX_UPDATE_COUNT = 4
  Roots <- UpdateRoots
  Tasks <- UpdateTasks
  Touched = {"button", "i"}
  Texts <- MCTexts
  Keystrokes <- MCKeystrokes
  MaxEvents = 3
INVARIANTS ShowsItsData SubscriptionsAgree NotByTheClickThatMadeIt
PROPERTY RenderedOncePerFlush
CHECK_DEADLOCK FALSE
