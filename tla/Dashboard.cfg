SPECIFICATION FairSpec
CONSTANTS
  Installations = {"mine", "other"}
  Connected = {"mine"}
  PAGE_LIMIT = 1
  RECENT = 1
  MaxRows = 2
  Flow <- MCFlow
  Terminal <- MCTerminal
  Slots = {1, 2}
  MaxPage = 2
  MaxSteps = 2
  MaxTroubles = 1
  Screens <- MCScreens
INVARIANTS
  OwnRowsOnly
  ListShowsItsPage
PROPERTIES
  DetailCatchesUp
CHECK_DEADLOCK FALSE
