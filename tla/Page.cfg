CONSTANTS
  Openers = {"o1"}
  MaxShows = 3
  PanelCount = 3
  MaxWaiting = 3
  Items = 3
  MaxJumps = 1
  MaxPending = 2
  TabIds = {1, 2, 3}
  MaxFades = 2
  MenuIds = {1, 2, 3}
  MaxItems = 3
SPECIFICATION Spec
INVARIANTS PageTypeOK SettledPage SettledPanes SettledSlides SettledTip
PROPERTY PageUncovered
CHECK_DEADLOCK FALSE
