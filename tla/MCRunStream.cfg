SPECIFICATION FairSpec
CONSTANTS
  MaxCount = 1
  IdlePolls = 1
  MaxWire = 1
PROPERTIES
  ShownNeverGoesBack
  SaysInOrder
  EndIsShown
CHECK_DEADLOCK FALSE
