CONSTANTS
  Hold = 3
  MinKnown = 4
  MaxKnown = 5
SPECIFICATION FairSpec
PROPERTIES ReleaseWhenSteady DropNeedsRelease EmptyHeld HoldUntilClear DropReleased
