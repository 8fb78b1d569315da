SPECIFICATION LiveSpec
CONSTANTS
  MaxMain = 1
  MaxCrashes = 3
  Lagging = {"platform"}
INVARIANTS SignedOnce PublishedIsWhole PublicIsBacked
PROPERTIES PublishedStands DraftIsPublished
