SPECIFICATION Spec
CONSTANTS
  MaxMain = 0
  MaxCrashes = 2
  Lagging = {"author", "platform"}
INVARIANT SignedOnce
