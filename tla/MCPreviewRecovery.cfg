CONSTANTS
  r1 = r1
  r2 = r2
  NFiles = 2
  Shapes <- MCShapes
  Appliers <- MCAppliers
  MaxEntries = 1
  MaxPreviews = 2
  MaxRewrites = 1
  MaxDeaths = 1
  MaxFailures = 1
SPECIFICATION PreviewSpec
PROPERTY RecoveryKeepsEdits
CHECK_DEADLOCK FALSE
