CONSTANTS
  InitLines = 3
  MaxLines = 4
  MaxReads = 1
  MaxEdits = 2
  MaxForeign = 1
  MaxHunks = 2
  NFiles = 3
  Shapes = {{1, 2}, {2, 3}}
  Appliers = {"r1", "r2"}
  MaxEntries = 1
  MaxPreviews = 2
  MaxRewrites = 1
  MaxDeaths = 1
  MaxFailures = 1
  ToolCalls = {"c1", "c2", "c3"}
  ClaimTtl = 2
  MaxClaims = 2
  MaxClock = 3
  Fingerprints = {"f1", "f2", "f3"}
  Runners = {"g1", "g2"}
  BlockAfterNoops = 2
  MaxFingerprints = 2
  RunIds = {"b1", "b2", "b3"}
  MaxConcurrent = 2
  Checks = {"d1", "d2", "d3"}
  Edits = {"e1", "e2"}
  Undoers = {"u1"}
  Paths = {1, 2, 3}
  Values = {"old", "a", "b"}
  Existing = {1, 2}
  Old = "old"
  Absent = "absent"
  Scripts <- TheUndoScripts
  NoTransaction = "none"
  MaxFaults = 1
  InsertedTexts <- MCHashTexts
  HashOf <- TheHashOf
  LooseOf <- TheLooseOf
  Structural <- MCBareLines
  Heads = {"f"}
  Blank = ""
  FileTexts <- TheFileTexts
  Replacements <- TheContents
  Window = 2
  MaxDrift = 2
  CallPaths <- ThePaths
  LinksTo <- TheLinks
  Tree <- TheTree
  Scenes <- TheScenes
  ForeignContents <- TheOthers
  MaxForeignWrites = 1
  MaxCallFaults = 1
  AtomicPaths = {"a", "b", "n"}
  Missing <- TheAtomicAbsent
  Trees <- MCAtomicTrees
  Envelopes <- TheAtomicEnvelopes
  MaxAttempts = 2
  MaxOpFaults = 2
  LoopFiles = {"f", "g"}
  Candidates <- TheRepairTexts
  Space = " "
  Template = "tick"
  Faulty = {"todo"}
  MaxRetries = 2
  Tracked = 1
  MaxCount = 6
  MaxChanges = 1
SPECIFICATION SessionSpec
INVARIANTS  WholeRefactor NeverDouble NoEndlessNoop SlotsAreHonest OneMode
  TargetIsTheOne BatchIsSimultaneous RelocationFollowsTheLines NothingLostInTransfer
  PatchMeansItsChanges NothingLostUnsaid AppliedIsWhatWasAsked ChangesAreReported SuccessIsWhole RepairIsSafe
PROPERTIES  RefactorReplacesItsBase UndoRestores FailedUndoChangesNothing
CHECK_DEADLOCK FALSE
