CONSTANTS
  AtomicPaths = {"a", "b", "n"}
  Missing <- MCAtomicAbsent
  Trees <- MCAtomicTrees
  Envelopes <- MCAtomicEnvelopes
  MaxAttempts = 2
  MaxOpFaults = 0
SPECIFICATION AtomicSpec
INVARIANT FailedPatchChangesNothing
CHECK_DEADLOCK FALSE
