---------------------------- MODULE MCAtomicPatch ----------------------------
EXTENDS AtomicPatch, MCAtomicScenes
MCAtomicTrees == {MCAtomicTree}
=============================================================================
