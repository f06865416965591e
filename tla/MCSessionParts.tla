------------------------------ MODULE MCSessionParts ----------------------------
(***************************************************************************)
(* The parts of a session that are checked one by one, each on an instance *)
(* of its own.  They share no state, so one of them moves in a behaviour:  *)
(* the state spaces are added, not multiplied.                             *)
(***************************************************************************)
EXTENDS EditAuthority, RefactorPreview, DiagnosticsOwner, LoopGuard, BackgroundRuns, DiagnosticsMode,
        UndoHistory, MCUndoScenes, MCTextParts

MCBareLines == {"}", ""}
MCAtomicTrees == {MCAtomicTree}

(* Constants are given the names of values that have been computed once.   *)
TheUndoScripts == MCUndoScripts
TheHashOf == MCHashOf
TheLooseOf == MCLooseOf
TheFileTexts == MCFileTexts
TheContents == MCContents
ThePaths == MCPaths
TheLinks == MCLinks
TheTree == MCTree
TheScenes == MCScenes
TheOthers == MCOthers
TheAtomicAbsent == MCAtomicAbsent
TheAtomicEnvelopes == MCAtomicEnvelopes
TheRepairTexts == MCRepairTexts

ServiceParts == {"authority", "preview", "owner", "guard", "background", "mode", "undo"}
serviceVars == <<vars, pvars, ovars, gvars, bvars, dvars, uvars>>
allvars == <<serviceVars, textVars, part>>

SessionInit ==
  /\ part \in ServiceParts \cup TextParts
  /\ Init /\ PreviewInit /\ OwnerInit /\ GuardInit /\ RunsInit /\ ModeInit /\ UndoInit
  /\ TextInit

Moving(p) == part = p /\ UNCHANGED <<part, textVars>>

SessionNext ==
  \/ Moving("authority") /\ Next /\ UNCHANGED <<pvars, ovars, gvars, bvars, dvars, uvars>>
  \/ Moving("preview") /\ PreviewNext /\ UNCHANGED <<vars, ovars, gvars, bvars, dvars, uvars>>
  \/ Moving("owner") /\ OwnerNext /\ UNCHANGED <<vars, pvars, gvars, bvars, dvars, uvars>>
  \/ Moving("guard") /\ GuardNext /\ UNCHANGED <<vars, pvars, ovars, bvars, dvars, uvars>>
  \/ Moving("background") /\ RunsNext /\ UNCHANGED <<vars, pvars, ovars, gvars, dvars, uvars>>
  \/ Moving("mode") /\ ModeNext /\ UNCHANGED <<vars, pvars, ovars, gvars, bvars, uvars>>
  \/ Moving("undo") /\ UndoNext /\ UNCHANGED <<vars, pvars, ovars, gvars, bvars, dvars>>
  \/ TextNext /\ UNCHANGED <<part, serviceVars>>

SessionSpec == SessionInit /\ [][SessionNext]_allvars
===============================================================================
