----------------------------- MODULE MCPatchCall -----------------------------
EXTENDS PatchCall, MCCallScenes
(* patch.ts:27-28: "For line-range resources: only the attested lines may  *)
(* be edited."                                                             *)
OnlyAttested == [][AttestedLinesOnly]_cvars
=============================================================================
