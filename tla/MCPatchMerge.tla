---------------------------- MODULE MCPatchMerge ----------------------------
(* Two patches, a naqsha.toml, one tool file and one file that no backup   *)
(* covers; two merges with room for one backup, one break anywhere.        *)
EXTENDS PatchMerge

CONSTANTS p1, p2, toml, t, o

MCPatch == {p1, p2}
MCTools == {t}
MCOther == {o}
=============================================================================
