----------------------------- MODULE MCFileMap ------------------------------
(* Two files of one page each, two user fds, two mapids and a region of   *)
(* two pages: enough for two live mappings, a mapping re-made at a freed *)
(* address, and a fd closed and re-opened on the other file.  The files  *)
(* are model values and play interchangeable roles.                       *)
EXTENDS FileMap, TLC

CONSTANTS fA, fB

MCFiles == {fA, fB}
MCOneFile == {fA}
MCSymmetry == Permutations(MCFiles)
=============================================================================
