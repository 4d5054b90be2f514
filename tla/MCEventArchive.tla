--------------------------- MODULE MCEventArchive ---------------------------
(***************************************************************************)
(* Instances of EventArchive for TLC.                                      *)
(***************************************************************************)
EXTENDS EventArchive, TLC
=============================================================================
