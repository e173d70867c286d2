--------------------------- MODULE MCRegionReader ---------------------------
(* RegionReader for TLC.  The constants are given in the .cfg files. *)
EXTENDS RegionReader
=============================================================================
