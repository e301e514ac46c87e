---------------------------- MODULE MCSfxThread ----------------------------
(* SfxThread for TLC.                                                      *)
EXTENDS SfxThread, TLC
=============================================================================
