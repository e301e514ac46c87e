---------------------------- MODULE MCNetFrames ----------------------------
(* Small instances of NetFrames.                                           *)
EXTENDS NetFrames
=============================================================================
