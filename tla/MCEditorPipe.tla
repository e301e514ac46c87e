---------------------------- MODULE MCEditorPipe ----------------------------
(* EditorPipe for TLC. *)
EXTENDS EditorPipe
=============================================================================
