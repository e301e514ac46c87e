----------------------------- MODULE MCSafeSet -----------------------------
(* SafeSet for TLC.                                                        *)
EXTENDS SafeSet, TLC

\* The last values that there are.
MCValues == 1..4
=============================================================================
