---------------------------- MODULE NetLockstep ----------------------------
(***************************************************************************)
(* What NetPlay promises to one client.  A server closes numbered frames,  *)
(* some of them with messages in them.  The client plays the frames in     *)
(* order, never one that is not closed yet, and runs the messages of a     *)
(* frame in that frame.  Once the connection is lost it plays on by itself *)
(* and no message of the server is run any more.                           *)
(***************************************************************************)
EXTENDS Naturals, Sequences

CONSTANTS MaxFrame, BusyFrames

VARIABLES
  closed,    \* the last frame the server has closed
  busy,      \* the closed frames that hold messages
  played,    \* the last frame the client has played
  run,       \* the messages it has run, as frame numbers, in order
  lost       \* has the connection been lost?

lockstepVars == <<closed, busy, played, run, lost>>

Init ==
  /\ closed \in 0..MaxFrame
  /\ busy \in SUBSET (BusyFrames \cap (1..closed))
  /\ played = 0 /\ run = <<>> /\ lost = FALSE

Close ==
  /\ closed < MaxFrame
  /\ closed' = closed + 1
  /\ \/ UNCHANGED busy
     \/ closed' \in BusyFrames /\ busy' = busy \cup {closed'}
  /\ UNCHANGED <<played, run, lost>>

Play ==
  /\ played < closed
  /\ played' = played + 1
  /\ run' = IF played' \in busy THEN Append(run, played') ELSE run
  /\ UNCHANGED <<closed, busy, lost>>

Lose == ~lost /\ lost' = TRUE /\ UNCHANGED <<closed, busy, played, run>>

PlayAlone ==
  /\ lost /\ played < MaxFrame
  /\ played' = played + 1
  /\ UNCHANGED <<closed, busy, run, lost>>

Next == Close \/ Play \/ Lose \/ PlayAlone

Spec == Init /\ [][Next]_lockstepVars
=============================================================================
