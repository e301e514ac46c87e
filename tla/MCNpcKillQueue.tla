--------------------------- MODULE MCNpcKillQueue ---------------------------
(* NpcKillQueue for TLC.                                                   *)
EXTENDS NpcKillQueue, TLC

CONSTANTS l1, l2

\* An NPC has no event, or one of either kind, that hides layer l2.
OneEvent == {s \in [death : {l2, NoLayer}, last : {l2, NoLayer}] :
               s.death = NoLayer \/ s.last = NoLayer}
=============================================================================
