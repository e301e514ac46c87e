---------------------------- MODULE NpcKillQueue ----------------------------
(***************************************************************************)
(* How NPCs die.  Any code may mark an NPC (NPC[A].Killed) and put its     *)
(* index in NPCQueues::Killed; the end of UpdateNPCs goes through that     *)
(* queue from the last NPC to the first and calls KillNPC, which moves the *)
(* last NPC of the array into the gap.                                     *)
(*                                                                         *)
(* KillNPC runs the NPC's events.  They may hide a layer, which            *)
(* deactivates its NPCs (one that has no default type to go back to is     *)
(* marked as killed in turn), and may show a message, which leaves         *)
(* UpdateNPCs and enters it again with its locals from g_gameLoopInterrupt.*)
(* What else an event does has no part in who dies.                        *)
(*                                                                         *)
(* id is a ghost: indices change hands, ids do not.  What an NPC is and    *)
(* where it is matters only as far as it decides who is killed.            *)
(***************************************************************************)
EXTENDS Naturals, FiniteSets, Sequences, SequencesExt

CONSTANTS
  MaxNPCs,      \* the size of the array NPC
  SoftLimit,    \* maxNPCs - 100: NPCs behind it die at once
  Layers,       \* the layers
  NoLayer,      \* LAYER_NONE
  Scripts,      \* the layers that an NPC's TriggerDeath and TriggerLast events hide
  Standing,     \* does the player stand on NPCs?
  Reuse,        \* the values of: GameMenu or BattleMode
  MaxIds,       \* bound: NPCs there ever are
  MaxQueue,     \* bound: entries in the queue at the start of a frame
  MaxFrames     \* bound: frames

NoScript == [death |-> NoLayer, last |-> NoLayer]

ASSUME SizeAssumption    == MaxNPCs \in Nat \ {0} /\ SoftLimit \in 0..MaxNPCs
ASSUME LayerAssumption   == NoLayer \notin Layers
ASSUME ScriptsAssumption ==
  Scripts \subseteq [death : Layers \cup {NoLayer}, last : Layers \cup {NoLayer}]
ASSUME NoScriptAssumption == NoScript \in Scripts
ASSUME StandingAssumption == Standing \in BOOLEAN /\ Reuse \subseteq BOOLEAN
ASSUME BoundsAssumption  == {MaxIds, MaxQueue, MaxFrames} \subseteq Nat

VARIABLES
  npc, numNPCs,     \* the array and how much of it is in use
  Killed,           \* NPCQueues::Killed
  Hidden,           \* the hidden layers
  StandingOnNPC,    \* what the player stands on, 0 if no NPC
  menu_or_battle,   \* GameMenu || BattleMode
  pc,               \* where UpdateNPCs is
  i, KilledQueue_check, KilledQueue_known, A,   \* its locals, from 1
  interrupt,        \* g_gameLoopInterrupt
  ids, frames,      \* ids given out; frames
  doomed            \* ids that must be dead when the loop ends

array  == <<npc, numNPCs>>
locals == <<i, KilledQueue_check, KilledQueue_known, A>>
bounds == <<ids, frames>>
vars   == <<array, Killed, Hidden, StandingOnNPC, menu_or_battle, pc, locals, interrupt,
            bounds, doomed>>

Index == 1..MaxNPCs
Alive == 1..numNPCs

\* spawned: DefaultType is 0, the NPC came up during the level.
NPC_t == [id : Nat, spawned : BOOLEAN, layer : Layers \cup {NoLayer}, script : Scripts,
          Active : BOOLEAN, Hidden : BOOLEAN, Killed : BOOLEAN]

NoLocals    == <<0, 0, 0, 0>>
LocalsAre(v) == i' = v[1] /\ KilledQueue_check' = v[2] /\ KilledQueue_known' = v[3] /\ A' = v[4]

\* reverse_sort: the k-th of s is the one that k are as great as, and fewer greater.
AtLeast(s, v) == {j \in DOMAIN s : s[j] >= v}
Descending(s) ==
  [k \in DOMAIN s |-> CHOOSE v \in ToSet(s) : /\ Cardinality(AtLeast(s, v + 1)) < k
                                             /\ k <= Cardinality(AtLeast(s, v))]

-----------------------------------------------------------------------------
(* Deactivate, HideLayer, ShowLayer.                                       *)

\* Deactivate, which marks an NPC that has nothing to go back to.  In what order
\* several are put in the queue does not matter: it is sorted before it is read.
\* Left out: NPCs that TurnBackWipe lets die although they have a default type, where
\* the level forbids to turn back, and exits, which it spares.
Deactivated(n) == IF n.spawned THEN [n EXCEPT !.Killed = TRUE]
                  ELSE [n EXCEPT !.Killed = FALSE, !.Active = FALSE]

InLayer(l) == {k \in Alive : npc[k].layer = l}
PushedBy(S) == SetToSeq({k \in S : npc[k].spawned})

HideLayer(l) ==
  /\ npc' = [k \in Index |-> IF k \in InLayer(l)
                             THEN Deactivated([npc[k] EXCEPT !.Hidden = TRUE]) ELSE npc[k]]
  /\ Killed' = Killed \o PushedBy(InLayer(l))
  /\ Hidden' = Hidden \cup {l}

ShowLayer(l) ==
  /\ npc' = [k \in Index |-> IF k \in InLayer(l)
                             THEN [npc[k] EXCEPT !.Hidden = FALSE, !.Active = TRUE] ELSE npc[k]]
  /\ Hidden' = Hidden \ {l}

-----------------------------------------------------------------------------
(* What may happen outside UpdateNPCs' kill loop.                          *)

InFrame == /\ pc = "frame" /\ frames < MaxFrames
           /\ UNCHANGED <<menu_or_battle, pc, locals, interrupt, frames, doomed>>

\* An NPC is hit, falls in lava, is collected.
Mark ==
  /\ InFrame /\ Len(Killed) < MaxQueue
  /\ \E k \in Alive :
       /\ npc' = [npc EXCEPT ![k].Killed = TRUE]
       /\ Killed' = Append(Killed, k)
  /\ UNCHANGED <<numNPCs, Hidden, StandingOnNPC, ids>>

New(l, s) == [id |-> ids + 1, spawned |-> TRUE, layer |-> l, script |-> s,
              Active |-> TRUE, Hidden |-> FALSE, Killed |-> FALSE]

\* A generator or a block makes one.
Spawn ==
  /\ InFrame /\ ids < MaxIds /\ numNPCs < MaxNPCs
  /\ \E l \in Layers, s \in Scripts : npc' = [npc EXCEPT ![numNPCs + 1] = New(l, s)]
  /\ numNPCs' = numNPCs + 1
  /\ ids' = ids + 1
  /\ UNCHANGED <<Killed, Hidden, StandingOnNPC>>

\* Events of the frame hide and show layers.
HideByEvent ==
  /\ InFrame /\ \E l \in Layers \ Hidden : HideLayer(l)
  /\ Len(Killed') <= MaxQueue
  /\ UNCHANGED <<numNPCs, StandingOnNPC, ids>>

ShowByEvent ==
  /\ InFrame /\ \E l \in Hidden : ShowLayer(l)
  /\ UNCHANGED <<numNPCs, Killed, StandingOnNPC, ids>>

Stand ==
  /\ InFrame /\ Standing /\ StandingOnNPC' \in {0} \cup Alive
  /\ UNCHANGED <<array, Killed, Hidden, ids>>

-----------------------------------------------------------------------------
(* UpdateNPCs.                                                             *)

\* All that comes before the kill loop: NPCs behind the limit are marked and
\* hidden ones deactivated once more, unless NPCs are frozen; the queue is
\* sorted.
UpdateNPCs ==
  /\ pc = "frame" /\ frames < MaxFrames
  /\ \E FreezeNPCs \in BOOLEAN :
       LET behind == {k \in Alive : ~FreezeNPCs /\ k > SoftLimit}
           hidden == {k \in Alive : ~FreezeNPCs /\ npc[k].Hidden /\ npc[k].Active}
           queue  == Descending(Killed \o SetToSeq(behind) \o PushedBy(hidden))
       IN /\ npc' = [k \in Index |->
                       IF k \in hidden THEN Deactivated(npc[k])
                       ELSE IF k \in behind THEN [npc[k] EXCEPT !.Killed = TRUE] ELSE npc[k]]
          /\ Killed' = queue
          /\ LocalsAre(<<1, Len(queue), Len(queue), 0>>)
          /\ doomed' = {npc'[k].id : k \in {j \in ToSet(queue) \cap Alive : npc'[j].Killed}}
  /\ pc' = "loop"
  /\ frames' = frames + 1
  /\ UNCHANGED <<numNPCs, Hidden, StandingOnNPC, menu_or_battle, interrupt, ids>>

InLoop == pc = "loop" /\ i <= KilledQueue_check
ToKill == Killed[i] <= numNPCs /\ npc[Killed[i]].Killed

Pass ==
  /\ InLoop /\ ~ToKill
  /\ i' = i + 1
  /\ UNCHANGED <<array, Killed, Hidden, StandingOnNPC, menu_or_battle, pc, KilledQueue_check,
                 KilledQueue_known, A, interrupt, bounds, doomed>>

\* Those that an event marks before the NPC being killed must die as well; one
\* that is reset need not.
NewlyDoomed(l) ==
  {npc[k].id : k \in {j \in InLayer(l) : npc[j].spawned /\ j < Killed[i]}}
Reset(l) == {npc[k].id : k \in {j \in InLayer(l) : ~npc[j].spawned}}

Event(l) ==
  IF l = NoLayer THEN UNCHANGED <<npc, Killed, Hidden, doomed>>
  ELSE HideLayer(l) /\ doomed' = (doomed \ Reset(l)) \cup NewlyDoomed(l)

\* KillNPC, up to its TriggerDeath event.
KillNPC ==
  /\ InLoop /\ ToKill
  /\ A' = Killed[i]
  /\ Event(npc[A'].script.death)
  /\ pc' = "death"
  /\ UNCHANGED <<numNPCs, StandingOnNPC, menu_or_battle, i, KilledQueue_check, KilledQueue_known,
                 interrupt, bounds>>

\* Its TriggerLast event, if the NPC is the last of its layer (one without blocks)
\* or has none.
LastInLayer == npc[A].layer = NoLayer \/ InLayer(npc[A].layer) = {A}

LastEvent ==
  /\ pc \in {"death", "death_resumed"}
  /\ IF LastInLayer THEN Event(npc[A].script.last) ELSE UNCHANGED <<npc, Killed, Hidden, doomed>>
  /\ pc' = "last"
  /\ UNCHANGED <<numNPCs, StandingOnNPC, menu_or_battle, locals, interrupt, bounds>>

\* A message of either event.
NoInterrupt == [site |-> "None", A |-> 0, E |-> 0, F |-> 0]

Pause ==
  /\ \/ pc = "death" /\ npc[A].script.death # NoLayer
     \/ pc = "last"  /\ npc[A].script.last # NoLayer /\ LastInLayer
  /\ interrupt' = [site |-> pc, A |-> i, E |-> KilledQueue_check, F |-> KilledQueue_known]
  /\ pc' = "paused"
  /\ LocalsAre(NoLocals)
  /\ UNCHANGED <<array, Killed, Hidden, StandingOnNPC, menu_or_battle, bounds, doomed>>

Resume ==
  /\ pc = "paused"
  /\ pc' = IF interrupt.site = "death" THEN "death_resumed" ELSE "last_resumed"
  /\ LocalsAre(<<interrupt.A, interrupt.E, interrupt.F, Killed[interrupt.A]>>)
  /\ interrupt' = NoInterrupt
  /\ UNCHANGED <<array, Killed, Hidden, StandingOnNPC, menu_or_battle, bounds, doomed>>

\* The end of KillNPC.  It may leave a gem.
Gem   == New(NoLayer, NoScript)
NoNPC == [id |-> 0, spawned |-> FALSE, layer |-> NoLayer, script |-> NoScript,
          Active |-> FALSE, Hidden |-> FALSE, Killed |-> FALSE]

NotTold(n) == StandingOnNPC             \* mutant: players are not told
Followed(n) ==
  CASE StandingOnNPC = A -> 0
    [] StandingOnNPC = n /\ n # A -> A
    [] OTHER -> StandingOnNPC

Emptied(arr, n)    == NoNPC

TakeOut(arr, n) ==
  /\ npc' = [arr EXCEPT ![A] = arr[n], ![n] = Emptied(arr, n)]
  /\ numNPCs' = n - 1
  /\ StandingOnNPC' = Followed(n)

Revive(arr, n) ==
  /\ npc' = [arr EXCEPT ![A] = Deactivated(@)]
  /\ numNPCs' = n
  /\ UNCHANGED StandingOnNPC

\* What is new in the queue: nothing, if it is only the NPC just killed or ones
\* that no longer exist; else those before it join the loop.
AnyNew(new)  == FALSE                   \* mutant: the loop does not look at them
RealNew(new) == \E k \in ToSet(new) : k # A /\ k <= numNPCs'

Sorted(s) == Descending(s)

Update(queue) ==
  LET new    == SubSeq(queue, KilledQueue_known + 1, Len(queue))
      tail   == Descending(SubSeq(queue, KilledQueue_check + 1, Len(queue)))
      bigger == Cardinality(AtLeast(tail, A))
      after  == SubSeq(tail, 1, bigger)
      before == SubSeq(tail, bigger + 1, Len(tail))
  IN IF RealNew(new)
     THEN /\ KilledQueue_known' = Len(queue)
          /\ KilledQueue_check' = KilledQueue_check + Len(before)
          /\ Killed' = SubSeq(queue, 1, i)
                        \o Sorted(SubSeq(queue, i + 1, KilledQueue_check) \o before)
                        \o after
     ELSE /\ Killed' = SubSeq(queue, 1, KilledQueue_known)
          /\ UNCHANGED <<KilledQueue_check, KilledQueue_known>>

Die ==
  /\ pc \in {"last", "last_resumed"}
  /\ \E gem \in BOOLEAN :
       LET n   == IF gem THEN numNPCs + 1 ELSE numNPCs
           arr == IF gem THEN [npc EXCEPT ![n] = Gem] ELSE npc
       IN /\ gem => ids < MaxIds /\ numNPCs < MaxNPCs
          /\ ids' = IF gem THEN ids + 1 ELSE ids
          /\ IF menu_or_battle /\ ~npc[A].spawned THEN Revive(arr, n) ELSE TakeOut(arr, n)
  /\ Update(IF A <= numNPCs' /\ npc'[A].Killed THEN Append(Killed, A) ELSE Killed)
  /\ doomed' = doomed \ {npc[A].id}
  /\ i' = i + 1
  /\ A' = 0
  /\ pc' = "loop"
  /\ UNCHANGED <<Hidden, menu_or_battle, interrupt, frames>>

\* What is left is for the next frame.
EndLoop ==
  /\ pc = "loop" /\ i > KilledQueue_check
  /\ Killed' = SubSeq(Killed, KilledQueue_check + 1, Len(Killed))
  /\ pc' = "frame"
  /\ LocalsAre(NoLocals)
  /\ doomed' = {}
  /\ UNCHANGED <<array, Hidden, StandingOnNPC, menu_or_battle, interrupt, bounds>>

-----------------------------------------------------------------------------
\* A level that has been loaded.
Init ==
  /\ numNPCs \in 0..SoftLimit /\ ids = numNPCs /\ frames = 0
  /\ \E layer \in [1..numNPCs -> Layers], script \in [1..numNPCs -> Scripts] :
       npc = [k \in Index |->
               IF k <= numNPCs
               THEN [New(layer[k], script[k]) EXCEPT !.id = k, !.spawned = FALSE]
               ELSE NoNPC]
  /\ Killed = <<>> /\ Hidden = {} /\ StandingOnNPC = 0
  /\ menu_or_battle \in Reuse
  /\ pc = "frame" /\ interrupt = NoInterrupt /\ doomed = {}
  /\ i = 0 /\ KilledQueue_check = 0 /\ KilledQueue_known = 0 /\ A = 0

FrameLogic == Mark \/ Spawn \/ HideByEvent \/ ShowByEvent \/ Stand
KillLoop   == Pass \/ KillNPC \/ LastEvent \/ Pause \/ Resume \/ Die \/ EndLoop

Next == FrameLogic \/ UpdateNPCs \/ KillLoop

Spec == Init /\ [][Next]_vars

-----------------------------------------------------------------------------
(* Properties.                                                             *)

\* Who is marked when the loop starts, or is marked in it before the NPC being
\* killed ("sort and check the ones smaller than A"), is dead when it ends,
\* wherever the kills have moved him, unless he was reset.
NoneSurvives ==
  pc = "loop" /\ i > KilledQueue_check => doomed \cap {npc[k].id : k \in Alive} = {}

\* The player stands on the same NPC, wherever it is moved, as long as it lives.
StandingFollows ==
  [][StandingOnNPC # 0 /\ pc # "frame" =>
       LET id == npc[StandingOnNPC].id
       IN IF \E k \in 1..numNPCs' : npc'[k].id = id
          THEN StandingOnNPC' # 0 /\ npc'[StandingOnNPC'].id = id
          ELSE StandingOnNPC' = 0]_vars
=============================================================================
