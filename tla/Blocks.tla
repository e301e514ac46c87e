------------------------------- MODULE Blocks -------------------------------
(***************************************************************************)
(* The blocks that are doing something, blocks.cpp: those that were hit    *)
(* shake and run an event half way, those that were smashed run their      *)
(* death event and are destroyed, and the P switch turns coins into blocks *)
(* and blocks into coins and back.  All of it is done by UpdateBlocks, once*)
(* a frame, through iBlock, an array of indices into the array Block, which*)
(* the switch reorders.                                                    *)
(*                                                                         *)
(* An event may show a message: UpdateBlocks returns, wherever it is, and  *)
(* is entered again at that place.  It may also hide the layer the blocks  *)
(* are on, or show it.                                                     *)
(*                                                                         *)
(* A thing, a coin or a block, keeps its name through the switch.  Where it*)
(* is, is its name: blocks sorted by place are sorted by name.             *)
(***************************************************************************)
EXTENDS Integers, Sequences, FiniteSets, SequencesExt

CONSTANTS
  Things,         \* the blocks and the coins of the level, from left to right
  Coins,          \* those that are coins
  Levels,         \* the blocks and the coins of a level, in the order of the arrays
  Switched,       \* BlockPSwitch[Type] with Special = 0: blocks the switch turns into coins
  Breakable,      \* BlockIsBreakable: blocks that a hard hit destroys
  Rapid,          \* blocks with coins in them, which may be hit again as they come down
  Orders,         \* the values of emulate_classic_block_order
  Leftovers,      \* iBlock as the last level may have left it: ClearLevel forgets it
  maxBlocks, maxNPCs,      \* the sizes of Block and NPC
  maxInteresting,          \* the size of iBlock: maxBlocks, too, in the code
  LongHalf, ShortHalf,     \* frames up and frames down: 6 and 3 in the code
  SwitchTime,              \* Physics.NPCPSwitch, 777 in the code
  MaxHits,                 \* bound: hits from outside UpdateBlocks
  MaxPresses,              \* bound: times the switch is pressed
  MaxMessages              \* bound: messages shown

ASSUME ThingsAssumption == Things \subseteq Nat /\ IsFiniteSet(Things)
ASSUME LevelsAssumption ==
  \A l \in Levels : /\ l.blocks \in Seq(Things \ Coins) /\ IsInjective(l.blocks)
                   /\ l.coins \in Seq(Coins) /\ IsInjective(l.coins)
ASSUME KindsAssumption ==
  /\ Coins \subseteq Things /\ Switched \subseteq Things /\ Breakable \subseteq Things /\ Rapid \subseteq Things \ Switched
  /\ Orders \subseteq BOOLEAN
  /\ \A queue \in Leftovers : queue \in Seq(Nat \ {0}) /\ Len(queue) <= maxInteresting
ASSUME SizesAssumption ==
  /\ maxBlocks \in Nat /\ maxNPCs \in Nat /\ maxInteresting \in Nat
  /\ LongHalf \in Nat \ {0} /\ ShortHalf \in Nat \ {0} /\ SwitchTime \in Nat \ {0, 1, 2}
  /\ MaxHits \in Nat /\ MaxPresses \in Nat /\ MaxMessages \in Nat

VARIABLES
  Block, NPC,               \* Block[1..numBlock], and of the NPCs the coins
  iBlock,                   \* iBlock[1..iBlocks]
  PSwitchTime,
  emulate_classic_block_order,
  pc, A, caller,            \* where UpdateBlocks is; who has called KillBlock
  g_gameLoopInterrupt,
  hits, presses, messages,  \* how much of the bounds is used up
  owed,                     \* events of each thing that have begun and not ended
  lost, kept                \* things destroyed, collected or dropped; blocks not given back

locals == <<A, caller, g_gameLoopInterrupt>>
bounds == <<hits, presses, messages>>
fates  == <<lost, kept>>
vars   == <<Block, NPC, iBlock, PSwitchTime, emulate_classic_block_order, pc, locals, bounds,
            owed, fates>>

numBlock == Len(Block)
iBlocks  == Len(iBlock)

-----------------------------------------------------------------------------
(* Blocks, coins and shaking.                                              *)

Still == [program |-> "none", step |-> 0]
Shake(program) == [program |-> program, step |-> 0]
Half(program)  == IF program = "UPDOWN06" THEN ShortHalf ELSE LongHalf
Middle(c) == c.program # "none" /\ c.step = Half(c.program)
AtEnd(c)  == c.program # "none" /\ c.step = 2 * Half(c.program)
GoesUp(c) == (c.program = "DOWNUP12") # (c.step < Half(c.program))

NewBlock(thing, hidden, coin) ==
  [thing |-> thing, Hidden |-> hidden, Kill |-> 0, gone |-> FALSE, ShakeCounter |-> Still,
   ShakeOffset |-> 0, RapidHit |-> 0, wasCoin |-> coin]

\* Behind the end of the array there are blocks without anything in them.
Present(i) == i \in DOMAIN Block
Visible(i) == Present(i) /\ ~Block[i].Hidden
IsBreakable(b) == b.thing \in Breakable

Coin(thing, hidden, block) ==
  [thing |-> thing, Hidden |-> hidden, Killed |-> FALSE, wasBlock |-> block]

\* An entry for block i.  Only the last one is asked whether it is there.
Push(queue, i) == IF Len(queue) < maxInteresting THEN Append(queue, i) ELSE queue
PushShake(queue, i) == IF queue # <<>> /\ Last(queue) = i THEN queue ELSE Append(queue, i)

\* BlockShakeUp, BlockShakeUpPow and BlockShakeDown, of a block that is visible.
BlockShake(program, i, b) ==
  IF b.Hidden \/ iBlocks >= maxInteresting
  THEN /\ Block' = [Block EXCEPT ![i] = b]
       /\ UNCHANGED iBlock
  ELSE /\ Block' = [Block EXCEPT ![i] = [b EXCEPT !.ShakeCounter = Shake(program),
                                                  !.ShakeOffset = 0]]
       /\ iBlock' = PushShake(iBlock, i)

\* BlockHit leaves a block alone that is shaking already.  One with coins in it may
\* be hit again by itself, RapidHit times.
BlockHit(i, b, RapidHits) ==
  /\ b.ShakeCounter = Still
  /\ \E program \in {"UPDOWN12", "DOWNUP12"}, r \in RapidHits :
       BlockShake(program, i, [b EXCEPT !.RapidHit = r])

-----------------------------------------------------------------------------
(* The rest of the frame.                                                  *)

Outside ==
  /\ pc = "idle" /\ hits < MaxHits /\ hits' = hits + 1
  /\ UNCHANGED <<PSwitchTime, emulate_classic_block_order, pc, locals, presses, messages, owed>>

Hit ==
  /\ Outside
  /\ \E i \in DOMAIN Block :
       /\ Visible(i)
       /\ BlockHit(i, Block[i], {Block[i].RapidHit} \cup (IF Block[i].thing \in Rapid THEN {1} ELSE {}))
  /\ UNCHANGED <<NPC, fates>>

PowBlock ==
  /\ Outside
  /\ \E i \in DOMAIN Block : Visible(i) /\ BlockShake("UPDOWN06", i, Block[i])
  /\ UNCHANGED <<NPC, fates>>

\* BlockHitHard leaves it to UpdateBlocks whether the block breaks.
BlockHitHard ==
  /\ Outside
  /\ \E i \in DOMAIN Block :
       /\ Visible(i)
       /\ Block' = [Block EXCEPT ![i].Kill = 1]
       /\ iBlock' = Push(iBlock, i)
  /\ UNCHANGED <<NPC, fates>>

\* SafelyKillBlock does not, but leaves it the events.
SafelyKillBlock ==
  /\ Outside
  /\ \E i \in DOMAIN Block :
       /\ Visible(i)
       /\ Block' = [Block EXCEPT ![i].Kill = 9]
       /\ iBlock' = Push(iBlock, i)
  /\ UNCHANGED <<NPC, fates>>

\* A player takes a coin.
Collected(c) == /\ NPC' = [NPC EXCEPT ![c].Killed = TRUE]
                /\ lost' = lost \cup {NPC[c].thing}
                /\ UNCHANGED kept

Collect ==
  /\ Outside
  /\ \E c \in DOMAIN NPC : ~NPC[c].Hidden /\ ~NPC[c].Killed /\ Collected(c)
  /\ UNCHANGED <<Block, iBlock>>

Press ==
  /\ pc = "idle" /\ presses < MaxPresses /\ presses' = presses + 1
  /\ PSwitchTime' = SwitchTime
  /\ UNCHANGED <<Block, NPC, iBlock, emulate_classic_block_order, pc, locals, hits, messages,
                 owed, fates>>

\* HideLayer and ShowLayer, of the layer that all of this is on.
SetHidden(h) ==
  /\ Block' = [i \in DOMAIN Block |->
                 IF Block[i].gone THEN Block[i] ELSE [Block[i] EXCEPT !.Hidden = h]]
  /\ NPC' = [c \in DOMAIN NPC |-> [NPC[c] EXCEPT !.Hidden = h]]

Event == SetHidden(TRUE) \/ SetHidden(FALSE) \/ UNCHANGED <<Block, NPC>>

OtherEvent ==
  /\ Outside
  /\ Event
  /\ UNCHANGED <<iBlock, fates>>

-----------------------------------------------------------------------------
(* Messages.                                                               *)

NoInterrupt == [site |-> "None", A |-> 0, bool1 |-> FALSE]

\* ProcEvent_Safe shows a message and the function returns, its locals in
\* g_gameLoopInterrupt; or the event ends.
Interrupt(site, bool1) ==
  /\ messages < MaxMessages /\ messages' = messages + 1
  /\ g_gameLoopInterrupt' = [site |-> site, A |-> A, bool1 |-> bool1]
  /\ A' = 0 /\ caller' = "none"
  /\ pc' = "paused"
  /\ UNCHANGED owed

Proceed(to) == pc' = to /\ UNCHANGED <<locals, messages>>

Killers == {"UpdateBlocks_KillBlock", "UpdateBlocks_SwitchOff_KillBlock"}

\* The events of a hit and of a death, by whose they are.
Begin(event, t)  == owed' = [owed EXCEPT ![t][event] = @ + 1]
Finish(event, t) == owed' = [owed EXCEPT ![t][event] = @ - 1]

\* UpdateBlocks and, below it, KillBlock and PSwitch find their places again.
Unmarked(at) ==                         \* mutant: bool1 is not looked at
  CASE at.site = "UpdateBlocks_TriggerHit" -> "hit"
    [] at.site = "UpdateBlocks_SwitchOn"   -> "start"
    [] at.site = "UpdateBlocks_SwitchOff"  -> "end"
    [] OTHER                               -> "death"

ResumeAt(at) ==
  CASE at.site = "UpdateBlocks_TriggerHit" -> "hit"
    [] at.site = "UpdateBlocks_SwitchOn"   -> "start"
    [] at.site = "UpdateBlocks_SwitchOff"  -> "end"
    [] OTHER                               -> IF at.bool1 THEN "last" ELSE "death"

Resume ==
  /\ pc = "paused"
  /\ pc' = ResumeAt(g_gameLoopInterrupt)
  /\ A' = g_gameLoopInterrupt.A
  /\ caller' = IF g_gameLoopInterrupt.site \in Killers THEN g_gameLoopInterrupt.site ELSE "none"
  /\ g_gameLoopInterrupt' = NoInterrupt
  /\ UNCHANGED <<Block, NPC, iBlock, PSwitchTime, emulate_classic_block_order, bounds, owed,
                 fates>>

-----------------------------------------------------------------------------
(* The loop over iBlock.                                                   *)

\* A new frame.  First UpdateNPCs removes the coins that are to go, the last one
\* first; the last of the array takes the place of each.
UpdateNPCs ==
  /\ pc = "idle" /\ pc' = "npcs"
  /\ UNCHANGED <<Block, NPC, iBlock, PSwitchTime, emulate_classic_block_order, locals, bounds,
                 owed, fates>>

RemoveNPC ==
  /\ pc = "npcs"
  /\ \E c \in DOMAIN NPC :
       /\ NPC[c].Killed /\ \A d \in DOMAIN NPC : NPC[d].Killed => d <= c
       /\ NPC' = Front([NPC EXCEPT ![c] = Last(NPC)])
  /\ UNCHANGED <<Block, iBlock, PSwitchTime, emulate_classic_block_order, pc, locals, bounds,
                 owed, fates>>

UpdateBlocks ==
  /\ pc = "npcs" /\ \A c \in DOMAIN NPC : ~NPC[c].Killed
  /\ pc' = "queue" /\ A' = 1
  /\ UNCHANGED <<Block, NPC, iBlock, PSwitchTime, emulate_classic_block_order, caller,
                 g_gameLoopInterrupt, bounds, owed, fates>>

InLoop(at) == /\ pc = at /\ A <= iBlocks
              /\ UNCHANGED <<PSwitchTime, emulate_classic_block_order, hits, presses>>

NextEntry == /\ pc' = "queue" /\ A' = A + 1
             /\ UNCHANGED <<caller, g_gameLoopInterrupt>>

\* An entry may be left of a block that is no more.
NoBlock ==
  /\ InLoop("queue") /\ ~Present(iBlock[A])
  /\ NextEntry
  /\ UNCHANGED <<Block, NPC, iBlock, messages, owed, fates>>

AtRest(b) == [b EXCEPT !.ShakeCounter = Still, !.ShakeOffset = 0]

Shaken(b) == [b EXCEPT !.ShakeCounter.step = @ + 1,
                       !.ShakeOffset = IF GoesUp(b.ShakeCounter) THEN @ - 2 ELSE @ + 2]

ShakeStep ==
  /\ InLoop("queue") /\ Present(iBlock[A])
  /\ LET i == iBlock[A]
         b == Block[i]
         next == IF b.Hidden THEN AtRest(b) ELSE IF b.ShakeCounter = Still THEN b ELSE Shaken(b)
     IN /\ Block' = [Block EXCEPT ![i] = next]
        /\ IF Middle(next.ShakeCounter)
           THEN pc' = "hit" /\ Begin("hit", b.thing)
           ELSE pc' = "struck" /\ UNCHANGED owed
  /\ UNCHANGED <<NPC, iBlock, locals, messages, fates>>

\* TriggerHit, in the middle of the shaking.
HitEvent ==
  /\ InLoop("hit") /\ Event
  /\ \/ Interrupt("UpdateBlocks_TriggerHit", FALSE)
     \/ Proceed("struck") /\ Finish("hit", Block[iBlock[A]].thing)
  /\ UNCHANGED <<iBlock, fates>>

\* The end of the shaking, or of the block's coins that are on it.
HitAgain(b) == b.RapidHit > 0 /\ b.ShakeCounter.program # "DOWNUP12"

Struck ==
  /\ InLoop("struck")
  /\ LET i == iBlock[A]
         b == Block[i]
     IN \/ /\ AtEnd(b.ShakeCounter) /\ HitAgain(b)
           /\ BlockHit(i, [b EXCEPT !.ShakeCounter = Still], {b.RapidHit - 1})
           /\ UNCHANGED <<NPC, fates>>
        \/ /\ AtEnd(b.ShakeCounter) /\ ~HitAgain(b)
           /\ Block' = [Block EXCEPT ![i].ShakeCounter = Still]
           /\ UNCHANGED <<NPC, iBlock, fates>>
        \/ /\ ~AtEnd(b.ShakeCounter)
           /\ \/ UNCHANGED <<NPC, fates>>
              \/ /\ b.ShakeOffset # 0
                 /\ \E c \in DOMAIN NPC : ~NPC[c].Hidden /\ ~NPC[c].Killed /\ Collected(c)
           /\ UNCHANGED <<Block, iBlock>>
  /\ Proceed("smash")
  /\ UNCHANGED owed

\* Kill is looked at once.  KillBlock returns at once if the block is hidden.
Smash ==
  /\ InLoop("smash")
  /\ LET i == iBlock[A]
         b == Block[i]
     IN /\ Block' = [Block EXCEPT ![i].Kill = 0]
        /\ IF b.Kill # 0 /\ (b.Kill = 9 \/ IsBreakable(b)) /\ ~b.Hidden
           THEN /\ pc' = "death" /\ caller' = "UpdateBlocks_KillBlock"
                /\ Begin("death", b.thing)
                /\ UNCHANGED <<A, g_gameLoopInterrupt>>
           ELSE NextEntry /\ UNCHANGED owed
  /\ UNCHANGED <<NPC, iBlock, messages, fates>>

EndOfLoop ==
  /\ pc = "queue" /\ A > iBlocks
  /\ pc' = "trim" /\ A' = iBlocks
  /\ UNCHANGED <<Block, NPC, iBlock, PSwitchTime, emulate_classic_block_order, caller,
                 g_gameLoopInterrupt, bounds, owed, fates>>

\* The entries of blocks that are at rest are taken out, the last one first, by
\* the entry that is the last one then.
Without(s, k) == Front([s EXCEPT ![k] = Last(s)])

Trim ==
  /\ pc = "trim" /\ A >= 1
  /\ iBlock' = IF Present(iBlock[A]) /\ Block[iBlock[A]].ShakeCounter # Still THEN iBlock
               ELSE Without(iBlock, A)
  /\ A' = A - 1
  /\ UNCHANGED <<Block, NPC, PSwitchTime, emulate_classic_block_order, pc, caller,
                 g_gameLoopInterrupt, bounds, owed, fates>>

Trimmed ==
  /\ pc = "trim" /\ A = 0 /\ pc' = "time"
  /\ UNCHANGED <<Block, NPC, iBlock, PSwitchTime, emulate_classic_block_order, locals, bounds,
                 owed, fates>>

-----------------------------------------------------------------------------
(* KillBlock, from the loop and from PSwitch.                              *)

Victim == IF caller = "UpdateBlocks_KillBlock" THEN iBlock[A] ELSE A

InKillBlock(at) == /\ pc = at
                   /\ UNCHANGED <<iBlock, PSwitchTime, emulate_classic_block_order, hits, presses>>

DeathEvent ==
  /\ InKillBlock("death") /\ Event
  /\ \/ Interrupt(caller, FALSE)
     \/ Proceed("ask") /\ Finish("death", Block[Victim].thing)
  /\ UNCHANGED fates

\* Is nothing else left of the layer?
LastOfLayer == NPC = <<>> /\ \A k \in DOMAIN Block : k = Victim \/ Block[k].gone

AskLast ==
  /\ InKillBlock("ask")
  /\ \/ LastOfLayer /\ Proceed("last") /\ Begin("last", Block[Victim].thing)
     \/ ~LastOfLayer /\ Proceed("die") /\ UNCHANGED owed
  /\ UNCHANGED <<Block, NPC, fates>>

LastEvent ==
  /\ InKillBlock("last") /\ Event
  /\ \/ Interrupt(caller, TRUE)
     \/ Proceed("die") /\ Finish("last", Block[Victim].thing)
  /\ UNCHANGED fates

Die ==
  /\ InKillBlock("die")
  /\ LET thing == Block[Victim].thing
     IN /\ Block' = [Block EXCEPT ![Victim].Hidden = TRUE, ![Victim].gone = TRUE,
                                  ![Victim].Kill = 0]
        /\ IF caller = "UpdateBlocks_KillBlock"
           THEN pc' = "queue" /\ A' = A + 1 /\ lost' = lost \cup {thing}
           ELSE pc' = "off"   /\ A' = A - 1 /\ UNCHANGED lost
  /\ caller' = "none"
  /\ UNCHANGED <<NPC, g_gameLoopInterrupt, messages, owed, kept>>

-----------------------------------------------------------------------------
(* PSwitch.                                                                *)

InSwitch(at) == pc = at /\ UNCHANGED <<emulate_classic_block_order, hits, presses>>

NoSwitch ==
  /\ InSwitch("time") /\ PSwitchTime \in {0} \cup 1..(SwitchTime - 1)
  /\ pc' = IF PSwitchTime = 0 THEN "idle" ELSE "tick"
  /\ UNCHANGED <<Block, NPC, iBlock, PSwitchTime, locals, messages, owed, fates>>

SwitchOn ==
  /\ InSwitch("time") /\ PSwitchTime = SwitchTime
  /\ pc' = "blocks" /\ A' = 1
  /\ UNCHANGED <<Block, NPC, iBlock, PSwitchTime, caller, g_gameLoopInterrupt, messages, owed,
                 fates>>

\* The coins become blocks, as far as there is room for them; all are killed.
\* Whether one was to be killed before is not asked.
AnyCoin(c)    == ~c.Hidden              \* mutant: what the switch made a coin, too
IsCoin(c)     == ~c.wasBlock /\ ~c.Hidden
IsSwitched(c) == c.wasBlock

Transform(c, coin) ==
  /\ NPC' = [NPC EXCEPT ![c].Killed = TRUE]
  /\ IF numBlock < maxBlocks
     THEN /\ Block' = Append(Block, NewBlock(NPC[c].thing, NPC[c].Hidden, coin))
          /\ lost' = lost \ {NPC[c].thing}
     ELSE /\ lost' = lost \cup {NPC[c].thing}
          /\ UNCHANGED Block

NextNPC(at, chosen, coin) ==
  /\ InSwitch(at) /\ A \in DOMAIN NPC
  /\ IF chosen THEN Transform(A, coin) ELSE UNCHANGED <<Block, NPC, lost>>
  /\ A' = A + 1
  /\ UNCHANGED <<iBlock, PSwitchTime, pc, caller, g_gameLoopInterrupt, messages, owed, kept>>

LastNPC(at, to) ==
  /\ InSwitch(at) /\ A > Len(NPC)
  /\ pc' = to /\ A' = numBlock
  /\ UNCHANGED <<Block, NPC, iBlock, PSwitchTime, caller, g_gameLoopInterrupt, messages, owed,
                 fates>>

ToBlock     == NextNPC("blocks", IsCoin(NPC[A]), TRUE)
CoinsToTurn == LastNPC("blocks", "coins")

\* The blocks become coins, from the last one on, as far as there is room for them.
\* The last block of the array takes the place of each and is given an entry there,
\* for it may be shaking.
NoEntry(queue, i) == queue              \* mutant: the block that is moved is forgotten
Entry(queue, i) == IF ~emulate_classic_block_order /\ Len(queue) <= maxInteresting
                   THEN Append(queue, i) ELSE queue

IsTurned(b) == b.thing \in Switched /\ ~b.wasCoin /\ ~b.Hidden

ToCoin ==
  /\ InSwitch("coins") /\ A >= 1
  /\ IF IsTurned(Block[A]) /\ Len(NPC) < maxNPCs
     THEN /\ Block' = Without(Block, A)
          /\ NPC' = Append(NPC, Coin(Block[A].thing, FALSE, TRUE))
          /\ iBlock' = Entry(iBlock, A)
     ELSE UNCHANGED <<Block, NPC, iBlock>>
  /\ A' = A - 1
  /\ UNCHANGED <<PSwitchTime, pc, caller, g_gameLoopInterrupt, messages, owed, fates>>

AllTurned ==
  /\ InSwitch("coins") /\ A = 0 /\ Proceed("start")
  /\ UNCHANGED <<Block, NPC, iBlock, PSwitchTime, owed, fates>>

StartEvent ==
  /\ InSwitch("start") /\ Event
  /\ Interrupt("UpdateBlocks_SwitchOn", FALSE) \/ (Proceed("started") /\ UNCHANGED owed)
  /\ UNCHANGED <<iBlock, PSwitchTime, fates>>

\* emulate_classic_block_order: the blocks are sorted, and there is an entry for each.
Sorted ==
  IF emulate_classic_block_order
  THEN /\ \E order \in Bijection(DOMAIN Block, DOMAIN Block) :
            /\ Block' = [k \in DOMAIN Block |-> Block[order[k]]]
            /\ \A k, m \in DOMAIN Block : k < m => Block'[k].thing <= Block'[m].thing
       /\ iBlock' = [k \in DOMAIN Block |-> k]
  ELSE UNCHANGED <<Block, iBlock>>

Started ==
  /\ InSwitch("started") /\ Sorted
  /\ Proceed("tick")
  /\ UNCHANGED <<NPC, PSwitchTime, owed, fates>>

\* The time goes down.  At 1, and again at 0, the switch is over: what were blocks
\* become blocks.
Tick ==
  /\ InSwitch("tick")
  /\ PSwitchTime' = PSwitchTime - 1
  /\ IF PSwitchTime' <= 1 THEN pc' = "back" /\ A' = 1 ELSE pc' = "idle" /\ UNCHANGED A
  /\ UNCHANGED <<Block, NPC, iBlock, caller, g_gameLoopInterrupt, messages, owed, fates>>

BackToBlock == NextNPC("back", IsSwitched(NPC[A]), FALSE)
BackToTurn  == LastNPC("back", "off")

\* What were coins become coins, while there is room, and their blocks are killed,
\* which runs their events.
GivesBack(b) == b.wasCoin /\ ~b.Hidden

GiveBack ==
  /\ pc = "off" /\ A >= 1 /\ GivesBack(Block[A]) /\ Len(NPC) < maxNPCs
  /\ NPC' = Append(NPC, Coin(Block[A].thing, FALSE, FALSE))
  /\ pc' = "death" /\ caller' = "UpdateBlocks_SwitchOff_KillBlock"
  /\ Begin("death", Block[A].thing)
  /\ kept' = kept \ {Block[A].thing}
  /\ UNCHANGED <<Block, iBlock, PSwitchTime, emulate_classic_block_order, A,
                 g_gameLoopInterrupt, bounds, lost>>

PassOver ==
  /\ InSwitch("off") /\ A >= 1 /\ ~GivesBack(Block[A])
  /\ A' = A - 1
  /\ kept' = IF Block[A].wasCoin /\ ~Block[A].gone THEN kept \cup {Block[A].thing} ELSE kept
  /\ UNCHANGED <<Block, NPC, iBlock, PSwitchTime, pc, caller, g_gameLoopInterrupt, messages,
                 owed, lost>>

SwitchDone ==
  /\ InSwitch("off")
  /\ A >= 1 => GivesBack(Block[A]) /\ Len(NPC) >= maxNPCs
  /\ kept' = kept \cup {Block[i].thing : i \in {k \in 1..A : Block[k].wasCoin /\ ~Block[k].gone}}
  /\ pc' = "end" /\ A' = 0
  /\ UNCHANGED <<Block, NPC, iBlock, PSwitchTime, caller, g_gameLoopInterrupt, messages, owed,
                 lost>>

EndEvent ==
  /\ InSwitch("end") /\ Event
  /\ Interrupt("UpdateBlocks_SwitchOff", FALSE) \/ (Proceed("ended") /\ UNCHANGED owed)
  /\ UNCHANGED <<iBlock, PSwitchTime, fates>>

Ended ==
  /\ InSwitch("ended") /\ Sorted
  /\ Proceed("idle")
  /\ UNCHANGED <<NPC, PSwitchTime, owed, fates>>

-----------------------------------------------------------------------------
Init ==
  /\ \E level \in Levels :
       /\ Block = [i \in DOMAIN level.blocks |-> NewBlock(level.blocks[i], FALSE, FALSE)]
       /\ NPC = [c \in DOMAIN level.coins |-> Coin(level.coins[c], FALSE, FALSE)]
       /\ lost = Things \ Range(level.blocks \o level.coins)
  /\ iBlock \in Leftovers /\ PSwitchTime = 0
  /\ emulate_classic_block_order \in Orders
  /\ pc = "idle" /\ A = 0 /\ caller = "none" /\ g_gameLoopInterrupt = NoInterrupt
  /\ hits = 0 /\ presses = 0 /\ messages = 0
  /\ owed = [t \in Things |-> [hit |-> 0, death |-> 0, last |-> 0]]
  /\ kept = {}

RestOfFrame == Hit \/ PowBlock \/ BlockHitHard \/ SafelyKillBlock \/ Collect \/ Press \/ OtherEvent
Coming == UpdateNPCs \/ RemoveNPC \/ UpdateBlocks
Loop   == NoBlock \/ ShakeStep \/ HitEvent \/ Struck \/ Smash \/ EndOfLoop \/ Trim \/ Trimmed
Kill   == DeathEvent \/ AskLast \/ LastEvent \/ Die
PSwitch == \/ NoSwitch \/ SwitchOn \/ ToBlock \/ CoinsToTurn \/ ToCoin \/ AllTurned
           \/ StartEvent \/ Started \/ Tick \/ BackToBlock \/ BackToTurn
           \/ GiveBack \/ PassOver \/ SwitchDone \/ EndEvent \/ Ended

Next == RestOfFrame \/ Coming \/ Loop \/ Kill \/ PSwitch \/ Resume

Spec == Init /\ [][Next]_vars

-----------------------------------------------------------------------------
(* Properties.                                                             *)

\* Between frames no block is left halfway, or moved, or doomed, without an entry
\* that will take it on: whatever order the array is in, whatever was moved into
\* the place of what, and however often a block was hit, as long as iBlock, which
\* has 20,000 entries, does not fill up.
NoneForgotten ==
  pc = "idle" =>
    \A i \in DOMAIN Block :
      \/ Block[i].ShakeCounter = Still /\ Block[i].ShakeOffset = 0 /\ Block[i].Kill = 0
      \/ \E k \in DOMAIN iBlock : iBlock[k] = i

\* An event that a hit or a death has begun runs to its end, once, though messages
\* leave UpdateBlocks in the middle of it: none is left halfway, none is ended twice.
EventsWhole == pc = "idle" => \A t \in Things : owed[t] = [hit |-> 0, death |-> 0, last |-> 0]

\* The switch makes nothing and takes nothing: each thing that was not destroyed,
\* collected or dropped for want of room is there once, as a block or as a coin.
\* Once it is over each is what it was, except blocks that were hidden then or for
\* whose coin there was no room.
Places(t) == Cardinality({i \in DOMAIN Block : Block[i].thing = t /\ ~Block[i].gone})
               + Cardinality({c \in DOMAIN NPC : NPC[c].thing = t /\ ~NPC[c].Killed})

SwitchGivesBack ==
  pc = "idle" =>
    /\ \A t \in Things : Places(t) = IF t \in lost THEN 0 ELSE 1
    /\ PSwitchTime = 0 =>
         /\ \A i \in DOMAIN Block : Block[i].thing \in Coins => Block[i].gone \/ Block[i].thing \in kept
         /\ \A c \in DOMAIN NPC : NPC[c].thing \notin Coins => NPC[c].Killed
=============================================================================
