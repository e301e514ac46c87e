---------------------------- MODULE BlocksProofs ----------------------------
(***************************************************************************)
(* UpdateBlocks, proved for every level, every size of the arrays and      *)
(* every schedule of hits, events, messages and presses of the switch.     *)
(***************************************************************************)
EXTENDS Blocks, FiniteSetTheorems, TLAPS

-----------------------------------------------------------------------------
(* Where UpdateBlocks is, whether it runs or has left for a message.       *)

Killing  == {"death", "ask", "last", "die"}
Stages   == {"idle", "npcs", "queue", "hit", "struck", "smash", "trim", "time", "blocks", "coins",
             "start", "started", "tick", "back", "off", "end", "ended"} \cup Killing
Sites    == {"None", "UpdateBlocks_TriggerHit", "UpdateBlocks_SwitchOn", "UpdateBlocks_SwitchOff"}
              \cup Killers

Stage == IF pc = "paused" THEN ResumeAt(g_gameLoopInterrupt) ELSE pc
At    == IF pc = "paused" THEN g_gameLoopInterrupt.A ELSE A
By    == IF pc = "paused"
         THEN IF g_gameLoopInterrupt.site \in Killers THEN g_gameLoopInterrupt.site ELSE "none"
         ELSE caller

\* It is at an entry of iBlock; PSwitch is killing a block; the block in question.
FromLoop   == \/ Stage \in {"hit", "struck", "smash"}
              \/ Stage \in Killing /\ By = "UpdateBlocks_KillBlock"
FromSwitch == Stage \in Killing /\ By = "UpdateBlocks_SwitchOff_KillBlock"
Now        == IF FromLoop THEN iBlock[At] ELSE At

-----------------------------------------------------------------------------
(* The invariant: types and places, events.                                *)

Programs == {"none", "UPDOWN12", "UPDOWN06", "DOWNUP12"}
Counter  == [program : Programs, step : Nat]
Block_t  == [thing : Things, Hidden : BOOLEAN, Kill : {0, 1, 9}, gone : BOOLEAN,
             ShakeCounter : Counter, ShakeOffset : Int, RapidHit : Nat, wasCoin : BOOLEAN]
NPC_t    == [thing : Things, Hidden : BOOLEAN, Killed : BOOLEAN, wasBlock : BOOLEAN]
Index    == Nat \ {0}

TypeOK ==
  /\ Block \in Seq(Block_t) /\ NPC \in Seq(NPC_t) /\ iBlock \in Seq(Index)
  /\ PSwitchTime \in 0..SwitchTime /\ emulate_classic_block_order \in BOOLEAN
  /\ pc \in Stages \cup {"paused"} /\ A \in Nat /\ caller \in Killers \cup {"none"}
  /\ g_gameLoopInterrupt \in [site : Sites, A : Nat, bool1 : BOOLEAN]
  /\ owed \in [Things -> [hit : Int, death : Int, last : Int]]
  /\ lost \subseteq Things /\ kept \subseteq Things

\* Indices are within the arrays, and the switch's time fits the place.
Place ==
  /\ pc = "paused" => g_gameLoopInterrupt.site # "None"
  /\ IF Stage \in Killing THEN By \in Killers ELSE By = "none"
  /\ Stage \in {"queue", "blocks", "back"} => At >= 1
  /\ FromLoop => At \in DOMAIN iBlock /\ iBlock[At] \in DOMAIN Block
  /\ FromSwitch => At \in DOMAIN Block
  /\ Stage = "trim" => At <= iBlocks
  /\ Stage \in {"coins", "off"} => At <= numBlock
  /\ Stage \in {"blocks", "coins", "start", "started"} => PSwitchTime = SwitchTime
  /\ Stage = "tick" => PSwitchTime >= 1
  /\ Stage \in {"back", "off", "end", "ended"} \/ FromSwitch => PSwitchTime <= 1

\* An event has begun and not ended if UpdateBlocks is at it, and no other has.
Owes(event, t) == IF Stage = event /\ t = Block[Now].thing THEN 1 ELSE 0
Owing == \A t \in Things : owed[t] = [hit |-> Owes("hit", t), death |-> Owes("death", t),
                                      last |-> Owes("last", t)]

BaseInv == TypeOK /\ Place /\ Owing

-----------------------------------------------------------------------------
(* Places.                                                                 *)

LEMMA Here ==
  ASSUME pc # "paused"
  PROVE  Stage = pc /\ At = A /\ By = caller
BY DEF Stage, At, By

LEMMA HereNext ==
  ASSUME pc' # "paused"
  PROVE  Stage' = pc' /\ At' = A' /\ By' = caller'
BY DEF Stage, At, By

\* A message leaves UpdateBlocks where it is.
LEMMA Interrupted ==
  ASSUME pc # "paused", NEW site, NEW bool1, Interrupt(site, bool1),
         ResumeAt([site |-> site, A |-> A, bool1 |-> bool1]) = pc,
         caller = IF site \in Killers THEN site ELSE "none"
  PROVE  Stage' = Stage /\ At' = At /\ By' = By
<1>1. /\ pc' = "paused" /\ g_gameLoopInterrupt' = [site |-> site, A |-> A, bool1 |-> bool1]
  BY DEF Interrupt
<1> QED BY <1>1, Here DEF Stage, At, By

LEMMA Resumed ==
  ASSUME Resume
  PROVE  Stage' = Stage /\ At' = At /\ By' = By
<1>1. pc = "paused" /\ pc' = ResumeAt(g_gameLoopInterrupt) /\ pc' # "paused"
  BY DEF Resume, ResumeAt
<1> QED BY <1>1, HereNext DEF Resume, Stage, At, By

LEMMA ResumeIs ==
  ASSUME NEW a, NEW bool1 \in BOOLEAN
  PROVE  /\ ResumeAt([site |-> "UpdateBlocks_TriggerHit", A |-> a, bool1 |-> bool1]) = "hit"
         /\ ResumeAt([site |-> "UpdateBlocks_SwitchOn", A |-> a, bool1 |-> bool1]) = "start"
         /\ ResumeAt([site |-> "UpdateBlocks_SwitchOff", A |-> a, bool1 |-> bool1]) = "end"
         /\ \A site \in Killers :
              ResumeAt([site |-> site, A |-> a, bool1 |-> bool1]) = IF bool1 THEN "last" ELSE "death"
BY DEF ResumeAt, Killers

LEMMA SamePlace ==
  ASSUME Stage' = Stage, At' = At, By' = By
  PROVE  /\ FromLoop' = FromLoop /\ FromSwitch' = FromSwitch
         /\ iBlock' = iBlock => Now' = Now
BY DEF FromLoop, FromSwitch, Now

-----------------------------------------------------------------------------
(* Arrays.                                                                 *)

LEMMA Exchanged ==
  ASSUME NEW S, NEW s \in Seq(S), NEW i \in DOMAIN s, NEW e \in S
  PROVE  LET t == [s EXCEPT ![i] = e] IN
         /\ t \in Seq(S) /\ Len(t) = Len(s) /\ DOMAIN t = DOMAIN s
         /\ t[i] = e /\ \A j \in DOMAIN s : j # i => t[j] = s[j]
OBVIOUS

LEMMA Appended ==
  ASSUME NEW S, NEW s \in Seq(S), NEW e \in S
  PROVE  LET t == Append(s, e) IN
         /\ t \in Seq(S) /\ Len(t) = Len(s) + 1 /\ DOMAIN t = 1..(Len(s) + 1)
         /\ DOMAIN s = 1..Len(s) /\ Len(s) \in Nat
         /\ t[Len(s) + 1] = e /\ \A j \in DOMAIN s : t[j] = s[j]
OBVIOUS

\* The last element takes the place of the one taken out.
LEMMA WithoutIs ==
  ASSUME NEW S, NEW s \in Seq(S), NEW i \in DOMAIN s
  PROVE  LET t == Without(s, i) IN
         /\ t \in Seq(S) /\ Len(t) = Len(s) - 1 /\ DOMAIN t = 1..(Len(s) - 1)
         /\ DOMAIN s = 1..Len(s) /\ Len(s) \in Nat
         /\ \A j \in 1..(Len(s) - 1) : t[j] = IF j = i THEN s[Len(s)] ELSE s[j]
<1> DEFINE u == [s EXCEPT ![i] = s[Len(s)]]
<1>1. Len(s) \in Nat \ {0} /\ DOMAIN s = 1..Len(s) /\ s[Len(s)] \in S
  OBVIOUS
<1>2. u \in Seq(S) /\ Len(u) = Len(s) /\ \A j \in 1..Len(s) : u[j] = IF j = i THEN s[Len(s)] ELSE s[j]
  BY <1>1
<1>3. Without(s, i) = SubSeq(u, 1, Len(u) - 1)
  BY DEF Without, Last, Front
<1> HIDE DEF u
<1>4. /\ SubSeq(u, 1, Len(u) - 1) \in Seq(S) /\ Len(SubSeq(u, 1, Len(u) - 1)) = Len(u) - 1
      /\ \A j \in 1..(Len(u) - 1) : SubSeq(u, 1, Len(u) - 1)[j] = u[j]
  BY <1>1, <1>2
<1> QED BY <1>1, <1>2, <1>3, <1>4

-----------------------------------------------------------------------------
(* What is done to blocks and coins.                                       *)

\* Blocks are changed where they are: which they are, what they were and whether
\* they are gone stays the same.
Steady ==
  /\ Block' \in Seq(Block_t) /\ Len(Block') = Len(Block) /\ DOMAIN Block' = DOMAIN Block
  /\ \A i \in DOMAIN Block :
       /\ Block'[i].thing = Block[i].thing /\ Block'[i].gone = Block[i].gone
       /\ Block'[i].wasCoin = Block[i].wasCoin
       /\ Block[i].gone => Block'[i].Hidden = Block[i].Hidden

SteadyNPC ==
  /\ NPC' \in Seq(NPC_t) /\ Len(NPC') = Len(NPC) /\ DOMAIN NPC' = DOMAIN NPC
  /\ \A c \in DOMAIN NPC : /\ NPC'[c].thing = NPC[c].thing /\ NPC'[c].Killed = NPC[c].Killed
                           /\ NPC'[c].wasBlock = NPC[c].wasBlock

LEMMA HalfIs ==
  ASSUME NEW program
  PROVE  Half(program) \in Nat \ {0}
BY SizesAssumption DEF Half

LEMMA CounterTypes ==
  /\ Still \in Counter /\ Still.program = "none" /\ Still.step = 0
  /\ \A program \in Programs : /\ Shake(program) \in Counter /\ Shake(program).program = program
                               /\ Shake(program).step = 0
                               /\ program # "none" => Shake(program) # Still
BY DEF Still, Shake, Counter, Programs

LEMMA SteadyOne ==
  ASSUME TypeOK, NEW i \in DOMAIN Block, NEW b \in Block_t, Block' = [Block EXCEPT ![i] = b],
         b.thing = Block[i].thing, b.gone = Block[i].gone, b.wasCoin = Block[i].wasCoin,
         Block[i].gone => b.Hidden = Block[i].Hidden
  PROVE  Steady /\ Block'[i] = b /\ \A j \in DOMAIN Block : j # i => Block'[j] = Block[j]
<1>1. Block \in Seq(Block_t)
  BY DEF TypeOK
<1>2. /\ Block' \in Seq(Block_t) /\ Len(Block') = Len(Block) /\ DOMAIN Block' = DOMAIN Block
      /\ Block'[i] = b /\ \A j \in DOMAIN Block : j # i => Block'[j] = Block[j]
  BY <1>1, Exchanged
<1> QED BY <1>2 DEF Steady

LEMMA SteadyNot ==
  ASSUME TypeOK, Block' = Block
  PROVE  Steady
BY DEF Steady, TypeOK

LEMMA SteadyNPCNot ==
  ASSUME TypeOK, NPC' = NPC
  PROVE  SteadyNPC
BY DEF SteadyNPC, TypeOK

LEMMA BlockIs ==
  ASSUME TypeOK, NEW i \in DOMAIN Block
  PROVE  Block[i] \in Block_t /\ Len(Block) \in Nat /\ DOMAIN Block = 1..Len(Block) /\ i \in Index
BY DEF TypeOK, Index

LEMMA CoinIs ==
  ASSUME TypeOK, NEW c \in DOMAIN NPC
  PROVE  NPC[c] \in NPC_t /\ Len(NPC) \in Nat /\ DOMAIN NPC = 1..Len(NPC) /\ c \in Index
BY DEF TypeOK, Index

LEMMA EntryIs ==
  ASSUME TypeOK, NEW k \in DOMAIN iBlock
  PROVE  iBlock[k] \in Index /\ Len(iBlock) \in Nat /\ DOMAIN iBlock = 1..Len(iBlock) /\ k \in Index
BY DEF TypeOK, Index

\* An event hides or shows the layer.
LEMMA EventDoes ==
  ASSUME TypeOK, Event
  PROVE  /\ Steady /\ SteadyNPC
         /\ \A i \in DOMAIN Block : /\ Block'[i].Kill = Block[i].Kill
                                    /\ Block'[i].ShakeCounter = Block[i].ShakeCounter
                                    /\ Block'[i].ShakeOffset = Block[i].ShakeOffset
<1>1. ASSUME NEW h \in BOOLEAN, SetHidden(h)
      PROVE  /\ Steady /\ SteadyNPC
             /\ \A i \in DOMAIN Block : /\ Block'[i].Kill = Block[i].Kill
                                        /\ Block'[i].ShakeCounter = Block[i].ShakeCounter
                                        /\ Block'[i].ShakeOffset = Block[i].ShakeOffset
  <2> DEFINE b(i) == IF Block[i].gone THEN Block[i] ELSE [Block[i] EXCEPT !.Hidden = h]
             n(c) == [NPC[c] EXCEPT !.Hidden = h]
  <2>1. Block' = [i \in DOMAIN Block |-> b(i)] /\ NPC' = [c \in DOMAIN NPC |-> n(c)]
    BY <1>1 DEF SetHidden
  <2>2. ASSUME NEW i \in DOMAIN Block
        PROVE  /\ b(i) \in Block_t /\ b(i).thing = Block[i].thing /\ b(i).gone = Block[i].gone
               /\ b(i).wasCoin = Block[i].wasCoin /\ b(i).Kill = Block[i].Kill
               /\ b(i).ShakeCounter = Block[i].ShakeCounter /\ b(i).ShakeOffset = Block[i].ShakeOffset
               /\ Block[i].gone => b(i).Hidden = Block[i].Hidden
    BY BlockIs DEF Block_t
  <2>3. ASSUME NEW c \in DOMAIN NPC
        PROVE  /\ n(c) \in NPC_t /\ n(c).thing = NPC[c].thing /\ n(c).Killed = NPC[c].Killed
               /\ n(c).wasBlock = NPC[c].wasBlock
    BY CoinIs DEF NPC_t
  <2> HIDE DEF b, n
  <2>4. Block \in Seq(Block_t) /\ NPC \in Seq(NPC_t)
    BY DEF TypeOK
  <2>5. Block' \in Seq(Block_t) /\ Len(Block') = Len(Block) /\ DOMAIN Block' = DOMAIN Block
    <3>1. Len(Block) \in Nat /\ DOMAIN Block = 1..Len(Block)
      BY <2>4
    <3> QED BY <2>1, <2>2, <3>1
  <2>6. NPC' \in Seq(NPC_t) /\ Len(NPC') = Len(NPC) /\ DOMAIN NPC' = DOMAIN NPC
    <3>1. Len(NPC) \in Nat /\ DOMAIN NPC = 1..Len(NPC)
      BY <2>4
    <3> QED BY <2>1, <2>3, <3>1
  <2>7. Steady
    BY <2>1, <2>2, <2>5 DEF Steady
  <2>8. SteadyNPC
    BY <2>1, <2>3, <2>6 DEF SteadyNPC
  <2> QED BY <2>1, <2>2, <2>7, <2>8
<1>2. CASE UNCHANGED <<Block, NPC>>
  BY <1>2, SteadyNot, SteadyNPCNot
<1> QED BY <1>1, <1>2 DEF Event

\* Entries are added at the end of iBlock, if at all.
Longer == /\ iBlock' \in Seq(Index) /\ Len(iBlock') >= Len(iBlock)
          /\ DOMAIN iBlock \subseteq DOMAIN iBlock'
          /\ \A k \in DOMAIN iBlock : iBlock'[k] = iBlock[k]

LEMMA LongerNot ==
  ASSUME TypeOK, iBlock' = iBlock
  PROVE  Longer
BY DEF Longer, TypeOK

LEMMA LongerAppend ==
  ASSUME TypeOK, NEW i \in Index, iBlock' = Append(iBlock, i)
  PROVE  /\ Longer /\ Len(iBlock') = Len(iBlock) + 1
         /\ Len(iBlock) + 1 \in DOMAIN iBlock' /\ iBlock'[Len(iBlock) + 1] = i
<1>1. iBlock \in Seq(Index)
  BY DEF TypeOK
<1>2. /\ iBlock' \in Seq(Index) /\ Len(iBlock') = Len(iBlock) + 1 /\ DOMAIN iBlock' = 1..(Len(iBlock) + 1)
      /\ DOMAIN iBlock = 1..Len(iBlock) /\ Len(iBlock) \in Nat
      /\ iBlock'[Len(iBlock) + 1] = i /\ \A k \in DOMAIN iBlock : iBlock'[k] = iBlock[k]
  BY <1>1, Appended
<1> QED BY <1>2 DEF Longer

LEMMA PushDoes ==
  ASSUME TypeOK, NEW i \in Index, iBlock' = Push(iBlock, i)
  PROVE  /\ Longer
         /\ Len(iBlock) < maxInteresting => \E k \in DOMAIN iBlock' : k > Len(iBlock) /\ iBlock'[k] = i
<1>0. Len(iBlock) \in Nat
  BY DEF TypeOK
<1>1. CASE Len(iBlock) < maxInteresting
  <2>1. iBlock' = Append(iBlock, i)
    BY <1>1 DEF Push
  <2>2. Len(iBlock) + 1 > Len(iBlock)
    BY <1>0
  <2> QED BY <2>1, <2>2, LongerAppend
<1>2. CASE ~(Len(iBlock) < maxInteresting)
  BY <1>2, LongerNot DEF Push
<1> QED BY <1>1, <1>2

LEMMA PushShakeDoes ==
  ASSUME TypeOK, NEW i \in Index, iBlock' = PushShake(iBlock, i)
  PROVE  Longer /\ \E k \in DOMAIN iBlock' : iBlock'[k] = i
<1>1. CASE iBlock # <<>> /\ Last(iBlock) = i
  <2>1. iBlock' = iBlock
    BY <1>1 DEF PushShake
  <2>2. Len(iBlock) \in DOMAIN iBlock /\ iBlock[Len(iBlock)] = i
    BY <1>1 DEF TypeOK, Last
  <2> QED BY <2>1, <2>2, LongerNot
<1>2. CASE ~(iBlock # <<>> /\ Last(iBlock) = i)
  <2>1. iBlock' = Append(iBlock, i)
    BY <1>2 DEF PushShake
  <2> QED BY <2>1, LongerAppend
<1> QED BY <1>1, <1>2

Turn(b, c, offset) == [b EXCEPT !.ShakeCounter = c, !.ShakeOffset = offset]

LEMMA Turning ==
  ASSUME NEW b \in Block_t, NEW c \in Counter, NEW offset \in Int
  PROVE  LET d == Turn(b, c, offset) IN
         /\ d \in Block_t /\ d.thing = b.thing /\ d.gone = b.gone /\ d.wasCoin = b.wasCoin
         /\ d.Hidden = b.Hidden /\ d.Kill = b.Kill
         /\ d.ShakeCounter = c /\ d.ShakeOffset = offset
BY DEF Block_t, Turn

\* A block shakes, with an entry, or, hidden or for want of room, is what it was.
LEMMA BlockShakeDoes ==
  ASSUME TypeOK, NEW i \in DOMAIN Block, NEW b \in Block_t, NEW program \in Programs \ {"none"},
         BlockShake(program, i, b),
         b.thing = Block[i].thing, b.gone = Block[i].gone, b.wasCoin = Block[i].wasCoin,
         b.Hidden = Block[i].Hidden
  PROVE  /\ Steady /\ Longer
         /\ \A j \in DOMAIN Block : j # i => Block'[j] = Block[j]
         /\ Block'[i].Kill = b.Kill
         /\ \/ /\ Block'[i].ShakeCounter = b.ShakeCounter /\ Block'[i].ShakeOffset = b.ShakeOffset
            \/ /\ Block'[i].ShakeCounter = Shake(program) /\ Block'[i].ShakeOffset = 0
               /\ \E k \in DOMAIN iBlock' : iBlock'[k] = i
<1>1. i \in Index
  BY BlockIs
<1>2. CASE b.Hidden \/ iBlocks >= maxInteresting
  <2>1. Block' = [Block EXCEPT ![i] = b] /\ iBlock' = iBlock
    BY <1>2 DEF BlockShake
  <2> QED BY <2>1, SteadyOne, LongerNot
<1>3. CASE ~(b.Hidden \/ iBlocks >= maxInteresting)
  <2> DEFINE d == Turn(b, Shake(program), 0)
  <2>1. Block' = [Block EXCEPT ![i] = d] /\ iBlock' = PushShake(iBlock, i)
    BY <1>3 DEF BlockShake, Turn
  <2>2. /\ d \in Block_t /\ d.thing = b.thing /\ d.gone = b.gone /\ d.wasCoin = b.wasCoin
        /\ d.Hidden = b.Hidden /\ d.Kill = b.Kill
        /\ d.ShakeCounter = Shake(program) /\ d.ShakeOffset = 0
    <3>1. Shake(program) \in Counter /\ 0 \in Int
      BY CounterTypes
    <3> QED BY <3>1, Turning
  <2> HIDE DEF d
  <2>3. /\ Steady /\ Block'[i] = d /\ \A j \in DOMAIN Block : j # i => Block'[j] = Block[j]
    BY <2>1, <2>2, SteadyOne
  <2> QED BY <1>1, <2>1, <2>2, <2>3, PushShakeDoes
<1> QED BY <1>2, <1>3

LEMMA BlockHitDoes ==
  ASSUME TypeOK, NEW i \in DOMAIN Block, NEW b \in Block_t, NEW RapidHits \in SUBSET Nat,
         BlockHit(i, b, RapidHits),
         b.thing = Block[i].thing, b.gone = Block[i].gone, b.wasCoin = Block[i].wasCoin,
         b.Hidden = Block[i].Hidden
  PROVE  /\ Steady /\ Longer
         /\ \A j \in DOMAIN Block : j # i => Block'[j] = Block[j]
         /\ Block'[i].Kill = b.Kill
         /\ \/ /\ Block'[i].ShakeCounter = b.ShakeCounter /\ Block'[i].ShakeOffset = b.ShakeOffset
            \/ \E program \in Programs \ {"none"} :
                 /\ Block'[i].ShakeCounter = Shake(program) /\ Block'[i].ShakeOffset = 0
                 /\ \E k \in DOMAIN iBlock' : iBlock'[k] = i
<1>1. PICK program \in {"UPDOWN12", "DOWNUP12"}, r \in RapidHits :
        BlockShake(program, i, [b EXCEPT !.RapidHit = r])
  BY DEF BlockHit
<1> DEFINE d == [b EXCEPT !.RapidHit = r]
<1>2. /\ d \in Block_t /\ d.thing = b.thing /\ d.gone = b.gone /\ d.wasCoin = b.wasCoin
      /\ d.Hidden = b.Hidden /\ d.Kill = b.Kill
      /\ d.ShakeCounter = b.ShakeCounter /\ d.ShakeOffset = b.ShakeOffset
  BY DEF Block_t
<1>3. program \in Programs \ {"none"} /\ BlockShake(program, i, d)
  BY <1>1 DEF Programs
<1> HIDE DEF d
<1> QED BY <1>2, <1>3, BlockShakeDoes

-----------------------------------------------------------------------------
(* Events.                                                                 *)

Events == {"hit", "death", "last"}

LEMMA OwingNone ==
  ASSUME Owing, owed' = owed, Stage \notin Events, Stage' \notin Events
  PROVE  Owing'
BY DEF Owing, Owes, Events

LEMMA OwingBegun ==
  ASSUME TypeOK, Owing, Stage \notin Events, NEW event \in Events, NEW t \in Things, Begin(event, t),
         Stage' = event, Block'[Now'].thing = t
  PROVE  Owing'
<1>1. \A u \in Things : owed[u] = [hit |-> 0, death |-> 0, last |-> 0]
  BY DEF Owing, Owes, Events
<1>2. owed' = [owed EXCEPT ![t] = [owed[t] EXCEPT ![event] = owed[t][event] + 1]]
  BY DEF Begin
<1>3. \A u \in Things : u # t => owed'[u] = owed[u]
  BY <1>2 DEF TypeOK
<1>4. owed'[t] = [hit |-> IF event = "hit" THEN 1 ELSE 0, death |-> IF event = "death" THEN 1 ELSE 0,
                  last |-> IF event = "last" THEN 1 ELSE 0]
  <2>1. owed'[t] = [[hit |-> 0, death |-> 0, last |-> 0] EXCEPT ![event] = [hit |-> 0, death |-> 0, last |-> 0][event] + 1]
    BY <1>1, <1>2 DEF TypeOK
  <2>2. CASE event = "hit"
    BY <2>1, <2>2
  <2>3. CASE event = "death"
    BY <2>1, <2>3
  <2>4. CASE event = "last"
    BY <2>1, <2>4
  <2> QED BY <2>2, <2>3, <2>4 DEF Events
<1> QED BY <1>1, <1>3, <1>4 DEF Owing, Owes, Events

LEMMA OwingFinished ==
  ASSUME TypeOK, Owing, NEW event \in Events, NEW t \in Things, Finish(event, t),
         Stage = event, Stage' \notin Events, Block[Now].thing = t
  PROVE  Owing'
<1>1. \A u \in Things : u # t => owed[u] = [hit |-> 0, death |-> 0, last |-> 0]
  BY DEF Owing, Owes, Events
<1>2. owed[t] = [hit |-> IF event = "hit" THEN 1 ELSE 0, death |-> IF event = "death" THEN 1 ELSE 0,
                  last |-> IF event = "last" THEN 1 ELSE 0]
  BY DEF Owing, Owes, Events
<1>3. owed' = [owed EXCEPT ![t] = [owed[t] EXCEPT ![event] = owed[t][event] - 1]]
  BY DEF Finish
<1>4. \A u \in Things : u # t => owed'[u] = owed[u]
  BY <1>3 DEF TypeOK
<1>5. owed'[t] = [owed[t] EXCEPT ![event] = owed[t][event] - 1]
  BY <1>3 DEF TypeOK
<1>6. owed'[t] = [hit |-> 0, death |-> 0, last |-> 0]
  <2>1. CASE event = "hit"
    BY <1>2, <1>5, <2>1
  <2>2. CASE event = "death"
    BY <1>2, <1>5, <2>2
  <2>3. CASE event = "last"
    BY <1>2, <1>5, <2>3
  <2> QED BY <2>1, <2>2, <2>3 DEF Events
<1> QED BY <1>1, <1>4, <1>6 DEF Owing, Owes, Events

LEMMA OwedTypes ==
  ASSUME TypeOK, NEW event \in Events, NEW t \in Things, Begin(event, t) \/ Finish(event, t)
  PROVE  owed' \in [Things -> [hit : Int, death : Int, last : Int]]
<1>1. PICK n \in {1, -1} : owed' = [owed EXCEPT ![t] = [owed[t] EXCEPT ![event] = owed[t][event] + n]]
  <2>1. CASE Begin(event, t)
    BY <2>1 DEF Begin
  <2>2. CASE Finish(event, t)
    <3>1. owed[t][event] - 1 = owed[t][event] + (-1)
      BY DEF TypeOK, Events
    <3> QED BY <2>2, <3>1 DEF Finish
  <2> QED BY <2>1, <2>2
<1>2. [owed[t] EXCEPT ![event] = owed[t][event] + n] \in [hit : Int, death : Int, last : Int]
  <2>1. owed[t] \in [hit : Int, death : Int, last : Int]
    BY DEF TypeOK
  <2>2. CASE event = "hit"
    BY <2>1, <2>2
  <2>3. CASE event = "death"
    BY <2>1, <2>3
  <2>4. CASE event = "last"
    BY <2>1, <2>4
  <2> QED BY <2>2, <2>3, <2>4 DEF Events
<1> QED BY <1>1, <1>2 DEF TypeOK

\* Nothing that Place or Owing speak of is changed.
LEMMA BaseKept ==
  ASSUME BaseInv, TypeOK', Steady, Longer, Stage' = Stage, At' = At, By' = By,
         PSwitchTime' = PSwitchTime, owed' = owed,
         pc' = "paused" => g_gameLoopInterrupt'.site # "None"
  PROVE  BaseInv'
<1>1. /\ FromLoop' = FromLoop /\ FromSwitch' = FromSwitch
      /\ FromLoop => At \in DOMAIN iBlock /\ iBlock[At] \in DOMAIN Block
      /\ FromSwitch => At \in DOMAIN Block
  BY SamePlace DEF BaseInv, Place
<1>2. FromLoop => At \in DOMAIN iBlock' /\ iBlock'[At] = iBlock[At]
  BY <1>1 DEF Longer
<1>3. Now' = Now
  BY <1>1, <1>2 DEF Now
<1>4. Place'
  <2>1. Len(iBlock) \in Nat /\ Len(iBlock') \in Nat /\ Len(iBlock') >= Len(iBlock) /\ At \in Nat
    BY DEF BaseInv, TypeOK, Longer, At
  <2>2. Stage' = "trim" => At' <= iBlocks'
    BY <2>1 DEF BaseInv, Place, iBlocks
  <2>3. DOMAIN Block' = DOMAIN Block /\ numBlock' = numBlock
    BY DEF Steady, numBlock
  <2> QED BY <1>1, <1>2, <2>2, <2>3 DEF BaseInv, Place
<1>5. Owing'
  <2>1. Stage \in Events => Now \in DOMAIN Block
    BY <1>1 DEF Events, Now, FromLoop, FromSwitch, Killing, BaseInv, Place, Killers
  <2>2. Stage \in Events => Block'[Now].thing = Block[Now].thing
    BY <2>1 DEF Steady
  <2> QED BY <1>3, <2>2 DEF BaseInv, Owing, Owes, Events
<1> QED BY <1>4, <1>5 DEF BaseInv

-----------------------------------------------------------------------------
(* Types and events are kept by every action: first those that come between *)
(* the frames.                                                             *)

LEMMA BaseOutside ==
  ASSUME BaseInv, Outside, Steady, Longer, NPC' \in Seq(NPC_t), lost' \subseteq Things, kept' = kept
  PROVE  BaseInv'
<1>1. TypeOK'
  BY DEF BaseInv, TypeOK, Outside, locals, Steady, Longer
<1>2. Stage' = Stage /\ At' = At /\ By' = By /\ PSwitchTime' = PSwitchTime /\ owed' = owed /\ pc' = "idle"
  BY DEF Outside, locals, Stage, At, By
<1> QED BY <1>1, <1>2, BaseKept

LEMMA BaseHit ==
  ASSUME BaseInv, Hit
  PROVE  BaseInv'
<1>0. TypeOK /\ Outside /\ UNCHANGED <<NPC, fates>>
  BY DEF Hit, BaseInv
<1>1. PICK i \in DOMAIN Block :
        BlockHit(i, Block[i], {Block[i].RapidHit} \cup (IF Block[i].thing \in Rapid THEN {1} ELSE {}))
  BY DEF Hit
<1>2. /\ Block[i] \in Block_t
      /\ {Block[i].RapidHit} \cup (IF Block[i].thing \in Rapid THEN {1} ELSE {}) \in SUBSET Nat
  BY <1>0, BlockIs DEF Block_t
<1>3. Steady /\ Longer
  BY <1>0, <1>1, <1>2, BlockHitDoes
<1> QED BY <1>0, <1>3, BaseOutside DEF fates, TypeOK

LEMMA BasePow ==
  ASSUME BaseInv, PowBlock
  PROVE  BaseInv'
<1>0. TypeOK /\ Outside /\ UNCHANGED <<NPC, fates>>
  BY DEF PowBlock, BaseInv
<1>1. PICK i \in DOMAIN Block : BlockShake("UPDOWN06", i, Block[i])
  BY DEF PowBlock
<1>2. Block[i] \in Block_t /\ "UPDOWN06" \in Programs \ {"none"}
  BY <1>0, BlockIs DEF Programs
<1>3. Steady /\ Longer
  BY <1>0, <1>1, <1>2, BlockShakeDoes
<1> QED BY <1>0, <1>3, BaseOutside DEF fates, TypeOK

\* Kill is set and an entry made.
LEMMA Doomed ==
  ASSUME TypeOK, NEW i \in DOMAIN Block, NEW kill \in {0, 1, 9}, Block' = [Block EXCEPT ![i].Kill = kill]
  PROVE  /\ Steady /\ Block'[i] = [Block[i] EXCEPT !.Kill = kill]
         /\ Block'[i].Kill = kill
         /\ \A j \in DOMAIN Block : /\ j # i => Block'[j] = Block[j]
                                    /\ Block'[j].ShakeCounter = Block[j].ShakeCounter
                                    /\ Block'[j].ShakeOffset = Block[j].ShakeOffset
                                    /\ Block'[j].Hidden = Block[j].Hidden
<1> DEFINE b == [Block[i] EXCEPT !.Kill = kill]
<1>1. Block[i] \in Block_t /\ Block \in Seq(Block_t)
  BY BlockIs DEF TypeOK
<1>2. /\ b \in Block_t /\ b.thing = Block[i].thing /\ b.gone = Block[i].gone
      /\ b.wasCoin = Block[i].wasCoin /\ b.Hidden = Block[i].Hidden /\ b.Kill = kill
      /\ b.ShakeCounter = Block[i].ShakeCounter /\ b.ShakeOffset = Block[i].ShakeOffset
  BY <1>1 DEF Block_t
<1>3. Block' = [Block EXCEPT ![i] = b]
  BY <1>1
<1> HIDE DEF b
<1>4. Steady /\ Block'[i] = b /\ \A j \in DOMAIN Block : j # i => Block'[j] = Block[j]
  BY <1>2, <1>3, SteadyOne
<1> QED BY <1>2, <1>4 DEF b

LEMMA BaseDoom ==
  ASSUME BaseInv, BlockHitHard \/ SafelyKillBlock
  PROVE  BaseInv'
<1>0. TypeOK /\ Outside /\ UNCHANGED <<NPC, fates>>
  BY DEF BlockHitHard, SafelyKillBlock, BaseInv
<1>1. PICK i \in DOMAIN Block, kill \in {0, 1, 9} :
        Block' = [Block EXCEPT ![i].Kill = kill] /\ iBlock' = Push(iBlock, i)
  BY DEF BlockHitHard, SafelyKillBlock
<1>2. Steady /\ Longer
  BY <1>0, <1>1, Doomed, PushDoes, BlockIs
<1> QED BY <1>0, <1>2, BaseOutside DEF fates, TypeOK

LEMMA CollectedDoes ==
  ASSUME TypeOK, NEW c \in DOMAIN NPC, Collected(c)
  PROVE  /\ NPC' \in Seq(NPC_t) /\ Len(NPC') = Len(NPC) /\ DOMAIN NPC' = DOMAIN NPC
         /\ lost' = lost \cup {NPC[c].thing} /\ lost' \subseteq Things /\ kept' = kept
         /\ \A d \in DOMAIN NPC : /\ NPC'[d].thing = NPC[d].thing /\ NPC'[d].wasBlock = NPC[d].wasBlock
                                  /\ NPC'[d].Killed = (d = c \/ NPC[d].Killed)
<1> DEFINE n == [NPC[c] EXCEPT !.Killed = TRUE]
<1>1. NPC[c] \in NPC_t /\ NPC \in Seq(NPC_t)
  BY CoinIs DEF TypeOK
<1>2. n \in NPC_t /\ n.thing = NPC[c].thing /\ n.wasBlock = NPC[c].wasBlock /\ n.Killed = TRUE
  BY <1>1 DEF NPC_t
<1>3. NPC' = [NPC EXCEPT ![c] = n]
  BY <1>1 DEF Collected
<1> HIDE DEF n
<1>4. /\ NPC' \in Seq(NPC_t) /\ Len(NPC') = Len(NPC) /\ DOMAIN NPC' = DOMAIN NPC
      /\ NPC'[c] = n /\ \A d \in DOMAIN NPC : d # c => NPC'[d] = NPC[d]
  BY <1>1, <1>2, <1>3, Exchanged
<1>5. lost' = lost \cup {NPC[c].thing} /\ lost' \subseteq Things /\ kept' = kept
  BY <1>1 DEF Collected, NPC_t, TypeOK
<1>6. \A d \in DOMAIN NPC : NPC[d].Killed \in BOOLEAN
  BY CoinIs DEF NPC_t
<1> QED BY <1>2, <1>4, <1>5, <1>6

LEMMA BaseCollect ==
  ASSUME BaseInv, Collect
  PROVE  BaseInv'
<1>0. TypeOK /\ Outside /\ UNCHANGED <<Block, iBlock>>
  BY DEF Collect, BaseInv
<1>1. PICK c \in DOMAIN NPC : Collected(c)
  BY DEF Collect
<1> QED BY <1>0, <1>1, CollectedDoes, SteadyNot, LongerNot, BaseOutside

LEMMA BaseOther ==
  ASSUME BaseInv, OtherEvent
  PROVE  BaseInv'
<1>0. TypeOK /\ Outside /\ UNCHANGED <<iBlock, fates>> /\ Event
  BY DEF OtherEvent, BaseInv
<1>1. Steady /\ SteadyNPC
  BY <1>0, EventDoes
<1> QED BY <1>0, <1>1, LongerNot, BaseOutside DEF SteadyNPC, fates, TypeOK

LEMMA BasePress ==
  ASSUME BaseInv, Press
  PROVE  BaseInv'
<1>0. TypeOK
  BY DEF BaseInv
<1>1. /\ pc = "idle" /\ pc' = "idle" /\ PSwitchTime' = SwitchTime /\ UNCHANGED <<A, caller, g_gameLoopInterrupt>>
      /\ UNCHANGED <<Block, NPC, iBlock, emulate_classic_block_order, owed, lost, kept>>
  BY DEF Press, locals, fates
<1>2. /\ Stage = "idle" /\ Stage' = "idle" /\ At = A /\ At' = A' /\ By = caller /\ By' = caller'
      /\ ~FromLoop /\ ~FromLoop' /\ ~FromSwitch /\ ~FromSwitch'
  BY <1>1, Here, HereNext DEF FromLoop, FromSwitch, Killing
<1>3. TypeOK'
  BY <1>0, <1>1, SizesAssumption DEF TypeOK
<1>4. Place'
  BY <1>1, <1>2 DEF Place, BaseInv, Killing
<1>5. Owing'
  BY <1>1, <1>2, OwingNone DEF Events, BaseInv
<1> QED BY <1>3, <1>4, <1>5 DEF BaseInv

-----------------------------------------------------------------------------
(* Then those of the loop.                                                 *)

\* The place that UpdateBlocks comes to.
LEMMA PlaceMoved ==
  ASSUME pc' # "paused",
         IF pc' \in Killing THEN caller' \in Killers ELSE caller' = "none",
         pc' \in {"queue", "blocks", "back"} => A' >= 1,
         pc' \in {"hit", "struck", "smash"} \/ (pc' \in Killing /\ caller' = "UpdateBlocks_KillBlock") =>
            A' \in DOMAIN iBlock' /\ iBlock'[A'] \in DOMAIN Block',
         pc' \in Killing /\ caller' = "UpdateBlocks_SwitchOff_KillBlock" => A' \in DOMAIN Block',
         pc' = "trim" => A' <= Len(iBlock'),
         pc' \in {"coins", "off"} => A' <= Len(Block'),
         pc' \in {"blocks", "coins", "start", "started"} => PSwitchTime' = SwitchTime,
         pc' = "tick" => PSwitchTime' >= 1,
         pc' \in {"back", "off", "end", "ended"}
           \/ (pc' \in Killing /\ caller' = "UpdateBlocks_SwitchOff_KillBlock") => PSwitchTime' <= 1
  PROVE  Place'
<1>1. Stage' = pc' /\ At' = A' /\ By' = caller'
  BY HereNext
<1>2. /\ FromLoop' <=> pc' \in {"hit", "struck", "smash"} \/ (pc' \in Killing /\ caller' = "UpdateBlocks_KillBlock")
      /\ FromSwitch' <=> pc' \in Killing /\ caller' = "UpdateBlocks_SwitchOff_KillBlock"
  BY <1>1 DEF FromLoop, FromSwitch, Killing
<1> QED BY <1>1, <1>2 DEF Place, iBlocks, numBlock, Killing, Killers

\* From one place to another, no event begins or ends.
LEMMA BaseMoved ==
  ASSUME BaseInv, TypeOK', owed' = owed, pc # "paused", pc' # "paused",
         pc \notin Events, pc' \notin Events,
         IF pc' \in Killing THEN caller' \in Killers ELSE caller' = "none",
         pc' \in {"queue", "blocks", "back"} => A' >= 1,
         pc' \in {"hit", "struck", "smash"} \/ (pc' \in Killing /\ caller' = "UpdateBlocks_KillBlock") =>
            A' \in DOMAIN iBlock' /\ iBlock'[A'] \in DOMAIN Block',
         pc' \in Killing /\ caller' = "UpdateBlocks_SwitchOff_KillBlock" => A' \in DOMAIN Block',
         pc' = "trim" => A' <= Len(iBlock'),
         pc' \in {"coins", "off"} => A' <= Len(Block'),
         pc' \in {"blocks", "coins", "start", "started"} => PSwitchTime' = SwitchTime,
         pc' = "tick" => PSwitchTime' >= 1,
         pc' \in {"back", "off", "end", "ended"}
           \/ (pc' \in Killing /\ caller' = "UpdateBlocks_SwitchOff_KillBlock") => PSwitchTime' <= 1
  PROVE  BaseInv'
<1>1. Stage = pc /\ Stage' = pc'
  BY Here, HereNext
<1>2. Place'
  BY PlaceMoved
<1>3. Owing'
  BY <1>1, OwingNone DEF BaseInv
<1> QED BY <1>2, <1>3 DEF BaseInv

LEMMA HerePlace ==
  ASSUME BaseInv, pc # "paused"
  PROVE  /\ IF pc \in Killing THEN caller \in Killers ELSE caller = "none"
         /\ pc \in {"queue", "blocks", "back"} => A >= 1
         /\ pc \in {"hit", "struck", "smash"} \/ (pc \in Killing /\ caller = "UpdateBlocks_KillBlock") =>
              A \in DOMAIN iBlock /\ iBlock[A] \in DOMAIN Block
         /\ pc \in Killing /\ caller = "UpdateBlocks_SwitchOff_KillBlock" => A \in DOMAIN Block
         /\ pc = "trim" => A <= Len(iBlock)
         /\ pc \in {"coins", "off"} => A <= Len(Block)
         /\ pc \in {"blocks", "coins", "start", "started"} => PSwitchTime = SwitchTime
         /\ pc = "tick" => PSwitchTime >= 1
         /\ pc \in {"back", "off", "end", "ended"}
              \/ (pc \in Killing /\ caller = "UpdateBlocks_SwitchOff_KillBlock") => PSwitchTime <= 1
         /\ TypeOK /\ Owing /\ A \in Nat /\ Len(iBlock) \in Nat /\ DOMAIN iBlock = 1..Len(iBlock)
         /\ Len(Block) \in Nat /\ DOMAIN Block = 1..Len(Block)
         /\ Len(NPC) \in Nat /\ DOMAIN NPC = 1..Len(NPC)
<1>1. Stage = pc /\ At = A /\ By = caller
  BY Here
<1> QED BY <1>1 DEF BaseInv, Place, FromLoop, FromSwitch, iBlocks, numBlock, TypeOK

LEMMA BaseComing ==
  ASSUME BaseInv, Coming
  PROVE  BaseInv'
<1>1. CASE UpdateNPCs
  <2>1. TypeOK'
    BY <1>1 DEF UpdateNPCs, BaseInv, TypeOK, Stages, locals, fates
  <2> QED BY <1>1, <2>1, HerePlace, BaseMoved DEF UpdateNPCs, locals, Events, Killing
<1>2. CASE RemoveNPC
  <2>1. PICK c \in DOMAIN NPC : NPC' = Without(NPC, c)
    BY <1>2 DEF RemoveNPC, Without
  <2>2. NPC' \in Seq(NPC_t)
    BY <2>1, WithoutIs DEF BaseInv, TypeOK
  <2>3. TypeOK'
    BY <1>2, <2>2 DEF RemoveNPC, BaseInv, TypeOK, locals, fates
  <2> QED BY <1>2, <2>3, HerePlace, BaseMoved DEF RemoveNPC, locals, Events, Killing
<1>3. CASE UpdateBlocks
  <2>1. TypeOK'
    BY <1>3 DEF UpdateBlocks, BaseInv, TypeOK, Stages, fates
  <2> QED BY <1>3, <2>1, HerePlace, BaseMoved DEF UpdateBlocks, Events, Killing
<1> QED BY <1>1, <1>2, <1>3 DEF Coming

LEMMA BaseNoBlock ==
  ASSUME BaseInv, NoBlock
  PROVE  BaseInv'
<1>1. /\ pc = "queue" /\ pc' = "queue" /\ A' = A + 1
      /\ UNCHANGED <<Block, NPC, iBlock, PSwitchTime, emulate_classic_block_order, caller,
                     g_gameLoopInterrupt, owed, lost, kept>>
  BY DEF NoBlock, InLoop, NextEntry, fates
<1>2. TypeOK'
  BY <1>1 DEF BaseInv, TypeOK
<1> QED BY <1>1, <1>2, HerePlace, BaseMoved DEF Events, Killing

\* What the loop makes of a block that shakes.
Stepped(b) == IF b.Hidden THEN AtRest(b) ELSE IF b.ShakeCounter = Still THEN b ELSE Shaken(b)

LEMMA SteppedIs ==
  ASSUME NEW b \in Block_t
  PROVE  /\ Stepped(b) \in Block_t /\ Stepped(b).thing = b.thing /\ Stepped(b).gone = b.gone
         /\ Stepped(b).wasCoin = b.wasCoin /\ Stepped(b).Hidden = b.Hidden /\ Stepped(b).Kill = b.Kill
         /\ \/ Stepped(b).ShakeCounter = Still /\ Stepped(b).ShakeOffset = 0
            \/ b.ShakeCounter = Still /\ Stepped(b) = b
            \/ /\ b.ShakeCounter # Still
               /\ Stepped(b).ShakeCounter = [b.ShakeCounter EXCEPT !.step = b.ShakeCounter.step + 1]
               /\ Stepped(b).ShakeOffset = IF GoesUp(b.ShakeCounter) THEN b.ShakeOffset - 2
                                           ELSE b.ShakeOffset + 2
<1>1. CASE b.Hidden
  <2>1. Stepped(b) = Turn(b, Still, 0)
    BY <1>1 DEF Stepped, AtRest, Turn
  <2>2. Still \in Counter /\ 0 \in Int
    BY CounterTypes
  <2> QED BY <2>1, <2>2, Turning
<1>2. CASE ~b.Hidden /\ b.ShakeCounter = Still
  BY <1>2 DEF Stepped
<1>3. CASE ~b.Hidden /\ b.ShakeCounter # Still
  <2> DEFINE c == [b.ShakeCounter EXCEPT !.step = b.ShakeCounter.step + 1]
             offset == IF GoesUp(b.ShakeCounter) THEN b.ShakeOffset - 2 ELSE b.ShakeOffset + 2
  <2>1. b.ShakeCounter \in Counter /\ b.ShakeOffset \in Int
    BY DEF Block_t
  <2>2. c \in Counter /\ offset \in Int
    BY <2>1 DEF Counter
  <2>3. Stepped(b) = Turn(b, c, offset)
    <3>1. [b EXCEPT !.ShakeCounter.step = @ + 1] = [b EXCEPT !.ShakeCounter = c]
      BY DEF Block_t
    <3> QED BY <1>3, <3>1 DEF Stepped, Shaken, Turn, Block_t
  <2> HIDE DEF c, offset
  <2>4. /\ Stepped(b) \in Block_t /\ Stepped(b).thing = b.thing /\ Stepped(b).gone = b.gone
        /\ Stepped(b).wasCoin = b.wasCoin /\ Stepped(b).Hidden = b.Hidden /\ Stepped(b).Kill = b.Kill
        /\ Stepped(b).ShakeCounter = c /\ Stepped(b).ShakeOffset = offset
    BY <2>2, <2>3, Turning
  <2> QED BY <1>3, <2>4 DEF c, offset
<1> QED BY <1>1, <1>2, <1>3

LEMMA ShakeStepDoes ==
  ASSUME BaseInv, ShakeStep
  PROVE  /\ pc = "queue" /\ A \in DOMAIN iBlock /\ iBlock[A] \in DOMAIN Block
         /\ Steady /\ Block'[iBlock[A]] = Stepped(Block[iBlock[A]])
         /\ \A j \in DOMAIN Block : j # iBlock[A] => Block'[j] = Block[j]
         /\ Stage = "queue" /\ Stage' = pc' /\ At = A /\ At' = A /\ By' = caller /\ By = caller
         /\ pc' = IF Middle(Block'[iBlock[A]].ShakeCounter) THEN "hit" ELSE "struck"
<1> DEFINE i == iBlock[A]
<1>1. /\ pc = "queue" /\ A <= Len(iBlock) /\ i \in DOMAIN Block /\ pc' \in {"hit", "struck"}
      /\ UNCHANGED <<A, caller>>
  BY DEF ShakeStep, InLoop, Present, locals, iBlocks
<1>2. A \in DOMAIN iBlock /\ TypeOK
  BY <1>1, HerePlace
<1>3. Block' = [Block EXCEPT ![i] = Stepped(Block[i])]
  BY DEF ShakeStep, Stepped
<1>4. Steady /\ Block'[i] = Stepped(Block[i]) /\ \A j \in DOMAIN Block : j # i => Block'[j] = Block[j]
  <2>1. Block[i] \in Block_t
    BY <1>1, <1>2, BlockIs
  <2> QED BY <1>1, <1>2, <1>3, <2>1, SteppedIs, SteadyOne
<1>5. pc' = IF Middle(Block'[i].ShakeCounter) THEN "hit" ELSE "struck"
  BY <1>4 DEF ShakeStep, Stepped
<1> QED BY <1>1, <1>2, <1>4, <1>5, Here, HereNext

LEMMA BaseShakeStep ==
  ASSUME BaseInv, ShakeStep
  PROVE  BaseInv'
<1> DEFINE i == iBlock[A]
<1>1. /\ NPC' = NPC /\ iBlock' = iBlock /\ PSwitchTime' = PSwitchTime
      /\ emulate_classic_block_order' = emulate_classic_block_order /\ A' = A /\ caller' = caller
      /\ g_gameLoopInterrupt' = g_gameLoopInterrupt /\ lost' = lost /\ kept' = kept
  BY DEF ShakeStep, InLoop, locals, fates
<1>a. (pc' = "hit" /\ Begin("hit", Block[i].thing)) \/ (pc' = "struck" /\ owed' = owed)
  BY DEF ShakeStep
<1>2. /\ pc = "queue" /\ A \in DOMAIN iBlock /\ i \in DOMAIN Block /\ Steady
      /\ Stage = "queue" /\ Stage' = pc' /\ At' = A /\ By' = caller /\ pc # "paused"
  BY ShakeStepDoes
<1>3. caller = "none" /\ TypeOK /\ Owing
  BY <1>2, HerePlace DEF Killing
<1>4. Block[i].thing \in Things /\ Block'[i].thing = Block[i].thing
  BY <1>2, <1>3, BlockIs DEF Steady, Block_t
<1>5. TypeOK'
  <2>1. owed' \in [Things -> [hit : Int, death : Int, last : Int]]
    BY <1>a, <1>3, <1>4, OwedTypes DEF Events, TypeOK
  <2> QED BY <1>1, <1>a, <1>2, <1>3, <2>1 DEF TypeOK, Stages, Steady
<1>6. FromLoop' /\ ~FromSwitch' /\ Now' = i
  BY <1>1, <1>a, <1>2, <1>3 DEF FromLoop, FromSwitch, Now, Killing
<1>7. Place'
  BY <1>1, <1>a, <1>2, <1>3, <1>6 DEF Place, Killing, Steady
<1>8. Owing'
  <2>1. CASE pc' = "hit" /\ Begin("hit", Block[i].thing)
    BY <1>2, <1>3, <1>4, <1>6, <2>1, OwingBegun DEF Events
  <2>2. CASE pc' = "struck" /\ UNCHANGED owed
    BY <1>2, <1>3, <2>2, OwingNone DEF Events
  <2> QED BY <1>a, <2>1, <2>2
<1> QED BY <1>5, <1>7, <1>8 DEF BaseInv

\* A message is shown: UpdateBlocks will be back where it was.
LEMMA BaseInterrupted ==
  ASSUME BaseInv, Event, pc # "paused", NEW site \in Sites \ {"None"}, NEW bool1 \in BOOLEAN,
         Interrupt(site, bool1), ResumeAt([site |-> site, A |-> A, bool1 |-> bool1]) = pc,
         caller = IF site \in Killers THEN site ELSE "none",
         UNCHANGED <<iBlock, PSwitchTime, emulate_classic_block_order, fates>>
  PROVE  BaseInv'
<1>1. Stage' = Stage /\ At' = At /\ By' = By
  BY Interrupted
<1>2. Steady /\ SteadyNPC
  BY EventDoes DEF BaseInv
<1>3. /\ pc' = "paused" /\ g_gameLoopInterrupt' = [site |-> site, A |-> A, bool1 |-> bool1]
      /\ A' = 0 /\ caller' = "none" /\ owed' = owed
  BY DEF Interrupt
<1>4. TypeOK'
  BY <1>2, <1>3 DEF BaseInv, TypeOK, Steady, SteadyNPC, fates
<1> QED BY <1>1, <1>2, <1>3, <1>4, BaseKept, LongerNot DEF BaseInv

LEMMA NowIs ==
  ASSUME BaseInv, pc \in Events \cup {"ask", "die"}
  PROVE  /\ Now = IF pc = "hit" THEN iBlock[A] ELSE Victim
         /\ Now \in DOMAIN Block /\ Block[Now].thing \in Things
<1>0. Stage = pc /\ At = A /\ By = caller /\ TypeOK
  BY Here DEF Events, BaseInv
<1>1. Now = IF pc = "hit" THEN iBlock[A] ELSE Victim
  BY <1>0 DEF Events, Now, FromLoop, Killing, Victim
<1>2. Now \in DOMAIN Block
  BY <1>0 DEF Events, Now, FromLoop, FromSwitch, Killing, BaseInv, Place, Killers
<1> QED BY <1>0, <1>1, <1>2, BlockIs DEF Block_t

\* The event ends.
LEMMA BaseFinished ==
  ASSUME BaseInv, Event, NEW event \in Events, pc = event, Finish(event, Block[Now].thing),
         pc' = IF event = "hit" THEN "struck" ELSE IF event = "death" THEN "ask" ELSE "die",
         UNCHANGED <<A, caller, g_gameLoopInterrupt, iBlock, PSwitchTime,
                     emulate_classic_block_order, fates>>
  PROVE  BaseInv'
<1>1. Steady /\ SteadyNPC
  BY EventDoes DEF BaseInv
<1>2. Now \in DOMAIN Block /\ Block[Now].thing \in Things
  BY NowIs
<1>3. TypeOK'
  <2>1. owed' \in [Things -> [hit : Int, death : Int, last : Int]]
    BY <1>2, OwedTypes DEF BaseInv
  <2>2. pc' \in Stages
    BY DEF Events, Stages, Killing
  <2> QED BY <1>1, <2>1, <2>2 DEF BaseInv, TypeOK, Steady, SteadyNPC, fates
<1>4. pc # "paused" /\ pc' # "paused" /\ pc' \notin Events
  BY DEF Events
<1>5. Place'
  <2>1. DOMAIN Block' = DOMAIN Block
    BY <1>1 DEF Steady
  <2> QED BY <1>4, <2>1, HerePlace, PlaceMoved DEF Events, Killing
<1>6. Owing'
  <2>1. Stage = event /\ Stage' \notin Events
    BY <1>4, Here, HereNext
  <2> QED BY <1>2, <2>1, OwingFinished DEF BaseInv
<1> QED BY <1>3, <1>5, <1>6 DEF BaseInv

LEMMA BaseHitEvent ==
  ASSUME BaseInv, HitEvent
  PROVE  BaseInv'
<1>1. /\ pc = "hit" /\ Event /\ caller = "none"
      /\ UNCHANGED <<iBlock, PSwitchTime, emulate_classic_block_order, fates>>
  BY HerePlace DEF HitEvent, InLoop, Killing
<1>2. CASE Interrupt("UpdateBlocks_TriggerHit", FALSE)
  BY <1>1, <1>2, BaseInterrupted, ResumeIs DEF Sites, Killers
<1>3. CASE Proceed("struck") /\ Finish("hit", Block[iBlock[A]].thing)
  <2>1. Now = iBlock[A]
    BY <1>1, NowIs DEF Events
  <2> QED BY <1>1, <1>3, <2>1, BaseFinished DEF Proceed, locals, Events
<1> QED BY <1>2, <1>3 DEF HitEvent

LEMMA StruckDoes ==
  ASSUME BaseInv, Struck
  PROVE  LET i == iBlock[A] IN
         /\ pc = "struck" /\ pc' = "smash" /\ A \in DOMAIN iBlock /\ i \in DOMAIN Block /\ caller = "none"
         /\ Steady /\ Longer
         /\ \A j \in DOMAIN Block : j # i => Block'[j] = Block[j]
         /\ Block'[i].Kill = Block[i].Kill
         /\ \/ ~AtEnd(Block[i].ShakeCounter) /\ Block' = Block /\ iBlock' = iBlock
            \/ /\ AtEnd(Block[i].ShakeCounter)
               /\ Block'[i].ShakeCounter = Still /\ Block'[i].ShakeOffset = Block[i].ShakeOffset
            \/ \E program \in Programs \ {"none"} :
                 /\ Block'[i].ShakeCounter = Shake(program) /\ Block'[i].ShakeOffset = 0
                 /\ \E k \in DOMAIN iBlock' : iBlock'[k] = i
         /\ \/ NPC' = NPC /\ lost' = lost /\ kept' = kept
            \/ Block' = Block /\ \E c \in DOMAIN NPC : ~NPC[c].Killed /\ Collected(c)
<1> DEFINE i == iBlock[A]
           b == Block[i]
<1>1. /\ pc = "struck" /\ pc' = "smash" /\ A \in DOMAIN iBlock /\ i \in DOMAIN Block /\ TypeOK
      /\ caller = "none"
  BY HerePlace DEF Struck, InLoop, Proceed, Killing
<1>2. b \in Block_t
  BY <1>1, BlockIs
<1>3. CASE AtEnd(b.ShakeCounter) /\ HitAgain(b)
  <2> DEFINE d == Turn(b, Still, b.ShakeOffset)
  <2>1. /\ BlockHit(i, [b EXCEPT !.ShakeCounter = Still], {b.RapidHit - 1})
        /\ UNCHANGED <<NPC, fates>>
    BY <1>3 DEF Struck
  <2>2. d = [b EXCEPT !.ShakeCounter = Still]
    BY <1>2 DEF Turn, Block_t
  <2>3. b.ShakeOffset \in Int /\ {b.RapidHit - 1} \in SUBSET Nat
    BY <1>2, <1>3 DEF Block_t, HitAgain
  <2>4. /\ d \in Block_t /\ d.thing = b.thing /\ d.gone = b.gone /\ d.wasCoin = b.wasCoin
        /\ d.Hidden = b.Hidden /\ d.Kill = b.Kill /\ d.ShakeCounter = Still
        /\ d.ShakeOffset = b.ShakeOffset
    BY <1>2, <2>3, Turning, CounterTypes
  <2>5. BlockHit(i, d, {b.RapidHit - 1})
    BY <2>1, <2>2
  <2> HIDE DEF d
  <2>6. /\ Steady /\ Longer
        /\ \A j \in DOMAIN Block : j # i => Block'[j] = Block[j]
        /\ Block'[i].Kill = d.Kill
        /\ \/ /\ Block'[i].ShakeCounter = d.ShakeCounter /\ Block'[i].ShakeOffset = d.ShakeOffset
           \/ \E program \in Programs \ {"none"} :
                /\ Block'[i].ShakeCounter = Shake(program) /\ Block'[i].ShakeOffset = 0
                /\ \E k \in DOMAIN iBlock' : iBlock'[k] = i
    BY <1>1, <2>3, <2>4, <2>5, BlockHitDoes
  <2> QED BY <1>1, <1>3, <2>1, <2>4, <2>6 DEF fates
<1>4. CASE AtEnd(b.ShakeCounter) /\ ~HitAgain(b)
  <2> DEFINE d == Turn(b, Still, b.ShakeOffset)
  <2>1. Block' = [Block EXCEPT ![i] = d] /\ UNCHANGED <<NPC, iBlock, fates>>
    <3>1. Block' = [Block EXCEPT ![i].ShakeCounter = Still] /\ UNCHANGED <<NPC, iBlock, fates>>
      BY <1>4 DEF Struck
    <3>2. d = [b EXCEPT !.ShakeCounter = Still]
      BY <1>2 DEF Turn, Block_t
    <3> QED BY <3>1, <3>2
  <2>2. /\ d \in Block_t /\ d.thing = b.thing /\ d.gone = b.gone /\ d.wasCoin = b.wasCoin
        /\ d.Hidden = b.Hidden /\ d.Kill = b.Kill /\ d.ShakeCounter = Still
        /\ d.ShakeOffset = b.ShakeOffset
    <3>1. b.ShakeOffset \in Int
      BY <1>2 DEF Block_t
    <3> QED BY <1>2, <3>1, Turning, CounterTypes
  <2> HIDE DEF d
  <2>3. Steady /\ Block'[i] = d /\ \A j \in DOMAIN Block : j # i => Block'[j] = Block[j]
    BY <1>1, <2>1, <2>2, SteadyOne
  <2>4. Longer
    BY <1>1, <2>1, LongerNot
  <2> QED BY <1>1, <1>4, <2>1, <2>2, <2>3, <2>4 DEF fates
<1>5. CASE ~AtEnd(b.ShakeCounter)
  <2>1. /\ \/ UNCHANGED <<NPC, fates>>
           \/ \E c \in DOMAIN NPC : ~NPC[c].Killed /\ Collected(c)
        /\ UNCHANGED <<Block, iBlock>>
    BY <1>5 DEF Struck
  <2>2. Steady /\ Longer
    BY <1>1, <2>1, SteadyNot, LongerNot
  <2> QED BY <1>1, <1>5, <2>1, <2>2 DEF fates
<1> QED BY <1>3, <1>4, <1>5

LEMMA BaseStruck ==
  ASSUME BaseInv, Struck
  PROVE  BaseInv'
<1>1. /\ pc = "struck" /\ pc' = "smash" /\ A \in DOMAIN iBlock /\ iBlock[A] \in DOMAIN Block
      /\ caller = "none" /\ Steady /\ Longer
      /\ \/ NPC' = NPC /\ lost' = lost /\ kept' = kept
         \/ Block' = Block /\ \E c \in DOMAIN NPC : ~NPC[c].Killed /\ Collected(c)
  BY StruckDoes
<1>2. UNCHANGED <<PSwitchTime, emulate_classic_block_order, owed, A, caller, g_gameLoopInterrupt>>
  BY DEF Struck, InLoop, Proceed, locals
<1>3. TypeOK /\ NPC' \in Seq(NPC_t) /\ lost' \subseteq Things /\ kept' = kept
  BY <1>1, CollectedDoes DEF BaseInv, TypeOK
<1>4. TypeOK'
  BY <1>1, <1>2, <1>3 DEF TypeOK, Steady, Longer, Stages
<1>5. A' \in DOMAIN iBlock' /\ iBlock'[A'] \in DOMAIN Block'
  BY <1>1, <1>2 DEF Steady, Longer
<1> QED BY <1>1, <1>2, <1>4, <1>5, BaseMoved DEF Events, Killing

LEMMA SmashDoes ==
  ASSUME BaseInv, Smash
  PROVE  LET i == iBlock[A] IN
         /\ pc = "smash" /\ A \in DOMAIN iBlock /\ i \in DOMAIN Block /\ caller = "none"
         /\ Steady /\ Block'[i].Kill = 0
         /\ \A j \in DOMAIN Block : /\ j # i => Block'[j] = Block[j]
                                    /\ Block'[j].ShakeCounter = Block[j].ShakeCounter
                                    /\ Block'[j].ShakeOffset = Block[j].ShakeOffset
                                    /\ Block'[j].Hidden = Block[j].Hidden
         /\ UNCHANGED <<NPC, iBlock, lost, kept>>
<1>1. /\ pc = "smash" /\ A \in DOMAIN iBlock /\ iBlock[A] \in DOMAIN Block /\ TypeOK /\ caller = "none"
  BY HerePlace DEF Smash, InLoop, Killing
<1>2. Block' = [Block EXCEPT ![iBlock[A]].Kill = 0] /\ UNCHANGED <<NPC, iBlock, lost, kept>>
  BY DEF Smash, fates
<1> QED BY <1>1, <1>2, Doomed

LEMMA BaseSmash ==
  ASSUME BaseInv, Smash
  PROVE  BaseInv'
<1> DEFINE i == iBlock[A]
<1>1. /\ pc = "smash" /\ A \in DOMAIN iBlock /\ i \in DOMAIN Block /\ caller = "none"
      /\ Steady /\ NPC' = NPC /\ iBlock' = iBlock /\ lost' = lost /\ kept' = kept /\ TypeOK /\ A \in Nat
  BY SmashDoes, HerePlace
<1>2. PSwitchTime' = PSwitchTime /\ emulate_classic_block_order' = emulate_classic_block_order
  BY DEF Smash, InLoop
<1>3. CASE NextEntry /\ owed' = owed
  <2>1. TypeOK'
    BY <1>1, <1>2, <1>3 DEF TypeOK, Steady, Stages, NextEntry
  <2> QED BY <1>1, <1>2, <1>3, <2>1, BaseMoved DEF Events, Killing, NextEntry
<1>4. CASE /\ pc' = "death" /\ caller' = "UpdateBlocks_KillBlock"
           /\ Begin("death", Block[i].thing)
           /\ UNCHANGED <<A, g_gameLoopInterrupt>>
  <2>1. Block[i].thing \in Things /\ Block'[i].thing = Block[i].thing /\ DOMAIN Block' = DOMAIN Block
    BY <1>1, BlockIs DEF Steady, Block_t
  <2>2. TypeOK'
    <3>1. owed' \in [Things -> [hit : Int, death : Int, last : Int]]
      BY <1>1, <1>4, <2>1, OwedTypes DEF Events
    <3> QED BY <1>1, <1>2, <1>4, <3>1 DEF TypeOK, Steady, Stages, Killing, Killers
  <2>3. Place'
    BY <1>1, <1>4, <2>1, PlaceMoved DEF Killing, Killers
  <2>4. Owing'
    <3>1. Stage = "smash" /\ Stage' = "death" /\ At' = A' /\ By' = caller'
      BY <1>1, <1>4, Here, HereNext
    <3>2. Now' = i
      BY <1>1, <1>4, <3>1 DEF Now, FromLoop, Killing
    <3> QED BY <1>1, <1>4, <2>1, <3>1, <3>2, OwingBegun DEF Events, BaseInv
  <2> QED BY <2>2, <2>3, <2>4 DEF BaseInv
<1> QED BY <1>3, <1>4 DEF Smash

LEMMA BaseEndOfLoop ==
  ASSUME BaseInv, EndOfLoop \/ Trimmed
  PROVE  BaseInv'
<1>1. CASE EndOfLoop
  <2>1. TypeOK'
    BY <1>1, HerePlace DEF EndOfLoop, TypeOK, Stages, fates, iBlocks
  <2> QED BY <1>1, <2>1, HerePlace, BaseMoved DEF EndOfLoop, Events, Killing, iBlocks
<1>2. CASE Trimmed
  <2>1. TypeOK'
    BY <1>2 DEF Trimmed, BaseInv, TypeOK, Stages, fates, locals
  <2> QED BY <1>2, <2>1, HerePlace, BaseMoved DEF Trimmed, Events, Killing, locals
<1> QED BY <1>1, <1>2

LEMMA TrimDoes ==
  ASSUME BaseInv, Trim
  PROVE  /\ pc = "trim" /\ pc' = "trim" /\ A \in DOMAIN iBlock /\ A' = A - 1 /\ caller = "none"
         /\ iBlock' \in Seq(Index)
         /\ \/ iBlock' = iBlock
            \/ /\ ~Present(iBlock[A]) \/ Block[iBlock[A]].ShakeCounter = Still
               /\ Len(iBlock') = Len(iBlock) - 1 /\ DOMAIN iBlock' = 1..(Len(iBlock) - 1)
               /\ \A k \in 1..(Len(iBlock) - 1) :
                    iBlock'[k] = IF k = A THEN iBlock[Len(iBlock)] ELSE iBlock[k]
         /\ UNCHANGED <<Block, NPC, PSwitchTime, emulate_classic_block_order, caller,
                        g_gameLoopInterrupt, owed, lost, kept>>
<1>1. pc = "trim" /\ pc' = "trim" /\ A \in DOMAIN iBlock /\ A' = A - 1 /\ iBlock \in Seq(Index) /\ caller = "none"
  BY HerePlace DEF Trim, BaseInv, TypeOK, Killing
<1>2. \/ iBlock' = iBlock
      \/ /\ ~Present(iBlock[A]) \/ Block[iBlock[A]].ShakeCounter = Still
         /\ iBlock' = Without(iBlock, A)
  BY DEF Trim
<1>3. UNCHANGED <<Block, NPC, PSwitchTime, emulate_classic_block_order, caller,
                  g_gameLoopInterrupt, owed, lost, kept>>
  BY DEF Trim, fates
<1> QED BY <1>1, <1>2, <1>3, WithoutIs

LEMMA BaseTrim ==
  ASSUME BaseInv, Trim
  PROVE  BaseInv'
<1>1. /\ pc = "trim" /\ pc' = "trim" /\ A \in DOMAIN iBlock /\ A' = A - 1 /\ caller = "none"
      /\ iBlock' \in Seq(Index) /\ (Len(iBlock') = Len(iBlock) \/ Len(iBlock') = Len(iBlock) - 1)
      /\ UNCHANGED <<Block, NPC, PSwitchTime, emulate_classic_block_order, caller,
                     g_gameLoopInterrupt, owed, lost, kept>>
  BY TrimDoes
<1>2. A \in 1..Len(iBlock) /\ Len(iBlock) \in Nat /\ TypeOK
  BY <1>1, HerePlace
<1>3. A' \in Nat /\ A' <= Len(iBlock')
  BY <1>1, <1>2
<1>4. TypeOK'
  BY <1>1, <1>2, <1>3 DEF TypeOK
<1> QED BY <1>1, <1>3, <1>4, BaseMoved DEF Events, Killing

-----------------------------------------------------------------------------
(* Those of KillBlock.                                                     *)

LEMMA BaseKillEvent ==
  ASSUME BaseInv, DeathEvent \/ LastEvent
  PROVE  BaseInv'
<1>1. /\ pc \in {"death", "last"} /\ Event /\ caller \in Killers
      /\ UNCHANGED <<iBlock, PSwitchTime, emulate_classic_block_order, fates>>
  BY HerePlace DEF DeathEvent, LastEvent, InKillBlock, Killing
<1>2. \/ pc = "death" /\ Interrupt(caller, FALSE)
      \/ pc = "last" /\ Interrupt(caller, TRUE)
      \/ pc = "death" /\ Proceed("ask") /\ Finish("death", Block[Victim].thing)
      \/ pc = "last" /\ Proceed("die") /\ Finish("last", Block[Victim].thing)
  BY DEF DeathEvent, LastEvent, InKillBlock
<1>3. caller \in Sites \ {"None"}
  BY <1>1 DEF Sites, Killers
<1>4. CASE pc = "death" /\ Interrupt(caller, FALSE)
  <2>1. ResumeAt([site |-> caller, A |-> A, bool1 |-> FALSE]) = pc
    BY <1>1, <1>4, ResumeIs
  <2> QED BY <1>1, <1>3, <1>4, <2>1, BaseInterrupted
<1>5. CASE pc = "last" /\ Interrupt(caller, TRUE)
  <2>1. ResumeAt([site |-> caller, A |-> A, bool1 |-> TRUE]) = pc
    BY <1>1, <1>5, ResumeIs
  <2> QED BY <1>1, <1>3, <1>5, <2>1, BaseInterrupted
<1>6. Victim = Now
  BY <1>1, NowIs DEF Events
<1>7. CASE pc = "death" /\ Proceed("ask") /\ Finish("death", Block[Victim].thing)
  BY <1>1, <1>6, <1>7, BaseFinished DEF Proceed, locals, Events
<1>8. CASE pc = "last" /\ Proceed("die") /\ Finish("last", Block[Victim].thing)
  BY <1>1, <1>6, <1>8, BaseFinished DEF Proceed, locals, Events
<1> QED BY <1>2, <1>4, <1>5, <1>7, <1>8

LEMMA BaseAskLast ==
  ASSUME BaseInv, AskLast
  PROVE  BaseInv'
<1>1. /\ pc = "ask" /\ caller \in Killers /\ TypeOK
      /\ Block' = Block /\ NPC' = NPC /\ iBlock' = iBlock /\ PSwitchTime' = PSwitchTime
      /\ emulate_classic_block_order' = emulate_classic_block_order /\ A' = A /\ caller' = caller
      /\ g_gameLoopInterrupt' = g_gameLoopInterrupt /\ lost' = lost /\ kept' = kept
  BY HerePlace DEF AskLast, InKillBlock, Killing, Proceed, locals, fates
<1>2. \/ pc' = "last" /\ Begin("last", Block[Victim].thing)
      \/ pc' = "die" /\ owed' = owed
  BY DEF AskLast, Proceed
<1>3. Now = Victim /\ Victim \in DOMAIN Block /\ Block[Victim].thing \in Things
  BY <1>1, NowIs DEF Events
<1>4. TypeOK'
  <2>1. owed' \in [Things -> [hit : Int, death : Int, last : Int]]
    BY <1>1, <1>2, <1>3, OwedTypes DEF Events, TypeOK
  <2> QED BY <1>1, <1>2, <2>1 DEF TypeOK, Stages, Killing
<1>5. Place'
  BY <1>1, <1>2, HerePlace, PlaceMoved DEF Killing
<1>6. Owing'
  <2>1. Stage = "ask" /\ Stage' = pc' /\ At = A /\ At' = A' /\ By = caller /\ By' = caller'
    BY <1>1, <1>2, Here, HereNext
  <2>2. Now' = Now
    BY <1>1, <1>2, <2>1 DEF Now, FromLoop, Killing
  <2>3. CASE pc' = "last" /\ Begin("last", Block[Victim].thing)
    BY <1>1, <1>3, <2>1, <2>2, <2>3, OwingBegun DEF Events, BaseInv
  <2>4. CASE pc' = "die" /\ owed' = owed
    BY <2>1, <2>4, OwingNone DEF Events, BaseInv
  <2> QED BY <1>2, <2>3, <2>4
<1> QED BY <1>4, <1>5, <1>6 DEF BaseInv

LEMMA DieDoes ==
  ASSUME BaseInv, Die
  PROVE  /\ pc = "die" /\ caller \in Killers /\ Victim \in DOMAIN Block /\ Now = Victim
         /\ Block' \in Seq(Block_t) /\ Len(Block') = Len(Block) /\ DOMAIN Block' = DOMAIN Block
         /\ Block'[Victim].thing = Block[Victim].thing /\ Block'[Victim].wasCoin = Block[Victim].wasCoin
         /\ Block'[Victim].gone /\ Block'[Victim].Hidden /\ Block'[Victim].Kill = 0
         /\ Block'[Victim].ShakeCounter = Block[Victim].ShakeCounter
         /\ Block'[Victim].ShakeOffset = Block[Victim].ShakeOffset
         /\ \A j \in DOMAIN Block : j # Victim => Block'[j] = Block[j]
         /\ \/ /\ caller = "UpdateBlocks_KillBlock" /\ A \in DOMAIN iBlock /\ Victim = iBlock[A]
               /\ pc' = "queue" /\ A' = A + 1 /\ lost' = lost \cup {Block[Victim].thing}
            \/ /\ caller = "UpdateBlocks_SwitchOff_KillBlock" /\ Victim = A
               /\ pc' = "off" /\ A' = A - 1 /\ lost' = lost
         /\ caller' = "none" /\ PSwitchTime' = PSwitchTime /\ iBlock' = iBlock /\ NPC' = NPC
         /\ emulate_classic_block_order' = emulate_classic_block_order
         /\ g_gameLoopInterrupt' = g_gameLoopInterrupt /\ owed' = owed /\ kept' = kept
<1>1. /\ pc = "die" /\ caller' = "none" /\ PSwitchTime' = PSwitchTime /\ iBlock' = iBlock /\ NPC' = NPC
      /\ emulate_classic_block_order' = emulate_classic_block_order
      /\ g_gameLoopInterrupt' = g_gameLoopInterrupt /\ owed' = owed /\ kept' = kept
      /\ caller \in Killers
  BY HerePlace DEF Die, InKillBlock, Killing
<1>2. Now = Victim /\ Victim \in DOMAIN Block /\ TypeOK
  BY <1>1, NowIs, HerePlace
<1>3. \/ /\ caller = "UpdateBlocks_KillBlock" /\ A \in DOMAIN iBlock /\ Victim = iBlock[A]
         /\ pc' = "queue" /\ A' = A + 1 /\ lost' = lost \cup {Block[Victim].thing}
      \/ /\ caller = "UpdateBlocks_SwitchOff_KillBlock" /\ Victim = A
         /\ pc' = "off" /\ A' = A - 1 /\ lost' = lost
  BY <1>1, HerePlace DEF Die, Killers, Victim, Killing
<1> DEFINE b == [Block[Victim] EXCEPT !.Hidden = TRUE, !.gone = TRUE, !.Kill = 0]
<1>4. /\ b \in Block_t /\ b.thing = Block[Victim].thing /\ b.wasCoin = Block[Victim].wasCoin
      /\ b.gone /\ b.Hidden /\ b.Kill = 0 /\ b.ShakeCounter = Block[Victim].ShakeCounter
      /\ b.ShakeOffset = Block[Victim].ShakeOffset
  BY <1>2, BlockIs DEF Block_t
<1>5. Block' = [Block EXCEPT ![Victim] = b]
  <2>1. Block' = [Block EXCEPT ![Victim].Hidden = TRUE, ![Victim].gone = TRUE, ![Victim].Kill = 0]
    BY DEF Die
  <2>2. Block \in Seq(Block_t)
    BY <1>2 DEF TypeOK
  <2> HIDE DEF Victim
  <2> QED BY <1>2, <2>1, <2>2
<1> HIDE DEF b
<1>6. /\ Block' \in Seq(Block_t) /\ Len(Block') = Len(Block) /\ DOMAIN Block' = DOMAIN Block
      /\ Block'[Victim] = b /\ \A j \in DOMAIN Block : j # Victim => Block'[j] = Block[j]
  <2>1. Block \in Seq(Block_t)
    BY <1>2 DEF TypeOK
  <2> QED BY <1>2, <1>4, <1>5, <2>1, Exchanged
<1> QED BY <1>1, <1>2, <1>3, <1>4, <1>6

LEMMA BaseDie ==
  ASSUME BaseInv, Die
  PROVE  BaseInv'
<1>1. /\ pc = "die" /\ Block' \in Seq(Block_t) /\ Len(Block') = Len(Block)
      /\ Victim \in DOMAIN Block
      /\ \/ /\ caller = "UpdateBlocks_KillBlock" /\ A \in DOMAIN iBlock
            /\ pc' = "queue" /\ A' = A + 1 /\ lost' = lost \cup {Block[Victim].thing}
         \/ /\ caller = "UpdateBlocks_SwitchOff_KillBlock" /\ Victim = A
            /\ pc' = "off" /\ A' = A - 1 /\ lost' = lost
      /\ caller' = "none" /\ PSwitchTime' = PSwitchTime /\ iBlock' = iBlock /\ NPC' = NPC
      /\ emulate_classic_block_order' = emulate_classic_block_order
      /\ g_gameLoopInterrupt' = g_gameLoopInterrupt /\ owed' = owed /\ kept' = kept
  BY DieDoes
<1>2. TypeOK /\ A \in Nat /\ Block[Victim].thing \in Things /\ A' \in Nat
      /\ (pc' = "queue" => A' >= 1) /\ (pc' = "off" => A' <= Len(Block))
  <2>1. TypeOK /\ A \in Nat /\ Len(Block) \in Nat /\ DOMAIN Block = 1..Len(Block)
    BY <1>1, HerePlace
  <2>2. Block[Victim].thing \in Things
    BY <1>1, <2>1, BlockIs DEF Block_t
  <2>3. pc' = "off" => A \in 1..Len(Block)
    BY <1>1, <2>1
  <2>4. A' \in Nat /\ (pc' = "queue" => A' >= 1) /\ (pc' = "off" => A' <= Len(Block))
    BY <1>1, <2>1, <2>3
  <2> QED BY <2>1, <2>2, <2>4
<1>3. TypeOK'
  BY <1>1, <1>2 DEF TypeOK, Stages
<1>4. pc' = "off" => PSwitchTime <= 1
  BY <1>1, HerePlace DEF Killing
<1> QED BY <1>1, <1>2, <1>3, <1>4, BaseMoved DEF Events, Killing

-----------------------------------------------------------------------------
(* Those of PSwitch.                                                       *)

LEMMA NewBlockIs ==
  ASSUME NEW thing \in Things, NEW hidden \in BOOLEAN, NEW coin \in BOOLEAN
  PROVE  LET b == NewBlock(thing, hidden, coin) IN
         /\ b \in Block_t /\ b.thing = thing /\ b.Hidden = hidden /\ ~b.gone /\ b.wasCoin = coin
         /\ b.Kill = 0 /\ b.ShakeCounter = Still /\ b.ShakeOffset = 0
BY CounterTypes DEF NewBlock, Block_t

LEMMA NewCoinIs ==
  ASSUME NEW thing \in Things, NEW hidden \in BOOLEAN, NEW block \in BOOLEAN
  PROVE  LET n == Coin(thing, hidden, block) IN
         /\ n \in NPC_t /\ n.thing = thing /\ ~n.Killed /\ n.wasBlock = block
BY DEF Coin, NPC_t

\* A coin is killed and a block appended, if there is room.
LEMMA TransformDoes ==
  ASSUME TypeOK, NEW c \in DOMAIN NPC, NEW coin \in BOOLEAN, Transform(c, coin)
  PROVE  /\ NPC' \in Seq(NPC_t) /\ Len(NPC') = Len(NPC) /\ DOMAIN NPC' = DOMAIN NPC
         /\ \A d \in DOMAIN NPC : /\ NPC'[d].thing = NPC[d].thing /\ NPC'[d].wasBlock = NPC[d].wasBlock
                                  /\ NPC'[d].Killed = (d = c \/ NPC[d].Killed)
         /\ Block' \in Seq(Block_t) /\ lost' \subseteq Things
         /\ \/ /\ Len(Block') = Len(Block) + 1 /\ DOMAIN Block' = 1..(Len(Block) + 1)
               /\ \A i \in DOMAIN Block : Block'[i] = Block[i]
               /\ Block'[Len(Block) + 1].thing = NPC[c].thing /\ ~Block'[Len(Block) + 1].gone
               /\ Block'[Len(Block) + 1].wasCoin = coin /\ Block'[Len(Block) + 1].Kill = 0
               /\ Block'[Len(Block) + 1].ShakeCounter = Still /\ Block'[Len(Block) + 1].ShakeOffset = 0
               /\ lost' = lost \ {NPC[c].thing}
            \/ Block' = Block /\ lost' = lost \cup {NPC[c].thing}
<1> DEFINE n == [NPC[c] EXCEPT !.Killed = TRUE]
           b == NewBlock(NPC[c].thing, NPC[c].Hidden, coin)
<1>1. NPC[c] \in NPC_t /\ NPC \in Seq(NPC_t) /\ Block \in Seq(Block_t) /\ lost \subseteq Things
  BY CoinIs DEF TypeOK
<1>2. n \in NPC_t /\ n.thing = NPC[c].thing /\ n.wasBlock = NPC[c].wasBlock /\ n.Killed = TRUE
  BY <1>1 DEF NPC_t
<1>3. NPC' = [NPC EXCEPT ![c] = n]
  BY <1>1 DEF Transform
<1>4. /\ b \in Block_t /\ b.thing = NPC[c].thing /\ ~b.gone /\ b.wasCoin = coin
      /\ b.Kill = 0 /\ b.ShakeCounter = Still /\ b.ShakeOffset = 0 /\ NPC[c].thing \in Things
  <2>1. NPC[c].thing \in Things /\ NPC[c].Hidden \in BOOLEAN
    BY <1>1 DEF NPC_t
  <2> QED BY <2>1, NewBlockIs
<1>5. \/ Block' = Append(Block, b) /\ lost' = lost \ {NPC[c].thing}
      \/ Block' = Block /\ lost' = lost \cup {NPC[c].thing}
  BY DEF Transform
<1> HIDE DEF n, b
<1>6. /\ NPC' \in Seq(NPC_t) /\ Len(NPC') = Len(NPC) /\ DOMAIN NPC' = DOMAIN NPC
      /\ NPC'[c] = n /\ \A d \in DOMAIN NPC : d # c => NPC'[d] = NPC[d]
  BY <1>1, <1>2, <1>3, Exchanged
<1>7. \A d \in DOMAIN NPC : NPC[d].Killed \in BOOLEAN
  BY CoinIs DEF NPC_t
<1>8. CASE Block' = Append(Block, b) /\ lost' = lost \ {NPC[c].thing}
  <2>1. /\ Block' \in Seq(Block_t) /\ Len(Block') = Len(Block) + 1 /\ DOMAIN Block' = 1..(Len(Block) + 1)
        /\ Block'[Len(Block) + 1] = b /\ \A i \in DOMAIN Block : Block'[i] = Block[i]
    BY <1>1, <1>4, <1>8, Appended
  <2> QED BY <1>1, <1>2, <1>4, <1>6, <1>7, <1>8, <2>1
<1>9. CASE Block' = Block /\ lost' = lost \cup {NPC[c].thing}
  BY <1>1, <1>2, <1>4, <1>6, <1>7, <1>9
<1> QED BY <1>5, <1>8, <1>9

LEMMA NextNPCDoes ==
  ASSUME BaseInv, NEW at \in {"blocks", "back"}, NEW chosen \in BOOLEAN, NEW coin \in BOOLEAN,
         NextNPC(at, chosen, coin)
  PROVE  /\ pc = at /\ pc' = at /\ A \in DOMAIN NPC /\ A' = A + 1 /\ caller = "none"
         /\ NPC' \in Seq(NPC_t) /\ Len(NPC') = Len(NPC) /\ DOMAIN NPC' = DOMAIN NPC
         /\ \A d \in DOMAIN NPC : /\ NPC'[d].thing = NPC[d].thing /\ NPC'[d].wasBlock = NPC[d].wasBlock
                                  /\ NPC'[d].Killed = ((d = A /\ chosen) \/ NPC[d].Killed)
         /\ Block' \in Seq(Block_t) /\ lost' \subseteq Things
         /\ \/ /\ chosen
               /\ Len(Block') = Len(Block) + 1 /\ DOMAIN Block' = 1..(Len(Block) + 1)
               /\ \A i \in DOMAIN Block : Block'[i] = Block[i]
               /\ Block'[Len(Block) + 1].thing = NPC[A].thing /\ ~Block'[Len(Block) + 1].gone
               /\ Block'[Len(Block) + 1].wasCoin = coin /\ Block'[Len(Block) + 1].Kill = 0
               /\ Block'[Len(Block) + 1].ShakeCounter = Still /\ Block'[Len(Block) + 1].ShakeOffset = 0
               /\ lost' = lost \ {NPC[A].thing}
            \/ chosen /\ Block' = Block /\ lost' = lost \cup {NPC[A].thing}
            \/ ~chosen /\ Block' = Block /\ NPC' = NPC /\ lost' = lost
         /\ iBlock' = iBlock /\ PSwitchTime' = PSwitchTime /\ caller' = caller
         /\ emulate_classic_block_order' = emulate_classic_block_order
         /\ g_gameLoopInterrupt' = g_gameLoopInterrupt /\ owed' = owed /\ kept' = kept
<1>1. /\ pc = at /\ A \in DOMAIN NPC /\ A' = A + 1 /\ pc' = at /\ iBlock' = iBlock
      /\ PSwitchTime' = PSwitchTime /\ caller' = caller
      /\ emulate_classic_block_order' = emulate_classic_block_order
      /\ g_gameLoopInterrupt' = g_gameLoopInterrupt /\ owed' = owed /\ kept' = kept
  BY DEF NextNPC, InSwitch
<1>2. TypeOK /\ caller = "none"
  BY <1>1, HerePlace DEF Killing
<1>3. CASE chosen
  <2>1. Transform(A, coin)
    BY <1>3 DEF NextNPC
  <2> QED BY <1>1, <1>2, <1>3, <2>1, TransformDoes
<1>4. CASE ~chosen
  <2>1. Block' = Block /\ NPC' = NPC /\ lost' = lost
    BY <1>4 DEF NextNPC
  <2>2. \A d \in DOMAIN NPC : NPC[d].Killed \in BOOLEAN
    BY <1>2, CoinIs DEF NPC_t
  <2> QED BY <1>1, <1>2, <1>4, <2>1, <2>2 DEF TypeOK
<1> QED BY <1>3, <1>4

LEMMA BaseNextNPC ==
  ASSUME BaseInv, NEW at \in {"blocks", "back"}, NEW chosen \in BOOLEAN, NEW coin \in BOOLEAN,
         NextNPC(at, chosen, coin)
  PROVE  BaseInv'
<1>1. /\ pc = at /\ pc' = at /\ A' = A + 1 /\ caller = "none"
      /\ NPC' \in Seq(NPC_t) /\ Block' \in Seq(Block_t) /\ lost' \subseteq Things
      /\ iBlock' = iBlock /\ PSwitchTime' = PSwitchTime /\ caller' = caller
      /\ emulate_classic_block_order' = emulate_classic_block_order
      /\ g_gameLoopInterrupt' = g_gameLoopInterrupt /\ owed' = owed /\ kept' = kept
  BY NextNPCDoes
<1>2. TypeOK /\ A \in Nat
  BY <1>1, HerePlace
<1>3. TypeOK'
  BY <1>1, <1>2 DEF TypeOK
<1> QED BY <1>1, <1>2, <1>3, HerePlace, BaseMoved DEF Events, Killing

LEMMA IsCoinIs ==
  ASSUME TypeOK, A \in DOMAIN NPC
  PROVE  IsCoin(NPC[A]) \in BOOLEAN /\ IsSwitched(NPC[A]) \in BOOLEAN
BY CoinIs DEF IsCoin, IsSwitched, NPC_t

LEMMA BaseToBlock ==
  ASSUME BaseInv, ToBlock \/ BackToBlock
  PROVE  BaseInv'
<1>1. TypeOK /\ A \in DOMAIN NPC
  BY DEF BaseInv, ToBlock, BackToBlock, NextNPC
<1> QED BY <1>1, IsCoinIs, BaseNextNPC DEF ToBlock, BackToBlock

LEMMA BaseLastNPC ==
  ASSUME BaseInv, CoinsToTurn \/ BackToTurn
  PROVE  BaseInv'
<1>1. /\ \/ pc = "blocks" /\ pc' = "coins"
         \/ pc = "back" /\ pc' = "off"
      /\ A' = Len(Block) /\ UNCHANGED <<Block, NPC, iBlock, PSwitchTime, caller, g_gameLoopInterrupt,
                                        owed, lost, kept, emulate_classic_block_order>>
  BY DEF CoinsToTurn, BackToTurn, LastNPC, InSwitch, fates, numBlock
<1>2. TypeOK /\ Len(Block) \in Nat
  BY <1>1, HerePlace
<1>3. TypeOK'
  BY <1>1, <1>2 DEF TypeOK, Stages
<1> QED BY <1>1, <1>2, <1>3, HerePlace, BaseMoved DEF Events, Killing

LEMMA ToCoinDoes ==
  ASSUME BaseInv, ToCoin
  PROVE  /\ pc = "coins" /\ pc' = "coins" /\ A \in DOMAIN Block /\ A' = A - 1 /\ caller = "none"
         /\ \/ UNCHANGED <<Block, NPC, iBlock>>
            \/ /\ IsTurned(Block[A])
               /\ Block' \in Seq(Block_t) /\ Len(Block') = Len(Block) - 1
               /\ DOMAIN Block' = 1..(Len(Block) - 1)
               /\ \A j \in 1..(Len(Block) - 1) :
                    Block'[j] = IF j = A THEN Block[Len(Block)] ELSE Block[j]
               /\ NPC' \in Seq(NPC_t) /\ Len(NPC') = Len(NPC) + 1 /\ DOMAIN NPC' = 1..(Len(NPC) + 1)
               /\ \A c \in DOMAIN NPC : NPC'[c] = NPC[c]
               /\ NPC'[Len(NPC) + 1].thing = Block[A].thing /\ ~NPC'[Len(NPC) + 1].Killed
               /\ NPC'[Len(NPC) + 1].wasBlock = TRUE
               /\ iBlock' = Entry(iBlock, A)
         /\ PSwitchTime' = PSwitchTime /\ caller' = caller
         /\ emulate_classic_block_order' = emulate_classic_block_order
         /\ g_gameLoopInterrupt' = g_gameLoopInterrupt /\ owed' = owed /\ lost' = lost /\ kept' = kept
<1>1. /\ pc = "coins" /\ A >= 1 /\ pc' = "coins" /\ A' = A - 1 /\ PSwitchTime' = PSwitchTime
      /\ emulate_classic_block_order' = emulate_classic_block_order /\ caller' = caller
      /\ g_gameLoopInterrupt' = g_gameLoopInterrupt /\ owed' = owed /\ lost' = lost /\ kept' = kept
  BY DEF ToCoin, InSwitch, fates
<1>2. TypeOK /\ A \in DOMAIN Block /\ caller = "none"
  BY <1>1, HerePlace DEF Killing
<1>3. CASE UNCHANGED <<Block, NPC, iBlock>>
  BY <1>1, <1>2, <1>3
<1>4. CASE /\ IsTurned(Block[A]) /\ Block' = Without(Block, A)
           /\ NPC' = Append(NPC, Coin(Block[A].thing, FALSE, TRUE))
           /\ iBlock' = Entry(iBlock, A)
  <2>1. Block \in Seq(Block_t) /\ NPC \in Seq(NPC_t) /\ Block[A].thing \in Things
    BY <1>2, BlockIs DEF TypeOK, Block_t
  <2>2. /\ Block' \in Seq(Block_t) /\ Len(Block') = Len(Block) - 1
        /\ DOMAIN Block' = 1..(Len(Block) - 1)
        /\ \A j \in 1..(Len(Block) - 1) : Block'[j] = IF j = A THEN Block[Len(Block)] ELSE Block[j]
    BY <1>2, <1>4, <2>1, WithoutIs
  <2> DEFINE n == Coin(Block[A].thing, FALSE, TRUE)
  <2>3. n \in NPC_t /\ n.thing = Block[A].thing /\ ~n.Killed /\ n.wasBlock = TRUE
    BY <2>1, NewCoinIs
  <2>4. NPC' = Append(NPC, n)
    BY <1>4
  <2> HIDE DEF n
  <2>5. /\ NPC' \in Seq(NPC_t) /\ Len(NPC') = Len(NPC) + 1 /\ DOMAIN NPC' = 1..(Len(NPC) + 1)
        /\ NPC'[Len(NPC) + 1] = n /\ \A c \in DOMAIN NPC : NPC'[c] = NPC[c]
    BY <2>1, <2>3, <2>4, Appended
  <2> QED BY <1>1, <1>2, <1>4, <2>2, <2>3, <2>5
<1> QED BY <1>3, <1>4 DEF ToCoin

LEMMA BaseToCoin ==
  ASSUME BaseInv, ToCoin
  PROVE  BaseInv'
<1>1. /\ pc = "coins" /\ pc' = "coins" /\ A \in DOMAIN Block /\ A' = A - 1 /\ caller = "none"
      /\ PSwitchTime' = PSwitchTime /\ caller' = caller
      /\ emulate_classic_block_order' = emulate_classic_block_order
      /\ g_gameLoopInterrupt' = g_gameLoopInterrupt /\ owed' = owed /\ lost' = lost /\ kept' = kept
  BY ToCoinDoes
<1>2. \/ UNCHANGED <<Block, NPC, iBlock>>
      \/ /\ Block' \in Seq(Block_t) /\ Len(Block') = Len(Block) - 1 /\ NPC' \in Seq(NPC_t)
         /\ iBlock' = Entry(iBlock, A)
  BY ToCoinDoes
<1>3. TypeOK /\ A \in 1..Len(Block) /\ Len(Block) \in Nat /\ A \in Index
  BY <1>1, HerePlace, BlockIs
<1>4. Block' \in Seq(Block_t) /\ NPC' \in Seq(NPC_t) /\ iBlock' \in Seq(Index)
  <2>1. iBlock \in Seq(Index)
    BY <1>3 DEF TypeOK
  <2>2. Append(iBlock, A) \in Seq(Index)
    BY <1>3, <2>1, Appended
  <2> QED BY <1>2, <1>3, <2>1, <2>2 DEF Entry, TypeOK
<1>5. A' \in Nat /\ A' <= Len(Block')
  BY <1>1, <1>2, <1>3
<1>6. TypeOK'
  BY <1>1, <1>3, <1>4, <1>5 DEF TypeOK
<1> QED BY <1>1, <1>5, <1>6, HerePlace, BaseMoved DEF Events, Killing

LEMMA BaseWalk ==
  ASSUME BaseInv, AllTurned \/ NoSwitch \/ SwitchOn
  PROVE  BaseInv'
<1>1. /\ \/ pc = "coins" /\ pc' = "start" /\ A' = A
         \/ pc = "time" /\ PSwitchTime = 0 /\ pc' = "idle" /\ A' = A
         \/ pc = "time" /\ PSwitchTime \in 1..(SwitchTime - 1) /\ pc' = "tick" /\ A' = A
         \/ pc = "time" /\ PSwitchTime = SwitchTime /\ pc' = "blocks" /\ A' = 1
      /\ UNCHANGED <<Block, NPC, iBlock, PSwitchTime, caller, g_gameLoopInterrupt, owed, lost, kept,
                     emulate_classic_block_order>>
  BY SizesAssumption DEF AllTurned, NoSwitch, SwitchOn, InSwitch, Proceed, locals, fates
<1>2. TypeOK /\ SwitchTime \in Nat
  BY <1>1, HerePlace, SizesAssumption
<1>3. TypeOK'
  BY <1>1, <1>2 DEF TypeOK, Stages
<1> QED BY <1>1, <1>2, <1>3, HerePlace, BaseMoved DEF Events, Killing

LEMMA BaseSwitchEvent ==
  ASSUME BaseInv, StartEvent \/ EndEvent
  PROVE  BaseInv'
<1>1. /\ pc \in {"start", "end"} /\ Event /\ caller = "none"
      /\ UNCHANGED <<iBlock, PSwitchTime, emulate_classic_block_order, fates>>
  BY HerePlace DEF StartEvent, EndEvent, InSwitch, Killing
<1>2. \/ pc = "start" /\ Interrupt("UpdateBlocks_SwitchOn", FALSE)
      \/ pc = "end" /\ Interrupt("UpdateBlocks_SwitchOff", FALSE)
      \/ pc = "start" /\ Proceed("started") /\ UNCHANGED owed
      \/ pc = "end" /\ Proceed("ended") /\ UNCHANGED owed
  BY DEF StartEvent, EndEvent, InSwitch
<1>3. CASE pc = "start" /\ Interrupt("UpdateBlocks_SwitchOn", FALSE)
  BY <1>1, <1>3, BaseInterrupted, ResumeIs DEF Sites, Killers
<1>4. CASE pc = "end" /\ Interrupt("UpdateBlocks_SwitchOff", FALSE)
  BY <1>1, <1>4, BaseInterrupted, ResumeIs DEF Sites, Killers
<1>5. CASE /\ (pc = "start" /\ pc' = "started") \/ (pc = "end" /\ pc' = "ended")
           /\ UNCHANGED <<A, caller, g_gameLoopInterrupt, owed>>
  <2>1. SteadyNPC /\ Steady
    BY <1>1, EventDoes DEF BaseInv
  <2>2. TypeOK'
    BY <1>1, <1>5, <2>1 DEF BaseInv, TypeOK, Stages, fates, Steady, SteadyNPC
  <2> QED BY <1>1, <1>5, <2>2, HerePlace, BaseMoved DEF Events, Killing
<1> QED BY <1>2, <1>3, <1>4, <1>5 DEF Proceed, locals

\* The blocks are the same, in whatever order; with the classic order each has an entry.
LEMMA SortedDoes ==
  ASSUME TypeOK, Sorted
  PROVE  /\ Block' \in Seq(Block_t) /\ Len(Block') = Len(Block) /\ DOMAIN Block' = DOMAIN Block
         /\ iBlock' \in Seq(Index)
         /\ \E order \in [DOMAIN Block -> DOMAIN Block] :
              /\ \A k \in DOMAIN Block : Block'[k] = Block[order[k]]
              /\ \A k, m \in DOMAIN Block : order[k] = order[m] => k = m
              /\ \A i \in DOMAIN Block : \E k \in DOMAIN Block : order[k] = i
         /\ emulate_classic_block_order => \A i \in DOMAIN Block : \E k \in DOMAIN iBlock' : iBlock'[k] = i
         /\ ~emulate_classic_block_order => Block' = Block /\ iBlock' = iBlock
<1>1. Block \in Seq(Block_t) /\ Len(Block) \in Nat /\ DOMAIN Block = 1..Len(Block) /\ iBlock \in Seq(Index)
  BY DEF TypeOK
<1>2. CASE ~emulate_classic_block_order
  <2>1. Block' = Block /\ iBlock' = iBlock
    BY <1>2 DEF Sorted
  <2> DEFINE order == [k \in DOMAIN Block |-> k]
  <2>2. /\ order \in [DOMAIN Block -> DOMAIN Block]
        /\ \A k \in DOMAIN Block : Block'[k] = Block[order[k]] /\ order[k] = k
    BY <2>1
  <2> HIDE DEF order
  <2> QED BY <1>1, <1>2, <2>1, <2>2
<1>3. CASE emulate_classic_block_order
  <2>1. PICK order \in Bijection(DOMAIN Block, DOMAIN Block) :
          Block' = [k \in DOMAIN Block |-> Block[order[k]]]
    BY <1>3 DEF Sorted
  <2>2. iBlock' = [k \in DOMAIN Block |-> k]
    BY <1>3 DEF Sorted
  <2>3. /\ order \in [DOMAIN Block -> DOMAIN Block]
        /\ \A k, m \in DOMAIN Block : order[k] = order[m] => k = m
        /\ \A i \in DOMAIN Block : \E k \in DOMAIN Block : order[k] = i
    BY DEF Bijection, Injection, Surjection, IsInjective
  <2>4. Block' \in Seq(Block_t) /\ Len(Block') = Len(Block) /\ DOMAIN Block' = DOMAIN Block
    BY <1>1, <2>1, <2>3
  <2>5. iBlock' \in Seq(Index) /\ \A i \in DOMAIN Block : i \in DOMAIN iBlock' /\ iBlock'[i] = i
    BY <1>1, <2>2 DEF Index
  <2> QED BY <1>3, <2>1, <2>3, <2>4, <2>5
<1> QED BY <1>2, <1>3

LEMMA BaseSorted ==
  ASSUME BaseInv, Started \/ Ended
  PROVE  BaseInv'
<1>1. /\ (pc = "started" /\ pc' = "tick") \/ (pc = "ended" /\ pc' = "idle")
      /\ Sorted
      /\ UNCHANGED <<A, NPC, PSwitchTime, caller, g_gameLoopInterrupt, owed, lost, kept,
                     emulate_classic_block_order>>
  BY DEF Started, Ended, InSwitch, Proceed, locals, fates
<1>2. TypeOK'
  BY <1>1, SortedDoes DEF BaseInv, TypeOK, Stages
<1> QED BY <1>1, <1>2, HerePlace, BaseMoved, SizesAssumption DEF Events, Killing

LEMMA BaseTick ==
  ASSUME BaseInv, Tick
  PROVE  BaseInv'
<1>1. /\ pc = "tick" /\ PSwitchTime' = PSwitchTime - 1
      /\ \/ PSwitchTime' <= 1 /\ pc' = "back" /\ A' = 1
         \/ pc' = "idle" /\ A' = A
      /\ UNCHANGED <<Block, NPC, iBlock, caller, g_gameLoopInterrupt, owed, lost, kept,
                     emulate_classic_block_order>>
  BY DEF Tick, InSwitch, fates
<1>2. TypeOK /\ PSwitchTime \in 1..SwitchTime /\ SwitchTime \in Nat
  BY <1>1, HerePlace, SizesAssumption DEF TypeOK
<1>3. TypeOK'
  BY <1>1, <1>2 DEF TypeOK, Stages
<1> QED BY <1>1, <1>2, <1>3, HerePlace, BaseMoved DEF Events, Killing

LEMMA GiveBackDoes ==
  ASSUME BaseInv, GiveBack
  PROVE  /\ pc = "off" /\ A \in DOMAIN Block /\ GivesBack(Block[A]) /\ Block[A].thing \in Things
         /\ NPC' \in Seq(NPC_t) /\ Len(NPC') = Len(NPC) + 1 /\ DOMAIN NPC' = 1..(Len(NPC) + 1)
         /\ \A c \in DOMAIN NPC : NPC'[c] = NPC[c]
         /\ NPC'[Len(NPC) + 1].thing = Block[A].thing /\ ~NPC'[Len(NPC) + 1].Killed
         /\ NPC'[Len(NPC) + 1].wasBlock = FALSE
         /\ pc' = "death" /\ caller' = "UpdateBlocks_SwitchOff_KillBlock"
         /\ Begin("death", Block[A].thing) /\ kept' = kept \ {Block[A].thing}
         /\ Block' = Block /\ iBlock' = iBlock /\ PSwitchTime' = PSwitchTime /\ A' = A
         /\ emulate_classic_block_order' = emulate_classic_block_order
         /\ g_gameLoopInterrupt' = g_gameLoopInterrupt /\ lost' = lost
<1>1. /\ pc = "off" /\ A >= 1 /\ GivesBack(Block[A])
      /\ NPC' = Append(NPC, Coin(Block[A].thing, FALSE, FALSE))
      /\ pc' = "death" /\ caller' = "UpdateBlocks_SwitchOff_KillBlock"
      /\ Begin("death", Block[A].thing) /\ kept' = kept \ {Block[A].thing}
      /\ Block' = Block /\ iBlock' = iBlock /\ PSwitchTime' = PSwitchTime /\ A' = A
      /\ emulate_classic_block_order' = emulate_classic_block_order
      /\ g_gameLoopInterrupt' = g_gameLoopInterrupt /\ lost' = lost
  BY DEF GiveBack
<1>2. TypeOK /\ A \in DOMAIN Block
  BY <1>1, HerePlace
<1>3. NPC \in Seq(NPC_t) /\ Block[A].thing \in Things
  BY <1>2, BlockIs DEF TypeOK, Block_t
<1> DEFINE n == Coin(Block[A].thing, FALSE, FALSE)
<1>4. n \in NPC_t /\ n.thing = Block[A].thing /\ ~n.Killed /\ n.wasBlock = FALSE
  BY <1>3, NewCoinIs
<1>5. NPC' = Append(NPC, n)
  BY <1>1
<1> HIDE DEF n
<1>6. /\ NPC' \in Seq(NPC_t) /\ Len(NPC') = Len(NPC) + 1 /\ DOMAIN NPC' = 1..(Len(NPC) + 1)
      /\ NPC'[Len(NPC) + 1] = n /\ \A c \in DOMAIN NPC : NPC'[c] = NPC[c]
  BY <1>3, <1>4, <1>5, Appended
<1> QED BY <1>1, <1>2, <1>3, <1>4, <1>6

LEMMA BaseGiveBack ==
  ASSUME BaseInv, GiveBack
  PROVE  BaseInv'
<1>1. /\ pc = "off" /\ A \in DOMAIN Block /\ Block[A].thing \in Things /\ NPC' \in Seq(NPC_t)
      /\ pc' = "death" /\ caller' = "UpdateBlocks_SwitchOff_KillBlock"
      /\ Begin("death", Block[A].thing) /\ kept' = kept \ {Block[A].thing}
      /\ Block' = Block /\ iBlock' = iBlock /\ PSwitchTime' = PSwitchTime /\ A' = A
      /\ emulate_classic_block_order' = emulate_classic_block_order
      /\ g_gameLoopInterrupt' = g_gameLoopInterrupt /\ lost' = lost
  BY GiveBackDoes
<1>2. TypeOK /\ PSwitchTime <= 1
  BY <1>1, HerePlace
<1>3. TypeOK'
  <2>1. owed' \in [Things -> [hit : Int, death : Int, last : Int]]
    BY <1>1, <1>2, OwedTypes DEF Events
  <2> QED BY <1>1, <1>2, <2>1 DEF TypeOK, Stages, Killing, Killers
<1>4. Place'
  BY <1>1, <1>2, PlaceMoved DEF Killing, Killers
<1>5. Owing'
  <2>1. Stage = "off" /\ Stage' = "death" /\ At' = A /\ By' = "UpdateBlocks_SwitchOff_KillBlock"
    BY <1>1, Here, HereNext
  <2>2. Now' = A
    BY <1>1, <2>1 DEF Now, FromLoop
  <2> QED BY <1>1, <1>2, <2>1, <2>2, OwingBegun DEF Events, BaseInv
<1> QED BY <1>3, <1>4, <1>5 DEF BaseInv

LEMMA BaseOff ==
  ASSUME BaseInv, PassOver \/ SwitchDone
  PROVE  BaseInv'
<1>1. /\ pc = "off"
      /\ \/ pc' = "off" /\ A >= 1 /\ A' = A - 1
         \/ pc' = "end" /\ A' = 0
      /\ UNCHANGED <<Block, NPC, iBlock, PSwitchTime, caller, g_gameLoopInterrupt, owed, lost,
                     emulate_classic_block_order>>
  BY DEF PassOver, SwitchDone, InSwitch
<1>2. TypeOK /\ A \in Nat /\ A <= Len(Block) /\ Len(Block) \in Nat /\ DOMAIN Block = 1..Len(Block)
  BY <1>1, HerePlace
<1>3. kept' \subseteq Things
  <2>1. \A i \in DOMAIN Block : Block[i].thing \in Things
    BY <1>2, BlockIs DEF Block_t
  <2>2. CASE PassOver
    BY <1>2, <2>1, <2>2 DEF PassOver, TypeOK
  <2>3. CASE SwitchDone
    BY <1>2, <2>1, <2>3 DEF SwitchDone, TypeOK
  <2> QED BY <2>2, <2>3
<1>4. TypeOK'
  BY <1>1, <1>2, <1>3 DEF TypeOK, Stages
<1> QED BY <1>1, <1>2, <1>4, HerePlace, BaseMoved DEF Events, Killing

LEMMA BaseResume ==
  ASSUME BaseInv, Resume
  PROVE  BaseInv'
<1>1. Stage' = Stage /\ At' = At /\ By' = By
  BY Resumed
<1>2. /\ pc = "paused" /\ pc' = ResumeAt(g_gameLoopInterrupt) /\ A' = g_gameLoopInterrupt.A
      /\ caller' = IF g_gameLoopInterrupt.site \in Killers THEN g_gameLoopInterrupt.site ELSE "none"
      /\ g_gameLoopInterrupt' = NoInterrupt
      /\ UNCHANGED <<Block, NPC, iBlock, PSwitchTime, emulate_classic_block_order, owed, lost, kept>>
  BY DEF Resume, fates
<1>3. pc' \in Stages /\ pc' # "paused"
  BY <1>2 DEF ResumeAt, Stages, Killing
<1>4. NoInterrupt \in [site : Sites, A : Nat, bool1 : BOOLEAN]
  BY DEF NoInterrupt, Sites
<1>5. TypeOK'
  BY <1>2, <1>3, <1>4 DEF BaseInv, TypeOK
<1>6. Steady /\ Longer
  BY <1>2, SteadyNot, LongerNot DEF BaseInv
<1> QED BY <1>1, <1>2, <1>3, <1>5, <1>6, BaseKept

-----------------------------------------------------------------------------
(* Every step keeps types, places and events.                              *)

LEMMA InitIs ==
  ASSUME Init
  PROVE  \E blocks \in Seq(Things), coins \in Seq(Things) :
           /\ \A i \in DOMAIN blocks : blocks[i] \notin Coins
           /\ \A c \in DOMAIN coins : coins[c] \in Coins
           /\ \A i, j \in DOMAIN blocks : blocks[i] = blocks[j] => i = j
           /\ \A c, d \in DOMAIN coins : coins[c] = coins[d] => c = d
           /\ Block = [i \in DOMAIN blocks |-> NewBlock(blocks[i], FALSE, FALSE)]
           /\ NPC = [c \in DOMAIN coins |-> Coin(coins[c], FALSE, FALSE)]
           /\ lost = Things \ Range(blocks \o coins)
<1>1. PICK level \in Levels :
        /\ Block = [i \in DOMAIN level.blocks |-> NewBlock(level.blocks[i], FALSE, FALSE)]
        /\ NPC = [c \in DOMAIN level.coins |-> Coin(level.coins[c], FALSE, FALSE)]
        /\ lost = Things \ Range(level.blocks \o level.coins)
  BY DEF Init
<1> DEFINE blocks == level.blocks
           coins == level.coins
<1>2. /\ blocks \in Seq(Things \ Coins) /\ IsInjective(blocks)
      /\ coins \in Seq(Coins) /\ IsInjective(coins) /\ Coins \subseteq Things
  BY LevelsAssumption, KindsAssumption
<1>3. blocks \in Seq(Things) /\ \A i \in DOMAIN blocks : blocks[i] \notin Coins
  BY <1>2
<1>4. coins \in Seq(Things) /\ \A c \in DOMAIN coins : coins[c] \in Coins
  BY <1>2
<1> HIDE DEF blocks, coins
<1>5. /\ \A i, j \in DOMAIN blocks : blocks[i] = blocks[j] => i = j
      /\ \A c, d \in DOMAIN coins : coins[c] = coins[d] => c = d
  BY <1>2 DEF IsInjective
<1> QED BY <1>1, <1>3, <1>4, <1>5 DEF blocks, coins

LEMMA BaseInit ==
  ASSUME Init
  PROVE  BaseInv
<1>1. PICK blocks \in Seq(Things), coins \in Seq(Things) :
        /\ Block = [i \in DOMAIN blocks |-> NewBlock(blocks[i], FALSE, FALSE)]
        /\ NPC = [c \in DOMAIN coins |-> Coin(coins[c], FALSE, FALSE)]
  BY InitIs
<1>2. Block \in Seq(Block_t)
  <2>1. Len(blocks) \in Nat /\ DOMAIN blocks = 1..Len(blocks) /\ \A i \in DOMAIN blocks : blocks[i] \in Things
    OBVIOUS
  <2>2. \A i \in DOMAIN blocks : Block[i] \in Block_t
    BY <1>1, <2>1, NewBlockIs
  <2>3. Block = [i \in 1..Len(blocks) |-> Block[i]]
    BY <1>1, <2>1
  <2> QED BY <2>1, <2>2, <2>3
<1>3. NPC \in Seq(NPC_t)
  <2>1. Len(coins) \in Nat /\ DOMAIN coins = 1..Len(coins) /\ \A c \in DOMAIN coins : coins[c] \in Things
    OBVIOUS
  <2>2. \A c \in DOMAIN coins : NPC[c] \in NPC_t
    BY <1>1, <2>1, NewCoinIs
  <2>3. NPC = [c \in 1..Len(coins) |-> NPC[c]]
    BY <1>1, <2>1
  <2> QED BY <2>1, <2>2, <2>3
<1>4. /\ iBlock \in Leftovers /\ PSwitchTime = 0 /\ emulate_classic_block_order \in Orders
      /\ pc = "idle" /\ A = 0 /\ caller = "none" /\ g_gameLoopInterrupt = NoInterrupt
      /\ owed = [t \in Things |-> [hit |-> 0, death |-> 0, last |-> 0]] /\ kept = {}
      /\ lost \subseteq Things
  BY DEF Init
<1>5. TypeOK
  BY <1>2, <1>3, <1>4, KindsAssumption, SizesAssumption DEF TypeOK, Stages, NoInterrupt, Sites, Index
<1>6. Stage = "idle" /\ At = A /\ By = "none" /\ ~FromLoop /\ ~FromSwitch
  BY <1>4, Here DEF FromLoop, FromSwitch, Killing
<1>7. Place
  BY <1>4, <1>6 DEF Place, Killing
<1>8. Owing
  BY <1>4, <1>6 DEF Owing, Owes
<1> QED BY <1>5, <1>7, <1>8 DEF BaseInv

LEMMA BaseStutter ==
  ASSUME BaseInv, UNCHANGED vars
  PROVE  BaseInv'
<1>1. /\ UNCHANGED <<Block, NPC, iBlock, PSwitchTime, emulate_classic_block_order, pc, A, caller,
                     g_gameLoopInterrupt, owed, lost, kept>>
  BY DEF vars, locals, fates
<1>2. TypeOK'
  BY <1>1 DEF BaseInv, TypeOK
<1>3. Stage' = Stage /\ At' = At /\ By' = By
  BY <1>1 DEF Stage, At, By
<1>4. Steady /\ Longer
  BY <1>1, SteadyNot, LongerNot DEF BaseInv
<1> QED BY <1>1, <1>2, <1>3, <1>4, BaseKept DEF BaseInv, Place

LEMMA BaseNext ==
  ASSUME BaseInv, [Next]_vars
  PROVE  BaseInv'
<1>1. CASE RestOfFrame
  BY <1>1, BaseHit, BasePow, BaseDoom, BaseCollect, BasePress, BaseOther DEF RestOfFrame
<1>2. CASE Coming
  BY <1>2, BaseComing
<1>3. CASE Loop
  BY <1>3, BaseNoBlock, BaseShakeStep, BaseHitEvent, BaseStruck, BaseSmash, BaseEndOfLoop, BaseTrim
     DEF Loop
<1>4. CASE Kill
  BY <1>4, BaseKillEvent, BaseAskLast, BaseDie DEF Kill
<1>5. CASE PSwitch
  BY <1>5, BaseWalk, BaseToBlock, BaseLastNPC, BaseToCoin, BaseSwitchEvent, BaseSorted, BaseTick,
     BaseGiveBack, BaseOff DEF PSwitch
<1>6. CASE Resume
  BY <1>6, BaseResume
<1>7. CASE UNCHANGED vars
  BY <1>7, BaseStutter
<1> QED BY <1>1, <1>2, <1>3, <1>4, <1>5, <1>6, <1>7 DEF Next

THEOREM BaseCorrect == Spec => []BaseInv
<1>1. Init => BaseInv
  BY BaseInit
<1>2. BaseInv /\ [Next]_vars => BaseInv'
  BY BaseNext
<1> QED BY <1>1, <1>2, PTL DEF Spec

\* EventsWhole: whatever messages leave UpdateBlocks, wherever, and whatever order the
\* switch puts the blocks in, each event of a hit or a death that has begun ends once.
THEOREM EventsWholeCorrect == Spec => []EventsWhole
<1>1. BaseInv => EventsWhole
  <2> SUFFICES ASSUME BaseInv, pc = "idle", NEW t \in Things
               PROVE  owed[t] = [hit |-> 0, death |-> 0, last |-> 0]
    BY DEF EventsWhole
  <2>1. Stage = "idle"
    BY Here
  <2> QED BY <2>1 DEF BaseInv, Owing, Owes
<1> QED BY <1>1, BaseCorrect, PTL

-----------------------------------------------------------------------------
(* Shaking: where a block is follows from its counter, and a shake program  *)
(* at its end is ended in the same pass.                                   *)

Swing(c) ==
  LET n == IF c.step <= Half(c.program) THEN c.step ELSE 2 * Half(c.program) - c.step
  IN IF c.program = "none" THEN 0 ELSE IF c.program = "DOWNUP12" THEN 2 * n ELSE 0 - 2 * n

Bent(b) == /\ b.ShakeCounter.program = "none" => b.ShakeCounter.step = 0
           /\ b.ShakeCounter.program # "none" => b.ShakeCounter.step <= 2 * Half(b.ShakeCounter.program)
           /\ b.ShakeOffset = Swing(b.ShakeCounter)

Shakes == \A i \in DOMAIN Block : /\ Bent(Block[i])
                                  /\ AtEnd(Block[i].ShakeCounter) => Stage = "struck" /\ i = Now

Alike(b, d) == b.ShakeCounter = d.ShakeCounter /\ b.ShakeOffset = d.ShakeOffset
Fresh(b)    == /\ b.ShakeOffset = 0
               /\ \/ b.ShakeCounter = Still
                  \/ \E program \in Programs \ {"none"} : b.ShakeCounter = Shake(program)

LEMMA FreshIs ==
  ASSUME NEW b, Fresh(b)
  PROVE  Bent(b) /\ ~AtEnd(b.ShakeCounter)
<1>1. b.ShakeCounter.step = 0 /\ b.ShakeOffset = 0
  BY CounterTypes DEF Fresh
<1>2. Half(b.ShakeCounter.program) \in Nat \ {0}
  BY HalfIs
<1>3. Swing(b.ShakeCounter) = 0
  <2> DEFINE h == Half(b.ShakeCounter.program)
  <2>1. Swing(b.ShakeCounter) = LET n == IF 0 <= h THEN 0 ELSE 2 * h - 0
          IN IF b.ShakeCounter.program = "none" THEN 0
             ELSE IF b.ShakeCounter.program = "DOWNUP12" THEN 2 * n ELSE 0 - 2 * n
    BY <1>1 DEF Swing
  <2>2. h \in Nat
    BY <1>2
  <2> HIDE DEF h
  <2>3. (IF 0 <= h THEN 0 ELSE 2 * h - 0) = 0
    BY <2>2
  <2>4. \A n \in Int : n = 0 => 2 * n = 0 /\ 0 - 2 * n = 0
    OBVIOUS
  <2> QED BY <2>1, <2>3, <2>4
<1>4. 0 # 2 * Half(b.ShakeCounter.program) /\ 0 <= 2 * Half(b.ShakeCounter.program)
  BY <1>2
<1> QED BY <1>1, <1>3, <1>4 DEF Bent, AtEnd

LEMMA ShakesKept ==
  ASSUME Shakes, Stage # "struck",
         \A i \in DOMAIN Block' : \/ Fresh(Block'[i])
                                  \/ \E j \in DOMAIN Block : Alike(Block'[i], Block[j])
  PROVE  Shakes'
<1> SUFFICES ASSUME NEW i \in DOMAIN Block'
             PROVE  Bent(Block'[i]) /\ ~AtEnd(Block'[i].ShakeCounter)
  BY DEF Shakes, Bent, AtEnd, Swing, Half
<1>1. CASE Fresh(Block'[i])
  BY <1>1, FreshIs
<1>2. ASSUME NEW j \in DOMAIN Block, Alike(Block'[i], Block[j])
      PROVE  Bent(Block'[i]) /\ ~AtEnd(Block'[i].ShakeCounter)
  <2>1. Bent(Block[j]) /\ ~AtEnd(Block[j].ShakeCounter)
    BY DEF Shakes
  <2> QED BY <1>2, <2>1 DEF Alike, Bent
<1> QED BY <1>1, <1>2

LEMMA ShakesSame ==
  ASSUME Shakes, Stage # "struck", Block' = Block
  PROVE  Shakes'
BY ShakesKept DEF Alike

LEMMA ShakesOutside ==
  ASSUME BaseInv, Shakes, RestOfFrame
  PROVE  Shakes'
<1>0. TypeOK /\ Stage = "idle"
  BY Here DEF RestOfFrame, Hit, PowBlock, BlockHitHard, SafelyKillBlock, Collect, Press, OtherEvent,
              Outside, BaseInv
<1>1. CASE Hit
  <2>1. PICK i \in DOMAIN Block :
          BlockHit(i, Block[i], {Block[i].RapidHit} \cup (IF Block[i].thing \in Rapid THEN {1} ELSE {}))
    BY <1>1 DEF Hit
  <2>2. /\ Block[i] \in Block_t
        /\ {Block[i].RapidHit} \cup (IF Block[i].thing \in Rapid THEN {1} ELSE {}) \in SUBSET Nat
    BY <1>0, BlockIs DEF Block_t
  <2>3. /\ DOMAIN Block' = DOMAIN Block
        /\ \A j \in DOMAIN Block : j # i => Block'[j] = Block[j]
        /\ Fresh(Block'[i]) \/ Alike(Block'[i], Block[i])
    BY <1>0, <2>1, <2>2, BlockHitDoes DEF Fresh, Alike, Steady
  <2> QED BY <1>0, <2>3, ShakesKept DEF Alike
<1>2. CASE PowBlock
  <2>1. PICK i \in DOMAIN Block : BlockShake("UPDOWN06", i, Block[i])
    BY <1>2 DEF PowBlock
  <2>2. Block[i] \in Block_t /\ "UPDOWN06" \in Programs \ {"none"}
    BY <1>0, BlockIs DEF Programs
  <2>3. /\ DOMAIN Block' = DOMAIN Block
        /\ \A j \in DOMAIN Block : j # i => Block'[j] = Block[j]
        /\ Fresh(Block'[i]) \/ Alike(Block'[i], Block[i])
    BY <1>0, <2>1, <2>2, BlockShakeDoes DEF Fresh, Alike, Steady
  <2> QED BY <1>0, <2>3, ShakesKept DEF Alike
<1>3. CASE BlockHitHard \/ SafelyKillBlock
  <2>1. PICK i \in DOMAIN Block, kill \in {0, 1, 9} : Block' = [Block EXCEPT ![i].Kill = kill]
    BY <1>3 DEF BlockHitHard, SafelyKillBlock
  <2>2. Steady /\ \A j \in DOMAIN Block : Alike(Block'[j], Block[j])
    BY <1>0, <2>1, Doomed DEF Alike
  <2> QED BY <1>0, <2>2, ShakesKept DEF Steady
<1>4. CASE Collect \/ Press
  BY <1>0, <1>4, ShakesSame DEF Collect, Press
<1>5. CASE OtherEvent
  <2>1. Steady /\ \A j \in DOMAIN Block : Alike(Block'[j], Block[j])
    BY <1>0, <1>5, EventDoes DEF OtherEvent, Alike
  <2> QED BY <1>0, <2>1, ShakesKept DEF Steady
<1> QED BY <1>1, <1>2, <1>3, <1>4, <1>5 DEF RestOfFrame

LEMMA ShakesEvent ==
  ASSUME BaseInv, Shakes, HitEvent \/ DeathEvent \/ LastEvent \/ StartEvent \/ EndEvent
  PROVE  Shakes'
<1>1. Event /\ Stage # "struck" /\ TypeOK
  BY Here DEF HitEvent, DeathEvent, LastEvent, StartEvent, EndEvent, InLoop, InKillBlock, InSwitch,
              BaseInv
<1>2. Steady /\ \A j \in DOMAIN Block : Alike(Block'[j], Block[j])
  BY <1>1, EventDoes DEF Alike
<1> QED BY <1>1, <1>2, ShakesKept DEF Steady

LEMMA Swinging ==
  ASSUME NEW c \in Counter, c.program # "none", c.step < 2 * Half(c.program)
  PROVE  LET d == [c EXCEPT !.step = c.step + 1] IN
         /\ d.program = c.program /\ d.step = c.step + 1
         /\ d.step <= 2 * Half(c.program)
         /\ Swing(d) = IF GoesUp(c) THEN Swing(c) - 2 ELSE Swing(c) + 2
<1> DEFINE d == [c EXCEPT !.step = c.step + 1]
           h == Half(c.program)
<1>1. c.step \in Nat /\ c.program \in Programs /\ d.program = c.program /\ d.step = c.step + 1
  BY DEF Counter
<1>2. h \in Nat \ {0}
  BY HalfIs
<1>3. /\ Swing(c) = LET n == IF c.step <= h THEN c.step ELSE 2 * h - c.step
                    IN IF c.program = "DOWNUP12" THEN 2 * n ELSE 0 - 2 * n
      /\ Swing(d) = LET n == IF c.step + 1 <= h THEN c.step + 1 ELSE 2 * h - (c.step + 1)
                    IN IF c.program = "DOWNUP12" THEN 2 * n ELSE 0 - 2 * n
  BY <1>1 DEF Swing
<1>4. c.step < 2 * h
  OBVIOUS
<1>5. GoesUp(c) <=> IF c.program = "DOWNUP12" THEN ~(c.step < h) ELSE c.step < h
  BY DEF GoesUp
<1> HIDE DEF h, d
<1>6. c.step + 1 <= 2 * h /\ Swing(d) = IF GoesUp(c) THEN Swing(c) - 2 ELSE Swing(c) + 2
  <2>1. CASE c.step < h
    BY <1>1, <1>2, <1>3, <1>4, <1>5, <2>1
  <2>2. CASE ~(c.step < h)
    BY <1>1, <1>2, <1>3, <1>4, <1>5, <2>2
  <2> QED BY <2>1, <2>2
<1> QED BY <1>1, <1>6 DEF h, d

LEMMA ShakesShakeStep ==
  ASSUME BaseInv, Shakes, ShakeStep
  PROVE  Shakes'
<1> DEFINE i == iBlock[A]
           b == Block[i]
<1>1. /\ A \in DOMAIN iBlock /\ i \in DOMAIN Block /\ DOMAIN Block' = DOMAIN Block
      /\ Block'[i] = Stepped(b) /\ \A j \in DOMAIN Block : j # i => Block'[j] = Block[j]
      /\ Stage = "queue" /\ Stage' = pc' /\ At' = A
      /\ pc' = IF Middle(Block'[i].ShakeCounter) THEN "hit" ELSE "struck"
  BY ShakeStepDoes DEF Steady
<1>2. iBlock' = iBlock
  BY DEF ShakeStep
<1>3. Now' = i
  BY <1>1, <1>2 DEF Now, FromLoop
<1>4. \A j \in DOMAIN Block : Bent(Block[j]) /\ ~AtEnd(Block[j].ShakeCounter)
  BY <1>1 DEF Shakes
<1>5. b \in Block_t /\ b.ShakeCounter \in Counter
  BY <1>1, BlockIs DEF BaseInv, Block_t
<1>6. Bent(Block'[i]) /\ (AtEnd(Block'[i].ShakeCounter) => pc' = "struck")
  <2>1. CASE Stepped(b).ShakeCounter = Still /\ Stepped(b).ShakeOffset = 0
    BY <1>1, <2>1, FreshIs DEF Fresh
  <2>2. CASE b.ShakeCounter = Still /\ Stepped(b) = b
    BY <1>1, <1>4, <2>2
  <2>3. CASE /\ b.ShakeCounter # Still
             /\ Stepped(b).ShakeCounter = [b.ShakeCounter EXCEPT !.step = b.ShakeCounter.step + 1]
             /\ Stepped(b).ShakeOffset = IF GoesUp(b.ShakeCounter) THEN b.ShakeOffset - 2
                                         ELSE b.ShakeOffset + 2
    <3> DEFINE c == b.ShakeCounter
               d == [c EXCEPT !.step = c.step + 1]
    <3>1. c.program # "none" /\ c.step \in Nat /\ Half(c.program) \in Nat \ {0}
      BY <1>1, <1>4, <1>5, <2>3, HalfIs DEF Bent, Still, Counter
    <3>2. c.step < 2 * Half(c.program) /\ b.ShakeOffset = Swing(c)
      BY <1>1, <1>4, <3>1 DEF Bent, AtEnd
    <3>3. /\ d.program = c.program /\ d.step = c.step + 1 /\ d.step <= 2 * Half(c.program)
          /\ Swing(d) = IF GoesUp(c) THEN Swing(c) - 2 ELSE Swing(c) + 2
      BY <1>5, <3>1, <3>2, Swinging
    <3>4. Stepped(b).ShakeCounter = d /\ Stepped(b).ShakeOffset = Swing(d)
      BY <2>3, <3>2, <3>3
    <3> HIDE DEF d
    <3>5. Bent(Block'[i])
      BY <1>1, <3>1, <3>3, <3>4 DEF Bent
    <3>6. AtEnd(Block'[i].ShakeCounter) => ~Middle(Block'[i].ShakeCounter)
      <4> DEFINE h == Half(Block'[i].ShakeCounter.program)
      <4>1. h \in Nat \ {0}
        BY HalfIs
      <4>2. 2 * h # h
        BY <4>1
      <4> QED BY <4>2 DEF AtEnd, Middle
    <3> QED BY <1>1, <3>5, <3>6
  <2> QED BY <1>5, <2>1, <2>2, <2>3, SteppedIs
<1>7. \A j \in DOMAIN Block' : /\ Bent(Block'[j])
                               /\ AtEnd(Block'[j].ShakeCounter) => Stage' = "struck" /\ j = Now'
  BY <1>1, <1>3, <1>4, <1>6
<1> QED BY <1>7 DEF Shakes, Bent, AtEnd, Swing, Half

LEMMA ShakesStruck ==
  ASSUME BaseInv, Shakes, Struck
  PROVE  Shakes'
<1> DEFINE i == iBlock[A]
<1>1. /\ pc = "struck" /\ A \in DOMAIN iBlock /\ i \in DOMAIN Block /\ DOMAIN Block' = DOMAIN Block
      /\ \A j \in DOMAIN Block : j # i => Block'[j] = Block[j]
      /\ \/ ~AtEnd(Block[i].ShakeCounter) /\ Block' = Block
         \/ /\ AtEnd(Block[i].ShakeCounter)
            /\ Block'[i].ShakeCounter = Still /\ Block'[i].ShakeOffset = Block[i].ShakeOffset
         \/ \E program \in Programs \ {"none"} :
              Block'[i].ShakeCounter = Shake(program) /\ Block'[i].ShakeOffset = 0
  BY StruckDoes DEF Steady
<1>2. Now = i
  BY <1>1, Here DEF Now, FromLoop
<1>3. \A j \in DOMAIN Block : Bent(Block[j]) /\ (j # i => ~AtEnd(Block[j].ShakeCounter))
  BY <1>2 DEF Shakes
<1>4. Bent(Block'[i]) /\ ~AtEnd(Block'[i].ShakeCounter)
  <2>1. CASE ~AtEnd(Block[i].ShakeCounter) /\ Block' = Block
    BY <1>1, <1>3, <2>1
  <2>2. CASE /\ AtEnd(Block[i].ShakeCounter)
             /\ Block'[i].ShakeCounter = Still /\ Block'[i].ShakeOffset = Block[i].ShakeOffset
    <3> DEFINE c == Block[i].ShakeCounter
               h == Half(c.program)
    <3>1. h \in Nat \ {0} /\ c.step = 2 * h /\ c.program # "none" /\ Block[i].ShakeOffset = Swing(c)
      BY <1>1, <1>3, <2>2, HalfIs DEF AtEnd, Bent
    <3>2. Swing(c) = LET n == IF c.step <= h THEN c.step ELSE 2 * h - c.step
                     IN IF c.program = "DOWNUP12" THEN 2 * n ELSE 0 - 2 * n
      BY <3>1 DEF Swing
    <3> HIDE DEF h
    <3>3. Swing(c) = 0
      BY <3>1, <3>2
    <3> QED BY <2>2, <3>1, <3>3, FreshIs DEF Fresh
  <2>3. CASE \E program \in Programs \ {"none"} :
               Block'[i].ShakeCounter = Shake(program) /\ Block'[i].ShakeOffset = 0
    BY <2>3, FreshIs DEF Fresh
  <2> QED BY <1>1, <2>1, <2>2, <2>3
<1>5. \A j \in DOMAIN Block' : Bent(Block'[j]) /\ ~AtEnd(Block'[j].ShakeCounter)
  BY <1>1, <1>3, <1>4
<1> QED BY <1>5 DEF Shakes, Bent, AtEnd, Swing, Half

LEMMA ShakesLoop ==
  ASSUME BaseInv, Shakes, Coming \/ NoBlock \/ EndOfLoop \/ Trim \/ Trimmed \/ AskLast
  PROVE  Shakes'
<1>1. Block' = Block /\ pc \notin {"struck", "paused"}
  BY DEF Coming, UpdateNPCs, RemoveNPC, UpdateBlocks, NoBlock, EndOfLoop, Trim, Trimmed, AskLast,
         InLoop, InKillBlock
<1> QED BY <1>1, Here, ShakesSame

LEMMA ShakesKill ==
  ASSUME BaseInv, Shakes, Smash \/ Die
  PROVE  Shakes'
<1>1. /\ DOMAIN Block' = DOMAIN Block /\ \A j \in DOMAIN Block : Alike(Block'[j], Block[j])
      /\ pc \notin {"struck", "paused"}
  <2>1. CASE Smash
    BY <2>1, SmashDoes DEF Steady, Alike
  <2>2. CASE Die
    BY <2>2, DieDoes DEF Alike
  <2> QED BY <2>1, <2>2
<1> QED BY <1>1, Here, ShakesKept

LEMMA ShakesSwitch ==
  ASSUME BaseInv, Shakes, PSwitch
  PROVE  Shakes'
<1>1. CASE NoSwitch \/ SwitchOn \/ CoinsToTurn \/ AllTurned \/ Tick \/ BackToTurn \/ GiveBack
             \/ PassOver \/ SwitchDone
  <2>1. Block' = Block /\ pc \notin {"struck", "paused"}
    BY <1>1 DEF NoSwitch, SwitchOn, CoinsToTurn, BackToTurn, LastNPC, AllTurned, Tick, GiveBack,
                PassOver, SwitchDone, InSwitch
  <2> QED BY <2>1, Here, ShakesSame
<1>2. CASE ToBlock \/ BackToBlock
  <2>1. TypeOK /\ A \in DOMAIN NPC
    BY <1>2 DEF BaseInv, ToBlock, BackToBlock, NextNPC
  <2>2. PICK at \in {"blocks", "back"}, chosen \in BOOLEAN, coin \in BOOLEAN : NextNPC(at, chosen, coin)
    BY <1>2, <2>1, IsCoinIs DEF ToBlock, BackToBlock
  <2>3. /\ pc = at /\ Len(Block) \in Nat /\ DOMAIN Block = 1..Len(Block)
        /\ \/ Block' = Block
           \/ /\ DOMAIN Block' = 1..(Len(Block) + 1) /\ \A i \in DOMAIN Block : Block'[i] = Block[i]
              /\ Block'[Len(Block) + 1].ShakeCounter = Still /\ Block'[Len(Block) + 1].ShakeOffset = 0
    BY <2>1, <2>2, NextNPCDoes DEF TypeOK
  <2>4. \A i \in DOMAIN Block' : \/ Fresh(Block'[i])
                                 \/ \E j \in DOMAIN Block : Alike(Block'[i], Block[j])
    <3> SUFFICES ASSUME NEW i \in DOMAIN Block', ~Fresh(Block'[i])
                 PROVE  \E j \in DOMAIN Block : Alike(Block'[i], Block[j])
      OBVIOUS
    <3>1. i \in DOMAIN Block /\ Block'[i] = Block[i]
      BY <2>3 DEF Fresh
    <3> QED BY <3>1 DEF Alike
  <2> QED BY <2>3, <2>4, Here, ShakesKept
<1>3. CASE ToCoin
  <2>0. Len(Block) \in Nat /\ DOMAIN Block = 1..Len(Block)
    BY DEF BaseInv, TypeOK
  <2>1. /\ pc = "coins" /\ Len(Block) \in Nat /\ DOMAIN Block = 1..Len(Block) /\ A \in DOMAIN Block
        /\ \/ Block' = Block
           \/ /\ DOMAIN Block' = 1..(Len(Block) - 1)
              /\ \A j \in 1..(Len(Block) - 1) : Block'[j] = IF j = A THEN Block[Len(Block)] ELSE Block[j]
    BY <1>3, <2>0, ToCoinDoes
  <2>2. \A i \in DOMAIN Block' : \E j \in DOMAIN Block : Alike(Block'[i], Block[j])
    <3> SUFFICES ASSUME NEW i \in DOMAIN Block'
                 PROVE  \E j \in DOMAIN Block : Block'[i] = Block[j]
      BY DEF Alike
    <3>1. Len(Block) \in DOMAIN Block
      BY <2>1
    <3> QED BY <2>1, <3>1
  <2> QED BY <2>1, <2>2, Here, ShakesKept
<1>4. CASE StartEvent \/ EndEvent
  BY <1>4, ShakesEvent
<1>5. CASE Started \/ Ended
  <2>1. Sorted /\ TypeOK /\ pc \notin {"struck", "paused"}
    BY <1>5 DEF Started, Ended, InSwitch, BaseInv
  <2>2. \A i \in DOMAIN Block' : \E j \in DOMAIN Block : Alike(Block'[i], Block[j])
    BY <2>1, SortedDoes DEF Alike
  <2> QED BY <2>1, <2>2, Here, ShakesKept
<1> QED BY <1>1, <1>2, <1>3, <1>4, <1>5 DEF PSwitch

LEMMA ShakesStay ==
  ASSUME BaseInv, Shakes, Resume \/ UNCHANGED vars
  PROVE  Shakes'
<1>1. Block' = Block /\ iBlock' = iBlock /\ Stage' = Stage /\ At' = At /\ By' = By
  <2>1. CASE Resume
    BY <2>1, Resumed DEF Resume
  <2>2. CASE UNCHANGED vars
    BY <2>2 DEF vars, locals, Stage, At, By
  <2> QED BY <2>1, <2>2
<1>2. Now' = Now
  BY <1>1, SamePlace
<1> QED BY <1>1, <1>2 DEF Shakes

LEMMA ShakesInit ==
  ASSUME Init
  PROVE  Shakes
<1>1. PICK blocks \in Seq(Things) : Block = [i \in DOMAIN blocks |-> NewBlock(blocks[i], FALSE, FALSE)]
  BY InitIs
<1>2. \A i \in DOMAIN Block : Fresh(Block[i])
  BY <1>1 DEF NewBlock, Fresh
<1> QED BY <1>2, FreshIs DEF Shakes

LEMMA ShakesNext ==
  ASSUME BaseInv, Shakes, [Next]_vars
  PROVE  Shakes'
BY ShakesOutside, ShakesEvent, ShakesShakeStep, ShakesStruck, ShakesLoop, ShakesKill, ShakesSwitch,
   ShakesStay DEF Next, Loop, Kill

\* Between frames a block that is not shaking is where it belongs.
THEOREM ShakesCorrect == Spec => []Shakes
<1>1. Init => Shakes
  BY ShakesInit
<1>2. BaseInv /\ Shakes /\ [Next]_vars => Shakes'
  BY ShakesNext
<1> QED BY <1>1, <1>2, BaseCorrect, PTL DEF Spec

-----------------------------------------------------------------------------
(* Entries: a block that shakes has one; one that is to be smashed has one  *)
(* that the loop has not come to yet.  In the classic order the blocks are  *)
(* without, from when they are moved until they are sorted.                 *)

HasEntry(i, from) == \E k \in DOMAIN iBlock : k >= from /\ iBlock[k] = i

Before    == Stage \in {"idle", "npcs"}
InQueue   == Stage = "queue" \/ FromLoop
Reordered == emulate_classic_block_order /\ Stage \in {"coins", "start", "started"}

DoomEntered ==
  \A i \in DOMAIN Block :
    Block[i].Kill # 0 => (Before \/ InQueue) /\ HasEntry(i, IF InQueue THEN At ELSE 1)
ShakeEntered ==
  \A i \in DOMAIN Block : Block[i].ShakeCounter # Still => Reordered \/ HasEntry(i, 1)
Entered == DoomEntered /\ ShakeEntered

\* There is room for another entry.
Room == iBlocks < maxInteresting

LEMMA EntryStays ==
  ASSUME Longer, NEW i, NEW from, HasEntry(i, from)
  PROVE  \E k \in DOMAIN iBlock' : k >= from /\ iBlock'[k] = i
BY DEF Longer, HasEntry

\* Entries are added only, to what the loop is at or is not in.
LEMMA EnteredKept ==
  ASSUME Entered, Longer, InQueue' = InQueue, InQueue => At' = At, Before => Before',
         Reordered => Reordered', DOMAIN Block' = DOMAIN Block,
         \A i \in DOMAIN Block :
           /\ \/ Block'[i].Kill = Block[i].Kill \/ Block'[i].Kill = 0
              \/ Before /\ ~InQueue /\ \E k \in DOMAIN iBlock' : k >= 1 /\ iBlock'[k] = i
           /\ \/ Block'[i].ShakeCounter = Block[i].ShakeCounter \/ Block'[i].ShakeCounter = Still
              \/ Block[i].ShakeCounter # Still
              \/ \E k \in DOMAIN iBlock' : k >= 1 /\ iBlock'[k] = i
  PROVE  Entered'
<1>1. DoomEntered'
  <2> SUFFICES ASSUME NEW i \in DOMAIN Block, Block'[i].Kill # 0
               PROVE  /\ Before' \/ InQueue'
                      /\ \E k \in DOMAIN iBlock' : k >= (IF InQueue' THEN At' ELSE 1) /\ iBlock'[k] = i
    BY DEF DoomEntered, HasEntry
  <2>1. CASE Block'[i].Kill = Block[i].Kill
    <3>1. (Before \/ InQueue) /\ HasEntry(i, IF InQueue THEN At ELSE 1)
      BY <2>1 DEF Entered, DoomEntered
    <3>2. \E k \in DOMAIN iBlock' : k >= (IF InQueue THEN At ELSE 1) /\ iBlock'[k] = i
      BY <3>1, EntryStays
    <3> QED BY <3>1, <3>2
  <2>2. CASE Before /\ ~InQueue /\ \E k \in DOMAIN iBlock' : k >= 1 /\ iBlock'[k] = i
    BY <2>2
  <2> QED BY <2>1, <2>2
<1>2. ShakeEntered'
  <2> SUFFICES ASSUME NEW i \in DOMAIN Block, Block'[i].ShakeCounter # Still
               PROVE  Reordered' \/ \E k \in DOMAIN iBlock' : k >= 1 /\ iBlock'[k] = i
    BY DEF ShakeEntered, HasEntry, Still
  <2>1. CASE Block[i].ShakeCounter # Still
    <3>1. Reordered \/ HasEntry(i, 1)
      BY <2>1 DEF Entered, ShakeEntered
    <3> QED BY <3>1, EntryStays
  <2> QED BY <2>1
<1> QED BY <1>1, <1>2 DEF Entered

LEMMA EnteredStill ==
  ASSUME Entered, BaseInv, InQueue' = InQueue, InQueue => At' = At, Before => Before',
         Reordered => Reordered', DOMAIN Block' = DOMAIN Block, iBlock' = iBlock,
         \A i \in DOMAIN Block :
           /\ Block'[i].Kill = Block[i].Kill \/ Block'[i].Kill = 0
           /\ \/ Block'[i].ShakeCounter = Block[i].ShakeCounter \/ Block'[i].ShakeCounter = Still
              \/ Block[i].ShakeCounter # Still
  PROVE  Entered'
BY EnteredKept, LongerNot DEF BaseInv

LEMMA AtStage ==
  ASSUME pc # "paused"
  PROVE  /\ Before <=> pc \in {"idle", "npcs"}
         /\ InQueue <=> pc \in {"queue", "hit", "struck", "smash"}
                          \/ (pc \in Killing /\ caller = "UpdateBlocks_KillBlock")
         /\ Reordered <=> emulate_classic_block_order /\ pc \in {"coins", "start", "started"}
         /\ At = A
BY Here DEF Before, InQueue, FromLoop, Reordered

LEMMA AtStageNext ==
  ASSUME pc' # "paused"
  PROVE  /\ Before' <=> pc' \in {"idle", "npcs"}
         /\ InQueue' <=> pc' \in {"queue", "hit", "struck", "smash"}
                           \/ (pc' \in Killing /\ caller' = "UpdateBlocks_KillBlock")
         /\ Reordered' <=> emulate_classic_block_order' /\ pc' \in {"coins", "start", "started"}
         /\ At' = A'
BY HereNext DEF Before, InQueue, FromLoop, Reordered, Killing

LEMMA SameStage ==
  ASSUME Stage' = Stage, At' = At, By' = By, emulate_classic_block_order' = emulate_classic_block_order
  PROVE  InQueue' = InQueue /\ Before' = Before /\ Reordered' = Reordered
BY DEF Before, InQueue, FromLoop, Reordered, Killing

LEMMA EnteredOutside ==
  ASSUME BaseInv, Entered, Room, RestOfFrame
  PROVE  Entered'
<1>1. pc = "idle" /\ UNCHANGED <<pc, A, caller, g_gameLoopInterrupt, emulate_classic_block_order>>
  BY DEF RestOfFrame, Hit, PowBlock, BlockHitHard, SafelyKillBlock, Collect, Press, OtherEvent, Outside,
         locals
<1>2. TypeOK /\ Before /\ ~InQueue /\ InQueue' = InQueue /\ Before' /\ (Reordered => Reordered')
  <2>1. Before /\ ~InQueue /\ ~Reordered
    BY <1>1, AtStage DEF Killing
  <2>2. Before' /\ ~InQueue'
    BY <1>1, AtStageNext DEF Killing
  <2> QED BY <2>1, <2>2 DEF BaseInv, InQueue
<1>3. CASE Hit
  <2>1. PICK i \in DOMAIN Block :
          BlockHit(i, Block[i], {Block[i].RapidHit} \cup (IF Block[i].thing \in Rapid THEN {1} ELSE {}))
    BY <1>3 DEF Hit
  <2>2. /\ Block[i] \in Block_t
        /\ {Block[i].RapidHit} \cup (IF Block[i].thing \in Rapid THEN {1} ELSE {}) \in SUBSET Nat
    BY <1>2, BlockIs DEF Block_t
  <2>3. /\ Longer /\ DOMAIN Block' = DOMAIN Block /\ iBlock' \in Seq(Index)
        /\ \A j \in DOMAIN Block : j # i => Block'[j] = Block[j]
        /\ Block'[i].Kill = Block[i].Kill
        /\ \/ Block'[i].ShakeCounter = Block[i].ShakeCounter
           \/ \E k \in DOMAIN iBlock' : iBlock'[k] = i
    BY <1>2, <2>1, <2>2, BlockHitDoes DEF Steady, Longer
  <2>4. \A k \in DOMAIN iBlock' : k >= 1
    BY <2>3
  <2>5. \A j \in DOMAIN Block : \/ Block'[j].ShakeCounter = Block[j].ShakeCounter
                                \/ \E k \in DOMAIN iBlock' : k >= 1 /\ iBlock'[k] = j
    BY <2>3, <2>4
  <2> QED BY <1>2, <2>3, <2>5, EnteredKept
<1>4. CASE PowBlock
  <2>1. PICK i \in DOMAIN Block : BlockShake("UPDOWN06", i, Block[i])
    BY <1>4 DEF PowBlock
  <2>2. Block[i] \in Block_t /\ "UPDOWN06" \in Programs \ {"none"}
    BY <1>2, BlockIs DEF Programs
  <2>3. /\ Longer /\ DOMAIN Block' = DOMAIN Block /\ iBlock' \in Seq(Index)
        /\ \A j \in DOMAIN Block : j # i => Block'[j] = Block[j]
        /\ Block'[i].Kill = Block[i].Kill
        /\ \/ Block'[i].ShakeCounter = Block[i].ShakeCounter
           \/ \E k \in DOMAIN iBlock' : iBlock'[k] = i
    BY <1>2, <2>1, <2>2, BlockShakeDoes DEF Steady, Longer
  <2>4. \A k \in DOMAIN iBlock' : k >= 1
    BY <2>3
  <2>5. \A j \in DOMAIN Block : \/ Block'[j].ShakeCounter = Block[j].ShakeCounter
                                \/ \E k \in DOMAIN iBlock' : k >= 1 /\ iBlock'[k] = j
    BY <2>3, <2>4
  <2> QED BY <1>2, <2>3, <2>5, EnteredKept
<1>5. CASE BlockHitHard \/ SafelyKillBlock
  <2>1. PICK i \in DOMAIN Block, kill \in {0, 1, 9} :
          Block' = [Block EXCEPT ![i].Kill = kill] /\ iBlock' = Push(iBlock, i)
    BY <1>5 DEF BlockHitHard, SafelyKillBlock
  <2>2. /\ Longer /\ iBlock' \in Seq(Index) /\ \E k \in DOMAIN iBlock' : k > Len(iBlock) /\ iBlock'[k] = i
    BY <1>2, <2>1, BlockIs, PushDoes DEF Room, iBlocks, Longer
  <2>3. \E k \in DOMAIN iBlock' : k >= 1 /\ iBlock'[k] = i
    BY <2>2
  <2>4. /\ DOMAIN Block' = DOMAIN Block
        /\ \A j \in DOMAIN Block : /\ j # i => Block'[j] = Block[j]
                                   /\ Block'[j].ShakeCounter = Block[j].ShakeCounter
    BY <1>2, <2>1, Doomed DEF Steady
  <2> QED BY <1>2, <2>2, <2>3, <2>4, EnteredKept
<1>6. CASE Collect \/ Press
  <2>1. Block' = Block /\ iBlock' = iBlock
    BY <1>6 DEF Collect, Press
  <2> QED BY <1>2, <2>1, EnteredStill
<1>7. CASE OtherEvent
  <2>1. iBlock' = iBlock /\ DOMAIN Block' = DOMAIN Block
        /\ \A j \in DOMAIN Block : /\ Block'[j].ShakeCounter = Block[j].ShakeCounter
                                   /\ Block'[j].Kill = Block[j].Kill
    BY <1>2, <1>7, EventDoes DEF OtherEvent, Steady
  <2> QED BY <1>2, <2>1, EnteredStill
<1> QED BY <1>3, <1>4, <1>5, <1>6, <1>7 DEF RestOfFrame

\* An event leaves UpdateBlocks where it is or takes it to the place behind it.
LEMMA EventMoves ==
  ASSUME BaseInv, HitEvent \/ DeathEvent \/ LastEvent \/ StartEvent \/ EndEvent
  PROVE  \/ Stage' = Stage /\ At' = At /\ By' = By
         \/ /\ A' = A /\ caller' = caller
            /\ \/ pc = "hit" /\ pc' = "struck"
               \/ pc = "death" /\ pc' = "ask"
               \/ pc = "last" /\ pc' = "die"
               \/ pc = "start" /\ pc' = "started"
               \/ pc = "end" /\ pc' = "ended"
<1>a. pc \in {"hit", "death", "last", "start", "end"}
  BY DEF HitEvent, DeathEvent, LastEvent, StartEvent, EndEvent, InLoop, InKillBlock, InSwitch
<1>0. IF pc \in Killing THEN caller \in Killers ELSE caller = "none"
  BY <1>a, HerePlace
<1>1. CASE HitEvent
  <2>1. CASE Interrupt("UpdateBlocks_TriggerHit", FALSE)
    BY <1>0, <1>1, <2>1, Interrupted, ResumeIs DEF HitEvent, InLoop, Killing, Killers
  <2> QED BY <1>1, <2>1 DEF HitEvent, InLoop, Proceed, locals
<1>2. CASE DeathEvent
  <2>1. CASE Interrupt(caller, FALSE)
    <3>1. ResumeAt([site |-> caller, A |-> A, bool1 |-> FALSE]) = pc /\ caller \in Killers
      BY <1>0, <1>2, ResumeIs DEF DeathEvent, InKillBlock, Killing
    <3> QED BY <1>a, <2>1, <3>1, Interrupted
  <2> QED BY <1>2, <2>1 DEF DeathEvent, InKillBlock, Proceed, locals
<1>3. CASE LastEvent
  <2>1. CASE Interrupt(caller, TRUE)
    <3>1. ResumeAt([site |-> caller, A |-> A, bool1 |-> TRUE]) = pc /\ caller \in Killers
      BY <1>0, <1>3, ResumeIs DEF LastEvent, InKillBlock, Killing
    <3> QED BY <1>a, <2>1, <3>1, Interrupted
  <2> QED BY <1>3, <2>1 DEF LastEvent, InKillBlock, Proceed, locals
<1>4. CASE StartEvent
  <2>1. CASE Interrupt("UpdateBlocks_SwitchOn", FALSE)
    BY <1>0, <1>4, <2>1, Interrupted, ResumeIs DEF StartEvent, InSwitch, Killing, Killers
  <2> QED BY <1>4, <2>1 DEF StartEvent, InSwitch, Proceed, locals
<1>5. CASE EndEvent
  <2>1. CASE Interrupt("UpdateBlocks_SwitchOff", FALSE)
    BY <1>0, <1>5, <2>1, Interrupted, ResumeIs DEF EndEvent, InSwitch, Killing, Killers
  <2> QED BY <1>5, <2>1 DEF EndEvent, InSwitch, Proceed, locals
<1> QED BY <1>1, <1>2, <1>3, <1>4, <1>5

LEMMA EnteredEvent ==
  ASSUME BaseInv, Entered, HitEvent \/ DeathEvent \/ LastEvent \/ StartEvent \/ EndEvent
  PROVE  Entered'
<1>1. /\ Event /\ iBlock' = iBlock /\ emulate_classic_block_order' = emulate_classic_block_order
      /\ pc \in {"hit", "death", "last", "start", "end"} /\ TypeOK
  BY DEF HitEvent, DeathEvent, LastEvent, StartEvent, EndEvent, InLoop, InKillBlock, InSwitch, BaseInv
<1>2. /\ DOMAIN Block' = DOMAIN Block
      /\ \A j \in DOMAIN Block : /\ Block'[j].ShakeCounter = Block[j].ShakeCounter
                                 /\ Block'[j].Kill = Block[j].Kill
  BY <1>1, EventDoes DEF Steady
<1>3. \/ Stage' = Stage /\ At' = At /\ By' = By
      \/ /\ A' = A /\ caller' = caller
         /\ \/ pc = "hit" /\ pc' = "struck"
            \/ pc = "death" /\ pc' = "ask"
            \/ pc = "last" /\ pc' = "die"
            \/ pc = "start" /\ pc' = "started"
            \/ pc = "end" /\ pc' = "ended"
  BY EventMoves
<1>4. InQueue' = InQueue /\ (InQueue => At' = At) /\ (Before => Before') /\ (Reordered => Reordered')
  <2>1. CASE Stage' = Stage /\ At' = At /\ By' = By
    BY <1>1, <2>1, SameStage
  <2>2. CASE /\ A' = A /\ caller' = caller
             /\ \/ pc = "hit" /\ pc' = "struck"
                \/ pc = "death" /\ pc' = "ask"
                \/ pc = "last" /\ pc' = "die"
                \/ pc = "start" /\ pc' = "started"
                \/ pc = "end" /\ pc' = "ended"
    <3>1. /\ Before <=> pc \in {"idle", "npcs"}
          /\ InQueue <=> pc \in {"queue", "hit", "struck", "smash"}
                          \/ (pc \in Killing /\ caller = "UpdateBlocks_KillBlock")
          /\ Reordered <=> emulate_classic_block_order /\ pc \in {"coins", "start", "started"}
          /\ At = A
      BY <2>2, AtStage
    <3>2. /\ InQueue' <=> pc' \in {"queue", "hit", "struck", "smash"}
                           \/ (pc' \in Killing /\ caller' = "UpdateBlocks_KillBlock")
          /\ Reordered' <=> emulate_classic_block_order' /\ pc' \in {"coins", "start", "started"}
          /\ At' = A'
      BY <2>2, AtStageNext
    <3>3. InQueue' <=> InQueue
      BY <2>2, <3>1, <3>2 DEF Killing
    <3> QED BY <1>1, <2>2, <3>1, <3>2, <3>3 DEF InQueue
  <2> QED BY <1>3, <2>1, <2>2
<1> QED BY <1>1, <1>2, <1>4, EnteredStill

\* Blocks and entries stay as they are.
LEMMA EnteredWalk ==
  ASSUME BaseInv, Entered,
         \/ UpdateNPCs \/ RemoveNPC \/ Trimmed \/ AskLast \/ NoSwitch \/ SwitchOn \/ CoinsToTurn
         \/ AllTurned \/ Tick \/ BackToTurn \/ GiveBack \/ PassOver \/ SwitchDone
  PROVE  Entered'
<1>1. /\ Block' = Block /\ iBlock' = iBlock /\ emulate_classic_block_order' = emulate_classic_block_order
      /\ \/ pc = "idle" /\ pc' = "npcs"
         \/ pc = "npcs" /\ pc' = "npcs"
         \/ pc = "trim" /\ pc' = "time"
         \/ pc = "ask" /\ pc' \in {"last", "die"} /\ A' = A /\ caller' = caller
         \/ pc = "time" /\ pc' \in {"idle", "tick", "blocks"}
         \/ pc = "blocks" /\ pc' = "coins"
         \/ pc = "coins" /\ pc' = "start"
         \/ pc = "tick" /\ pc' \in {"back", "idle"}
         \/ pc = "back" /\ pc' = "off"
         \/ pc = "off" /\ pc' = "death" /\ caller' = "UpdateBlocks_SwitchOff_KillBlock"
         \/ pc = "off" /\ pc' \in {"off", "end"}
  BY DEF UpdateNPCs, RemoveNPC, Trimmed, AskLast, NoSwitch, SwitchOn, CoinsToTurn, BackToTurn, LastNPC,
         AllTurned, Tick, GiveBack, PassOver, SwitchDone, InSwitch, InKillBlock, Proceed, locals
<1>2. /\ Before <=> pc \in {"idle", "npcs"}
      /\ InQueue <=> pc \in {"queue", "hit", "struck", "smash"}
                      \/ (pc \in Killing /\ caller = "UpdateBlocks_KillBlock")
      /\ Reordered <=> emulate_classic_block_order /\ pc \in {"coins", "start", "started"}
      /\ At = A
  BY <1>1, AtStage
<1>3. /\ Before' <=> pc' \in {"idle", "npcs"}
      /\ InQueue' <=> pc' \in {"queue", "hit", "struck", "smash"}
                       \/ (pc' \in Killing /\ caller' = "UpdateBlocks_KillBlock")
      /\ Reordered' <=> emulate_classic_block_order' /\ pc' \in {"coins", "start", "started"}
      /\ At' = A'
  BY <1>1, AtStageNext
<1>4. (InQueue' <=> InQueue) /\ (InQueue => At' = At)
  BY <1>1, <1>2, <1>3 DEF Killing
<1>5. (Before => Before') /\ (Reordered => Reordered')
  BY <1>1, <1>2, <1>3
<1> QED BY <1>1, <1>4, <1>5, EnteredStill DEF InQueue

LEMMA EnteredUpdateBlocks ==
  ASSUME BaseInv, Entered, UpdateBlocks
  PROVE  Entered'
<1>1. pc = "npcs" /\ pc' = "queue" /\ A' = 1 /\ Block' = Block /\ iBlock' = iBlock
  BY DEF UpdateBlocks
<1>2. ~InQueue /\ ~Reordered /\ InQueue' /\ At' = 1
  <2>1. ~InQueue /\ ~Reordered
    BY <1>1, AtStage DEF Killing
  <2>2. InQueue' /\ At' = 1
    BY <1>1, AtStageNext
  <2> QED BY <2>1, <2>2
<1> QED BY <1>1, <1>2 DEF Entered, DoomEntered, ShakeEntered, HasEntry

\* The loop goes on from an entry of a block that is not, or no longer, to be smashed.
LEMMA EnteredNext ==
  ASSUME BaseInv, Entered, InQueue, InQueue', ~Reordered, At' = At + 1, iBlock' = iBlock,
         DOMAIN Block' = DOMAIN Block,
         \A i \in DOMAIN Block : /\ Block'[i].ShakeCounter = Block[i].ShakeCounter
                                 /\ Block'[i].Kill = Block[i].Kill \/ Block'[i].Kill = 0,
         At \in DOMAIN iBlock, iBlock[At] \in DOMAIN Block => Block'[iBlock[At]].Kill = 0
  PROVE  Entered'
<1>0. At \in Nat /\ iBlock \in Seq(Index)
  BY DEF BaseInv, TypeOK, At
<1>1. DoomEntered'
  <2> SUFFICES ASSUME NEW i \in DOMAIN Block, Block'[i].Kill # 0
               PROVE  \E k \in DOMAIN iBlock : k >= At + 1 /\ iBlock[k] = i
    BY DEF DoomEntered, HasEntry
  <2>1. HasEntry(i, At)
    BY DEF Entered, DoomEntered
  <2>2. PICK k \in DOMAIN iBlock : k >= At /\ iBlock[k] = i
    BY <2>1 DEF HasEntry
  <2>3. k # At
    BY <2>2
  <2>4. k >= At + 1
    BY <1>0, <2>2, <2>3
  <2> QED BY <2>2, <2>4
<1>2. ShakeEntered'
  BY DEF Entered, ShakeEntered, HasEntry
<1> QED BY <1>1, <1>2 DEF Entered

LEMMA EnteredNoBlock ==
  ASSUME BaseInv, Entered, NoBlock
  PROVE  Entered'
<1>1. /\ pc = "queue" /\ pc' = "queue" /\ A' = A + 1 /\ Block' = Block /\ iBlock' = iBlock
      /\ A <= Len(iBlock) /\ iBlock[A] \notin DOMAIN Block
  BY DEF NoBlock, InLoop, NextEntry, Present, iBlocks
<1>2. InQueue /\ ~Reordered /\ At = A
  BY <1>1, AtStage
<1>3. InQueue' /\ At' = A + 1
  BY <1>1, AtStageNext
<1>4. A \in DOMAIN iBlock
  BY <1>1, HerePlace
<1> QED BY <1>1, <1>2, <1>3, <1>4, EnteredNext

LEMMA EnteredShakeStep ==
  ASSUME BaseInv, Entered, ShakeStep
  PROVE  Entered'
<1> DEFINE i == iBlock[A]
<1>1. /\ pc = "queue" /\ pc' \in {"hit", "struck"} /\ A' = A /\ iBlock' = iBlock
  BY DEF ShakeStep, InLoop, locals
<1>2. /\ i \in DOMAIN Block /\ DOMAIN Block' = DOMAIN Block /\ Block[i] \in Block_t
      /\ Block'[i] = Stepped(Block[i]) /\ \A j \in DOMAIN Block : j # i => Block'[j] = Block[j]
  BY ShakeStepDoes, BlockIs DEF BaseInv, Steady
<1>3. InQueue /\ ~Reordered /\ ~Before /\ At = A
  BY <1>1, AtStage
<1>4. InQueue' /\ At' = A
  BY <1>1, AtStageNext
<1>5. \A j \in DOMAIN Block :
        /\ Block'[j].Kill = Block[j].Kill
        /\ \/ Block'[j].ShakeCounter = Block[j].ShakeCounter \/ Block'[j].ShakeCounter = Still
           \/ Block[j].ShakeCounter # Still
  <2>1. /\ Stepped(Block[i]).Kill = Block[i].Kill
        /\ \/ Stepped(Block[i]).ShakeCounter = Still
           \/ Stepped(Block[i]) = Block[i]
           \/ Block[i].ShakeCounter # Still
    BY <1>2, SteppedIs
  <2> QED BY <1>2, <2>1
<1>6. InQueue' = InQueue
  BY <1>3, <1>4 DEF InQueue
<1> QED BY <1>1, <1>2, <1>3, <1>4, <1>5, <1>6, EnteredStill

LEMMA EnteredStruck ==
  ASSUME BaseInv, Entered, Struck
  PROVE  Entered'
<1> DEFINE i == iBlock[A]
<1>1. /\ pc = "struck" /\ pc' = "smash" /\ i \in DOMAIN Block /\ Longer /\ DOMAIN Block' = DOMAIN Block
      /\ \A j \in DOMAIN Block : j # i => Block'[j] = Block[j]
      /\ Block'[i].Kill = Block[i].Kill
      /\ \/ Block' = Block
         \/ Block'[i].ShakeCounter = Still
         \/ \E k \in DOMAIN iBlock' : iBlock'[k] = i
  BY StruckDoes DEF Steady
<1>2. A' = A
  BY DEF Struck, Proceed, locals
<1>3. InQueue /\ ~Reordered /\ ~Before /\ At = A
  BY <1>1, AtStage
<1>4. InQueue' /\ At' = A
  BY <1>1, <1>2, AtStageNext
<1>5. InQueue' = InQueue
  BY <1>3, <1>4 DEF InQueue
<1>6. \A k \in DOMAIN iBlock' : k >= 1
  BY <1>1 DEF Longer
<1>7. \A j \in DOMAIN Block :
        /\ Block'[j].Kill = Block[j].Kill
        /\ \/ Block'[j].ShakeCounter = Block[j].ShakeCounter \/ Block'[j].ShakeCounter = Still
           \/ \E k \in DOMAIN iBlock' : k >= 1 /\ iBlock'[k] = j
  BY <1>1, <1>6
<1> QED BY <1>1, <1>3, <1>4, <1>5, <1>7, EnteredKept

LEMMA EnteredSmash ==
  ASSUME BaseInv, Entered, Smash
  PROVE  Entered'
<1> DEFINE i == iBlock[A]
<1>1. /\ pc = "smash" /\ A \in DOMAIN iBlock /\ i \in DOMAIN Block /\ DOMAIN Block' = DOMAIN Block
      /\ Block'[i].Kill = 0 /\ iBlock' = iBlock
      /\ \A j \in DOMAIN Block : /\ j # i => Block'[j] = Block[j]
                                 /\ Block'[j].ShakeCounter = Block[j].ShakeCounter
  BY SmashDoes DEF Steady
<1>2. InQueue /\ ~Reordered /\ ~Before /\ At = A
  BY <1>1, AtStage
<1>3. \/ pc' = "death" /\ caller' = "UpdateBlocks_KillBlock" /\ A' = A
      \/ pc' = "queue" /\ A' = A + 1
  BY DEF Smash, NextEntry
<1>4. InQueue' /\ At' = A'
  BY <1>3, AtStageNext DEF Killing
<1>5. CASE A' = A
  <2>1. InQueue' = InQueue
    BY <1>2, <1>4 DEF InQueue
  <2> QED BY <1>1, <1>2, <1>4, <1>5, <2>1, EnteredStill
<1>6. CASE A' = A + 1
  BY <1>1, <1>2, <1>4, <1>6, EnteredNext
<1> QED BY <1>3, <1>5, <1>6

LEMMA EnteredDie ==
  ASSUME BaseInv, Entered, Die
  PROVE  Entered'
<1>1. /\ pc = "die" /\ Victim \in DOMAIN Block /\ DOMAIN Block' = DOMAIN Block /\ iBlock' = iBlock
      /\ Block'[Victim].Kill = 0 /\ Block'[Victim].ShakeCounter = Block[Victim].ShakeCounter
      /\ \A j \in DOMAIN Block : j # Victim => Block'[j] = Block[j]
      /\ \/ /\ caller = "UpdateBlocks_KillBlock" /\ A \in DOMAIN iBlock /\ Victim = iBlock[A]
            /\ pc' = "queue" /\ A' = A + 1
         \/ caller = "UpdateBlocks_SwitchOff_KillBlock" /\ pc' = "off"
      /\ emulate_classic_block_order' = emulate_classic_block_order
  BY DieDoes
<1>2. \A j \in DOMAIN Block : /\ Block'[j].Kill = Block[j].Kill \/ Block'[j].Kill = 0
                              /\ Block'[j].ShakeCounter = Block[j].ShakeCounter
  BY <1>1
<1>3. ~Before /\ ~Reordered /\ At = A
      /\ (InQueue <=> caller = "UpdateBlocks_KillBlock")
  BY <1>1, AtStage DEF Killing
<1>4. At' = A' /\ (InQueue' <=> pc' = "queue")
  BY <1>1, AtStageNext DEF Killing
<1>5. CASE /\ caller = "UpdateBlocks_KillBlock" /\ A \in DOMAIN iBlock /\ Victim = iBlock[A]
           /\ pc' = "queue" /\ A' = A + 1
  BY <1>1, <1>2, <1>3, <1>4, <1>5, EnteredNext
<1>6. CASE caller = "UpdateBlocks_SwitchOff_KillBlock" /\ pc' = "off"
  <2>1. InQueue' = InQueue /\ ~InQueue
    BY <1>3, <1>4, <1>6 DEF InQueue
  <2> QED BY <1>1, <1>2, <1>3, <2>1, EnteredStill
<1> QED BY <1>1, <1>5, <1>6

LEMMA EnteredEndOfLoop ==
  ASSUME BaseInv, Entered, EndOfLoop
  PROVE  Entered'
<1>1. /\ pc = "queue" /\ pc' = "trim" /\ A > Len(iBlock) /\ Block' = Block /\ iBlock' = iBlock
  BY DEF EndOfLoop, iBlocks
<1>2. InQueue /\ ~Reordered /\ At = A
  BY <1>1, AtStage
<1>3. DoomEntered'
  <2>1. ASSUME NEW i \in DOMAIN Block, Block[i].Kill # 0
        PROVE  FALSE
    <3>1. HasEntry(i, A)
      BY <1>2, <2>1 DEF Entered, DoomEntered
    <3>2. Len(iBlock) \in Nat /\ DOMAIN iBlock = 1..Len(iBlock) /\ A \in Nat
      BY <1>1, HerePlace
    <3> QED BY <1>1, <3>1, <3>2 DEF HasEntry
  <2> QED BY <1>1, <2>1 DEF DoomEntered
<1>4. ShakeEntered'
  BY <1>1, <1>2 DEF Entered, ShakeEntered, HasEntry
<1> QED BY <1>3, <1>4 DEF Entered

\* No block is to be smashed when the loop is over.
LEMMA NoneDoomed ==
  ASSUME Entered, ~Before, ~InQueue
  PROVE  \A i \in DOMAIN Block : Block[i].Kill = 0
BY DEF Entered, DoomEntered

LEMMA EnteredTrim ==
  ASSUME BaseInv, Entered, Trim
  PROVE  Entered'
<1>1. /\ pc = "trim" /\ pc' = "trim" /\ A \in DOMAIN iBlock /\ Block' = Block
      /\ \/ iBlock' = iBlock
         \/ /\ ~Present(iBlock[A]) \/ Block[iBlock[A]].ShakeCounter = Still
            /\ DOMAIN iBlock' = 1..(Len(iBlock) - 1)
            /\ \A k \in 1..(Len(iBlock) - 1) :
                 iBlock'[k] = IF k = A THEN iBlock[Len(iBlock)] ELSE iBlock[k]
  BY TrimDoes
<1>2. ~Before /\ ~InQueue /\ ~Reordered
  BY <1>1, AtStage DEF Killing
<1>3. \A i \in DOMAIN Block : Block[i].Kill = 0
  BY <1>2, NoneDoomed
<1>4. DoomEntered'
  BY <1>1, <1>3 DEF DoomEntered
<1>5. ShakeEntered'
  <2> SUFFICES ASSUME NEW i \in DOMAIN Block, Block[i].ShakeCounter # Still
               PROVE  \E k \in DOMAIN iBlock' : k >= 1 /\ iBlock'[k] = i
    BY <1>1 DEF ShakeEntered, HasEntry
  <2>1. PICK k \in DOMAIN iBlock : k >= 1 /\ iBlock[k] = i
    BY <1>2 DEF Entered, ShakeEntered, HasEntry
  <2>2. CASE iBlock' = iBlock
    BY <2>1, <2>2
  <2>3. CASE /\ ~Present(iBlock[A]) \/ Block[iBlock[A]].ShakeCounter = Still
             /\ DOMAIN iBlock' = 1..(Len(iBlock) - 1)
             /\ \A m \in 1..(Len(iBlock) - 1) :
                  iBlock'[m] = IF m = A THEN iBlock[Len(iBlock)] ELSE iBlock[m]
    <3>1. Len(iBlock) \in Nat /\ k \in 1..Len(iBlock) /\ A \in 1..Len(iBlock)
      BY <1>1, <2>1, HerePlace
    <3>2. k # A
      BY <2>1, <2>3 DEF Present
    <3>3. CASE k = Len(iBlock)
      <4>1. A \in 1..(Len(iBlock) - 1)
        BY <3>1, <3>2, <3>3
      <4>2. iBlock'[A] = i /\ A \in DOMAIN iBlock' /\ A >= 1
        BY <2>1, <2>3, <3>3, <4>1
      <4> QED BY <4>2
    <3>4. CASE k # Len(iBlock)
      <4>1. k \in 1..(Len(iBlock) - 1)
        BY <3>1, <3>4
      <4>2. iBlock'[k] = i /\ k \in DOMAIN iBlock'
        BY <2>1, <2>3, <3>2, <4>1
      <4> QED BY <2>1, <4>2
    <3> QED BY <3>3, <3>4
  <2> QED BY <1>1, <2>2, <2>3
<1> QED BY <1>4, <1>5 DEF Entered

LEMMA EnteredToBlock ==
  ASSUME BaseInv, Entered, ToBlock \/ BackToBlock
  PROVE  Entered'
<1>1. TypeOK /\ A \in DOMAIN NPC
  BY DEF BaseInv, ToBlock, BackToBlock, NextNPC
<1>2. PICK at \in {"blocks", "back"}, chosen \in BOOLEAN, coin \in BOOLEAN : NextNPC(at, chosen, coin)
  BY <1>1, IsCoinIs DEF ToBlock, BackToBlock
<1>3. /\ pc = at /\ Len(Block) \in Nat /\ DOMAIN Block = 1..Len(Block) /\ iBlock' = iBlock
      /\ \/ Block' = Block
         \/ /\ DOMAIN Block' = 1..(Len(Block) + 1) /\ \A i \in DOMAIN Block : Block'[i] = Block[i]
            /\ Block'[Len(Block) + 1].ShakeCounter = Still /\ Block'[Len(Block) + 1].Kill = 0
  BY <1>1, <1>2, NextNPCDoes DEF TypeOK
<1>4. ~Before /\ ~InQueue /\ ~Reordered
  BY <1>3, AtStage DEF Killing
<1>5. \A i \in DOMAIN Block : Block[i].Kill = 0
  BY <1>4, NoneDoomed
<1>6. \A i \in DOMAIN Block' : /\ Block'[i].Kill = 0
                               /\ \/ Block'[i].ShakeCounter = Still
                                  \/ i \in DOMAIN Block /\ Block'[i] = Block[i]
  BY <1>3, <1>5
<1>7. DoomEntered'
  BY <1>6 DEF DoomEntered
<1>8. ShakeEntered'
  BY <1>3, <1>4, <1>6 DEF Entered, ShakeEntered, HasEntry, Still
<1> QED BY <1>7, <1>8 DEF Entered

LEMMA EnteredToCoin ==
  ASSUME BaseInv, Entered, Room, ToCoin
  PROVE  Entered'
<1>1. /\ pc = "coins" /\ pc' = "coins" /\ A \in DOMAIN Block /\ TypeOK
      /\ emulate_classic_block_order' = emulate_classic_block_order
      /\ \/ UNCHANGED <<Block, NPC, iBlock>>
         \/ /\ DOMAIN Block' = 1..(Len(Block) - 1)
            /\ \A j \in 1..(Len(Block) - 1) : Block'[j] = IF j = A THEN Block[Len(Block)] ELSE Block[j]
            /\ iBlock' = Entry(iBlock, A)
  BY ToCoinDoes DEF BaseInv
<1>2. ~Before /\ ~InQueue /\ (Reordered <=> emulate_classic_block_order)
  BY <1>1, AtStage DEF Killing
<1>3. ~InQueue' /\ (Reordered' <=> emulate_classic_block_order)
  BY <1>1, AtStageNext DEF Killing
<1>4. CASE UNCHANGED <<Block, NPC, iBlock>>
  BY <1>2, <1>3, <1>4, EnteredStill DEF InQueue
<1>5. CASE /\ DOMAIN Block' = 1..(Len(Block) - 1)
           /\ \A j \in 1..(Len(Block) - 1) : Block'[j] = IF j = A THEN Block[Len(Block)] ELSE Block[j]
           /\ iBlock' = Entry(iBlock, A)
  <2>1. Len(Block) \in Nat /\ DOMAIN Block = 1..Len(Block) /\ Len(Block) \in DOMAIN Block /\ A \in Index
    BY <1>1, BlockIs
  <2>2. \A i \in DOMAIN Block : Block[i].Kill = 0
    BY <1>2, NoneDoomed
  <2>3. DoomEntered'
    BY <1>5, <2>1, <2>2 DEF DoomEntered
  <2>4. ShakeEntered'
    <3>1. CASE emulate_classic_block_order
      BY <1>3, <3>1 DEF ShakeEntered
    <3>2. CASE ~emulate_classic_block_order
      <4> SUFFICES ASSUME NEW j \in DOMAIN Block', Block'[j].ShakeCounter # Still
                   PROVE  \E k \in DOMAIN iBlock' : k >= 1 /\ iBlock'[k] = j
        BY DEF ShakeEntered, HasEntry, Still
      <4>1. iBlock' = Append(iBlock, A)
        <5>1. Len(iBlock) <= maxInteresting
          BY <1>1, SizesAssumption DEF Room, iBlocks, TypeOK
        <5> QED BY <1>5, <3>2, <5>1 DEF Entry
      <4>2. /\ Longer /\ Len(iBlock) + 1 \in DOMAIN iBlock' /\ iBlock'[Len(iBlock) + 1] = A
            /\ Len(iBlock) + 1 >= 1
        BY <1>1, <2>1, <4>1, LongerAppend DEF TypeOK
      <4>3. CASE j = A
        BY <4>2, <4>3
      <4>4. CASE j # A
        <5>1. j \in DOMAIN Block /\ Block'[j] = Block[j]
          BY <1>5, <2>1, <4>4
        <5>2. HasEntry(j, 1)
          BY <1>2, <3>2, <5>1 DEF Entered, ShakeEntered
        <5> QED BY <4>2, <5>2, EntryStays
      <4> QED BY <4>3, <4>4
    <3> QED BY <3>1, <3>2
  <2> QED BY <2>3, <2>4 DEF Entered
<1> QED BY <1>1, <1>4, <1>5

LEMMA EnteredSorted ==
  ASSUME BaseInv, Entered, Started \/ Ended
  PROVE  Entered'
<1>1. /\ pc \in {"started", "ended"} /\ Sorted /\ TypeOK
  BY DEF Started, Ended, InSwitch, BaseInv
<1>2. ~Before /\ ~InQueue /\ (Reordered => emulate_classic_block_order)
  BY <1>1, AtStage DEF Killing
<1>3. \A i \in DOMAIN Block : Block[i].Kill = 0
  BY <1>2, NoneDoomed
<1>4. PICK order \in [DOMAIN Block -> DOMAIN Block] :
        DOMAIN Block' = DOMAIN Block /\ \A k \in DOMAIN Block : Block'[k] = Block[order[k]]
  BY <1>1, SortedDoes
<1>5. DoomEntered'
  BY <1>3, <1>4 DEF DoomEntered
<1>6. ShakeEntered'
  <2>1. CASE emulate_classic_block_order
    <3>1. \A i \in DOMAIN Block : \E k \in DOMAIN iBlock' : k >= 1 /\ iBlock'[k] = i
      BY <1>1, <2>1, SortedDoes
    <3> QED BY <1>4, <3>1 DEF ShakeEntered, HasEntry
  <2>2. CASE ~emulate_classic_block_order
    <3>1. Block' = Block /\ iBlock' = iBlock
      BY <2>2, <1>1, SortedDoes
    <3> QED BY <1>2, <2>2, <3>1 DEF Entered, ShakeEntered, HasEntry
  <2> QED BY <2>1, <2>2
<1> QED BY <1>5, <1>6 DEF Entered

LEMMA EnteredStay ==
  ASSUME BaseInv, Entered, Resume \/ UNCHANGED vars
  PROVE  Entered'
<1>1. /\ Block' = Block /\ iBlock' = iBlock /\ emulate_classic_block_order' = emulate_classic_block_order
      /\ Stage' = Stage /\ At' = At /\ By' = By
  <2>1. CASE Resume
    BY <2>1, Resumed DEF Resume
  <2>2. CASE UNCHANGED vars
    BY <2>2 DEF vars, locals, Stage, At, By
  <2> QED BY <2>1, <2>2
<1> QED BY <1>1, SameStage, EnteredStill

LEMMA EnteredInit ==
  ASSUME Init
  PROVE  Entered
<1>1. PICK blocks \in Seq(Things) : Block = [i \in DOMAIN blocks |-> NewBlock(blocks[i], FALSE, FALSE)]
  BY InitIs
<1>2. \A i \in DOMAIN Block : Block[i].Kill = 0 /\ Block[i].ShakeCounter = Still
  BY <1>1 DEF NewBlock
<1> QED BY <1>2 DEF Entered, DoomEntered, ShakeEntered

LEMMA EnteredStep ==
  ASSUME BaseInv, Entered, Room, [Next]_vars
  PROVE  Entered'
BY EnteredOutside, EnteredEvent, EnteredWalk, EnteredUpdateBlocks, EnteredNoBlock, EnteredShakeStep,
   EnteredStruck, EnteredSmash, EnteredDie, EnteredEndOfLoop, EnteredTrim, EnteredToBlock,
   EnteredToCoin, EnteredSorted, EnteredStay DEF Next, Coming, Loop, Kill, PSwitch

\* NoneForgotten: whatever order the array is in, whatever was moved into the place of
\* what, and however often a block was hit, no block is left halfway, moved or doomed
\* without an entry, as long as iBlock does not fill up.
THEOREM NoneForgottenCorrect == Spec /\ []Room => []NoneForgotten
<1>1. Init => Entered
  BY EnteredInit
<1>2. BaseInv /\ Entered /\ Room /\ [Next]_vars => Entered'
  BY EnteredStep
<1>3. BaseInv /\ Shakes /\ Entered => NoneForgotten
  <2> SUFFICES ASSUME BaseInv, Shakes, Entered, pc = "idle", NEW i \in DOMAIN Block,
                      ~\E k \in DOMAIN iBlock : iBlock[k] = i
               PROVE  /\ Block[i].ShakeCounter = Still /\ Block[i].ShakeOffset = 0
                      /\ Block[i].Kill = 0
    BY DEF NoneForgotten
  <2>1. Before /\ ~InQueue /\ ~Reordered
    BY AtStage DEF Killing
  <2>2. Block[i].ShakeCounter = Still /\ Block[i].Kill = 0
    BY <2>1 DEF Entered, DoomEntered, ShakeEntered, HasEntry
  <2>3. Block[i].ShakeOffset = 0
    BY <2>2, CounterTypes DEF Shakes, Bent, Swing
  <2> QED BY <2>2, <2>3
<1> QED BY <1>1, <1>2, <1>3, BaseCorrect, ShakesCorrect, PTL DEF Spec

-----------------------------------------------------------------------------
(* What becomes of each thing.                                             *)

\* What was a coin and is a block, what was a block and is a coin.  A block that is
\* gone is hidden, and none is killed twice.
Kinds ==
  /\ \A i \in DOMAIN Block : /\ Block[i].wasCoin <=> Block[i].thing \in Coins
                             /\ Block[i].gone => Block[i].Hidden
  /\ \A c \in DOMAIN NPC : NPC[c].wasBlock <=> NPC[c].thing \notin Coins
  /\ Stage \in Killing => ~Block[Now].gone

Unique ==
  /\ \A i, j \in DOMAIN Block :
       Block[i].thing = Block[j].thing /\ ~Block[i].gone /\ ~Block[j].gone => i = j
  /\ \A c, d \in DOMAIN NPC : NPC[c].thing = NPC[d].thing => c = d

\* A thing is a block and a coin when the switch has just turned the one into the other,
\* and the coin is killed, or when it gives the coin back, before the block is killed.
OnDone(c)  == \/ Stage = "blocks" /\ c < At
              \/ Stage \in {"coins", "start", "started"}
              \/ Stage = "tick" /\ PSwitchTime = SwitchTime
OffDone(c) == \/ Stage = "back" /\ c < At
              \/ Stage \in {"off", "end", "ended"}
              \/ FromSwitch

Turned(i, c) == \/ Before
                \/ Block[i].wasCoin /\ OnDone(c)
                \/ ~Block[i].wasCoin /\ OffDone(c)

Apart ==
  \A i \in DOMAIN Block, c \in DOMAIN NPC :
    ~Block[i].gone /\ Block[i].thing = NPC[c].thing =>
      \/ NPC[c].Killed /\ Turned(i, c)
      \/ ~NPC[c].Killed /\ FromSwitch /\ i = At

\* A thing is lost if it is neither.
There(t) == \/ \E i \in DOMAIN Block : Block[i].thing = t /\ ~Block[i].gone
            \/ \E c \in DOMAIN NPC : NPC[c].thing = t /\ ~NPC[c].Killed
Lost == /\ \A t \in Things : t \in lost <=> ~There(t)
        /\ FromSwitch => \E c \in DOMAIN NPC : NPC[c].thing = Block[At].thing /\ ~NPC[c].Killed

\* As far as the end of the switch has come, each is what it was, or kept.
CoinsBack(n)  == \A c \in DOMAIN NPC : c < n /\ NPC[c].wasBlock => NPC[c].Killed
AllCoinsBack  == \A c \in DOMAIN NPC : NPC[c].wasBlock => NPC[c].Killed
BlocksBack(n) == \A i \in DOMAIN Block : i > n /\ Block[i].wasCoin => Block[i].gone \/ Block[i].thing \in kept

Giving == Stage = "off" \/ FromSwitch
Over   == \/ Stage \in {"end", "ended"}
          \/ PSwitchTime = 0 /\ Stage \notin {"back", "off"} /\ ~FromSwitch

Returned == /\ Stage = "back" => CoinsBack(At)
            /\ Giving => AllCoinsBack /\ BlocksBack(At)
            /\ Over => AllCoinsBack /\ BlocksBack(0)

FateInv == Kinds /\ Unique /\ Apart /\ Lost /\ Returned

\* Nothing is killed, moved or turned.
LEMMA FateSteady ==
  ASSUME BaseInv, FateInv, Steady, SteadyNPC, lost' = lost, kept' = kept,
         Stage' \in Killing => ~Block[Now'].gone /\ Now' \in DOMAIN Block,
         \A c \in DOMAIN NPC : NPC[c].Killed => /\ Before => Before'
                                                /\ OnDone(c) => OnDone(c)' \/ Before'
                                                /\ OffDone(c) => OffDone(c)' \/ Before',
         FromSwitch' <=> FromSwitch, FromSwitch => At' = At /\ At \in DOMAIN Block,
         Stage' = "back" => (Stage = "back" /\ At' = At) \/ At' = 1,
         Giving' => (Giving /\ At' = At) \/ (Stage = "back" /\ At > Len(NPC) /\ At' = Len(Block)),
         Over' => Over
  PROVE  FateInv'
<1>1. /\ DOMAIN Block' = DOMAIN Block /\ DOMAIN NPC' = DOMAIN NPC
      /\ \A i \in DOMAIN Block :
           /\ Block'[i].thing = Block[i].thing /\ Block'[i].gone = Block[i].gone
           /\ Block'[i].wasCoin = Block[i].wasCoin
           /\ Block[i].gone => Block'[i].Hidden = Block[i].Hidden
      /\ \A c \in DOMAIN NPC : /\ NPC'[c].thing = NPC[c].thing /\ NPC'[c].Killed = NPC[c].Killed
                               /\ NPC'[c].wasBlock = NPC[c].wasBlock
  BY DEF Steady, SteadyNPC
<1>2. Kinds'
  <2>1. \A i \in DOMAIN Block' : /\ Block'[i].wasCoin <=> Block'[i].thing \in Coins
                                 /\ Block'[i].gone => Block'[i].Hidden
    BY <1>1 DEF FateInv, Kinds
  <2>2. \A c \in DOMAIN NPC' : NPC'[c].wasBlock <=> NPC'[c].thing \notin Coins
    BY <1>1 DEF FateInv, Kinds
  <2>3. Stage' \in Killing => ~Block'[Now'].gone
    BY <1>1
  <2> QED BY <2>1, <2>2, <2>3 DEF Kinds, Killing
<1>3. Unique'
  BY <1>1 DEF FateInv, Unique
<1>4. Apart'
  <2> SUFFICES ASSUME NEW i \in DOMAIN Block, NEW c \in DOMAIN NPC,
                      ~Block[i].gone, Block[i].thing = NPC[c].thing
               PROVE  \/ NPC[c].Killed /\ Turned(i, c)'
                      \/ ~NPC[c].Killed /\ FromSwitch' /\ i = At'
    BY <1>1 DEF Apart
  <2>1. \/ NPC[c].Killed /\ Turned(i, c)
        \/ ~NPC[c].Killed /\ FromSwitch /\ i = At
    BY DEF FateInv, Apart
  <2>2. CASE NPC[c].Killed /\ Turned(i, c)
    BY <1>1, <2>2 DEF Turned
  <2>3. CASE ~NPC[c].Killed /\ FromSwitch /\ i = At
    BY <2>3
  <2> QED BY <2>1, <2>2, <2>3
<1>5. Lost'
  <2>1. \A t \in Things : There(t)' <=> There(t)
    BY <1>1 DEF There
  <2>2. FromSwitch' => \E c \in DOMAIN NPC' : NPC'[c].thing = Block'[At'].thing /\ ~NPC'[c].Killed
    BY <1>1 DEF FateInv, Lost
  <2> QED BY <2>1, <2>2 DEF FateInv, Lost
<1>6. Returned'
  <2>0. Len(NPC) \in Nat /\ DOMAIN NPC = 1..Len(NPC) /\ Len(Block) \in Nat /\ DOMAIN Block = 1..Len(Block)
        /\ At \in Nat
    BY DEF BaseInv, TypeOK, At
  <2>1. Stage' = "back" => CoinsBack(At)'
    BY <1>1, <2>0 DEF FateInv, Returned, CoinsBack
  <2>2. Giving' => AllCoinsBack' /\ BlocksBack(At)'
    <3>1. CASE Giving /\ At' = At
      BY <1>1, <3>1 DEF FateInv, Returned, AllCoinsBack, BlocksBack
    <3>2. CASE Stage = "back" /\ At > Len(NPC) /\ At' = Len(Block)
      <4>1. AllCoinsBack
        <5>1. CoinsBack(At)
          BY <3>2 DEF FateInv, Returned
        <5>2. ASSUME NEW c \in DOMAIN NPC
              PROVE  c < At
          <6>1. /\ Len(NPC) \in Nat /\ DOMAIN NPC = 1..Len(NPC) /\ At \in Nat
                /\ At > Len(NPC)
            BY <2>0, <3>2
          <6>2. c \in Nat /\ c <= Len(NPC)
            BY <6>1
          <6> HIDE DEF At
          <6> QED BY <6>1, <6>2
        <5> QED BY <5>1, <5>2 DEF CoinsBack, AllCoinsBack
      <4> QED BY <1>1, <2>0, <3>2, <4>1 DEF AllCoinsBack, BlocksBack
    <3> QED BY <3>1, <3>2
  <2>3. Over' => AllCoinsBack' /\ BlocksBack(0)'
    BY <1>1 DEF FateInv, Returned, AllCoinsBack, BlocksBack
  <2> QED BY <2>1, <2>2, <2>3 DEF Returned
<1> QED BY <1>2, <1>3, <1>4, <1>5, <1>6 DEF FateInv

\* The place stays the same.
LEMMA FateKept ==
  ASSUME BaseInv, FateInv, Steady, SteadyNPC, lost' = lost, kept' = kept, Longer,
         Stage' = Stage, At' = At, By' = By, PSwitchTime' = PSwitchTime \/ PSwitchTime' # 0,
         PSwitchTime' = PSwitchTime \/ Stage # "tick"
  PROVE  FateInv'
<1>1. FromLoop' = FromLoop /\ FromSwitch' = FromSwitch
  BY SamePlace
<1>2. Stage \in Killing => ~Block[Now].gone /\ Now \in DOMAIN Block
  BY DEF FateInv, Kinds, BaseInv, Place, Now, FromLoop, FromSwitch, Killers
<1>3. Now' = Now
  BY <1>1 DEF Now, BaseInv, Place, Longer
<1>4. FromSwitch => At \in DOMAIN Block
  BY DEF BaseInv, Place
<1>5. \A c \in DOMAIN NPC : /\ Before => Before'
                            /\ OnDone(c) => OnDone(c)'
                            /\ OffDone(c) => OffDone(c)'
  BY <1>1 DEF Before, OnDone, OffDone
<1>6. (Giving' => Giving) /\ (Over' => Over)
  BY <1>1 DEF Giving, Over
<1> QED BY <1>1, <1>2, <1>3, <1>4, <1>5, <1>6, FateSteady DEF Killing

\* The loop, as long as it kills nothing and no coin on a block is taken.
Plain == \/ Stage \in {"queue", "hit", "struck", "smash", "trim", "time"}
         \/ Stage \in Killing /\ By = "UpdateBlocks_KillBlock"

LEMMA FatePlain ==
  ASSUME BaseInv, BaseInv', FateInv, Plain, Plain', Steady, SteadyNPC, lost' = lost, kept' = kept,
         PSwitchTime' = PSwitchTime, Stage' \in Killing => ~Block[Now'].gone
  PROVE  FateInv'
<1>1. ~FromSwitch /\ ~FromSwitch' /\ ~Before /\ ~Giving /\ ~Giving' /\ Stage' # "back"
  BY DEF Plain, FromSwitch, Before, Giving, Killing
<1>2. \A c \in DOMAIN NPC : ~OnDone(c) /\ ~OffDone(c)
  BY DEF Plain, OnDone, OffDone, FromSwitch, Killing
<1>3. Over' => Over
  BY <1>1 DEF Plain, Over, Killing
<1>4. Stage' \in Killing => ~Block[Now'].gone /\ Now' \in DOMAIN Block
  <2>1. Stage' \in Killing => Now' \in DOMAIN Block'
    BY DEF BaseInv, Place, Now, FromLoop, FromSwitch, Killers, Killing
  <2> QED BY <2>1 DEF Steady
<1> QED BY <1>1, <1>2, <1>3, <1>4, FateSteady

LEMMA PlainNext ==
  ASSUME pc' # "paused",
         \/ pc' \in {"queue", "hit", "struck", "smash", "trim", "time"}
         \/ pc' \in Killing /\ caller' = "UpdateBlocks_KillBlock"
  PROVE  Plain'
BY HereNext DEF Plain, Killing

LEMMA PlainHere ==
  ASSUME pc # "paused",
         \/ pc \in {"queue", "hit", "struck", "smash", "trim", "time"}
         \/ pc \in Killing /\ caller = "UpdateBlocks_KillBlock"
  PROVE  Plain /\ Stage = pc
BY Here DEF Plain

\* Between the frames.
LEMMA FateOutside ==
  ASSUME BaseInv, FateInv, Hit \/ PowBlock \/ BlockHitHard \/ SafelyKillBlock \/ Press \/ OtherEvent
  PROVE  FateInv'
<1>1. /\ pc = "idle" /\ UNCHANGED <<pc, A, caller, g_gameLoopInterrupt, lost, kept>>
      /\ PSwitchTime' = PSwitchTime \/ PSwitchTime' = SwitchTime
  BY DEF Hit, PowBlock, BlockHitHard, SafelyKillBlock, Press, OtherEvent, Outside, locals, fates
<1>2. /\ TypeOK /\ Stage = "idle" /\ Stage' = Stage /\ At' = At /\ By' = By
      /\ PSwitchTime' = PSwitchTime \/ PSwitchTime' # 0
  BY <1>1, SizesAssumption DEF BaseInv, Stage, At, By
<1>3. Steady /\ SteadyNPC /\ Longer
  <2>1. CASE Hit
    <3>1. PICK i \in DOMAIN Block :
            BlockHit(i, Block[i], {Block[i].RapidHit} \cup (IF Block[i].thing \in Rapid THEN {1} ELSE {}))
      BY <2>1 DEF Hit
    <3>2. /\ Block[i] \in Block_t
          /\ {Block[i].RapidHit} \cup (IF Block[i].thing \in Rapid THEN {1} ELSE {}) \in SUBSET Nat
      BY <1>2, BlockIs DEF Block_t
    <3>3. Steady /\ Longer
      BY <1>2, <3>1, <3>2, BlockHitDoes
    <3> QED BY <1>2, <2>1, <3>3, SteadyNPCNot DEF Hit
  <2>2. CASE PowBlock
    <3>1. PICK i \in DOMAIN Block : BlockShake("UPDOWN06", i, Block[i])
      BY <2>2 DEF PowBlock
    <3>2. Block[i] \in Block_t /\ "UPDOWN06" \in Programs \ {"none"}
      BY <1>2, BlockIs DEF Programs
    <3>3. Steady /\ Longer
      BY <1>2, <3>1, <3>2, BlockShakeDoes
    <3> QED BY <1>2, <2>2, <3>3, SteadyNPCNot DEF PowBlock
  <2>3. CASE BlockHitHard \/ SafelyKillBlock
    <3>1. PICK i \in DOMAIN Block, kill \in {0, 1, 9} :
            Block' = [Block EXCEPT ![i].Kill = kill] /\ iBlock' = Push(iBlock, i)
      BY <2>3 DEF BlockHitHard, SafelyKillBlock
    <3>2. Steady /\ Longer
      BY <1>2, <3>1, Doomed, PushDoes, BlockIs
    <3> QED BY <1>2, <2>3, <3>2, SteadyNPCNot DEF BlockHitHard, SafelyKillBlock
  <2>4. CASE Press
    BY <1>2, <2>4, SteadyNot, SteadyNPCNot, LongerNot DEF Press
  <2>5. CASE OtherEvent
    BY <1>2, <2>5, EventDoes, LongerNot DEF OtherEvent
  <2> QED BY <2>1, <2>2, <2>3, <2>4, <2>5
<1> QED BY <1>1, <1>2, <1>3, FateKept DEF fates

LEMMA FateStay ==
  ASSUME BaseInv, FateInv, Resume \/ UNCHANGED vars
  PROVE  FateInv'
<1>1. /\ UNCHANGED <<Block, NPC, iBlock, PSwitchTime, lost, kept>>
      /\ Stage' = Stage /\ At' = At /\ By' = By
  <2>1. CASE Resume
    BY <2>1, Resumed DEF Resume, fates
  <2>2. CASE UNCHANGED vars
    BY <2>2 DEF vars, locals, fates, Stage, At, By
  <2> QED BY <2>1, <2>2
<1> QED BY <1>1, FateKept, SteadyNot, SteadyNPCNot, LongerNot DEF BaseInv

\* The loop.
LEMMA FateLoop ==
  ASSUME BaseInv, BaseInv', FateInv, NoBlock \/ ShakeStep \/ EndOfLoop \/ Trim \/ Trimmed \/ Smash
  PROVE  FateInv'
<1>1. /\ pc \in {"queue", "smash", "trim"} /\ NPC' = NPC /\ lost' = lost /\ kept' = kept
      /\ PSwitchTime' = PSwitchTime
      /\ \/ pc' \in {"queue", "hit", "struck", "trim", "time"}
         \/ /\ pc = "smash" /\ pc' = "death" /\ caller' = "UpdateBlocks_KillBlock" /\ A' = A
            /\ iBlock' = iBlock /\ ~Block[iBlock[A]].Hidden
  BY DEF NoBlock, ShakeStep, EndOfLoop, Trim, Trimmed, Smash, InLoop, NextEntry, locals, fates
<1>2. Plain /\ Plain'
  BY <1>1, PlainHere, PlainNext DEF Killing
<1>3. Steady
  <2>1. CASE ShakeStep
    BY <2>1, ShakeStepDoes
  <2>2. CASE Smash
    BY <2>2, SmashDoes
  <2>3. CASE NoBlock \/ EndOfLoop \/ Trim \/ Trimmed
    BY <2>3, SteadyNot DEF NoBlock, EndOfLoop, Trim, Trimmed, BaseInv
  <2> QED BY <2>1, <2>2, <2>3
<1>4. SteadyNPC
  BY <1>1, SteadyNPCNot DEF BaseInv
<1>5. Stage' \in Killing => ~Block[Now'].gone
  <2> SUFFICES ASSUME Stage' \in Killing
               PROVE  ~Block[Now'].gone
    OBVIOUS
  <2>1. Stage' = pc' /\ At' = A' /\ By' = caller'
    BY <1>1, HereNext
  <2>2. /\ pc = "smash" /\ pc' = "death" /\ caller' = "UpdateBlocks_KillBlock" /\ A' = A
        /\ iBlock' = iBlock /\ ~Block[iBlock[A]].Hidden
    BY <1>1, <2>1 DEF Killing
  <2>3. Now' = iBlock[A]
    BY <2>1, <2>2 DEF Now, FromLoop, Killing
  <2>4. iBlock[A] \in DOMAIN Block
    BY <2>2, HerePlace
  <2> QED BY <2>2, <2>3, <2>4 DEF FateInv, Kinds
<1> QED BY <1>1, <1>2, <1>3, <1>4, <1>5, FatePlain

\* An event, whosoever's.
LEMMA FateEvent ==
  ASSUME BaseInv, BaseInv', FateInv, HitEvent \/ DeathEvent \/ LastEvent \/ StartEvent \/ EndEvent
  PROVE  FateInv'
<1>1. /\ Event /\ iBlock' = iBlock /\ PSwitchTime' = PSwitchTime /\ lost' = lost /\ kept' = kept
      /\ pc \in {"hit", "death", "last", "start", "end"} /\ TypeOK
  BY DEF HitEvent, DeathEvent, LastEvent, StartEvent, EndEvent, InLoop, InKillBlock, InSwitch, fates,
         BaseInv
<1>2. Steady /\ SteadyNPC /\ Longer
  BY <1>1, EventDoes, LongerNot
<1>3. CASE Stage' = Stage /\ At' = At /\ By' = By
  BY <1>1, <1>2, <1>3, FateKept
<1>4. CASE /\ A' = A /\ caller' = caller
           /\ \/ pc = "hit" /\ pc' = "struck"
              \/ pc = "death" /\ pc' = "ask"
              \/ pc = "last" /\ pc' = "die"
              \/ pc = "start" /\ pc' = "started"
              \/ pc = "end" /\ pc' = "ended"
  <2>1. /\ Stage = pc /\ At = A /\ By = caller /\ Stage' = pc' /\ At' = A /\ By' = caller
    BY <1>4, Here, HereNext
  <2>2. FromLoop' <=> FromLoop
    BY <1>4, <2>1 DEF FromLoop, Killing
  <2>3. FromSwitch' <=> FromSwitch
    BY <1>4, <2>1 DEF FromSwitch, Killing
  <2>4. Now' = Now
    BY <1>1, <2>1, <2>2 DEF Now
  <2>5. Stage' \in Killing => ~Block[Now'].gone /\ Now' \in DOMAIN Block
    <3>1. Stage' \in Killing => Stage \in Killing
      BY <1>4, <2>1 DEF Killing
    <3>2. Stage \in Killing => ~Block[Now].gone /\ Now \in DOMAIN Block
      BY DEF FateInv, Kinds, BaseInv, Place, Now, FromLoop, FromSwitch, Killers
    <3> QED BY <2>4, <3>1, <3>2
  <2>6. \A c \in DOMAIN NPC : /\ Before => Before'
                              /\ OnDone(c) => OnDone(c)'
                              /\ OffDone(c) => OffDone(c)'
    BY <1>1, <1>4, <2>1, <2>3 DEF Before, OnDone, OffDone
  <2>7. (Giving' => Giving) /\ (Over' => Over) /\ Stage' # "back"
    BY <1>1, <1>4, <2>1, <2>3 DEF Giving, Over
  <2>8. FromSwitch => At \in DOMAIN Block
    BY DEF BaseInv, Place
  <2> QED BY <1>1, <1>2, <2>1, <2>3, <2>5, <2>6, <2>7, <2>8, FateSteady DEF Killing
<1> QED BY <1>3, <1>4, EventMoves

\* From one place to the next.
LEMMA FateAskLast ==
  ASSUME BaseInv, FateInv, AskLast
  PROVE  FateInv'
<1>1. /\ pc = "ask" /\ pc' \in {"last", "die"} /\ caller \in Killers /\ TypeOK
      /\ Block' = Block /\ NPC' = NPC /\ iBlock' = iBlock /\ PSwitchTime' = PSwitchTime
      /\ A' = A /\ caller' = caller /\ lost' = lost /\ kept' = kept
  BY HerePlace DEF AskLast, InKillBlock, Killing, Proceed, locals, fates
<1>2. Stage = pc /\ At = A /\ By = caller /\ Stage' = pc' /\ At' = A /\ By' = caller
  BY <1>1, Here, HereNext
<1>3. (FromLoop' <=> FromLoop) /\ (FromSwitch' <=> FromSwitch)
  BY <1>1, <1>2 DEF FromLoop, FromSwitch, Killing
<1>4. Now' = Now
  BY <1>1, <1>2, <1>3 DEF Now
<1>5. ~Block[Now].gone /\ Now \in DOMAIN Block
  <2>1. Stage \in Killing
    BY <1>1, <1>2 DEF Killing
  <2> QED BY <2>1 DEF FateInv, Kinds, BaseInv, Place, Now, FromLoop, FromSwitch, Killers
<1>6. \A c \in DOMAIN NPC : /\ Before => Before'
                            /\ OnDone(c) => OnDone(c)'
                            /\ OffDone(c) => OffDone(c)'
  BY <1>1, <1>2, <1>3 DEF Before, OnDone, OffDone
<1>7. (Giving' => Giving) /\ (Over' => Over) /\ Stage' # "back"
  BY <1>1, <1>2, <1>3 DEF Giving, Over
<1>8. FromSwitch => At \in DOMAIN Block
  BY DEF BaseInv, Place
<1> QED BY <1>1, <1>2, <1>3, <1>4, <1>5, <1>6, <1>7, <1>8, FateSteady, SteadyNot, SteadyNPCNot DEF Killing

LEMMA FateWalk ==
  ASSUME BaseInv, FateInv, \/ UpdateNPCs \/ UpdateBlocks \/ NoSwitch \/ SwitchOn \/ CoinsToTurn
                           \/ AllTurned \/ Tick \/ BackToTurn
  PROVE  FateInv'
<1>1. /\ \/ pc = "idle" /\ pc' = "npcs" /\ A' = A /\ PSwitchTime' = PSwitchTime
         \/ pc = "npcs" /\ pc' = "queue" /\ PSwitchTime' = PSwitchTime /\ \A c \in DOMAIN NPC : ~NPC[c].Killed
         \/ pc = "time" /\ pc' \in {"idle", "tick"} /\ PSwitchTime' = PSwitchTime
         \/ pc = "time" /\ pc' = "blocks" /\ PSwitchTime = SwitchTime /\ PSwitchTime' = PSwitchTime
         \/ pc = "blocks" /\ pc' = "coins" /\ PSwitchTime' = PSwitchTime
         \/ pc = "coins" /\ pc' = "start" /\ PSwitchTime' = PSwitchTime
         \/ pc = "tick" /\ PSwitchTime' = PSwitchTime - 1 /\ PSwitchTime' <= 1 /\ pc' = "back" /\ A' = 1
         \/ pc = "tick" /\ PSwitchTime' = PSwitchTime - 1 /\ ~(PSwitchTime' <= 1) /\ pc' = "idle"
         \/ /\ pc = "back" /\ pc' = "off" /\ PSwitchTime' = PSwitchTime /\ A > Len(NPC)
            /\ A' = Len(Block)
      /\ Block' = Block /\ NPC' = NPC /\ caller' = caller /\ lost' = lost /\ kept' = kept
  BY DEF UpdateNPCs, UpdateBlocks, NoSwitch, SwitchOn, CoinsToTurn, AllTurned, Tick, BackToTurn,
         LastNPC, InSwitch, Proceed, locals, fates, numBlock
<1>2. /\ Stage = pc /\ At = A /\ By = caller /\ Stage' = pc' /\ At' = A' /\ By' = caller'
      /\ TypeOK /\ PSwitchTime \in Nat
  BY <1>1, Here, HereNext, HerePlace DEF TypeOK
<1>3. Stage \notin Killing /\ Stage' \notin Killing /\ ~FromSwitch /\ ~FromSwitch'
  BY <1>1, <1>2 DEF FromSwitch, Killing
<1>4. /\ SwitchTime \in Nat \ {0, 1, 2} /\ PSwitchTime \in Nat
      /\ Stage \in {"blocks", "coins"} => PSwitchTime = SwitchTime
  BY <1>2, SizesAssumption DEF BaseInv, Place
<1>5. ASSUME NEW c \in DOMAIN NPC, NPC[c].Killed
      PROVE  /\ Before => Before'
             /\ OnDone(c) => OnDone(c)' \/ Before'
             /\ OffDone(c) => OffDone(c)' \/ Before'
  <2>1. Before => Before'
    BY <1>1, <1>2, <1>5 DEF Before
  <2>2. OnDone(c) => OnDone(c)' \/ Before'
    BY <1>1, <1>2, <1>4 DEF OnDone, Before
  <2>3. OffDone(c) => OffDone(c)' \/ Before'
    BY <1>1, <1>2, <1>3 DEF OffDone, Before
  <2> QED BY <2>1, <2>2, <2>3
<1>6. Stage' = "back" => At' = 1
  BY <1>1, <1>2
<1>7. Giving' => Stage = "back" /\ At > Len(NPC) /\ At' = Len(Block)
  BY <1>1, <1>2, <1>3 DEF Giving
<1>8. Over' => Over
  BY <1>1, <1>2, <1>3, <1>4 DEF Over
<1>9. Steady /\ SteadyNPC
  BY <1>1, <1>2, SteadyNot, SteadyNPCNot
<1> QED BY <1>1, <1>3, <1>5, <1>6, <1>7, <1>8, <1>9, FateSteady

\* A coin is taken: no block has its name.
LEMMA FateCollected ==
  ASSUME BaseInv, FateInv, NEW c \in DOMAIN NPC, ~NPC[c].Killed, Collected(c), Block' = Block,
         PSwitchTime' = PSwitchTime,
         (Stage = "idle" /\ Stage' = "idle") \/ (Stage = "struck" /\ Stage' = "smash")
  PROVE  FateInv'
<1> DEFINE t == NPC[c].thing
<1>1. /\ DOMAIN NPC' = DOMAIN NPC
      /\ \A d \in DOMAIN NPC : /\ NPC'[d].thing = NPC[d].thing /\ NPC'[d].wasBlock = NPC[d].wasBlock
                               /\ NPC'[d].Killed = (d = c \/ NPC[d].Killed)
      /\ lost' = lost \cup {t} /\ kept' = kept
  BY CollectedDoes DEF BaseInv
<1>2. /\ ~FromSwitch /\ ~FromSwitch' /\ Stage' \notin Killing /\ ~Giving /\ ~Giving' /\ Stage' # "back"
      /\ Before => Before'
  BY DEF FromSwitch, Killing, Giving, Before
<1>3. \A i \in DOMAIN Block : Block[i].thing = t => Block[i].gone
  BY <1>2 DEF FateInv, Apart
<1>4. \A d \in DOMAIN NPC : NPC[d].thing = t => d = c
  BY DEF FateInv, Unique
<1> HIDE DEF t
<1>5. Kinds'
  BY <1>1, <1>2 DEF FateInv, Kinds, Killing
<1>6. Unique'
  BY <1>1 DEF FateInv, Unique
<1>7. Apart'
  <2> SUFFICES ASSUME NEW i \in DOMAIN Block, NEW d \in DOMAIN NPC,
                      ~Block[i].gone, Block[i].thing = NPC[d].thing
               PROVE  NPC'[d].Killed /\ Turned(i, d)'
    BY <1>1 DEF Apart
  <2>1. NPC[d].Killed /\ Turned(i, d)
    BY <1>2 DEF FateInv, Apart
  <2>2. Before
    BY <1>2, <2>1 DEF Turned, OnDone, OffDone, Before
  <2> QED BY <1>1, <1>2, <2>1, <2>2 DEF Turned
<1>8. Lost'
  <2>1. ASSUME NEW u \in Things
        PROVE  u \in lost' <=> ~There(u)'
    <3>1. CASE u = t
      BY <1>1, <1>3, <1>4, <3>1 DEF There
    <3>2. CASE u # t
      <4>1. There(u)' <=> There(u)
        BY <1>1, <3>2 DEF There, t
      <4> QED BY <1>1, <3>2, <4>1 DEF FateInv, Lost
    <3> QED BY <3>1, <3>2
  <2> QED BY <1>2, <2>1 DEF Lost
<1>9. Returned'
  <2>1. Over' => Over
    BY <1>2 DEF Over
  <2>2. AllCoinsBack => AllCoinsBack'
    BY <1>1 DEF AllCoinsBack
  <2>3. BlocksBack(0) => BlocksBack(0)'
    BY <1>1 DEF BlocksBack
  <2> QED BY <1>2, <2>1, <2>2, <2>3 DEF FateInv, Returned
<1> QED BY <1>5, <1>6, <1>7, <1>8, <1>9 DEF FateInv

LEMMA FateCollect ==
  ASSUME BaseInv, FateInv, Collect
  PROVE  FateInv'
<1>1. PICK c \in DOMAIN NPC : ~NPC[c].Killed /\ Collected(c)
  BY DEF Collect
<1>2. pc = "idle" /\ pc' = "idle" /\ PSwitchTime' = PSwitchTime /\ Block' = Block
  BY DEF Collect, Outside
<1>3. Stage = "idle" /\ Stage' = "idle"
  BY <1>2, Here, HereNext
<1> QED BY <1>1, <1>2, <1>3, FateCollected

LEMMA FateStruck ==
  ASSUME BaseInv, BaseInv', FateInv, Struck
  PROVE  FateInv'
<1>1. /\ pc = "struck" /\ pc' = "smash" /\ PSwitchTime' = PSwitchTime /\ Steady
      /\ \/ NPC' = NPC /\ lost' = lost /\ kept' = kept
         \/ Block' = Block /\ \E c \in DOMAIN NPC : ~NPC[c].Killed /\ Collected(c)
  BY StruckDoes DEF Struck, InLoop, Proceed
<1>2. Stage = "struck" /\ Stage' = "smash" /\ Plain /\ Plain'
  BY <1>1, Here, HereNext DEF Plain
<1>3. CASE NPC' = NPC /\ lost' = lost /\ kept' = kept
  BY <1>1, <1>2, <1>3, FatePlain, SteadyNPCNot DEF BaseInv, Killing
<1>4. CASE Block' = Block /\ \E c \in DOMAIN NPC : ~NPC[c].Killed /\ Collected(c)
  BY <1>1, <1>2, <1>4, FateCollected
<1> QED BY <1>1, <1>3, <1>4

\* A coin that is killed is taken out, the last one put in its place.
LEMMA FateRemoveNPC ==
  ASSUME BaseInv, FateInv, RemoveNPC
  PROVE  FateInv'
<1>1. PICK c \in DOMAIN NPC : NPC[c].Killed /\ NPC' = Without(NPC, c)
  BY DEF RemoveNPC, Without
<1>2. /\ pc = "npcs" /\ pc' = "npcs" /\ A' = A /\ caller' = caller /\ PSwitchTime' = PSwitchTime
      /\ Block' = Block /\ lost' = lost /\ kept' = kept
  BY DEF RemoveNPC, locals, fates
<1>3. Stage = "npcs" /\ Stage' = "npcs"
  BY <1>2, Here, HereNext
<1>4. ~FromSwitch /\ ~FromSwitch' /\ Stage' \notin Killing /\ ~Giving' /\ Before' /\ (Over' => Over)
  BY <1>2, <1>3 DEF FromSwitch, Killing, Giving, Before, Over
<1> DEFINE n == Len(NPC)
           f(d) == IF d = c THEN n ELSE d
<1>5. /\ n \in Nat /\ DOMAIN NPC = 1..n /\ DOMAIN NPC' = 1..(n - 1)
      /\ \A d \in 1..(n - 1) : NPC'[d] = IF d = c THEN NPC[n] ELSE NPC[d]
  <2>1. NPC \in Seq(NPC_t)
    BY DEF BaseInv, TypeOK
  <2> QED BY <1>1, <2>1, WithoutIs
<1>6. \A d \in DOMAIN NPC' : f(d) \in DOMAIN NPC /\ f(d) # c /\ NPC'[d] = NPC[f(d)]
  BY <1>5
<1>7. \A d, e \in DOMAIN NPC' : f(d) = f(e) => d = e
  BY <1>5
<1>8. \A e \in DOMAIN NPC : e # c => \E d \in DOMAIN NPC' : f(d) = e
  <2> SUFFICES ASSUME NEW e \in 1..n, e # c
               PROVE  \E d \in 1..(n - 1) : f(d) = e
    BY <1>5
  <2>1. CASE e = n
    <3>1. c \in 1..(n - 1) /\ f(c) = e
      BY <1>5, <2>1
    <3> QED BY <3>1
  <2>2. CASE e # n
    <3>1. n \in Nat /\ e \in 1..n /\ e # n
      BY <1>5, <2>2
    <3>2. e \in 1..(n - 1)
      <4> HIDE DEF n
      <4> QED BY <3>1
    <3> QED BY <3>2
  <2> QED BY <2>1, <2>2
<1> HIDE DEF f, n
<1>9. Kinds'
  BY <1>2, <1>4, <1>6 DEF FateInv, Kinds, Killing
<1>10. Unique'
  <2>1. \A d, e \in DOMAIN NPC' : NPC'[d].thing = NPC'[e].thing => d = e
    BY <1>6, <1>7 DEF FateInv, Unique
  <2> QED BY <1>2, <2>1 DEF FateInv, Unique
<1>11. Apart'
  <2> SUFFICES ASSUME NEW i \in DOMAIN Block, NEW d \in DOMAIN NPC',
                      ~Block[i].gone, Block[i].thing = NPC'[d].thing
               PROVE  NPC'[d].Killed /\ Turned(i, d)'
    BY <1>2 DEF Apart
  <2>1. NPC'[d].Killed
    BY <1>4, <1>6 DEF FateInv, Apart
  <2> QED BY <1>4, <2>1 DEF Turned
<1>12. Lost'
  <2>1. ASSUME NEW t \in Things
        PROVE  There(t)' <=> There(t)
    <3>1. (\E d \in DOMAIN NPC' : NPC'[d].thing = t /\ ~NPC'[d].Killed)
            <=> (\E e \in DOMAIN NPC : NPC[e].thing = t /\ ~NPC[e].Killed)
      BY <1>1, <1>6, <1>8
    <3> QED BY <1>2, <3>1 DEF There
  <2> QED BY <1>2, <1>4, <2>1 DEF FateInv, Lost
<1>13. Returned'
  <2>1. AllCoinsBack => AllCoinsBack'
    BY <1>6 DEF AllCoinsBack
  <2>2. BlocksBack(0) => BlocksBack(0)'
    BY <1>2 DEF BlocksBack
  <2> QED BY <1>3, <1>4, <2>1, <2>2 DEF FateInv, Returned
<1> QED BY <1>9, <1>10, <1>11, <1>12, <1>13 DEF FateInv

\* A block is destroyed and lost, or killed for the coin that is there already.
LEMMA FateDie ==
  ASSUME BaseInv, FateInv, Die
  PROVE  FateInv'
<1> DEFINE v == Victim
           t == Block[v].thing
<1>1. /\ pc = "die" /\ v \in DOMAIN Block /\ Now = v /\ DOMAIN Block' = DOMAIN Block
      /\ Block'[v].thing = t /\ Block'[v].wasCoin = Block[v].wasCoin
      /\ Block'[v].gone /\ Block'[v].Hidden
      /\ \A j \in DOMAIN Block : j # v => Block'[j] = Block[j]
      /\ \/ /\ caller = "UpdateBlocks_KillBlock" /\ pc' = "queue" /\ lost' = lost \cup {t}
         \/ /\ caller = "UpdateBlocks_SwitchOff_KillBlock" /\ v = A
            /\ pc' = "off" /\ A' = A - 1 /\ lost' = lost
      /\ caller' = "none" /\ PSwitchTime' = PSwitchTime /\ NPC' = NPC /\ kept' = kept
  BY DieDoes
<1>2. Stage = "die" /\ At = A /\ By = caller /\ Stage' = pc' /\ At' = A' /\ By' = "none"
  BY <1>1, Here, HereNext
<1>3. Stage \in Killing /\ Stage' \notin Killing /\ ~FromSwitch' /\ ~Before
  BY <1>1, <1>2 DEF Killing, FromSwitch, Before
<1>4. ~Block[v].gone
  BY <1>1, <1>3 DEF FateInv, Kinds
<1>5. t \in Things /\ A \in Nat /\ DOMAIN Block = 1..Len(Block) /\ Len(Block) \in Nat
  BY <1>1, HerePlace, BlockIs DEF BaseInv, Block_t
<1> HIDE DEF v
<1>6. \A j \in DOMAIN Block : /\ Block'[j].thing = Block[j].thing /\ Block'[j].wasCoin = Block[j].wasCoin
                              /\ Block'[j].gone = (j = v \/ Block[j].gone)
                              /\ j = v \/ Block'[j].Hidden = Block[j].Hidden
  <2>1. \A j \in DOMAIN Block : Block[j].gone \in BOOLEAN
    BY BlockIs DEF BaseInv, Block_t
  <2>2. Block'[v].gone = TRUE
    <3>1. Block'[v].gone \in BOOLEAN
      BY <1>1, DieDoes DEF Block_t
    <3> QED BY <1>1, <3>1
  <2> QED BY <1>1, <2>1, <2>2
<1> HIDE DEF t
<1>7. Kinds'
  BY <1>1, <1>3, <1>6 DEF FateInv, Kinds, Killing
<1>8. Unique'
  BY <1>1, <1>6 DEF FateInv, Unique
<1>9. \A j \in DOMAIN Block : Block[j].thing = t /\ ~Block[j].gone => j = v
  BY <1>1, <1>4 DEF FateInv, Unique, t
<1>10. CASE caller = "UpdateBlocks_KillBlock" /\ pc' = "queue" /\ lost' = lost \cup {t}
  <2>1. ~FromSwitch
    BY <1>2, <1>10 DEF FromSwitch
  <2>2. \A i \in DOMAIN Block, c \in DOMAIN NPC : ~Block[i].gone => Block[i].thing # NPC[c].thing
    BY <1>2, <1>3, <2>1 DEF FateInv, Apart, Turned, OnDone, OffDone
  <2>3. Apart'
    BY <1>1, <1>6, <2>2 DEF Apart
  <2>4. Lost'
    <3>1. ASSUME NEW u \in Things
          PROVE  u \in lost' <=> ~There(u)'
      <4>1. CASE u = t
        <5>1. \A c \in DOMAIN NPC : NPC[c].thing # t
          BY <1>1, <1>4, <2>2 DEF t
        <5> QED BY <1>1, <1>6, <1>9, <1>10, <4>1, <5>1 DEF There
      <4>2. CASE u # t
        <5>1. There(u)' <=> There(u)
          BY <1>1, <1>6, <4>2 DEF There, t
        <5> QED BY <1>10, <4>2, <5>1 DEF FateInv, Lost
      <4> QED BY <4>1, <4>2
    <3> QED BY <1>3, <3>1 DEF Lost
  <2>5. Returned'
    <3>1. Over' => Over
      BY <1>1, <1>2, <1>10, <2>1 DEF Over
    <3>2. AllCoinsBack => AllCoinsBack'
      BY <1>1 DEF AllCoinsBack
    <3>3. BlocksBack(0) => BlocksBack(0)'
      BY <1>1, <1>6 DEF BlocksBack
    <3>4. ~Giving' /\ Stage' # "back"
      BY <1>2, <1>3, <1>10 DEF Giving
    <3> QED BY <3>1, <3>2, <3>3, <3>4 DEF FateInv, Returned
  <2> QED BY <1>7, <1>8, <2>3, <2>4, <2>5 DEF FateInv
<1>11. CASE /\ caller = "UpdateBlocks_SwitchOff_KillBlock" /\ v = A
            /\ pc' = "off" /\ A' = A - 1 /\ lost' = lost
  <2>1. FromSwitch
    BY <1>2, <1>3, <1>11 DEF FromSwitch
  <2>2. Apart'
    <3> SUFFICES ASSUME NEW i \in DOMAIN Block, NEW c \in DOMAIN NPC,
                        i # v, ~Block[i].gone, Block[i].thing = NPC[c].thing
                 PROVE  NPC[c].Killed /\ Turned(i, c)'
      BY <1>1, <1>6 DEF Apart
    <3>1. NPC[c].Killed /\ Turned(i, c)
      BY <1>2, <1>11 DEF FateInv, Apart
    <3>2. ~Block[i].wasCoin
      BY <1>2, <1>3, <3>1 DEF Turned, OnDone
    <3>3. OffDone(c)'
      BY <1>2, <1>11 DEF OffDone
    <3> QED BY <1>6, <3>1, <3>2, <3>3 DEF Turned
  <2>3. Lost'
    <3>1. ASSUME NEW u \in Things
          PROVE  There(u)' <=> There(u)
      <4>1. CASE u = t
        <5>1. PICK c \in DOMAIN NPC : NPC[c].thing = t /\ ~NPC[c].Killed
          BY <1>2, <1>11, <2>1 DEF FateInv, Lost, t
        <5> QED BY <1>1, <4>1, <5>1 DEF There
      <4>2. CASE u # t
        BY <1>1, <1>6, <4>2 DEF There, t
      <4> QED BY <4>1, <4>2
    <3> QED BY <1>3, <1>11, <3>1 DEF FateInv, Lost
  <2>4. Returned'
    <3>1. AllCoinsBack' /\ BlocksBack(A)
      BY <1>1, <1>2, <2>1 DEF FateInv, Returned, Giving, AllCoinsBack
    <3>2. BlocksBack(At)'
      <4> SUFFICES ASSUME NEW i \in DOMAIN Block, i > A - 1, Block[i].wasCoin
                   PROVE  Block'[i].gone \/ Block[i].thing \in kept
        BY <1>1, <1>2, <1>6, <1>11 DEF BlocksBack
      <4>1. i = A \/ i > A
        BY <1>5
      <4> QED BY <1>6, <1>11, <3>1, <4>1 DEF BlocksBack
    <3>3. Stage' # "back" /\ ~Over'
      BY <1>2, <1>11 DEF Over
    <3> QED BY <3>1, <3>2, <3>3 DEF Returned
  <2> QED BY <1>7, <1>8, <2>2, <2>3, <2>4 DEF FateInv
<1> QED BY <1>1, <1>10, <1>11

\* The coin the switch has come to: none that is a block has its name.
LEMMA FateNextNPC ==
  ASSUME BaseInv, FateInv, NEW at \in {"blocks", "back"}, NEW chosen \in BOOLEAN,
         NEW coin \in BOOLEAN, NextNPC(at, chosen, coin),
         coin <=> at = "blocks", chosen => (coin <=> ~NPC[A].wasBlock),
         at = "back" => (chosen <=> NPC[A].wasBlock)
  PROVE  FateInv'
<1> DEFINE t == NPC[A].thing
           n == Len(Block)
<1>1. /\ pc = at /\ pc' = at /\ A \in DOMAIN NPC /\ A' = A + 1 /\ DOMAIN NPC' = DOMAIN NPC
      /\ \A d \in DOMAIN NPC : /\ NPC'[d].thing = NPC[d].thing /\ NPC'[d].wasBlock = NPC[d].wasBlock
                               /\ NPC'[d].Killed = ((d = A /\ chosen) \/ NPC[d].Killed)
      /\ PSwitchTime' = PSwitchTime /\ kept' = kept
  BY NextNPCDoes
<1>2. \/ /\ chosen /\ DOMAIN Block' = 1..(n + 1) /\ \A i \in DOMAIN Block : Block'[i] = Block[i]
         /\ Block'[n + 1].thing = t /\ ~Block'[n + 1].gone /\ Block'[n + 1].wasCoin = coin
         /\ lost' = lost \ {t}
      \/ chosen /\ Block' = Block /\ lost' = lost \cup {t}
      \/ ~chosen /\ Block' = Block /\ lost' = lost
  BY NextNPCDoes
<1>3. /\ Stage = at /\ Stage' = at /\ At = A /\ At' = A + 1 /\ A \in Nat
      /\ n \in Nat /\ DOMAIN Block = 1..n /\ DOMAIN NPC \subseteq Nat
      /\ PSwitchTime # 0 \/ at = "back"
  <2>1. A \in Nat /\ n \in Nat /\ DOMAIN Block = 1..n /\ DOMAIN NPC \subseteq Nat
    BY <1>1, HerePlace DEF BaseInv, TypeOK
  <2>2. PSwitchTime # 0 \/ at = "back"
    BY <1>1, HerePlace, SizesAssumption
  <2> QED BY <1>1, <2>1, <2>2, Here, HereNext
<1>4. /\ Stage \notin Killing /\ Stage' \notin Killing /\ ~FromSwitch /\ ~FromSwitch'
      /\ ~Before /\ ~Giving' /\ ~Over'
  BY <1>1, <1>3 DEF Killing, FromSwitch, Before, Giving, Over
<1> HIDE DEF n, t
<1>5. \A i \in DOMAIN Block : Block[i].thing = t => Block[i].gone
  <2> SUFFICES ASSUME NEW i \in DOMAIN Block, Block[i].thing = t, ~Block[i].gone
               PROVE  FALSE
    OBVIOUS
  <2>1. Turned(i, A)
    BY <1>1, <1>4 DEF FateInv, Apart, t
  <2>2. ~OnDone(A) /\ ~OffDone(A)
    BY <1>3, <1>4 DEF OnDone, OffDone
  <2> QED BY <1>4, <2>1, <2>2 DEF Turned
<1>6. \A d \in DOMAIN NPC : NPC[d].thing = t => d = A
  BY <1>1 DEF FateInv, Unique, t
<1>7. \A i \in DOMAIN Block, d \in DOMAIN NPC :
        ~Block[i].gone /\ Block[i].thing = NPC[d].thing => NPC'[d].Killed /\ Turned(i, d)
  BY <1>1, <1>4 DEF FateInv, Apart
<1>8. \A d \in DOMAIN NPC : (OnDone(d) => OnDone(d)') /\ (OffDone(d) => OffDone(d)')
  <2> SUFFICES ASSUME NEW d \in DOMAIN NPC
               PROVE  (OnDone(d) => OnDone(d)') /\ (OffDone(d) => OffDone(d)')
    OBVIOUS
  <2>1. d \in Nat /\ (d < A => d < A + 1)
    BY <1>3
  <2> QED BY <1>1, <1>3, <1>4, <2>1 DEF OnDone, OffDone
<1>9. Returned'
  <2> SUFFICES ASSUME at = "back"
               PROVE  CoinsBack(At)'
    BY <1>3, <1>4 DEF Returned
  <2> SUFFICES ASSUME NEW d \in DOMAIN NPC, d < A + 1, NPC[d].wasBlock
               PROVE  NPC'[d].Killed
    BY <1>1, <1>3 DEF CoinsBack
  <2>1. d < A \/ d = A
    BY <1>3
  <2> QED BY <1>1, <1>3, <2>1 DEF FateInv, Returned, CoinsBack
<1>10. CASE Block' = Block
  <2>1. Kinds'
    BY <1>1, <1>4, <1>10 DEF FateInv, Kinds, Killing
  <2>2. Unique'
    BY <1>1, <1>10 DEF FateInv, Unique
  <2>3. Apart'
    BY <1>1, <1>4, <1>7, <1>8, <1>10 DEF Apart, Turned
  <2>4. Lost'
    <3>1. ASSUME NEW u \in Things
          PROVE  u \in lost' <=> ~There(u)'
      <4>1. CASE chosen /\ u = t
        <5>1. n + 1 \in 1..(n + 1) /\ n + 1 \notin 1..n
          BY <1>3
        <5>2. DOMAIN Block' # 1..(n + 1)
          BY <1>3, <1>10, <5>1
        <5>3. u \in lost'
          BY <1>2, <4>1, <5>2
        <5>4. \A c \in DOMAIN NPC : NPC[c].thing = u => NPC'[c].Killed
          BY <1>1, <1>6, <4>1
        <5>5. ~There(u)'
          BY <1>1, <1>5, <1>10, <4>1, <5>4 DEF There
        <5> QED BY <5>3, <5>5
      <4>2. CASE ~(chosen /\ u = t)
        <5>1. There(u)' <=> There(u)
          BY <1>1, <1>10, <4>2 DEF There, t
        <5>2. u \in lost' <=> u \in lost
          BY <1>2, <1>3, <1>10, <4>2
        <5> QED BY <5>1, <5>2 DEF FateInv, Lost
      <4> QED BY <4>1, <4>2
    <3> QED BY <1>4, <3>1 DEF Lost
  <2> QED BY <1>9, <2>1, <2>2, <2>3, <2>4 DEF FateInv
<1>11. CASE /\ chosen /\ DOMAIN Block' = 1..(n + 1) /\ \A i \in DOMAIN Block : Block'[i] = Block[i]
            /\ Block'[n + 1].thing = t /\ ~Block'[n + 1].gone /\ Block'[n + 1].wasCoin = coin
            /\ lost' = lost \ {t}
  <2>0. /\ n + 1 \in DOMAIN Block' /\ n + 1 \notin DOMAIN Block /\ DOMAIN Block \subseteq DOMAIN Block'
        /\ \A i \in DOMAIN Block' : i \in DOMAIN Block \/ i = n + 1
    BY <1>3, <1>11
  <2>1. Kinds'
    <3>1. Block'[n + 1].wasCoin <=> Block'[n + 1].thing \in Coins
      BY <1>1, <1>11 DEF FateInv, Kinds, t
    <3>2. \A i \in DOMAIN Block' : /\ Block'[i].wasCoin <=> Block'[i].thing \in Coins
                                   /\ Block'[i].gone => Block'[i].Hidden
      BY <1>11, <2>0, <3>1 DEF FateInv, Kinds
    <3>3. \A c \in DOMAIN NPC' : NPC'[c].wasBlock <=> NPC'[c].thing \notin Coins
      BY <1>1 DEF FateInv, Kinds
    <3> QED BY <1>4, <3>2, <3>3 DEF Kinds, Killing
  <2>2. Unique'
    <3>1. ASSUME NEW i \in DOMAIN Block', NEW j \in DOMAIN Block',
                 Block'[i].thing = Block'[j].thing, ~Block'[i].gone, ~Block'[j].gone
          PROVE  i = j
      <4>1. CASE i \in DOMAIN Block /\ j \in DOMAIN Block
        BY <1>11, <3>1, <4>1 DEF FateInv, Unique
      <4>2. CASE i = n + 1 \/ j = n + 1
        BY <1>5, <1>11, <2>0, <3>1, <4>2
      <4> QED BY <2>0, <4>1, <4>2
    <3>2. \A c, d \in DOMAIN NPC' : NPC'[c].thing = NPC'[d].thing => c = d
      BY <1>1 DEF FateInv, Unique
    <3> QED BY <3>1, <3>2 DEF Unique
  <2>3. Apart'
    <3> SUFFICES ASSUME NEW i \in DOMAIN Block', NEW d \in DOMAIN NPC,
                        ~Block'[i].gone, Block'[i].thing = NPC[d].thing
                 PROVE  NPC'[d].Killed /\ Turned(i, d)'
      BY <1>1 DEF Apart
    <3>1. CASE i \in DOMAIN Block
      <4>1. ~Block[i].gone /\ Block[i].thing = NPC[d].thing
        BY <1>11, <3>1
      <4> QED BY <1>4, <1>7, <1>8, <1>11, <3>1, <4>1 DEF Turned
    <3>2. CASE i = n + 1
      <4>1. d = A /\ NPC'[d].Killed
        BY <1>1, <1>6, <1>11, <3>2
      <4>2. d < At'
        BY <1>3, <4>1
      <4>3. at = "blocks" => OnDone(d)'
        BY <1>3, <4>2 DEF OnDone
      <4>4. at = "back" => OffDone(d)'
        BY <1>3, <4>2 DEF OffDone
      <4> QED BY <1>11, <3>2, <4>1, <4>3, <4>4 DEF Turned
    <3> QED BY <2>0, <3>1, <3>2
  <2>4. Lost'
    <3>1. ASSUME NEW u \in Things
          PROVE  u \in lost' <=> ~There(u)'
      <4>1. CASE u = t
        BY <1>11, <2>0, <4>1 DEF There
      <4>2. CASE u # t
        <5>1. (\E i \in DOMAIN Block' : Block'[i].thing = u /\ ~Block'[i].gone)
                <=> (\E i \in DOMAIN Block : Block[i].thing = u /\ ~Block[i].gone)
          BY <1>11, <2>0, <4>2
        <5>2. (\E c \in DOMAIN NPC' : NPC'[c].thing = u /\ ~NPC'[c].Killed)
                <=> (\E c \in DOMAIN NPC : NPC[c].thing = u /\ ~NPC[c].Killed)
          BY <1>1, <4>2 DEF t
        <5>3. There(u)' <=> There(u)
          BY <5>1, <5>2 DEF There
        <5> QED BY <1>11, <4>2, <5>3 DEF FateInv, Lost
      <4> QED BY <4>1, <4>2
    <3> QED BY <1>4, <3>1 DEF Lost
  <2> QED BY <1>9, <2>1, <2>2, <2>3, <2>4 DEF FateInv
<1> QED BY <1>2, <1>10, <1>11

LEMMA FateToBlock ==
  ASSUME BaseInv, FateInv, ToBlock \/ BackToBlock
  PROVE  FateInv'
<1>1. TypeOK /\ A \in DOMAIN NPC
  BY DEF BaseInv, ToBlock, BackToBlock, NextNPC
<1>2. CASE ToBlock
  <2>1. NextNPC("blocks", IsCoin(NPC[A]), TRUE)
    BY <1>2 DEF ToBlock
  <2>2. IsCoin(NPC[A]) \in BOOLEAN /\ (IsCoin(NPC[A]) => ~NPC[A].wasBlock)
    BY <1>1, IsCoinIs DEF IsCoin
  <2> QED BY <2>1, <2>2, FateNextNPC
<1>3. CASE BackToBlock
  <2>1. NextNPC("back", IsSwitched(NPC[A]), FALSE)
    BY <1>3 DEF BackToBlock
  <2>2. IsSwitched(NPC[A]) \in BOOLEAN /\ (IsSwitched(NPC[A]) <=> NPC[A].wasBlock)
    BY <1>1, IsCoinIs DEF IsSwitched
  <2> QED BY <2>1, <2>2, FateNextNPC
<1> QED BY <1>2, <1>3

\* A block becomes a coin, the last block put in its place.
LEMMA FateToCoin ==
  ASSUME BaseInv, FateInv, ToCoin
  PROVE  FateInv'
<1> DEFINE n == Len(Block)
           m == Len(NPC)
           t == Block[A].thing
           f(j) == IF j = A THEN n ELSE j
<1>1. /\ pc = "coins" /\ pc' = "coins" /\ A \in DOMAIN Block /\ caller' = caller
      /\ PSwitchTime' = PSwitchTime /\ lost' = lost /\ kept' = kept
      /\ \/ UNCHANGED <<Block, NPC, iBlock>>
         \/ /\ IsTurned(Block[A]) /\ DOMAIN Block' = 1..(n - 1)
            /\ \A j \in 1..(n - 1) : Block'[j] = IF j = A THEN Block[n] ELSE Block[j]
            /\ DOMAIN NPC' = 1..(m + 1) /\ \A c \in DOMAIN NPC : NPC'[c] = NPC[c]
            /\ NPC'[m + 1].thing = t /\ ~NPC'[m + 1].Killed /\ NPC'[m + 1].wasBlock = TRUE
  BY ToCoinDoes
<1>2. /\ Stage = "coins" /\ Stage' = "coins" /\ TypeOK /\ PSwitchTime # 0
      /\ n \in Nat /\ DOMAIN Block = 1..n /\ m \in Nat /\ DOMAIN NPC = 1..m
  <2>1. PSwitchTime # 0 /\ n \in Nat /\ DOMAIN Block = 1..n /\ TypeOK
    BY <1>1, HerePlace, SizesAssumption
  <2>2. m \in Nat /\ DOMAIN NPC = 1..m
    BY <2>1 DEF TypeOK
  <2> QED BY <1>1, <2>1, <2>2, Here, HereNext
<1>3. /\ Stage' \notin Killing /\ ~FromSwitch /\ ~FromSwitch' /\ ~Before /\ ~Giving' /\ ~Over'
      /\ Stage' # "back" /\ \A c \in DOMAIN NPC : ~OffDone(c) /\ OnDone(c)'
  BY <1>1, <1>2 DEF Killing, FromSwitch, Before, Giving, Over, OnDone, OffDone
<1>4. Returned'
  BY <1>3 DEF Returned
<1>5. CASE UNCHANGED <<Block, NPC, iBlock>>
  <2>1. Kinds' /\ Unique'
    BY <1>3, <1>5 DEF FateInv, Kinds, Unique, Killing
  <2>2. Apart'
    BY <1>3, <1>5 DEF FateInv, Apart, Turned
  <2>3. Lost'
    BY <1>1, <1>3, <1>5 DEF FateInv, Lost, There
  <2> QED BY <1>4, <2>1, <2>2, <2>3 DEF FateInv
<1>6. CASE /\ IsTurned(Block[A]) /\ DOMAIN Block' = 1..(n - 1)
           /\ \A j \in 1..(n - 1) : Block'[j] = IF j = A THEN Block[n] ELSE Block[j]
           /\ DOMAIN NPC' = 1..(m + 1) /\ \A c \in DOMAIN NPC : NPC'[c] = NPC[c]
           /\ NPC'[m + 1].thing = t /\ ~NPC'[m + 1].Killed /\ NPC'[m + 1].wasBlock = TRUE
  <2>1. ~Block[A].gone /\ ~Block[A].wasCoin /\ t \notin Coins /\ t \in Things
    <3>1. ~Block[A].wasCoin /\ ~Block[A].Hidden
      BY <1>6 DEF IsTurned
    <3>2. t \in Things
      BY <1>1, <1>2, BlockIs DEF Block_t
    <3> QED BY <1>1, <3>1, <3>2 DEF FateInv, Kinds
  <2>2. /\ \A j \in DOMAIN Block' : f(j) \in DOMAIN Block /\ f(j) # A /\ Block'[j] = Block[f(j)]
        /\ \A j, k \in DOMAIN Block' : f(j) = f(k) => j = k
    BY <1>1, <1>2, <1>6
  <2>3. \A i \in DOMAIN Block : i # A => \E j \in DOMAIN Block' : f(j) = i
    <3> SUFFICES ASSUME NEW i \in 1..n, i # A
                 PROVE  \E j \in 1..(n - 1) : f(j) = i
      BY <1>2, <1>6
    <3>1. n \in Nat /\ A \in 1..n
      BY <1>1, <1>2
    <3>2. CASE i = n
      <4>1. A \in 1..(n - 1) /\ f(A) = i
        <5> HIDE DEF n
        <5> QED BY <3>1, <3>2
      <4> QED BY <4>1
    <3>3. CASE i # n
      <4>1. i \in 1..(n - 1) /\ f(i) = i
        <5> HIDE DEF n
        <5> QED BY <3>1, <3>3
      <4> QED BY <4>1
    <3> QED BY <3>2, <3>3
  <2> HIDE DEF f, n
  <2>4. \A j \in DOMAIN Block : Block[j].thing = t /\ ~Block[j].gone => j = A
    BY <1>1, <2>1 DEF FateInv, Unique, t
  <2>5. \A c \in DOMAIN NPC : NPC[c].thing # t
    BY <1>1, <1>3, <2>1 DEF FateInv, Apart, Turned, t
  <2> HIDE DEF m, t
  <2>6. /\ m + 1 \in DOMAIN NPC' /\ m + 1 \notin DOMAIN NPC /\ DOMAIN NPC \subseteq DOMAIN NPC'
        /\ \A c \in DOMAIN NPC' : c \in DOMAIN NPC \/ c = m + 1
    BY <1>2, <1>6
  <2>7. Kinds'
    <3>1. \A j \in DOMAIN Block' : /\ Block'[j].wasCoin <=> Block'[j].thing \in Coins
                                   /\ Block'[j].gone => Block'[j].Hidden
      BY <2>2 DEF FateInv, Kinds
    <3>2. \A c \in DOMAIN NPC' : NPC'[c].wasBlock <=> NPC'[c].thing \notin Coins
      BY <1>6, <2>1, <2>6 DEF FateInv, Kinds
    <3> QED BY <1>3, <3>1, <3>2 DEF Kinds, Killing
  <2>8. Unique'
    <3>1. \A j, k \in DOMAIN Block' :
            Block'[j].thing = Block'[k].thing /\ ~Block'[j].gone /\ ~Block'[k].gone => j = k
      BY <2>2 DEF FateInv, Unique
    <3>2. ASSUME NEW c \in DOMAIN NPC', NEW d \in DOMAIN NPC', NPC'[c].thing = NPC'[d].thing
          PROVE  c = d
      <4>1. CASE c \in DOMAIN NPC /\ d \in DOMAIN NPC
        BY <1>6, <3>2, <4>1 DEF FateInv, Unique
      <4>2. CASE c = m + 1 \/ d = m + 1
        BY <1>6, <2>5, <2>6, <3>2, <4>2
      <4> QED BY <2>6, <4>1, <4>2
    <3> QED BY <3>1, <3>2 DEF Unique
  <2>9. Apart'
    <3> SUFFICES ASSUME NEW j \in DOMAIN Block', NEW c \in DOMAIN NPC',
                        ~Block'[j].gone, Block'[j].thing = NPC'[c].thing
                 PROVE  NPC'[c].Killed /\ Turned(j, c)'
      BY DEF Apart
    <3>1. c \in DOMAIN NPC
      BY <1>6, <2>2, <2>4, <2>6
    <3>2. NPC[c].Killed /\ Turned(f(j), c)
      BY <1>3, <1>6, <2>2, <3>1 DEF FateInv, Apart
    <3>3. Block'[j].wasCoin /\ OnDone(c)'
      BY <1>3, <2>2, <3>1, <3>2 DEF Turned
    <3> QED BY <1>6, <3>1, <3>2, <3>3 DEF Turned
  <2>10. Lost'
    <3>1. ASSUME NEW u \in Things
          PROVE  There(u)' <=> There(u)
      <4>1. CASE u = t
        <5>1. There(u)
          BY <1>1, <2>1, <4>1 DEF There, t
        <5>2. There(u)'
          BY <1>6, <2>6, <4>1 DEF There
        <5> QED BY <5>1, <5>2
      <4>2. CASE u # t
        <5>1. (\E j \in DOMAIN Block' : Block'[j].thing = u /\ ~Block'[j].gone)
                <=> (\E i \in DOMAIN Block : Block[i].thing = u /\ ~Block[i].gone)
          <6>1. \A i \in DOMAIN Block : Block[i].thing = u => i # A
            BY <4>2 DEF t
          <6> QED BY <2>2, <2>3, <6>1
        <5>2. (\E c \in DOMAIN NPC' : NPC'[c].thing = u /\ ~NPC'[c].Killed)
                <=> (\E c \in DOMAIN NPC : NPC[c].thing = u /\ ~NPC[c].Killed)
          BY <1>6, <2>6, <4>2
        <5> QED BY <5>1, <5>2 DEF There
      <4> QED BY <4>1, <4>2
    <3> QED BY <1>1, <1>3, <3>1 DEF FateInv, Lost
  <2> QED BY <1>4, <2>7, <2>8, <2>9, <2>10 DEF FateInv
<1> QED BY <1>1, <1>5, <1>6

\* The order of the blocks says nothing about them.
LEMMA FateSorted ==
  ASSUME BaseInv, FateInv, Started \/ Ended
  PROVE  FateInv'
<1>1. /\ (pc = "started" /\ pc' = "tick") \/ (pc = "ended" /\ pc' = "idle")
      /\ Sorted
      /\ NPC' = NPC /\ PSwitchTime' = PSwitchTime /\ lost' = lost /\ kept' = kept
  BY DEF Started, Ended, InSwitch, Proceed, locals, fates
<1>2. /\ Stage = pc /\ Stage' = pc' /\ TypeOK /\ DOMAIN Block \subseteq Nat \ {0}
      /\ pc = "started" => PSwitchTime = SwitchTime /\ PSwitchTime # 0
  <2>1. DOMAIN Block \subseteq Nat \ {0}
    BY DEF BaseInv, TypeOK
  <2> QED BY <1>1, <2>1, Here, HereNext, HerePlace, SizesAssumption
<1>3. /\ Stage' \notin Killing /\ ~FromSwitch /\ ~FromSwitch' /\ ~Before /\ ~Giving'
      /\ Stage' # "back"
  BY <1>1, <1>2 DEF Killing, FromSwitch, Before, Giving
<1>4. \/ Before'
      \/ \A c \in DOMAIN NPC : OnDone(c)' /\ ~OffDone(c)
  BY <1>1, <1>2, <1>3 DEF Before, OnDone, OffDone
<1>5. Over' => Over
  BY <1>1, <1>2, <1>3 DEF Over
<1>6. DOMAIN Block' = DOMAIN Block
  BY <1>1, <1>2, SortedDoes
<1>7. PICK order \in [DOMAIN Block -> DOMAIN Block] :
        /\ \A k \in DOMAIN Block : Block'[k] = Block[order[k]]
        /\ \A j, k \in DOMAIN Block : order[j] = order[k] => j = k
        /\ \A i \in DOMAIN Block : \E k \in DOMAIN Block : order[k] = i
  BY <1>1, <1>2, SortedDoes
<1>8. \A k \in DOMAIN Block : order[k] \in DOMAIN Block /\ order[k] > 0
  <2> SUFFICES ASSUME NEW k \in DOMAIN Block
               PROVE  order[k] \in DOMAIN Block /\ order[k] > 0
    OBVIOUS
  <2>1. order[k] \in DOMAIN Block
    OBVIOUS
  <2> QED BY <1>2, <2>1
<1>9. Kinds'
  BY <1>1, <1>3, <1>6, <1>7, <1>8 DEF FateInv, Kinds, Killing
<1>10. Unique'
  <2>1. ASSUME NEW j \in DOMAIN Block, NEW k \in DOMAIN Block,
               Block'[j].thing = Block'[k].thing, ~Block'[j].gone, ~Block'[k].gone
        PROVE  j = k
    <3>1. order[j] = order[k]
      BY <1>7, <1>8, <2>1 DEF FateInv, Unique
    <3> QED BY <1>7, <3>1
  <2> QED BY <1>1, <1>6, <2>1 DEF FateInv, Unique
<1>11. Apart'
  <2> SUFFICES ASSUME NEW k \in DOMAIN Block, NEW c \in DOMAIN NPC,
                      ~Block'[k].gone, Block'[k].thing = NPC[c].thing
               PROVE  NPC[c].Killed /\ Turned(k, c)'
    BY <1>1, <1>6 DEF Apart
  <2>1. NPC[c].Killed /\ Turned(order[k], c)
    BY <1>3, <1>7, <1>8 DEF FateInv, Apart
  <2>2. CASE Before'
    BY <2>1, <2>2 DEF Turned
  <2>3. CASE OnDone(c)' /\ ~OffDone(c)
    <3>1. Block[order[k]].wasCoin
      BY <1>3, <2>1, <2>3 DEF Turned
    <3>2. Block'[k].wasCoin
      BY <1>7, <3>1
    <3> QED BY <2>1, <2>3, <3>2 DEF Turned
  <2> QED BY <1>4, <2>2, <2>3
<1>12. Lost'
  <2>1. ASSUME NEW t \in Things
        PROVE  There(t)' <=> There(t)
    <3>1. (\E k \in DOMAIN Block : Block'[k].thing = t /\ ~Block'[k].gone)
            <=> (\E i \in DOMAIN Block : Block[i].thing = t /\ ~Block[i].gone)
      BY <1>7, <1>8
    <3> QED BY <1>1, <1>6, <3>1 DEF There
  <2> QED BY <1>1, <1>3, <2>1 DEF FateInv, Lost
<1>13. Returned'
  <2>1. AllCoinsBack => AllCoinsBack'
    BY <1>1 DEF AllCoinsBack
  <2>2. BlocksBack(0) => BlocksBack(0)'
    BY <1>1, <1>6, <1>7, <1>8 DEF BlocksBack
  <2> QED BY <1>3, <1>5, <2>1, <2>2 DEF FateInv, Returned
<1> QED BY <1>9, <1>10, <1>11, <1>12, <1>13 DEF FateInv

\* A coin is given back; its block is still to be killed.
LEMMA FateGiveBack ==
  ASSUME BaseInv, FateInv, GiveBack
  PROVE  FateInv'
<1> DEFINE m == Len(NPC)
           t == Block[A].thing
<1>1. /\ pc = "off" /\ pc' = "death" /\ A \in DOMAIN Block /\ GivesBack(Block[A]) /\ t \in Things
      /\ DOMAIN NPC' = 1..(m + 1) /\ \A c \in DOMAIN NPC : NPC'[c] = NPC[c]
      /\ NPC'[m + 1].thing = t /\ ~NPC'[m + 1].Killed /\ NPC'[m + 1].wasBlock = FALSE
      /\ caller' = "UpdateBlocks_SwitchOff_KillBlock"
      /\ Block' = Block /\ PSwitchTime' = PSwitchTime /\ A' = A /\ lost' = lost /\ kept' = kept \ {t}
  BY GiveBackDoes
<1>2. /\ Stage = "off" /\ At = A /\ Stage' = "death" /\ At' = A
      /\ By' = "UpdateBlocks_SwitchOff_KillBlock"
  BY <1>1, Here, HereNext
<1>3. ~FromSwitch /\ FromSwitch' /\ ~Before /\ Giving /\ ~Over' /\ Stage' # "back"
  BY <1>2 DEF FromSwitch, Killing, Before, Giving, Over
<1>4. m \in Nat /\ DOMAIN NPC = 1..m
  BY DEF BaseInv, TypeOK
<1>5. ~Block[A].gone /\ Block[A].wasCoin /\ t \in Coins
  <2>1. Block[A].wasCoin /\ ~Block[A].Hidden
    BY <1>1 DEF GivesBack
  <2> QED BY <1>1, <2>1 DEF FateInv, Kinds
<1>6. \A c \in DOMAIN NPC : NPC[c].thing # t
  BY <1>1, <1>2, <1>3, <1>5 DEF FateInv, Apart, Turned, OnDone
<1>7. \A i \in DOMAIN Block : Block[i].thing = t /\ ~Block[i].gone => i = A
  BY <1>1, <1>5 DEF FateInv, Unique
<1> HIDE DEF m
<1>8. /\ m + 1 \in DOMAIN NPC' /\ m + 1 \notin DOMAIN NPC /\ DOMAIN NPC \subseteq DOMAIN NPC'
      /\ \A c \in DOMAIN NPC' : c \in DOMAIN NPC \/ c = m + 1
  BY <1>1, <1>4
<1>9. Kinds'
  <2>1. \A i \in DOMAIN Block' : /\ Block'[i].wasCoin <=> Block'[i].thing \in Coins
                                 /\ Block'[i].gone => Block'[i].Hidden
    BY <1>1 DEF FateInv, Kinds
  <2>2. \A c \in DOMAIN NPC' : NPC'[c].wasBlock <=> NPC'[c].thing \notin Coins
    BY <1>1, <1>5, <1>8 DEF FateInv, Kinds
  <2>3. Now' = A
    BY <1>2 DEF Now, FromLoop
  <2> QED BY <1>1, <1>5, <2>1, <2>2, <2>3 DEF Kinds, Killing
<1> HIDE DEF t
<1>10. Unique'
  <2>1. ASSUME NEW c \in DOMAIN NPC', NEW d \in DOMAIN NPC', NPC'[c].thing = NPC'[d].thing
        PROVE  c = d
    <3>1. CASE c \in DOMAIN NPC /\ d \in DOMAIN NPC
      BY <1>1, <2>1, <3>1 DEF FateInv, Unique
    <3>2. CASE c = m + 1 \/ d = m + 1
      BY <1>1, <1>6, <1>8, <2>1, <3>2
    <3> QED BY <1>8, <3>1, <3>2
  <2> QED BY <1>1, <2>1 DEF FateInv, Unique
<1>11. Apart'
  <2> SUFFICES ASSUME NEW i \in DOMAIN Block, NEW c \in DOMAIN NPC',
                      ~Block[i].gone, Block[i].thing = NPC'[c].thing
               PROVE  \/ NPC'[c].Killed /\ Turned(i, c)'
                      \/ ~NPC'[c].Killed /\ FromSwitch' /\ i = At'
    BY <1>1 DEF Apart
  <2>1. CASE c \in DOMAIN NPC
    <3>1. NPC[c].Killed /\ Turned(i, c)
      BY <1>1, <1>3, <2>1 DEF FateInv, Apart
    <3>2. ~Block[i].wasCoin /\ OffDone(c)'
      BY <1>2, <1>3, <3>1 DEF Turned, OnDone, OffDone
    <3> QED BY <1>1, <2>1, <3>1, <3>2 DEF Turned
  <2>2. CASE c = m + 1
    BY <1>1, <1>2, <1>3, <1>7, <2>2
  <2> QED BY <1>8, <2>1, <2>2
<1>12. Lost'
  <2>1. ASSUME NEW u \in Things
        PROVE  There(u)' <=> There(u)
    <3>1. CASE u = t
      <4>1. There(u)
        BY <1>1, <1>5, <3>1 DEF There, t
      <4>2. There(u)'
        BY <1>1, <1>8, <3>1 DEF There
      <4> QED BY <4>1, <4>2
    <3>2. CASE u # t
      <4>1. (\E c \in DOMAIN NPC' : NPC'[c].thing = u /\ ~NPC'[c].Killed)
              <=> (\E c \in DOMAIN NPC : NPC[c].thing = u /\ ~NPC[c].Killed)
        BY <1>1, <1>8, <3>2
      <4> QED BY <1>1, <4>1 DEF There
    <3> QED BY <3>1, <3>2
  <2>2. \E c \in DOMAIN NPC' : NPC'[c].thing = Block'[At'].thing /\ ~NPC'[c].Killed
    BY <1>1, <1>2, <1>8 DEF t
  <2> QED BY <1>1, <2>1, <2>2 DEF FateInv, Lost
<1>13. Returned'
  <2>1. AllCoinsBack /\ BlocksBack(A)
    BY <1>2, <1>3 DEF FateInv, Returned
  <2>2. AllCoinsBack'
    BY <1>1, <1>8, <2>1 DEF AllCoinsBack
  <2>3. BlocksBack(At)'
    <3> SUFFICES ASSUME NEW i \in DOMAIN Block, i > A, Block[i].wasCoin, ~Block[i].gone
                 PROVE  Block[i].thing \in kept \ {t}
      BY <1>1, <1>2 DEF BlocksBack
    <3>1. i # A
      BY <1>1, HerePlace
    <3> QED BY <1>7, <2>1, <3>1 DEF BlocksBack
  <2> QED BY <1>3, <2>2, <2>3 DEF Returned
<1> QED BY <1>9, <1>10, <1>11, <1>12, <1>13 DEF FateInv

\* A block that is not turned back is kept.
LEMMA FateOff ==
  ASSUME BaseInv, FateInv, PassOver \/ SwitchDone
  PROVE  FateInv'
<1>1. /\ pc = "off"
      /\ \/ /\ pc' = "off" /\ A' = A - 1 /\ A >= 1
            /\ kept' = IF Block[A].wasCoin /\ ~Block[A].gone THEN kept \cup {Block[A].thing} ELSE kept
         \/ /\ pc' = "end" /\ A' = 0
            /\ kept' = kept \cup {Block[i].thing : i \in {k \in 1..A : Block[k].wasCoin /\ ~Block[k].gone}}
      /\ Block' = Block /\ NPC' = NPC /\ PSwitchTime' = PSwitchTime /\ lost' = lost
  BY DEF PassOver, SwitchDone, InSwitch
<1>2. /\ Stage = "off" /\ At = A /\ Stage' = pc' /\ At' = A'
      /\ A \in Nat /\ A <= Len(Block) /\ Len(Block) \in Nat /\ DOMAIN Block = 1..Len(Block)
  BY <1>1, Here, HereNext, HerePlace
<1>3. /\ Stage' \notin Killing /\ ~FromSwitch /\ ~FromSwitch' /\ ~Before /\ Giving /\ Stage' # "back"
      /\ Giving' => pc' = "off"
      /\ Over' => pc' = "end"
      /\ \A c \in DOMAIN NPC : ~OnDone(c) /\ OffDone(c)'
  BY <1>1, <1>2 DEF Killing, FromSwitch, Before, Giving, Over, OnDone, OffDone
<1>4. Kinds'
  BY <1>1, <1>3 DEF FateInv, Kinds, Killing
<1>5. Unique'
  BY <1>1 DEF FateInv, Unique
<1>6. Apart'
  BY <1>1, <1>3 DEF FateInv, Apart, Turned
<1>7. Lost'
  BY <1>1, <1>3 DEF FateInv, Lost, There
<1>8. Returned'
  <2>1. AllCoinsBack /\ BlocksBack(A)
    BY <1>2, <1>3 DEF FateInv, Returned
  <2>2. AllCoinsBack'
    BY <1>1, <2>1 DEF AllCoinsBack
  <2>3. pc' = "off" => BlocksBack(At)'
    <3> SUFFICES ASSUME pc' = "off", NEW i \in DOMAIN Block, i > A - 1, Block[i].wasCoin, ~Block[i].gone
                 PROVE  Block[i].thing \in kept'
      BY <1>1, <1>2 DEF BlocksBack
    <3>1. i = A \/ i > A
      BY <1>2
    <3> QED BY <1>1, <2>1, <3>1 DEF BlocksBack
  <2>4. pc' = "end" => BlocksBack(0)'
    <3> SUFFICES ASSUME pc' = "end", NEW i \in DOMAIN Block, Block[i].wasCoin, ~Block[i].gone
                 PROVE  Block[i].thing \in kept'
      BY <1>1 DEF BlocksBack
    <3>1. i \in 1..A \/ i > A
      BY <1>2
    <3> QED BY <1>1, <2>1, <3>1 DEF BlocksBack
  <2> QED BY <1>3, <2>2, <2>3, <2>4 DEF Returned
<1> QED BY <1>4, <1>5, <1>6, <1>7, <1>8 DEF FateInv

LEMMA NewThings ==
  ASSUME NEW blocks \in Seq(Things), NEW coins \in Seq(Things), NEW u
  PROVE  u \in Range(blocks \o coins) <=> \/ \E i \in DOMAIN blocks : blocks[i] = u
                                          \/ \E c \in DOMAIN coins : coins[c] = u
<1> DEFINE n == Len(blocks)
           m == Len(coins)
           both == blocks \o coins
<1>1. n \in Nat /\ m \in Nat /\ DOMAIN blocks = 1..n /\ DOMAIN coins = 1..m
  OBVIOUS
<1>2. /\ DOMAIN both = 1..(n + m)
      /\ \A k \in 1..(n + m) : both[k] = IF k <= n THEN blocks[k] ELSE coins[k - n]
  OBVIOUS
<1> HIDE DEF both, n, m
<1>3. ASSUME NEW i \in 1..n
      PROVE  i \in 1..(n + m) /\ both[i] = blocks[i]
  BY <1>1, <1>2
<1>4. ASSUME NEW c \in 1..m
      PROVE  c + n \in 1..(n + m) /\ both[c + n] = coins[c]
  <2>1. c + n \in 1..(n + m) /\ ~(c + n <= n) /\ (c + n) - n = c
    BY <1>1
  <2> QED BY <1>2, <2>1
<1>5. ASSUME NEW k \in 1..(n + m)
      PROVE  (k \in 1..n /\ both[k] = blocks[k]) \/ (k - n \in 1..m /\ both[k] = coins[k - n])
  BY <1>1, <1>2
<1>6. u \in Range(both) <=> \E k \in 1..(n + m) : both[k] = u
  BY <1>2 DEF Range
<1> QED BY <1>1, <1>3, <1>4, <1>5, <1>6 DEF both

LEMMA FateInit ==
  ASSUME Init
  PROVE  FateInv
<1>1. PICK blocks \in Seq(Things), coins \in Seq(Things) :
        /\ \A i \in DOMAIN blocks : blocks[i] \notin Coins
        /\ \A c \in DOMAIN coins : coins[c] \in Coins
        /\ \A i, j \in DOMAIN blocks : blocks[i] = blocks[j] => i = j
        /\ \A c, d \in DOMAIN coins : coins[c] = coins[d] => c = d
        /\ Block = [i \in DOMAIN blocks |-> NewBlock(blocks[i], FALSE, FALSE)]
        /\ NPC = [c \in DOMAIN coins |-> Coin(coins[c], FALSE, FALSE)]
        /\ lost = Things \ Range(blocks \o coins)
  BY InitIs
<1>2. /\ DOMAIN Block = DOMAIN blocks
      /\ \A i \in DOMAIN blocks : Block[i].thing = blocks[i] /\ ~Block[i].gone /\ Block[i].wasCoin = FALSE
  <2>1. \A i \in DOMAIN blocks : blocks[i] \in Things
    OBVIOUS
  <2> QED BY <1>1, <2>1, NewBlockIs
<1>3. /\ DOMAIN NPC = DOMAIN coins
      /\ \A c \in DOMAIN coins : NPC[c].thing = coins[c] /\ ~NPC[c].Killed /\ NPC[c].wasBlock = FALSE
  <2>1. \A c \in DOMAIN coins : coins[c] \in Things
    OBVIOUS
  <2> QED BY <1>1, <2>1, NewCoinIs
<1>4. Stage = "idle"
  BY Here DEF Init
<1>5. Stage \notin Killing /\ ~FromSwitch /\ ~Giving /\ Stage # "back"
  BY <1>4 DEF Killing, FromSwitch, Giving
<1>6. Kinds
  BY <1>1, <1>2, <1>3, <1>5 DEF Kinds
<1>7. Unique
  <2>1. \A i, j \in DOMAIN Block :
          Block[i].thing = Block[j].thing /\ ~Block[i].gone /\ ~Block[j].gone => i = j
    <3>1. \A i, j \in DOMAIN blocks : blocks[i] = blocks[j] => i = j
      BY <1>1
    <3> QED BY <1>2, <3>1
  <2>2. \A c, d \in DOMAIN NPC : NPC[c].thing = NPC[d].thing => c = d
    <3>1. \A c, d \in DOMAIN coins : coins[c] = coins[d] => c = d
      BY <1>1
    <3> QED BY <1>3, <3>1
  <2> QED BY <2>1, <2>2 DEF Unique
<1>8. Apart
  BY <1>1, <1>2, <1>3 DEF Apart
<1>9. Lost
  <2>1. ASSUME NEW t \in Things
        PROVE  t \in lost <=> ~There(t)
    <3>1. t \in lost <=> ~\/ \E i \in DOMAIN blocks : blocks[i] = t
                          \/ \E c \in DOMAIN coins : coins[c] = t
      BY <1>1, NewThings
    <3> QED BY <1>2, <1>3, <3>1 DEF There
  <2> QED BY <1>5, <2>1 DEF Lost
<1>10. Returned
  BY <1>2, <1>3, <1>5 DEF Returned, AllCoinsBack, BlocksBack
<1> QED BY <1>6, <1>7, <1>8, <1>9, <1>10 DEF FateInv

LEMMA FateStep ==
  ASSUME BaseInv, FateInv, [Next]_vars
  PROVE  FateInv'
<1>0. BaseInv'
  BY BaseNext
<1>1. CASE RestOfFrame
  BY <1>1, FateOutside, FateCollect DEF RestOfFrame
<1>2. CASE Coming
  BY <1>2, FateWalk, FateRemoveNPC DEF Coming
<1>3. CASE Loop
  BY <1>0, <1>3, FateLoop, FateEvent, FateStruck DEF Loop
<1>4. CASE Kill
  BY <1>0, <1>4, FateEvent, FateAskLast, FateDie DEF Kill
<1>5. CASE PSwitch
  BY <1>0, <1>5, FateWalk, FateToBlock, FateToCoin, FateEvent, FateSorted, FateGiveBack, FateOff
     DEF PSwitch
<1>6. CASE Resume \/ UNCHANGED vars
  BY <1>6, FateStay
<1> QED BY <1>1, <1>2, <1>3, <1>4, <1>5, <1>6 DEF Next

\* What UpdateBlocks, KillBlock and PSwitch keep of each thing at every step: which it
\* was, that it is there at most once but for what is just being turned, that it is lost
\* exactly if it is not there, and what the end of the switch has turned back so far.
THEOREM FateCorrect == Spec => []FateInv
<1>1. Init => FateInv
  BY FateInit
<1>2. BaseInv /\ FateInv /\ [Next]_vars => FateInv'
  BY FateStep
<1> QED BY <1>1, <1>2, BaseCorrect, PTL DEF Spec

LEMMA OneOrNone ==
  ASSUME NEW S, \A x, y \in S : x = y
  PROVE  Cardinality(S) = IF S = {} THEN 0 ELSE 1
<1>1. CASE S = {}
  BY <1>1, FS_EmptySet
<1>2. CASE S # {}
  <2>1. PICK x \in S : TRUE
    BY <1>2
  <2>2. S = {x}
    BY <2>1
  <2> QED BY <1>2, <2>2, FS_Singleton
<1> QED BY <1>1, <1>2

\* Between frames each thing that was not destroyed, collected or dropped is there once;
\* once the switch is over it is what it was, or kept.
THEOREM SwitchGivesBackCorrect == Spec => []SwitchGivesBack
<1>1. BaseInv /\ FateInv => SwitchGivesBack
  <2> SUFFICES ASSUME BaseInv, FateInv, pc = "idle"
               PROVE  /\ \A t \in Things : Places(t) = IF t \in lost THEN 0 ELSE 1
                      /\ PSwitchTime = 0 =>
                           /\ \A i \in DOMAIN Block :
                                Block[i].thing \in Coins => Block[i].gone \/ Block[i].thing \in kept
                           /\ \A c \in DOMAIN NPC : NPC[c].thing \notin Coins => NPC[c].Killed
    BY DEF SwitchGivesBack
  <2>1. Stage = "idle" /\ ~FromSwitch
    BY Here DEF FromSwitch, Killing
  <2>2. ASSUME NEW t \in Things
        PROVE  Places(t) = IF t \in lost THEN 0 ELSE 1
    <3> DEFINE blocks == {i \in DOMAIN Block : Block[i].thing = t /\ ~Block[i].gone}
               coins  == {c \in DOMAIN NPC : NPC[c].thing = t /\ ~NPC[c].Killed}
    <3>1. Cardinality(blocks) = IF blocks = {} THEN 0 ELSE 1
      <4>1. \A i, j \in blocks : i = j
        BY DEF FateInv, Unique
      <4> QED BY <4>1, OneOrNone
    <3>2. Cardinality(coins) = IF coins = {} THEN 0 ELSE 1
      <4>1. \A c, d \in coins : c = d
        BY DEF FateInv, Unique
      <4> QED BY <4>1, OneOrNone
    <3>3. blocks = {} \/ coins = {}
      BY <2>1 DEF FateInv, Apart
    <3>4. t \in lost <=> blocks = {} /\ coins = {}
      BY DEF FateInv, Lost, There
    <3>5. Places(t) = Cardinality(blocks) + Cardinality(coins)
      BY DEF Places
    <3> HIDE DEF blocks, coins
    <3> QED BY <3>1, <3>2, <3>3, <3>4, <3>5
  <2>3. ASSUME PSwitchTime = 0
        PROVE  /\ \A i \in DOMAIN Block :
                    Block[i].thing \in Coins => Block[i].gone \/ Block[i].thing \in kept
               /\ \A c \in DOMAIN NPC : NPC[c].thing \notin Coins => NPC[c].Killed
    <3>1. AllCoinsBack /\ BlocksBack(0)
      BY <2>1, <2>3 DEF FateInv, Returned, Over
    <3>2. \A i \in DOMAIN Block : i > 0
      BY DEF BaseInv, TypeOK
    <3> QED BY <3>1, <3>2 DEF FateInv, Kinds, AllCoinsBack, BlocksBack
  <2> QED BY <2>2, <2>3
<1> QED BY <1>1, BaseCorrect, FateCorrect, PTL
=============================================================================
