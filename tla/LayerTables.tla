---------------------------- MODULE LayerTables ----------------------------
(***************************************************************************)
(* Where the level's blocks are looked up: TableInterface of               *)
(* main/block_table.cpp and the layers that feed it.  Blocks are indexed   *)
(* in a common table.  A layer that an event sets in motion is split from  *)
(* it and gets a table of its own, in which its blocks stand where they    *)
(* would be had the layer never moved; a query for it is moved instead.  A *)
(* while after the layer has stopped it is joined to the common table.     *)
(*                                                                         *)
(* Backgrounds and water have the same three kinds of tables and the same  *)
(* calls.  Lengths are in pixels.  Splitting, joining and carrying a layer *)
(* are loops over its blocks, one block a step; nothing is asked of the    *)
(* tables meanwhile.                                                       *)
(***************************************************************************)
EXTENDS BlockTable

CONSTANTS
  CellSize,     \* pixels in a cell: 64
  Margin,       \* of a query: [standard, classic], 2 and 32
  MinWidth,     \* the least width of a standard query: 32
  Layers,       \* the numbers of the layers, numLayers
  Moved,        \* those that events and NPCs move
  SplitSize,    \* a layer of more blocks is split: 2
  JoinTime,     \* frames until a stopped layer is joined: 255
  Places0,      \* where blocks are put: [layer, Location]
  Speeds,       \* the speeds of layers, <<x, y>>
  Queries,      \* the cells that are asked for
  Points,       \* the places that are asked for
  MaxBlocks,    \* bound: blocks
  MaxChanges,   \* bound: blocks put, added and removed
  MaxOffset     \* bound: how far a layer moves from its place

LAYER_NONE == -1

\* Locations; those of blocks, which have a width and a height; rectangles of cells.
Locations == [X : Int, Y : Int, Width : Nat, Height : Nat]
Solid     == {loc \in Locations : loc.Width > 0 /\ loc.Height > 0}
Rects     == [l : Int, r : Int, t : Int, b : Int]

ASSUME CellAssumption   == CellSize \in Nat \ {0} /\ MinWidth \in Nat
ASSUME MarginAssumption == Margin \in [standard : Nat \ {0}, classic : Nat \ {0}]
\* The default layer is one of those that never move.  With every layer in motion
\* a block that got its first layer would stay in the common table as well.
ASSUME LayersAssumption == Layers \subseteq Nat /\ Moved \subseteq Layers /\ Moved # Layers
ASSUME PlacesAssumption ==
  /\ Places0 \subseteq [layer : Layers \cup {LAYER_NONE}, Location : Solid]
  /\ Speeds \subseteq Int \X Int
  /\ Queries \subseteq Rects /\ Points \subseteq Locations
ASSUME TablesAssumption ==
  SplitSize \in Nat /\ JoinTime \in Nat \ {0} /\ MaxBlocks \in Nat /\ MaxChanges \in Nat
  /\ MaxOffset \in Nat

VARIABLES
  Block, numBlock,          \* the blocks: [layer, Location]
  changes,                  \* how often that has changed
  Layer,                    \* of each layer, what moves it: [Offset, Speed, join_timer]
  common_table, layer_table, active_tables,
  loop                      \* the loop over a layer's blocks: [site, layer, rest]

blocks_vars == <<Block, numBlock, changes>>
tables      == <<common_table, layer_table, active_tables>>
tables_vars == <<blocks_vars, Layer, tables, loop>>

NoPlace == [layer |-> LAYER_NONE, Location |-> [X |-> 0, Y |-> 0, Width |-> 0, Height |-> 0]]

\* Layer[l].blocks, which are kept in order.
blocks(l) == {b \in 1..numBlock : Block[b].layer = l}

layer_table_active(l) == \E k \in DOMAIN active_tables : active_tables[k] = l
HasOwnTable(l)        == l # LAYER_NONE /\ layer_table_active(l)

-----------------------------------------------------------------------------
(* rect_external, and the place of a block in its layer.                   *)

rect_external(loc) ==
  [l |-> loc.X \div CellSize, r |-> (loc.X + loc.Width + CellSize - 1) \div CellSize,
   t |-> loc.Y \div CellSize, b |-> (loc.Y + loc.Height + CellSize - 1) \div CellSize]

Shifted(loc, x, y) == [loc EXCEPT !.X = @ + x, !.Y = @ + y]

extract_loc(block) == Block[block].Location
extract_loc_layer(block) ==
  LET l == Block[block].layer
  IN IF l = LAYER_NONE THEN extract_loc(block)
     ELSE Shifted(extract_loc(block), -Layer[l].Offset[1], -Layer[l].Offset[2])

-----------------------------------------------------------------------------
(* TableInterface.                                                         *)

LoopNone == [site |-> "none", layer |-> LAYER_NONE, rest |-> {}]
Idle   == loop = LoopNone

LoopOver(site, l) == loop' = [site |-> site, layer |-> l, rest |-> blocks(l)]

\* The next block of the loop, and the end of it.
NextItem(site, b) ==
  /\ loop.site = site
  /\ b \in loop.rest /\ \A c \in loop.rest : b <= c
  /\ loop' = [loop EXCEPT !.rest = @ \ {b}]

LoopEnds(site) == loop.site = site /\ loop.rest = {} /\ loop' = LoopNone

split(l) ==
  IF layer_table_active(l) THEN UNCHANGED <<tables, loop>>
  ELSE /\ active_tables' = Append(active_tables, l)
       /\ LoopOver("split", l)
       /\ UNCHANGED <<common_table, layer_table>>

SplitItem(b) ==
  /\ NextItem("split", b)
  /\ common_table' = TableErase(common_table, b)
  /\ layer_table' = [layer_table EXCEPT ![loop.layer] =
                        TableInsert(@, b, rect_external(extract_loc_layer(b)))]
  /\ UNCHANGED <<blocks_vars, Layer, active_tables>>

SplitDone == LoopEnds("split") /\ UNCHANGED <<blocks_vars, Layer, tables>>

\* The last active table takes the place of the one that goes.
WithoutLayer(l) ==
  LET num_active_tables == Len(active_tables) - 1
  IN [k \in 1..num_active_tables |->
        IF active_tables[k] = l THEN active_tables[Len(active_tables)] ELSE active_tables[k]]

join(l) ==
  IF ~layer_table_active(l) THEN UNCHANGED <<tables, loop>>
  ELSE /\ active_tables' = WithoutLayer(l)
       /\ LoopOver("join", l)
       /\ UNCHANGED <<common_table, layer_table>>

JoinItem(b) ==
  /\ NextItem("join", b)
  /\ common_table' = TableInsert(common_table, b, rect_external(extract_loc(b)))
  /\ UNCHANGED <<blocks_vars, Layer, layer_table, active_tables>>

JoinDone ==
  /\ LoopEnds("join")
  /\ layer_table' = [layer_table EXCEPT ![loop.layer] = EmptyTable]
  /\ UNCHANGED <<blocks_vars, Layer, common_table, active_tables>>

\* The cells of a query, which has a margin, and in the standard mode a least width.
query_rect(loc, classic) ==
  LET margin == IF classic THEN Margin.classic ELSE Margin.standard
      width  == IF classic THEN loc.Width ELSE Larger(loc.Width, MinWidth)
  IN [l |-> (loc.X - margin) \div CellSize,
      r |-> (loc.X + width + margin + CellSize - 1) \div CellSize,
      t |-> (loc.Y - margin) \div CellSize,
      b |-> (loc.Y + loc.Height + margin + CellSize - 1) \div CellSize]

\* ... and those of a layer, whose offset is rounded: one more to the right and below.
NoMore == 0                             \* mutant: none more
OneMore == 1
layer_rect(rect, l) ==
  LET x == (-Layer[l].Offset[1]) \div CellSize
      y == (-Layer[l].Offset[2]) \div CellSize
  IN [l |-> rect.l + x, r |-> rect.r + OneMore + x, t |-> rect.t + y, b |-> rect.b + OneMore + y]

Found(table, rect) == {HitRef(table, h) : h \in Hits(table, rect)}

query(loc, classic) ==
  LET rect == query_rect(loc, classic)
  IN Found(common_table, rect)
       \cup UNION {Found(layer_table[active_tables[k]], layer_rect(rect, active_tables[k])) :
                     k \in DOMAIN active_tables}

\* treeBlockQuery moves the location itself to each layer.
treeBlockQuery(loc, classic) ==
  LET margin == IF classic THEN Margin.classic ELSE Margin.standard
      wide   == [X |-> loc.X - margin, Y |-> loc.Y - margin,
                 Width |-> loc.Width + 2 * margin, Height |-> loc.Height + 2 * margin]
      Of(l)  == Shifted(wide, -Layer[l].Offset[1], -Layer[l].Offset[2])
  IN Found(common_table, rect_external(wide))
       \cup UNION {Found(layer_table[active_tables[k]], rect_external(Of(active_tables[k]))) :
                     k \in DOMAIN active_tables}

-----------------------------------------------------------------------------
(* syncLayersTrees_Block: a block was put somewhere, given another layer,  *)
(* or is no more.                                                          *)

OnlyOwn(b)     == {}                    \* mutant: the other layers are left alone
OtherLayers(b) == Layers \ {Block'[b].layer}

\* The tables as they are after the block was taken out of the other layers' and
\* updated in its own; a layer without a table means the common one.
Synced(common, own, b) ==
  LET layer   == Block'[b].layer
      others  == OtherLayers(b)
      cleared == IF \E l \in others : ~layer_table_active(l) THEN TableErase(common, b) ELSE common
      erased  == [l \in Layers |-> IF l \in others /\ layer_table_active(l) THEN TableErase(own[l], b)
                                   ELSE own[l]]
      loc     == Block'[b].Location
      moved   == IF layer = LAYER_NONE THEN loc
                 ELSE Shifted(loc, -Layer[layer].Offset[1], -Layer[layer].Offset[2])
  IN IF b <= numBlock'
     THEN IF HasOwnTable(layer)
          THEN [common |-> cleared,
                own |-> [erased EXCEPT ![layer] = update_layer(@, b, rect_external(moved))]]
          ELSE [common |-> TableUpdate(cleared, b, rect_external(loc)), own |-> erased]
     ELSE IF HasOwnTable(layer)
          THEN [common |-> cleared, own |-> [erased EXCEPT ![layer] = TableErase(@, b)]]
          ELSE [common |-> TableErase(cleared, b), own |-> erased]

CountChange == Idle /\ changes < MaxChanges /\ changes' = changes + 1

SyncBlock(b) ==
  LET after == Synced(common_table, layer_table, b)
  IN /\ common_table' = after.common /\ layer_table' = after.own
     /\ UNCHANGED <<active_tables, loop>>

\* A block is moved, or gets another layer.
PutBlock(b) ==
  /\ b <= numBlock
  /\ CountChange
  /\ \E p \in Places0 : p # Block[b] /\ Block' = [Block EXCEPT ![b] = p]
  /\ UNCHANGED <<numBlock, Layer>>
  /\ SyncBlock(b)

\* A new block.
AddBlock ==
  /\ numBlock < MaxBlocks
  /\ CountChange
  /\ numBlock' = numBlock + 1
  /\ \E p \in Places0 : Block' = [Block EXCEPT ![numBlock'] = p]
  /\ UNCHANGED Layer
  /\ SyncBlock(numBlock')

\* A block goes and the last one takes its number.
RemoveBlock(b) ==
  /\ b <= numBlock
  /\ CountChange
  /\ numBlock' = numBlock - 1
  /\ Block' = [Block EXCEPT ![b] = Block[numBlock], ![numBlock] = NoPlace]
  /\ UNCHANGED Layer
  /\ LET first == Synced(common_table, layer_table, b)
         last  == Synced(first.common, first.own, numBlock)
     IN common_table' = last.common /\ layer_table' = last.own
  /\ UNCHANGED <<active_tables, loop>>

-----------------------------------------------------------------------------
(* Layers in motion.                                                       *)

Still == <<0, 0>>

\* SetLayerSpeed, for an NPC that carries the layer.
SetLayerSpeed(l) ==
  /\ Idle
  /\ \E s \in Speeds : s # Layer[l].Speed /\ Layer' = [Layer EXCEPT ![l].Speed = s]
  /\ UNCHANGED <<blocks_vars, tables, loop>>

\* An event sets the layer in motion, and may split it, or stops it.
MoveLayer(l) ==
  /\ Idle
  /\ \E s \in Speeds :
       /\ Layer' = [Layer EXCEPT ![l].Speed = s, ![l].join_timer = IF s = Still THEN JoinTime ELSE @]
       /\ IF s # Still /\ Cardinality(blocks(l)) > SplitSize THEN split(l)
          ELSE UNCHANGED <<tables, loop>>
  /\ UNCHANGED blocks_vars

\* UpdateLayers, once a frame, for one layer: what it does to a layer depends on no
\* other.  With FreezeLayers or FreezeNPCs it neither moves nor waits.
JoinTimer(l) ==
  /\ Idle
  /\ Layer[l].Speed = Still
  /\ Layer[l].join_timer > 0
  /\ Layer' = [Layer EXCEPT ![l].join_timer = @ - 1]
  /\ IF Layer[l].join_timer = 1 THEN join(l) ELSE UNCHANGED <<tables, loop>>
  /\ UNCHANGED blocks_vars

Onward(offset, speed) == <<offset[1] + speed[1], offset[2] + speed[2]>>
InBounds(offset) == \A k \in 1..2 : offset[k] \in -MaxOffset..MaxOffset

\* The offset first, then the blocks.
Move(l) ==
  /\ Idle
  /\ Layer[l].Speed # Still
  /\ LET offset == Onward(Layer[l].Offset, Layer[l].Speed)
     IN InBounds(offset) /\ Layer' = [Layer EXCEPT ![l].Offset = offset]
  /\ LoopOver("move", l)
  /\ UNCHANGED <<blocks_vars, tables>>

MoveItem(b) ==
  /\ NextItem("move", b)
  /\ LET l   == loop.layer
         loc == Shifted(Block[b].Location, Layer[l].Speed[1], Layer[l].Speed[2])
     IN /\ Block' = [Block EXCEPT ![b].Location = loc]
        /\ common_table' = IF layer_table_active(l) THEN common_table
                           ELSE TableUpdate(common_table, b, rect_external(loc))
  /\ UNCHANGED <<numBlock, changes, Layer, layer_table, active_tables>>

MoveDone == LoopEnds("move") /\ UNCHANGED <<blocks_vars, Layer, tables>>

-----------------------------------------------------------------------------
TablesInit ==
  /\ Block = [b \in 1..MaxBlocks |-> NoPlace] /\ numBlock = 0 /\ changes = 0
  /\ Layer = [l \in Layers |-> [Offset |-> Still, Speed |-> Still, join_timer |-> 0]]
  /\ common_table = EmptyTable /\ layer_table = [l \in Layers |-> EmptyTable]
  /\ active_tables = <<>> /\ loop = LoopNone

UpdateLayers(l) == JoinTimer(l) \/ Move(l)
Loops(b)        == SplitItem(b) \/ JoinItem(b) \/ MoveItem(b)

TablesNext ==
  \/ AddBlock \/ (\E b \in 1..MaxBlocks : PutBlock(b) \/ RemoveBlock(b))
  \/ \E l \in Moved : SetLayerSpeed(l) \/ MoveLayer(l)
  \/ \E l \in Layers : UpdateLayers(l)
  \/ (\E b \in 1..MaxBlocks : Loops(b)) \/ SplitDone \/ JoinDone \/ MoveDone

TablesSpec == TablesInit /\ [][TablesNext]_tables_vars

-----------------------------------------------------------------------------
(* Properties.                                                             *)

Tables == {common_table} \cup {layer_table[l] : l \in Layers}

\* Every table answers every query with the objects it holds, each once, though
\* columns and stacks have grown at both ends and nodes have holes.
TablesFindOnce ==
  \A q \in Queries, table \in Tables : FindsMembers(table, q) /\ FindsOnce(table, q)

Touch(a, b) ==
  /\ a.X <= b.X + b.Width /\ b.X <= a.X + a.Width
  /\ a.Y <= b.Y + b.Height /\ b.Y <= a.Y + a.Height

\* No block is overlooked: whoever asks for a place finds every block that touches it,
\* in whatever table it is and however far its layer has moved.
NoneMissed(loc) ==
  \A b \in 1..numBlock, classic \in BOOLEAN :
    Touch(Block[b].Location, loc) => b \in query(loc, classic) \cap treeBlockQuery(loc, classic)

LocationsNoneMissed == Idle => \A loc \in Points : NoneMissed(loc)

\* A block is in one table only, so a query that asks them all finds it once.
InOneTable ==
  Idle =>
    \A b \in 1..MaxBlocks :
      Cardinality({l \in Layers : b \in DOMAIN layer_table[l].member_rects})
        + Cardinality({b} \cap DOMAIN common_table.member_rects) = IF b <= numBlock THEN 1 ELSE 0
=============================================================================
