----------------------------- MODULE BlockTable -----------------------------
(***************************************************************************)
(* The spatial index of main/block_table.hpp: the references of the        *)
(* objects, kept in every cell that their rectangle touches.  Cells are    *)
(* held by screens of ScreenSize by ScreenSize; a table has a stack of     *)
(* screens for each column, and columns and stacks grow at both ends.  A   *)
(* cell is a chain of nodes of NodeSize references.                        *)
(*                                                                         *)
(* A reference is kept with the axes on which its rectangle continues from *)
(* the cell before, and a query leaves out what it has met there: every    *)
(* object is to be found once.                                             *)
(*                                                                         *)
(* The module has no state.  A table is a value and each operation gives   *)
(* the table that it leaves behind.  A rectangle [l, r, t, b] is in cells, *)
(* with l and t in it and r and b not.                                     *)
(***************************************************************************)
EXTENDS Integers, Sequences, FiniteSets, Functions

CONSTANTS
  ScreenSize,   \* cells in a screen, each way: 32
  NodeSize      \* references in a node: 4

ASSUME ScreenAssumption == ScreenSize \in Nat \ {0}
ASSUME NodeAssumption   == NodeSize \in Nat \ {0}

Smaller(a, b) == IF a < b THEN a ELSE b
Larger(a, b)  == IF a > b THEN a ELSE b

-----------------------------------------------------------------------------
(* node_t: the nodes of a cell, first to last.  An entry that is erased is *)
(* replaced by the last one of its node, which may leave the node empty.   *)

EmptyChain == << <<>> >>

HasRoom(node) == Len(node) < NodeSize

InsertRef(chain, entry) ==
  IF \E k \in DOMAIN chain : HasRoom(chain[k])
  THEN LET k == CHOOSE k \in DOMAIN chain :
                  HasRoom(chain[k]) /\ \A j \in 1..(k - 1) : ~HasRoom(chain[j])
       IN [chain EXCEPT ![k] = Append(@, entry)]
  ELSE Append(chain, <<entry>>)

Places(chain) == {p \in (DOMAIN chain) \X (1..NodeSize) : p[2] \in DOMAIN chain[p[1]]}
RefAt(chain, p) == chain[p[1]][p[2]]
Precedes(p, q) == p[1] < q[1] \/ (p[1] = q[1] /\ p[2] < q[2])

\* The first entry of the reference.
EraseRef(chain, ref) ==
  LET found == {p \in Places(chain) : RefAt(chain, p).ref = ref}
  IN IF found = {} THEN chain
     ELSE LET p == CHOOSE p \in found : \A q \in found \ {p} : Precedes(p, q)
          IN [chain EXCEPT ![p[1]] = LET last == Len(@)
                                     IN [i \in 1..(last - 1) |-> IF i = p[2] THEN @[last] ELSE @[i]]]

-----------------------------------------------------------------------------
(* rect_internal, in one screen, and the walk of insert, erase and query   *)
(* through the screens that a rectangle touches.                           *)

lcol(rect) == rect.l \div ScreenSize
rcol(rect) == (rect.r + ScreenSize - 1) \div ScreenSize
trow(rect) == rect.t \div ScreenSize
brow(rect) == (rect.b + ScreenSize - 1) \div ScreenSize

Continued(x, y) == (IF x THEN {"CONT_X"} ELSE {}) \cup (IF y THEN {"CONT_Y"} ELSE {})

\* inner_rect, as it is when the walk is at the screen.
Inner(rect, col, row) ==
  [l |-> IF col = lcol(rect) THEN rect.l - lcol(rect) * ScreenSize ELSE 0,
   r |-> IF col = rcol(rect) - 1 THEN rect.r - (rcol(rect) - 1) * ScreenSize ELSE ScreenSize,
   t |-> IF row = trow(rect) THEN rect.t - trow(rect) * ScreenSize ELSE 0,
   b |-> IF row = brow(rect) - 1 THEN rect.b - (brow(rect) - 1) * ScreenSize ELSE ScreenSize,
   cont_axes |-> Continued(col # lcol(rect), row # trow(rect))]

\* The iterator's cells, with the axes on which the walk has come from another.
Cells(inner) ==
  {[x |-> x, y |-> y, cont_axes |-> inner.cont_axes \cup Continued(x # inner.l, y # inner.t)] :
     x \in inner.l..(inner.r - 1), y \in inner.t..(inner.b - 1)}

Walk(rect, screens) ==
  UNION {{[cell |-> <<s[1] * ScreenSize + c.x, s[2] * ScreenSize + c.y>>, cont_axes |-> c.cont_axes] :
            c \in Cells(Inner(rect, s[1], s[2]))} : s \in screens}

Touched(rect) == (lcol(rect)..(rcol(rect) - 1)) \X (trow(rect)..(brow(rect) - 1))

-----------------------------------------------------------------------------
(* base_table_t.  A column is the row of its first screen and how many it  *)
(* has.                                                                    *)

EmptyTable == [columns |-> <<>>, nodes |-> <<>>, member_rects |-> <<>>]

NoScreens == [first |-> 0, size |-> 0]

Screens(columns) ==
  UNION {{<<c, row>> : row \in columns[c].first..(columns[c].first + columns[c].size - 1)} :
           c \in DOMAIN columns}

CellsOf(screens) ==
  UNION {(s[1] * ScreenSize..(s[1] + 1) * ScreenSize - 1) \X
         (s[2] * ScreenSize..(s[2] + 1) * ScreenSize - 1) : s \in screens}

\* More columns, to the left and to the right.
Widened(columns, rect) ==
  LET known == IF DOMAIN columns = {} THEN {lcol(rect)} ELSE DOMAIN columns
      first == CHOOSE c \in known : \A d \in known : c <= d
      last  == CHOOSE c \in known : \A d \in known : c >= d
  IN [c \in Smaller(first, lcol(rect))..Larger(last, rcol(rect) - 1) |->
        IF c \in DOMAIN columns THEN columns[c] ELSE NoScreens]

\* More screens in a column, above and below.
Heightened(column, rect) ==
  LET known == IF column.size = 0 THEN [first |-> trow(rect), size |-> 1] ELSE column
      first == Smaller(known.first, trow(rect))
  IN [first |-> first, size |-> Larger(known.first + known.size, brow(rect)) - first]

Grown(columns, rect) ==
  [c \in DOMAIN Widened(columns, rect) |->
     IF c \in lcol(rect)..(rcol(rect) - 1) THEN Heightened(Widened(columns, rect)[c], rect)
     ELSE Widened(columns, rect)[c]]

InsertRect(table, ref, rect) ==
  LET columns == Grown(table.columns, rect)
      walk    == Walk(rect, Touched(rect))
  IN [table EXCEPT
        !.columns = columns,
        !.nodes = [cell \in CellsOf(Screens(columns)) |->
                     LET chain == IF cell \in DOMAIN table.nodes THEN table.nodes[cell] ELSE EmptyChain
                         here  == {w \in walk : w.cell = cell}
                     IN IF here = {} THEN chain
                        ELSE InsertRef(chain, [ref |-> ref,
                                               cont_axes |-> (CHOOSE w \in here : TRUE).cont_axes])]]

EraseRect(table, ref, rect) ==
  LET walk == {w.cell : w \in Walk(rect, Touched(rect) \cap Screens(table.columns))}
  IN [table EXCEPT !.nodes = [cell \in DOMAIN @ |->
                                IF cell \in walk THEN EraseRef(@[cell], ref) ELSE @[cell]]]

\* What a query comes upon: a cell, and a place in its chain.
AnyAxis(entry, w)  == TRUE              \* mutant: what was met before is found again
NewOnAxes(entry, w) == entry.cont_axes \cap w.cont_axes = {}

Hits(table, rect) ==
  IF DOMAIN table.columns = {} \/ DOMAIN table.member_rects = {} THEN {}
  ELSE UNION {{<<w.cell, p>> : p \in {p \in Places(table.nodes[w.cell]) :
                                        NewOnAxes(RefAt(table.nodes[w.cell], p), w)}} :
                w \in Walk(rect, Touched(rect) \cap Screens(table.columns))}

HitRef(table, hit) == RefAt(table.nodes[hit[1]], hit[2]).ref

-----------------------------------------------------------------------------
(* table_t.                                                                *)

TableInsert(table, ref, rect) ==
  InsertRect([table EXCEPT !.member_rects =
                [o \in DOMAIN @ \cup {ref} |-> IF o = ref THEN rect ELSE @[o]]], ref, rect)

TableErase(table, ref) ==
  IF ref \notin DOMAIN table.member_rects THEN table
  ELSE [EraseRect(table, ref, table.member_rects[ref])
          EXCEPT !.member_rects = Restrict(@, DOMAIN @ \ {ref})]

\* With the no-change optimization.
TableUpdate(table, ref, rect) ==
  IF ref \notin DOMAIN table.member_rects THEN TableInsert(table, ref, rect)
  ELSE IF table.member_rects[ref] = rect THEN table
  ELSE TableInsert(EraseRect(table, ref, table.member_rects[ref]), ref, rect)

update_layer(table, ref, rect) ==
  IF ref \notin DOMAIN table.member_rects THEN TableInsert(table, ref, rect)
  ELSE TableInsert(EraseRect(table, ref, table.member_rects[ref]), ref, rect)

-----------------------------------------------------------------------------
(* What the index promises.                                                *)

\* Two rectangles, neither of them empty, have a cell in common.
Meets(a, b) ==
  /\ Larger(a.l, b.l) < Smaller(a.r, b.r)
  /\ Larger(a.t, b.t) < Smaller(a.b, b.b)

\* A query finds the objects whose rectangles meet its own, and no other.
FindsMembers(table, rect) ==
  {HitRef(table, h) : h \in Hits(table, rect)}
    = {ref \in DOMAIN table.member_rects : Meets(table.member_rects[ref], rect)}

\* ... and each of them once.
FindsOnce(table, rect) ==
  \A g, h \in Hits(table, rect) : HitRef(table, g) = HitRef(table, h) => g = h
=============================================================================
