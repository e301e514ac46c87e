------------------------------ MODULE MCBlocks ------------------------------
(* Blocks for TLC.                                                         *)
EXTENDS Blocks

\* A block that is switched in front of one that is not, or behind it, with a coin or
\* without.
SmallLevels == [blocks : {<<1, 2>>, <<2, 1>>}, coins : {<<>>, <<3>>}]

\* Nothing, or an entry of a block and one of none.
SomeLeft == {<<>>, <<2, 4>>}
=============================================================================
