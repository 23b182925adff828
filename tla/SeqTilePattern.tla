--------------------------- MODULE SeqTilePattern ---------------------------
(***************************************************************************)
(* SeqTilePattern.h: the blocks of TilePattern, dealt to the units in the  *)
(* order of their numbers whatever the grid of units is.  The local space  *)
(* of a unit is its blocks in a row along the first dimension.             *)
(***************************************************************************)
EXTENDS Cartesian

T == INSTANCE TilePattern

nunits(p) == Volume(p.units)

\* initialize_local_blockspec
local_blockspec(p, unit) ==
    LET total == Volume(T!blockspec(p))
    IN [d \in DOMAIN p.extents |->
           IF d = 1 THEN (total \div nunits(p)) + (IF unit < total % nunits(p) THEN 1 ELSE 0) ELSE 1]

\* initialize_local_extents
local_extents(p, unit) ==
    [d \in DOMAIN p.extents |-> T!blocksizespec(p)[d] * local_blockspec(p, unit)[d]]

local_size(p, unit) == Volume(local_extents(p, unit))

block_at(p, point) == At(T!blockspec(p), p.order, T!BlockOf(p, point))

unit_at(p, point) == block_at(p, point) % nunits(p)

\* local of coordinates
local(p, point) ==
    LET lblock == block_at(p, point) \div nunits(p)
    IN [unit |-> unit_at(p, point),
        coords |-> [d \in DOMAIN point |->
            T!Phase(p, point)[d] + (IF d = 1 THEN lblock * T!blocksizespec(p)[1] ELSE 0)]]

\* local_index, and at
local_index(p, point) ==
    [unit |-> unit_at(p, point), index |-> T!InBlocks(p, block_at(p, point) \div nunits(p), point)]

\* local_at
local_at(p, unit, lpoint) ==
    T!InBlocks(p, At(local_blockspec(p, unit), p.order, T!BlockOf(p, lpoint)), lpoint)

coords(p, index) == Coords(p.extents, p.order, index)

global_coords(p, unit, lpoint) ==
    LET lblock == lpoint[1] \div T!blocksizespec(p)[1]
        b == Coords(T!blockspec(p), p.order, lblock * nunits(p) + unit)
    IN [d \in DOMAIN lpoint |-> b[d] * T!blocksizespec(p)[d] + T!Phase(p, lpoint)[d]]

\* global of a local index
global(p, unit, lindex) ==
    At(p.extents, p.order, global_coords(p, unit, T!ElementOf(p, local_blockspec(p, unit), lindex)))

block(p, index) == T!block(p, index)

local_block(p, unit, lindex) ==
    [offsets |-> [d \in DOMAIN p.extents |->
                     Coords(T!blockspec(p), p.order, lindex * nunits(p) + unit)[d] * T!blocksizespec(p)[d]],
     extents |-> T!blocksizespec(p)]

local_block_local(p, unit, lindex) ==
    [offsets |-> [d \in DOMAIN p.extents |->
                     Coords(local_blockspec(p, unit), p.order, lindex)[d] * T!blocksizespec(p)[d]],
     extents |-> T!blocksizespec(p)]
=============================================================================
