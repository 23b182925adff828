-------------------------- MODULE ShiftTilePattern --------------------------
(***************************************************************************)
(* ShiftTilePattern.h: the blocks of TilePattern, dealt to the units along *)
(* the diagonals of the grid of blocks.                                    *)
(***************************************************************************)
EXTENDS Cartesian

T == INSTANCE TilePattern

nunits(p) == Volume(p.units)

\* initialize_major_tiled_dim and _minor_tiled_dim
major_tiled_dim(p) ==
    LET tiled == {d \in DOMAIN p.dist : p.dist[d].type = "tile"}
    IN CHOOSE d \in tiled : \A e \in tiled : IF p.order = "col" THEN d <= e ELSE d >= e

minor_tiled_dim(p) == 1 + (major_tiled_dim(p) % Len(p.extents))

\* initialize_local_blockspec: the same for every unit.
local_blockspec(p) == [T!blockspec(p) EXCEPT ![major_tiled_dim(p)] = @ \div nunits(p)]

\* initialize_local_extents
local_extents(p) ==
    [d \in DOMAIN p.extents |-> (T!blockspec(p)[d] \div p.units[d]) * T!blocksizespec(p)[d]]

local_size(p, unit) == Volume(local_extents(p))

block_at(p, point) == At(T!blockspec(p), p.order, T!BlockOf(p, point))

UnitOfRow(p, point) == T!BlockOf(p, point)[major_tiled_dim(p)] % nunits(p)

unit_at(p, point) == FoldFunction(Plus, 0, T!BlockOf(p, point)) % nunits(p)

local_coords(p, point) ==
    LET m == major_tiled_dim(p)
        bs == T!blocksizespec(p)[m]
    IN [point EXCEPT ![m] = (@ \div (bs * nunits(p))) * bs + (@ % bs)]

\* local_index, and at: the position of the block among all blocks, divided by the units.
local_index(p, point) ==
    [unit |-> unit_at(p, point), index |-> T!InBlocks(p, block_at(p, point) \div nunits(p), point)]

\* local_at
local_at(p, lpoint) == T!InBlocks(p, At(local_blockspec(p), p.order, T!BlockOf(p, lpoint)), lpoint)

coords(p, index) == T!coords(p, index)

global_coords(p, unit, lpoint) ==
    LET m == major_tiled_dim(p)
        bs == T!blocksizespec(p)[m]
        minor == IF Len(p.extents) > 1 THEN T!BlockOf(p, lpoint)[minor_tiled_dim(p)] ELSE 0
        shift == (nunits(p) + unit - (minor % nunits(p))) % nunits(p)
    IN [lpoint EXCEPT ![m] = (shift + nunits(p) * (@ \div bs)) * bs + (@ % bs)]

\* global of a local index
global(p, unit, lindex) == T!global_at(p, global_coords(p, unit, T!ElementOf(p, local_blockspec(p), lindex)))

block(p, index) == T!block(p, index)

local_block(p, unit, lindex) ==
    LET c == Coords(local_blockspec(p), p.order, lindex)
    IN [offsets |-> global_coords(p, unit, [d \in DOMAIN c |-> c[d] * T!blocksizespec(p)[d]]),
        extents |-> T!blocksizespec(p)]

local_block_local(p, lindex) ==
    LET c == Coords(local_blockspec(p), p.order, lindex)
    IN [offsets |-> [d \in DOMAIN c |-> c[d] * T!blocksizespec(p)[d]], extents |-> T!blocksizespec(p)]
=============================================================================
