---------------------------- MODULE BlockPattern ----------------------------
(***************************************************************************)
(* BlockPattern.h: blocks of elements dealt to the grid of units in every  *)
(* dimension; a unit stores its elements as one array of its own extents.  *)
(*                                                                         *)
(* A pattern p is a record: extents, dist (one distribution for each       *)
(* dimension), units (extents of the grid of units), order ("row" or       *)
(* "col").  Operators have the names of the member functions; those of a   *)
(* unit take it as an argument instead of using _team->myid().             *)
(***************************************************************************)
EXTENDS Cartesian

\* initialize_blocksizespec and initialize_blockspec
blocksizespec(p) ==
    [d \in DOMAIN p.extents |-> max_blocksize_in_range(p.dist[d], p.extents[d], p.units[d])]

blockspec(p) == [d \in DOMAIN p.extents |-> div_ceil(p.extents[d], blocksizespec(p)[d])]

underfilled_blocksize(p, d) ==
    LET ovf == p.extents[d] % blocksizespec(p)[d]
    IN IF ovf = 0 THEN 0 ELSE blocksizespec(p)[d] - ovf

\* The last block is taken for a full one.
LocalExtentsOfFullBlocks(p, unit) ==
    LET c == UnitCoords(p.units, unit) IN
    [d \in DOMAIN p.extents |->
        blocksizespec(p)[d] * ((blockspec(p)[d] \div p.units[d])
            + (IF c[d] < blockspec(p)[d] % p.units[d] THEN 1 ELSE 0))]

\* initialize_local_extents: whole rounds of blocks, one more block for the first units,
\* and what the last block lacks taken from the unit that has it.
local_extents(p, unit) ==
    LET c == UnitCoords(p.units, unit) IN
    [d \in DOMAIN p.extents |->
        LET nblocks == blockspec(p)[d]
            rounds  == nblocks \div p.units[d]
            more    == nblocks % p.units[d]
            last    == IF more = 0 THEN p.units[d] - 1 ELSE more - 1
        IN IF nblocks = 1 /\ p.units[d] = 1
           THEN p.extents[d]
           ELSE blocksizespec(p)[d] * (rounds + (IF c[d] < more THEN 1 ELSE 0))
                - (IF c[d] = last THEN underfilled_blocksize(p, d) ELSE 0)]

local_size(p, unit) == Volume(local_extents(p, unit))

local_blockspec(p, unit) ==
    [d \in DOMAIN p.extents |-> div_ceil(local_extents(p, unit)[d], blocksizespec(p)[d])]

local_capacity(p) ==
    Volume(blocksizespec(p)) * Volume([d \in DOMAIN p.extents |-> div_ceil(blockspec(p)[d], p.units[d])])

coords(p, index) == Coords(p.extents, p.order, index)

unit_at(p, point) ==
    UnitAt(p.units, [d \in DOMAIN point |-> (point[d] \div blocksizespec(p)[d]) % p.units[d]])

local_coords(p, point) ==
    [d \in DOMAIN point |->
        LET bs == blocksizespec(p)[d]
        IN (point[d] % bs) + ((point[d] \div bs) \div p.units[d]) * bs]

\* local_index, and at
local_index(p, point) ==
    [unit |-> unit_at(p, point),
     index |-> At(local_extents(p, unit_at(p, point)), p.order, local_coords(p, point))]

\* global of local coordinates
global_coords(p, unit, lpoint) ==
    IF Volume(p.units) < 2 THEN lpoint
    ELSE [d \in DOMAIN lpoint |->
             local_index_to_block_coord(p.dist[d], UnitCoords(p.units, unit)[d], lpoint[d], p.units[d])
                 * blocksizespec(p)[d] + (lpoint[d] % blocksizespec(p)[d])]

\* global of a local index
global(p, unit, lindex) ==
    At(p.extents, p.order, global_coords(p, unit, Coords(local_extents(p, unit), p.order, lindex)))

\* The range of global indices of a unit.
local_range(p, unit) ==
    IF local_size(p, unit) = 0 THEN <<0, 0>>
    ELSE <<global(p, unit, 0), global(p, unit, local_size(p, unit) - 1) + 1>>

is_local(p, index, unit) == unit_at(p, coords(p, index)) = unit

block_at(p, point) ==
    At(blockspec(p), p.order, [d \in DOMAIN point |-> point[d] \div blocksizespec(p)[d]])

\* local_block_at: l_pos.index is the index among the blocks of the unit that asks.
local_block_at(p, myid, point) ==
    LET unit == unit_at(p, point)
        c == [d \in DOMAIN point |-> (point[d] \div blocksizespec(p)[d]) \div p.units[d]]
    IN [unit |-> unit, index |-> At(local_blockspec(p, myid), p.order, c)]

\* The blocks as views: of the whole pattern, of a unit in global and in local coordinates.
block(p, index) ==
    LET c == Coords(blockspec(p), p.order, index) IN
    [offsets |-> [d \in DOMAIN c |-> c[d] * blocksizespec(p)[d]],
     extents |-> [d \in DOMAIN c |-> blocksizespec(p)[d]
                     - (IF c[d] = blockspec(p)[d] - 1 THEN underfilled_blocksize(p, d) ELSE 0)]]

LastBlockExtent(p, unit, d) ==
    LET remaining == local_extents(p, unit)[d] % blocksizespec(p)[d]
    IN IF remaining = 0 THEN blocksizespec(p)[d] ELSE remaining

local_block_local(p, unit, lindex) ==
    LET c == Coords(local_blockspec(p, unit), p.order, lindex) IN
    [offsets |-> [d \in DOMAIN c |-> c[d] * blocksizespec(p)[d]],
     extents |-> [d \in DOMAIN c |-> IF c[d] = local_blockspec(p, unit)[d] - 1
                                     THEN LastBlockExtent(p, unit, d) ELSE blocksizespec(p)[d]]]

local_block(p, unit, lindex) ==
    LET v == local_block_local(p, unit, lindex)
    IN [v EXCEPT !.offsets = global_coords(p, unit, v.offsets)]
=============================================================================
