---------------------------- MODULE TilePattern ----------------------------
(***************************************************************************)
(* TilePattern.h: blocks dealt to the grid of units like those of          *)
(* BlockPattern, but each block is stored, and numbered, as a whole.       *)
(* Patterns are the records of module BlockPattern.                        *)
(***************************************************************************)
EXTENDS Cartesian

blocksizespec(p) ==
    [d \in DOMAIN p.extents |-> max_blocksize_in_range(p.dist[d], p.extents[d], p.units[d])]

blockspec(p) == [d \in DOMAIN p.extents |-> div_ceil(p.extents[d], blocksizespec(p)[d])]

underfilled_blocksize(p, d) ==
    LET ovf == p.extents[d] % blocksizespec(p)[d]
    IN IF ovf = 0 THEN 0 ELSE blocksizespec(p)[d] - ovf

\* initialize_local_blockspec
local_blockspec(p, unit) ==
    LET c == UnitCoords(p.units, unit) IN
    [d \in DOMAIN p.extents |->
        (blockspec(p)[d] \div p.units[d]) + (IF blockspec(p)[d] % p.units[d] > c[d] THEN 1 ELSE 0)]

\* initialize_local_extents
local_extents(p, unit) ==
    LET c == UnitCoords(p.units, unit) IN
    [d \in DOMAIN p.extents |->
        LET more == blockspec(p)[d] % p.units[d]
            last == IF more = 0 THEN p.units[d] - 1 ELSE more - 1
        IN local_blockspec(p, unit)[d] * blocksizespec(p)[d]
           - (IF c[d] = last THEN underfilled_blocksize(p, d) ELSE 0)]

local_size(p, unit) == Volume(local_extents(p, unit))

Phase(p, point) == [d \in DOMAIN point |-> point[d] % blocksizespec(p)[d]]

BlockOf(p, point) == [d \in DOMAIN point |-> point[d] \div blocksizespec(p)[d]]

\* The index of an element in a sequence of whole blocks.
InBlocks(p, blockindex, point) ==
    blockindex * Volume(blocksizespec(p)) + At(blocksizespec(p), p.order, Phase(p, point))

unit_at(p, point) ==
    UnitAt(p.units, [d \in DOMAIN point |-> BlockOf(p, point)[d] % p.units[d]])

local_coords(p, point) ==
    [d \in DOMAIN point |->
        (BlockOf(p, point)[d] \div p.units[d]) * blocksizespec(p)[d] + Phase(p, point)[d]]

\* local_at
local_at(p, unit, lpoint) == InBlocks(p, At(local_blockspec(p, unit), p.order, BlockOf(p, lpoint)), lpoint)

\* The blocks of a unit counted as if all of its neighbours' were stored with them.
LocalIndexInAllBlocks(p, point) ==
    [unit |-> unit_at(p, point),
     index |-> InBlocks(p, At(blockspec(p), p.order, BlockOf(p, local_coords(p, point))), local_coords(p, point))]

local_index(p, point) ==
    [unit |-> unit_at(p, point), index |-> local_at(p, unit_at(p, point), local_coords(p, point))]

\* global_at, and its inverse coords: indices count whole blocks here too.
global_at(p, point) == InBlocks(p, At(blockspec(p), p.order, BlockOf(p, point)), point)

ElementOf(p, spec, index) ==
    LET bs == blocksizespec(p)
        b  == Coords(spec, p.order, index \div Volume(bs))
        ph == Coords(bs, p.order, index % Volume(bs))
    IN [d \in DOMAIN bs |-> b[d] * bs[d] + ph[d]]

coords(p, index) == ElementOf(p, blockspec(p), index)

global_coords(p, unit, lpoint) ==
    LET c == UnitCoords(p.units, unit) IN
    [d \in DOMAIN lpoint |->
        (BlockOf(p, lpoint)[d] * p.units[d] + c[d]) * blocksizespec(p)[d] + Phase(p, lpoint)[d]]

\* global of a local index
global(p, unit, lindex) == global_at(p, global_coords(p, unit, ElementOf(p, local_blockspec(p, unit), lindex)))

block_at(p, point) == At(blockspec(p), p.order, BlockOf(p, point))

local_block_at(p, myid, point) ==
    LET unit == unit_at(p, point) IN
    [unit |-> unit,
     index |-> At(local_blockspec(p, myid), p.order,
                  [d \in DOMAIN point |-> BlockOf(p, point)[d] \div p.units[d]])]

\* Every block has the full extents here, the last ones too.
block(p, index) ==
    [offsets |-> [d \in DOMAIN p.extents |-> Coords(blockspec(p), p.order, index)[d] * blocksizespec(p)[d]],
     extents |-> blocksizespec(p)]

local_block(p, unit, lindex) ==
    LET c == Coords(local_blockspec(p, unit), p.order, lindex)
        g == UnitCoords(p.units, unit)
        bs == blocksizespec(p)
        remaining(d) == local_extents(p, unit)[d] % bs[d]
    IN [offsets |-> [d \in DOMAIN c |-> (c[d] * p.units[d] + g[d]) * bs[d]],
        extents |-> [d \in DOMAIN c |->
                        IF c[d] = local_blockspec(p, unit)[d] - 1 /\ remaining(d) > 0
                        THEN remaining(d) ELSE bs[d]]]

local_block_local(p, unit, lindex) ==
    [offsets |-> [d \in DOMAIN p.extents |->
                     Coords(local_blockspec(p, unit), p.order, lindex)[d] * blocksizespec(p)[d]],
     extents |-> blocksizespec(p)]
=============================================================================
