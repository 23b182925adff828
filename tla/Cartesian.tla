----------------------------- MODULE Cartesian -----------------------------
(***************************************************************************)
(* Cartesian.h, Distribution.h and TeamSpec.h: linear indices of points in *)
(* a space of given extents, distributions of one dimension over units,    *)
(* and the grid of units.  A space is the sequence of its extents, all of  *)
(* them positive (the code asserts a size > 0); points and indices count   *)
(* from 0, dimensions from 1.                                              *)
(***************************************************************************)
EXTENDS Integers, SequencesExt

Times(a, b) == a * b
Plus(a, b) == a + b

\* Number of points.
Volume(ext) == FoldFunction(Times, 1, ext)

div_ceil(a, b) == (a \div b) + (IF a % b > 0 THEN 1 ELSE 0)

\* _offset_row_major and _offset_col_major.
Offset(ext, order, d) ==
    FoldFunctionOnSet(Times, 1, ext,
        IF order = "row" THEN (d + 1) .. Len(ext) ELSE 1 .. (d - 1))

\* CartesianIndexSpace::at
At(ext, order, point) ==
    FoldFunction(Plus, 0, [d \in DOMAIN ext |-> Offset(ext, order, d) * point[d]])

\* CartesianIndexSpace::coords: what is left of the index after the dimension before, in
\* the order in which the loop visits the dimensions.
Coords(ext, order, index) ==
    LET major == IF order = "row" THEN 1 ELSE Len(ext)
        before(d) == IF order = "row" THEN d - 1 ELSE d + 1
        rest(d) == IF d = major THEN index ELSE index % Offset(ext, order, before(d))
    IN [d \in DOMAIN ext |-> rest(d) \div Offset(ext, order, d)]

Shifted(point, offsets) == [d \in DOMAIN point |-> point[d] + offsets[d]]

\* coords of an index within a view: a box with offsets and extents.
CoordsInView(view, order, index) == Shifted(Coords(view.extents, order, index), view.offsets)

InView(view, point) ==
    \A d \in DOMAIN point : point[d] \in view.offsets[d] .. (view.offsets[d] + view.extents[d] - 1)

----------------------------------------------------------------------------
\* Distributions: [type, blocksz] with type none, blocked, cyclic, blockcyclic or tile.

local_index_to_block_coord(dist, unit_teamspec_coord, local_index, num_units) ==
    CASE dist.type = "none" -> 0
      [] dist.type = "blocked" -> unit_teamspec_coord
      [] dist.type \in {"tile", "blockcyclic"} ->
           (local_index \div dist.blocksz) * num_units + unit_teamspec_coord
      [] dist.type = "cyclic" -> unit_teamspec_coord + local_index * num_units

max_blocksize_in_range(dist, range, num_units) ==
    CASE dist.type = "none" -> range
      [] dist.type = "blocked" -> div_ceil(range, num_units)
      [] dist.type = "cyclic" -> 1
      [] dist.type \in {"tile", "blockcyclic"} -> IF range < dist.blocksz THEN range ELSE dist.blocksz

is_tiled(dist) == \E d \in DOMAIN dist : dist[d].type = "tile"

----------------------------------------------------------------------------
\* The grid of units, always numbered in row order.

\* TeamSpec(distribution, team): all units in the first tiled dimension, or in the only
\* dimension that is distributed at all.
TeamSpecOf(dist, nunits) ==
    LET tiled == {d \in DOMAIN dist : dist[d].type = "tile"}
    IN [d \in DOMAIN dist |->
           IF is_tiled(dist)
           THEN IF d \in tiled /\ \A e \in tiled : d <= e THEN nunits ELSE 1
           ELSE IF dist[d].type = "none" THEN 1 ELSE nunits]

\* The constructor throws when more than one dimension would hold all units; "all but one
\* element in the distribution spec must be NONE".
TeamSpecIsValid(dist) ==
    is_tiled(dist) \/ \E d \in DOMAIN dist : \A e \in DOMAIN dist : dist[e].type # "none" <=> d = e

UnitCoords(units, u) == Coords(units, "row", u)

UnitAt(units, point) == At(units, "row", point)

\* The prime factors of n, the largest first, each as often as it divides n.
factorize[n \in Nat \ {0}] ==
    IF n = 1 THEN <<>>
    ELSE LET smallest == CHOOSE i \in 2 .. n : n % i = 0 /\ \A j \in 2 .. (i - 1) : n % j # 0
         IN Append(factorize[n \div smallest], smallest)

\* One turn of the loop of balance_extents: a factor goes to a smallest extent.
GiveToSmallest(sorted, factor) ==
    SortSeq([sorted EXCEPT ![Len(sorted)] = @ * factor], LAMBDA a, b : a > b)

\* TeamSpec::balance_extents
balance_extents(units) ==
    IF Len(units) <= 1 THEN units
    ELSE FoldLeft(GiveToSmallest, [d \in DOMAIN units |-> 1], factorize[Volume(units)])

\* TeamSpec::neighbor, -1 for UNDEFINED_TEAM_UNIT_ID.
neighbor(units, myid, offsets) ==
    LET c == Shifted(UnitCoords(units, myid), offsets)
    IN IF \A d \in DOMAIN units : c[d] \in 0 .. (units[d] - 1) THEN UnitAt(units, c) ELSE -1

\* Wraps around at the lower end only.
PeriodicBelow(units, myid, offsets) ==
    LET c == Shifted(UnitCoords(units, myid), offsets)
    IN UnitAt(units, [d \in DOMAIN units |-> IF c[d] < 0 THEN units[d] + offsets[d] ELSE c[d]])

\* TeamSpec::periodic_neighbor
periodic_neighbor(units, myid, offsets) ==
    LET c == Shifted(UnitCoords(units, myid), offsets)
    IN UnitAt(units, [d \in DOMAIN units |->
           IF c[d] < 0 THEN units[d] + offsets[d] ELSE c[d] % units[d]])
=============================================================================
