----------------------------- MODULE IndexMaps -----------------------------
(***************************************************************************)
(* A container of every pattern class, filled element by element the way   *)
(* a loop over its global index range fills it: the pattern says in which  *)
(* unit's memory, and where there, an element belongs.  The pattern and    *)
(* its grid of units are chosen at the start and never change.             *)
(***************************************************************************)
EXTENDS Cartesian, FiniteSets

CONSTANTS
    Shapes,      \* extents of the containers
    Dists,       \* distributions, one for each dimension
    Teams,       \* numbers of units
    Offsets,     \* offsets asked of neighbor and periodic_neighbor
    Sizes        \* local sizes of the irregular patterns

B == INSTANCE BlockPattern
T == INSTANCE TilePattern
Q == INSTANCE SeqTilePattern
S == INSTANCE ShiftTilePattern
L == INSTANCE LinearPattern

VARIABLES
    pat,         \* the pattern: its class, and the record its operators take
    next,        \* elements stored so far, in the canonical order of the container
    memory       \* the places they were stored at

vars == <<pat, next, memory>>

\* The grid of a team: as TeamSpec(distribution, team) makes it, or balanced.
Grids(dist, n) ==
    (IF TeamSpecIsValid(dist) THEN {TeamSpecOf(dist, n)} ELSE {})
        \cup {balance_extents([d \in DOMAIN dist |-> IF d = 1 THEN n ELSE 1])}

Regular ==
    {[class |-> c, team |-> n, p |-> [extents |-> e, dist |-> d, units |-> g, order |-> o]] :
        <<c, n, e, d, g, o>> \in
            UNION {{"block", "tile", "seqtile", "shifttile"} \X {n} \X {e} \X {d} \X Grids(d, n) \X {"row", "col"} :
                       <<n, e, d>> \in {t \in Teams \X Shapes \X Dists : Len(t[2]) = Len(t[3])}}}

Linear ==
    {[class |-> c, team |-> n, p |-> [size |-> e[1], dist |-> d[1], nunits |-> n]] :
        <<c, n, e, d>> \in {t \in {"block1d", "tile1d"} \X Teams \X Shapes \X Dists :
                               Len(t[3]) = 1 /\ Len(t[4]) = 1}}

Irregular ==
    {[class |-> c, team |-> Len(s), p |-> s] : <<c, s>> \in {"csr", "dynamic"} \X Sizes}

Patterns ==
    {r \in Regular : Len(r.p.extents) > 1 /\ (r.class = "shifttile" => is_tiled(r.p.dist))}
        \cup Linear \cup Irregular

----------------------------------------------------------------------------
\* What the member functions of the class of r answer.

IsGrid(r) == r.class \in {"block", "tile", "seqtile", "shifttile"}
IsLinear(r) == r.class \in {"block1d", "tile1d"}

ExtentsOf(r) ==
    IF IsGrid(r) THEN r.p.extents ELSE IF IsLinear(r) THEN <<r.p.size>> ELSE <<L!SizeOf(r.p)>>

Element(r, n) == Coords(ExtentsOf(r), IF IsGrid(r) THEN r.p.order ELSE "row", n)

PlaceOf(r, point) ==
    CASE r.class = "block" -> B!local_index(r.p, point)
      [] r.class = "tile" -> T!local_index(r.p, point)
      [] r.class = "seqtile" -> Q!local_index(r.p, point)
      [] r.class = "shifttile" -> S!local_index(r.p, point)
      [] r.class = "block1d" -> L!local_block1d(r.p, point[1])
      [] r.class = "tile1d" -> L!local_tile1d(r.p, point[1])
      [] r.class = "csr" -> L!csr_local(r.p, point[1])
      [] r.class = "dynamic" -> L!dynamic_local(r.p, point[1])

ElementAt(r, place) ==
    CASE r.class = "block" -> B!coords(r.p, B!global(r.p, place.unit, place.index))
      [] r.class = "tile" -> T!coords(r.p, T!global(r.p, place.unit, place.index))
      [] r.class = "seqtile" -> Q!coords(r.p, Q!global(r.p, place.unit, place.index))
      [] r.class = "shifttile" -> S!coords(r.p, S!global(r.p, place.unit, place.index))
      [] IsLinear(r) -> <<L!global(r.p, place.unit, place.index)>>
      [] OTHER -> <<L!csr_global(r.p, place.unit, place.index)>>

LocalSize(r, unit) ==
    CASE r.class = "block" -> B!local_size(r.p, unit)
      [] r.class = "tile" -> T!local_size(r.p, unit)
      [] r.class = "seqtile" -> Q!local_size(r.p, unit)
      [] r.class = "shifttile" -> S!local_size(r.p, unit)
      [] IsLinear(r) -> L!local_size(r.p, unit)
      [] OTHER -> r.p[unit + 1]

----------------------------------------------------------------------------
Init ==
    /\ pat \in Patterns
    /\ next = 0
    /\ memory = {}

Store ==
    /\ next < Volume(ExtentsOf(pat))
    /\ next' = next + 1
    /\ memory' = memory \cup {PlaceOf(pat, Element(pat, next))}
    /\ UNCHANGED pat

Spec == Init /\ [][Store]_vars

----------------------------------------------------------------------------
\* The blocks of an element: in the container, and among those of its unit.

BlockView(r, point) ==
    CASE r.class = "block" -> B!block(r.p, B!block_at(r.p, point))
      [] r.class = "tile" -> T!block(r.p, T!block_at(r.p, point))
      [] r.class = "seqtile" -> Q!block(r.p, Q!block_at(r.p, point))
      [] r.class = "shifttile" -> S!block(r.p, S!block_at(r.p, point))
      [] IsLinear(r) -> L!block(r.p, point[1] \div L!blocksize(r.p))
      [] OTHER -> L!csr_block(r.p, PlaceOf(r, point).unit)

LocalBlockViews(r, unit) ==
    CASE r.class = "block" -> {B!local_block(r.p, unit, i) : i \in 0 .. (Volume(B!local_blockspec(r.p, unit)) - 1)}
      [] r.class = "tile" -> {T!local_block(r.p, unit, i) : i \in 0 .. (Volume(T!local_blockspec(r.p, unit)) - 1)}
      [] r.class = "seqtile" -> {Q!local_block(r.p, unit, i) : i \in 0 .. (Volume(Q!local_blockspec(r.p, unit)) - 1)}
      [] r.class = "shifttile" -> {S!local_block(r.p, unit, i) : i \in 0 .. (Volume(S!local_blockspec(r.p)) - 1)}
      [] IsLinear(r) -> {L!local_block(r.p, unit, i) : i \in 0 .. (L!num_local_blocks(r.p, unit) - 1)}
      [] OTHER -> {L!csr_block(r.p, unit)}

WholeBlocks(r) ==
    IsGrid(r) => \A d \in DOMAIN r.p.extents : T!underfilled_blocksize(r.p, d) = 0

\* The other classes cut the last block to the extents of the container.
ExactBlocks(r) == r.class \notin {"tile", "seqtile", "shifttile"} \/ WholeBlocks(r)

\* ShiftTilePattern is meant for tiles in every dimension, of which there are two, and a
\* multiple of the number of units in the major one.
EvenlyDealt(r) ==
    r.class = "shifttile" =>
        /\ Len(r.p.dist) = 2 /\ \A d \in DOMAIN r.p.dist : r.p.dist[d].type = "tile"
        /\ T!blockspec(r.p)[S!major_tiled_dim(r.p)] % r.team = 0
        /\ \A d \in DOMAIN r.p.extents : T!blockspec(r.p)[d] % r.p.units[d] = 0

\* Two elements never share a place; every place is within the memory that the unit
\* allocates, local_size() elements; and with whole blocks all of that memory is used.
\* (An underfilled block of a tile pattern is stored with its holes, local_size() does not
\* count them.)
StorageIsExact ==
    EvenlyDealt(pat) =>
        /\ Cardinality(memory) = next
        /\ pat.class \notin {"tile", "shifttile"} \/ WholeBlocks(pat)
           => \A m \in memory : m.unit < pat.team /\ m.index \in 0 .. (LocalSize(pat, m.unit) - 1)
        /\ next = Volume(ExtentsOf(pat)) /\ ExactBlocks(pat)
           => next = FoldFunction(Plus, 0, [u \in 0 .. (pat.team - 1) |-> LocalSize(pat, u)])

\* The block an element is said to be in contains it, and the unit that stores the element
\* has that same block among its local blocks.
BlocksHoldElements ==
    next < Volume(ExtentsOf(pat)) /\ EvenlyDealt(pat) =>
        LET e == Element(pat, next)
            b == BlockView(pat, e)
        IN /\ InView(b, e)
           /\ \E v \in LocalBlockViews(pat, PlaceOf(pat, e).unit) :
                 v.offsets = b.offsets /\ InView(v, e) /\ (ExactBlocks(pat) => v = b)

\* What the other lookups of a class answer fits the place of the element.
LookupFits(r, e, place) ==
    LET u == place.unit IN
    CASE r.class = "block" ->
           LET g == At(r.p.extents, r.p.order, e)
               lb == B!local_block_at(r.p, u, e)
           IN /\ B!is_local(r.p, g, u)
              /\ g >= B!local_range(r.p, u)[1] /\ g < B!local_range(r.p, u)[2]
              /\ B!local_size(r.p, u) <= B!local_capacity(r.p)
              /\ InView(B!local_block_local(r.p, u, lb.index), B!local_coords(r.p, e))
      [] r.class = "tile" ->
           LET lb == T!local_block_at(r.p, u, e)
           IN /\ lb.unit = u
              /\ InView(T!local_block_local(r.p, u, lb.index), T!local_coords(r.p, e))
      [] r.class = "seqtile" ->
           LET l == Q!local(r.p, e)
           IN /\ l.unit = u /\ Q!local_at(r.p, u, l.coords) = place.index
              /\ InView(Q!local_block_local(r.p, u, place.index \div Volume(T!blocksizespec(r.p))), l.coords)
      [] r.class = "shifttile" ->
           LET l == S!local_coords(r.p, e)
           IN /\ S!local_at(r.p, l) = place.index
              /\ InView(S!local_block_local(r.p, place.index \div Volume(T!blocksizespec(r.p))), l)
      [] IsLinear(r) -> L!unit_at(r.p, e[1]) = u /\ place.index < L!local_capacity(r.p)
      [] OTHER ->
           /\ L!csr_is_local(r.p, e[1], u)
           /\ r.class = "dynamic" => L!dynamic_unit_at(r.p, e[1]) = u

\* Going from an element to its place and from the place back ends where it began: local()
\* and global() of every pattern class are inverse, although each class computes them by
\* formulas of its own.  The other ways to look the element up agree with them: the owner by
\* unit, by local index range and by is_local, the local index by local coordinates, the
\* local block by either.
RoundTrip ==
    next < Volume(ExtentsOf(pat)) /\ EvenlyDealt(pat) =>
        LET e == Element(pat, next)
            place == PlaceOf(pat, e)
        IN ElementAt(pat, place) = e /\ LookupFits(pat, e, place)

\* In the grid of units, balanced or not, every unit of the team has a place, and going to
\* a neighbour and back by the opposite offset returns to the unit it started from, with
\* and without wrapping around.
NeighboursAreMutual ==
    IsGrid(pat) /\ next = 0 =>
        \A u \in 0 .. (pat.team - 1), o \in [DOMAIN pat.p.units -> Offsets] :
            LET back == [d \in DOMAIN o |-> -o[d]]
                n == neighbor(pat.p.units, u, o)
                m == periodic_neighbor(pat.p.units, u, o)
            IN /\ UnitAt(pat.p.units, UnitCoords(pat.p.units, u)) = u
               /\ n # -1 => n = m /\ neighbor(pat.p.units, n, back) = u
               /\ periodic_neighbor(pat.p.units, m, back) = u
=============================================================================
