--------------------------- MODULE LinearPattern ---------------------------
(***************************************************************************)
(* The patterns of one dimension.  BlockPattern1D.h and TilePattern1D.h    *)
(* deal blocks of one size to the units in turn (ShiftTilePattern1D.h is a *)
(* copy of the latter); CSRPattern.h, LoadBalancePattern.h and             *)
(* DynamicPattern.h give every unit one block of its own size.             *)
(***************************************************************************)
EXTENDS Cartesian

\* A regular pattern q is [size, dist, nunits].

blocksize(q) == max_blocksize_in_range(q.dist, q.size, q.nunits)

nblocks(q) == div_ceil(q.size, blocksize(q))

underfilled_blocksize(q) ==
    IF q.size % blocksize(q) = 0 THEN 0 ELSE blocksize(q) - (q.size % blocksize(q))

\* initialize_local_extent
local_size(q, unit) ==
    LET more == nblocks(q) % q.nunits
        last == IF more = 0 THEN q.nunits - 1 ELSE more - 1
    IN IF nblocks(q) = 1 /\ q.nunits = 1 THEN q.size
       ELSE (nblocks(q) \div q.nunits) * blocksize(q)
            + (IF unit < more THEN blocksize(q) ELSE 0)
            - (IF unit = last THEN underfilled_blocksize(q) ELSE 0)

num_local_blocks(q, unit) == div_ceil(local_size(q, unit), blocksize(q))

local_capacity(q) == div_ceil(nblocks(q), q.nunits) * blocksize(q)

unit_at(q, g) == (g \div blocksize(q)) % q.nunits

\* BlockPattern<1>::local
local_block1d(q, g) ==
    [unit |-> unit_at(q, g),
     index |-> ((g \div blocksize(q)) \div q.nunits) * blocksize(q) + (g % blocksize(q))]

\* TilePattern<1>::local
local_tile1d(q, g) ==
    LET g_block == g \div blocksize(q)
    IN [unit |-> g_block % q.nunits,
        index |-> (g_block \div q.nunits) * blocksize(q) + (g % blocksize(q))]

global(q, unit, l) ==
    IF q.nunits < 2 THEN l
    ELSE local_index_to_block_coord(q.dist, unit, l, q.nunits) * blocksize(q) + (l % blocksize(q))

block(q, index) ==
    [offsets |-> <<index * blocksize(q)>>,
     extents |-> <<blocksize(q) - (IF index < nblocks(q) - 1 THEN 0 ELSE underfilled_blocksize(q))>>]

local_block(q, unit, lindex) ==
    LET remaining == local_size(q, unit) % blocksize(q)
    IN [offsets |-> <<global(q, unit, lindex * blocksize(q))>>,
        extents |-> <<IF lindex = num_local_blocks(q, unit) - 1 /\ remaining > 0
                      THEN remaining ELSE blocksize(q)>>]

----------------------------------------------------------------------------
\* An irregular pattern is the sequence of the units' sizes; unit u is at position u + 1.

SizeOf(sizes) == FoldFunction(Plus, 0, sizes)

\* CSRPattern: sizes that follow from a distribution of total elements.
csr_local_sizes(total, type, n) ==
    [i \in 1 .. n |->
        IF n = 1 \/ (type = "none" /\ i = 1) THEN total
        ELSE IF type = "none" THEN 0 ELSE div_ceil(total, n)]

\* LoadBalancePattern: sizes that follow from weights, given as fractions weight[i] / mean;
\* the rest goes to the first of the units with the largest share.
load_balance_sizes(total, weights) ==
    LET n == Len(weights)
        sum == SizeOf(weights)
        share(i) == IF weights[i] * n > sum THEN div_ceil(weights[i] * total, sum)
                    ELSE (weights[i] * total) \div sum
        shares == [i \in 1 .. n |-> share(i)]
        largest == CHOOSE i \in 1 .. n : \A j \in 1 .. n :
                       shares[j] < shares[i] \/ (shares[j] = shares[i] /\ i <= j)
    IN IF n = 1 THEN <<total>>
       ELSE [shares EXCEPT ![largest] = @ + (total - SizeOf(shares))]

\* initialize_block_offsets
block_offsets(sizes) == [i \in DOMAIN sizes |-> FoldFunctionOnSet(Plus, 0, sizes, 1 .. (i - 1))]

\* CSRPattern::local and LoadBalancePattern::local: the first unit whose elements are not
\* all before g.
csr_local(sizes, g) ==
    LET off == block_offsets(sizes)
        i == CHOOSE i \in DOMAIN sizes : g - off[i] < sizes[i] /\ \A j \in 1 .. (i - 1) : ~(g - off[j] < sizes[j])
    IN [unit |-> i - 1, index |-> g - off[i]]

\* DynamicPattern::local: the last unit that begins at or before g.
dynamic_local(sizes, g) ==
    LET off == block_offsets(sizes)
        i == CHOOSE i \in DOMAIN sizes : off[i] <= g /\ \A j \in DOMAIN sizes : j > i => off[j] > g
    IN [unit |-> i - 1, index |-> g - off[i]]

\* What unit_at of coordinates does: an element that begins a block belongs to the unit before.
DynamicUnitAtCoords(sizes, g) ==
    LET off == block_offsets(sizes)
        found == {i \in 1 .. (Len(sizes) - 1) : off[i + 1] >= g}
    IN IF found = {} THEN Len(sizes) - 1 ELSE (CHOOSE i \in found : \A j \in found : i <= j) - 1

\* DynamicPattern::unit_at of an index: the first unit before one that begins after g.
dynamic_unit_at(sizes, g) ==
    LET off == block_offsets(sizes)
        found == {i \in 1 .. (Len(sizes) - 1) : off[i + 1] > g}
    IN IF found = {} THEN Len(sizes) - 1 ELSE (CHOOSE i \in found : \A j \in found : i <= j) - 1

csr_global(sizes, unit, l) == IF Len(sizes) < 2 THEN l ELSE block_offsets(sizes)[unit + 1] + l

\* CSRPattern::is_local
csr_is_local(sizes, g, unit) ==
    LET off == block_offsets(sizes)
    IN g >= off[unit + 1] /\ (unit = Len(sizes) - 1 \/ g < off[unit + 2])

csr_block(sizes, index) ==
    [offsets |-> <<block_offsets(sizes)[index + 1]>>, extents |-> <<sizes[index + 1]>>]
=============================================================================
