------------------------ MODULE LinearPattern_proofs ------------------------
(***************************************************************************)
(* The regular patterns of one dimension map elements and places one to    *)
(* one, for every size of the container, every distribution and every      *)
(* number of units.  The arithmetic is that of a number with three digits: *)
(* an index is (row * units + unit) * blocksize + rest, a place is the     *)
(* unit and row * blocksize + rest.                                        *)
(***************************************************************************)
EXTENDS LinearPattern, TLAPS

\* BlockPattern<1> and TilePattern<1> as their constructors make them.
IsDistribution(dist) ==
    /\ dist.type \in {"none", "blocked", "cyclic", "blockcyclic", "tile"}
    /\ dist.type \in {"blockcyclic", "tile"} => dist.blocksz \in Nat \ {0}

IsPattern(q) == q.size \in Nat \ {0} /\ q.nunits \in Nat \ {0} /\ IsDistribution(q.dist)

\* Quotient and remainder.
LEMMA DivMod ==
  \A n \in Nat, m \in Nat \ {0} :
     /\ n \div m \in Nat /\ n % m \in 0 .. (m - 1)
     /\ n = (n \div m) * m + (n % m)
  OBVIOUS

\* They are the only ones.
LEMMA DivModUnique ==
  \A m \in Nat \ {0}, k \in Nat : \A r \in 0 .. (m - 1) :
     (k * m + r) \div m = k /\ (k * m + r) % m = r
  OBVIOUS

\* div_ceil blocks hold all elements, one block less does not.
LEMMA CeilCovers ==
  \A n \in Nat \ {0}, m \in Nat \ {0} :
     div_ceil(n, m) \in Nat \ {0} /\ div_ceil(n, m) * m >= n /\ (div_ceil(n, m) - 1) * m < n
<1> TAKE n \in Nat \ {0}, m \in Nat \ {0}
<1> DEFINE k == n \div m
           r == n % m
<1>1. k \in Nat /\ r \in 0 .. (m - 1) /\ n = k * m + r
  BY DivMod
<1>2. div_ceil(n, m) = IF r > 0 THEN k + 1 ELSE k
  BY <1>1 DEF div_ceil
<1> HIDE DEF k, r
<1>3. (k + 1) * m = k * m + m /\ (k + 1 - 1) * m = k * m /\ (k - 1) * m = k * m - m /\ k * m \in Nat
  BY <1>1
<1>4. k = 0 => k * m = 0
  OBVIOUS
<1>5. CASE r > 0
  BY <1>1, <1>2, <1>3, <1>5
<1>6. CASE r = 0
  BY <1>1, <1>2, <1>3, <1>4, <1>6
<1> QED
  BY <1>1, <1>5, <1>6

\* The two digits of a block: its row and its unit.
LEMMA Digits ==
  \A n \in Nat \ {0}, k \in Nat, row \in Nat : \A u \in 0 .. (n - 1) :
     k = row * n + u => /\ k \div n = row /\ k % n = u
                        /\ k < n => row = 0 /\ u = k
<1> TAKE n \in Nat \ {0}, k \in Nat, row \in Nat
<1> TAKE u \in 0 .. (n - 1)
<1> HAVE k = row * n + u
<1>1. k \div n = row /\ k % n = u
  BY DivModUnique
<1>2. row >= 1 => row * n >= n
  OBVIOUS
<1>3. row = 0 => row * n = 0
  OBVIOUS
<1>4. row * n \in Nat
  OBVIOUS
<1> DEFINE p == row * n
<1> HIDE DEF p
<1>5. k = p + u /\ p \in Nat /\ (row >= 1 => p >= n) /\ (row = 0 => p = 0)
  BY <1>2, <1>3, <1>4 DEF p
<1>6. k < n => row = 0 /\ u = k
  BY <1>5
<1> QED
  BY <1>1, <1>6

\* Products of natural numbers grow with their factors.
LEMMA Monotone ==
  \A a, b, c \in Nat : /\ a <= b => a * c <= b * c
                       /\ (a + 1) * c = a * c + c /\ a * c \in Nat
  OBVIOUS

----------------------------------------------------------------------------
\* Blocks dealt in turn.  Blocks(n, nb, u): the blocks of unit u out of nb.
Blocks(n, nb, u) == (nb \div n) + (IF u < nb % n THEN 1 ELSE 0)

LastUnit(n, nb) == IF nb % n = 0 THEN n - 1 ELSE (nb % n) - 1

\* Block k is the row-th of unit u: it is one of the nb blocks just when row is one of the
\* unit's, and the last one just when it is the last of the last unit.
LEMMA BlocksOfUnit ==
  \A n, nb \in Nat \ {0} : \A row \in Nat : \A u \in 0 .. (n - 1) :
     /\ Blocks(n, nb, u) \in Nat
     /\ row * n + u < nb <=> row < Blocks(n, nb, u)
     /\ row * n + u = nb - 1 <=> row = Blocks(n, nb, u) - 1 /\ u = LastUnit(n, nb)
<1> TAKE n \in Nat \ {0}, nb \in Nat \ {0}
<1> TAKE row \in Nat
<1> TAKE u \in 0 .. (n - 1)
<1> DEFINE q == nb \div n
           more == nb % n
<1>1. q \in Nat /\ more \in 0 .. (n - 1) /\ nb = q * n + more
  BY DivMod
<1>2. Blocks(n, nb, u) = q + (IF u < more THEN 1 ELSE 0)
  BY DEF Blocks
<1>3. LastUnit(n, nb) = IF more = 0 THEN n - 1 ELSE more - 1
  BY DEF LastUnit
<1> HIDE DEF q, more
<1>4. /\ row < q - 1 => row * n + n + n <= q * n
      /\ row = q - 1 => row * n + n = q * n
      /\ row = q => row * n = q * n
      /\ row > q => row * n >= q * n + n
      /\ row * n \in Nat /\ q * n \in Nat
  <2>1. row < q - 1 => (row + 1 + 1) * n <= q * n
    BY <1>1, Monotone
  <2>2. row = q - 1 => (row + 1) * n = q * n
    BY <1>1
  <2>3. row > q => (q + 1) * n <= row * n
    BY <1>1, Monotone
  <2>4. (row + 1 + 1) * n = row * n + n + n /\ (row + 1) * n = row * n + n /\ (q + 1) * n = q * n + n
    BY <1>1
  <2>5. row * n \in Nat /\ q * n \in Nat
    BY <1>1
  <2> QED
    BY <2>1, <2>2, <2>3, <2>4, <2>5
<1> DEFINE p == row * n
           s == q * n
<1> HIDE DEF p, s
<1>5. /\ row < q - 1 => p + n + n <= s
      /\ row = q - 1 => p + n = s
      /\ row = q => p = s
      /\ row > q => p >= s + n
      /\ p \in Nat /\ s \in Nat /\ nb = s + more
  BY <1>1, <1>4 DEF p, s
<1>6. Blocks(n, nb, u) \in Nat
  BY <1>1, <1>2
<1>7. p + u < nb <=> row < Blocks(n, nb, u)
  BY <1>1, <1>2, <1>5
<1>8. p + u = nb - 1 <=> row = Blocks(n, nb, u) - 1 /\ u = LastUnit(n, nb)
  BY <1>1, <1>2, <1>3, <1>5
<1> QED
  BY <1>6, <1>7, <1>8 DEF p

\* The memory of unit u: its blocks, the last of all being cut to the size of the range.
Room(b, n, nb, size, u) == Blocks(n, nb, u) * b - (IF u = LastUnit(n, nb) THEN nb * b - size ELSE 0)

\* Room is a number.
LEMMA RoomType ==
  \A b, n, nb, size \in Nat \ {0} : \A u \in 0 .. (n - 1) : Room(b, n, nb, size, u) \in Int
<1> TAKE b, n, nb, size \in Nat \ {0}
<1> TAKE u \in 0 .. (n - 1)
<1>1. nb \div n \in Nat
  BY DivMod
<1>2. Blocks(n, nb, u) \in Nat
  BY <1>1 DEF Blocks
<1> QED
  BY <1>2 DEF Room

\* An index within the row-th block of unit u is in the range just when its place is in the
\* memory of the unit.
LEMMA RangeIsRoom ==
  \A b, n, nb, size \in Nat \ {0} : nb * b >= size /\ (nb - 1) * b < size =>
     \A row \in Nat : \A u \in 0 .. (n - 1), r \in 0 .. (b - 1) :
        (row * n + u) * b + r < size <=> row * b + r < Room(b, n, nb, size, u)
<1> TAKE b, n, nb, size \in Nat \ {0}
<1> HAVE nb * b >= size /\ (nb - 1) * b < size
<1> TAKE row \in Nat
<1> TAKE u \in 0 .. (n - 1), r \in 0 .. (b - 1)
<1> DEFINE k == row * n + u
           T == Blocks(n, nb, u)
           last == u = LastUnit(n, nb)
           kb == k * b
           rb == row * b
           Tb == T * b
           nbb == nb * b
<1>1. k \in Nat /\ T \in Nat /\ (k < nb <=> row < T) /\ (k = nb - 1 <=> row = T - 1 /\ last)
  <2>1. k \in Nat
    OBVIOUS
  <2> QED
    BY <2>1, BlocksOfUnit
<1>2. Room(b, n, nb, size, u) = Tb - (IF last THEN nbb - size ELSE 0)
  BY DEF Room
<1> HIDE DEF k, T, last
<1>3. /\ kb \in Nat /\ rb \in Nat /\ Tb \in Nat /\ nbb \in Nat
      /\ nbb >= size /\ nbb - b < size
  <2>1. (nb - 1) * b = nb * b - b
    OBVIOUS
  <2> QED
    BY <1>1, <2>1
<1>4. /\ k >= nb => kb >= nbb
      /\ k < nb - 1 => kb + b + b <= nbb
      /\ k = nb - 1 => kb + b = nbb
  <2>1. k >= nb => kb >= nbb
    BY <1>1, Monotone
  <2>2. k < nb - 1 => (k + 1 + 1) * b <= nbb
    BY <1>1, Monotone
  <2>3. (k + 1 + 1) * b = kb + b + b /\ (k + 1) * b = kb + b
    BY <1>1
  <2>4. k = nb - 1 => (k + 1) * b = nbb
    BY <1>1
  <2> QED
    BY <2>1, <2>2, <2>3, <2>4
<1>5. /\ row >= T => rb >= Tb
      /\ row < T - 1 => rb + b + b <= Tb
      /\ row = T - 1 => rb + b = Tb
  <2>1. row >= T => rb >= Tb
    BY <1>1, Monotone
  <2>2. row < T - 1 => (row + 1 + 1) * b <= Tb
    BY <1>1, Monotone
  <2>3. (row + 1 + 1) * b = rb + b + b /\ (row + 1) * b = rb + b
    OBVIOUS
  <2>4. row = T - 1 => (row + 1) * b = Tb
    BY <1>1
  <2> QED
    BY <2>1, <2>2, <2>3, <2>4
<1> HIDE DEF kb, rb, Tb, nbb
<1>6. kb + r < size <=> rb + r < Tb - (IF last THEN nbb - size ELSE 0)
  <2>1. CASE k >= nb
    BY <1>1, <1>3, <1>4, <1>5, <2>1
  <2>2. CASE k < nb - 1
    BY <1>1, <1>3, <1>4, <1>5, <2>2
  <2>3. CASE k = nb - 1
    BY <1>1, <1>3, <1>4, <1>5, <2>3
  <2> QED
    BY <1>1, <2>1, <2>2, <2>3
<1> QED
  BY <1>2, <1>6 DEF kb, rb, k

----------------------------------------------------------------------------
\* What the constructor computes: max_blocksize_in_range.
LEMMA BlocksizeType ==
  ASSUME NEW q, IsPattern(q)
  PROVE  /\ blocksize(q) \in Nat \ {0}
         /\ q.dist.type = "none" => blocksize(q) = q.size
         /\ q.dist.type = "cyclic" => blocksize(q) = 1
         /\ q.dist.type = "blocked" => blocksize(q) * q.nunits >= q.size
         /\ q.dist.type \in {"blockcyclic", "tile"} =>
               blocksize(q) = q.dist.blocksz \/ (blocksize(q) = q.size /\ q.size <= q.dist.blocksz)
  BY CeilCovers DEF IsPattern, IsDistribution, blocksize, max_blocksize_in_range

\* initialize_local_extent: the memory of a unit is the room for its blocks.
LEMMA LocalSizeIsRoom ==
  ASSUME NEW q, IsPattern(q), NEW u \in 0 .. (q.nunits - 1)
  PROVE  /\ nblocks(q) \in Nat \ {0}
         /\ nblocks(q) * blocksize(q) >= q.size /\ (nblocks(q) - 1) * blocksize(q) < q.size
         /\ local_size(q, u) = Room(blocksize(q), q.nunits, nblocks(q), q.size, u)
<1> DEFINE b == blocksize(q)
           n == q.nunits
           nb == nblocks(q)
           k == q.size \div b
           s == q.size % b
<1>1. b \in Nat \ {0} /\ n \in Nat \ {0} /\ q.size \in Nat \ {0}
  BY BlocksizeType DEF IsPattern
<1> HIDE DEF b
<1>2. nb = div_ceil(q.size, b)
  BY DEF nblocks, b
<1>3. nb \in Nat \ {0} /\ nb * b >= q.size /\ (nb - 1) * b < q.size
  BY <1>1, <1>2, CeilCovers
<1>4. k \in Nat /\ s \in 0 .. (b - 1) /\ q.size = k * b + s /\ nb = IF s > 0 THEN k + 1 ELSE k
  <2>1. k \in Nat /\ s \in 0 .. (b - 1) /\ q.size = k * b + s
    BY <1>1, DivMod
  <2>2. nb = k + (IF s > 0 THEN 1 ELSE 0)
    BY <1>2 DEF div_ceil
  <2> HIDE DEF k, s, nb
  <2> QED
    BY <2>1, <2>2
<1>5. underfilled_blocksize(q) = IF s = 0 THEN 0 ELSE b - s
  BY DEF underfilled_blocksize, b
<1> HIDE DEF k, s, nb
<1>6. underfilled_blocksize(q) = nb * b - q.size
  <2>1. (k + 1) * b = k * b + b /\ k * b \in Nat
    BY <1>1, <1>4
  <2>2. CASE s = 0
    BY <1>1, <1>4, <1>5, <2>1, <2>2
  <2>3. CASE s > 0
    BY <1>1, <1>4, <1>5, <2>1, <2>3
  <2> QED
    BY <1>4, <2>2, <2>3
<1>7. CASE nb = 1 /\ n = 1
  <2>1. u = 0 /\ nb \div n = 1 /\ nb % n = 0
    BY <1>7
  <2>2. Blocks(n, nb, u) = 1 /\ LastUnit(n, nb) = 0
    BY <1>7, <2>1 DEF Blocks, LastUnit
  <2>3. Room(b, n, nb, q.size, u) = 1 * b - (nb * b - q.size)
    BY <2>1, <2>2 DEF Room
  <2>4. local_size(q, u) = q.size
    BY <1>7 DEF local_size, nb
  <2> QED
    BY <1>1, <1>3, <1>7, <2>3, <2>4 DEF nb, b
<1>8. CASE ~(nb = 1 /\ n = 1)
  <2> DEFINE d == nb \div n
             m == nb % n
             mine == IF u < m THEN 1 ELSE 0
             cut == IF u = LastUnit(n, nb) THEN nb * b - q.size ELSE 0
  <2>1. d \in Nat /\ m \in 0 .. (n - 1) /\ mine \in {0, 1}
    BY <1>1, <1>3, DivMod
  <2>2. local_size(q, u) = d * b + (IF u < m THEN b ELSE 0) - cut
    <3>1. local_size(q, u) = d * b + (IF u < m THEN b ELSE 0)
                             - (IF u = LastUnit(n, nb) THEN underfilled_blocksize(q) ELSE 0)
      BY <1>8, Zenon DEF local_size, LastUnit, nb, b
    <3> QED
      BY <1>6, <3>1
  <2>3. Room(b, n, nb, q.size, u) = (d + mine) * b - cut
    BY DEF Room, Blocks
  <2>4. cut \in Int
    BY <1>1, <1>3
  <2> HIDE DEF d, cut
  <2>5. (d + mine) * b = d * b + (IF u < m THEN b ELSE 0) /\ d * b \in Nat
    BY <1>1, <2>1
  <2> HIDE DEF mine, m
  <2>6. local_size(q, u) = Room(b, n, nb, q.size, u)
    BY <1>1, <2>2, <2>3, <2>4, <2>5
  <2> QED
    BY <1>3, <2>6 DEF nb, b
<1> QED
  BY <1>7, <1>8

\* local: the block of an element is dealt to a unit, and comes after the unit's earlier ones.
LEMMA LocalIsDealt ==
  ASSUME NEW q, IsPattern(q),
         NEW row \in Nat, NEW u \in 0 .. (q.nunits - 1), NEW r \in 0 .. (blocksize(q) - 1)
  PROVE  LET g == (row * q.nunits + u) * blocksize(q) + r
         IN /\ local_block1d(q, g) = [unit |-> u, index |-> row * blocksize(q) + r]
            /\ local_tile1d(q, g) = [unit |-> u, index |-> row * blocksize(q) + r]
<1> DEFINE b == blocksize(q)
           n == q.nunits
           k == row * n + u
           g == k * b + r
<1>1. b \in Nat \ {0} /\ n \in Nat \ {0}
  BY BlocksizeType DEF IsPattern
<1>2. k \in Nat
  BY <1>1
<1>3. k \div n = row /\ k % n = u
  BY <1>1, DivModUnique
<1>4. g \div b = k /\ g % b = r
  <2> HIDE DEF k, b
  <2> QED
    BY <1>1, <1>2, DivModUnique DEF b
<1> QED
  BY <1>3, <1>4 DEF local_block1d, local_tile1d, unit_at

\* global: local_index_to_block_coord finds the block of a place back.
LEMMA GlobalFindsBlock ==
  ASSUME NEW q, IsPattern(q),
         NEW row \in Nat, NEW u \in 0 .. (q.nunits - 1), NEW r \in 0 .. (blocksize(q) - 1),
         (row * q.nunits + u) * blocksize(q) + r < q.size
  PROVE  global(q, u, row * blocksize(q) + r) = (row * q.nunits + u) * blocksize(q) + r
<1> DEFINE b == blocksize(q)
           n == q.nunits
           k == row * n + u
           l == row * b + r
<1>1. b \in Nat \ {0} /\ n \in Nat \ {0} /\ l \in Nat /\ q.size \in Nat
  BY BlocksizeType DEF IsPattern
<1>2. k \in Nat
  BY <1>1
<1>3. k < n => row = 0 /\ u = k
  BY <1>1, <1>2, Digits
<1>4. l \div b = row /\ l % b = r
  <2> HIDE DEF b
  <2> QED
    BY <1>1, DivModUnique DEF b
<1>5. k * b + r < q.size
  OBVIOUS
<1> HIDE DEF b, k
<1>6. k >= 1 => k * b >= b
  BY <1>1, <1>2
<1>7. CASE n < 2
  <2>1. n = 1 /\ u = 0
    BY <1>1, <1>7
  <2>2. k = row
    BY <2>1 DEF k
  <2>3. global(q, u, l) = l
    BY <1>7 DEF global
  <2> QED
    BY <2>2, <2>3 DEF k, b
<1>8. CASE n >= 2 /\ local_index_to_block_coord(q.dist, u, l, n) = k
  <2>1. global(q, u, l) = k * b + (l % b)
    BY <1>1, <1>8 DEF global, b
  <2> QED
    BY <1>4, <2>1 DEF k, b
<1>9. local_index_to_block_coord(q.dist, u, l, n) = k
  <2>1. CASE q.dist.type = "none"
    <3>1. b = q.size
      BY <2>1, BlocksizeType DEF b
    <3>2. k = 0
      BY <1>1, <1>2, <1>5, <1>6, <3>1
    <3> QED
      BY <2>1, <3>2 DEF local_index_to_block_coord
  <2>2. CASE q.dist.type = "blocked"
    <3>1. b * n >= q.size
      BY <2>2, BlocksizeType DEF b
    <3>2. k < n
      <4> SUFFICES ASSUME k >= n PROVE FALSE
        BY <1>1, <1>2
      <4>1. n * b <= k * b /\ n * b = b * n
        BY <1>1, <1>2, Monotone
      <4> QED
        BY <1>1, <1>2, <1>5, <3>1, <4>1
    <3> QED
      BY <1>3, <2>2, <3>2 DEF local_index_to_block_coord
  <2>3. CASE q.dist.type \in {"blockcyclic", "tile"} /\ b = q.dist.blocksz
    BY <1>4, <2>3 DEF local_index_to_block_coord, k
  <2>4. CASE q.dist.type \in {"blockcyclic", "tile"} /\ b = q.size /\ q.size <= q.dist.blocksz
    <3>1. k = 0
      BY <1>1, <1>2, <1>5, <1>6, <2>4
    <3>2. row = 0 /\ u = 0
      BY <1>1, <1>3, <3>1
    <3>3. q.dist.blocksz \in Nat \ {0}
      BY <2>4 DEF IsPattern, IsDistribution
    <3>4. l = r
      BY <1>1, <3>2
    <3>5. r \in 0 .. (q.dist.blocksz - 1)
      BY <1>1, <2>4, <3>3 DEF b
    <3>6. l \div q.dist.blocksz = 0
      BY <3>3, <3>4, <3>5
    <3>7. local_index_to_block_coord(q.dist, u, l, n) = (l \div q.dist.blocksz) * n + u
      BY <2>4 DEF local_index_to_block_coord
    <3> QED
      BY <1>1, <3>1, <3>2, <3>6, <3>7
  <2>5. CASE q.dist.type = "cyclic"
    <3>1. b = 1 /\ r = 0
      BY <2>5, BlocksizeType DEF b
    <3>2. l = row
      BY <3>1
    <3>3. local_index_to_block_coord(q.dist, u, l, n) = u + row * n
      BY <2>5, <3>2 DEF local_index_to_block_coord
    <3> QED
      BY <1>1, <3>3 DEF k
  <2> QED
    BY <2>1, <2>2, <2>3, <2>4, <2>5, BlocksizeType DEF IsPattern, IsDistribution, b
<1> QED
  BY <1>1, <1>7, <1>8, <1>9

----------------------------------------------------------------------------
\* BlockPattern<1> and TilePattern<1>, for every size of the container, distribution and
\* number of units: the place local() gives an element is in the memory that its unit
\* allocates and below local_capacity(), unit_at() names that unit, and global() leads back
\* to the element.  This is what RoundTrip and StorageIsExact of IndexMaps say of an element.
THEOREM ElementsHavePlaces ==
  \A q : IsPattern(q) => \A g \in 0 .. (q.size - 1) :
     \A place \in {local_block1d(q, g), local_tile1d(q, g)} :
        /\ place.unit \in 0 .. (q.nunits - 1) /\ place.unit = unit_at(q, g)
        /\ place.index \in 0 .. (local_size(q, place.unit) - 1)
        /\ place.index < local_capacity(q)
        /\ global(q, place.unit, place.index) = g
<1> TAKE q
<1> HAVE IsPattern(q)
<1> TAKE g \in 0 .. (q.size - 1)
<1> DEFINE b == blocksize(q)
           n == q.nunits
           nb == nblocks(q)
           k == g \div b
           r == g % b
           row == k \div n
           u == k % n
<1>1. b \in Nat \ {0} /\ n \in Nat \ {0} /\ q.size \in Nat \ {0} /\ g \in Nat
  BY BlocksizeType DEF IsPattern
<1>2. k \in Nat /\ r \in 0 .. (b - 1) /\ g = k * b + r
  <2> HIDE DEF b
  <2> QED
    BY <1>1, DivMod
<1>3. row \in Nat /\ u \in 0 .. (n - 1) /\ k = row * n + u
  <2> HIDE DEF k
  <2> QED
    BY <1>1, <1>2, DivMod
<1>4. unit_at(q, g) = u
  BY DEF unit_at
<1> HIDE DEF k, r, row, u
<1>5. g = (row * n + u) * b + r /\ (row * n + u) * b + r < q.size
  BY <1>1, <1>2, <1>3
<1>6. /\ local_block1d(q, g) = [unit |-> u, index |-> row * b + r]
      /\ local_tile1d(q, g) = [unit |-> u, index |-> row * b + r]
  BY <1>2, <1>3, <1>5, LocalIsDealt
<1>7. global(q, u, row * b + r) = g
  BY <1>2, <1>3, <1>5, GlobalFindsBlock
<1>8. row * b + r \in 0 .. (local_size(q, u) - 1)
  <2>1. /\ nb \in Nat \ {0} /\ nb * b >= q.size /\ (nb - 1) * b < q.size
        /\ local_size(q, u) = Room(b, n, nb, q.size, u)
    BY <1>3, LocalSizeIsRoom
  <2> HIDE DEF b, nb
  <2>2. row * b + r < Room(b, n, nb, q.size, u)
    BY <1>1, <1>2, <1>3, <1>5, <2>1, RangeIsRoom
  <2>3. row * b + r \in Nat
    BY <1>1, <1>2, <1>3
  <2>4. Room(b, n, nb, q.size, u) \in Int
    BY <1>1, <1>3, <2>1, RoomType
  <2> QED
    BY <2>1, <2>2, <2>3, <2>4
<1>9. row * b + r < local_capacity(q)
  <2> DEFINE c == div_ceil(nb, n)
  <2>1. nb \in Nat \ {0} /\ nb * b >= q.size
    BY <1>3, LocalSizeIsRoom
  <2>2. local_capacity(q) = c * b
    BY DEF local_capacity
  <2> HIDE DEF b, nb
  <2>3. c \in Nat \ {0} /\ c * n >= nb
    BY <1>1, <2>1, CeilCovers
  <2> HIDE DEF c
  <2>4. k < nb
    <3> SUFFICES ASSUME k >= nb PROVE FALSE
      BY <1>2, <2>1
    <3>1. nb * b <= k * b /\ k * b \in Nat /\ nb * b \in Nat
      BY <1>1, <1>2, <2>1, Monotone
    <3> QED
      BY <1>1, <1>2, <2>1, <3>1
  <2>5. row < c
    <3> SUFFICES ASSUME row >= c PROVE FALSE
      BY <1>3, <2>3
    <3>1. c * n <= row * n /\ row * n \in Nat /\ c * n \in Nat
      BY <1>1, <1>3, <2>3, Monotone
    <3> QED
      BY <1>1, <1>2, <1>3, <2>1, <2>3, <2>4, <3>1
  <2>6. (row + 1) * b <= c * b /\ (row + 1) * b = row * b + b /\ row * b \in Nat /\ c * b \in Nat
    BY <1>1, <1>3, <2>3, <2>5, Monotone
  <2> QED
    BY <1>1, <1>2, <2>2, <2>6
<1> QED
  BY <1>3, <1>4, <1>6, <1>7, <1>8, <1>9

\* The other way round: every index below local_size() of a unit is the place of an element
\* of the container, and local() of that element is this place.  So elements and places
\* correspond one to one: no memory is shared by two elements and none is left unused.
THEOREM PlacesHoldElements ==
  \A q : IsPattern(q) => \A u \in 0 .. (q.nunits - 1) : \A l \in 0 .. (local_size(q, u) - 1) :
     /\ global(q, u, l) \in 0 .. (q.size - 1)
     /\ local_block1d(q, global(q, u, l)) = [unit |-> u, index |-> l]
     /\ local_tile1d(q, global(q, u, l)) = [unit |-> u, index |-> l]
<1> TAKE q
<1> HAVE IsPattern(q)
<1> TAKE u \in 0 .. (q.nunits - 1)
<1> TAKE l \in 0 .. (local_size(q, u) - 1)
<1> DEFINE b == blocksize(q)
           n == q.nunits
           nb == nblocks(q)
           row == l \div b
           r == l % b
           g == (row * n + u) * b + r
<1>1. b \in Nat \ {0} /\ n \in Nat \ {0} /\ q.size \in Nat \ {0}
  BY BlocksizeType DEF IsPattern
<1>2. /\ nb \in Nat \ {0} /\ nb * b >= q.size /\ (nb - 1) * b < q.size
      /\ local_size(q, u) = Room(b, n, nb, q.size, u)
  BY LocalSizeIsRoom
<1>3. Room(b, n, nb, q.size, u) \in Int
  <2> HIDE DEF b, nb
  <2> QED
    BY <1>1, <1>2, RoomType
<1>4. l \in Nat /\ l < Room(b, n, nb, q.size, u)
  BY <1>2, <1>3
<1>5. row \in Nat /\ r \in 0 .. (b - 1) /\ l = row * b + r
  <2> HIDE DEF b
  <2> QED
    BY <1>1, <1>4, DivMod
<1> HIDE DEF row, r
<1>6. g < q.size
  <2> HIDE DEF b, nb
  <2> QED
    BY <1>1, <1>2, <1>4, <1>5, RangeIsRoom
<1>7. g \in Nat
  BY <1>1, <1>5
<1>8. global(q, u, l) = g
  BY <1>5, <1>6, GlobalFindsBlock
<1>9. /\ local_block1d(q, g) = [unit |-> u, index |-> l]
      /\ local_tile1d(q, g) = [unit |-> u, index |-> l]
  BY <1>5, LocalIsDealt
<1> HIDE DEF g
<1> QED
  BY <1>1, <1>6, <1>7, <1>8, <1>9
=============================================================================
