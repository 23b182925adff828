----------------------------- MODULE MCDashSort -----------------------------
(* Arrays of a few elements on teams of one to four units.                   *)
EXTENDS DashSort

Case(sizes, first, last) == [sizes |-> sizes, first |-> first, last |-> last]

MCCases ==
    { \* one unit, an empty range, and a range within one unit
      Case(<<3>>, 1, 3), Case(<<1, 1>>, 1, 1), Case(<<3, 1>>, 0, 2),
      \* whole arrays: full, underfilled, with units that have nothing anywhere
      Case(<<2, 2>>, 0, 4), Case(<<2, 1, 1>>, 0, 4), Case(<<2, 0, 2>>, 0, 4),
      Case(<<0, 1, 0, 2>>, 0, 3), Case(<<1, 1, 0, 1>>, 0, 3),
      \* parts of arrays: cut at both ends, at the end, at a border
      Case(<<2, 2>>, 1, 3), Case(<<1, 1, 2>>, 0, 3), Case(<<1, 2, 1>>, 1, 4) }

\* Hashes in the order of the elements, with a gap on either side of the middle value.
MCHash == <<-3, -1, 4>>

\* A hash that folds the elements, such as the remainder in the example of Sort.h.
FoldedCases == {Case(<<2, 2>>, 0, 4)}
FoldedHash == <<0, 1, 0>>
=============================================================================
