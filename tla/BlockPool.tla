----------------------------- MODULE BlockPool -----------------------------
(***************************************************************************)
(* What the local memory pool of a unit promises to the callers of         *)
(* dart_memalloc / dart_memfree (and dart_allocator_alloc / _free): blocks *)
(* of a power of two of leaves, aligned to their own size, that never      *)
(* overlap; an allocation is refused only when no aligned block of its     *)
(* size is free; freeing anything that is not the start of a block handed  *)
(* out before changes nothing.                                             *)
(***************************************************************************)
EXTENDS Integers, FiniteSets

CONSTANTS Leaves,       \* number of allocation units of the pool
          Sizes         \* block sizes, in leaves, that callers may ask for

VARIABLES held,         \* blocks handed out and not freed: [off, size]
          answer        \* outcome of the latest operation

Leaf(b) == b.off .. (b.off + b.size - 1)

Busy(h) == UNION {Leaf(b) : b \in h}

\* The blocks of size n that could be handed out beside the blocks h.
FreeBlocks(h, n) ==
    {b \in [off : 0 .. (Leaves - 1), size : {n}] :
        /\ b.off % n = 0
        /\ b.off + n <= Leaves
        /\ Leaf(b) \cap Busy(h) = {}}

Init == held = {} /\ answer = "none"

Grant ==
    \E n \in Sizes : \E b \in FreeBlocks(held, n) :
        held' = held \cup {b} /\ answer' = "block"

Refuse ==
    /\ \E n \in Sizes : n > Leaves \/ FreeBlocks(held, n) = {}
    /\ answer' = "nomem"
    /\ UNCHANGED held

Release ==
    \E b \in held : held' = held \ {b} /\ answer' = "freed"

Reject ==
    /\ answer' \in {"inval", "abort"}
    /\ UNCHANGED held

Ask ==
    /\ answer' = "none"
    /\ UNCHANGED held

Next == Grant \/ Refuse \/ Release \/ Reject \/ Ask

Spec == Init /\ [][Next]_<<held, answer>>
=============================================================================
