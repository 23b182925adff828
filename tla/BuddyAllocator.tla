--------------------------- MODULE BuddyAllocator ---------------------------
(***************************************************************************)
(* The buddy allocator of dart-impl/mpi/src/dart_mem.c behind dart_memalloc *)
(* and dart_allocator_alloc.  An operation holds the allocator's mutex from *)
(* its first tree access to its return, so operations do not interleave;    *)
(* the steps below are the iterations of their loops.  Sizes and offsets    *)
(* are counted in leaves of DART_MEM_ALIGN_BYTES, requests in bytes.        *)
(***************************************************************************)
EXTENDS Integers, FiniteSets

CONSTANTS PoolBytes,    \* pool_size given to dart_allocator_new
          Requests,     \* byte counts callers ask for
          WordSize      \* 2^32: the range of is_pow_of_2's uint32_t and of int

DART_MEM_ALIGN_BYTES == 8
MaxBits == 12           \* bound on the exponents num_level is evaluated over

ASSUME PoolAssumption == PoolBytes \in Nat /\ PoolBytes > 8 /\ PoolBytes < 2^MaxBits
ASSUME RequestAssumption == Requests \subseteq Nat
ASSUME WordAssumption == WordSize \in Nat \ {0, 1}

\* num_level: the exponent of the smallest power of two not below size.
num_level(size) ==
    CHOOSE l \in 1 .. MaxBits : 2^l >= size /\ (l = 1 \/ 2^(l - 1) < size)

MaxLevel == num_level(PoolBytes) - 3
Leaves == 2^MaxLevel
Nodes == 0 .. (2 * Leaves - 2)

UNUSED == "unused"
USED == "used"
SPLIT == "split"
FULL == "full"

VARIABLES tree,         \* dart_buddy.tree
          pc,           \* the loop the mutex holder is in, or "idle"
          op,           \* its local variables
          held,         \* blocks in the hands of callers
          answer        \* what the latest operation returned

vars == <<tree, pc, op, held, answer>>

Parent(i) == ((i + 1) \div 2) - 1
Buddy(i) == i - 1 + (i % 2) * 2
Left(i) == 2 * i + 1
Right(i)  == 2 * i + 2

_index_offset(index, level) == ((index + 1) - 2^level) * 2^(MaxLevel - level)

----------------------------------------------------------------------------
\* is_pow_of_2 looks at the low word of its argument only; 0 passes.
is_pow_of_2(x) == LET w == x % WordSize IN w = 0 \/ \E l \in 0 .. MaxBits : 2^l = w

next_pow_of_2(x) ==
    IF is_pow_of_2(x) THEN x
    ELSE CHOOSE p \in {2^l : l \in 0 .. MaxBits} : p >= x /\ p < 2 * x

\* (int) cast of a size_t that is stored in a size_t again: values whose low
\* word is negative as an int become huge and are refused like any size above
\* the pool.
AsInt(x) ==
    LET w == x % WordSize IN IF w >= WordSize \div 2 THEN 2 * Leaves ELSE w

LeavesOf(s) == (s + DART_MEM_ALIGN_BYTES - 1) \div DART_MEM_ALIGN_BYTES

BlockSize(s) == AsInt(next_pow_of_2(LeavesOf(s)))

NoOp == [size |-> 0, need |-> 0, index |-> 0, level |-> 0, length |-> 0,
         at |-> 0, off |-> 0, left |-> 0]

Init ==
    /\ tree = [i \in Nodes |-> UNUSED]
    /\ pc = "idle"
    /\ op = NoOp
    /\ held = {}
    /\ answer = "none"

Return(a) == pc' = "idle" /\ op' = NoOp /\ answer' = a

----------------------------------------------------------------------------
\* dart_buddy_alloc
AllocTooLarge(s) ==
    /\ pc = "idle"
    /\ BlockSize(s) > Leaves
    /\ Return("nomem")
    /\ UNCHANGED <<tree, held>>

AllocCall(s) ==
    /\ pc = "idle"
    /\ BlockSize(s) <= Leaves
    /\ pc' = "search"
    /\ op' = [NoOp EXCEPT !.size = BlockSize(s), !.need = LeavesOf(s), !.length = Leaves]
    /\ answer' = "none"
    /\ UNCHANGED <<tree, held>>

AllocTake ==
    /\ pc = "search"
    /\ op.size = op.length
    /\ tree[op.index] = UNUSED
    /\ tree' = [tree EXCEPT ![op.index] = USED]
    /\ pc' = "mark"
    /\ op' = [op EXCEPT !.at = op.index]
    /\ UNCHANGED <<held, answer>>

Descend(t) ==
    /\ tree' = t
    /\ op' = [op EXCEPT !.index = Left(op.index), !.level = @ + 1, !.length = @ \div 2]
    /\ UNCHANGED <<pc, held, answer>>

AllocSplitKeepsMarks ==
    /\ pc = "search"
    /\ op.size # op.length
    /\ tree[op.index] = UNUSED
    /\ Right(op.index) \in Nodes
    /\ Descend([tree EXCEPT ![op.index] = SPLIT])

AllocSplit ==
    /\ pc = "search"
    /\ op.size # op.length
    /\ tree[op.index] = UNUSED
    /\ Right(op.index) \in Nodes
    /\ Descend([tree EXCEPT ![op.index] = SPLIT,
                            ![Left(op.index)] = UNUSED, ![Right(op.index)] = UNUSED])

AllocDescend ==
    /\ pc = "search"
    /\ op.size # op.length
    /\ tree[op.index] = SPLIT
    /\ Descend(tree)

\* A request of size 0 reaches a leaf and splits it: both stores to its children are
\* out of the array, whatever happens next is undefined.
AllocOffTree ==
    /\ pc = "search"
    /\ op.size # op.length
    /\ tree[op.index] = UNUSED
    /\ Right(op.index) \notin Nodes
    /\ pc' = "undefined"
    /\ UNCHANGED <<tree, op, held, answer>>

\* The node cannot serve the request: go on behind it.
AllocSkip ==
    /\ pc = "search"
    /\ \/ op.size = op.length /\ tree[op.index] # UNUSED
       \/ op.size # op.length /\ tree[op.index] \in {USED, FULL}
    /\ pc' = "skip"
    /\ UNCHANGED <<tree, op, held, answer>>

AllocRightStays ==
    /\ pc = "skip"
    /\ op.index % 2 = 1
    /\ pc' = "search"
    /\ UNCHANGED <<tree, op, held, answer>>

AllocRight ==
    /\ pc = "skip"
    /\ op.index % 2 = 1
    /\ pc' = "search"
    /\ op' = [op EXCEPT !.index = @ + 1]
    /\ UNCHANGED <<tree, held, answer>>

AllocClimb ==
    /\ pc = "skip"
    /\ op.index % 2 = 0
    /\ Parent(op.index) >= 0
    /\ op' = [op EXCEPT !.index = Parent(@), !.level = @ - 1, !.length = @ * 2]
    /\ UNCHANGED <<tree, pc, held, answer>>

AllocExhausted ==
    /\ pc = "skip"
    /\ op.index % 2 = 0
    /\ Parent(op.index) < 0
    /\ Return("nomem")
    /\ UNCHANGED <<tree, held>>

\* _mark_parent
BuddyTaken(t, i) == Buddy(i) > 0 /\ t[Buddy(i)] \in {USED, FULL}

MarkParent ==
    /\ pc = "mark"
    /\ BuddyTaken(tree, op.index)
    /\ tree' = [tree EXCEPT ![Parent(op.index)] = FULL]
    /\ op' = [op EXCEPT !.index = Parent(op.index)]
    /\ UNCHANGED <<pc, held, answer>>

AllocReturn ==
    /\ pc = "mark"
    /\ ~BuddyTaken(tree, op.index)
    /\ held' = held \cup {[off |-> _index_offset(op.at, op.level), size |-> op.size,
                           need |-> op.need]}
    /\ Return("block")
    /\ UNCHANGED tree

----------------------------------------------------------------------------
\* dart_buddy_free
FreeBeyondPool(o) ==
    /\ pc = "idle"
    /\ o >= Leaves
    /\ Return("inval")
    /\ UNCHANGED <<tree, held>>

FreeCall(o) ==
    /\ pc = "idle"
    /\ o < Leaves
    /\ pc' = "walk"
    /\ op' = [NoOp EXCEPT !.off = o, !.length = Leaves]
    /\ answer' = "none"
    /\ UNCHANGED <<tree, held>>

FreeDescend ==
    /\ pc = "walk"
    /\ tree[op.index] \in {SPLIT, FULL}
    /\ LET half == op.length \div 2
           goLeft == op.off < op.left + half IN
       op' = [op EXCEPT !.length = half,
                        !.index = IF goLeft THEN Left(@) ELSE Right(@),
                        !.left  = IF goLeft THEN @ ELSE @ + half]
    /\ UNCHANGED <<tree, pc, held, answer>>

\* Not the start of a block: error return (with assert() enabled, an abort).
FreeInside ==
    /\ pc = "walk"
    /\ tree[op.index] = USED
    /\ op.off # op.left
    /\ Return("inval")
    /\ UNCHANGED <<tree, held>>

\* Nothing allocated there: dart_abort ends the program.
FreeUnused ==
    /\ pc = "walk"
    /\ tree[op.index] = UNUSED
    /\ pc' = "aborted"
    /\ answer' = "abort"
    /\ UNCHANGED <<tree, op, held>>

FreeFound ==
    /\ pc = "walk"
    /\ tree[op.index] = USED
    /\ op.off = op.left
    /\ pc' = "combine"
    /\ UNCHANGED <<tree, op, held, answer>>

\* _combine: merge upwards while the buddy is unused ...
BuddyUnused(t, i) == Buddy(i) >= 0 /\ t[Buddy(i)] = UNUSED

CombineUp ==
    /\ pc = "combine"
    /\ BuddyUnused(tree, op.index)
    /\ op' = [op EXCEPT !.index = Parent(@)]
    /\ UNCHANGED <<tree, pc, held, answer>>

\* ... then the merged node is unused ...
CombineStop ==
    /\ pc = "combine"
    /\ ~BuddyUnused(tree, op.index)
    /\ tree' = [tree EXCEPT ![op.index] = UNUSED]
    /\ pc' = "unfull"
    /\ op' = [op EXCEPT !.index = Parent(@)]
    /\ UNCHANGED <<held, answer>>

\* ... and its full ancestors have room again.
FullAbove(t, i) == i >= 0 /\ t[i] = FULL

Unfull ==
    /\ pc = "unfull"
    /\ FullAbove(tree, op.index)
    /\ tree' = [tree EXCEPT ![op.index] = SPLIT]
    /\ op' = [op EXCEPT !.index = Parent(@)]
    /\ UNCHANGED <<pc, held, answer>>

FreeReturn ==
    /\ pc = "unfull"
    /\ ~FullAbove(tree, op.index)
    /\ held' = {b \in held : b.off # op.off}
    /\ Return("freed")
    /\ UNCHANGED tree

----------------------------------------------------------------------------
Alloc ==
    \/ \E s \in Requests : AllocTooLarge(s) \/ AllocCall(s)
    \/ AllocTake \/ AllocSplit \/ AllocDescend \/ AllocOffTree
    \/ AllocSkip \/ AllocRight \/ AllocClimb \/ AllocExhausted
    \/ MarkParent \/ AllocReturn

Free ==
    \/ \E o \in 0 .. Leaves : FreeBeyondPool(o) \/ FreeCall(o)
    \/ FreeDescend \/ FreeInside \/ FreeUnused \/ FreeFound
    \/ CombineUp \/ CombineStop \/ Unfull \/ FreeReturn

Next == Alloc \/ Free

Spec == Init /\ [][Next]_vars

\* Fairness of the holder of the mutex: once called, the loops run.
Step ==
    \/ AllocTake \/ AllocSplit \/ AllocDescend \/ AllocOffTree
    \/ AllocSkip \/ AllocRight \/ AllocClimb \/ AllocExhausted
    \/ MarkParent \/ AllocReturn
    \/ FreeDescend \/ FreeInside \/ FreeUnused \/ FreeFound
    \/ CombineUp \/ CombineStop \/ Unfull \/ FreeReturn

FairSpec == Spec /\ WF_vars(Step)

----------------------------------------------------------------------------
Marks == {UNUSED, USED, SPLIT, FULL}

\* Every variable keeps its type; the loops never leave the node array.
TypeOK ==
    /\ tree \in [Nodes -> Marks]
    /\ pc \in {"idle", "search", "skip", "mark", "walk", "combine", "unfull", "aborted",
               "undefined"}
    /\ op.index \in Nodes \cup {-1}
    /\ op.at \in Nodes
    /\ op.level \in 0 .. MaxLevel
    /\ op.length \in 0 .. Leaves
    /\ op.size \in 0 .. Leaves
    /\ answer \in {"none", "block", "nomem", "freed", "inval", "abort"}
    /\ \A b \in held : b.off \in 0 .. (Leaves - 1) /\ b.size \in 0 .. Leaves

HeldBlocks == {[off |-> b.off, size |-> b.size] : b \in held}

\* Every block handed out has room for the bytes that were asked for
\* (dart_memalloc: memory for nelem elements).
BlockServesRequest == \A b \in held : b.size >= b.need

\* Every block lies inside the team memory of pool_size bytes that
\* dart_allocator_new allocates next to the buddy tree.
BlocksInsidePool == \A b \in held : (b.off + b.size) * DART_MEM_ALIGN_BYTES <= PoolBytes

\* From every state of the tree the search for a block and the merging of buddies come to
\* an end.  Only a request for no bytes at all leaves the tree instead.
OperationReturns ==
    pc # "idle" ~> pc \in {"idle", "aborted"} \/ (pc = "undefined" /\ op.need = 0)

\* The allocator implements the pool of disjoint, aligned blocks of module BlockPool:
\* first fit finds a block whenever one is free, and a bad free changes nothing.
Pool == INSTANCE BlockPool WITH held <- HeldBlocks,
                                Sizes <- {BlockSize(s) : s \in Requests} \ {0}

ImplementsBlockPool == Pool!Spec
=============================================================================
