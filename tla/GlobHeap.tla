------------------------------ MODULE GlobHeap ------------------------------
(***************************************************************************)
(* GlobHeapMem.h and GlobHeapPtr.h: global memory that every unit grows    *)
(* and shrinks on its own, in buckets, until a collective commit makes the *)
(* changes known.  Between commits a unit knows the memory of the others   *)
(* only by their cumulative bucket sizes at the last commit; the address   *)
(* of a remote element is the segment of the caller's bucket at the same   *)
(* position, with the unit replaced.                                       *)
(*                                                                         *)
(* A bucket is [size, seg]: seg is the number of the collective call that  *)
(* attached it, 0 before.  (The allocated size is not modelled, nor is     *)
(* _num_detach_buckets, which is written and never read.)                  *)
(***************************************************************************)
EXTENDS Integers, SequencesExt

CONSTANTS
    NUnits,        \* size of the team
    InitSize,      \* local elements the constructor asks for
    GrowSizes,     \* arguments of grow and shrink
    MaxCommits,    \* bound on the commits
    MaxOps         \* bound on the calls of grow and shrink of a unit

ASSUME NUnitsAssumption == NUnits \in Nat \ {0}
ASSUME InitSizeAssumption == InitSize \in Nat \ {0}
\* With 0 elements grow and shrink return at once.
ASSUME GrowAssumption == GrowSizes \subseteq Nat \ {0}

Unit == 0 .. (NUnits - 1)

VARIABLES
    buckets,       \* _buckets of each unit
    attach_first,  \* position of _attach_buckets_first; one past the end for end()
    local_size,    \* _local_sizes.local[0]
    cumul,         \* cumul[v][u]: what v has in _bucket_cumul_sizes[u]
    num_attach,    \* _num_attach_buckets.local[0]
    detach,        \* _detach_buckets
    remote_size,   \* _remote_size
    max_attach,    \* max_attach_buckets of the commit a unit is in
    attached,      \* num_attached_buckets of that commit
    stage,         \* progress: 4 * commits + step of the commit, 0 outside of one
    regs,          \* collective attach calls a unit has begun
    ops,           \* calls of grow and shrink since the last commit, and in all
    past           \* history: which units mixed shrink and grow, whether buckets are uneven

memory == <<buckets, attach_first, local_size, cumul, num_attach, detach>>
vars == <<memory, remote_size, max_attach, attached, stage, regs, ops, past>>

Sum(s) == FoldFunction(LAMBDA a, b : a + b, 0, s)

Sizes(s) == [i \in DOMAIN s |-> s[i].size]

\* Elements in the first i buckets.
UpTo(s, i) == FoldFunctionOnSet(LAMBDA a, b : a + b, 0, Sizes(s), 1 .. i)

Running(u) == stage[u] % 4 = 0

\* The barrier a unit waits in lets it go when everybody has come to it.
Passes(u) == \A v \in Unit : stage[v] >= stage[u]

\* The constructor has grown by InitSize and committed.
Init ==
    /\ buckets = [u \in Unit |-> <<[size |-> InitSize, seg |-> 1]>>]
    /\ attach_first = [u \in Unit |-> 2]
    /\ local_size = [u \in Unit |-> InitSize]
    /\ cumul = [v \in Unit |-> [u \in Unit |-> <<InitSize>>]]
    /\ num_attach = [u \in Unit |-> 0]
    /\ detach = [u \in Unit |-> <<>>]
    /\ remote_size = [u \in Unit |-> (NUnits - 1) * InitSize]
    /\ max_attach = [u \in Unit |-> 0]
    /\ attached = [u \in Unit |-> 0]
    /\ stage = [u \in Unit |-> 0]
    /\ regs = [u \in Unit |-> 1]
    /\ ops = [u \in Unit |-> [epoch |-> 0, all |-> 0, shrunk |-> FALSE]]
    /\ past = [mixed |-> {}, uneven |-> FALSE]

MayCall(u) ==
    /\ Running(u)
    /\ stage[u] < 4 * MaxCommits
    /\ ops[u].all < MaxOps

Called(u, shrunk) ==
    ops' = [ops EXCEPT ![u] = [epoch |-> @.epoch + 1, all |-> @.all + 1, shrunk |-> @.shrunk \/ shrunk]]

\* If there was no unattached bucket, _attach_buckets_first was end() and is now the new one.
grow(u, n) ==
    /\ MayCall(u)
    /\ local_size' = [local_size EXCEPT ![u] = @ + n]
    /\ num_attach' = [num_attach EXCEPT ![u] = @ + 1]
    /\ buckets' = [buckets EXCEPT ![u] = Append(@, [size |-> n, seg |-> 0])]
    /\ cumul' = [cumul EXCEPT ![u][u] = Append(@, local_size[u] + n)]
    /\ Called(u, FALSE)
    /\ UNCHANGED <<attach_first, detach, remote_size, max_attach, attached, stage, regs, past>>

\* The buckets that a local size of n leaves no element of.
Dropped(s, n) == {i \in DOMAIN s : UpTo(s, i - 1) >= n /\ UpTo(s, i) > n}

\* The first unattached bucket stays where it is, even when it is dropped.
FirstKept(first, len) == first

\* _attach_buckets_first steps back from a bucket that is dropped, and from there to the
\* end when it meets an attached one.
FirstAfter(first, len) == IF first > len + 1 THEN len + 1 ELSE first

\* From the back, as many elements as there are to deallocate: unattached buckets are freed
\* at once, attached ones wait for the commit; the last one left may be cut.
shrink(u, n) ==
    LET s == buckets[u]
        left == local_size[u] - n
        gone == Dropped(s, left)
        len == Len(s) - Cardinality(gone)
        here == {i \in gone : s[i].seg = 0}
    IN /\ MayCall(u)
       /\ n <= local_size[u]
       /\ local_size' = [local_size EXCEPT ![u] = left]
       /\ buckets' = [buckets EXCEPT ![u] =
              [i \in 1 .. len |-> [s[i] EXCEPT !.size = IF UpTo(s, i) > left THEN left - UpTo(s, i - 1) ELSE @]]]
       /\ attach_first' = [attach_first EXCEPT ![u] = FirstAfter(@, len)]
       /\ num_attach' = [num_attach EXCEPT ![u] = @ - Cardinality(here)]
       /\ cumul' = [cumul EXCEPT ![u][u] =
              LET kept == Len(@) - Cardinality(here)
              IN [i \in 1 .. kept |-> IF i = kept THEN left ELSE @[i]]]
       /\ detach' = [detach EXCEPT ![u] =
              @ \o [i \in 1 .. Cardinality(gone \ here) |-> s[Len(s) - Cardinality(here) + 1 - i]]]
       /\ Called(u, \E i \in DOMAIN s : s[i].seg # 0 /\ UpTo(s, i) > left)
       /\ past' = [past EXCEPT !.uneven = @ \/ gone # here]
       /\ UNCHANGED <<remote_size, max_attach, attached, stage, regs>>

----------------------------------------------------------------------------
\* commit: up to the barrier at the beginning of commit_attach.
commit_detach(u) ==
    /\ Running(u)
    /\ stage[u] < 4 * MaxCommits
    /\ stage' = [stage EXCEPT ![u] = @ + 1]
    /\ detach' = [detach EXCEPT ![u] = <<>>]
    /\ past' = IF ops[u].shrunk /\ num_attach[u] > 0 THEN [past EXCEPT !.mixed = @ \cup {u}] ELSE past
    /\ UNCHANGED <<buckets, attach_first, local_size, cumul, num_attach, remote_size, max_attach, attached,
                   regs, ops>>

\* From there to the barrier in update_remote_size.
gather_min_max(u) ==
    /\ stage[u] % 4 = 1 /\ Passes(u)
    /\ max_attach' = [max_attach EXCEPT ![u] = Max({num_attach[v] : v \in Unit})]
    /\ stage' = [stage EXCEPT ![u] = @ + 1]
    /\ UNCHANGED <<memory, remote_size, attached, regs, ops, past>>

\* The cumulative sizes of a unit with the sizes of its new buckets, nothing else known.
CumulWithoutDiff(old, new, size) ==
    old \o [i \in DOMAIN new |-> UpTo(new, i) + (IF old = <<>> THEN 0 ELSE Last(old))]

\* ... as update_remote_size computes them: one bucket takes all of the new size, several
\* are added up; what the unit lost in size is taken from its last bucket.
CumulAfter(old, new, size) ==
    LET was == IF old = <<>> THEN 0 ELSE Last(old)
        all == IF Len(new) = 1 THEN Append(old, size)
               ELSE old \o [i \in DOMAIN new |-> UpTo(new, i) + was]
    IN IF size < was /\ all # <<>>
       THEN [all EXCEPT ![Len(all)] = @ + size - was]
       ELSE all

Unattached(u) == SubSeq(buckets[u], attach_first[u], Len(buckets[u]))

\* To the barrier at its end.
update_remote_size(u) ==
    /\ stage[u] % 4 = 2 /\ Passes(u)
    /\ remote_size' = [remote_size EXCEPT ![u] = Sum([local_size EXCEPT ![u] = 0])]
    /\ cumul' = [cumul EXCEPT ![u] = [v \in Unit |->
           IF v = u THEN @[v] ELSE CumulAfter(@[v], Unattached(v), local_size[v])]]
    /\ stage' = [stage EXCEPT ![u] = @ + 1]
    /\ attached' = [attached EXCEPT ![u] = 0]
    /\ UNCHANGED <<buckets, attach_first, local_size, num_attach, detach, max_attach, regs, ops, past>>

\* The collective attach call before this one has returned.
MayAttach(u) == stage[u] % 4 = 3 /\ Passes(u) /\ \A v \in Unit : regs[v] >= regs[u]

Registers(u) ==
    /\ regs' = [regs EXCEPT ![u] = @ + 1]
    /\ attached' = [attached EXCEPT ![u] = @ + 1]

attach(u) ==
    /\ MayAttach(u)
    /\ attach_first[u] <= Len(buckets[u])
    /\ Registers(u)
    /\ buckets' = [buckets EXCEPT ![u][attach_first[u]].seg = regs[u] + 1]
    /\ attach_first' = [attach_first EXCEPT ![u] = @ + 1]
    /\ num_attach' = [num_attach EXCEPT ![u] = @ - 1]
    /\ UNCHANGED <<local_size, cumul, detach, remote_size, max_attach, stage, ops, past>>

AttachedOwn(u) == attach_first[u] > Len(buckets[u])
\* Nothing is attached for the buckets of the others.
AttachedNoNull(u) == AttachedOwn(u)

AttachedAll(u) == AttachedOwn(u) /\ attached[u] >= max_attach[u]

\* An empty bucket for every one that another unit attached more; it is in _buckets only.
attach_null(u) ==
    /\ MayAttach(u)
    /\ AttachedOwn(u) /\ ~AttachedAll(u)
    /\ Registers(u)
    /\ buckets' = [buckets EXCEPT ![u] = Append(@, [size |-> 0, seg |-> regs[u] + 1])]
    /\ attach_first' = [attach_first EXCEPT ![u] = @ + 1]
    /\ past' = [past EXCEPT !.uneven = TRUE]
    /\ UNCHANGED <<local_size, cumul, num_attach, detach, remote_size, max_attach, stage, ops>>

commit_returns(u) ==
    /\ MayAttach(u) /\ AttachedAll(u)
    /\ stage' = [stage EXCEPT ![u] = @ + 1]
    /\ ops' = [ops EXCEPT ![u].epoch = 0, ![u].shrunk = FALSE]
    /\ UNCHANGED <<memory, remote_size, max_attach, attached, regs, past>>

InCommit(u) ==
    \/ gather_min_max(u)
    \/ update_remote_size(u)
    \/ attach(u)
    \/ attach_null(u)
    \/ commit_returns(u)

Next ==
    \E u \in Unit :
        \/ \E n \in GrowSizes : grow(u, n) \/ shrink(u, n)
        \/ commit_detach(u)
        \/ InCommit(u)

\* A unit inside a commit goes on, and all units commit as often.
Fairness == \A u \in Unit : WF_vars(InCommit(u)) /\ WF_vars(commit_detach(u))

Spec == Init /\ [][Next]_vars /\ Fairness

----------------------------------------------------------------------------
\* An element that begins a bucket is taken for the end of the one before.
PositionInclusive(sums, i) ==
    LET b == CHOOSE j \in DOMAIN sums : i <= sums[j] /\ \A k \in 1 .. (j - 1) : ~(i <= sums[k])
    IN [bucket |-> b, phase |-> i - (IF b = 1 THEN 0 ELSE sums[b - 1])]

\* GlobHeapPtr::increment from the first element of a unit: bucket and phase of an element,
\* counted from 1 and from 0.
Position(sums, i) ==
    LET b == CHOOSE j \in DOMAIN sums : i < sums[j] /\ \A k \in 1 .. (j - 1) : ~(i < sums[k])
    IN [bucket |-> b, phase |-> i - (IF b = 1 THEN 0 ELSE sums[b - 1])]

\* dart_gptr_at: the segment is that of the caller's own bucket, 0 if it has none there.
dart_gptr_at(v, u, pos) ==
    [unit |-> u, phase |-> pos.phase,
     seg |-> IF pos.bucket \in DOMAIN buckets[v] THEN buckets[v][pos.bucket].seg ELSE 0]

\* GlobHeapLocalPtr::increment: where the owner itself finds it, walking its buckets.
LocalPosition(u, i) ==
    LET b == CHOOSE j \in DOMAIN buckets[u] : i >= UpTo(buckets[u], j - 1) /\ i < UpTo(buckets[u], j)
    IN [unit |-> u, phase |-> i - UpTo(buckets[u], b - 1), seg |-> buckets[u][b].seg]

\* Both have left the same commit, and u has not changed its memory since.
Settled(v, u) == Running(v) /\ Running(u) /\ stage[v] = stage[u] /\ ops[u].epoch = 0

\* The books of a unit about its own memory agree, at every moment and whatever mix of grow
\* and shrink led to it: the local size is the sum of its buckets and of its cumulative
\* sizes, the buckets to be attached are the ones from _attach_buckets_first to the end,
\* and there are as many as it announces to the others.
BooksAreBalanced ==
    \A u \in Unit :
        /\ local_size[u] = UpTo(buckets[u], Len(buckets[u]))
        /\ cumul[u][u] # <<>> => Last(cumul[u][u]) = local_size[u]
        /\ \A i \in DOMAIN buckets[u] : buckets[u][i].seg = 0 <=> i >= attach_first[u]
        /\ num_attach[u] = Len(Unattached(u))

\* After a commit everybody knows how much memory each unit has: the size of the whole heap
\* always, the size of a unit unless that unit gave up attached memory and added buckets
\* before the same commit.
SizesAgree ==
    \A v \in Unit :
        /\ (\A u \in Unit : Settled(v, u)) => remote_size[v] + local_size[v] = Sum(local_size)
        /\ \A u \in Unit \ past.mixed :
               Settled(v, u) => local_size[u] = (IF cumul[v][u] = <<>> THEN 0 ELSE Last(cumul[v][u]))

\* The address that a unit computes for an element of another unit is where the owner keeps
\* it, as long as all units attached equally many buckets in every commit and none detached
\* a whole one or mixed shrink and grow.
AddressesResolve ==
    ~past.uneven /\ past.mixed = {} =>
        \A v, u \in Unit : Settled(v, u) =>
            \A i \in 0 .. (local_size[u] - 1) :
                dart_gptr_at(v, u, Position(cumul[v][u], i)) = LocalPosition(u, i)

\* A commit that a unit has begun returns, however many buckets each unit brings to it.
CommitsReturn == \A u \in Unit : ~Running(u) ~> Running(u)
=============================================================================
