------------------------------ MODULE DashSort ------------------------------
(***************************************************************************)
(* dash::sort (Sort.h, Sort-inl.h): the units of a team sort a range of an *)
(* array that is distributed over them.  Each unit sorts its own part and  *)
(* keeps a copy; by bisection the units find the values that separate the  *)
(* parts of the result; by puts into one another's memory they work out    *)
(* who sends how many elements where; then they exchange and merge.        *)
(*                                                                         *)
(* Between two collective calls no two units touch the same word (what     *)
(* PartitionsFit says of the exchange), so what a unit does between them   *)
(* is one step.  A barrier or reduction is left when all units have made   *)
(* as many collective calls, so nobody is ahead by more than one.          *)
(***************************************************************************)
EXTENDS Integers, SequencesExt

CONSTANTS
    Cases,      \* what is sorted: local sizes, range, number of units
    Elements,   \* values of the array
    Hash,       \* sortable_hash
    Width       \* bits of the hash's type

Pattern == INSTANCE LinearPattern

ASSUME HashAssumption ==
    /\ Width \in Nat \ {0, 1}
    /\ Hash \in [Elements -> (-(2 ^ (Width - 1))) .. (2 ^ (Width - 1) - 1)]

VARIABLES
    job,        \* the case, what all units derive from it, and the array at the beginning
    arr,        \* the array, by global index
    pc,         \* step of each unit
    call,       \* its collective call: what it gave to this one, and to the one before
    lcopy,      \* its sorted elements
    borders,    \* its PartitionBorder with the splitters
    part        \* its block of g_partition_data

vars == <<job, arr, pc, call, lcopy, borders, part>>

nunits == Len(job.sizes)
Units == 0 .. (nunits - 1)
Borders == 0 .. (nunits - 2)
SizeT == 2 ^ 16                        \* counts are size_t
Barrier == 0                            \* nothing is given to a barrier
Zero == [u \in Units |-> 0]

\* Sum of the first n values of f.
Sum(f, n) == LET s[i \in 0 .. n] == IF i = 0 THEN 0 ELSE s[i - 1] + f[i - 1] IN s[n]
GreatestOf(S) == CHOOSE x \in S : \A y \in S : y <= x
LeastOf(S) == CHOOSE x \in S : \A y \in S : x <= y

----------------------------------------------------------------------------
(* The range and its parts: what every unit derives from the pattern. *)

unit_at(c, i) == Pattern!csr_local(c.sizes, i).unit
Start(c, u) == Pattern!csr_global(c.sizes, u, 0)

\* Global indices of the first element of a unit in the range, and of the one past its last.
local_index_range(c, u) ==
    LET begin == Start(c, u)
        end == begin + c.sizes[u + 1]
    IN IF begin = end \/ end <= c.first \/ begin >= c.last
       THEN [begin |-> begin, end |-> begin]
       ELSE [begin |-> IF begin > c.first THEN begin ELSE c.first,
             end |-> IF end < c.last THEN end ELSE c.last]

\* psort__find_partition_borders: the elements of a unit.
Participates(c, u) ==
    LET size == c.sizes[u + 1]
    IN ~(size = 0 \/ Start(c, u) + size - 1 < c.first \/ Start(c, u) >= c.last)

PartitionCount(c, u) ==
    IF ~Participates(c, u) THEN 0
    ELSE IF u = unit_at(c, c.last - 1) THEN c.last - Start(c, u)
    ELSE IF u = unit_at(c, c.first) THEN c.sizes[u + 1] - (c.first - Start(c, u))
    ELSE c.sizes[u + 1]

\* Their prefix sums.
acc_partition_count(c) ==
    LET acc[u \in 0 .. Len(c.sizes)] == IF u = 0 THEN 0 ELSE acc[u - 1] + PartitionCount(c, u - 1)
    IN acc

\* psort__init_partition_borders: a border is to the left of a unit with elements, and has
\* elements on its left.  The others are skipped.
left_partition(acc) ==
    [b \in {b \in 0 .. (GreatestOf(DOMAIN acc) - 2) : acc[b + 2] > acc[b + 1] /\ acc[b + 1] > 0} |->
        GreatestOf({u \in 0 .. b : acc[u + 1] > acc[u]})]

\* Nothing is derived from an empty range.
UnitInfo(c) ==
    IF c.first >= c.last THEN [acc |-> <<>>, left |-> <<>>, range |-> <<>>]
    ELSE [acc |-> acc_partition_count(c), left |-> left_partition(acc_partition_count(c)),
          range |-> [u \in 0 .. (Len(c.sizes) - 1) |-> local_index_range(c, u)]]

valid_partitions == DOMAIN job.left
----------------------------------------------------------------------------
(* Bisection for the splitters. *)

Wrap(x) == ((x + 2 ^ (Width - 1)) % (2 ^ Width)) - 2 ^ (Width - 1)
Half(x) == IF x < 0 THEN -((-x) \div 2) ELSE x \div 2
Middle(lower, upper) == Wrap(lower + Half(Wrap(upper - lower)))

InitialBorders(min, max) ==
    [b \in Borders |-> [lower |-> min, upper |-> max, splitter |-> 0,
                        stable |-> b \notin valid_partitions, last_iter |-> FALSE]]

\* Without the last iteration.
CalcBoundariesOnly(br) ==
    [b \in Borders |-> IF br[b].stable THEN br[b]
                       ELSE [br[b] EXCEPT !.splitter = Middle(br[b].lower, br[b].upper)]]

psort__calc_boundaries(br) ==
    [b \in Borders |->
        IF br[b].stable THEN br[b]
        ELSE IF br[b].last_iter THEN [br[b] EXCEPT !.splitter = br[b].upper, !.stable = TRUE]
        ELSE LET mid == Middle(br[b].lower, br[b].upper)
             IN [br[b] EXCEPT !.splitter = mid, !.last_iter = (mid = br[b].lower)]]

\* How many elements of data are less than the splitter of each partition's right border,
\* and how many are not greater.
psort__local_histogram(br, data) ==
    LET n == Len(data)
        last == job.left[GreatestOf(valid_partitions)]
        Count(Test(_)) == Len(SelectSeq(data, Test))
        border(p) == CHOOSE b \in valid_partitions : job.left[b] = p
    IN [p \in Units |->
           IF p > last THEN [nlt |-> n, nle |-> n]
           ELSE IF \E b \in valid_partitions : job.left[b] = p
           THEN [nlt |-> Count(LAMBDA e : Hash[e] < br[border(p)].splitter),
                 nle |-> Count(LAMBDA e : Hash[e] <= br[border(p)].splitter)]
           ELSE [nlt |-> 0, nle |-> 0]]

psort__validate_partitions(br, histo) ==
    [b \in Borders |->
        IF b \notin valid_partitions THEN br[b]
        ELSE LET p == job.left[b]
                 count == job.acc[p + 1]
             IN IF histo[p].nlt < count /\ count <= histo[p].nle THEN [br[b] EXCEPT !.stable = TRUE]
                ELSE IF histo[p].nlt >= count THEN [br[b] EXCEPT !.upper = br[b].splitter]
                ELSE [br[b] EXCEPT !.lower = br[b].splitter]]

----------------------------------------------------------------------------
(* The block of a unit in g_partition_data has three rows.  The first holds *)
(* the distribution and later the send counts, the second the supply and   *)
(* later the target counts.                                                 *)

\* A unit that gets too few elements less than its splitter takes equal ones from the
\* others, in their order, as long as they have some.
psort__calc_final_partition_dist(u, dist, supp) ==
    LET Take(s, v) ==
            LET supply == (supp[v] - s.dist[v]) % SizeT
                n == IF supply <= s.deficit THEN supply ELSE s.deficit
            IN [dist |-> [s.dist EXCEPT ![v] = @ + n], deficit |-> s.deficit - n]
        deficit == (job.acc[u + 1] - Sum(dist, nunits)) % SizeT
    IN FoldLeft(Take, [dist |-> dist, deficit |-> deficit], [i \in 1 .. nunits |-> i - 1]).dist

Differences(end) == [p \in Units |-> (end[p] - (IF p = 0 THEN 0 ELSE end[p - 1])) % SizeT]

\* Units without elements are not skipped.
SendCountOfAll(target_count) == Differences(target_count)

\* The end offsets of units without elements are those of the unit before them.
psort__calc_send_count(target_count) ==
    LET SkippedAt(p) == {b \in valid_partitions : job.left[b] < p /\ p <= b}
    IN Differences([p \in Units |-> IF SkippedAt(p) = {} THEN target_count[p]
                                    ELSE target_count[job.left[LeastOf(SkippedAt(p))]]])

----------------------------------------------------------------------------
Init ==
    /\ \E c \in Cases : \E a \in [0 .. (Pattern!SizeOf(c.sizes) - 1) -> Elements] :
           job = [input |-> a] @@ UnitInfo(c) @@ c
    /\ arr = job.input
    /\ pc = [u \in Units |-> "sort"]
    /\ call = [u \in Units |-> [turn |-> 0, now |-> Barrier, before |-> Barrier]]
    /\ lcopy = [u \in Units |-> <<>>]
    /\ borders = [u \in Units |-> <<>>]
    /\ part = [u \in Units |-> [dist |-> Zero, supp |-> Zero, disp |-> Zero]]

\* Everybody has made the collective call that u is in; what v gave to it.
Met(u) == \A v \in Units : call[u].turn # (call[v].turn + 1) % 3
Given(v, u) == IF call[v].turn = call[u].turn THEN call[v].now ELSE call[v].before

Enters(u, value, next) ==
    /\ call' = [call EXCEPT ![u] = [turn |-> (@.turn + 1) % 3, now |-> value, before |-> @.now]]
    /\ pc' = [pc EXCEPT ![u] = next]
At(u, step) == pc[u] = step /\ Met(u)

\* The elements with global index from begin on, and the array after writing them.
Slice(a, begin, end) == [i \in 1 .. (end - begin) |-> a[begin + i - 1]]
Write(a, begin, data) ==
    [i \in DOMAIN a |-> IF i - begin + 1 \in DOMAIN data THEN data[i - begin + 1] ELSE a[i]]

Sorted(data) == SortSeq(data, LAMBDA x, y : Hash[x] < Hash[y])

SortAlone(u) ==
    /\ pc[u] = "sort"
    /\ nunits = 1
    /\ arr' = Write(arr, job.first, Sorted(Slice(arr, job.first, job.last)))
    /\ pc' = [pc EXCEPT ![u] = "done"]
    /\ UNCHANGED <<job, call, lcopy, borders, part>>

SortNothing(u) ==
    /\ pc[u] = "sort"
    /\ nunits > 1 /\ job.first >= job.last
    /\ Enters(u, Barrier, "final")
    /\ UNCHANGED <<job, arr, lcopy, borders, part>>

\* Initial local sort, and what the unit gives to find_global_min_max.
LocalSort(u) ==
    /\ pc[u] = "sort"
    /\ nunits > 1 /\ job.first < job.last
    /\ LET r == job.range[u]
           data == Sorted(Slice(arr, r.begin, r.end))
       IN /\ arr' = Write(arr, r.begin, data)
          /\ lcopy' = [lcopy EXCEPT ![u] = data]
          /\ Enters(u, IF data = <<>> THEN [min |-> 2 ^ (Width - 1) - 1, max |-> -(2 ^ (Width - 1))]
                       ELSE [min |-> Hash[Head(data)], max |-> Hash[Last(data)]], "minmax")
    /\ UNCHANGED <<job, borders, part>>

\* The next splitters, and the unit's counts for them.
Iterate(u, br) ==
    LET next == psort__calc_boundaries(br)
    IN /\ borders' = [borders EXCEPT ![u] = next]
       /\ Enters(u, psort__local_histogram(next, lcopy[u]), "histogram")

find_global_min_max(u) ==
    /\ At(u, "minmax")
    /\ LET min == LeastOf({Given(v, u).min : v \in Units})
           max == GreatestOf({Given(v, u).max : v \in Units})
       IN IF min = max \/ valid_partitions = {}
          THEN Enters(u, Barrier, "final") /\ UNCHANGED borders
          ELSE Iterate(u, InitialBorders(min, max))
    /\ UNCHANGED <<job, arr, lcopy, part>>

psort__global_histogram(u) ==
    [p \in Units |-> [nlt |-> Sum([v \in Units |-> Given(v, u)[p].nlt], nunits),
                      nle |-> Sum([v \in Units |-> Given(v, u)[p].nle], nunits)]]

ValidateBorders(u) ==
    /\ At(u, "histogram")
    /\ LET br == psort__validate_partitions(borders[u], psort__global_histogram(u))
       IN IF \A b \in Borders : br[b].stable
          THEN /\ borders' = [borders EXCEPT ![u] = br]
               /\ pc' = [pc EXCEPT ![u] = "transpose"]
               /\ UNCHANGED call
          ELSE Iterate(u, br)
    /\ UNCHANGED <<job, arr, lcopy, part>>

\* The counts for the final splitters go to the units they are about; zeros are not sent to
\* other units.
TransposeHistogram(u) ==
    /\ pc[u] = "transpose"
    /\ LET h == psort__local_histogram(borders[u], lcopy[u])
       IN part' = IF lcopy[u] = <<>> THEN part
                  ELSE [p \in Units |->
                           [part[p] EXCEPT !.dist[u] = IF h[p].nlt > 0 \/ p = u THEN h[p].nlt ELSE @,
                                           !.supp[u] = IF h[p].nle > 0 \/ p = u THEN h[p].nle ELSE @]]
    /\ Enters(u, Barrier, "distribute")
    /\ UNCHANGED <<job, arr, lcopy, borders>>

FinalDistribution(u) ==
    /\ At(u, "distribute")
    /\ part' = [part EXCEPT ![u].dist = psort__calc_final_partition_dist(u, part[u].dist, part[u].supp),
                            ![u].supp = Zero]
    /\ Enters(u, Barrier, "targets")
    /\ UNCHANGED <<job, arr, lcopy, borders>>

TransposeDistribution(u) ==
    /\ At(u, "targets")
    /\ part' = [p \in Units |->
                   [part[p] EXCEPT !.supp[u] = IF part[u].dist[p] = 0 THEN @ ELSE part[u].dist[p]]]
    /\ Enters(u, Barrier, "counts")
    /\ UNCHANGED <<job, arr, lcopy, borders>>

SendCounts(u) ==
    /\ At(u, "counts")
    /\ LET send == IF lcopy[u] = <<>> THEN Zero ELSE psort__calc_send_count(part[u].supp)
       IN part' = [part EXCEPT ![u].dist = send]
    /\ Enters(u, Barrier, "displs")
    /\ UNCHANGED <<job, arr, lcopy, borders>>

\* Where in each partition the unit's elements go: the sums of the send counts, which it
\* reads from the units on the left of the borders, and writes into the displacements of
\* the units on the right.
target_displs(u) ==
    LET d[p \in Units] ==
            IF p - 1 \notin valid_partitions THEN 0
            ELSE part[job.left[p - 1]].dist[u] + d[job.left[p - 1]]
    IN d

\* Unit 0 always writes to offset 0.
psort__calc_target_displs(u) ==
    /\ At(u, "displs")
    /\ LET d == target_displs(u)
           filled == IF u = 0 THEN [part EXCEPT ![0].disp = Zero] ELSE part
       IN part' = IF lcopy[u] = <<>> THEN part
                  ELSE [p \in Units |-> IF p - 1 \notin valid_partitions THEN filled[p]
                                        ELSE [filled[p] EXCEPT !.disp[u] = d[p]]]
    /\ Enters(u, Barrier, "exchange")
    /\ UNCHANGED <<job, arr, lcopy, borders>>

\* Where v's part of the range begins.
TargetBegin(u, v) ==
    IF u = v THEN job.range[u].begin
    ELSE IF v = unit_at(job, job.first) THEN job.first ELSE Start(job, v)

\* The elements in the array and in lcopy that u copies to v.
Copied(u, v) ==
    IF ~Participates(job, v) /\ u # v THEN {}
    ELSE LET target == TargetBegin(u, v) + part[u].disp[v]
             l_send_displs == Sum(part[u].dist, v)
         IN {<<target + i, l_send_displs + i + 1>> : i \in 0 .. (part[u].dist[v] - 1)}

Exchange(u) ==
    /\ At(u, "exchange")
    /\ LET copied == UNION {Copied(u, v) : v \in Units}
       IN arr' = [i \in DOMAIN arr |->
                     IF \E c \in copied : c[1] = i
                     THEN lcopy[u][(CHOOSE c \in copied : c[1] = i)[2]] ELSE arr[i]]
    /\ Enters(u, part[u].dist, "merge")
    /\ UNCHANGED <<job, lcopy, borders, part>>

\* std::inplace_merge with the elements' own order.
RECURSIVE Merge(_, _)
Merge(a, b) ==
    IF a = <<>> THEN b
    ELSE IF b = <<>> THEN a
    ELSE IF Head(b) < Head(a) THEN <<Head(b)>> \o Merge(a, Tail(b))
    ELSE <<Head(a)>> \o Merge(Tail(a), b)

\* One level of the tree of merges.  The last sequence of an odd number is left for later.
MergePairsOnly(seqs) == [i \in 1 .. (Len(seqs) \div 2) |-> Merge(seqs[2 * i - 1], seqs[2 * i])]

MergeLevel(seqs) ==
    [i \in 1 .. Pattern!div_ceil(Len(seqs), 2) |->
        IF 2 * i <= Len(seqs) THEN Merge(seqs[2 * i - 1], seqs[2 * i]) ELSE seqs[2 * i - 1]]

RECURSIVE MergeTree(_)
MergeTree(seqs) == IF Len(seqs) = 1 THEN seqs[1] ELSE MergeTree(MergeLevel(seqs))

MergeSequences(u) ==
    /\ At(u, "merge")
    /\ LET recv_count == [v \in Units |-> Given(v, u)[u]]
           begin == job.range[u].begin
           Received(v) == Slice(arr, begin + Sum(recv_count, v), begin + Sum(recv_count, v + 1))
       IN arr' = Write(arr, begin, MergeTree([i \in 1 .. nunits |-> Received(i - 1)]))
    /\ Enters(u, Barrier, "final")
    /\ UNCHANGED <<job, lcopy, borders, part>>

Return(u) ==
    /\ At(u, "final")
    /\ pc' = [pc EXCEPT ![u] = "done"]
    /\ UNCHANGED <<job, arr, call, lcopy, borders, part>>

Step(u) ==
    \/ SortAlone(u) \/ SortNothing(u) \/ LocalSort(u)
    \/ find_global_min_max(u) \/ ValidateBorders(u)
    \/ TransposeHistogram(u) \/ FinalDistribution(u) \/ TransposeDistribution(u)
    \/ SendCounts(u) \/ psort__calc_target_displs(u)
    \/ Exchange(u) \/ MergeSequences(u) \/ Return(u)

Next == \E u \in Units : Step(u)

\* Every unit calls dash::sort and goes on while it can.
Spec == Init /\ [][Next]_vars /\ WF_vars(Next)

----------------------------------------------------------------------------
IsSortedRange(a) == \A i, j \in job.first .. (job.last - 1) : i < j => Hash[a[i]] <= Hash[a[j]]

\* When the call has returned on any unit, the whole range is in order, it holds the
\* elements it held before, and the rest of the array is untouched; whichever units have
\* no elements, however the range cuts the units' parts, and however often a value occurs.
RangeIsSorted ==
    \A u \in Units : pc[u] = "done" =>
        /\ IsSortedRange(arr)
        /\ \A e \in Elements :
               Cardinality({i \in DOMAIN arr : arr[i] = e}) = Cardinality({i \in DOMAIN arr : job.input[i] = e})
        /\ \A i \in DOMAIN arr : i \notin job.first .. (job.last - 1) => arr[i] = job.input[i]

\* While the units exchange their elements, what they are going to send to a unit fills its part
\* of the range exactly, in the order of the senders: nothing is overwritten, no place is
\* left over.  (Each unit knows a row and a column of this matrix.)
PartitionsFit ==
    \A u \in Units : At(u, "exchange") =>
        \A v \in Units :
            LET incoming == [w \in Units |-> part[w].dist[v]]
            IN /\ Sum(incoming, nunits) = job.range[v].end - job.range[v].begin
               /\ \A w \in Units : incoming[w] > 0 => part[w].disp[v] = Sum(incoming, w)

\* The bisection ends, and nobody waits for ever for a unit that left the collective calls
\* early.
SortReturns == <>(\A u \in Units : pc[u] = "done")
=============================================================================
