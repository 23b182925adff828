----------------------------- MODULE DartGroup -----------------------------
(***************************************************************************)
(* Groups of units (dart_team_group.c).  A dart_group_t wraps an MPI       *)
(* group, which is a sequence of units: its order decides which unit gets  *)
(* which ID in a team made from it.  An operation that MPI reports an error *)
(* for, such as any on MPI_GROUP_NULL, ends the program.                   *)
(***************************************************************************)
EXTENDS Integers, Sequences, FiniteSets, SequencesExt

CONSTANTS NumUnits,       \* units of the program, with IDs 0 .. NumUnits - 1
          NumHandles,     \* variables the caller keeps groups in
          Teams,          \* sets of units that form a team
          Parts,          \* numbers of groups a group is split into
          LocalityParts,  \* the same, for splits by locality
          Hosts           \* the units that run on each host (domain)

AllUnits == 0 .. (NumUnits - 1)
Handles == 1 .. NumHandles

VARIABLES groups,         \* groups[h]: the dart_group_struct
          call,           \* the operation called last
          split,          \* arguments and results of the last split
          status          \* "ok", or how a call ended the program

vars == <<groups, call, split, status>>

NULL == [alloc |-> FALSE, valid |-> FALSE, ranks |-> <<>>]
GroupNull == [alloc |-> TRUE, valid |-> FALSE, ranks |-> <<>>]   \* MPI_GROUP_NULL
Group(ranks) == [alloc |-> TRUE, valid |-> TRUE, ranks |-> ranks]
Unset == -1               \* *nout as the caller left it
NoSplit == [of |-> {}, nout |-> Unset, out |-> <<>>]

Usable(h) == groups[h].valid
Free(h) == ~groups[h].alloc
Members(g) == ToSet(g.ranks)
Ascending(S) == SetToSortSeq(S, LAMBDA a, b : a < b)

Init ==
    /\ groups = [h \in Handles |-> NULL]
    /\ call = "none"
    /\ split = NoSplit
    /\ status = "ok"

\* Every operation but the splits leaves one group changed.
Set(op, h, g) ==
    /\ status = "ok"
    /\ groups' = [groups EXCEPT ![h] = g]
    /\ call' = op
    /\ split' = NoSplit
    /\ UNCHANGED status

dart_group_create(h) == Free(h) /\ Set("create", h, Group(<<>>))

dart_group_destroy(h) == ~Free(h) /\ Set("destroy", h, NULL)

dart_group_clone(gin, h) == Usable(gin) /\ Free(h) /\ Set("clone", h, groups[gin])

\* The ranks of a team's communicator.
dart_team_get_group(T, h) == Free(h) /\ Set("team", h, Group(Ascending(T)))

\* MPI: the first group, then what the second one has on top of it.
MPI_Group_union(a, b) == a \o SelectSeq(b, LAMBDA u : u \notin ToSet(a))
MPI_Group_intersection(a, b) == SelectSeq(a, LAMBDA u : u \in ToSet(b))
MPI_Group_difference(a, b) == SelectSeq(a, LAMBDA u : u \notin ToSet(b))
MPI_Group_incl(a, ranks) == [i \in DOMAIN ranks |-> a[ranks[i] + 1]]

merge_none(pre, size_in) == SubSeq(pre, 1, size_in) \o SubSeq(pre, size_in + 1, Len(pre))

\* The "merge sort" of dart_group_union: units 1 .. size_in of pre, which came from the
\* first group, are merged with the rest.
merge(pre, size_in) ==
    LET Take(m, k) ==
            IF m.i <= size_in /\ (m.j > Len(pre) \/ pre[m.i] <= pre[m.j])
            THEN [m EXCEPT !.out = Append(@, pre[m.i]), !.i = @ + 1]
            ELSE [m EXCEPT !.out = Append(@, pre[m.j]), !.j = @ + 1] IN
    FoldLeft(Take, [i |-> 1, j |-> size_in + 1, out |-> <<>>], pre).out

Union(a, b) == Group(merge(MPI_Group_union(a.ranks, b.ranks), Len(a.ranks)))

dart_group_union(g1, g2, h) ==
    Usable(g1) /\ Usable(g2) /\ Free(h) /\ Set("union", h, Union(groups[g1], groups[g2]))

dart_group_intersect(g1, g2, h) ==
    /\ Usable(g1) /\ Usable(g2) /\ Free(h)
    /\ Set("intersect", h, Group(MPI_Group_intersection(groups[g1].ranks, groups[g2].ranks)))

dart_group_addmember(g, u) ==
    Usable(g) /\ Set("addmember", g, Union(groups[g], Group(<<u>>)))

dart_group_delmember(g, u) ==
    Usable(g) /\ Set("delmember", g, Group(MPI_Group_difference(groups[g].ranks, <<u>>)))

----------------------------------------------------------------------------
(* Splits.  gout is the handles from first on. *)

FloorLength(size, n) == IF size < n THEN 1 ELSE size \div n

ChunkLength(size, n) == (size + n - 1) \div n

\* Group i (from 0 on) of a split into n.
Chunk(ranks, n, i) ==
    LET length == ChunkLength(Len(ranks), n)
        last   == IF i * length + length <= Len(ranks) THEN i * length + length ELSE Len(ranks) IN
    IF i * length < Len(ranks) THEN Group(SubSeq(ranks, i * length + 1, last)) ELSE GroupNull

\* The new groups out go to the handles first, first + 1, ...
Deliver(op, g, first, out, nout) ==
    /\ groups' = [h \in Handles |->
                    IF h \in first .. (first + Len(out) - 1) THEN out[h - first + 1] ELSE groups[h]]
    /\ call' = op
    /\ split' = [of |-> Members(groups[g]), nout |-> nout, out |-> out]
    /\ UNCHANGED status

HaveRoom(first, n) == \A i \in first .. (first + n - 1) : i \in Handles /\ Free(i)

dart_group_split(g, n, first) ==
    /\ status = "ok"
    /\ Usable(g)
    /\ HaveRoom(first, n)
    /\ Deliver("split", g, first, [i \in 1 .. n |-> Chunk(groups[g].ranks, n, i - 1)],
               Len(groups[g].ranks))

\* dart_domain_team_locality: the units of the team on each of its hosts.
Domains(S) ==
    LET hosts == {H \cap S : H \in Hosts} \ {{}}
        First(H) == CHOOSE u \in H : \A v \in H : u <= v IN
    [d \in 1 .. Cardinality(hosts) |->
        Ascending(CHOOSE H \in hosts :
                     Cardinality({J \in hosts : First(J) < First(H)}) = d - 1)]

\* The domains that go into group g, as first and number, when each group is to have
\* per_group of them.
num_group_domains(g, per_group, num_domains) ==
    IF (g + 1) * per_group > num_domains THEN g * per_group - num_domains ELSE per_group

group_first_dom_idx(g, number) == g * number

DomainsOf(g, num_groups, num_domains) ==
    LET number == num_group_domains(g, (num_domains + num_groups - 1) \div num_groups, num_domains)
        first  == group_first_dom_idx(g, number) IN
    first .. (first + number - 1)

\* The IDs of the units in those domains: what MPI_Group_incl takes for ranks in the group.
UnitIds(domains, num_groups, g) ==
    FoldLeft(LAMBDA acc, d : acc \o domains[d + 1], <<>>,
             Ascending(DomainsOf(g, num_groups, Len(domains))))

NumGroups(n, domains) == IF n > Len(domains) THEN Len(domains) ELSE n

\* domains[] is read beyond its end.
ReadsBeyond(n, domains) ==
    \E g \in 0 .. (n - 1) : ~(DomainsOf(g, n, Len(domains)) \subseteq 0 .. (Len(domains) - 1))

\* MPI_Group_incl is passed a rank the group does not have.
BadRank(n, domains, ranks) ==
    \E g \in 0 .. (n - 1) : \E u \in ToSet(UnitIds(domains, n, g)) : u >= Len(ranks)

dart_group_locality_split(g, n, first) ==
    LET ranks   == groups[g].ranks
        domains == Domains(ToSet(ranks))
        num     == NumGroups(n, domains) IN
    /\ status = "ok"
    /\ Usable(g) /\ ToSet(ranks) \in Teams
    /\ HaveRoom(first, n)
    /\ ~ReadsBeyond(num, domains)
    /\ ~BadRank(num, domains, ranks)
    /\ Deliver("locality", g, first,
               [i \in 1 .. num |->
                  LET ids == UnitIds(domains, num, i - 1) IN
                  IF ids = <<>> THEN NULL ELSE Group(MPI_Group_incl(ranks, ids))],
               IF n > Len(domains) THEN num ELSE Unset)

\* The same call when it goes wrong.
LocalitySplitFails(g, n) ==
    LET ranks   == groups[g].ranks
        domains == Domains(ToSet(ranks))
        num     == NumGroups(n, domains) IN
    /\ status = "ok"
    /\ Usable(g) /\ ToSet(ranks) \in Teams
    /\ ReadsBeyond(num, domains) \/ BadRank(num, domains, ranks)
    /\ status' = IF ReadsBeyond(num, domains) THEN "beyond" ELSE "mpi_error"
    /\ UNCHANGED <<groups, call, split>>

Operate(h) ==
    \/ dart_group_create(h) \/ dart_group_destroy(h)
    \/ \E T \in Teams : dart_team_get_group(T, h)
    \/ \E g \in Handles : dart_group_clone(g, h)
    \/ \E f, g \in Handles : dart_group_union(f, g, h) \/ dart_group_intersect(f, g, h)
    \/ \E u \in AllUnits : dart_group_addmember(h, u) \/ dart_group_delmember(h, u)

Next ==
    \E h \in Handles :
       \/ Operate(h)
       \/ \E n \in Parts, first \in Handles : dart_group_split(h, n, first)
       \/ \E n \in LocalityParts, first \in Handles : dart_group_locality_split(h, n, first)
       \/ \E n \in LocalityParts : LocalitySplitFails(h, n)

Spec == Init /\ [][Next]_vars

----------------------------------------------------------------------------
\* No group has a unit twice, and only units of the program.
TypeOK ==
    /\ \A h \in Handles :
         /\ groups[h].valid => groups[h].alloc
         /\ Members(groups[h]) \subseteq AllUnits
         /\ Cardinality(Members(groups[h])) = Len(groups[h].ranks)
    /\ status \in {"ok", "mpi_error", "beyond"}

\* Every group lists its units in ascending order, as the merge of dart_group_union
\* expects of both its arguments ("g1 and g2 are both ordered groups"): the unit 0 of
\* every team is the unit with the lowest global ID.
GroupsAreOrdered ==
    \A h \in Handles : \A i, j \in DOMAIN groups[h].ranks :
        i < j => groups[h].ranks[i] < groups[h].ranks[j]

\* The operations on groups are those on sets of units, a split is a partition into fair
\* shares, and a split by locality a partition that leaves the units of a host together:
\* dart_team_group.c implements GroupSets.
Sets == INSTANCE GroupSets WITH Units <- AllUnits,
                                alive <- {h \in Handles : groups[h].alloc},
                                members <- [h \in Handles |-> Members(groups[h])]

ImplementsGroupSets == Sets!Spec

\* After a split *nout is the number of groups that g has been split into.
SplitCountIsExact ==
    call \in {"split", "locality"} =>
        split.nout = Cardinality({i \in DOMAIN split.out : split.out[i].valid})
=============================================================================
