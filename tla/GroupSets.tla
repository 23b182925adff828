----------------------------- MODULE GroupSets -----------------------------
(***************************************************************************)
(* What the group interface of dart_team_group.h promises: a group is a    *)
(* set of units, the operations are those of sets, and a split partitions  *)
(* the group into parts of about the same size.                            *)
(***************************************************************************)
EXTENDS Integers, FiniteSets

CONSTANTS Handles, Units, Teams,
          Hosts           \* the sets of units that share a host

VARIABLES call,           \* the operation that was called last
          alive,          \* handles of groups that exist
          members         \* members[h]: the units of group h

vars == <<call, alive, members>>

Init == call = "none" /\ alive = {} /\ members = [h \in Handles |-> {}]

\* The new group h has the units of S.
Make(op, h, S) ==
    /\ call' = op
    /\ h \notin alive
    /\ alive' = alive \cup {h}
    /\ members' = [members EXCEPT ![h] = S]

Change(op, h, S) ==
    /\ call' = op
    /\ h \in alive
    /\ members' = [members EXCEPT ![h] = S]
    /\ UNCHANGED alive

Destroy(h) ==
    /\ call' = "destroy"
    /\ h \in alive
    /\ alive' = alive \ {h}
    /\ members' = [members EXCEPT ![h] = {}]

\* The new groups H are disjoint and have together the units of h.
Partition(op, h, H) ==
    /\ call' = op
    /\ h \in alive
    /\ H \cap alive = {}
    /\ alive' = alive \cup H
    /\ \A k \in Handles \ H : members'[k] = members[k]
    /\ UNION {members'[k] : k \in H} = members[h]
    /\ \A j, k \in H : j # k => members'[j] \cap members'[k] = {}

\* None of them has more units than its share, rounded up.
FairShares(h, H) ==
    \A k \in H : (Cardinality(members'[k]) - 1) * Cardinality(H) < Cardinality(members[h])

\* The units of a host stay together.
HostsAreWhole(H) ==
    \A S \in Hosts : \A j, k \in H : S \cap members'[j] # {} /\ S \cap members'[k] # {} => j = k

Next ==
    \E h \in Handles :
       \/ Destroy(h)
       \/ Make("create", h, {})
       \/ \E T \in Teams : Make("team", h, T)
       \/ \E g \in alive : Make("clone", h, members[g])
       \/ \E f, g \in alive : Make("union", h, members[f] \cup members[g])
       \/ \E f, g \in alive : Make("intersect", h, members[f] \cap members[g])
       \/ \E u \in Units : Change("addmember", h, members[h] \cup {u})
       \/ \E u \in Units : Change("delmember", h, members[h] \ {u})
       \/ \E H \in SUBSET Handles : Partition("split", h, H) /\ FairShares(h, H)
       \/ \E H \in SUBSET Handles : Partition("locality", h, H) /\ HostsAreWhole(H)

Spec == Init /\ [][Next]_vars
=============================================================================
