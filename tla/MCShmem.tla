------------------------------ MODULE MCShmem ------------------------------
(***************************************************************************)
(* Programs for DART-SHMEM jobs of three units.                           *)
(***************************************************************************)
EXTENDS ShmemRuntime

C(op, h) == [op |-> op, h |-> h]
R(op, h, root) == [op |-> op, h |-> h, root |-> root]
Create(h, group, newh) == [op |-> "create", h |-> h, group |-> group, newh |-> newh]
PingPong(a, b) == [op |-> "pingpong", a |-> a, b |-> b]

\* One process may die anywhere in these.
MCFragile == {<<>>}

MCPrograms == MCFragile \cup
    { \* a slot is released and taken by a team of other units
      <<Create(0, {0, 1}, 1), R("gather", 1, 1), C("destroy", 1), Create(0, {1, 2}, 2), R("bcast", 2, 0)>>,
      \* two teams at the same time, each with a child
      <<Create(0, {0, 1}, 1), Create(0, {2}, 2), Create(1, {1}, 3), Create(2, {2}, 4), C("destroy", 1)>>,
      \* data movement without barriers in between, the root in the middle
      <<R("scatter", 0, 1), R("bcast", 0, 1), R("gather", 0, 2), C("allgather", 0)>>,
      \* a team with a gap, its lock and its memory
      <<Create(0, {0, 2}, 1), C("lock_init", 1), C("lock_use", 1), C("lock_free", 1), C("alloc", 1)>>,
      \* locks of two teams, more than there are
      <<C("lock_init", 0), Create(0, {1, 2}, 1), C("lock_use", 0), C("lock_free", 0), C("lock_init", 1)>>,
      \* memory of narrower teams, and of a wider one
      <<C("alloc", 0), Create(0, {1, 2}, 1), C("alloc", 1)>>,
      <<Create(0, {0, 1}, 1), C("alloc", 1), C("alloc", 0)>>,
      \* non-blocking messages, more than the queue holds
      <<PingPong(0, 1)>> }
=============================================================================
