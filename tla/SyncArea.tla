----------------------------- MODULE SyncArea -----------------------------
(***************************************************************************)
(* The memory DART-SHMEM shares between the processes of a job            *)
(* (shmem_barriers_sysv.c): a table of teams, each with a barrier made of *)
(* a mutex and a condition variable, and a table of locks.  All functions *)
(* run under one of the mutexes of the area from their first access to    *)
(* their last, so each is one operator on the area.  A function that      *)
(* searches the table takes the first slot that fits.                     *)
(***************************************************************************)
EXTENDS Integers, FiniteSets

CONSTANTS MaxTeams,   \* MAXNUM_TEAMS
          MaxLocks    \* MAXNUM_LOCKS

Slots == 0 .. MaxTeams - 1
LockIds == 0 .. MaxLocks - 1
TeamAll == 0
NotFound == -1

\* The barrier of a slot: num_procs and num_waiting.  Who is blocked on its condition
\* variable is kept with the processes.
sysv_barrier_create(num_procs) == [num_procs |-> num_procs, num_waiting |-> 0]

FreeSlot == [inuse |-> FALSE, teamid |-> NotFound, barr |-> sysv_barrier_create(0)]

shmem_syncarea_init(numprocs, units) ==
    [teams |-> [s \in Slots |->
                  IF s = 0 THEN [inuse |-> TRUE, teamid |-> TeamAll,
                                 barr |-> sysv_barrier_create(numprocs)]
                  ELSE FreeSlot],
     locks |-> [l \in LockIds |-> FALSE],
     nextid |-> 1,
     unitstate |-> [u \in units |-> "not_initialized"]]

\* The least element of a set of slots, or NotFound.
First(S) == IF S = {} THEN NotFound ELSE CHOOSE s \in S : \A r \in S : s <= r

shmem_syncarea_findteam(area, teamid) ==
    First({s \in Slots : area.teams[s].inuse /\ area.teams[s].teamid = teamid})

\* The slot a new team takes; slot 0 belongs to DART_TEAM_ALL for ever.
FreeTeamSlot(area) == First({s \in Slots \ {0} : ~area.teams[s].inuse})

NewteamWithSameId(area, numprocs) ==
    LET slot == FreeTeamSlot(area) IN
    IF slot = NotFound THEN area
    ELSE [area EXCEPT !.teams[slot] = [inuse |-> TRUE, teamid |-> area.nextid,
                                       barr |-> sysv_barrier_create(numprocs)]]

shmem_syncarea_newteam(area, numprocs) ==
    LET slot == FreeTeamSlot(area) IN
    IF slot = NotFound THEN area
    ELSE [area EXCEPT !.teams[slot] = [inuse |-> TRUE, teamid |-> area.nextid,
                                       barr |-> sysv_barrier_create(numprocs)],
                      !.nextid = @ + 1]

\* Destroying the barrier does not touch its counters.  Slot 0 is never released.
shmem_syncarea_delteam(area, teamid) ==
    LET slot == shmem_syncarea_findteam(area, teamid) IN
    IF slot < 1 THEN area ELSE [area EXCEPT !.teams[slot].inuse = FALSE]

shmem_syncarea_setunitstate(area, u, state) == [area EXCEPT !.unitstate[u] = state]

\* sysv_barrier_await up to its wait or its broadcast: the last unit to arrive resets the
\* counter and does not wait.
LastToArrive(area, slot) ==
    area.teams[slot].barr.num_waiting + 1 >= area.teams[slot].barr.num_procs

AwaitWithoutReset(area, slot) == [area EXCEPT !.teams[slot].barr.num_waiting = @ + 1]

sysv_barrier_await(area, slot) ==
    [area EXCEPT !.teams[slot].barr.num_waiting = IF LastToArrive(area, slot) THEN 0 ELSE @ + 1]

\* dart_team_lock_init and dart_team_lock_free, the part of the team's unit 0.
FreeLock(area) == First({l \in LockIds : ~area.locks[l]})

TakeLockSlot(area) ==
    IF FreeLock(area) = NotFound THEN area ELSE [area EXCEPT !.locks[FreeLock(area)] = TRUE]

GiveLockSlot(area, l) == [area EXCEPT !.locks[l] = FALSE]
=============================================================================
