------------------------------ MODULE DartTeam ------------------------------
(***************************************************************************)
(* Teams of DART-MPI: dart_team_group.c (create, destroy), the per-unit    *)
(* table of teams of dart_team_private.c, and the life cycle of the locks  *)
(* registered on a team (dart_synchronization.c).                          *)
(*                                                                         *)
(* Every unit keeps its own table and its own counter of the next team ID; *)
(* the units agree only inside collective calls.  A collective call of a   *)
(* communicator is a record of ops: units arrive (and block), and once all *)
(* members have arrived each of them runs the rest of the function at its  *)
(* own pace.  A unit joins the collectives it is a member of in the order  *)
(* in which they were started, which is what MPI asks of a program.        *)
(***************************************************************************)
EXTENDS Integers, Sequences, SequencesExt, FiniteSetsExt

CONSTANTS
  Units,            \* global unit IDs, 0 .. n-1
  HashSize,         \* DART_TEAM_HASH_SIZE
  MaxOps,           \* bound: collective calls in a behaviour
  PoolSize,         \* lock tails that fit in the local pool of a unit
  NullGroups,       \* may non-participants pass a null group to team_create?
  LocksOutliveTeam  \* may a team be destroyed before its locks?

ASSUME TeamConstants ==
  /\ Units \subseteq Nat /\ Units # {}
  /\ HashSize \in Nat \ {0} /\ MaxOps \in Nat /\ PoolSize \in Nat
  /\ NullGroups \in BOOLEAN /\ LocksOutliveTeam \in BOOLEAN

VARIABLES
  nextid,   \* dart_next_availteamid
  table,    \* dart_team_data: per slot the list of entries, newest first
  comms,    \* the groups of the MPI communicators created so far
  ops,      \* the collective calls, in the order in which they were started
  team,     \* the teams a unit was given and has not destroyed
  lock,     \* the teams a unit has a lock of
  pool,     \* lock tails allocated in the local pool of a unit
  aborted   \* units on which an assertion failed

vars == <<nextid, table, comms, ops, team, lock, pool, aborted>>

Slots == 0 .. HashSize - 1
World == 1          \* DART_COMM_WORLD
TeamAll == 0        \* DART_TEAM_ALL

-----------------------------------------------------------------------------
(* The table of teams of a unit                                            *)

Hash(id) == id % HashSize

Entry(id, c) == [id |-> id, comm |-> c, lock |-> FALSE, freed |-> FALSE]

(* dart_adapt_teamlist_get: the position of the first entry with this ID   *)
(* in its slot, 0 if there is none.                                        *)
Position(t, id) == SelectInSeq(t[Hash(id)], LAMBDA e : e.id = id)
Known(t, id) == Position(t, id) # 0
Get(t, id) == t[Hash(id)][Position(t, id)]

(* dart_adapt_teamlist_alloc                                               *)
Alloc(t, id, c) == [t EXCEPT ![Hash(id)] = <<Entry(id, c)>> \o @]

(* dart_adapt_teamlist_dealloc.  The loop runs while the entry IS the team *)
(* looked for, so it ends at the first entry of another team.  At the head *)
(* of the list that entry is unlinked and freed; behind the team it is     *)
(* freed but stays linked, since prev points to the loop variable.  With   *)
(* no such entry the call fails and the table keeps the team.              *)
DeallocList(s, id) ==
  LET other == SelectInSeq(s, LAMBDA e : e.id # id) IN
  CASE other = 0 -> s
    [] other = 1 -> Tail(s)
    [] OTHER     -> [s EXCEPT ![other].freed = TRUE]

(* Mutant: the slot of the team is not computed.                           *)
DeallocSlotZero(t, id) == [t EXCEPT ![0] = DeallocList(@, id)]

Dealloc(t, id) == [t EXCEPT ![Hash(id)] = DeallocList(@, id)]

SetLock(t, id, b) == [t EXCEPT ![Hash(id)][Position(t, id)].lock = b]

-----------------------------------------------------------------------------
(* dart_init: everybody is in DART_TEAM_ALL, whose ID is 0.                *)
Init ==
  /\ nextid = [u \in Units |-> TeamAll + 1]
  /\ table = [u \in Units |-> Alloc([s \in Slots |-> <<>>], TeamAll, World)]
  /\ comms = <<Units>>
  /\ ops = <<>>
  /\ team = [u \in Units |-> {[id |-> TeamAll, comm |-> World]}]
  /\ lock = [u \in Units |-> {}]
  /\ pool = [u \in Units |-> 0]
  /\ aborted = {}

(* Collective calls.  left: the units that have returned.                  *)
Members(i) == comms[ops[i].comm]
Complete(i) == ops[i].arrived = Members(i)
Inside(u, i) == u \in ops[i].arrived \ ops[i].left
Outside(u) == \A i \in DOMAIN ops : ~ Inside(u, i)

(* The collectives u has yet to join.                                      *)
Due(u) == {i \in DOMAIN ops : u \in Members(i) \ (ops[i].arrived \cup ops[i].left)}

(* The team unit 0 of a communicator: groups are ordered by global ID.     *)
Root(c) == CHOOSE u \in comms[c] : \A v \in comms[c] : u <= v

Arrive(o, u) == [o EXCEPT !.arrived = @ \cup {u}]
Leave(o, u) == [o EXCEPT !.left = @ \cup {u}]

(* Mutant: MPI_MIN.                                                        *)
MinId(c) == Min({nextid[v] : v \in comms[c]})

(* MPI_Allreduce(MPI_MAX) of dart_next_availteamid over the parent team,   *)
(* known once the last unit has arrived.                                   *)
MaxId(c) == Max({nextid[v] : v \in comms[c]})

(* The communicator MPI_Comm_create returns to the members of the group    *)
(* (0, MPI_COMM_NULL, to the others) exists once all units have arrived.   *)
Settle(o, c) ==
  IF o.kind = "create" /\ o.arrived = comms[c]
  THEN [o EXCEPT !.max = MaxId(c), !.new = Len(comms) + 1]
  ELSE o

NewComms(o, c) ==
  IF o.kind = "create" /\ o.arrived = comms[c]
  THEN Append(comms, o.group) ELSE comms

(* The first unit to call starts the collective on the communicator of the *)
(* team its table names.                                                   *)
StartOp(u, h, kind, group) ==
  LET c == Get(table[u], h.id).comm
      o == [kind |-> kind, id |-> h.id, comm |-> c, group |-> group,
            arrived |-> {u}, left |-> {}, max |-> 0, new |-> 0] IN
  /\ Len(ops) < MaxOps
  /\ u \notin aborted /\ Outside(u) /\ Due(u) = {}
  /\ h \in team[u]
  /\ Known(table[u], h.id)
  /\ ops' = Append(ops, Settle(o, c))
  /\ comms' = NewComms(o, c)

(* dart_team_create(team, group): returns at once with the ID of no team   *)
(* when the group is MPI_GROUP_NULL, which all units see alike.            *)
StartCreate(u, h, G) ==
  /\ G # {} /\ G \subseteq comms[h.comm]
  /\ StartOp(u, h, "create", G)
  /\ UNCHANGED <<nextid, table, team, lock, pool, aborted>>

(* A client that destroys its lock before the team of the lock.            *)
MayDestroy(u, h) == LocksOutliveTeam \/ h \notin lock[u]

(* dart_team_destroy(team), never of DART_TEAM_ALL.                        *)
StartDestroy(u, h) ==
  /\ h.id # TeamAll
  /\ MayDestroy(u, h)
  /\ StartOp(u, h, "destroy", {})
  /\ UNCHANGED <<nextid, table, team, lock, pool, aborted>>

(* dart_team_lock_init(team): unit 0 first allocates the tail.             *)
NeedsTail(u, o) == o.kind = "lock" /\ u = Root(o.comm)

StartLock(u, h) ==
  /\ \A i \in DOMAIN ops : ops[i].kind = "lock" => ops[i].id # h.id
  /\ u # Root(h.comm) \/ pool[u] < PoolSize
  /\ StartOp(u, h, "lock", {})
  /\ pool' = [pool EXCEPT ![u] = IF u = Root(h.comm) THEN @ + 1 ELSE @]
  /\ UNCHANGED <<nextid, table, team, lock, aborted>>

(* Another member makes the matching call.                                 *)
Join(u) ==
  \E i \in Due(u) :
    LET o == Arrive(ops[i], u) IN
    /\ \A j \in Due(u) : i <= j
    /\ Outside(u) /\ u \notin aborted
    /\ NeedsTail(u, o) => pool[u] < PoolSize
    /\ o.kind = "destroy" => MayDestroy(u, [id |-> o.id, comm |-> o.comm])
    /\ ops' = [ops EXCEPT ![i] = Settle(o, o.comm)]
    /\ comms' = NewComms(o, o.comm)
    /\ pool' = [pool EXCEPT ![u] = IF NeedsTail(u, o) THEN @ + 1 ELSE @]
    /\ UNCHANGED <<nextid, table, team, lock, aborted>>

(* A call that returns an error before the collective part: a null group   *)
(* passed to dart_team_create, ...                                         *)
NullGroup(u, o) == NullGroups /\ o.kind = "create" /\ u \notin o.group

(* ... or a failed dart_memalloc of the tail in dart_team_lock_init.       *)
NoTail(u, o) == NeedsTail(u, o) /\ pool[u] = PoolSize

(* It returns DART_ERR_INVAL or DART_ERR_NOMEM and never arrives.          *)
Fail(u) ==
  \E i \in Due(u) :
    /\ \A j \in Due(u) : i <= j
    /\ Outside(u) /\ u \notin aborted
    /\ NullGroup(u, ops[i]) \/ NoTail(u, ops[i])
    /\ ops' = [ops EXCEPT ![i] = Leave(@, u)]
    /\ UNCHANGED <<nextid, table, comms, team, lock, pool, aborted>>

(* Mutant: units outside the new team wait for its window.                 *)
FinishCreateStuck(u, i) ==
  LET o == ops[i] IN
  /\ o.kind = "create"
  /\ Inside(u, i) /\ Complete(i)
  /\ u \in o.group
  /\ nextid' = [nextid EXCEPT ![u] = o.max + 1]
  /\ table' = [table EXCEPT ![u] = Alloc(@, o.max, o.new)]
  /\ team' = [team EXCEPT ![u] = @ \cup {[id |-> o.max, comm |-> o.new]}]
  /\ ops' = [ops EXCEPT ![i] = Leave(@, u)]
  /\ UNCHANGED <<comms, lock, pool, aborted>>

(* The rest of dart_team_create: every unit of the parent moves its        *)
(* counter past the new ID, the members enter the team in their tables.    *)
FinishCreate(u, i) ==
  LET o == ops[i] IN
  /\ o.kind = "create"
  /\ Inside(u, i) /\ Complete(i)
  /\ nextid' = [nextid EXCEPT ![u] = o.max + 1]
  /\ IF u \in o.group
     THEN /\ table' = [table EXCEPT ![u] = Alloc(@, o.max, o.new)]
          /\ team' = [team EXCEPT ![u] = @ \cup {[id |-> o.max, comm |-> o.new]}]
     ELSE UNCHANGED <<table, team>>
  /\ ops' = [ops EXCEPT ![i] = Leave(@, u)]
  /\ UNCHANGED <<comms, lock, pool, aborted>>

(* The rest of dart_team_destroy: segments are dropped, the entry is       *)
(* deallocated, the list of locks is emptied.  Then *teamid is null.       *)
(* (The tail of a lock that is still registered is freed, its list is not: *)
(* the segments it lived in are gone.)                                     *)
FinishDestroy(u, i) ==
  LET o == ops[i]
      t == Dealloc(table[u], o.id) IN
  /\ o.kind = "destroy"
  /\ Inside(u, i) /\ Complete(i)
  /\ table' = [table EXCEPT ![u] = IF Known(t, o.id) THEN SetLock(t, o.id, FALSE) ELSE t]
  /\ pool' = [pool EXCEPT ![u] =
       IF Get(table[u], o.id).lock /\ u = Root(o.comm) THEN @ - 1 ELSE @]
  /\ team' = [team EXCEPT ![u] = @ \ {[id |-> o.id, comm |-> o.comm]}]
  /\ ops' = [ops EXCEPT ![i] = Leave(@, u)]
  /\ UNCHANGED <<nextid, comms, lock, aborted>>

(* The rest of dart_team_lock_init: the lock is registered with its team.  *)
FinishLock(u, i) ==
  LET o == ops[i] IN
  /\ o.kind = "lock"
  /\ Inside(u, i) /\ Complete(i)
  /\ table' = [table EXCEPT ![u] = SetLock(@, o.id, TRUE)]
  /\ lock' = [lock EXCEPT ![u] = @ \cup {[id |-> o.id, comm |-> o.comm]}]
  /\ ops' = [ops EXCEPT ![i] = Leave(@, u)]
  /\ UNCHANGED <<nextid, comms, team, pool, aborted>>

(* dart_team_lock_destroy.  A known team must list the lock (an assertion, *)
(* and without assertions a null dereference).                             *)
DestroyLock(u, h) ==
  /\ u \notin aborted /\ Outside(u)
  /\ h \in lock[u]
  /\ IF Known(table[u], h.id) /\ ~ Get(table[u], h.id).lock
     THEN /\ aborted' = aborted \cup {u}
          /\ UNCHANGED <<table, lock, pool>>
     ELSE /\ aborted' = aborted
          /\ lock' = [lock EXCEPT ![u] = @ \ {h}]
          /\ IF Known(table[u], h.id)
             THEN /\ table' = [table EXCEPT ![u] = SetLock(@, h.id, FALSE)]
                  /\ pool' = [pool EXCEPT ![u] = IF u = Root(h.comm) THEN @ - 1 ELSE @]
             ELSE UNCHANGED <<table, pool>>
  /\ UNCHANGED <<nextid, comms, ops, team>>

-----------------------------------------------------------------------------
Finish(u) ==
  \E i \in DOMAIN ops : FinishCreate(u, i) \/ FinishDestroy(u, i) \/ FinishLock(u, i)

Start(u) ==
  \E h \in team[u] :
    \/ \E G \in SUBSET comms[h.comm] : StartCreate(u, h, G)
    \/ StartDestroy(u, h)
    \/ StartLock(u, h)

Next ==
  \E u \in Units :
    Start(u) \/ Join(u) \/ Fail(u) \/ Finish(u) \/ \E h \in lock[u] : DestroyLock(u, h)

Spec == Init /\ [][Next]_vars

(* A unit makes the collective calls it owes, runs them to their end, and  *)
(* destroys the locks it no longer needs.                                  *)
FairSpec ==
  /\ Spec
  /\ \A u \in Units :
       /\ WF_vars(Join(u) \/ Fail(u))
       /\ WF_vars(Finish(u))
       /\ WF_vars(\E h \in lock[u] : DestroyLock(u, h))

-----------------------------------------------------------------------------
(* Properties                                                              *)

Teams == [id : Nat, comm : Nat]
Entries == [id : Nat, comm : Nat, lock : BOOLEAN, freed : BOOLEAN]
Calls == [kind : {"create", "destroy", "lock"}, id : Nat, comm : Nat, group : SUBSET Units,
          arrived : SUBSET Units, left : SUBSET Units, max : Nat, new : Nat]

(* Every variable keeps its type, and no unit allocates more lock tails    *)
(* than its local pool holds.                                              *)
TypeOK ==
  /\ nextid \in [Units -> Nat]
  /\ table \in [Units -> [Slots -> Seq(Entries)]]
  /\ comms \in Seq(SUBSET Units)
  /\ ops \in Seq(Calls)
  /\ team \in [Units -> SUBSET Teams]
  /\ lock \in [Units -> SUBSET Teams]
  /\ pool \in [Units -> Int] /\ \A u \in Units : pool[u] <= PoolSize
  /\ aborted \in SUBSET Units

(* Guarantees 1 and 3 of dart_team_create: each member of a new team gets  *)
(* the same numerical ID, and the teams a unit is part of have different   *)
(* IDs, also when they were created from different parents at the same     *)
(* time.                                                                   *)
IdsIdentifyTeams ==
  /\ \A u, v \in Units : \A g \in team[u], h \in team[v] :
       g.comm = h.comm => g.id = h.id
  /\ \A u \in Units : \A g, h \in team[u] : g.id = h.id => g = h

(* A team that has not been destroyed is found in the table of each of its *)
(* members, with its own communicator and with its lock registered, and    *)
(* the walk that finds it reads no freed entry.                            *)
LiveTeamIsFound ==
  \A u \in Units : \A h \in team[u] :
    LET s == table[u][Hash(h.id)]
        p == Position(table[u], h.id) IN
    /\ p # 0 /\ s[p].comm = h.comm
    /\ h \in lock[u] => s[p].lock
    /\ \A i \in 1 .. p : ~ s[i].freed

(* What these two rest on, in an inductive form.                           *)

(* A team has been created by collective call i.                           *)
Settled(i) == ops[i].new # 0

(* The teams that unit u has ever been given.                              *)
Given(u) ==
  {[id |-> TeamAll, comm |-> World]} \cup
  {[id |-> ops[i].max, comm |-> ops[i].new] :
     i \in {j \in DOMAIN ops : Settled(j) /\ u \in ops[j].left \cap ops[j].group}}

(* A team is created when the last member of its parent has arrived, with  *)
(* a communicator of its own and an ID below that; until then nobody has   *)
(* left the call but by an error, which keeps it from ever completing.     *)
CallsAreSound ==
  /\ 1 <= Len(comms)
  /\ \A i \in DOMAIN ops :
       /\ ops[i].comm \in DOMAIN comms
       /\ Settled(i) <=> ops[i].kind = "create" /\ Complete(i)
       /\ Settled(i) => 1 <= ops[i].max /\ ops[i].max < ops[i].new /\ ops[i].new <= Len(comms)
       /\ ops[i].left \subseteq Members(i)
       /\ ~ Complete(i) => ops[i].left \cap ops[i].arrived = {}
  /\ \A i, j \in DOMAIN ops : Settled(i) /\ ops[i].new = ops[j].new => i = j

(* A unit is in one collective call at a time.                             *)
OneAtATime == \A u \in Units : \A i, j \in DOMAIN ops : Inside(u, i) /\ Inside(u, j) => i = j

(* The counter of a unit is past the ID of every team whose creation it    *)
(* has finished, not past that of the creation it is in; so these IDs      *)
(* differ.                                                                 *)
CountersAreExact ==
  \A u \in Units :
    /\ 1 <= nextid[u] /\ nextid[u] <= Len(comms)
    /\ \A i \in DOMAIN ops : Settled(i) =>
         /\ u \in ops[i].left => ops[i].max < nextid[u]
         /\ Inside(u, i) => nextid[u] <= ops[i].max
    /\ \A i, j \in DOMAIN ops :
         Settled(i) /\ Settled(j) /\ u \in ops[i].left \cap ops[j].left /\ ops[i].max = ops[j].max
           => i = j

(* A unit knows only of teams that it has been given.                      *)
TeamsWereGiven ==
  \A u \in Units :
    /\ team[u] \subseteq Given(u)
    /\ \A s \in Slots : \A k \in DOMAIN table[u][s] :
         [id |-> table[u][s][k].id, comm |-> table[u][s][k].comm] \in Given(u)

TeamInv == CallsAreSound /\ OneAtATime /\ CountersAreExact /\ TeamsWereGiven

(* The units that take part in a collective call know its communicator, as *)
(* the team with the ID that the call was started with.                    *)
CallsNameTeams ==
  \A i \in DOMAIN ops :
    /\ ops[i].arrived # {}
    /\ \A v \in ops[i].arrived : [id |-> ops[i].id, comm |-> ops[i].comm] \in Given(v)
    /\ ops[i].group \subseteq Members(i)
    /\ Settled(i) => comms[ops[i].new] = ops[i].group

(* A unit has locks only of teams that it was given.                       *)
LocksWereGiven == \A u \in Units : lock[u] \subseteq Given(u)

(* One communicator is created per call that settled.                      *)
CommsAreCounted ==
  /\ Len(ops) <= MaxOps
  /\ Len(comms) = 1 + Cardinality({i \in DOMAIN ops : Settled(i)})

NameInv == CallsNameTeams /\ LocksWereGiven /\ CommsAreCounted

(* While IDs do not collide in the table, a slot has the entry of one      *)
(* team, which dart_adapt_teamlist_dealloc leaves alone.                   *)
SlotsAreSingle ==
  \A u \in Units :
    /\ \A s \in Slots :
         /\ Len(table[u][s]) <= 1
         /\ \A k \in DOMAIN table[u][s] : table[u][s][k].id = s /\ ~ table[u][s][k].freed
    /\ \A h \in team[u] :
         /\ Len(table[u][h.id]) = 1
         /\ h \in lock[u] => table[u][h.id][1].lock

(* A destroyed team is an unknown team: calls with its ID are refused      *)
(* instead of using a communicator that has been freed.                    *)
DestroyedTeamIsUnknown ==
  \A u \in Units : Outside(u) =>
    \A s \in Slots : \A i \in DOMAIN table[u][s] :
      \E h \in team[u] : h.id = table[u][s][i].id

(* dart_team_lock_destroy never fails its assertion "Unknown lock!".       *)
NoAssertionFails == aborted = {}

(* Every collective call a unit has entered returns.                       *)
CollectivesAlwaysReturn == \A u \in Units : ~ Outside(u) ~> Outside(u)

(* A unit has returned from a collective call without taking part in it.   *)
LoneReturn == \E i \in DOMAIN ops : ~ ops[i].left \subseteq ops[i].arrived

(* The units of overlapping teams, whose collective calls interleave in    *)
(* any way MPI allows, never wait for one another for ever: a unit leaves  *)
(* the call it has entered unless some unit returned from a call on its    *)
(* own, with an error that only it saw.                                    *)
CollectivesReturn ==
  \A u \in Units : ~ Outside(u) ~> (Outside(u) \/ LoneReturn)
=============================================================================
