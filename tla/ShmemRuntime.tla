--------------------------- MODULE ShmemRuntime ---------------------------
(***************************************************************************)
(* A DART-SHMEM job: the launcher, the processes it starts, and in each   *)
(* process a main thread that runs an SPMD program of collective calls    *)
(* and a helper thread that serves non-blocking messages.  They share the *)
(* synchronisation area (SyncArea) and named pipes, one for every ordered *)
(* pair of units of every team.                                           *)
(*                                                                        *)
(* A call is compiled, when it starts, into the sequence of the steps it  *)
(* has left (todo): barriers, messages, accesses of the shared area.  One *)
(* action executes one kind of step.                                      *)
(***************************************************************************)
EXTENDS SyncArea, WorkQueue, Sequences, TLC

CONSTANTS NumUnits,    \* processes of the job (dartrun -n)
          Handles,     \* the team variables of the program; 0 is DART_TEAM_ALL
          Programs,    \* the programs, sequences of calls
          MaxPools,    \* MAXNUM_MEMPOOLS
          AsyncP2P,    \* compiled with DART_USE_HELPER_THREAD
          Fragile      \* the programs in which one process may die

VARIABLES area,        \* the synchronisation area
          prog,        \* the program all units run
          pc,          \* index of the call a unit is in, or starts next
          todo,        \* steps left of its call
          at,          \* where its main thread is: running, or in a wait
          mem,         \* its buffers and local results
          teams,       \* its table of teams
          fifos,       \* names of the pipes in /tmp
          ends,        \* pipe ends that are open or being opened
          pipe,        \* messages in the pipes
          nextkey,     \* next key of a shared memory segment
          mutex,       \* holder of each process-shared lock
          queue,       \* its work queue
          helper,      \* its helper thread
          proc,        \* its process
          launcher     \* dartrun

main == <<pc, todo, at, mem, teams>>
pipes == <<fifos, ends, pipe>>
vars == <<area, prog, main, pipes, nextkey, mutex, queue, helper, proc, launcher>>

Units == 0 .. NumUnits - 1
NoTeam == -1
NoUnit == -1

----------------------------------------------------------------------------
(* Groups: dart_group_t maps global to local IDs in ascending order. *)

g2l(group, u) == Cardinality({v \in group : v < u})
l2g(group, i) == CHOOSE u \in group : g2l(group, u) = i

(* The buffers of a unit: one scalar, the blocks of a receive buffer, the  *)
(* blocks of a send buffer, and the message that announces a new team.     *)
Buf == -1
Nmsg == -2
RecvBlock(i) == i
SendBlock(i) == NumUnits + i

NoMsg == [teamid |-> NoTeam, size |-> 0, newid |-> NoUnit]
Own(k, u) == 10 * k + u
Part(k, i) == 10 * k + 5 + i
UserBuffers(k, u) ==
    [l \in Nmsg .. 2 * NumUnits - 1 |->
        CASE l = Buf -> Own(k, u) [] l = Nmsg -> NoMsg [] l >= NumUnits -> Part(k, l - NumUnits)
          [] OTHER -> 0]

----------------------------------------------------------------------------
(* Steps, and the calls they make up. *)

Bar(t) == [op |-> "barrier", team |-> t]
Send(t, unit, loc, newid) == [op |-> "send", team |-> t, unit |-> unit, loc |-> loc, newid |-> newid]
Recv(t, unit, loc) == [op |-> "recv", team |-> t, unit |-> unit, loc |-> loc]
Copy(from, to) == [op |-> "memcpy", from |-> from, to |-> to]
Do(op, t) == [op |-> op, team |-> t]
Push(item) == [op |-> "push", item |-> item]

\* One step for each local ID of a team of n units, in order; the root has its own.
Each(n, root, step(_), own) == [j \in 1 .. n |-> IF j - 1 = root THEN own ELSE step(j - 1)]
EachOther(n, root, step(_)) ==
    SelectSeq(Each(n, root, step, Do("none", 0)), LAMBDA s : s.op # "none")

SlotOf(t) == IF t = TeamAll THEN 0 ELSE shmem_syncarea_findteam(area, t)
dart_team_myid(u, t) == IF t = TeamAll THEN u ELSE teams[u][SlotOf(t)].myid
dart_team_size(u, t) == Cardinality(teams[u][SlotOf(t)].group)
dart_shmem_team_valid(u, t) ==
    \E s \in Slots : teams[u][s].valid /\ teams[u][s].teamid = t

BcastSteps(t, root, me, n, loc) ==
    IF me = root THEN LET S(i) == Send(t, i, loc, 0) IN EachOther(n, root, S)
    ELSE <<Recv(t, root, loc)>>

BcastWithoutBarrier(t, root, me, n, loc) == BcastSteps(t, root, me, n, loc) \o <<Bar(t)>>

dart_bcast(t, root, me, n, loc) == <<Bar(t)>> \o BcastSteps(t, root, me, n, loc) \o <<Bar(t)>>

\* The root copies its own receive buffer into the send buffer, not the other way round.
dart_scatter(t, root, me, n) ==
    IF me = root
    THEN LET S(i) == Send(t, i, SendBlock(i), 0) IN Each(n, root, S, Copy(Buf, SendBlock(root)))
    ELSE <<Recv(t, root, Buf)>>

GatherOutOfPlace(t, root, me, n) ==
    (IF me = root
     THEN LET R(i) == Recv(t, i, RecvBlock(root)) IN Each(n, root, R, Copy(Buf, RecvBlock(root)))
     ELSE <<Send(t, root, Buf, 0)>>)
    \o <<Bar(t)>>

dart_gather(t, root, me, n) ==
    (IF me = root
     THEN LET R(i) == Recv(t, i, RecvBlock(i)) IN Each(n, root, R, Copy(Buf, RecvBlock(root)))
     ELSE <<Send(t, root, Buf, 0)>>)
    \o <<Bar(t)>>

\* The broadcast has the size of one block.
dart_allgather(t, me, n) == dart_gather(t, 0, me, n) \o dart_bcast(t, 0, me, n, RecvBlock(0))

IfFirst(me, step) == IF me = 0 THEN <<step>> ELSE <<>>

dart_mempool_create(t, me, n) ==
    IfFirst(me, Do("shm_create", t)) \o dart_bcast(t, 0, me, n, Buf) \o <<Do("attach", t)>>

dart_memarea_create_mempool(u, t, me, n) ==
    IF Len(mem[u].pools) < MaxPools THEN dart_mempool_create(t, me, n) ELSE <<>>

dart_team_lock_init(t, me, n) ==
    IfFirst(me, Do("take_lock", t)) \o dart_bcast(t, 0, me, n, Buf) \o <<Do("set_lock", t)>>

dart_team_lock_free(t, me) == IfFirst(me, Do("give_lock", t)) \o <<Bar(t)>>

\* The first member by global ID creates the team and tells the others, in ascending order,
\* their ID in it; the messages travel in the parent team.
CreateSteps(u, t, group) ==
    LET old == teams[u][SlotOf(t)].group
        master == l2g(group, 0)
        S(i) == Send(t, g2l(old, l2g(group, i)), Nmsg, i)
    IN  (IF u = master THEN <<[op |-> "new", size |-> Cardinality(group)]>>
                               \o EachOther(Cardinality(group), 0, S)
         ELSE IF u \in group THEN <<Recv(t, g2l(old, master), Nmsg)>> ELSE <<>>)

dart_team_create(u, t, group, h) ==
    IF ~dart_shmem_team_valid(u, t) THEN <<>>
    ELSE <<Bar(t)>> \o CreateSteps(u, t, group)
         \o (IF u \in group THEN <<[op |-> "team_init", group |-> group, h |-> h]>> ELSE <<>>)
         \o <<Bar(t)>>

dart_shmem_team_delete(u, t, me, n) ==
    IF ~dart_shmem_team_valid(u, t) THEN <<>>
    ELSE <<[op |-> "p2p_destroy", team |-> t, me |-> me, n |-> n], Bar(t)>>
         \o IfFirst(me, Do("delteam", t))

dart_team_destroy(u, t, me, n) ==
    IF ~dart_shmem_team_valid(u, t) THEN <<>>
    ELSE <<Bar(t)>> \o dart_shmem_team_delete(u, t, me, n)

\* dart_shmem_team_init for DART_TEAM_ALL, then the first pool and the helper thread.
dart_init(u) ==
    <<Do("team_all", TeamAll)>> \o dart_mempool_create(TeamAll, u, NumUnits)
    \o <<Bar(TeamAll), Do("start_helper", TeamAll)>>

dart_exit(u) ==
    <<Bar(TeamAll), Bar(TeamAll)>> \o dart_shmem_team_delete(u, TeamAll, u, NumUnits)
    \o <<Do("clean_exit", TeamAll), Push(WorkShutdown), Do("join", TeamAll)>>

\* Non-blocking messages go through the helper thread only when compiled to.
dart_shmem_isend(t, dest) ==
    IF AsyncP2P THEN Push([selector |-> "nb_send", step |-> Send(t, dest, Buf, 0)])
    ELSE Send(t, dest, Buf, 0)
dart_shmem_irecv(t, source) ==
    IF AsyncP2P THEN Push([selector |-> "nb_recv", step |-> Recv(t, source, RecvBlock(0))])
    ELSE Recv(t, source, RecvBlock(0))

\* The steps of call c at unit u; a unit that is not in the call's team skips it.
StepsOf(c, u) ==
    CASE c.op = "init" -> dart_init(u)
      [] c.op = "exit" -> dart_exit(u)
      [] c.op = "pingpong" ->
            IF u = c.a THEN <<dart_shmem_isend(TeamAll, c.b), dart_shmem_irecv(TeamAll, c.b)>>
            ELSE IF u = c.b THEN <<dart_shmem_irecv(TeamAll, c.a), dart_shmem_isend(TeamAll, c.a)>>
            ELSE <<>>
      [] OTHER ->
            LET t == mem[u].th[c.h] IN
            IF t = NoTeam THEN <<>>
            ELSE LET me == dart_team_myid(u, t)
                     n == dart_team_size(u, t)
                 IN CASE c.op = "bcast" -> dart_bcast(t, c.root, me, n, Buf)
                      [] c.op = "scatter" -> dart_scatter(t, c.root, me, n)
                      [] c.op = "gather" -> dart_gather(t, c.root, me, n)
                      [] c.op = "allgather" -> dart_allgather(t, me, n)
                      [] c.op = "create" -> dart_team_create(u, t, c.group, c.newh)
                      [] c.op = "destroy" -> dart_team_destroy(u, t, me, n)
                      [] c.op = "alloc" -> dart_memarea_create_mempool(u, t, me, n)
                      [] c.op = "lock_init" -> dart_team_lock_init(t, me, n)
                      [] c.op = "lock_use" -> <<Do("acquire", t), Do("release", t)>>
                      [] c.op = "lock_free" -> dart_team_lock_free(t, me)

----------------------------------------------------------------------------
NoTeamEntry == [valid |-> FALSE, teamid |-> NoTeam, myid |-> NoUnit, group |-> {}]

\* dart_start: the area is set up and the processes started.
Init ==
    /\ area = shmem_syncarea_init(NumUnits, Units)
    /\ prog \in {<<[op |-> "init"]>> \o p \o <<[op |-> "exit"]>> : p \in Programs}
    /\ pc = [u \in Units |-> 1]
    /\ todo = [u \in Units |-> <<>>]
    /\ at = [u \in Units |-> "run"]
    /\ mem = [u \in Units |-> [cell |-> UserBuffers(0, u), pools |-> <<>>, lock |-> NotFound,
                               th |-> [h \in Handles |-> IF h = 0 THEN TeamAll ELSE NoTeam]]]
    /\ teams = [u \in Units |-> [s \in Slots |-> NoTeamEntry]]
    /\ fifos = {} /\ ends = {} /\ pipe = <<>>
    /\ nextkey = 1
    /\ mutex = [l \in LockIds |-> NoUnit]
    /\ queue = [u \in Units |-> dart_work_queue_init]
    /\ helper = [u \in Units |-> [st |-> "none", item |-> WorkNone]]
    /\ proc = [u \in Units |-> "alive"]
    /\ launcher = [st |-> "waiting", reaped |-> {}]

\* A process that was sent SIGTERM may go on for a while.
Executing(u) == proc[u] \in {"alive", "killed"}
Idle(u) == at[u] = "run" /\ todo[u] = <<>>
Now(u, op) == Executing(u) /\ at[u] = "run" /\ todo[u] # <<>> /\ Head(todo[u]).op = op

Call(u) ==
    /\ Executing(u) /\ Idle(u) /\ pc[u] <= Len(prog)
    /\ mem' = [mem EXCEPT ![u].cell = UserBuffers(pc[u], u)]
    /\ LET steps == StepsOf(prog[pc[u]], u) IN
         /\ todo' = [todo EXCEPT ![u] = steps]
         /\ pc' = IF steps = <<>> THEN [pc EXCEPT ![u] = @ + 1] ELSE pc
    /\ UNCHANGED <<area, prog, at, teams, pipes, nextkey, mutex, queue, helper, proc, launcher>>

\* The step is done; after its last step the call returns.
Done(u) ==
    /\ todo' = [todo EXCEPT ![u] = Tail(@)]
    /\ pc' = IF Len(todo[u]) = 1 THEN [pc EXCEPT ![u] = @ + 1] ELSE pc

----------------------------------------------------------------------------
(* Barriers: dart_barrier looks the team up and waits at the barrier of its *)
(* slot; for a team that is not found it returns at once.                   *)

WaitingIn(t) == {u \in Units : at[u] = "blocked" /\ Head(todo[u]).team = t}

Barrier(u) ==
    /\ Now(u, "barrier")
    /\ LET t == Head(todo[u]).team
           slot == SlotOf(t)
       IN IF slot = NotFound THEN Done(u) /\ UNCHANGED <<area, at>>
          ELSE /\ area' = sysv_barrier_await(area, slot)
               /\ IF LastToArrive(area, slot)
                  THEN /\ at' = [v \in Units |-> IF v \in WaitingIn(t) THEN "released" ELSE at[v]]
                       /\ Done(u)
                  ELSE at' = [at EXCEPT ![u] = "blocked"] /\ UNCHANGED <<todo, pc>>
    /\ UNCHANGED <<prog, mem, teams, pipes, nextkey, mutex, queue, helper, proc, launcher>>

\* The wait is not in a loop: a unit that was woken leaves.
LeaveBarrier(u) ==
    /\ Executing(u) /\ at[u] = "released"
    /\ at' = [at EXCEPT ![u] = "run"]
    /\ Done(u)
    /\ UNCHANGED <<area, prog, mem, teams, pipes, nextkey, mutex, queue, helper, proc, launcher>>

----------------------------------------------------------------------------
(* Messages.  An end is opened at its first use, and the open blocks until  *)
(* the other end is opened too; a message fits into the pipe.               *)

PipeOf(u, s) ==
    LET me == dart_team_myid(u, s.team) IN
    IF s.op = "send" THEN <<s.team, me, s.unit>> ELSE <<s.team, s.unit, me>>
EndOf(u, s) == <<PipeOf(u, s), s.op>>
BothOpen(p) == {<<p, "send">>, <<p, "recv">>} \subseteq ends

Opens(u, s) == EndOf(u, s) \notin ends /\ PipeOf(u, s) \in fifos /\ ends' = ends \cup {EndOf(u, s)}
OpenFails(u, s) == EndOf(u, s) \notin ends /\ PipeOf(u, s) \notin fifos

Payload(u, s) ==
    IF s.loc = Nmsg THEN [mem[u].cell[Nmsg] EXCEPT !.newid = s.newid] ELSE mem[u].cell[s.loc]

Writes(u, s) ==
    /\ s.op = "send" /\ BothOpen(PipeOf(u, s))
    /\ pipe' = [pipe EXCEPT ![PipeOf(u, s)] = Append(@, Payload(u, s))]
    /\ UNCHANGED mem
Reads(u, s) ==
    /\ s.op = "recv" /\ BothOpen(PipeOf(u, s)) /\ pipe[PipeOf(u, s)] # <<>>
    /\ pipe' = [pipe EXCEPT ![PipeOf(u, s)] = Tail(@)]
    /\ mem' = [mem EXCEPT ![u].cell[s.loc] = Head(pipe[PipeOf(u, s)])]

MessageVars == <<area, prog, at, teams, fifos, nextkey, mutex, queue, proc, launcher>>

Open(u) ==
    /\ Now(u, "send") \/ Now(u, "recv")
    /\ Opens(u, Head(todo[u]))
    /\ UNCHANGED <<MessageVars, pc, todo, mem, pipe, helper>>

\* The error of a message in a collective call is ignored.
OpenError(u) ==
    /\ Now(u, "send") \/ Now(u, "recv")
    /\ OpenFails(u, Head(todo[u]))
    /\ Done(u)
    /\ UNCHANGED <<MessageVars, mem, ends, pipe, helper>>

dart_shmem_send(u) ==
    /\ Now(u, "send")
    /\ Writes(u, Head(todo[u])) /\ Done(u)
    /\ UNCHANGED <<MessageVars, ends, helper>>

dart_shmem_recv(u) ==
    /\ Now(u, "recv")
    /\ Reads(u, Head(todo[u])) /\ Done(u)
    /\ UNCHANGED <<MessageVars, ends, helper>>

Memcpy(u) ==
    /\ Now(u, "memcpy")
    /\ mem' = [mem EXCEPT ![u].cell[Head(todo[u]).to] = mem[u].cell[Head(todo[u]).from]]
    /\ Done(u)
    /\ UNCHANGED <<MessageVars, ends, pipe, helper>>

----------------------------------------------------------------------------
(* Teams. *)

\* Unit me of a team makes the pipes from every member to itself.
PipesTo(t, me, n) == {<<t, i, me>> : i \in 0 .. n - 1}

dart_shmem_p2p_init(t, me, n) ==
    /\ fifos' = fifos \cup PipesTo(t, me, n)
    /\ pipe' = pipe @@ [p \in PipesTo(t, me, n) |-> <<>>]
    /\ UNCHANGED ends

TeamInitAll(u) ==
    /\ Now(u, "team_all")
    /\ teams' = [teams EXCEPT ![u] = [s \in Slots |->
                    IF s = 0 THEN [valid |-> TRUE, teamid |-> TeamAll, myid |-> u, group |-> Units]
                    ELSE NoTeamEntry]]
    /\ dart_shmem_p2p_init(TeamAll, u, NumUnits)
    /\ Done(u)
    /\ UNCHANGED <<area, prog, at, mem, nextkey, mutex, queue, helper, proc, launcher>>

dart_shmem_team_new(u) ==
    /\ Now(u, "new")
    /\ FreeTeamSlot(area) # NotFound
    /\ area' = shmem_syncarea_newteam(area, Head(todo[u]).size)
    /\ mem' = [mem EXCEPT ![u].cell[Nmsg] =
                  [teamid |-> area.nextid, size |-> Head(todo[u]).size, newid |-> 0]]
    /\ Done(u)
    /\ UNCHANGED <<prog, at, teams, pipes, nextkey, mutex, queue, helper, proc, launcher>>

dart_shmem_team_init(u) ==
    /\ Now(u, "team_init")
    /\ LET msg == mem[u].cell[Nmsg]
           slot == shmem_syncarea_findteam(area, msg.teamid)
       IN IF slot = NotFound THEN UNCHANGED <<teams, mem, pipes>>
          ELSE /\ teams' = [teams EXCEPT ![u][slot] = [valid |-> TRUE, teamid |-> msg.teamid,
                                   myid |-> msg.newid, group |-> Head(todo[u]).group]]
               /\ mem' = [mem EXCEPT ![u].th[Head(todo[u]).h] = msg.teamid]
               /\ dart_shmem_p2p_init(msg.teamid, msg.newid, msg.size)
    /\ Done(u)
    /\ UNCHANGED <<area, prog, at, nextkey, mutex, queue, helper, proc, launcher>>

dart_shmem_p2p_destroy(u) ==
    /\ Now(u, "p2p_destroy")
    /\ fifos' = fifos \ PipesTo(Head(todo[u]).team, Head(todo[u]).me, Head(todo[u]).n)
    /\ Done(u)
    /\ UNCHANGED <<area, prog, at, mem, teams, ends, pipe, nextkey, mutex, queue, helper, proc, launcher>>

\* The slot in the unit's own table of teams stays valid.
Delteam(u) ==
    /\ Now(u, "delteam")
    /\ area' = shmem_syncarea_delteam(area, Head(todo[u]).team)
    /\ Done(u)
    /\ UNCHANGED <<prog, at, mem, teams, pipes, nextkey, mutex, queue, helper, proc, launcher>>

----------------------------------------------------------------------------
(* Memory pools and locks. *)

shmem_mm_create(u) ==
    /\ Now(u, "shm_create")
    /\ mem' = [mem EXCEPT ![u].cell[Buf] = nextkey]
    /\ nextkey' = nextkey + 1
    /\ Done(u)
    /\ UNCHANGED <<area, prog, at, teams, pipes, mutex, queue, helper, proc, launcher>>

\* The pool's number is the index of the next free one in this process.
Attach(u) ==
    /\ Now(u, "attach")
    /\ LET t == Head(todo[u]).team IN
         mem' = [mem EXCEPT ![u].pools =
                   Append(@, [team |-> t, key |-> mem[u].cell[Buf], block |-> dart_team_myid(u, t)])]
    /\ Done(u)
    /\ UNCHANGED <<area, prog, at, teams, pipes, nextkey, mutex, queue, helper, proc, launcher>>

\* The block of a pool that an access of unit u to memory of unit v reaches, from the block
\* of u itself.
BackwardsFrom(block, u, v) == block + (u - v)
dart_get_blocking(block, u, v) == block + (v - u)

TakeLock(u) ==
    /\ Now(u, "take_lock")
    /\ mem' = [mem EXCEPT ![u].cell[Buf] = IF FreeLock(area) = NotFound THEN MaxLocks ELSE FreeLock(area)]
    /\ area' = TakeLockSlot(area)
    /\ Done(u)
    /\ UNCHANGED <<prog, at, teams, pipes, nextkey, mutex, queue, helper, proc, launcher>>

SetLock(u) ==
    /\ Now(u, "set_lock")
    /\ mem' = [mem EXCEPT ![u].lock = IF mem[u].cell[Buf] = MaxLocks THEN NotFound ELSE mem[u].cell[Buf]]
    /\ Done(u)
    /\ UNCHANGED <<area, prog, at, teams, pipes, nextkey, mutex, queue, helper, proc, launcher>>

GiveLock(u) ==
    /\ Now(u, "give_lock")
    /\ area' = GiveLockSlot(area, mem[u].lock)
    /\ Done(u)
    /\ UNCHANGED <<prog, at, mem, teams, pipes, nextkey, mutex, queue, helper, proc, launcher>>

dart_lock_acquire(u) ==
    /\ Now(u, "acquire")
    /\ mutex[mem[u].lock] = NoUnit
    /\ mutex' = [mutex EXCEPT ![mem[u].lock] = u]
    /\ Done(u)
    /\ UNCHANGED <<area, prog, at, mem, teams, pipes, nextkey, queue, helper, proc, launcher>>

dart_lock_release(u) ==
    /\ Now(u, "release")
    /\ mutex' = [mutex EXCEPT ![mem[u].lock] = NoUnit]
    /\ Done(u)
    /\ UNCHANGED <<area, prog, at, mem, teams, pipes, nextkey, queue, helper, proc, launcher>>

----------------------------------------------------------------------------
(* The helper thread. *)

StartHelper(u) ==
    /\ Now(u, "start_helper")
    /\ helper' = [helper EXCEPT ![u].st = "idle"]
    /\ Done(u)
    /\ UNCHANGED <<area, prog, at, mem, teams, pipes, nextkey, mutex, queue, proc, launcher>>

PushItem(u) ==
    /\ Now(u, "push")
    /\ IF IsFull(queue[u])
       THEN at' = [at EXCEPT ![u] = "full"] /\ UNCHANGED <<todo, pc, queue, helper>>
       ELSE /\ queue' = [queue EXCEPT ![u] = dart_work_queue_push_item(@, Head(todo[u]).item)]
            /\ helper' = IF PushSignals(queue[u]) /\ helper[u].st = "empty"
                         THEN [helper EXCEPT ![u].st = "idle"] ELSE helper
            /\ Done(u)
            /\ UNCHANGED at
    /\ UNCHANGED <<area, prog, mem, teams, pipes, nextkey, mutex, proc, launcher>>

PopItem(u) ==
    /\ Executing(u) /\ helper[u].st = "idle"
    /\ IF IsEmpty(queue[u])
       THEN helper' = [helper EXCEPT ![u].st = "empty"] /\ UNCHANGED <<queue, at>>
       ELSE /\ helper' = [helper EXCEPT ![u] = [st |-> "busy", item |-> PoppedItem(queue[u])]]
            /\ queue' = [queue EXCEPT ![u] = dart_work_queue_pop_item(@)]
            /\ at' = IF PopSignals(queue[u]) /\ at[u] = "full" THEN [at EXCEPT ![u] = "run"] ELSE at
    /\ UNCHANGED <<area, prog, pc, todo, mem, teams, pipes, nextkey, mutex, proc, launcher>>

Serving(u, selectors) ==
    Executing(u) /\ helper[u].st = "busy" /\ helper[u].item.selector \in selectors
Served(u) == helper' = [helper EXCEPT ![u] = [st |-> "idle", item |-> WorkNone]]

HelperOpen(u) ==
    /\ Serving(u, {"nb_send", "nb_recv"})
    /\ Opens(u, helper[u].item.step)
    /\ UNCHANGED <<MessageVars, pc, todo, mem, pipe, helper>>

dart_helper_thread_send(u) ==
    /\ Serving(u, {"nb_send"})
    /\ Writes(u, helper[u].item.step) /\ Served(u)
    /\ UNCHANGED <<MessageVars, pc, todo, ends>>

dart_helper_thread_recv(u) ==
    /\ Serving(u, {"nb_recv"})
    /\ Reads(u, helper[u].item.step) /\ Served(u)
    /\ UNCHANGED <<MessageVars, pc, todo, ends>>

\* A pipe that is gone: the message is dropped and the next item is served.
HelperFails(u) ==
    /\ Serving(u, {"nb_send", "nb_recv"})
    /\ OpenFails(u, helper[u].item.step)
    /\ Served(u)
    /\ UNCHANGED <<MessageVars, pc, todo, mem, ends, pipe>>

HelperExits(u) ==
    /\ Serving(u, {"shutdown"})
    /\ helper' = [helper EXCEPT ![u].st = "exited"]
    /\ UNCHANGED <<MessageVars, pc, todo, mem, ends, pipe>>

----------------------------------------------------------------------------
(* The end of a process, and the launcher. *)

CleanExit(u) ==
    /\ Now(u, "clean_exit")
    /\ area' = shmem_syncarea_setunitstate(area, u, "clean_exit")
    /\ Done(u)
    /\ UNCHANGED <<prog, at, mem, teams, pipes, nextkey, mutex, queue, helper, proc, launcher>>

Join(u) ==
    /\ Now(u, "join")
    /\ helper[u].st = "exited"
    /\ proc' = [proc EXCEPT ![u] = "gone"]
    /\ Done(u)
    /\ UNCHANGED <<area, prog, at, mem, teams, pipes, nextkey, mutex, queue, helper, launcher>>

Crashed == {u \in Units : proc[u] = "crashed"}

\* A process may die between any two steps while the job is running.
Crash(u) ==
    /\ proc[u] = "alive" /\ Crashed = {} /\ SubSeq(prog, 2, Len(prog) - 1) \in Fragile
    /\ proc' = [proc EXCEPT ![u] = "crashed"]
    /\ UNCHANGED <<area, prog, main, pipes, nextkey, mutex, queue, helper, launcher>>

Terminate(u) ==
    /\ proc[u] = "killed"
    /\ proc' = [proc EXCEPT ![u] = "terminated"]
    /\ UNCHANGED <<area, prog, main, pipes, nextkey, mutex, queue, helper, launcher>>

\* waitpid returns a process; one that did not set its state before it ended makes the
\* launcher kill the others and go on without waiting for them.
WaitPid(u) ==
    /\ launcher.st = "waiting" /\ u \notin launcher.reaped
    /\ proc[u] \in {"gone", "crashed"}
    /\ IF area.unitstate[u] = "clean_exit"
       THEN /\ launcher' = [reaped |-> launcher.reaped \cup {u},
                            st |-> IF launcher.reaped \cup {u} = Units THEN "cleanup" ELSE "waiting"]
            /\ UNCHANGED proc
       ELSE /\ launcher' = [launcher EXCEPT !.st = "cleanup"]
            /\ proc' = [v \in Units |-> IF proc[v] = "alive" THEN "killed" ELSE proc[v]]
    /\ UNCHANGED <<area, prog, main, pipes, nextkey, mutex, queue, helper>>

dartrun_cleanup ==
    /\ launcher.st = "cleanup"
    /\ fifos' = {}
    /\ launcher' = [launcher EXCEPT !.st = "done"]
    /\ UNCHANGED <<area, prog, main, ends, pipe, nextkey, mutex, queue, helper, proc>>

MainStep(u) ==
    \/ Call(u) \/ Barrier(u) \/ LeaveBarrier(u)
    \/ Open(u) \/ OpenError(u) \/ dart_shmem_send(u) \/ dart_shmem_recv(u) \/ Memcpy(u)
    \/ TeamInitAll(u) \/ dart_shmem_team_new(u) \/ dart_shmem_team_init(u)
    \/ dart_shmem_p2p_destroy(u) \/ Delteam(u)
    \/ shmem_mm_create(u) \/ Attach(u)
    \/ TakeLock(u) \/ SetLock(u) \/ GiveLock(u) \/ dart_lock_acquire(u) \/ dart_lock_release(u)
    \/ StartHelper(u) \/ PushItem(u) \/ CleanExit(u) \/ Join(u)

HelperStep(u) ==
    \/ PopItem(u) \/ HelperOpen(u) \/ dart_helper_thread_send(u) \/ dart_helper_thread_recv(u)
    \/ HelperFails(u) \/ HelperExits(u)

LauncherStep == dartrun_cleanup \/ \E u \in Units : WaitPid(u)

Next == (\E u \in Units : MainStep(u) \/ HelperStep(u) \/ Crash(u) \/ Terminate(u)) \/ LauncherStep

\* The operating system runs every thread that can go on, and delivers signals.
Spec == Init /\ [][Next]_vars
             /\ \A u \in Units : WF_vars(MainStep(u)) /\ WF_vars(HelperStep(u)) /\ WF_vars(Terminate(u))
             /\ WF_vars(LauncherStep)

----------------------------------------------------------------------------
(* What the calls promise. *)

\* The group of a team variable; a program assigns each variable once.
GroupOf(h) == IF h = 0 THEN Units
              ELSE UNION {prog[k].group : k \in {j \in 1 .. Len(prog) : prog[j].op = "create" /\ prog[j].newh = h}}
CallGroup(k) == CASE prog[k].op \in {"init", "exit"} -> Units
                  [] prog[k].op = "pingpong" -> {prog[k].a, prog[k].b}
                  [] OTHER -> GroupOf(prog[k].h)

Synchronising ==
    {k \in 1 .. Len(prog) : prog[k].op \in {"init", "exit", "bcast", "gather", "allgather", "create",
                                            "destroy", "alloc", "lock_init", "lock_free"}}
Returned(u, k) == pc[u] > k
Entered(u, k) == pc[u] > k \/ (pc[u] = k /\ todo[u] # <<>>)

\* No unit returns from a call that ends in a barrier of its team before every member has
\* entered the call, whatever the barrier was used for before and however far ahead the
\* fastest unit is.
NobodyReturnsEarly ==
    \A k \in Synchronising : \A u, v \in CallGroup(k) : Returned(u, k) => Entered(v, k)

\* No unit of a running job opens a pipe before its reader has made it or after its reader
\* has removed it.
PipesExistWhenOpened ==
    \A u \in Units : proc[u] = "alive" /\ (Now(u, "send") \/ Now(u, "recv")) =>
        LET s == Head(todo[u]) IN EndOf(u, s) \in ends \/ PipeOf(u, s) \in fifos

\* What a collective call left in the buffers of a unit that has just returned from it:
\* what MPI would have, except for the root's own part of a scatter and for all blocks but
\* the first of an allgather at the units other than the first.
CollectivesDeliver ==
    \A u \in Units : Executing(u) /\ Crashed = {} /\ Idle(u) /\ pc[u] > 1 /\ u \in CallGroup(pc[u] - 1) =>
        LET k == pc[u] - 1
            c == prog[k]
            g == CallGroup(k)
            me == g2l(g, u)
            cell == mem[u].cell
        IN /\ c.op = "bcast" => cell[Buf] = Own(k, l2g(g, c.root))
           /\ c.op = "scatter" /\ me # c.root => cell[Buf] = Part(k, me)
           /\ c.op = "gather" /\ me = c.root => \A v \in g : cell[RecvBlock(g2l(g, v))] = Own(k, v)
           /\ c.op = "allgather" => \A v \in g : me = 0 \/ v = l2g(g, 0) =>
                                        cell[RecvBlock(g2l(g, v))] = Own(k, v)

\* The members of a team that are past its creation and have not begun to destroy it.
Users(h) ==
    {u \in GroupOf(h) :
        /\ \E k \in 1 .. Len(prog) : /\ IF h = 0 THEN prog[k].op = "init"
                                        ELSE prog[k].op = "create" /\ prog[k].newh = h
                                     /\ Returned(u, k)
        /\ \A k \in 1 .. Len(prog) : prog[k].op = "destroy" /\ prog[k].h = h => pc[u] < k}

\* While a team is in use, its members agree on its ID, each knows its own ID in it, no
\* other team has the same ID or slot, and its barrier counts its members.
TeamsAgree ==
    Crashed = {} =>
    \A h \in Handles : \A u \in Users(h) :
        LET t == mem[u].th[h]
            slot == SlotOf(t)
        IN /\ slot # NotFound
           /\ teams[u][slot] = [valid |-> TRUE, teamid |-> t, myid |-> g2l(GroupOf(h), u), group |-> GroupOf(h)]
           /\ area.teams[slot].barr.num_procs = Cardinality(GroupOf(h))
           /\ \A i \in Handles : \A v \in Users(i) : mem[v].th[i] = t <=> i = h

\* Allocations whose teams only become narrower.
Allocs == {k \in 1 .. Len(prog) : prog[k].op = "alloc"}
Narrowing ==
    \A k, l \in Allocs : k < l /\ CallGroup(k) \cap CallGroup(l) # {} => CallGroup(l) \subseteq CallGroup(k)
IsInterval(g) == \A u, v \in g : u .. v \subseteq g

\* A global pointer names the same memory at every member of the team that allocated it:
\* the pool has the same number everywhere, and the distance between two units' parts is the
\* difference of their global IDs, as dart_get_blocking computes it.  True as long as the
\* teams of later allocations only become narrower and consist of consecutive units.
GlobalPointersResolve ==
    Narrowing => \A u, v \in Units : \A i \in DOMAIN mem[u].pools, j \in DOMAIN mem[v].pools :
        LET p == mem[u].pools[i]
            q == mem[v].pools[j]
        IN p.key = q.key => i = j /\ (IsInterval(teams[u][SlotOf(p.team)].group) =>
                                 dart_get_blocking(p.block, u, v) = q.block)

\* A message that was handed to a helper thread and not taken before the pipes were removed.
Orphaned ==
    \E u \in Units : /\ helper[u].st = "busy" /\ helper[u].item.selector \in {"nb_send", "nb_recv"}
                     /\ LET s == helper[u].item.step IN PipeOf(u, s) \notin fifos /\ ~BothOpen(PipeOf(u, s))

\* The job ends: no unit waits for ever in a barrier, for a message, a lock or its helper
\* thread, and when a process dies the launcher ends the others.  Only a non-blocking
\* message that is still pending in dart_exit can stop it.
JobEnds == <>(launcher.st = "done" \/ Orphaned)
=============================================================================
