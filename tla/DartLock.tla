------------------------------ MODULE DartLock ------------------------------
(***************************************************************************)
(* The team lock of DART-MPI (dart-impl/mpi/src/dart_synchronization.c): a *)
(* distributed MCS queue lock.  The tail of the queue of a lock is one     *)
(* integer in the global memory of team unit 0; every unit owns one "next" *)
(* integer per lock, written by its successor.  The lock is handed over by *)
(* an empty message sent with tag 0 on the communicator of the team, which *)
(* ALL locks of that team share.  Inside a unit a recursive mutex, kept    *)
(* from acquire to release, admits one thread at a time.                   *)
(*                                                                         *)
(* An actor is a thread of a unit.  One action is one access to state that *)
(* other actors can see: a mutex call, one MPI atomic, one message.        *)
(***************************************************************************)
EXTENDS Naturals, FiniteSets

CONSTANTS
  Units,        \* the units of the team
  Threads,      \* the threads of a unit
  Locks,        \* the locks initialised on the team
  NoUnit,       \* -1 in tail and next
  NoThread,     \* a mutex nobody holds
  NoLock        \* an actor that is not inside a lock operation

ASSUME LockConstants ==
  /\ NoUnit \notin Units
  /\ NoThread \notin Threads
  /\ NoLock \notin Locks

VARIABLES
  tail,         \* gptr_tail: the last unit of the queue of a lock
  next,         \* gptr_list: the successor of a unit in the queue of a lock
  is_acquired,  \* dart_lock_struct.is_acquired, 0 or 1
  owner,        \* the thread that holds dart_lock_struct.mutex
  depth,        \* how often it holds it: the mutex is recursive
  net,          \* net[p][u]: messages (p -> u, tag 0, team comm) in flight
  pc,           \* where an actor is inside a lock operation
  lk,           \* the lock that operation is about
  peer,         \* its local variable: predecessor (acquire), next (release)
  held,         \* the locks the actor was told it holds
  ret           \* what its last operation returned

lockVars == <<tail, next, is_acquired, owner, depth, net>>
vars == <<tail, next, is_acquired, owner, depth, net, pc, lk, peer, held, ret>>

Actors == Units \X Threads
Unit(a) == a[1]
Thread(a) == a[2]

PCs == {"idle", "acq_check", "acq_swap", "acq_link", "acq_wait", "granted",
        "try_check", "try_cas",
        "rel_cas", "rel_spin", "rel_send", "rel_reset", "rel_done"}

(* ok: DART_OK (for a try: acquired); busy: DART_OK with *is_acquired = 0; *)
(* inval: DART_ERR_INVAL.                                                  *)
Rets == {"ok", "busy", "inval"}

(* After dart_team_lock_init on every unit: tail and all next are -1.      *)
Init ==
  /\ tail = [l \in Locks |-> NoUnit]
  /\ next = [l \in Locks |-> [u \in Units |-> NoUnit]]
  /\ is_acquired = [l \in Locks |-> [u \in Units |-> 0]]
  /\ owner = [l \in Locks |-> [u \in Units |-> NoThread]]
  /\ depth = [l \in Locks |-> [u \in Units |-> 0]]
  /\ net = [p \in Units |-> [u \in Units |-> 0]]
  /\ pc = [a \in Actors |-> "idle"]
  /\ lk = [a \in Actors |-> NoLock]
  /\ peer = [a \in Actors |-> NoUnit]
  /\ held = [a \in Actors |-> {}]
  /\ ret = [a \in Actors |-> "ok"]

-----------------------------------------------------------------------------
(* Steps of an actor.                                                      *)

Goto(a, label) == pc' = [pc EXCEPT ![a] = label]

(* The operation starts: the actor remembers its lock.                     *)
Enter(a, l, label) ==
  /\ Goto(a, label)
  /\ lk' = [lk EXCEPT ![a] = l]

(* The operation returns r.                                                *)
Return(a, r) ==
  /\ Goto(a, "idle")
  /\ lk' = [lk EXCEPT ![a] = NoLock]
  /\ peer' = [peer EXCEPT ![a] = NoUnit]
  /\ ret' = [ret EXCEPT ![a] = r]

(* dart__base__mutex_lock / _trylock succeed / _unlock: a recursive mutex. *)
MutexAvailable(a, l) == owner[l][Unit(a)] \in {NoThread, Thread(a)}

MutexLock(a, l) ==
  /\ MutexAvailable(a, l)
  /\ owner' = [owner EXCEPT ![l][Unit(a)] = Thread(a)]
  /\ depth' = [depth EXCEPT ![l][Unit(a)] = @ + 1]

MutexUnlock(a, l) ==
  /\ depth' = [depth EXCEPT ![l][Unit(a)] = @ - 1]
  /\ owner' = [owner EXCEPT ![l][Unit(a)] =
                 IF depth[l][Unit(a)] = 1 THEN NoThread ELSE @]

-----------------------------------------------------------------------------
(* dart_lock_acquire                                                       *)

AcquireLock(a, l) ==
  /\ pc[a] = "idle"
  /\ MutexLock(a, l)
  /\ Enter(a, l, "acq_check")
  /\ UNCHANGED <<tail, next, is_acquired, net, peer, held, ret>>

(* Mutant: the error return forgets to give up the recursion.              *)
AcquireTwiceKeepsMutex(a) ==
  /\ pc[a] = "acq_check"
  /\ is_acquired[lk[a]][Unit(a)] = 1
  /\ Return(a, "inval")
  /\ UNCHANGED <<tail, next, is_acquired, owner, depth, net, held>>

(* A second acquire by the thread that holds the lock: give up the         *)
(* recursion and fail.                                                     *)
AcquireTwice(a) ==
  /\ pc[a] = "acq_check"
  /\ is_acquired[lk[a]][Unit(a)] = 1
  /\ MutexUnlock(a, lk[a])
  /\ Return(a, "inval")
  /\ UNCHANGED <<tail, next, is_acquired, net, held>>

AcquireCheck(a) ==
  /\ pc[a] = "acq_check"
  /\ is_acquired[lk[a]][Unit(a)] = 0
  /\ Goto(a, "acq_swap")
  /\ UNCHANGED <<tail, next, is_acquired, owner, depth, net, lk, peer, held, ret>>

(* MPI_Fetch_and_op(MPI_REPLACE) on the tail: this unit is the new tail.   *)
AcquireSwap(a) ==
  LET l == lk[a] IN
  /\ pc[a] = "acq_swap"
  /\ peer' = [peer EXCEPT ![a] = tail[l]]
  /\ tail' = [tail EXCEPT ![l] = Unit(a)]
  /\ Goto(a, IF tail[l] = NoUnit THEN "granted" ELSE "acq_link")
  /\ UNCHANGED <<next, is_acquired, owner, depth, net, lk, held, ret>>

(* Mutant: the predecessor is never told.                                  *)
AcquireLinkLost(a) ==
  /\ pc[a] = "acq_link"
  /\ Goto(a, "acq_wait")
  /\ UNCHANGED <<tail, next, is_acquired, owner, depth, net, lk, peer, held, ret>>

(* Tell the predecessor who comes next.                                    *)
AcquireLink(a) ==
  /\ pc[a] = "acq_link"
  /\ next' = [next EXCEPT ![lk[a]][peer[a]] = Unit(a)]
  /\ Goto(a, "acq_wait")
  /\ UNCHANGED <<tail, is_acquired, owner, depth, net, lk, peer, held, ret>>

(* MPI_Recv from the predecessor: any message it sent to this unit with    *)
(* tag 0 matches, whichever lock it was sent for.                          *)
AcquireRecv(a) ==
  LET p == peer[a]
      u == Unit(a) IN
  /\ pc[a] = "acq_wait"
  /\ net[p][u] > 0
  /\ net' = [net EXCEPT ![p][u] = @ - 1]
  /\ Goto(a, "granted")
  /\ UNCHANGED <<tail, next, is_acquired, owner, depth, lk, peer, held, ret>>

(* is_acquired = 1; the caller may enter its critical section.             *)
Granted(a) ==
  LET l == lk[a] IN
  /\ pc[a] = "granted"
  /\ is_acquired' = [is_acquired EXCEPT ![l][Unit(a)] = 1]
  /\ held' = [held EXCEPT ![a] = @ \cup {l}]
  /\ Return(a, "ok")
  /\ UNCHANGED <<tail, next, owner, depth, net>>

-----------------------------------------------------------------------------
(* dart_lock_try_acquire                                                   *)

(* Another thread of the unit holds the mutex.                             *)
TryBusy(a, l) ==
  /\ pc[a] = "idle"
  /\ ~ MutexAvailable(a, l)
  /\ Return(a, "busy")
  /\ UNCHANGED <<tail, next, is_acquired, owner, depth, net, held>>

TryLock(a, l) ==
  /\ pc[a] = "idle"
  /\ MutexLock(a, l)
  /\ Enter(a, l, "try_check")
  /\ UNCHANGED <<tail, next, is_acquired, net, peer, held, ret>>

TryTwice(a) ==
  /\ pc[a] = "try_check"
  /\ is_acquired[lk[a]][Unit(a)] = 1
  /\ MutexUnlock(a, lk[a])
  /\ Return(a, "inval")
  /\ UNCHANGED <<tail, next, is_acquired, net, held>>

TryCheck(a) ==
  /\ pc[a] = "try_check"
  /\ is_acquired[lk[a]][Unit(a)] = 0
  /\ Goto(a, "try_cas")
  /\ UNCHANGED <<tail, next, is_acquired, owner, depth, net, lk, peer, held, ret>>

(* Mutant: the tail is replaced whatever it is.                            *)
TryCasBlind(a) ==
  /\ pc[a] = "try_cas"
  /\ tail' = [tail EXCEPT ![lk[a]] = Unit(a)]
  /\ Goto(a, "granted")
  /\ UNCHANGED <<next, is_acquired, owner, depth, net, lk, peer, held, ret>>

(* MPI_Compare_and_swap(-1 -> unit) on the tail succeeds.                  *)
TryCas(a) ==
  /\ pc[a] = "try_cas"
  /\ tail[lk[a]] = NoUnit
  /\ tail' = [tail EXCEPT ![lk[a]] = Unit(a)]
  /\ Goto(a, "granted")
  /\ UNCHANGED <<next, is_acquired, owner, depth, net, lk, peer, held, ret>>

(* It fails: somebody is in the queue.                                     *)
TryFail(a) ==
  /\ pc[a] = "try_cas"
  /\ tail[lk[a]] # NoUnit
  /\ MutexUnlock(a, lk[a])
  /\ Return(a, "busy")
  /\ UNCHANGED <<tail, next, is_acquired, net, held>>

-----------------------------------------------------------------------------
(* dart_lock_release                                                       *)

(* Released without having been acquired by this unit.                     *)
ReleaseInval(a, l) ==
  /\ pc[a] = "idle"
  /\ is_acquired[l][Unit(a)] = 0
  /\ Return(a, "inval")
  /\ UNCHANGED <<tail, next, is_acquired, owner, depth, net, held>>

(* The holder calls dart_lock_release and leaves its critical section.     *)
Release(a, l) ==
  /\ pc[a] = "idle"
  /\ l \in held[a]
  /\ is_acquired[l][Unit(a)] = 1
  /\ held' = [held EXCEPT ![a] = @ \ {l}]
  /\ Enter(a, l, "rel_cas")
  /\ UNCHANGED <<tail, next, is_acquired, owner, depth, net, peer, ret>>

(* MPI_Compare_and_swap(unit -> -1): nobody is queued behind this unit.    *)
ReleaseCas(a) ==
  /\ pc[a] = "rel_cas"
  /\ tail[lk[a]] = Unit(a)
  /\ tail' = [tail EXCEPT ![lk[a]] = NoUnit]
  /\ Goto(a, "rel_done")
  /\ UNCHANGED <<next, is_acquired, owner, depth, net, lk, peer, held, ret>>

(* It fails: a successor has swapped the tail.                             *)
ReleaseHandover(a) ==
  /\ pc[a] = "rel_cas"
  /\ tail[lk[a]] # Unit(a)
  /\ Goto(a, "rel_spin")
  /\ UNCHANGED <<tail, next, is_acquired, owner, depth, net, lk, peer, held, ret>>

(* The polling loop ends when the successor has linked itself.             *)
ReleaseSpin(a) ==
  LET n == next[lk[a]][Unit(a)] IN
  /\ pc[a] = "rel_spin"
  /\ n # NoUnit
  /\ peer' = [peer EXCEPT ![a] = n]
  /\ Goto(a, "rel_send")
  /\ UNCHANGED <<tail, next, is_acquired, owner, depth, net, lk, held, ret>>

(* Mutant: the mutex is given up before the next pointer is reset.         *)
ReleaseSendUnlocks(a) ==
  /\ pc[a] = "rel_send"
  /\ net' = [net EXCEPT ![Unit(a)][peer[a]] = @ + 1]
  /\ is_acquired' = [is_acquired EXCEPT ![lk[a]][Unit(a)] = 0]
  /\ MutexUnlock(a, lk[a])
  /\ Goto(a, "rel_reset")
  /\ UNCHANGED <<tail, next, lk, peer, held, ret>>

(* The empty hand-over message.                                            *)
ReleaseSend(a) ==
  /\ pc[a] = "rel_send"
  /\ net' = [net EXCEPT ![Unit(a)][peer[a]] = @ + 1]
  /\ Goto(a, "rel_reset")
  /\ UNCHANGED <<tail, next, is_acquired, owner, depth, lk, peer, held, ret>>

(* Mutant: the next pointer is not reset.                                  *)
ReleaseResetStale(a) ==
  /\ pc[a] = "rel_reset"
  /\ Goto(a, "rel_done")
  /\ UNCHANGED <<tail, next, is_acquired, owner, depth, net, lk, peer, held, ret>>

(* The local next pointer is reset only after the message has left.        *)
ReleaseReset(a) ==
  /\ pc[a] = "rel_reset"
  /\ next' = [next EXCEPT ![lk[a]][Unit(a)] = NoUnit]
  /\ Goto(a, "rel_done")
  /\ UNCHANGED <<tail, is_acquired, owner, depth, net, lk, peer, held, ret>>

ReleaseDone(a) ==
  /\ pc[a] = "rel_done"
  /\ is_acquired' = [is_acquired EXCEPT ![lk[a]][Unit(a)] = 0]
  /\ MutexUnlock(a, lk[a])
  /\ Return(a, "ok")
  /\ UNCHANGED <<tail, next, net, held>>

-----------------------------------------------------------------------------
(* What the library does on its own once it has been called ...            *)
Step(a) ==
  \/ AcquireTwice(a) \/ AcquireCheck(a) \/ AcquireSwap(a) \/ AcquireLink(a)
  \/ AcquireRecv(a) \/ Granted(a)
  \/ TryTwice(a) \/ TryCheck(a) \/ TryCas(a) \/ TryFail(a)
  \/ ReleaseCas(a) \/ ReleaseHandover(a) \/ ReleaseSpin(a) \/ ReleaseSend(a)
  \/ ReleaseReset(a) \/ ReleaseDone(a)

(* ... and the calls its clients make.                                     *)
Call(a, l) ==
  \/ AcquireLock(a, l) \/ TryBusy(a, l) \/ TryLock(a, l)
  \/ ReleaseInval(a, l) \/ Release(a, l)

Next == \E a \in Actors : Step(a) \/ \E l \in Locks : Call(a, l)

Spec == Init /\ [][Next]_vars

(* A thread inside the library keeps running (MPI progress is the polling  *)
(* of MPI_Iprobe and the blocking MPI_Recv), and a client that holds a     *)
(* lock eventually releases it (strong fairness: between its other calls,  *)
(* which may be many, it is always able to).                               *)
Fairness ==
  /\ \A a \in Actors : WF_vars(Step(a))
  /\ \A a \in Actors, l \in Locks : SF_vars(Release(a, l))

FairSpec == Spec /\ Fairness

-----------------------------------------------------------------------------
(* Properties                                                              *)

(* Every variable keeps its type: no mutex is unlocked more often than it  *)
(* was locked, and no message is received that was not sent.               *)
TypeOK ==
  /\ tail \in [Locks -> Units \cup {NoUnit}]
  /\ next \in [Locks -> [Units -> Units \cup {NoUnit}]]
  /\ is_acquired \in [Locks -> [Units -> {0, 1}]]
  /\ owner \in [Locks -> [Units -> Threads \cup {NoThread}]]
  /\ depth \in [Locks -> [Units -> Nat]]
  /\ net \in [Units -> [Units -> Nat]]
  /\ pc \in [Actors -> PCs]
  /\ lk \in [Actors -> Locks \cup {NoLock}]
  /\ peer \in [Actors -> Units \cup {NoUnit}]
  /\ held \in [Actors -> SUBSET Locks]
  /\ ret \in [Actors -> Rets]

(* Mutual exclusion among all threads of all units of the team: two actors *)
(* are never both told that they hold the same lock.                       *)
MutualExclusion ==
  \A a, b \in Actors : a # b => held[a] \cap held[b] = {}

(* The local mutex is balanced on every path, the error returns included:  *)
(* between operations a thread has it exactly once for each lock it holds, *)
(* and no thread has it more than twice.                                   *)
MutexBalanced ==
  \A a \in Actors, l \in Locks :
    /\ pc[a] = "idle" =>
         (owner[l][Unit(a)] = Thread(a) <=> l \in held[a])
    /\ l \in held[a] =>
         depth[l][Unit(a)] = IF lk[a] = l THEN 2 ELSE 1
    /\ owner[l][Unit(a)] = NoThread <=> depth[l][Unit(a)] = 0

(* A releasing unit writes its own next pointer back only when nobody can  *)
(* be linking behind it: the reset that follows the message loses no link. *)
ResetLosesNoLink ==
  \A a, b \in Actors :
    pc[a] = "rel_reset" /\ pc[b] \in {"acq_link", "acq_wait"} /\ lk[b] = lk[a]
      => peer[b] # Unit(a) \/ net[Unit(a)][Unit(b)] > 0

(* Once a thread has entered the queue of a lock it is granted that lock,  *)
(* whatever the other units and threads do.                                *)
QueuedIsGranted ==
  \A a \in Actors, l \in Locks :
    pc[a] = "acq_swap" /\ lk[a] = l ~> l \in held[a]

(* Every operation but an acquire that waits for its turn returns.         *)
ReleaseReturns ==
  \A a \in Actors : pc[a] = "rel_cas" ~> pc[a] = "idle"

-----------------------------------------------------------------------------
(* The inductive invariant behind mutual exclusion.                        *)

Past == PCs \ {"idle", "acq_check", "try_check"}

(* The local half: an actor inside an operation on a lock, or holding it,  *)
(* has the mutex of its unit, as often as it entered and as it holds.      *)
InsideHasMutex ==
  \A a \in Actors :
    IF pc[a] = "idle" THEN lk[a] = NoLock
    ELSE lk[a] \in Locks /\ owner[lk[a]][Unit(a)] = Thread(a)

PastNotHeld == \A a \in Actors : pc[a] \in Past => lk[a] \notin held[a]

HeldHasMutex ==
  \A a \in Actors, l \in Locks : l \in held[a] =>
    owner[l][Unit(a)] = Thread(a) /\ is_acquired[l][Unit(a)] = 1

DepthExact ==
  /\ \A a \in Actors, l \in Locks : owner[l][Unit(a)] = Thread(a) =>
       depth[l][Unit(a)] = (IF l \in held[a] THEN 1 ELSE 0)
                             + (IF lk[a] = l THEN 1 ELSE 0)
  /\ \A l \in Locks, u \in Units : owner[l][u] = NoThread => depth[l][u] = 0

OwnerUses ==
  \A a \in Actors, l \in Locks :
    owner[l][Unit(a)] = Thread(a) => l \in held[a] \/ lk[a] = l

PeerSound ==
  \A a \in Actors :
    pc[a] \in {"acq_link", "acq_wait", "rel_send"} => peer[a] \in Units

MutexInv ==
  /\ InsideHasMutex /\ PastNotHeld /\ HeldHasMutex
  /\ DepthExact /\ OwnerUses /\ PeerSound

(* The token of a lock: whoever may enter its critical section, or will    *)
(* after one message that is already under way.                            *)
Waiting(a, l, p) == pc[a] = "acq_wait" /\ lk[a] = l /\ peer[a] = p

HasToken(a, l) ==
  \/ l \in held[a]
  \/ lk[a] = l /\ pc[a] \in {"granted", "rel_cas", "rel_spin", "rel_send"}
  \/ lk[a] = l /\ pc[a] = "acq_wait" /\ net[peer[a]][Unit(a)] > 0

(* A next pointer names a unit that waits for exactly this hand-over,      *)
(* except between the message and the reset.                               *)
LinkSound ==
  \A l \in Locks, p, s \in Units : next[l][p] = s =>
    \/ /\ net[p][s] = 0
       /\ \E b \in Actors : Unit(b) = s /\ Waiting(b, l, p)
    \/ \E b \in Actors : Unit(b) = p /\ pc[b] = "rel_reset" /\ lk[b] = l

SendSound ==
  \A a \in Actors : pc[a] = "rel_send" =>
    /\ net[Unit(a)][peer[a]] = 0
    /\ \E b \in Actors : Unit(b) = peer[a] /\ Waiting(b, lk[a], Unit(a))

MessageSound ==
  \A p, s \in Units : net[p][s] > 0 =>
    /\ net[p][s] = 1
    /\ \E b \in Actors : Unit(b) = s /\ pc[b] = "acq_wait" /\ peer[b] = p

OneToken ==
  /\ \A l \in Locks : \A a, b \in Actors :
       HasToken(a, l) /\ HasToken(b, l) => a = b
  /\ \A l \in Locks : tail[l] = NoUnit => \A a \in Actors : ~ HasToken(a, l)

(* Each lock has at most one token, none while its tail is free, and every *)
(* link and message hands it to a unit that waits for it: the conjunction  *)
(* is preserved by every step.                                             *)
TokenInv ==
  /\ OneToken /\ LinkSound /\ SendSound /\ MessageSound

(* The order of the queue.  An actor is in the queue of a lock from the    *)
(* swap of the tail to the hand-over, ...                                  *)
QueuePCs == {"acq_link", "acq_wait", "granted", "rel_cas", "rel_spin", "rel_send"}

InQueue(a, l) == l \in held[a] \/ (lk[a] = l /\ pc[a] \in QueuePCs)

(* ... and behind the unit whose place it took until that unit has sent    *)
(* the message.                                                            *)
Behind(a, l, p) ==
  /\ lk[a] = l /\ peer[a] = p
  /\ pc[a] = "acq_link" \/ (pc[a] = "acq_wait" /\ net[p][Unit(a)] = 0)

(* Nobody has two successors, a predecessor stays in the queue until it    *)
(* has served its successor, and the tail is the unit without one.         *)
QueueInv ==
  /\ \A l \in Locks, p \in Units : \A a, b \in Actors :
       Behind(a, l, p) /\ Behind(b, l, p) => a = b
  /\ \A l \in Locks, p \in Units, b \in Actors :
       Behind(b, l, p) => \E a \in Actors : Unit(a) = p /\ InQueue(a, l)
  /\ \A l \in Locks : tail[l] \in Units =>
       /\ \E a \in Actors : Unit(a) = tail[l] /\ InQueue(a, l)
       /\ \A b \in Actors : ~ Behind(b, l, tail[l])

=============================================================================
