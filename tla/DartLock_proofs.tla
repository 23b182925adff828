-------------------------- MODULE DartLock_proofs --------------------------
(***************************************************************************)
(* Proofs about the DART-MPI team lock, for any number of units, threads   *)
(* and locks: the types and the local mutex are right, and mutual          *)
(* exclusion holds provided that units are single-threaded or that the     *)
(* team has one lock.  Without that condition it is false: see the run     *)
(* lock_cross_talk.                                                        *)
(*                                                                         *)
(* Argument.  MutexInv (local): an actor inside an operation on a lock     *)
(* owns the mutex of its unit, so at most one actor of a unit is ever in   *)
(* the queue of a lock.  TokenInv (global): a lock has at most one token,  *)
(* none while its tail is free, and a link, a pending send and a message   *)
(* always address an actor that waits for that hand-over.  QueueInv        *)
(* (order): no unit has two successors in a queue, a predecessor stays in  *)
(* it until it has served its successor, and the unit at the tail has      *)
(* none, so the link a unit resets on entering is nobody's.                *)
(***************************************************************************)
EXTENDS DartLock, TLAPS

-----------------------------------------------------------------------------
(* An actor is its unit and its thread.                                    *)
LEMMA ActorType ==
  ASSUME NEW a \in Actors
  PROVE  Unit(a) \in Units /\ Thread(a) \in Threads
BY DEF Actors, Unit, Thread

(* Two actors with the same unit and thread are the same.                  *)
LEMMA ActorEq ==
  ASSUME NEW a \in Actors, NEW b \in Actors,
         Unit(a) = Unit(b), Thread(a) = Thread(b)
  PROVE  a = b
BY DEF Actors, Unit, Thread

-----------------------------------------------------------------------------
(* The local half                                                          *)

(* Every step keeps the types: no mutex is unlocked below zero and no      *)
(* message is received that was not sent.                                  *)
LEMMA StepTypeOK ==
  ASSUME TypeOK, MutexInv,
         NEW a \in Actors, NEW l \in Locks, Step(a) \/ Call(a, l)
  PROVE  TypeOK'
<1>1. CASE AcquireLock(a, l)
  BY <1>1, ActorType DEF AcquireLock, MutexLock, MutexAvailable, Enter,
     Goto, TypeOK, PCs, Rets, MutexInv, InsideHasMutex, DepthExact,
     PeerSound
<1>2. CASE AcquireTwice(a)
  BY <1>2, ActorType DEF AcquireTwice, MutexUnlock, Return, Goto, TypeOK,
     PCs, Rets, MutexInv, InsideHasMutex, DepthExact, PeerSound
<1>3. CASE AcquireCheck(a)
  BY <1>3, ActorType DEF AcquireCheck, Goto, TypeOK, PCs, Rets, MutexInv,
     InsideHasMutex, DepthExact, PeerSound
<1>4. CASE AcquireSwap(a)
  BY <1>4, ActorType DEF AcquireSwap, Goto, TypeOK, PCs, Rets, MutexInv,
     InsideHasMutex, DepthExact, PeerSound
<1>5. CASE AcquireLink(a)
  BY <1>5, ActorType DEF AcquireLink, Goto, TypeOK, PCs, Rets, MutexInv,
     InsideHasMutex, DepthExact, PeerSound
<1>6. CASE AcquireRecv(a)
  BY <1>6, ActorType DEF AcquireRecv, Goto, TypeOK, PCs, Rets, MutexInv,
     InsideHasMutex, DepthExact, PeerSound
<1>7. CASE Granted(a)
  BY <1>7, ActorType DEF Granted, Return, Goto, TypeOK, PCs, Rets, MutexInv,
     InsideHasMutex, DepthExact, PeerSound
<1>8. CASE TryBusy(a, l)
  BY <1>8, ActorType DEF TryBusy, Return, Goto, TypeOK, PCs, Rets, MutexInv,
     InsideHasMutex, DepthExact, PeerSound
<1>9. CASE TryLock(a, l)
  BY <1>9, ActorType DEF TryLock, MutexLock, MutexAvailable, Enter, Goto,
     TypeOK, PCs, Rets, MutexInv, InsideHasMutex, DepthExact, PeerSound
<1>10. CASE TryTwice(a)
  BY <1>10, ActorType DEF TryTwice, MutexUnlock, Return, Goto, TypeOK, PCs,
     Rets, MutexInv, InsideHasMutex, DepthExact, PeerSound
<1>11. CASE TryCheck(a)
  BY <1>11, ActorType DEF TryCheck, Goto, TypeOK, PCs, Rets, MutexInv,
     InsideHasMutex, DepthExact, PeerSound
<1>12. CASE TryCas(a)
  BY <1>12, ActorType DEF TryCas, Goto, TypeOK, PCs, Rets, MutexInv,
     InsideHasMutex, DepthExact, PeerSound
<1>13. CASE TryFail(a)
  BY <1>13, ActorType DEF TryFail, MutexUnlock, Return, Goto, TypeOK, PCs,
     Rets, MutexInv, InsideHasMutex, DepthExact, PeerSound
<1>14. CASE ReleaseInval(a, l)
  BY <1>14, ActorType DEF ReleaseInval, Return, Goto, TypeOK, PCs, Rets,
     MutexInv, InsideHasMutex, DepthExact, PeerSound
<1>15. CASE Release(a, l)
  BY <1>15, ActorType DEF Release, Enter, Goto, TypeOK, PCs, Rets, MutexInv,
     InsideHasMutex, DepthExact, PeerSound
<1>16. CASE ReleaseCas(a)
  BY <1>16, ActorType DEF ReleaseCas, Goto, TypeOK, PCs, Rets, MutexInv,
     InsideHasMutex, DepthExact, PeerSound
<1>17. CASE ReleaseHandover(a)
  BY <1>17, ActorType DEF ReleaseHandover, Goto, TypeOK, PCs, Rets,
     MutexInv, InsideHasMutex, DepthExact, PeerSound
<1>18. CASE ReleaseSpin(a)
  BY <1>18, ActorType DEF ReleaseSpin, Goto, TypeOK, PCs, Rets, MutexInv,
     InsideHasMutex, DepthExact, PeerSound
<1>19. CASE ReleaseSend(a)
  BY <1>19, ActorType DEF ReleaseSend, Goto, TypeOK, PCs, Rets, MutexInv,
     InsideHasMutex, DepthExact, PeerSound
<1>20. CASE ReleaseReset(a)
  BY <1>20, ActorType DEF ReleaseReset, Goto, TypeOK, PCs, Rets, MutexInv,
     InsideHasMutex, DepthExact, PeerSound
<1>21. CASE ReleaseDone(a)
  BY <1>21, ActorType DEF ReleaseDone, MutexUnlock, Return, Goto, TypeOK,
     PCs, Rets, MutexInv, InsideHasMutex, DepthExact, PeerSound
<1> QED
  BY <1>1, <1>2, <1>3, <1>4, <1>5, <1>6, <1>7, <1>8, <1>9, <1>10, <1>11,
     <1>12, <1>13, <1>14, <1>15, <1>16, <1>17, <1>18, <1>19, <1>20, <1>21
     DEF Step, Call

(* Unlocking after one operation keeps the mutex of every lock held.       *)
LEMMA UnlockKeepsHeld ==
  ASSUME TypeOK, MutexInv, NEW a \in Actors, pc[a] # "idle",
         MutexUnlock(a, lk[a]),
         NEW b \in Actors, NEW k \in Locks, k \in held[b]
  PROVE  owner'[k][Unit(b)] = Thread(b)
<1> DEFINE l == lk[a]
<1>1. /\ l \in Locks /\ owner[l][Unit(a)] = Thread(a)
      /\ owner[k][Unit(b)] = Thread(b)
      /\ Unit(a) \in Units /\ Unit(b) \in Units
  BY ActorType DEF MutexInv, InsideHasMutex, HeldHasMutex
<1>2. CASE k # l \/ Unit(a) # Unit(b)
  BY <1>1, <1>2 DEF MutexUnlock, TypeOK
<1>3. CASE k = l /\ Unit(a) = Unit(b)
  <2>1. a = b
    BY <1>1, <1>3, ActorEq
  <2>2. depth[l][Unit(a)] = 2
    BY <1>1, <1>3, <2>1 DEF MutexInv, DepthExact
  <2> QED
    BY <1>1, <1>3, <2>2 DEF MutexUnlock, TypeOK
<1> QED
  BY <1>2, <1>3

(* The same for a whole error return of acquire and try_acquire ...        *)
LEMMA FailKeepsHeld ==
  ASSUME TypeOK, MutexInv, NEW a \in Actors,
         AcquireTwice(a) \/ TryTwice(a) \/ TryFail(a)
  PROVE  HeldHasMutex'
<1>1. pc[a] # "idle" /\ MutexUnlock(a, lk[a]) /\ held' = held /\ is_acquired' = is_acquired
  BY DEF AcquireTwice, TryTwice, TryFail
<1> QED BY <1>1, UnlockKeepsHeld DEF HeldHasMutex, MutexInv

(* ... and for the end of a release, which only its own unit can undo.     *)
LEMMA DoneKeepsHeld ==
  ASSUME TypeOK, MutexInv, NEW a \in Actors, ReleaseDone(a)
  PROVE  HeldHasMutex'
<1>1. pc[a] = "rel_done" /\ MutexUnlock(a, lk[a]) /\ held' = held /\ is_acquired' = [is_acquired EXCEPT ![lk[a]][Unit(a)] = 0]
  BY DEF ReleaseDone
<1>2. SUFFICES ASSUME NEW b \in Actors, NEW k \in Locks, k \in held'[b]
               PROVE  is_acquired'[k][Unit(b)] = 1 /\ owner'[k][Unit(b)] = Thread(b)
  BY DEF HeldHasMutex
<1>3. owner'[k][Unit(b)] = Thread(b)
  BY <1>1, <1>2, UnlockKeepsHeld
<1>4. lk[a] \notin held[a] /\ lk[a] \in Locks /\ owner[lk[a]][Unit(a)] = Thread(a)
  BY <1>1 DEF MutexInv, PastNotHeld, Past, PCs, InsideHasMutex
<1>5. is_acquired[k][Unit(b)] = 1 /\ owner[k][Unit(b)] = Thread(b)
  BY <1>1, <1>2 DEF MutexInv, HeldHasMutex
<1>6. ~ (k = lk[a] /\ Unit(b) = Unit(a))
  BY <1>1, <1>2, <1>4, <1>5, ActorEq
<1> QED BY <1>1, <1>3, <1>4, <1>5, <1>6, ActorType DEF TypeOK

(* A grant turns the hold of the operation into the hold of the client.    *)
LEMMA GrantDepth ==
  ASSUME TypeOK, MutexInv, NEW a \in Actors, Granted(a)
  PROVE  DepthExact'
<1> DEFINE l == lk[a]
<1>1. /\ l \in Locks /\ l \notin held[a] /\ owner' = owner /\ depth' = depth
      /\ held' = [held EXCEPT ![a] = @ \cup {l}]
      /\ lk' = [lk EXCEPT ![a] = NoLock]
      /\ NoLock \notin Locks
  BY LockConstants DEF Granted, Return, MutexInv, InsideHasMutex, PastNotHeld, Past, PCs
<1>2. ASSUME NEW b \in Actors, NEW k \in Locks, owner[k][Unit(b)] = Thread(b)
      PROVE  depth[k][Unit(b)] = (IF k \in held'[b] THEN 1 ELSE 0) + (IF lk'[b] = k THEN 1 ELSE 0)
  <2>1. depth[k][Unit(b)] = (IF k \in held[b] THEN 1 ELSE 0) + (IF lk[b] = k THEN 1 ELSE 0)
    BY <1>2 DEF MutexInv, DepthExact
  <2>2. CASE b # a
    BY <1>1, <2>1, <2>2 DEF TypeOK
  <2>3. CASE b = a
    <3>1. held'[a] = held[a] \cup {l} /\ lk'[a] = NoLock
      BY <1>1 DEF TypeOK
    <3> QED BY <1>1, <2>1, <2>3, <3>1
  <2> QED BY <2>2, <2>3
<1> QED BY <1>1, <1>2 DEF DepthExact, MutexInv

(* An actor inside an operation owns the mutex of its unit for that lock.  *)
LEMMA StepInsideHasMutex ==
  ASSUME TypeOK, MutexInv, TypeOK',
         NEW a \in Actors, NEW l \in Locks, Step(a) \/ Call(a, l)
  PROVE  InsideHasMutex'
<1>1. CASE AcquireLock(a, l)
  BY <1>1, ActorType, ActorEq, LockConstants DEF AcquireLock, MutexLock,
     MutexAvailable, Enter, Goto, TypeOK, PCs, MutexInv, InsideHasMutex,
     HeldHasMutex, DepthExact
<1>2. CASE AcquireTwice(a)
  BY <1>2, ActorType, ActorEq, LockConstants DEF AcquireTwice, MutexUnlock,
     Return, Goto, TypeOK, PCs, MutexInv, InsideHasMutex, HeldHasMutex,
     DepthExact
<1>3. CASE AcquireCheck(a)
  BY <1>3, ActorType, ActorEq, LockConstants DEF AcquireCheck, Goto, TypeOK,
     PCs, MutexInv, InsideHasMutex, HeldHasMutex, DepthExact
<1>4. CASE AcquireSwap(a)
  BY <1>4, ActorType, ActorEq, LockConstants DEF AcquireSwap, Goto, TypeOK,
     PCs, MutexInv, InsideHasMutex, HeldHasMutex, DepthExact
<1>5. CASE AcquireLink(a)
  BY <1>5, ActorType, ActorEq, LockConstants DEF AcquireLink, Goto, TypeOK,
     PCs, MutexInv, InsideHasMutex, HeldHasMutex, DepthExact
<1>6. CASE AcquireRecv(a)
  BY <1>6, ActorType, ActorEq, LockConstants DEF AcquireRecv, Goto, TypeOK,
     PCs, MutexInv, InsideHasMutex, HeldHasMutex, DepthExact
<1>7. CASE Granted(a)
  BY <1>7, ActorType, ActorEq, LockConstants DEF Granted, Return, Goto,
     TypeOK, PCs, MutexInv, InsideHasMutex, HeldHasMutex, DepthExact
<1>8. CASE TryBusy(a, l)
  BY <1>8, ActorType, ActorEq, LockConstants DEF TryBusy, Return, Goto,
     TypeOK, PCs, MutexInv, InsideHasMutex, HeldHasMutex, DepthExact
<1>9. CASE TryLock(a, l)
  BY <1>9, ActorType, ActorEq, LockConstants DEF TryLock, MutexLock,
     MutexAvailable, Enter, Goto, TypeOK, PCs, MutexInv, InsideHasMutex,
     HeldHasMutex, DepthExact
<1>10. CASE TryTwice(a)
  BY <1>10, ActorType, ActorEq, LockConstants DEF TryTwice, MutexUnlock,
     Return, Goto, TypeOK, PCs, MutexInv, InsideHasMutex, HeldHasMutex,
     DepthExact
<1>11. CASE TryCheck(a)
  BY <1>11, ActorType, ActorEq, LockConstants DEF TryCheck, Goto, TypeOK,
     PCs, MutexInv, InsideHasMutex, HeldHasMutex, DepthExact
<1>12. CASE TryCas(a)
  BY <1>12, ActorType, ActorEq, LockConstants DEF TryCas, Goto, TypeOK, PCs,
     MutexInv, InsideHasMutex, HeldHasMutex, DepthExact
<1>13. CASE TryFail(a)
  BY <1>13, ActorType, ActorEq, LockConstants DEF TryFail, MutexUnlock,
     Return, Goto, TypeOK, PCs, MutexInv, InsideHasMutex, HeldHasMutex,
     DepthExact
<1>14. CASE ReleaseInval(a, l)
  BY <1>14, ActorType, ActorEq, LockConstants DEF ReleaseInval, Return,
     Goto, TypeOK, PCs, MutexInv, InsideHasMutex, HeldHasMutex, DepthExact
<1>15. CASE Release(a, l)
  BY <1>15, ActorType, ActorEq, LockConstants DEF Release, Enter, Goto,
     TypeOK, PCs, MutexInv, InsideHasMutex, HeldHasMutex, DepthExact
<1>16. CASE ReleaseCas(a)
  BY <1>16, ActorType, ActorEq, LockConstants DEF ReleaseCas, Goto, TypeOK,
     PCs, MutexInv, InsideHasMutex, HeldHasMutex, DepthExact
<1>17. CASE ReleaseHandover(a)
  BY <1>17, ActorType, ActorEq, LockConstants DEF ReleaseHandover, Goto,
     TypeOK, PCs, MutexInv, InsideHasMutex, HeldHasMutex, DepthExact
<1>18. CASE ReleaseSpin(a)
  BY <1>18, ActorType, ActorEq, LockConstants DEF ReleaseSpin, Goto, TypeOK,
     PCs, MutexInv, InsideHasMutex, HeldHasMutex, DepthExact
<1>19. CASE ReleaseSend(a)
  BY <1>19, ActorType, ActorEq, LockConstants DEF ReleaseSend, Goto, TypeOK,
     PCs, MutexInv, InsideHasMutex, HeldHasMutex, DepthExact
<1>20. CASE ReleaseReset(a)
  BY <1>20, ActorType, ActorEq, LockConstants DEF ReleaseReset, Goto,
     TypeOK, PCs, MutexInv, InsideHasMutex, HeldHasMutex, DepthExact
<1>21. CASE ReleaseDone(a)
  BY <1>21, ActorType, ActorEq, LockConstants DEF ReleaseDone, MutexUnlock,
     Return, Goto, TypeOK, PCs, MutexInv, InsideHasMutex, HeldHasMutex,
     DepthExact
<1> QED
  BY <1>1, <1>2, <1>3, <1>4, <1>5, <1>6, <1>7, <1>8, <1>9, <1>10, <1>11,
     <1>12, <1>13, <1>14, <1>15, <1>16, <1>17, <1>18, <1>19, <1>20, <1>21
     DEF Step, Call

(* An operation past its check is not about a lock the actor holds.        *)
LEMMA StepPastNotHeld ==
  ASSUME TypeOK, MutexInv, TypeOK',
         NEW a \in Actors, NEW l \in Locks, Step(a) \/ Call(a, l)
  PROVE  PastNotHeld'
<1>1. CASE AcquireLock(a, l)
  BY <1>1, ActorType, ActorEq, LockConstants DEF AcquireLock, MutexLock,
     MutexAvailable, Enter, Goto, TypeOK, PCs, Past, MutexInv,
     InsideHasMutex, PastNotHeld, HeldHasMutex
<1>2. CASE AcquireTwice(a)
  BY <1>2, ActorType, ActorEq, LockConstants DEF AcquireTwice, MutexUnlock,
     Return, Goto, TypeOK, PCs, Past, MutexInv, InsideHasMutex, PastNotHeld,
     HeldHasMutex
<1>3. CASE AcquireCheck(a)
  BY <1>3, ActorType, ActorEq, LockConstants DEF AcquireCheck, Goto, TypeOK,
     PCs, Past, MutexInv, InsideHasMutex, PastNotHeld, HeldHasMutex
<1>4. CASE AcquireSwap(a)
  BY <1>4, ActorType, ActorEq, LockConstants DEF AcquireSwap, Goto, TypeOK,
     PCs, Past, MutexInv, InsideHasMutex, PastNotHeld, HeldHasMutex
<1>5. CASE AcquireLink(a)
  BY <1>5, ActorType, ActorEq, LockConstants DEF AcquireLink, Goto, TypeOK,
     PCs, Past, MutexInv, InsideHasMutex, PastNotHeld, HeldHasMutex
<1>6. CASE AcquireRecv(a)
  BY <1>6, ActorType, ActorEq, LockConstants DEF AcquireRecv, Goto, TypeOK,
     PCs, Past, MutexInv, InsideHasMutex, PastNotHeld, HeldHasMutex
<1>7. CASE Granted(a)
  BY <1>7, ActorType, ActorEq, LockConstants DEF Granted, Return, Goto,
     TypeOK, PCs, Past, MutexInv, InsideHasMutex, PastNotHeld, HeldHasMutex
<1>8. CASE TryBusy(a, l)
  BY <1>8, ActorType, ActorEq, LockConstants DEF TryBusy, Return, Goto,
     TypeOK, PCs, Past, MutexInv, InsideHasMutex, PastNotHeld, HeldHasMutex
<1>9. CASE TryLock(a, l)
  BY <1>9, ActorType, ActorEq, LockConstants DEF TryLock, MutexLock,
     MutexAvailable, Enter, Goto, TypeOK, PCs, Past, MutexInv,
     InsideHasMutex, PastNotHeld, HeldHasMutex
<1>10. CASE TryTwice(a)
  BY <1>10, ActorType, ActorEq, LockConstants DEF TryTwice, MutexUnlock,
     Return, Goto, TypeOK, PCs, Past, MutexInv, InsideHasMutex, PastNotHeld,
     HeldHasMutex
<1>11. CASE TryCheck(a)
  BY <1>11, ActorType, ActorEq, LockConstants DEF TryCheck, Goto, TypeOK,
     PCs, Past, MutexInv, InsideHasMutex, PastNotHeld, HeldHasMutex
<1>12. CASE TryCas(a)
  BY <1>12, ActorType, ActorEq, LockConstants DEF TryCas, Goto, TypeOK, PCs,
     Past, MutexInv, InsideHasMutex, PastNotHeld, HeldHasMutex
<1>13. CASE TryFail(a)
  BY <1>13, ActorType, ActorEq, LockConstants DEF TryFail, MutexUnlock,
     Return, Goto, TypeOK, PCs, Past, MutexInv, InsideHasMutex, PastNotHeld,
     HeldHasMutex
<1>14. CASE ReleaseInval(a, l)
  BY <1>14, ActorType, ActorEq, LockConstants DEF ReleaseInval, Return,
     Goto, TypeOK, PCs, Past, MutexInv, InsideHasMutex, PastNotHeld,
     HeldHasMutex
<1>15. CASE Release(a, l)
  BY <1>15, ActorType, ActorEq, LockConstants DEF Release, Enter, Goto,
     TypeOK, PCs, Past, MutexInv, InsideHasMutex, PastNotHeld, HeldHasMutex
<1>16. CASE ReleaseCas(a)
  BY <1>16, ActorType, ActorEq, LockConstants DEF ReleaseCas, Goto, TypeOK,
     PCs, Past, MutexInv, InsideHasMutex, PastNotHeld, HeldHasMutex
<1>17. CASE ReleaseHandover(a)
  BY <1>17, ActorType, ActorEq, LockConstants DEF ReleaseHandover, Goto,
     TypeOK, PCs, Past, MutexInv, InsideHasMutex, PastNotHeld, HeldHasMutex
<1>18. CASE ReleaseSpin(a)
  BY <1>18, ActorType, ActorEq, LockConstants DEF ReleaseSpin, Goto, TypeOK,
     PCs, Past, MutexInv, InsideHasMutex, PastNotHeld, HeldHasMutex
<1>19. CASE ReleaseSend(a)
  BY <1>19, ActorType, ActorEq, LockConstants DEF ReleaseSend, Goto, TypeOK,
     PCs, Past, MutexInv, InsideHasMutex, PastNotHeld, HeldHasMutex
<1>20. CASE ReleaseReset(a)
  BY <1>20, ActorType, ActorEq, LockConstants DEF ReleaseReset, Goto,
     TypeOK, PCs, Past, MutexInv, InsideHasMutex, PastNotHeld, HeldHasMutex
<1>21. CASE ReleaseDone(a)
  BY <1>21, ActorType, ActorEq, LockConstants DEF ReleaseDone, MutexUnlock,
     Return, Goto, TypeOK, PCs, Past, MutexInv, InsideHasMutex, PastNotHeld,
     HeldHasMutex
<1> QED
  BY <1>1, <1>2, <1>3, <1>4, <1>5, <1>6, <1>7, <1>8, <1>9, <1>10, <1>11,
     <1>12, <1>13, <1>14, <1>15, <1>16, <1>17, <1>18, <1>19, <1>20, <1>21
     DEF Step, Call

(* A thread that holds a lock owns the mutex of its unit for that lock.    *)
LEMMA StepHeldHasMutex ==
  ASSUME TypeOK, MutexInv, TypeOK',
         NEW a \in Actors, NEW l \in Locks, Step(a) \/ Call(a, l)
  PROVE  HeldHasMutex'
<1>1. CASE AcquireLock(a, l)
  BY <1>1, ActorType, ActorEq, LockConstants DEF AcquireLock, MutexLock,
     MutexAvailable, Enter, Goto, TypeOK, PCs, Past, MutexInv,
     InsideHasMutex, PastNotHeld, HeldHasMutex
<1>2. CASE AcquireTwice(a)
  BY <1>2, FailKeepsHeld
<1>3. CASE AcquireCheck(a)
  BY <1>3, ActorType, ActorEq, LockConstants DEF AcquireCheck, Goto, TypeOK,
     PCs, Past, MutexInv, InsideHasMutex, PastNotHeld, HeldHasMutex
<1>4. CASE AcquireSwap(a)
  BY <1>4, ActorType, ActorEq, LockConstants DEF AcquireSwap, Goto, TypeOK,
     PCs, Past, MutexInv, InsideHasMutex, PastNotHeld, HeldHasMutex
<1>5. CASE AcquireLink(a)
  BY <1>5, ActorType, ActorEq, LockConstants DEF AcquireLink, Goto, TypeOK,
     PCs, Past, MutexInv, InsideHasMutex, PastNotHeld, HeldHasMutex
<1>6. CASE AcquireRecv(a)
  BY <1>6, ActorType, ActorEq, LockConstants DEF AcquireRecv, Goto, TypeOK,
     PCs, Past, MutexInv, InsideHasMutex, PastNotHeld, HeldHasMutex
<1>7. CASE Granted(a)
  BY <1>7, ActorType, ActorEq, LockConstants DEF Granted, Return, Goto,
     TypeOK, PCs, Past, MutexInv, InsideHasMutex, PastNotHeld, HeldHasMutex
<1>8. CASE TryBusy(a, l)
  BY <1>8, ActorType, ActorEq, LockConstants DEF TryBusy, Return, Goto,
     TypeOK, PCs, Past, MutexInv, InsideHasMutex, PastNotHeld, HeldHasMutex
<1>9. CASE TryLock(a, l)
  BY <1>9, ActorType, ActorEq, LockConstants DEF TryLock, MutexLock,
     MutexAvailable, Enter, Goto, TypeOK, PCs, Past, MutexInv,
     InsideHasMutex, PastNotHeld, HeldHasMutex
<1>10. CASE TryTwice(a)
  BY <1>10, FailKeepsHeld
<1>11. CASE TryCheck(a)
  BY <1>11, ActorType, ActorEq, LockConstants DEF TryCheck, Goto, TypeOK,
     PCs, Past, MutexInv, InsideHasMutex, PastNotHeld, HeldHasMutex
<1>12. CASE TryCas(a)
  BY <1>12, ActorType, ActorEq, LockConstants DEF TryCas, Goto, TypeOK, PCs,
     Past, MutexInv, InsideHasMutex, PastNotHeld, HeldHasMutex
<1>13. CASE TryFail(a)
  BY <1>13, FailKeepsHeld
<1>14. CASE ReleaseInval(a, l)
  BY <1>14, ActorType, ActorEq, LockConstants DEF ReleaseInval, Return,
     Goto, TypeOK, PCs, Past, MutexInv, InsideHasMutex, PastNotHeld,
     HeldHasMutex
<1>15. CASE Release(a, l)
  BY <1>15, ActorType, ActorEq, LockConstants DEF Release, Enter, Goto,
     TypeOK, PCs, Past, MutexInv, InsideHasMutex, PastNotHeld, HeldHasMutex
<1>16. CASE ReleaseCas(a)
  BY <1>16, ActorType, ActorEq, LockConstants DEF ReleaseCas, Goto, TypeOK,
     PCs, Past, MutexInv, InsideHasMutex, PastNotHeld, HeldHasMutex
<1>17. CASE ReleaseHandover(a)
  BY <1>17, ActorType, ActorEq, LockConstants DEF ReleaseHandover, Goto,
     TypeOK, PCs, Past, MutexInv, InsideHasMutex, PastNotHeld, HeldHasMutex
<1>18. CASE ReleaseSpin(a)
  BY <1>18, ActorType, ActorEq, LockConstants DEF ReleaseSpin, Goto, TypeOK,
     PCs, Past, MutexInv, InsideHasMutex, PastNotHeld, HeldHasMutex
<1>19. CASE ReleaseSend(a)
  BY <1>19, ActorType, ActorEq, LockConstants DEF ReleaseSend, Goto, TypeOK,
     PCs, Past, MutexInv, InsideHasMutex, PastNotHeld, HeldHasMutex
<1>20. CASE ReleaseReset(a)
  BY <1>20, ActorType, ActorEq, LockConstants DEF ReleaseReset, Goto,
     TypeOK, PCs, Past, MutexInv, InsideHasMutex, PastNotHeld, HeldHasMutex
<1>21. CASE ReleaseDone(a)
  BY <1>21, DoneKeepsHeld
<1> QED
  BY <1>1, <1>2, <1>3, <1>4, <1>5, <1>6, <1>7, <1>8, <1>9, <1>10, <1>11,
     <1>12, <1>13, <1>14, <1>15, <1>16, <1>17, <1>18, <1>19, <1>20, <1>21
     DEF Step, Call

(* The recursion depth counts exactly the hold and the operation.          *)
LEMMA StepDepthExact ==
  ASSUME TypeOK, MutexInv, TypeOK',
         NEW a \in Actors, NEW l \in Locks, Step(a) \/ Call(a, l)
  PROVE  DepthExact'
<1>1. CASE AcquireLock(a, l)
  BY <1>1, ActorType, ActorEq, LockConstants DEF AcquireLock, MutexLock,
     MutexAvailable, Enter, Goto, TypeOK, PCs, Past, MutexInv,
     InsideHasMutex, PastNotHeld, HeldHasMutex, DepthExact
<1>2. CASE AcquireTwice(a)
  BY <1>2, ActorType, ActorEq, LockConstants DEF AcquireTwice, MutexUnlock,
     Return, Goto, TypeOK, PCs, Past, MutexInv, InsideHasMutex, PastNotHeld,
     HeldHasMutex, DepthExact
<1>3. CASE AcquireCheck(a)
  BY <1>3, ActorType, ActorEq, LockConstants DEF AcquireCheck, Goto, TypeOK,
     PCs, Past, MutexInv, InsideHasMutex, PastNotHeld, HeldHasMutex,
     DepthExact
<1>4. CASE AcquireSwap(a)
  BY <1>4, ActorType, ActorEq, LockConstants DEF AcquireSwap, Goto, TypeOK,
     PCs, Past, MutexInv, InsideHasMutex, PastNotHeld, HeldHasMutex,
     DepthExact
<1>5. CASE AcquireLink(a)
  BY <1>5, ActorType, ActorEq, LockConstants DEF AcquireLink, Goto, TypeOK,
     PCs, Past, MutexInv, InsideHasMutex, PastNotHeld, HeldHasMutex,
     DepthExact
<1>6. CASE AcquireRecv(a)
  BY <1>6, ActorType, ActorEq, LockConstants DEF AcquireRecv, Goto, TypeOK,
     PCs, Past, MutexInv, InsideHasMutex, PastNotHeld, HeldHasMutex,
     DepthExact
<1>7. CASE Granted(a)
  BY <1>7, GrantDepth
<1>8. CASE TryBusy(a, l)
  BY <1>8, ActorType, ActorEq, LockConstants DEF TryBusy, Return, Goto,
     TypeOK, PCs, Past, MutexInv, InsideHasMutex, PastNotHeld, HeldHasMutex,
     DepthExact
<1>9. CASE TryLock(a, l)
  BY <1>9, ActorType, ActorEq, LockConstants DEF TryLock, MutexLock,
     MutexAvailable, Enter, Goto, TypeOK, PCs, Past, MutexInv,
     InsideHasMutex, PastNotHeld, HeldHasMutex, DepthExact
<1>10. CASE TryTwice(a)
  BY <1>10, ActorType, ActorEq, LockConstants DEF TryTwice, MutexUnlock,
     Return, Goto, TypeOK, PCs, Past, MutexInv, InsideHasMutex, PastNotHeld,
     HeldHasMutex, DepthExact
<1>11. CASE TryCheck(a)
  BY <1>11, ActorType, ActorEq, LockConstants DEF TryCheck, Goto, TypeOK,
     PCs, Past, MutexInv, InsideHasMutex, PastNotHeld, HeldHasMutex,
     DepthExact
<1>12. CASE TryCas(a)
  BY <1>12, ActorType, ActorEq, LockConstants DEF TryCas, Goto, TypeOK, PCs,
     Past, MutexInv, InsideHasMutex, PastNotHeld, HeldHasMutex, DepthExact
<1>13. CASE TryFail(a)
  BY <1>13, ActorType, ActorEq, LockConstants DEF TryFail, MutexUnlock,
     Return, Goto, TypeOK, PCs, Past, MutexInv, InsideHasMutex, PastNotHeld,
     HeldHasMutex, DepthExact
<1>14. CASE ReleaseInval(a, l)
  BY <1>14, ActorType, ActorEq, LockConstants DEF ReleaseInval, Return,
     Goto, TypeOK, PCs, Past, MutexInv, InsideHasMutex, PastNotHeld,
     HeldHasMutex, DepthExact
<1>15. CASE Release(a, l)
  BY <1>15, ActorType, ActorEq, LockConstants DEF Release, Enter, Goto,
     TypeOK, PCs, Past, MutexInv, InsideHasMutex, PastNotHeld, HeldHasMutex,
     DepthExact
<1>16. CASE ReleaseCas(a)
  BY <1>16, ActorType, ActorEq, LockConstants DEF ReleaseCas, Goto, TypeOK,
     PCs, Past, MutexInv, InsideHasMutex, PastNotHeld, HeldHasMutex,
     DepthExact
<1>17. CASE ReleaseHandover(a)
  BY <1>17, ActorType, ActorEq, LockConstants DEF ReleaseHandover, Goto,
     TypeOK, PCs, Past, MutexInv, InsideHasMutex, PastNotHeld, HeldHasMutex,
     DepthExact
<1>18. CASE ReleaseSpin(a)
  BY <1>18, ActorType, ActorEq, LockConstants DEF ReleaseSpin, Goto, TypeOK,
     PCs, Past, MutexInv, InsideHasMutex, PastNotHeld, HeldHasMutex,
     DepthExact
<1>19. CASE ReleaseSend(a)
  BY <1>19, ActorType, ActorEq, LockConstants DEF ReleaseSend, Goto, TypeOK,
     PCs, Past, MutexInv, InsideHasMutex, PastNotHeld, HeldHasMutex,
     DepthExact
<1>20. CASE ReleaseReset(a)
  BY <1>20, ActorType, ActorEq, LockConstants DEF ReleaseReset, Goto,
     TypeOK, PCs, Past, MutexInv, InsideHasMutex, PastNotHeld, HeldHasMutex,
     DepthExact
<1>21. CASE ReleaseDone(a)
  BY <1>21, ActorType, ActorEq, LockConstants DEF ReleaseDone, MutexUnlock,
     Return, Goto, TypeOK, PCs, Past, MutexInv, InsideHasMutex, PastNotHeld,
     HeldHasMutex, DepthExact
<1> QED
  BY <1>1, <1>2, <1>3, <1>4, <1>5, <1>6, <1>7, <1>8, <1>9, <1>10, <1>11,
     <1>12, <1>13, <1>14, <1>15, <1>16, <1>17, <1>18, <1>19, <1>20, <1>21
     DEF Step, Call

(* No mutex is leaked: its owner holds the lock or is operating on it.     *)
LEMMA StepOwnerUses ==
  ASSUME TypeOK, MutexInv, TypeOK',
         NEW a \in Actors, NEW l \in Locks, Step(a) \/ Call(a, l)
  PROVE  OwnerUses'
<1>1. CASE AcquireLock(a, l)
  BY <1>1, ActorType, ActorEq, LockConstants DEF AcquireLock, MutexLock,
     MutexAvailable, Enter, Goto, TypeOK, PCs, Past, MutexInv,
     InsideHasMutex, PastNotHeld, DepthExact, OwnerUses
<1>2. CASE AcquireTwice(a)
  BY <1>2, ActorType, ActorEq, LockConstants DEF AcquireTwice, MutexUnlock,
     Return, Goto, TypeOK, PCs, Past, MutexInv, InsideHasMutex, PastNotHeld,
     DepthExact, OwnerUses
<1>3. CASE AcquireCheck(a)
  BY <1>3, ActorType, ActorEq, LockConstants DEF AcquireCheck, Goto, TypeOK,
     PCs, Past, MutexInv, InsideHasMutex, PastNotHeld, DepthExact, OwnerUses
<1>4. CASE AcquireSwap(a)
  BY <1>4, ActorType, ActorEq, LockConstants DEF AcquireSwap, Goto, TypeOK,
     PCs, Past, MutexInv, InsideHasMutex, PastNotHeld, DepthExact, OwnerUses
<1>5. CASE AcquireLink(a)
  BY <1>5, ActorType, ActorEq, LockConstants DEF AcquireLink, Goto, TypeOK,
     PCs, Past, MutexInv, InsideHasMutex, PastNotHeld, DepthExact, OwnerUses
<1>6. CASE AcquireRecv(a)
  BY <1>6, ActorType, ActorEq, LockConstants DEF AcquireRecv, Goto, TypeOK,
     PCs, Past, MutexInv, InsideHasMutex, PastNotHeld, DepthExact, OwnerUses
<1>7. CASE Granted(a)
  BY <1>7, ActorType, ActorEq, LockConstants DEF Granted, Return, Goto,
     TypeOK, PCs, Past, MutexInv, InsideHasMutex, PastNotHeld, DepthExact,
     OwnerUses
<1>8. CASE TryBusy(a, l)
  BY <1>8, ActorType, ActorEq, LockConstants DEF TryBusy, Return, Goto,
     TypeOK, PCs, Past, MutexInv, InsideHasMutex, PastNotHeld, DepthExact,
     OwnerUses
<1>9. CASE TryLock(a, l)
  BY <1>9, ActorType, ActorEq, LockConstants DEF TryLock, MutexLock,
     MutexAvailable, Enter, Goto, TypeOK, PCs, Past, MutexInv,
     InsideHasMutex, PastNotHeld, DepthExact, OwnerUses
<1>10. CASE TryTwice(a)
  BY <1>10, ActorType, ActorEq, LockConstants DEF TryTwice, MutexUnlock,
     Return, Goto, TypeOK, PCs, Past, MutexInv, InsideHasMutex, PastNotHeld,
     DepthExact, OwnerUses
<1>11. CASE TryCheck(a)
  BY <1>11, ActorType, ActorEq, LockConstants DEF TryCheck, Goto, TypeOK,
     PCs, Past, MutexInv, InsideHasMutex, PastNotHeld, DepthExact, OwnerUses
<1>12. CASE TryCas(a)
  BY <1>12, ActorType, ActorEq, LockConstants DEF TryCas, Goto, TypeOK, PCs,
     Past, MutexInv, InsideHasMutex, PastNotHeld, DepthExact, OwnerUses
<1>13. CASE TryFail(a)
  BY <1>13, ActorType, ActorEq, LockConstants DEF TryFail, MutexUnlock,
     Return, Goto, TypeOK, PCs, Past, MutexInv, InsideHasMutex, PastNotHeld,
     DepthExact, OwnerUses
<1>14. CASE ReleaseInval(a, l)
  BY <1>14, ActorType, ActorEq, LockConstants DEF ReleaseInval, Return,
     Goto, TypeOK, PCs, Past, MutexInv, InsideHasMutex, PastNotHeld,
     DepthExact, OwnerUses
<1>15. CASE Release(a, l)
  BY <1>15, ActorType, ActorEq, LockConstants DEF Release, Enter, Goto,
     TypeOK, PCs, Past, MutexInv, InsideHasMutex, PastNotHeld, DepthExact,
     OwnerUses
<1>16. CASE ReleaseCas(a)
  BY <1>16, ActorType, ActorEq, LockConstants DEF ReleaseCas, Goto, TypeOK,
     PCs, Past, MutexInv, InsideHasMutex, PastNotHeld, DepthExact, OwnerUses
<1>17. CASE ReleaseHandover(a)
  BY <1>17, ActorType, ActorEq, LockConstants DEF ReleaseHandover, Goto,
     TypeOK, PCs, Past, MutexInv, InsideHasMutex, PastNotHeld, DepthExact,
     OwnerUses
<1>18. CASE ReleaseSpin(a)
  BY <1>18, ActorType, ActorEq, LockConstants DEF ReleaseSpin, Goto, TypeOK,
     PCs, Past, MutexInv, InsideHasMutex, PastNotHeld, DepthExact, OwnerUses
<1>19. CASE ReleaseSend(a)
  BY <1>19, ActorType, ActorEq, LockConstants DEF ReleaseSend, Goto, TypeOK,
     PCs, Past, MutexInv, InsideHasMutex, PastNotHeld, DepthExact, OwnerUses
<1>20. CASE ReleaseReset(a)
  BY <1>20, ActorType, ActorEq, LockConstants DEF ReleaseReset, Goto,
     TypeOK, PCs, Past, MutexInv, InsideHasMutex, PastNotHeld, DepthExact,
     OwnerUses
<1>21. CASE ReleaseDone(a)
  BY <1>21, ActorType, ActorEq, LockConstants DEF ReleaseDone, MutexUnlock,
     Return, Goto, TypeOK, PCs, Past, MutexInv, InsideHasMutex, PastNotHeld,
     DepthExact, OwnerUses
<1> QED
  BY <1>1, <1>2, <1>3, <1>4, <1>5, <1>6, <1>7, <1>8, <1>9, <1>10, <1>11,
     <1>12, <1>13, <1>14, <1>15, <1>16, <1>17, <1>18, <1>19, <1>20, <1>21
     DEF Step, Call

(* The local variables predecessor and next name units where they are used.*)
LEMMA StepPeerSound ==
  ASSUME TypeOK, MutexInv, TypeOK',
         NEW a \in Actors, NEW l \in Locks, Step(a) \/ Call(a, l)
  PROVE  PeerSound'
<1>1. CASE AcquireLock(a, l)
  BY <1>1, ActorType, ActorEq, LockConstants DEF AcquireLock, MutexLock,
     MutexAvailable, Enter, Goto, TypeOK, PCs, MutexInv, InsideHasMutex,
     PeerSound
<1>2. CASE AcquireTwice(a)
  BY <1>2, ActorType, ActorEq, LockConstants DEF AcquireTwice, MutexUnlock,
     Return, Goto, TypeOK, PCs, MutexInv, InsideHasMutex, PeerSound
<1>3. CASE AcquireCheck(a)
  BY <1>3, ActorType, ActorEq, LockConstants DEF AcquireCheck, Goto, TypeOK,
     PCs, MutexInv, InsideHasMutex, PeerSound
<1>4. CASE AcquireSwap(a)
  BY <1>4, ActorType, ActorEq, LockConstants DEF AcquireSwap, Goto, TypeOK,
     PCs, MutexInv, InsideHasMutex, PeerSound
<1>5. CASE AcquireLink(a)
  BY <1>5, ActorType, ActorEq, LockConstants DEF AcquireLink, Goto, TypeOK,
     PCs, MutexInv, InsideHasMutex, PeerSound
<1>6. CASE AcquireRecv(a)
  BY <1>6, ActorType, ActorEq, LockConstants DEF AcquireRecv, Goto, TypeOK,
     PCs, MutexInv, InsideHasMutex, PeerSound
<1>7. CASE Granted(a)
  BY <1>7, ActorType, ActorEq, LockConstants DEF Granted, Return, Goto,
     TypeOK, PCs, MutexInv, InsideHasMutex, PeerSound
<1>8. CASE TryBusy(a, l)
  BY <1>8, ActorType, ActorEq, LockConstants DEF TryBusy, Return, Goto,
     TypeOK, PCs, MutexInv, InsideHasMutex, PeerSound
<1>9. CASE TryLock(a, l)
  BY <1>9, ActorType, ActorEq, LockConstants DEF TryLock, MutexLock,
     MutexAvailable, Enter, Goto, TypeOK, PCs, MutexInv, InsideHasMutex,
     PeerSound
<1>10. CASE TryTwice(a)
  BY <1>10, ActorType, ActorEq, LockConstants DEF TryTwice, MutexUnlock,
     Return, Goto, TypeOK, PCs, MutexInv, InsideHasMutex, PeerSound
<1>11. CASE TryCheck(a)
  BY <1>11, ActorType, ActorEq, LockConstants DEF TryCheck, Goto, TypeOK,
     PCs, MutexInv, InsideHasMutex, PeerSound
<1>12. CASE TryCas(a)
  BY <1>12, ActorType, ActorEq, LockConstants DEF TryCas, Goto, TypeOK, PCs,
     MutexInv, InsideHasMutex, PeerSound
<1>13. CASE TryFail(a)
  BY <1>13, ActorType, ActorEq, LockConstants DEF TryFail, MutexUnlock,
     Return, Goto, TypeOK, PCs, MutexInv, InsideHasMutex, PeerSound
<1>14. CASE ReleaseInval(a, l)
  BY <1>14, ActorType, ActorEq, LockConstants DEF ReleaseInval, Return,
     Goto, TypeOK, PCs, MutexInv, InsideHasMutex, PeerSound
<1>15. CASE Release(a, l)
  BY <1>15, ActorType, ActorEq, LockConstants DEF Release, Enter, Goto,
     TypeOK, PCs, MutexInv, InsideHasMutex, PeerSound
<1>16. CASE ReleaseCas(a)
  BY <1>16, ActorType, ActorEq, LockConstants DEF ReleaseCas, Goto, TypeOK,
     PCs, MutexInv, InsideHasMutex, PeerSound
<1>17. CASE ReleaseHandover(a)
  BY <1>17, ActorType, ActorEq, LockConstants DEF ReleaseHandover, Goto,
     TypeOK, PCs, MutexInv, InsideHasMutex, PeerSound
<1>18. CASE ReleaseSpin(a)
  BY <1>18, ActorType, ActorEq, LockConstants DEF ReleaseSpin, Goto, TypeOK,
     PCs, MutexInv, InsideHasMutex, PeerSound
<1>19. CASE ReleaseSend(a)
  BY <1>19, ActorType, ActorEq, LockConstants DEF ReleaseSend, Goto, TypeOK,
     PCs, MutexInv, InsideHasMutex, PeerSound
<1>20. CASE ReleaseReset(a)
  BY <1>20, ActorType, ActorEq, LockConstants DEF ReleaseReset, Goto,
     TypeOK, PCs, MutexInv, InsideHasMutex, PeerSound
<1>21. CASE ReleaseDone(a)
  BY <1>21, ActorType, ActorEq, LockConstants DEF ReleaseDone, MutexUnlock,
     Return, Goto, TypeOK, PCs, MutexInv, InsideHasMutex, PeerSound
<1> QED
  BY <1>1, <1>2, <1>3, <1>4, <1>5, <1>6, <1>7, <1>8, <1>9, <1>10, <1>11,
     <1>12, <1>13, <1>14, <1>15, <1>16, <1>17, <1>18, <1>19, <1>20, <1>21
     DEF Step, Call

(* Every step of the lock keeps the types and the local half.              *)
LEMMA LocalStep == TypeOK /\ MutexInv /\ [Next]_vars => (TypeOK /\ MutexInv)'
<1> SUFFICES ASSUME TypeOK, MutexInv, [Next]_vars
             PROVE  TypeOK' /\ MutexInv'
  OBVIOUS
<1>1. ASSUME NEW a \in Actors, NEW l \in Locks, Step(a) \/ Call(a, l)
      PROVE  TypeOK' /\ MutexInv'
  <2>1. TypeOK'
    BY <1>1, StepTypeOK
  <2> QED
    BY <1>1, <2>1, StepInsideHasMutex, StepPastNotHeld, StepHeldHasMutex,
       StepDepthExact, StepOwnerUses, StepPeerSound DEF MutexInv
<1>2. ASSUME NEW a \in Actors, Step(a)
      PROVE  \E l \in Locks : TRUE
  BY <1>2 DEF Step, AcquireTwice, AcquireCheck, AcquireSwap, AcquireLink,
     AcquireRecv, Granted, TryTwice, TryCheck, TryCas, TryFail, ReleaseCas,
     ReleaseHandover, ReleaseSpin, ReleaseSend, ReleaseReset, ReleaseDone,
     MutexInv, InsideHasMutex
<1>3. CASE UNCHANGED vars
  BY <1>3 DEF vars, TypeOK, MutexInv, InsideHasMutex, PastNotHeld, HeldHasMutex,
     DepthExact, OwnerUses, PeerSound
<1> QED
  BY <1>1, <1>2, <1>3 DEF Next

(* The initial state: nobody is inside and nothing is held.                *)
LEMMA LocalInit == Init => TypeOK /\ MutexInv
BY ActorType, LockConstants DEF Init, TypeOK, PCs, Rets, Past, MutexInv, InsideHasMutex,
   PastNotHeld, HeldHasMutex, DepthExact, OwnerUses, PeerSound

(* Type correctness of the lock for every team.                            *)
THEOREM TypeInvariant == Spec => []TypeOK
<1> QED
  BY LocalInit, LocalStep, PTL DEF Spec

(* The local mutex of dart_lock_struct is balanced on every path of        *)
(* acquire, try_acquire and release: no leak, no double unlock.            *)
THEOREM MutexIsBalanced == Spec => []MutexBalanced
<1>1. TypeOK /\ MutexInv => MutexBalanced
  <2> SUFFICES ASSUME TypeOK, MutexInv, NEW a \in Actors, NEW l \in Locks
      PROVE  /\ pc[a] = "idle" => (owner[l][Unit(a)] = Thread(a) <=> l \in held[a])
             /\ l \in held[a] => depth[l][Unit(a)] = IF lk[a] = l THEN 2 ELSE 1
             /\ owner[l][Unit(a)] = NoThread <=> depth[l][Unit(a)] = 0
    BY DEF MutexBalanced
  <2>1. pc[a] = "idle" => (owner[l][Unit(a)] = Thread(a) <=> l \in held[a])
    BY LockConstants DEF MutexInv, InsideHasMutex, HeldHasMutex, OwnerUses
  <2>2. l \in held[a] => depth[l][Unit(a)] = IF lk[a] = l THEN 2 ELSE 1
    BY DEF MutexInv, HeldHasMutex, DepthExact
  <2>3. owner[l][Unit(a)] # NoThread => depth[l][Unit(a)] # 0
    <3> SUFFICES ASSUME owner[l][Unit(a)] # NoThread PROVE depth[l][Unit(a)] # 0
      OBVIOUS
    <3> DEFINE b == <<Unit(a), owner[l][Unit(a)]>>
    <3>1. b \in Actors /\ Unit(b) = Unit(a) /\ Thread(b) = owner[l][Unit(a)]
      BY ActorType DEF TypeOK, Actors, Unit, Thread
    <3>2. l \in held[b] \/ lk[b] = l
      BY <3>1 DEF MutexInv, OwnerUses
    <3> HIDE DEF b
    <3> QED
      BY <3>1, <3>2 DEF MutexInv, DepthExact
  <2> QED
    BY <2>1, <2>2, <2>3, ActorType DEF MutexInv, DepthExact
<1> QED
  BY <1>1, LocalInit, LocalStep, PTL DEF Spec

-----------------------------------------------------------------------------
(* The global half                                                         *)

(* No two threads of a unit can wait for two locks of the team.            *)
NoCrossTalk ==
  \/ \A s, t \in Threads : s = t
  \/ \A k, l \in Locks : k = l

(* Then at most one thread of a unit is inside a lock operation.           *)
LEMMA OneActive ==
  ASSUME NoCrossTalk, TypeOK, MutexInv,
         NEW a \in Actors, NEW b \in Actors, Unit(a) = Unit(b),
         pc[a] # "idle", pc[b] # "idle"
  PROVE  a = b
BY ActorType, ActorEq DEF NoCrossTalk, MutexInv, InsideHasMutex

(* A step moves one actor only.                                            *)
OthersStay(a) ==
  \A b \in Actors : b # a => pc'[b] = pc[b] /\ lk'[b] = lk[b] /\ peer'[b] = peer[b]

(* A step that sends, receives and links nothing leaves every hand-over    *)
(* as it is.                                                               *)
LEMMA HandoverFrame ==
  ASSUME NEW a \in Actors, LinkSound, SendSound, OthersStay(a),
         next' = next, net' = net,
         pc[a] \notin {"acq_wait", "rel_reset"}, pc'[a] # "rel_send"
  PROVE  LinkSound' /\ SendSound'
<1>1. ASSUME NEW k \in Locks, NEW p \in Units, NEW b \in Actors, Waiting(b, k, p)
      PROVE  Waiting(b, k, p)'
  BY <1>1 DEF Waiting, OthersStay
<1>2. ASSUME NEW b \in Actors, pc[b] = "rel_reset"
      PROVE  pc'[b] = "rel_reset" /\ lk'[b] = lk[b]
  BY <1>2 DEF OthersStay
<1>3. LinkSound'
  <2> SUFFICES ASSUME NEW k \in Locks, NEW p \in Units, NEW s \in Units, next[k][p] = s
               PROVE  \/ /\ net[p][s] = 0
                         /\ \E b \in Actors : Unit(b) = s /\ Waiting(b, k, p)'
                      \/ \E b \in Actors : Unit(b) = p /\ pc'[b] = "rel_reset" /\ lk'[b] = k
    BY DEF LinkSound
  <2> QED BY <1>1, <1>2 DEF LinkSound
<1>4. SendSound'
  <2> SUFFICES ASSUME NEW c \in Actors, pc'[c] = "rel_send"
               PROVE  /\ net[Unit(c)][peer'[c]] = 0
                      /\ \E b \in Actors : Unit(b) = peer'[c] /\ Waiting(b, lk[c], Unit(c))'
    BY DEF SendSound
  <2>1. c # a /\ pc[c] = "rel_send" /\ lk'[c] = lk[c] /\ peer'[c] = peer[c]
    BY DEF OthersStay
  <2>2. PICK b \in Actors : Unit(b) = peer[c] /\ Waiting(b, lk[c], Unit(c))
    BY <2>1 DEF SendSound
  <2>3. Waiting(b, lk[c], Unit(c))'
    BY <2>1, <2>2 DEF Waiting, OthersStay
  <2> QED BY <2>1, <2>2, <2>3 DEF SendSound, Waiting
<1> QED BY <1>3, <1>4

(* The link of a new waiter: no message can be waiting for it already.     *)
LEMMA LinkHandover ==
  ASSUME NoCrossTalk, TypeOK, MutexInv, TokenInv, NEW a \in Actors, AcquireLink(a)
  PROVE  OneToken' /\ LinkSound' /\ SendSound'
<1> DEFINE l == lk[a]  p == peer[a]  u == Unit(a)
<1>1. /\ pc[a] = "acq_link" /\ l \in Locks /\ p \in Units /\ u \in Units
      /\ net' = net /\ lk' = lk /\ peer' = peer /\ held' = held /\ tail' = tail
      /\ pc' = [pc EXCEPT ![a] = "acq_wait"]
      /\ next' = [next EXCEPT ![l][p] = u]
  BY ActorType DEF AcquireLink, Goto, MutexInv, InsideHasMutex, PeerSound
<1>2. net[p][u] = 0
  <2> SUFFICES ASSUME net[p][u] > 0 PROVE FALSE
    BY <1>1 DEF TypeOK
  <2>1. PICK b \in Actors : Unit(b) = u /\ pc[b] = "acq_wait"
    BY <1>1 DEF TokenInv, MessageSound
  <2> QED BY <1>1, <2>1, OneActive
<1>3. \A b \in Actors : b # a => pc'[b] = pc[b]
  BY <1>1 DEF TypeOK
<1>4. pc'[a] = "acq_wait"
  BY <1>1 DEF TypeOK
<1>5. \A b \in Actors, k \in Locks : HasToken(b, k)' => HasToken(b, k)
  BY <1>1, <1>2, <1>3, <1>4 DEF HasToken
<1>6. OneToken'
  BY <1>1, <1>5 DEF OneToken, TokenInv
<1>7. \A b \in Actors, k \in Locks, q \in Units : Waiting(b, k, q) => Waiting(b, k, q)'
  BY <1>1, <1>3, <1>4 DEF Waiting
<1>8. LinkSound'
  <2> SUFFICES ASSUME NEW k \in Locks, NEW q \in Units, NEW s \in Units, next'[k][q] = s
               PROVE  \/ /\ net[q][s] = 0
                         /\ \E b \in Actors : Unit(b) = s /\ Waiting(b, k, q)'
                      \/ \E b \in Actors : Unit(b) = q /\ pc'[b] = "rel_reset" /\ lk[b] = k
    BY <1>1 DEF LinkSound
  <2>1. CASE k = l /\ q = p
    <3>1. s = u
      BY <1>1, <2>1 DEF TypeOK
    <3> QED BY <1>1, <1>2, <1>4, <2>1, <3>1 DEF Waiting
  <2>2. CASE ~ (k = l /\ q = p)
    <3>1. next[k][q] = s
      BY <1>1, <2>2 DEF TypeOK
    <3>2. \A b \in Actors : pc[b] = "rel_reset" => pc'[b] = "rel_reset"
      BY <1>1, <1>3
    <3> QED BY <3>1, <3>2, <1>7 DEF TokenInv, LinkSound
  <2> QED BY <2>1, <2>2
<1>9. SendSound'
  <2> SUFFICES ASSUME NEW c \in Actors, pc'[c] = "rel_send"
               PROVE  /\ net[Unit(c)][peer[c]] = 0
                      /\ \E b \in Actors : Unit(b) = peer[c] /\ Waiting(b, lk[c], Unit(c))'
    BY <1>1 DEF SendSound
  <2>1. pc[c] = "rel_send"
    BY <1>3, <1>4
  <2>2. PICK b \in Actors : Unit(b) = peer[c] /\ Waiting(b, lk[c], Unit(c))
    BY <2>1 DEF SendSound, TokenInv
  <2>3. lk[c] \in Locks /\ Unit(c) \in Units
    BY <2>1, ActorType DEF MutexInv, InsideHasMutex
  <2> QED BY <1>1, <1>3, <1>4, <2>1, <2>2, <2>3 DEF SendSound, TokenInv, Waiting
<1> QED BY <1>6, <1>8, <1>9

(* The message a waiter receives was not promised to anyone else.          *)
LEMMA RecvHandover ==
  ASSUME TypeOK, MutexInv, TokenInv, NEW a \in Actors, AcquireRecv(a)
  PROVE  LinkSound' /\ SendSound'
<1> DEFINE l == lk[a]  p == peer[a]  u == Unit(a)
<1>1. /\ pc[a] = "acq_wait" /\ l \in Locks /\ p \in Units /\ u \in Units
      /\ net[p][u] > 0 /\ net' = [net EXCEPT ![p][u] = @ - 1]
      /\ lk' = lk /\ peer' = peer /\ next' = next
      /\ pc' = [pc EXCEPT ![a] = "granted"]
  BY ActorType DEF AcquireRecv, Goto, MutexInv, InsideHasMutex, PeerSound
<1>2. /\ \A b \in Actors : b # a => pc'[b] = pc[b]
      /\ pc'[a] = "granted"
  BY <1>1 DEF TypeOK
<1>3. \A q, s \in Units : net[q][s] = 0 => net'[q][s] = 0
  BY <1>1 DEF TypeOK
<1>4. ASSUME NEW b \in Actors, NEW k, NEW q \in Units, NEW s \in Units,
             Unit(b) = s, Waiting(b, k, q), net[q][s] = 0
      PROVE  Waiting(b, k, q)'
  BY <1>1, <1>2, <1>4 DEF Waiting
<1>5. LinkSound'
  <2> SUFFICES ASSUME NEW k \in Locks, NEW q \in Units, NEW s \in Units, next[k][q] = s
               PROVE  \/ /\ net'[q][s] = 0
                         /\ \E b \in Actors : Unit(b) = s /\ Waiting(b, k, q)'
                      \/ \E b \in Actors : Unit(b) = q /\ pc'[b] = "rel_reset" /\ lk[b] = k
    BY <1>1 DEF LinkSound
  <2>1. \A b \in Actors : pc[b] = "rel_reset" => pc'[b] = "rel_reset"
    BY <1>1, <1>2
  <2> QED BY <2>1, <1>3, <1>4 DEF TokenInv, LinkSound
<1>6. SendSound'
  <2> SUFFICES ASSUME NEW c \in Actors, pc'[c] = "rel_send"
               PROVE  /\ net'[Unit(c)][peer[c]] = 0
                      /\ \E b \in Actors : Unit(b) = peer[c] /\ Waiting(b, lk[c], Unit(c))'
    BY <1>1 DEF SendSound
  <2>1. pc[c] = "rel_send" /\ Unit(c) \in Units
    BY <1>2, ActorType
  <2>2. PICK b \in Actors : Unit(b) = peer[c] /\ Waiting(b, lk[c], Unit(c))
    BY <2>1 DEF SendSound, TokenInv
  <2>3. peer[c] \in Units /\ net[Unit(c)][peer[c]] = 0
    BY <2>1 DEF SendSound, TokenInv, MutexInv, PeerSound
  <2> QED BY <1>1, <1>2, <1>3, <2>1, <2>2, <2>3 DEF Waiting
<1> QED BY <1>5, <1>6

(* The successor a releasing unit reads is waiting for it.                 *)
LEMMA SpinHandover ==
  ASSUME TypeOK, MutexInv, TokenInv, NEW a \in Actors, ReleaseSpin(a)
  PROVE  LinkSound' /\ SendSound'
<1> DEFINE l == lk[a]  u == Unit(a)  n == next[l][u]
<1>1. /\ pc[a] = "rel_spin" /\ l \in Locks /\ u \in Units /\ n \in Units
      /\ owner[l][u] = Thread(a)
      /\ net' = net /\ lk' = lk /\ next' = next
      /\ pc' = [pc EXCEPT ![a] = "rel_send"] /\ peer' = [peer EXCEPT ![a] = n]
  BY ActorType DEF ReleaseSpin, Goto, MutexInv, InsideHasMutex, TypeOK
<1>2. /\ \A b \in Actors : b # a => pc'[b] = pc[b] /\ peer'[b] = peer[b]
      /\ pc'[a] = "rel_send" /\ peer'[a] = n
  BY <1>1 DEF TypeOK
<1>3. ASSUME NEW b \in Actors, NEW k, NEW q, Waiting(b, k, q)
      PROVE  Waiting(b, k, q)'
  BY <1>1, <1>2, <1>3 DEF Waiting
<1>4. LinkSound'
  <2> SUFFICES ASSUME NEW k \in Locks, NEW q \in Units, NEW s \in Units, next[k][q] = s
               PROVE  \/ /\ net[q][s] = 0
                         /\ \E b \in Actors : Unit(b) = s /\ Waiting(b, k, q)'
                      \/ \E b \in Actors : Unit(b) = q /\ pc'[b] = "rel_reset" /\ lk[b] = k
    BY <1>1 DEF LinkSound
  <2>1. \A b \in Actors : pc[b] = "rel_reset" => pc'[b] = "rel_reset"
    BY <1>1, <1>2
  <2> QED BY <2>1, <1>3 DEF TokenInv, LinkSound
<1>5. /\ net[u][n] = 0
      /\ \E b \in Actors : Unit(b) = n /\ Waiting(b, l, u)
  <2>1. ~ \E b \in Actors : Unit(b) = u /\ pc[b] = "rel_reset" /\ lk[b] = l
    BY <1>1, ActorEq DEF MutexInv, InsideHasMutex
  <2> QED BY <1>1, <2>1 DEF TokenInv, LinkSound
<1>6. SendSound'
  <2> SUFFICES ASSUME NEW c \in Actors, pc'[c] = "rel_send"
               PROVE  /\ net[Unit(c)][peer'[c]] = 0
                      /\ \E b \in Actors : Unit(b) = peer'[c] /\ Waiting(b, lk[c], Unit(c))'
    BY <1>1 DEF SendSound
  <2>1. CASE c = a
    BY <1>1, <1>2, <1>5, <2>1 DEF Waiting
  <2>2. CASE c # a
    BY <1>1, <1>2, <2>2 DEF SendSound, TokenInv, Waiting
  <2> QED BY <2>1, <2>2
<1> QED BY <1>4, <1>6

(* The message moves the token to the one actor that waits for it.         *)
LEMMA SendHandover ==
  ASSUME NoCrossTalk, TypeOK, MutexInv, TokenInv, NEW a \in Actors, ReleaseSend(a)
  PROVE  OneToken' /\ LinkSound' /\ SendSound'
<1> DEFINE l == lk[a]  u == Unit(a)  n == peer[a]
<1>1. /\ pc[a] = "rel_send" /\ l \in Locks /\ u \in Units /\ n \in Units
      /\ owner[l][u] = Thread(a) /\ l \notin held[a]
      /\ lk' = lk /\ peer' = peer /\ next' = next /\ held' = held /\ tail' = tail
      /\ pc' = [pc EXCEPT ![a] = "rel_reset"]
      /\ net' = [net EXCEPT ![u][n] = @ + 1]
  BY ActorType DEF ReleaseSend, Goto, MutexInv, InsideHasMutex, PeerSound, PastNotHeld, Past, PCs
<1>2. PICK b \in Actors : Unit(b) = n /\ Waiting(b, l, u)
  BY <1>1 DEF TokenInv, SendSound
<1>3. /\ \A c \in Actors : c # a => pc'[c] = pc[c]
      /\ pc'[a] = "rel_reset"
      /\ \A q, s \in Units : ~ (q = u /\ s = n) => net'[q][s] = net[q][s]
  BY <1>1 DEF TypeOK
<1>4. ASSUME NEW c \in Actors, pc[c] = "acq_wait", Unit(c) = n
      PROVE  c = b
  BY <1>2, <1>4, OneActive DEF Waiting
<1>5. HasToken(a, l) /\ tail[l] # NoUnit /\ \A c \in Actors : HasToken(c, l) => c = a
  BY <1>1 DEF HasToken, TokenInv, OneToken
<1>6. ASSUME NEW c \in Actors, NEW k \in Locks, HasToken(c, k)'
      PROVE  IF k = l THEN c = b ELSE HasToken(c, k)
  <2>1. CASE c = a
    BY <1>1, <1>3, <1>6, <2>1 DEF HasToken
  <2>2. CASE c # a /\ pc[c] = "acq_wait" /\ lk[c] = k /\ ~ HasToken(c, k)
    <3>1. peer[c] = u /\ Unit(c) = n
      BY <1>1, <1>3, <1>6, <2>2, ActorType DEF HasToken, MutexInv, PeerSound
    <3> QED BY <1>2, <1>4, <2>2, <3>1 DEF Waiting
  <2>3. CASE c # a /\ HasToken(c, k)
    BY <1>5, <2>3
  <2>4. CASE c # a /\ ~ HasToken(c, k) /\ ~ (pc[c] = "acq_wait" /\ lk[c] = k)
    BY <1>1, <1>3, <1>6, <2>4 DEF HasToken
  <2> QED BY <2>1, <2>2, <2>3, <2>4
<1>7. OneToken'
  <2>1. ASSUME NEW k \in Locks, NEW c \in Actors, NEW d \in Actors,
               HasToken(c, k)', HasToken(d, k)'
        PROVE  c = d
    BY <1>6, <2>1 DEF TokenInv, OneToken
  <2>2. ASSUME NEW k \in Locks, tail[k] = NoUnit, NEW c \in Actors
        PROVE  ~ HasToken(c, k)'
    BY <1>5, <1>6, <2>2 DEF TokenInv, OneToken
  <2> QED BY <1>1, <2>1, <2>2 DEF OneToken
<1>8. ASSUME NEW c \in Actors, NEW k, NEW q, Waiting(c, k, q)
      PROVE  Waiting(c, k, q)'
  BY <1>1, <1>3, <1>8 DEF Waiting
<1>9. LinkSound'
  <2> SUFFICES ASSUME NEW k \in Locks, NEW q \in Units, NEW s \in Units, next[k][q] = s
               PROVE  \/ /\ net'[q][s] = 0
                         /\ \E c \in Actors : Unit(c) = s /\ Waiting(c, k, q)'
                      \/ \E c \in Actors : Unit(c) = q /\ pc'[c] = "rel_reset" /\ lk[c] = k
    BY <1>1 DEF LinkSound
  <2>1. CASE \E c \in Actors : Unit(c) = q /\ pc[c] = "rel_reset" /\ lk[c] = k
    BY <2>1, <1>3
  <2>2. CASE net[q][s] = 0 /\ \E c \in Actors : Unit(c) = s /\ Waiting(c, k, q)
    <3>1. PICK c \in Actors : Unit(c) = s /\ Waiting(c, k, q)
      BY <2>2
    <3>2. CASE q = u /\ s = n
      <4>1. c = b
        BY <3>1, <3>2, <1>4 DEF Waiting
      <4>2. k = l
        BY <3>1, <4>1, <1>2 DEF Waiting
      <4> QED BY <1>3, <3>2, <4>2
    <3>3. CASE ~ (q = u /\ s = n)
      BY <1>3, <1>8, <2>2, <3>1, <3>3
    <3> QED BY <3>2, <3>3
  <2> QED BY <2>1, <2>2 DEF TokenInv, LinkSound
<1>10. SendSound'
  <2> SUFFICES ASSUME NEW c \in Actors, pc'[c] = "rel_send"
               PROVE  /\ net'[Unit(c)][peer[c]] = 0
                      /\ \E d \in Actors : Unit(d) = peer[c] /\ Waiting(d, lk[c], Unit(c))'
    BY <1>1 DEF SendSound
  <2>1. /\ c # a /\ pc[c] = "rel_send" /\ Unit(c) \in Units /\ peer[c] \in Units
        /\ owner[lk[c]][Unit(c)] = Thread(c)
        /\ net[Unit(c)][peer[c]] = 0
    BY <1>3, ActorType DEF MutexInv, PeerSound, InsideHasMutex, TokenInv, SendSound
  <2>2. PICK d \in Actors : Unit(d) = peer[c] /\ Waiting(d, lk[c], Unit(c))
    BY <2>1 DEF TokenInv, SendSound
  <2>3. ~ (Unit(c) = u /\ peer[c] = n)
    <3> SUFFICES ASSUME Unit(c) = u, peer[c] = n PROVE FALSE
      OBVIOUS
    <3>1. d = b
      BY <2>2, <1>4 DEF Waiting
    <3>2. lk[c] = l
      BY <2>2, <3>1, <1>2 DEF Waiting
    <3> QED BY <1>1, <2>1, <3>2, ActorEq
  <2> QED BY <1>1, <1>3, <2>1, <2>2, <2>3 DEF Waiting
<1> QED BY <1>7, <1>9, <1>10

(* The reset removes a link that has been served.                          *)
LEMMA ResetHandover ==
  ASSUME TypeOK, MutexInv, TokenInv, NEW a \in Actors, ReleaseReset(a)
  PROVE  LinkSound' /\ SendSound'
<1> DEFINE l == lk[a]  u == Unit(a)
<1>1. /\ pc[a] = "rel_reset" /\ l \in Locks /\ u \in Units
      /\ net' = net /\ lk' = lk /\ peer' = peer
      /\ pc' = [pc EXCEPT ![a] = "rel_done"]
      /\ next' = [next EXCEPT ![l][u] = NoUnit]
  BY ActorType DEF ReleaseReset, Goto, MutexInv, InsideHasMutex
<1>2. /\ \A b \in Actors : b # a => pc'[b] = pc[b]
      /\ pc'[a] = "rel_done"
  BY <1>1 DEF TypeOK
<1>3. ASSUME NEW b \in Actors, NEW k, NEW q, Waiting(b, k, q)
      PROVE  Waiting(b, k, q)'
  BY <1>1, <1>2, <1>3 DEF Waiting
<1>4. LinkSound'
  <2> SUFFICES ASSUME NEW k \in Locks, NEW q \in Units, NEW s \in Units, next'[k][q] = s
               PROVE  \/ /\ net[q][s] = 0
                         /\ \E b \in Actors : Unit(b) = s /\ Waiting(b, k, q)'
                      \/ \E b \in Actors : Unit(b) = q /\ pc'[b] = "rel_reset" /\ lk[b] = k
    BY <1>1 DEF LinkSound
  <2>1. ~ (k = l /\ q = u) /\ next[k][q] = s
    BY <1>1, LockConstants DEF TypeOK
  <2>2. ASSUME NEW b \in Actors, Unit(b) = q, pc[b] = "rel_reset", lk[b] = k
        PROVE  pc'[b] = "rel_reset"
    BY <1>2, <2>1, <2>2
  <2> QED BY <2>1, <2>2, <1>3 DEF TokenInv, LinkSound
<1>5. SendSound'
  <2> SUFFICES ASSUME NEW c \in Actors, pc'[c] = "rel_send"
               PROVE  /\ net[Unit(c)][peer[c]] = 0
                      /\ \E b \in Actors : Unit(b) = peer[c] /\ Waiting(b, lk[c], Unit(c))'
    BY <1>1 DEF SendSound
  <2> QED BY <1>1, <1>2 DEF TokenInv, SendSound, Waiting
<1> QED BY <1>4, <1>5

(* An empty queue has no token.                                            *)
LEMMA CasHandover ==
  ASSUME TypeOK, MutexInv, TokenInv, NEW a \in Actors, ReleaseCas(a)
  PROVE  OneToken'
<1> DEFINE l == lk[a]
<1>1. /\ pc[a] = "rel_cas" /\ l \in Locks /\ l \notin held[a]
      /\ net' = net /\ lk' = lk /\ peer' = peer /\ held' = held
      /\ pc' = [pc EXCEPT ![a] = "rel_done"]
      /\ tail' = [tail EXCEPT ![l] = NoUnit]
  BY DEF ReleaseCas, Goto, MutexInv, InsideHasMutex, PastNotHeld, Past, PCs
<1>2. /\ \A b \in Actors : b # a => pc'[b] = pc[b]
      /\ pc'[a] = "rel_done"
  BY <1>1 DEF TypeOK
<1>3. HasToken(a, l) /\ \A b \in Actors : HasToken(b, l) => b = a
  BY <1>1 DEF HasToken, TokenInv, OneToken
<1>4. ASSUME NEW b \in Actors, NEW k \in Locks, HasToken(b, k)'
      PROVE  k # l /\ HasToken(b, k)
  <2>1. HasToken(b, k)
    BY <1>1, <1>2, <1>4 DEF HasToken
  <2>2. ~ HasToken(a, l)'
    BY <1>1, <1>2 DEF HasToken
  <2> QED BY <1>1, <1>3, <1>4, <2>1, <2>2
<1>5. \A k \in Locks : k # l => tail'[k] = tail[k]
  BY <1>1 DEF TypeOK
<1> QED BY <1>4, <1>5 DEF OneToken, TokenInv

(* No step makes a second token.                                           *)
LEMMA StepOneToken ==
  ASSUME NoCrossTalk, TypeOK, MutexInv, TokenInv, TypeOK',
         NEW a \in Actors, NEW l \in Locks, Step(a) \/ Call(a, l)
  PROVE  OneToken'
<1>1. CASE AcquireLock(a, l)
  BY <1>1, ActorType, ActorEq, LockConstants DEF AcquireLock, MutexLock,
     MutexAvailable, Enter, Goto, TypeOK, PCs, MutexInv, InsideHasMutex,
     PastNotHeld, Past, TokenInv, OneToken, HasToken, PeerSound
<1>2. CASE AcquireTwice(a)
  BY <1>2, ActorType, ActorEq, LockConstants DEF AcquireTwice, MutexUnlock,
     Return, Goto, TypeOK, PCs, MutexInv, InsideHasMutex, PastNotHeld, Past,
     TokenInv, OneToken, HasToken, PeerSound
<1>3. CASE AcquireCheck(a)
  BY <1>3, ActorType, ActorEq, LockConstants DEF AcquireCheck, Goto, TypeOK,
     PCs, MutexInv, InsideHasMutex, PastNotHeld, Past, TokenInv, OneToken,
     HasToken, PeerSound
<1>4. CASE AcquireSwap(a)
  BY <1>4, ActorType, ActorEq, LockConstants DEF AcquireSwap, Goto, TypeOK,
     PCs, MutexInv, InsideHasMutex, PastNotHeld, Past, TokenInv, OneToken,
     HasToken, PeerSound
<1>5. CASE AcquireLink(a)
  BY <1>5, LinkHandover
<1>6. CASE AcquireRecv(a)
  BY <1>6, ActorType, ActorEq, LockConstants DEF AcquireRecv, Goto, TypeOK,
     PCs, MutexInv, InsideHasMutex, PastNotHeld, Past, TokenInv, OneToken,
     HasToken, PeerSound
<1>7. CASE Granted(a)
  BY <1>7, ActorType, ActorEq, LockConstants DEF Granted, Return, Goto,
     TypeOK, PCs, MutexInv, InsideHasMutex, PastNotHeld, Past, TokenInv,
     OneToken, HasToken, PeerSound
<1>8. CASE TryBusy(a, l)
  BY <1>8, ActorType, ActorEq, LockConstants DEF TryBusy, Return, Goto,
     TypeOK, PCs, MutexInv, InsideHasMutex, PastNotHeld, Past, TokenInv,
     OneToken, HasToken, PeerSound
<1>9. CASE TryLock(a, l)
  BY <1>9, ActorType, ActorEq, LockConstants DEF TryLock, MutexLock,
     MutexAvailable, Enter, Goto, TypeOK, PCs, MutexInv, InsideHasMutex,
     PastNotHeld, Past, TokenInv, OneToken, HasToken, PeerSound
<1>10. CASE TryTwice(a)
  BY <1>10, ActorType, ActorEq, LockConstants DEF TryTwice, MutexUnlock,
     Return, Goto, TypeOK, PCs, MutexInv, InsideHasMutex, PastNotHeld, Past,
     TokenInv, OneToken, HasToken, PeerSound
<1>11. CASE TryCheck(a)
  BY <1>11, ActorType, ActorEq, LockConstants DEF TryCheck, Goto, TypeOK,
     PCs, MutexInv, InsideHasMutex, PastNotHeld, Past, TokenInv, OneToken,
     HasToken, PeerSound
<1>12. CASE TryCas(a)
  BY <1>12, ActorType, ActorEq, LockConstants DEF TryCas, Goto, TypeOK, PCs,
     MutexInv, InsideHasMutex, PastNotHeld, Past, TokenInv, OneToken,
     HasToken, PeerSound
<1>13. CASE TryFail(a)
  BY <1>13, ActorType, ActorEq, LockConstants DEF TryFail, MutexUnlock,
     Return, Goto, TypeOK, PCs, MutexInv, InsideHasMutex, PastNotHeld, Past,
     TokenInv, OneToken, HasToken, PeerSound
<1>14. CASE ReleaseInval(a, l)
  BY <1>14, ActorType, ActorEq, LockConstants DEF ReleaseInval, Return,
     Goto, TypeOK, PCs, MutexInv, InsideHasMutex, PastNotHeld, Past,
     TokenInv, OneToken, HasToken, PeerSound
<1>15. CASE Release(a, l)
  BY <1>15, ActorType, ActorEq, LockConstants DEF Release, Enter, Goto,
     TypeOK, PCs, MutexInv, InsideHasMutex, PastNotHeld, Past, TokenInv,
     OneToken, HasToken, PeerSound
<1>16. CASE ReleaseCas(a)
  BY <1>16, CasHandover
<1>17. CASE ReleaseHandover(a)
  BY <1>17, ActorType, ActorEq, LockConstants DEF ReleaseHandover, Goto,
     TypeOK, PCs, MutexInv, InsideHasMutex, PastNotHeld, Past, TokenInv,
     OneToken, HasToken, PeerSound
<1>18. CASE ReleaseSpin(a)
  BY <1>18, ActorType, ActorEq, LockConstants DEF ReleaseSpin, Goto, TypeOK,
     PCs, MutexInv, InsideHasMutex, PastNotHeld, Past, TokenInv, OneToken,
     HasToken, PeerSound
<1>19. CASE ReleaseSend(a)
  BY <1>19, SendHandover
<1>20. CASE ReleaseReset(a)
  BY <1>20, ActorType, ActorEq, LockConstants DEF ReleaseReset, Goto,
     TypeOK, PCs, MutexInv, InsideHasMutex, PastNotHeld, Past, TokenInv,
     OneToken, HasToken, PeerSound
<1>21. CASE ReleaseDone(a)
  BY <1>21, ActorType, ActorEq, LockConstants DEF ReleaseDone, MutexUnlock,
     Return, Goto, TypeOK, PCs, MutexInv, InsideHasMutex, PastNotHeld, Past,
     TokenInv, OneToken, HasToken, PeerSound
<1> QED
  BY <1>1, <1>2, <1>3, <1>4, <1>5, <1>6, <1>7, <1>8, <1>9, <1>10, <1>11,
     <1>12, <1>13, <1>14, <1>15, <1>16, <1>17, <1>18, <1>19, <1>20, <1>21
     DEF Step, Call

(* A message is for an actor that waits, and there is only one.            *)
LEMMA StepMessageSound ==
  ASSUME NoCrossTalk, TypeOK, MutexInv, TokenInv, TypeOK',
         NEW a \in Actors, NEW l \in Locks, Step(a) \/ Call(a, l)
  PROVE  MessageSound'
<1>1. CASE AcquireLock(a, l)
  BY <1>1, ActorType DEF AcquireLock, MutexLock, MutexAvailable, Enter,
     Goto, TypeOK, PCs, MutexInv, InsideHasMutex, PeerSound, TokenInv,
     SendSound, MessageSound, Waiting
<1>2. CASE AcquireTwice(a)
  BY <1>2, ActorType DEF AcquireTwice, MutexUnlock, Return, Goto, TypeOK,
     PCs, MutexInv, InsideHasMutex, PeerSound, TokenInv, SendSound,
     MessageSound, Waiting
<1>3. CASE AcquireCheck(a)
  BY <1>3, ActorType DEF AcquireCheck, Goto, TypeOK, PCs, MutexInv,
     InsideHasMutex, PeerSound, TokenInv, SendSound, MessageSound, Waiting
<1>4. CASE AcquireSwap(a)
  BY <1>4, ActorType DEF AcquireSwap, Goto, TypeOK, PCs, MutexInv,
     InsideHasMutex, PeerSound, TokenInv, SendSound, MessageSound, Waiting
<1>5. CASE AcquireLink(a)
  BY <1>5, ActorType DEF AcquireLink, Goto, TypeOK, PCs, MutexInv,
     InsideHasMutex, PeerSound, TokenInv, SendSound, MessageSound, Waiting
<1>6. CASE AcquireRecv(a)
  BY <1>6, ActorType DEF AcquireRecv, Goto, TypeOK, PCs, MutexInv,
     InsideHasMutex, PeerSound, TokenInv, SendSound, MessageSound, Waiting
<1>7. CASE Granted(a)
  BY <1>7, ActorType DEF Granted, Return, Goto, TypeOK, PCs, MutexInv,
     InsideHasMutex, PeerSound, TokenInv, SendSound, MessageSound, Waiting
<1>8. CASE TryBusy(a, l)
  BY <1>8, ActorType DEF TryBusy, Return, Goto, TypeOK, PCs, MutexInv,
     InsideHasMutex, PeerSound, TokenInv, SendSound, MessageSound, Waiting
<1>9. CASE TryLock(a, l)
  BY <1>9, ActorType DEF TryLock, MutexLock, MutexAvailable, Enter, Goto,
     TypeOK, PCs, MutexInv, InsideHasMutex, PeerSound, TokenInv, SendSound,
     MessageSound, Waiting
<1>10. CASE TryTwice(a)
  BY <1>10, ActorType DEF TryTwice, MutexUnlock, Return, Goto, TypeOK, PCs,
     MutexInv, InsideHasMutex, PeerSound, TokenInv, SendSound, MessageSound,
     Waiting
<1>11. CASE TryCheck(a)
  BY <1>11, ActorType DEF TryCheck, Goto, TypeOK, PCs, MutexInv,
     InsideHasMutex, PeerSound, TokenInv, SendSound, MessageSound, Waiting
<1>12. CASE TryCas(a)
  BY <1>12, ActorType DEF TryCas, Goto, TypeOK, PCs, MutexInv,
     InsideHasMutex, PeerSound, TokenInv, SendSound, MessageSound, Waiting
<1>13. CASE TryFail(a)
  BY <1>13, ActorType DEF TryFail, MutexUnlock, Return, Goto, TypeOK, PCs,
     MutexInv, InsideHasMutex, PeerSound, TokenInv, SendSound, MessageSound,
     Waiting
<1>14. CASE ReleaseInval(a, l)
  BY <1>14, ActorType DEF ReleaseInval, Return, Goto, TypeOK, PCs, MutexInv,
     InsideHasMutex, PeerSound, TokenInv, SendSound, MessageSound, Waiting
<1>15. CASE Release(a, l)
  BY <1>15, ActorType DEF Release, Enter, Goto, TypeOK, PCs, MutexInv,
     InsideHasMutex, PeerSound, TokenInv, SendSound, MessageSound, Waiting
<1>16. CASE ReleaseCas(a)
  BY <1>16, ActorType DEF ReleaseCas, Goto, TypeOK, PCs, MutexInv,
     InsideHasMutex, PeerSound, TokenInv, SendSound, MessageSound, Waiting
<1>17. CASE ReleaseHandover(a)
  BY <1>17, ActorType DEF ReleaseHandover, Goto, TypeOK, PCs, MutexInv,
     InsideHasMutex, PeerSound, TokenInv, SendSound, MessageSound, Waiting
<1>18. CASE ReleaseSpin(a)
  BY <1>18, ActorType DEF ReleaseSpin, Goto, TypeOK, PCs, MutexInv,
     InsideHasMutex, PeerSound, TokenInv, SendSound, MessageSound, Waiting
<1>19. CASE ReleaseSend(a)
  BY <1>19, ActorType DEF ReleaseSend, Goto, TypeOK, PCs, MutexInv,
     InsideHasMutex, PeerSound, TokenInv, SendSound, MessageSound, Waiting
<1>20. CASE ReleaseReset(a)
  BY <1>20, ActorType DEF ReleaseReset, Goto, TypeOK, PCs, MutexInv,
     InsideHasMutex, PeerSound, TokenInv, SendSound, MessageSound, Waiting
<1>21. CASE ReleaseDone(a)
  BY <1>21, ActorType DEF ReleaseDone, MutexUnlock, Return, Goto, TypeOK,
     PCs, MutexInv, InsideHasMutex, PeerSound, TokenInv, SendSound,
     MessageSound, Waiting
<1> QED
  BY <1>1, <1>2, <1>3, <1>4, <1>5, <1>6, <1>7, <1>8, <1>9, <1>10, <1>11,
     <1>12, <1>13, <1>14, <1>15, <1>16, <1>17, <1>18, <1>19, <1>20, <1>21
     DEF Step, Call

(* Every link and every send stays addressed to a waiting actor.           *)
LEMMA StepHandover ==
  ASSUME NoCrossTalk, TypeOK, MutexInv, TokenInv,
         NEW a \in Actors, NEW l \in Locks, Step(a) \/ Call(a, l)
  PROVE  LinkSound' /\ SendSound'
<1>1. CASE AcquireLock(a, l)
  BY <1>1, HandoverFrame DEF AcquireLock, MutexLock, MutexAvailable, Enter,
     Goto, TypeOK, TokenInv, OthersStay
<1>2. CASE AcquireTwice(a)
  BY <1>2, HandoverFrame DEF AcquireTwice, MutexUnlock, Return, Goto,
     TypeOK, TokenInv, OthersStay
<1>3. CASE AcquireCheck(a)
  BY <1>3, HandoverFrame DEF AcquireCheck, Goto, TypeOK, TokenInv,
     OthersStay
<1>4. CASE AcquireSwap(a)
  BY <1>4, HandoverFrame DEF AcquireSwap, Goto, TypeOK, TokenInv, OthersStay
<1>5. CASE AcquireLink(a)
  BY <1>5, LinkHandover
<1>6. CASE AcquireRecv(a)
  BY <1>6, RecvHandover
<1>7. CASE Granted(a)
  BY <1>7, HandoverFrame DEF Granted, Return, Goto, TypeOK, TokenInv,
     OthersStay
<1>8. CASE TryBusy(a, l)
  BY <1>8, HandoverFrame DEF TryBusy, Return, Goto, TypeOK, TokenInv,
     OthersStay
<1>9. CASE TryLock(a, l)
  BY <1>9, HandoverFrame DEF TryLock, MutexLock, MutexAvailable, Enter,
     Goto, TypeOK, TokenInv, OthersStay
<1>10. CASE TryTwice(a)
  BY <1>10, HandoverFrame DEF TryTwice, MutexUnlock, Return, Goto, TypeOK,
     TokenInv, OthersStay
<1>11. CASE TryCheck(a)
  BY <1>11, HandoverFrame DEF TryCheck, Goto, TypeOK, TokenInv, OthersStay
<1>12. CASE TryCas(a)
  BY <1>12, HandoverFrame DEF TryCas, Goto, TypeOK, TokenInv, OthersStay
<1>13. CASE TryFail(a)
  BY <1>13, HandoverFrame DEF TryFail, MutexUnlock, Return, Goto, TypeOK,
     TokenInv, OthersStay
<1>14. CASE ReleaseInval(a, l)
  BY <1>14, HandoverFrame DEF ReleaseInval, Return, Goto, TypeOK, TokenInv,
     OthersStay
<1>15. CASE Release(a, l)
  BY <1>15, HandoverFrame DEF Release, Enter, Goto, TypeOK, TokenInv,
     OthersStay
<1>16. CASE ReleaseCas(a)
  BY <1>16, HandoverFrame DEF ReleaseCas, Goto, TypeOK, TokenInv, OthersStay
<1>17. CASE ReleaseHandover(a)
  BY <1>17, HandoverFrame DEF ReleaseHandover, Goto, TypeOK, TokenInv,
     OthersStay
<1>18. CASE ReleaseSpin(a)
  BY <1>18, SpinHandover
<1>19. CASE ReleaseSend(a)
  BY <1>19, SendHandover
<1>20. CASE ReleaseReset(a)
  BY <1>20, ResetHandover
<1>21. CASE ReleaseDone(a)
  BY <1>21, HandoverFrame DEF ReleaseDone, MutexUnlock, Return, Goto,
     TypeOK, TokenInv, OthersStay
<1> QED
  BY <1>1, <1>2, <1>3, <1>4, <1>5, <1>6, <1>7, <1>8, <1>9, <1>10, <1>11,
     <1>12, <1>13, <1>14, <1>15, <1>16, <1>17, <1>18, <1>19, <1>20, <1>21
     DEF Step, Call

(* The whole invariant is inductive.                                       *)
LEMMA TokenStep ==
  NoCrossTalk /\ TypeOK /\ MutexInv /\ TokenInv /\ [Next]_vars => TokenInv'
<1> SUFFICES ASSUME NoCrossTalk, TypeOK, MutexInv, TokenInv, [Next]_vars
             PROVE  TokenInv'
  OBVIOUS
<1>1. TypeOK'
  BY LocalStep
<1>2. ASSUME NEW a \in Actors, NEW l \in Locks, Step(a) \/ Call(a, l)
      PROVE  TokenInv'
  BY <1>1, <1>2, StepOneToken, StepMessageSound, StepHandover DEF TokenInv
<1>3. ASSUME NEW a \in Actors, Step(a)
      PROVE  \E l \in Locks : TRUE
  BY <1>3 DEF Step, AcquireTwice, AcquireCheck, AcquireSwap, AcquireLink,
     AcquireRecv, Granted, TryTwice, TryCheck, TryCas, TryFail, ReleaseCas,
     ReleaseHandover, ReleaseSpin, ReleaseSend, ReleaseReset, ReleaseDone,
     MutexInv, InsideHasMutex
<1>4. CASE UNCHANGED vars
  BY <1>4 DEF vars, TokenInv, OneToken, HasToken, LinkSound, SendSound,
     MessageSound, Waiting
<1> QED
  BY <1>2, <1>3, <1>4 DEF Next

(* Initially no lock has a token.                                          *)
LEMMA TokenInit == Init => TokenInv
BY ActorType, LockConstants DEF Init, TokenInv, OneToken, HasToken, LinkSound,
   SendSound, MessageSound, Waiting

(* The hand-over invariant of the queue.                                   *)
THEOREM HandoverInvariant == NoCrossTalk => (Spec => []TokenInv)
<1> SUFFICES ASSUME NoCrossTalk PROVE Spec => []TokenInv
  OBVIOUS
<1>1. TypeOK /\ MutexInv /\ TokenInv /\ [Next]_vars => TokenInv'
  BY TokenStep
<1> QED
  BY <1>1, TokenInit, LocalInit, LocalStep, PTL DEF Spec

(* Two threads of the team are never both told that they hold a lock       *)
(* (dart_lock_acquire, dart_lock_try_acquire), if units are                *)
(* single-threaded or the team has one lock.                               *)
THEOREM LockMutualExclusion == NoCrossTalk => (Spec => []MutualExclusion)
<1> SUFFICES ASSUME NoCrossTalk PROVE Spec => []MutualExclusion
  OBVIOUS
<1>1. TypeOK /\ TokenInv => MutualExclusion
  BY DEF TypeOK, TokenInv, OneToken, HasToken, MutualExclusion
<1> QED
  BY <1>1, HandoverInvariant, TypeInvariant, PTL

-----------------------------------------------------------------------------
(* The order of the queue                                                  *)

(* An actor in the queue of a lock has the mutex of its unit.              *)
LEMMA QueuedIsOwner ==
  ASSUME MutexInv, NEW l \in Locks, NEW a \in Actors, InQueue(a, l)
  PROVE  owner[l][Unit(a)] = Thread(a)
BY DEF MutexInv, InsideHasMutex, HeldHasMutex, InQueue, QueuePCs

(* So a unit that is inside an operation on the lock and not in its queue  *)
(* is not its tail, and nobody is behind it.                               *)
LEMMA NobodyBehind ==
  ASSUME TypeOK, MutexInv, QueueInv, NEW a \in Actors, NEW l \in Locks,
         lk[a] = l, pc[a] # "idle", ~ InQueue(a, l)
  PROVE  tail[l] # Unit(a) /\ \A b \in Actors : ~ Behind(b, l, Unit(a))
<1>1. ASSUME NEW c \in Actors, Unit(c) = Unit(a) PROVE ~ InQueue(c, l)
  <2> SUFFICES ASSUME InQueue(c, l) PROVE FALSE
    OBVIOUS
  <2>1. Thread(c) = Thread(a)
    BY <1>1, QueuedIsOwner DEF MutexInv, InsideHasMutex
  <2> QED
    BY <1>1, <2>1, ActorEq
<1> QED
  BY <1>1, ActorType DEF QueueInv

(* A step that leaves the tail and everybody's place in the queue alone,   *)
(* and puts nobody behind anybody.                                         *)
LEMMA QueueKept ==
  ASSUME QueueInv, tail' = tail,
         \A b \in Actors, k \in Locks :
           (k \in held[b] \/ (lk[b] = k /\ pc[b] \in QueuePCs))
             => (k \in held'[b] \/ (lk'[b] = k /\ pc'[b] \in QueuePCs)),
         \A b \in Actors, p \in Units :
           peer'[b] = p /\ (pc'[b] = "acq_link" \/ (pc'[b] = "acq_wait" /\ net'[p][Unit(b)] = 0))
             => /\ peer[b] = p /\ lk[b] = lk'[b]
                /\ pc[b] = "acq_link" \/ (pc[b] = "acq_wait" /\ net[p][Unit(b)] = 0)
  PROVE  QueueInv'
<1>1. ASSUME NEW b \in Actors, NEW k \in Locks, InQueue(b, k) PROVE InQueue(b, k)'
  BY <1>1 DEF InQueue
<1>2. ASSUME NEW b \in Actors, NEW k \in Locks, NEW p \in Units, Behind(b, k, p)'
      PROVE  Behind(b, k, p)
  BY <1>2 DEF Behind
<1>3. ASSUME NEW k \in Locks, NEW p \in Units, NEW b \in Actors, NEW c \in Actors,
             Behind(b, k, p)', Behind(c, k, p)'
      PROVE  b = c
  BY <1>2, <1>3 DEF QueueInv
<1>4. ASSUME NEW k \in Locks, NEW p \in Units, NEW b \in Actors, Behind(b, k, p)'
      PROVE  \E c \in Actors : Unit(c) = p /\ InQueue(c, k)'
  <2>1. PICK c \in Actors : Unit(c) = p /\ InQueue(c, k)
    BY <1>2, <1>4 DEF QueueInv
  <2> QED
    BY <1>1, <2>1
<1>5. ASSUME NEW k \in Locks, tail[k] \in Units
      PROVE  \E c \in Actors : Unit(c) = tail[k] /\ InQueue(c, k)'
  <2>1. PICK c \in Actors : Unit(c) = tail[k] /\ InQueue(c, k)
    BY <1>5 DEF QueueInv
  <2> QED
    BY <1>1, <2>1
<1>6. ASSUME NEW k \in Locks, tail[k] \in Units, NEW b \in Actors
      PROVE  ~ Behind(b, k, tail[k])'
  BY <1>2, <1>6 DEF QueueInv
<1> QED
  BY <1>3, <1>4, <1>5, <1>6 DEF QueueInv

(* The steps of one actor that move no message and change no link.         *)
LEMMA QueueFrame ==
  ASSUME QueueInv, NEW a \in Actors, OthersStay(a),
         \A b \in Actors : b # a => held'[b] = held[b],
         tail' = tail, net' = net, pc'[a] \notin {"acq_link", "acq_wait"},
         \A k \in Locks : (k \in held[a] \/ (lk[a] = k /\ pc[a] \in QueuePCs))
                            => (k \in held'[a] \/ (lk'[a] = k /\ pc'[a] \in QueuePCs))
  PROVE  QueueInv'
<1>1. \A b \in Actors, k \in Locks :
        (k \in held[b] \/ (lk[b] = k /\ pc[b] \in QueuePCs))
          => (k \in held'[b] \/ (lk'[b] = k /\ pc'[b] \in QueuePCs))
  BY DEF OthersStay
<1>2. \A b \in Actors, p \in Units :
        peer'[b] = p /\ (pc'[b] = "acq_link" \/ (pc'[b] = "acq_wait" /\ net'[p][Unit(b)] = 0))
          => /\ peer[b] = p /\ lk[b] = lk'[b]
             /\ pc[b] = "acq_link" \/ (pc[b] = "acq_wait" /\ net[p][Unit(b)] = 0)
  BY DEF OthersStay
<1> QED
  BY <1>1, <1>2, QueueKept

(* An actor that has told its predecessor stays behind it.                 *)
LEMMA LinkQueue ==
  ASSUME TypeOK, QueueInv, NEW a \in Actors, AcquireLink(a)
  PROVE  QueueInv'
<1>1. /\ pc[a] = "acq_link" /\ pc' = [pc EXCEPT ![a] = "acq_wait"]
      /\ tail' = tail /\ net' = net /\ lk' = lk /\ peer' = peer /\ held' = held
  BY DEF AcquireLink, Goto
<1>2. pc'[a] = "acq_wait" /\ \A b \in Actors : b # a => pc'[b] = pc[b]
  BY <1>1 DEF TypeOK
<1> QED
  BY <1>1, <1>2, QueueKept DEF QueuePCs

(* A received message has already ended the wait: the actor it was for was *)
(* behind nobody, and no other thread of its unit waits.                   *)
LEMMA RecvQueue ==
  ASSUME NoCrossTalk, TypeOK, MutexInv, QueueInv, NEW a \in Actors, AcquireRecv(a)
  PROVE  QueueInv'
<1>1. /\ pc[a] = "acq_wait" /\ pc' = [pc EXCEPT ![a] = "granted"] /\ peer[a] \in Units
      /\ Unit(a) \in Units /\ tail' = tail /\ lk' = lk /\ peer' = peer /\ held' = held
      /\ net' = [net EXCEPT ![peer[a]][Unit(a)] = @ - 1]
  BY ActorType DEF AcquireRecv, Goto, MutexInv, PeerSound
<1>2. pc'[a] = "granted" /\ \A b \in Actors : b # a => pc'[b] = pc[b]
  BY <1>1 DEF TypeOK
<1>3. ASSUME NEW b \in Actors, NEW p \in Units, b # a, pc[b] = "acq_wait"
      PROVE  net'[p][Unit(b)] = net[p][Unit(b)]
  <2>1. Unit(b) # Unit(a)
    BY <1>1, <1>3, OneActive
  <2> QED
    BY <1>1, <2>1, ActorType DEF TypeOK
<1> QED
  BY <1>1, <1>2, <1>3, QueueKept DEF QueuePCs

(* An actor becomes the tail, by a swap or by a successful try: nobody is  *)
(* behind it, and it is behind the tail it replaced, if there was one.     *)
LEMMA TailQueue ==
  ASSUME TypeOK, MutexInv, QueueInv, NEW a \in Actors, AcquireSwap(a) \/ TryCas(a)
  PROVE  QueueInv'
<1>1. PICK l \in Locks : l = lk[a]
  BY DEF AcquireSwap, TryCas, MutexInv, InsideHasMutex
<1>2. /\ pc[a] \in {"acq_swap", "try_cas"} /\ Unit(a) \in Units
      /\ tail' = [tail EXCEPT ![l] = Unit(a)] /\ net' = net /\ lk' = lk /\ held' = held
  BY <1>1, ActorType DEF AcquireSwap, TryCas
<1>3. /\ \A b \in Actors : b # a => pc'[b] = pc[b] /\ peer'[b] = peer[b]
      /\ \/ pc'[a] = "granted" /\ tail[l] = NoUnit
         \/ pc'[a] = "acq_link" /\ peer'[a] = tail[l] /\ tail[l] \in Units
  BY <1>1 DEF AcquireSwap, TryCas, Goto, TypeOK
<1>4. tail'[l] = Unit(a) /\ \A k \in Locks : k # l => tail'[k] = tail[k]
  BY <1>2 DEF TypeOK
<1>5. tail[l] # Unit(a) /\ \A b \in Actors : ~ Behind(b, l, Unit(a))
  <2>1. ~ InQueue(a, l)
    BY <1>1, <1>2 DEF InQueue, QueuePCs, MutexInv, PastNotHeld, Past, PCs
  <2> QED
    BY <1>1, <1>2, <2>1, NobodyBehind
<1>6. ASSUME NEW b \in Actors, NEW k \in Locks, InQueue(b, k) PROVE InQueue(b, k)'
  BY <1>2, <1>3, <1>6 DEF InQueue, QueuePCs
<1>7. InQueue(a, l)'
  BY <1>1, <1>2, <1>3 DEF InQueue, QueuePCs
<1>8. ASSUME NEW b \in Actors, NEW k \in Locks, NEW p \in Units, Behind(b, k, p)'
      PROVE  Behind(b, k, p) \/ (b = a /\ k = l /\ p = tail[l])
  BY <1>1, <1>2, <1>3, <1>8 DEF Behind
<1>9. ASSUME NEW k \in Locks, NEW p \in Units, NEW b \in Actors, NEW c \in Actors,
             Behind(b, k, p)', Behind(c, k, p)'
      PROVE  b = c
  BY <1>8, <1>9 DEF QueueInv
<1>10. ASSUME NEW k \in Locks, NEW p \in Units, NEW b \in Actors, Behind(b, k, p)'
       PROVE  \E c \in Actors : Unit(c) = p /\ InQueue(c, k)'
  <2>1. PICK c \in Actors : Unit(c) = p /\ InQueue(c, k)
    BY <1>8, <1>10 DEF QueueInv
  <2> QED
    BY <1>6, <2>1
<1>11. ASSUME NEW k \in Locks, NEW p \in Units, p = tail'[k]
       PROVE  /\ \E c \in Actors : Unit(c) = p /\ InQueue(c, k)'
              /\ \A b \in Actors : ~ Behind(b, k, p)'
  <2>1. CASE k = l
    <3>1. p = Unit(a)
      BY <1>4, <1>11, <2>1
    <3> QED
      BY <1>5, <1>7, <1>8, <2>1, <3>1
  <2>2. CASE k # l
    <3>1. p = tail[k]
      BY <1>4, <1>11, <2>2
    <3>2. PICK c \in Actors : Unit(c) = p /\ InQueue(c, k)
      BY <3>1 DEF QueueInv
    <3> QED
      BY <1>6, <1>8, <2>2, <3>1, <3>2 DEF QueueInv
  <2> QED
    BY <2>1, <2>2
<1> QED
  BY <1>9, <1>10, <1>11 DEF QueueInv

(* The tail leaves the queue: nobody is behind it.                         *)
LEMMA EmptyQueue ==
  ASSUME TypeOK, MutexInv, QueueInv, NEW a \in Actors, ReleaseCas(a)
  PROVE  QueueInv'
<1>1. PICK l \in Locks : l = lk[a]
  BY DEF ReleaseCas, MutexInv, InsideHasMutex
<1>2. /\ pc[a] = "rel_cas" /\ tail[l] = Unit(a) /\ Unit(a) \in Units
      /\ tail' = [tail EXCEPT ![l] = NoUnit] /\ net' = net /\ lk' = lk /\ held' = held
      /\ peer' = peer /\ pc' = [pc EXCEPT ![a] = "rel_done"]
  BY <1>1, ActorType DEF ReleaseCas, Goto
<1>3. pc'[a] = "rel_done" /\ \A b \in Actors : b # a => pc'[b] = pc[b]
  BY <1>2 DEF TypeOK
<1>4. tail'[l] = NoUnit /\ \A k \in Locks : k # l => tail'[k] = tail[k]
  BY <1>2 DEF TypeOK
<1>5. ASSUME NEW b \in Actors, NEW k \in Locks, InQueue(b, k), b # a \/ k # l
      PROVE  InQueue(b, k)'
  BY <1>1, <1>2, <1>3, <1>5 DEF InQueue
<1>6. ASSUME NEW b \in Actors, NEW k \in Locks, NEW p \in Units, Behind(b, k, p)'
      PROVE  Behind(b, k, p)
  BY <1>2, <1>3, <1>6 DEF Behind
<1>7. ASSUME NEW k \in Locks, NEW p \in Units, NEW b \in Actors, NEW c \in Actors,
             Behind(b, k, p)', Behind(c, k, p)'
      PROVE  b = c
  BY <1>6, <1>7 DEF QueueInv
<1>8. ASSUME NEW k \in Locks, NEW p \in Units, NEW b \in Actors, Behind(b, k, p)'
      PROVE  \E c \in Actors : Unit(c) = p /\ InQueue(c, k)'
  <2>1. Behind(b, k, p)
    BY <1>6, <1>8
  <2>2. PICK c \in Actors : Unit(c) = p /\ InQueue(c, k)
    BY <2>1 DEF QueueInv
  <2>3. c # a \/ k # l
    BY <1>2, <2>1, <2>2 DEF QueueInv
  <2> QED
    BY <1>5, <2>2, <2>3
<1>9. ASSUME NEW k \in Locks, NEW p \in Units, p = tail'[k]
      PROVE  /\ \E c \in Actors : Unit(c) = p /\ InQueue(c, k)'
             /\ \A b \in Actors : ~ Behind(b, k, p)'
  <2>1. k # l /\ p = tail[k]
    BY <1>4, <1>9, LockConstants
  <2>2. PICK c \in Actors : Unit(c) = p /\ InQueue(c, k)
    BY <2>1 DEF QueueInv
  <2> QED
    BY <1>5, <1>6, <2>1, <2>2 DEF QueueInv
<1> QED
  BY <1>7, <1>8, <1>9 DEF QueueInv

(* The releasing actor sends the message and leaves the queue: the actor   *)
(* it sends to was the only one behind it.                                 *)
LEMMA SendQueue ==
  ASSUME NoCrossTalk, TypeOK, MutexInv, TokenInv, QueueInv, NEW a \in Actors, ReleaseSend(a)
  PROVE  QueueInv'
<1>1. PICK l \in Locks, u \in Units, s \in Units : l = lk[a] /\ u = Unit(a) /\ s = peer[a]
  BY ActorType DEF ReleaseSend, MutexInv, InsideHasMutex, PeerSound
<1>2. /\ pc[a] = "rel_send" /\ pc' = [pc EXCEPT ![a] = "rel_reset"]
      /\ tail' = tail /\ lk' = lk /\ held' = held /\ peer' = peer
      /\ net' = [net EXCEPT ![u][s] = @ + 1]
  BY <1>1 DEF ReleaseSend, Goto
<1>3. pc'[a] = "rel_reset" /\ \A b \in Actors : b # a => pc'[b] = pc[b]
  BY <1>2 DEF TypeOK
<1>4. PICK w \in Actors : Unit(w) = s /\ Waiting(w, l, u) /\ Behind(w, l, u)
  BY <1>1, <1>2 DEF TokenInv, SendSound, Waiting, Behind
<1>5. /\ net'[u][s] = net[u][s] + 1 /\ net[u][s] \in Nat
      /\ \A p, v \in Units : net'[p][v] = 0 => net[p][v] = 0
  BY <1>2 DEF TypeOK
<1>6. ASSUME NEW b \in Actors, NEW k \in Locks, InQueue(b, k), b # a \/ k # l
      PROVE  InQueue(b, k)'
  BY <1>1, <1>2, <1>3, <1>6 DEF InQueue
<1>7. ASSUME NEW b \in Actors, NEW k \in Locks, NEW p \in Units, Behind(b, k, p)'
      PROVE  Behind(b, k, p) /\ b # w
  <2>1. Behind(b, k, p)
    BY <1>2, <1>3, <1>5, <1>7, ActorType DEF Behind
  <2>2. w # a
    BY <1>2, <1>4 DEF Waiting
  <2>3. ~ Behind(w, k, p)'
    BY <1>2, <1>3, <1>4, <1>5, <2>2 DEF Behind, Waiting
  <2> QED
    BY <1>7, <2>1, <2>3
<1>8. ASSUME NEW k \in Locks, NEW p \in Units, NEW b \in Actors, NEW c \in Actors,
             Behind(b, k, p)', Behind(c, k, p)'
      PROVE  b = c
  BY <1>7, <1>8 DEF QueueInv
<1>9. ASSUME NEW k \in Locks, NEW p \in Units, NEW b \in Actors, Behind(b, k, p)'
      PROVE  \E c \in Actors : Unit(c) = p /\ InQueue(c, k)'
  <2>1. Behind(b, k, p) /\ b # w
    BY <1>7, <1>9
  <2>2. PICK c \in Actors : Unit(c) = p /\ InQueue(c, k)
    BY <2>1 DEF QueueInv
  <2>3. c # a \/ k # l
    BY <1>1, <1>4, <2>1, <2>2 DEF QueueInv
  <2> QED
    BY <1>6, <2>2, <2>3
<1>10. ASSUME NEW k \in Locks, NEW p \in Units, p = tail[k]
       PROVE  /\ \E c \in Actors : Unit(c) = p /\ InQueue(c, k)'
              /\ \A b \in Actors : ~ Behind(b, k, p)'
  <2>1. PICK c \in Actors : Unit(c) = p /\ InQueue(c, k)
    BY <1>10 DEF QueueInv
  <2>2. c # a \/ k # l
    BY <1>1, <1>4, <1>10, <2>1 DEF QueueInv
  <2> QED
    BY <1>6, <1>7, <1>10, <2>1, <2>2 DEF QueueInv
<1> QED
  BY <1>2, <1>8, <1>9, <1>10 DEF QueueInv

(* Every step preserves the order of the queue.                            *)
LEMMA StepQueue ==
  ASSUME NoCrossTalk, TypeOK, MutexInv, TokenInv, QueueInv,
         NEW a \in Actors, NEW l \in Locks, Step(a) \/ Call(a, l)
  PROVE  QueueInv'
<1>1. CASE AcquireLock(a, l)
  BY <1>1, QueueFrame DEF AcquireLock, MutexLock, MutexAvailable, Enter,
     Goto, TypeOK, OthersStay, QueuePCs, MutexInv, InsideHasMutex
<1>2. CASE AcquireTwice(a)
  BY <1>2, QueueFrame DEF AcquireTwice, MutexUnlock, Return, Goto, TypeOK,
     OthersStay, QueuePCs, MutexInv, InsideHasMutex
<1>3. CASE AcquireCheck(a)
  BY <1>3, QueueFrame DEF AcquireCheck, Goto, TypeOK, OthersStay, QueuePCs,
     MutexInv, InsideHasMutex
<1>4. CASE AcquireSwap(a)
  BY <1>4, TailQueue
<1>5. CASE AcquireLink(a)
  BY <1>5, LinkQueue
<1>6. CASE AcquireRecv(a)
  BY <1>6, RecvQueue
<1>7. CASE Granted(a)
  BY <1>7, QueueFrame DEF Granted, Return, Goto, TypeOK, OthersStay,
     QueuePCs, MutexInv, InsideHasMutex
<1>8. CASE TryBusy(a, l)
  BY <1>8, QueueFrame DEF TryBusy, Return, Goto, TypeOK, OthersStay,
     QueuePCs, MutexInv, InsideHasMutex
<1>9. CASE TryLock(a, l)
  BY <1>9, QueueFrame DEF TryLock, MutexLock, MutexAvailable, Enter, Goto,
     TypeOK, OthersStay, QueuePCs, MutexInv, InsideHasMutex
<1>10. CASE TryTwice(a)
  BY <1>10, QueueFrame DEF TryTwice, MutexUnlock, Return, Goto, TypeOK,
     OthersStay, QueuePCs, MutexInv, InsideHasMutex
<1>11. CASE TryCheck(a)
  BY <1>11, QueueFrame DEF TryCheck, Goto, TypeOK, OthersStay, QueuePCs,
     MutexInv, InsideHasMutex
<1>12. CASE TryCas(a)
  BY <1>12, TailQueue
<1>13. CASE TryFail(a)
  BY <1>13, QueueFrame DEF TryFail, MutexUnlock, Return, Goto, TypeOK,
     OthersStay, QueuePCs, MutexInv, InsideHasMutex
<1>14. CASE ReleaseInval(a, l)
  BY <1>14, QueueFrame DEF ReleaseInval, Return, Goto, TypeOK, OthersStay,
     QueuePCs, MutexInv, InsideHasMutex
<1>15. CASE Release(a, l)
  BY <1>15, QueueFrame DEF Release, Enter, Goto, TypeOK, OthersStay,
     QueuePCs, MutexInv, InsideHasMutex
<1>16. CASE ReleaseCas(a)
  BY <1>16, EmptyQueue
<1>17. CASE ReleaseHandover(a)
  BY <1>17, QueueFrame DEF ReleaseHandover, Goto, TypeOK, OthersStay,
     QueuePCs, MutexInv, InsideHasMutex
<1>18. CASE ReleaseSpin(a)
  BY <1>18, QueueFrame DEF ReleaseSpin, Goto, TypeOK, OthersStay, QueuePCs,
     MutexInv, InsideHasMutex
<1>19. CASE ReleaseSend(a)
  BY <1>19, SendQueue
<1>20. CASE ReleaseReset(a)
  BY <1>20, QueueFrame DEF ReleaseReset, Goto, TypeOK, OthersStay, QueuePCs,
     MutexInv, InsideHasMutex
<1>21. CASE ReleaseDone(a)
  BY <1>21, QueueFrame DEF ReleaseDone, MutexUnlock, Return, Goto, TypeOK,
     OthersStay, QueuePCs, MutexInv, InsideHasMutex
<1> QED
  BY <1>1, <1>2, <1>3, <1>4, <1>5, <1>6, <1>7, <1>8, <1>9, <1>10, <1>11,
     <1>12, <1>13, <1>14, <1>15, <1>16, <1>17, <1>18, <1>19, <1>20, <1>21 DEF
     Step, Call

(* The order of the queue is an invariant.                                 *)
LEMMA QueueStep ==
  ASSUME NoCrossTalk, TypeOK, MutexInv, TokenInv, QueueInv, [Next]_vars
  PROVE  QueueInv'
<1>1. ASSUME NEW a \in Actors, NEW l \in Locks, Step(a) \/ Call(a, l) PROVE QueueInv'
  BY <1>1, StepQueue
<1>2. ASSUME NEW a \in Actors, Step(a) PROVE \E l \in Locks : TRUE
  BY <1>2 DEF Step, AcquireTwice, AcquireCheck, AcquireSwap, AcquireLink,
     AcquireRecv, Granted, TryTwice, TryCheck, TryCas, TryFail, ReleaseCas,
     ReleaseHandover, ReleaseSpin, ReleaseSend, ReleaseReset, ReleaseDone,
     MutexInv, InsideHasMutex
<1>3. CASE UNCHANGED vars
  BY <1>3 DEF vars, QueueInv, InQueue, Behind
<1> QED
  BY <1>1, <1>2, <1>3 DEF Next

(* Initially all queues are empty.                                         *)
LEMMA QueueInit == Init => QueueInv
BY LockConstants DEF Init, QueueInv, InQueue, Behind

(* The queue that dart_lock_acquire builds out of tail and next is in      *)
(* order: no unit has two successors, each waiting unit is behind one that *)
(* is still in the queue, and the tail has nobody behind it.               *)
THEOREM QueueIsOrdered == NoCrossTalk => (Spec => []QueueInv)
<1> SUFFICES ASSUME NoCrossTalk PROVE Spec => []QueueInv
  OBVIOUS
<1> DEFINE I == TypeOK /\ MutexInv /\ TokenInv /\ QueueInv
<1>1. Init => I
  BY LocalInit, TokenInit, QueueInit
<1>2. I /\ [Next]_vars => I'
  BY LocalStep, TokenStep, QueueStep
<1>3. I => QueueInv
  OBVIOUS
<1> QED
  BY <1>1, <1>2, <1>3, PTL DEF Spec

(* The reset of the next pointer at the end of dart_lock_release, which    *)
(* comes after the message that hands over the lock, overwrites no link of *)
(* a unit that queued up meanwhile: whoever is behind the releasing unit   *)
(* has its message.                                                        *)
THEOREM ResetIsSafe == NoCrossTalk => (Spec => []ResetLosesNoLink)
<1> SUFFICES ASSUME NoCrossTalk PROVE Spec => []ResetLosesNoLink
  OBVIOUS
<1> DEFINE I == TypeOK /\ MutexInv /\ TokenInv /\ QueueInv
<1>1. Init => I
  BY LocalInit, TokenInit, QueueInit
<1>2. I /\ [Next]_vars => I'
  BY LocalStep, TokenStep, QueueStep
<1>3. I => ResetLosesNoLink
  <2> SUFFICES ASSUME I, NEW a \in Actors, NEW b \in Actors, pc[a] = "rel_reset",
                      pc[b] \in {"acq_link", "acq_wait"}, lk[b] = lk[a],
                      peer[b] = Unit(a), ~ (net[Unit(a)][Unit(b)] > 0)
               PROVE  FALSE
    BY DEF ResetLosesNoLink
  <2>1. PICK l \in Locks : l = lk[a]
    BY DEF MutexInv, InsideHasMutex
  <2>2. net[Unit(a)][Unit(b)] = 0
    BY ActorType DEF TypeOK
  <2>3. Behind(b, l, Unit(a))
    BY <2>1, <2>2 DEF Behind
  <2>4. ~ InQueue(a, l)
    BY <2>1 DEF InQueue, QueuePCs, MutexInv, PastNotHeld, Past, PCs
  <2> QED
    BY <2>1, <2>3, <2>4, NobodyBehind
<1> QED
  BY <1>1, <1>2, <1>3, PTL DEF Spec

=============================================================================
