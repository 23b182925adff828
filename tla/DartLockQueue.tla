--------------------------- MODULE DartLockQueue ---------------------------
(***************************************************************************)
(* The queue of a team lock, read off the distributed data structure, and  *)
(* the lock as an implementation of FairLock.  Nobody in the program ever  *)
(* sees this queue: tail knows its end, every waiting actor the unit       *)
(* before it, and a waiter whose hand-over message is under way is its     *)
(* head.                                                                   *)
(***************************************************************************)
EXTENDS DartLock, Sequences

Queued(l) == {a \in Actors : InQueue(a, l)}

(* Pairs of an actor and one that waits behind its unit.                   *)
Follows(l) == {ab \in Actors \X Actors : Behind(ab[2], l, Unit(ab[1]))}

(* A sequence of members of S without repetition, in which each follows    *)
(* the one before it and the first follows nobody.                         *)
InOrder(q, S, R) ==
  /\ \A i, j \in DOMAIN q : q[i] = q[j] => i = j
  /\ \A i \in DOMAIN q : i + 1 \in DOMAIN q => <<q[i], q[i + 1]>> \in R
  /\ \A a \in S : 1 \in DOMAIN q => <<a, q[1]>> \notin R

(* All of S in order, or nothing if that is impossible.                    *)
Ordered(S, R) ==
  LET orders == {q \in [1 .. Cardinality(S) -> S] : InOrder(q, S, R)} IN
  IF orders = {} THEN <<>> ELSE CHOOSE q \in orders : TRUE

QueueOf(l) == Ordered(Queued(l), Follows(l))

(* What the head of the queue is doing: it holds the lock, or is about to  *)
(* hand it over, or has not been told yet.                                 *)
Leaving(a, l) == lk[a] = l /\ pc[a] \in {"rel_cas", "rel_spin", "rel_send"}

PhaseOf(l) ==
  IF \E a \in Actors : l \in held[a] THEN "held"
  ELSE IF \E a \in Actors : Leaving(a, l) THEN "leaving"
  ELSE IF Queued(l) # {} THEN "queued"
  ELSE "free"

Promise == INSTANCE FairLock WITH
  Clients <- Actors,
  queue <- [l \in Locks |-> QueueOf(l)],
  phase <- [l \in Locks |-> PhaseOf(l)]

(* The distributed queue lock implements the first-come first-served lock: *)
(* the order in which units replace the tail is the order in which they    *)
(* are granted the lock, and no request is forgotten.                      *)
ImplementsFairLock == Promise!Spec
=============================================================================
