------------------------------ MODULE FairLock ------------------------------
(***************************************************************************)
(* What the DART team lock promises to its clients: a first-come           *)
(* first-served lock.  Each lock has a queue of clients; only the client   *)
(* at the head is ever granted the lock, and it leaves the queue only      *)
(* after it has released it.                                               *)
(***************************************************************************)
EXTENDS Sequences

CONSTANTS Clients, Locks

VARIABLES
  queue,    \* the clients in the order in which they asked
  phase     \* what the client at the head of the queue is doing

fairLockVars == <<queue, phase>>

Phases == {"free", "queued", "held", "leaving"}

Init ==
  /\ queue = [l \in Locks |-> <<>>]
  /\ phase = [l \in Locks |-> "free"]

Enqueue(c, l) ==
  /\ \A i \in DOMAIN queue[l] : queue[l][i] # c
  /\ queue' = [queue EXCEPT ![l] = Append(@, c)]
  /\ phase' = [phase EXCEPT ![l] = IF @ = "free" THEN "queued" ELSE @]

Grant(l) ==
  /\ phase[l] = "queued"
  /\ phase' = [phase EXCEPT ![l] = "held"]
  /\ UNCHANGED queue

Release(l) ==
  /\ phase[l] = "held"
  /\ phase' = [phase EXCEPT ![l] = "leaving"]
  /\ UNCHANGED queue

Leave(l) ==
  /\ phase[l] = "leaving"
  /\ queue' = [queue EXCEPT ![l] = Tail(@)]
  /\ phase' = [phase EXCEPT ![l] = IF Len(queue[l]) = 1 THEN "free" ELSE "queued"]

Next ==
  \E l \in Locks :
    \/ \E c \in Clients : Enqueue(c, l)
    \/ Grant(l) \/ Release(l) \/ Leave(l)

Order == Init /\ [][Next]_fairLockVars

Spec ==
  /\ Order
  /\ \A l \in Locks :
       WF_fairLockVars(Grant(l)) /\ WF_fairLockVars(Release(l))
         /\ WF_fairLockVars(Leave(l))
=============================================================================
