----------------------------- MODULE WorkQueue -----------------------------
(***************************************************************************)
(* The bounded queue between the main thread of a DART-SHMEM process and  *)
(* its helper thread (dart_helper_thread.c).  Push and pop run under the  *)
(* queue's mutex except while they wait on one of its two condition       *)
(* variables, and are given here as operators on the queue together with  *)
(* the test that decides whether the other side is signalled.             *)
(***************************************************************************)
EXTENDS Integers

CONSTANT MaxItems   \* MAXNUM_WORK_ITEMS

ASSUME MaxItemsAssumption == MaxItems \in Nat \ {0}

WorkNone == [selector |-> "none"]
WorkShutdown == [selector |-> "shutdown"]

dart_work_queue_init ==
    [nitems |-> 0, next_push |-> 0, next_pop |-> 0,
     work |-> [i \in 0 .. MaxItems - 1 |-> WorkNone]]

IsEmpty(q) == q.nitems = 0
IsFull(q) == q.nitems >= MaxItems

\* The item that pop hands to the helper thread, and the queue it leaves.
PoppedItem(q) == q.work[q.next_pop]

dart_work_queue_pop_item(q) ==
    [q EXCEPT !.next_pop = (@ + 1) % MaxItems, !.nitems = @ - 1]

\* Pop signals cond_not_full only when it has just made room in a full queue, push signals
\* cond_not_empty only when it has just filled an empty one.
PopSignalsTooEarly(q) == dart_work_queue_pop_item(q).nitems = MaxItems
PopSignals(q) == dart_work_queue_pop_item(q).nitems = MaxItems - 1

dart_work_queue_push_item(q, item) ==
    [q EXCEPT !.work[q.next_push] = item, !.next_push = (@ + 1) % MaxItems, !.nitems = @ + 1]

PushSignals(q) == q.nitems + 1 = 1
=============================================================================
