---------------------------- MODULE DartHandles ----------------------------
(***************************************************************************)
(* One-sided communication of one unit: the puts and gets of               *)
(* dart_communication.c, their handles, and the calls that complete them   *)
(* (flush, wait, test and their variants).  An operation on memory of the  *)
(* unit's own node is a memcpy; any other becomes one or two MPI transfers *)
(* (two when it is longer than MAX_CONTIG_ELEMENTS), which MPI completes   *)
(* at the origin and at the target in its own time.                        *)
(***************************************************************************)
EXTENDS Integers, Sequences, FiniteSets

CONSTANTS Ops,            \* the operations of the unit, each issued once
          Remote,         \* units on other nodes
          Near,           \* units on the same node, the unit itself included
          Lengths,        \* numbers of MPI transfers an operation may take
          TestsOneByOne   \* build for MPICH <= 3.2.1: MPI_Test in a loop

ASSUME DestsAssumption == Remote \cap Near = {}
ASSUME LengthsAssumption == Lengths \subseteq 0 .. 2
ASSUME BuildAssumption == TestsOneByOne \in BOOLEAN

VARIABLES op,             \* op[o]: kind, dest and whether issued with a handle
          loc, rem,       \* transfers of o complete at the origin / at the target
          req,            \* MPI's view of o's requests
          handle,         \* the caller's dart_handle_t: its reqs[], or NULL
          open,           \* operations whose handle the caller may still use
          promised        \* what a returned call has promised about o

vars == <<op, loc, rem, req, handle, open, promised>>

NULL == <<>>              \* DART_HANDLE_NULL: no handle has an empty reqs[]
Unissued == [kind |-> "none", dest |-> "none"]
MaxTransfers == 2         \* struct dart_handle_struct: reqs[2]

Transfers(o) == DOMAIN loc[o]
Ones(n) == [j \in 1 .. n |-> 1]

Init ==
    /\ op = [o \in Ops |-> Unissued]
    /\ loc = [o \in Ops |-> <<>>]
    /\ rem = [o \in Ops |-> <<>>]
    /\ req = [o \in Ops |-> <<>>]
    /\ handle = [o \in Ops |-> NULL]
    /\ open = {}
    /\ promised = [o \in Ops |-> "none"]

----------------------------------------------------------------------------
(* MPI: transfers complete, a get at both ends at once *)

LocalProgress(o, j) ==
    /\ loc[o][j] = 0
    /\ loc' = [loc EXCEPT ![o][j] = 1]
    /\ rem' = IF op[o].kind = "get" THEN [rem EXCEPT ![o][j] = 1] ELSE rem
    /\ UNCHANGED <<op, req, handle, open, promised>>

RemoteProgress(o, j) ==
    /\ op[o].kind = "put"
    /\ rem[o][j] = 0
    /\ rem' = [rem EXCEPT ![o][j] = 1]
    /\ UNCHANGED <<op, loc, req, handle, open, promised>>

\* All transfers of the operations in S complete (at the origin, or at both ends).
Completed(f, S) == [o \in Ops |-> IF o \in S THEN Ones(Len(f[o])) ELSE f[o]]

Gets == {o \in Ops : op[o].kind = "get"}

\* A promise is never taken back.
Promise(S, what) ==
    promised' = [o \in Ops |->
        IF o \in S /\ promised[o] # "remote" /\ op[o] # Unissued THEN what ELSE promised[o]]

PromiseLocal(S) == Promise({o \in S : promised[o] = "none"}, "local")

----------------------------------------------------------------------------
(* Issuing operations *)

Unused(o) == op[o] = Unissued

\* Same unit or same node: memcpy, no request, no handle.
IssueNear(o, kind, d, n) ==
    /\ Unused(o)
    /\ op' = [op EXCEPT ![o] = [kind |-> kind, dest |-> d]]
    /\ loc' = [loc EXCEPT ![o] = Ones(n)]
    /\ rem' = [rem EXCEPT ![o] = Ones(n)]
    /\ open' \in {open, open \cup {o}}
    /\ UNCHANGED <<req, handle, promised>>

Pending(n) == [j \in 1 .. n |-> 0]

\* dart_put, dart_get: transfers without requests.
IssuePlain(o, kind, d, n) ==
    /\ Unused(o)
    /\ op' = [op EXCEPT ![o] = [kind |-> kind, dest |-> d]]
    /\ loc' = [loc EXCEPT ![o] = Pending(n)]
    /\ rem' = [rem EXCEPT ![o] = Pending(n)]
    /\ UNCHANGED <<req, handle, open, promised>>

\* dart_put_handle, dart_get_handle: a handle without requests is freed at once.
IssueHandle(o, kind, d, n) ==
    /\ Unused(o)
    /\ op' = [op EXCEPT ![o] = [kind |-> kind, dest |-> d]]
    /\ loc' = [loc EXCEPT ![o] = Pending(n)]
    /\ rem' = [rem EXCEPT ![o] = Pending(n)]
    /\ req' = [req EXCEPT ![o] = [j \in 1 .. n |-> "active"]]
    /\ handle' = [handle EXCEPT ![o] = IF n = 0 THEN NULL ELSE Ones(n)]
    /\ open' = open \cup {o}
    /\ UNCHANGED <<promised>>

To(d) == {o \in Ops : op[o].dest = d}

\* dart_put_blocking: MPI_Put, then MPI_Win_flush of everything to d.
PutBlocking(o, d, n) ==
    /\ Unused(o)
    /\ op' = [op EXCEPT ![o] = [kind |-> "put", dest |-> d]]
    /\ loc' = [Completed(loc, To(d)) EXCEPT ![o] = Ones(n)]
    /\ rem' = [Completed(rem, To(d)) EXCEPT ![o] = Ones(n)]
    /\ promised' = [promised EXCEPT ![o] = "remote"]
    /\ UNCHANGED <<req, handle, open>>

\* dart_get_blocking: MPI_Rget and MPI_Waitall.
GetBlocking(o, d, n) ==
    /\ Unused(o)
    /\ op' = [op EXCEPT ![o] = [kind |-> "get", dest |-> d]]
    /\ loc' = [loc EXCEPT ![o] = Ones(n)]
    /\ rem' = [rem EXCEPT ![o] = Ones(n)]
    /\ promised' = [promised EXCEPT ![o] = "remote"]
    /\ UNCHANGED <<req, handle, open>>

----------------------------------------------------------------------------
(* Flushing *)

FlushSet(S) ==
    /\ loc' = Completed(loc, S)
    /\ rem' = Completed(rem, S)
    /\ Promise(S, "remote")
    /\ UNCHANGED <<op, req, handle, open>>

dart_flush(d) == FlushSet(To(d))
dart_flush_all == FlushSet(Ops)

FlushLocalSet(S) ==
    /\ loc' = Completed(loc, S)
    /\ rem' = Completed(rem, S \cap Gets)
    /\ PromiseLocal(S)
    /\ UNCHANGED <<op, req, handle, open>>

dart_flush_local(d) == FlushLocalSet(To(d))
dart_flush_local_all == FlushLocalSet(Ops)

----------------------------------------------------------------------------
(* Waiting and testing *)

Live(S) == {o \in S : handle[o] # NULL}

\* The requests the handles of S still name.
Named(o) == {j \in DOMAIN handle[o] : handle[o][j] = 1}

FreeHandles(S) ==
    /\ handle' = [o \in Ops |-> IF o \in S THEN NULL ELSE handle[o]]
    /\ open' = open \ S

FreedFirstRequests(S) ==
    [o \in Ops |-> IF o \in Live(S) THEN [req[o] EXCEPT ![1] = "freed"] ELSE req[o]]

FreedRequests(S) ==
    [o \in Ops |-> IF o \in Live(S) THEN [j \in DOMAIN req[o] |-> "freed"] ELSE req[o]]

\* MPI_Waitall completes the requests of S at the origin and frees them.
WaitedLoc(S) == Completed(loc, Live(S))
WaitedRem(S) == Completed(rem, Live(S) \cap Gets)

never_needs_flush(o) == op[o].kind = "none"

\* The operations that MPI_Win_flush completes on behalf of the handles in S.
needs_flush(o) == op[o].kind = "put"
FlushedFor(S) == UNION {To(op[o].dest) : o \in {p \in Live(S) : needs_flush(p)}}

dart_waitall_local(S) ==
    /\ loc' = WaitedLoc(S)
    /\ rem' = WaitedRem(S)
    /\ req' = FreedRequests(S)
    /\ FreeHandles(S)
    /\ PromiseLocal(S)
    /\ UNCHANGED op

dart_waitall(S) ==
    /\ loc' = Completed(WaitedLoc(S), FlushedFor(S))
    /\ rem' = Completed(WaitedRem(S), FlushedFor(S))
    /\ req' = FreedRequests(S)
    /\ FreeHandles(S)
    /\ Promise(S, "remote")
    /\ UNCHANGED op

dart_wait_local(o) == dart_waitall_local({o})
dart_wait(o) == dart_waitall({o})

AllDoneWithoutNull(S) ==
    \A o \in Live(S) : \A j \in DOMAIN handle[o] : handle[o][j] = 1 /\ loc[o][j] = 1

AllDone(S) == \A o \in Live(S) : \A j \in Named(o) : loc[o][j] = 1

\* All requests of S complete: the test succeeds, with the effect of the wait.
dart_testall_local_done(S) == AllDone(S) /\ dart_waitall_local(S)
dart_testall_done(S) == AllDone(S) /\ dart_waitall(S)

\* A test that fails has no effect, unless MPI_Test ran on each request: those that
\* are complete are freed then.
TestedRequests(S, freed) ==
    [o \in Ops |-> IF o \notin Live(S) THEN req[o]
                   ELSE [j \in DOMAIN req[o] |->
                           IF j \in Named(o) /\ loc[o][j] = 1 THEN freed ELSE req[o][j]]]

\* dart_test(_local) hands its own reqs[] to MPI, which clears the freed ones.
dart_test_failed(o) ==
    /\ TestsOneByOne
    /\ ~AllDone({o})
    /\ req' = TestedRequests({o}, "freed")
    /\ handle' = [handle EXCEPT ![o] =
                    [j \in DOMAIN @ |-> IF loc[o][j] = 1 THEN 0 ELSE @[j]]]
    /\ UNCHANGED <<op, loc, rem, open, promised>>

\* dart_testall(_local) hands MPI a copy of the requests and drops it: the handles go on
\* naming the freed ones.
dart_testall_failed(S) ==
    /\ TestsOneByOne
    /\ ~AllDone(S)
    /\ req' = TestedRequests(S, "dangling")
    /\ UNCHANGED <<op, loc, rem, handle, open, promised>>

\* dart_handle_free: nobody can wait for, or free, the requests any more.
dart_handle_free(o) ==
    /\ o \in open
    /\ FreeHandles({o})
    /\ req' = [req EXCEPT ![o] = [j \in DOMAIN @ |-> IF @[j] = "active" THEN "leaked" ELSE @[j]]]
    /\ UNCHANGED <<op, loc, rem, promised>>

----------------------------------------------------------------------------
Issue(o) ==
    \E kind \in {"put", "get"}, n \in Lengths :
        \/ \E d \in Near : IssueNear(o, kind, d, n)
        \/ \E d \in Remote : IssuePlain(o, kind, d, n) \/ IssueHandle(o, kind, d, n)

IssueBlocking(o) ==
    \E d \in Remote, n \in Lengths : PutBlocking(o, d, n) \/ GetBlocking(o, d, n)

Flush ==
    \/ \E d \in Remote : dart_flush(d) \/ dart_flush_local(d)
    \/ dart_flush_all \/ dart_flush_local_all

Wait(o) == o \in open /\ (dart_wait(o) \/ dart_wait_local(o))

Test(o) ==
    /\ o \in open
    /\ dart_testall_local_done({o}) \/ dart_testall_done({o}) \/ dart_test_failed(o)

Arrays == {S \in SUBSET open : Cardinality(S) > 1}

All ==
    \E S \in Arrays :
        \/ dart_waitall(S) \/ dart_waitall_local(S)
        \/ dart_testall_done(S) \/ dart_testall_local_done(S) \/ dart_testall_failed(S)

Progress == \E o \in Ops : \E j \in Transfers(o) : LocalProgress(o, j) \/ RemoteProgress(o, j)

Next ==
    \/ \E o \in Ops : Issue(o) \/ IssueBlocking(o) \/ Wait(o) \/ Test(o) \/ dart_handle_free(o)
    \/ Flush \/ All \/ Progress

Spec == Init /\ [][Next]_vars

\* MPI makes progress, and a caller that polls a handle with dart_test goes on polling.
FairSpec == Spec /\ WF_vars(Progress) /\ \A o \in Ops : WF_vars(Test(o))

----------------------------------------------------------------------------
ReqStates == {"active", "freed", "dangling", "leaked"}
Bits == {0, 1}

\* Every variable keeps its type.
TypeOK ==
    /\ op \in [Ops -> [kind : {"none", "put", "get"}, dest : Remote \cup Near \cup {"none"}]]
    /\ loc \in [Ops -> Seq(Bits)] /\ rem \in [Ops -> Seq(Bits)]
    /\ req \in [Ops -> Seq(ReqStates)] /\ handle \in [Ops -> Seq(Bits)]
    /\ open \in SUBSET Ops
    /\ promised \in [Ops -> {"none", "local", "remote"}]

\* What a returned call promised holds: local completion after the local variants of
\* wait, test and flush, completion at both ends after the others and after the blocking
\* calls, a wait on a null handle included.
PromisesAreKept ==
    \A o \in Ops :
        /\ promised[o] \in {"local", "remote"} => loc[o] = Ones(Len(loc[o]))
        /\ promised[o] = "remote" => rem[o] = Ones(Len(rem[o]))

\* A handle that is gone, other than through dart_handle_free, leaves no MPI request
\* behind; and the next wait or test of a handle that is not passes MPI no request that
\* MPI has freed, whichever calls came before, except those an unsuccessful dart_testall
\* freed one by one.
RequestsAreExact ==
    \A o \in Ops :
        /\ handle[o] = NULL => \A j \in DOMAIN req[o] : req[o][j] # "active"
        /\ \A j \in Named(o) : req[o][j] # "freed"

\* The same without the exception.
NoDanglingRequest ==
    \A o \in Ops : \A j \in Named(o) : req[o][j] \notin {"freed", "dangling"}

(* What the two invariants rest on, in an inductive form. *)

Complete(f, o) == \A j \in DOMAIN f[o] : f[o][j] = 1

\* Both ends of an operation are divided into the same transfers, at most two, and a get
\* is complete at the target where it is complete at the origin.
EndsMatch ==
    \A o \in Ops :
        /\ Len(loc[o]) = Len(rem[o]) /\ Len(loc[o]) <= MaxTransfers
        /\ op[o].kind = "get" => rem[o] = loc[o]

\* Nothing is known about an operation before it is issued.
UnissuedIsFresh ==
    \A o \in Ops : op[o].kind = "none" =>
        /\ op[o] = Unissued /\ o \notin open /\ promised[o] = "none"
        /\ loc[o] = <<>> /\ req[o] = <<>> /\ handle[o] = NULL

\* A handle has one request per transfer, belongs to the caller, and has cleared exactly
\* the requests that MPI freed, which are complete; a null handle that the caller still
\* has stands for an operation that is complete at both ends.
HandlesAreSound ==
    \A o \in Ops :
        /\ handle[o] # NULL =>
              /\ o \in open /\ Len(handle[o]) = Len(loc[o]) /\ Len(req[o]) = Len(loc[o])
              /\ \A j \in DOMAIN handle[o] : handle[o][j] = 0 => loc[o][j] = 1
              /\ \A j \in DOMAIN handle[o] : req[o][j] = "freed" <=> handle[o][j] = 0
        /\ o \in open /\ handle[o] = NULL => Complete(loc, o) /\ Complete(rem, o)

HandleInv == EndsMatch /\ UnissuedIsFresh /\ HandlesAreSound /\ PromisesAreKept /\ RequestsAreExact

\* A handle that is polled with dart_test is finished eventually.
PollingEnds == \A o \in Ops : o \in open ~> o \notin open
=============================================================================
