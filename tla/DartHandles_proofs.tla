------------------------ MODULE DartHandles_proofs ------------------------
(***************************************************************************)
(* Proofs about one-sided communication (dart_communication.c), for any    *)
(* number of operations and targets and for both builds: a returned wait,  *)
(* test, flush or blocking call promised nothing that does not hold, and   *)
(* no MPI request outlives its handle or is passed to MPI after MPI freed  *)
(* it.                                                                     *)
(*                                                                         *)
(* Argument.  The invariant says something about each operation by itself, *)
(* so it is restated as OpInv, a predicate on the seven values that        *)
(* describe one operation.  Every call then acts on the values of each     *)
(* operation in one of a few ways (both ends complete, the origin          *)
(* completes, the handle is given back), and each of these keeps OpInv.    *)
(* The parts that carry the induction are the ones on null handles: a null *)
(* handle in the caller's hands stands for a complete operation, which is  *)
(* why a wait on it may promise completion without doing anything; and a   *)
(* request that a failed test cleared from a handle is complete, which is  *)
(* why a later wait may leave it out.                                      *)
(***************************************************************************)
EXTENDS DartHandles, TLAPS

-----------------------------------------------------------------------------
(* Sequences of transfers *)

(* All transfers of s are complete.                                        *)
AllOnes(s) == \A j \in DOMAIN s : s[j] = 1

(* A sequence of complete transfers.                                       *)
LEMMA OnesSeq ==
  ASSUME NEW n \in Nat
  PROVE  /\ Ones(n) \in Seq(Bits) /\ Len(Ones(n)) = n
         /\ DOMAIN Ones(n) = 1 .. n /\ AllOnes(Ones(n))
BY DEF Ones, Bits, AllOnes

(* A sequence of transfers that are under way.                             *)
LEMMA PendingSeq ==
  ASSUME NEW n \in Nat
  PROVE  /\ Pending(n) \in Seq(Bits) /\ Len(Pending(n)) = n
         /\ DOMAIN Pending(n) = 1 .. n
BY DEF Pending, Bits

(* Being complete, said of the sequence and of its elements.               *)
LEMMA OnesEq ==
  ASSUME NEW s \in Seq(Bits)
  PROVE  s = Ones(Len(s)) <=> AllOnes(s)
BY DEF Ones, AllOnes

(* One more transfer of a sequence completes.                              *)
LEMMA SetToOne ==
  ASSUME NEW s \in Seq(Bits), NEW i \in DOMAIN s
  PROVE  /\ [s EXCEPT ![i] = 1] \in Seq(Bits) /\ Len([s EXCEPT ![i] = 1]) = Len(s)
         /\ DOMAIN [s EXCEPT ![i] = 1] = DOMAIN s
         /\ \A j \in DOMAIN s : [s EXCEPT ![i] = 1][j] = IF j = i THEN 1 ELSE s[j]
         /\ AllOnes(s) => AllOnes([s EXCEPT ![i] = 1])
BY DEF Bits, AllOnes

(* Null handles are the sequences of length zero.                          *)
LEMMA EmptySeq ==
  ASSUME NEW T, NEW s \in Seq(T)
  PROVE  s = <<>> <=> Len(s) = 0
OBVIOUS

(* Indices and elements of a sequence.                                     *)
LEMMA SeqFacts ==
  ASSUME NEW T, NEW s \in Seq(T)
  PROVE  /\ Len(s) \in Nat /\ DOMAIN s = 1 .. Len(s)
         /\ \A j \in DOMAIN s : s[j] \in T
OBVIOUS

-----------------------------------------------------------------------------
(* The invariant for one operation *)

(* The invariant, for an operation x with its transfers at the origin (l)  *)
(* and at the target (r), its requests q, its handle h, whether the caller *)
(* still has the handle (u), and what was promised (p).                    *)
OpInv(x, l, r, q, h, u, p) ==
    /\ x \in [kind : {"none", "put", "get"}, dest : Remote \cup Near \cup {"none"}]
    /\ l \in Seq(Bits) /\ r \in Seq(Bits) /\ q \in Seq(ReqStates) /\ h \in Seq(Bits)
    /\ u \in Bits /\ p \in {"none", "local", "remote"}
    /\ Len(l) = Len(r) /\ Len(l) <= MaxTransfers
    /\ x.kind = "get" => r = l
    /\ x.kind = "none" =>
          x = Unissued /\ u = 0 /\ p = "none" /\ l = <<>> /\ q = <<>> /\ h = NULL
    /\ h # NULL =>
          /\ u = 1 /\ Len(h) = Len(l) /\ Len(q) = Len(l)
          /\ \A j \in DOMAIN h : h[j] = 0 => l[j] = 1
          /\ \A j \in DOMAIN h : q[j] = "freed" <=> h[j] = 0
    /\ u = 1 /\ h = NULL => AllOnes(l) /\ AllOnes(r)
    /\ p # "none" => AllOnes(l)
    /\ p = "remote" => AllOnes(r)
    /\ h = NULL => \A j \in DOMAIN q : q[j] # "active"

(* Whether the caller may still use the handle of o. *)
Has(o) == IF o \in open THEN 1 ELSE 0

(* OpInv of operation o in the current state.                              *)
OpAt(o) == OpInv(op[o], loc[o], rem[o], req[o], handle[o], Has(o), promised[o])

(* Every variable has an entry for each operation, and only those.         *)
Functions ==
    /\ op = [o \in Ops |-> op[o]] /\ loc = [o \in Ops |-> loc[o]]
    /\ rem = [o \in Ops |-> rem[o]] /\ req = [o \in Ops |-> req[o]]
    /\ handle = [o \in Ops |-> handle[o]] /\ promised = [o \in Ops |-> promised[o]]
    /\ open \in SUBSET Ops

(* The invariant says OpInv of every operation ...                         *)
LEMMA InvToOps == TypeOK /\ HandleInv => Functions /\ \A o \in Ops : OpAt(o)
<1> SUFFICES ASSUME TypeOK, HandleInv, NEW o \in Ops PROVE Functions /\ OpAt(o)
  BY DEF TypeOK, Functions
<1>1. Functions
  BY DEF TypeOK, Functions
<1>2. /\ loc[o] \in Seq(Bits) /\ rem[o] \in Seq(Bits)
      /\ loc[o] = Ones(Len(loc[o])) <=> AllOnes(loc[o])
      /\ rem[o] = Ones(Len(rem[o])) <=> AllOnes(rem[o])
  BY OnesEq DEF TypeOK
<1>3. OpAt(o)
  BY <1>2 DEF Has, Bits, TypeOK, HandleInv, EndsMatch, UnissuedIsFresh, HandlesAreSound,
     PromisesAreKept, RequestsAreExact, OpAt, Has, OpInv, Complete, AllOnes
<1> QED BY <1>1, <1>3

(* ... and is that, in the next state too.                                 *)
LEMMA OpsToInv == Functions' /\ (\A o \in Ops : OpAt(o)') => (TypeOK /\ HandleInv)'
<1> SUFFICES ASSUME Functions', \A o \in Ops : OpAt(o)' PROVE (TypeOK /\ HandleInv)'
  OBVIOUS
<1>1. TypeOK'
  BY DEF TypeOK, Functions, OpAt, Has, OpInv
<1>2. ASSUME NEW o \in Ops
      PROVE  /\ loc'[o] = Ones(Len(loc'[o])) <=> AllOnes(loc'[o])
             /\ rem'[o] = Ones(Len(rem'[o])) <=> AllOnes(rem'[o])
  BY <1>1, OnesEq DEF TypeOK
<1>3. EndsMatch' /\ UnissuedIsFresh'
  BY DEF EndsMatch, UnissuedIsFresh, OpAt, Has, OpInv
<1>4. HandlesAreSound'
  BY DEF HandlesAreSound, OpAt, Has, OpInv, Complete, AllOnes
<1>5. PromisesAreKept'
  BY <1>2 DEF PromisesAreKept, OpAt, Has, OpInv
<1>6. RequestsAreExact'
  BY <1>1 DEF RequestsAreExact, Named, OpAt, Has, OpInv, TypeOK, NULL
<1> QED BY <1>1, <1>3, <1>4, <1>5, <1>6 DEF HandleInv

(* Completing both ends of an operation allows any promise about it.       *)
LEMMA OnesBoth ==
  ASSUME NEW x, NEW l, NEW r, NEW q, NEW h, NEW u, NEW p, OpInv(x, l, r, q, h, u, p),
         NEW p2 \in {"none", "local", "remote"}, x.kind = "none" => p2 = p
  PROVE  OpInv(x, Ones(Len(l)), Ones(Len(r)), q, h, u, p2)
<1>1. Len(l) \in Nat /\ Len(r) = Len(l)
  BY SeqFacts DEF OpInv
<1>2. DOMAIN h = 1 .. Len(h)
  BY SeqFacts DEF OpInv
<1>3. Ones(0) = <<>>
  BY DEF Ones
<1>4. /\ Ones(Len(l)) \in Seq(Bits) /\ Len(Ones(Len(l))) = Len(l)
      /\ DOMAIN Ones(Len(l)) = 1 .. Len(l) /\ AllOnes(Ones(Len(l)))
  BY <1>1, OnesSeq
<1> QED
  BY <1>1, <1>2, <1>3, <1>4, EmptySeq DEF OpInv, AllOnes

(* Completing a put at the origin allows a local promise.                  *)
LEMMA OnesLocal ==
  ASSUME NEW x, NEW l, NEW r, NEW q, NEW h, NEW u, NEW p, OpInv(x, l, r, q, h, u, p),
         x.kind # "get", NEW p2 \in {p, "local"},
         x.kind = "none" => p2 = p, p = "remote" => p2 = p
  PROVE  OpInv(x, Ones(Len(l)), r, q, h, u, p2)
<1>1. Len(l) \in Nat /\ Len(r) = Len(l)
  BY SeqFacts DEF OpInv
<1>2. DOMAIN h = 1 .. Len(h)
  BY SeqFacts DEF OpInv
<1>3. Ones(0) = <<>>
  BY DEF Ones
<1>4. /\ Ones(Len(l)) \in Seq(Bits) /\ Len(Ones(Len(l))) = Len(l)
      /\ DOMAIN Ones(Len(l)) = 1 .. Len(l) /\ AllOnes(Ones(Len(l)))
  BY <1>1, OnesSeq
<1> QED
  BY <1>1, <1>2, <1>3, <1>4, EmptySeq DEF OpInv, AllOnes

(* What is complete already may be promised.                               *)
LEMMA Promised ==
  ASSUME NEW x, NEW l, NEW r, NEW q, NEW h, NEW u, NEW p, OpInv(x, l, r, q, h, u, p),
         x.kind # "none", AllOnes(l),
         NEW p2 \in {"none", "local", "remote"}, p2 = "remote" => AllOnes(r)
  PROVE  OpInv(x, l, r, q, h, u, p2)
BY DEF OpInv

(* An operation may lose its handle with all its requests inactive.        *)
LEMMA Freed ==
  ASSUME NEW x, NEW l, NEW r, NEW q, NEW h, NEW u, NEW p, OpInv(x, l, r, q, h, u, p),
         x.kind # "none",
         NEW q2 \in Seq(ReqStates), \A j \in DOMAIN q2 : q2[j] # "active"
  PROVE  OpInv(x, l, r, q2, NULL, 0, p)
BY DEF OpInv, NULL, Bits

-----------------------------------------------------------------------------
(* One lemma per action *)

(* A transfer completes, at either end.                                    *)
LEMMA StepProgress ==
  ASSUME Functions, \A o \in Ops : OpAt(o),
         NEW o \in Ops, NEW j \in Transfers(o), LocalProgress(o, j) \/ RemoteProgress(o, j)
  PROVE  Functions' /\ \A p \in Ops : OpAt(p)'
<1>1. OpAt(o) /\ loc[o] \in Seq(Bits) /\ rem[o] \in Seq(Bits) /\ Len(loc[o]) = Len(rem[o])
      /\ handle[o] \in Seq(Bits) /\ req[o] \in Seq(ReqStates)
      /\ j \in 1 .. Len(loc[o])
  BY DEF Transfers, OpAt, OpInv
<1>4. /\ DOMAIN loc[o] = 1 .. Len(loc[o]) /\ DOMAIN rem[o] = 1 .. Len(loc[o])
      /\ DOMAIN handle[o] = 1 .. Len(handle[o]) /\ Len(loc[o]) \in Nat
      /\ loc[o] # <<>>
  BY <1>1, SeqFacts
<1>2. CASE LocalProgress(o, j)
  <2>1. Functions'
    BY <1>2 DEF LocalProgress, Functions
  <2>2. ASSUME NEW p \in Ops, p # o PROVE OpAt(p)'
    BY <1>2, <2>2 DEF LocalProgress, Functions, OpAt, Has
  <2>3. /\ loc'[o] = [loc[o] EXCEPT ![j] = 1]
        /\ rem'[o] = IF op[o].kind = "get" THEN [rem[o] EXCEPT ![j] = 1] ELSE rem[o]
    BY <1>2 DEF LocalProgress, Functions
  <2>4. OpInv(op[o], loc'[o], rem'[o], req[o], handle[o], Has(o), promised[o])
    BY <1>1, <1>4, <2>3, SetToOne DEF OpAt, OpInv
  <2> QED
    BY <1>2, <2>1, <2>2, <2>4 DEF LocalProgress, OpAt, Has
<1>3. CASE RemoteProgress(o, j)
  <2>1. Functions'
    BY <1>3 DEF RemoteProgress, Functions
  <2>2. ASSUME NEW p \in Ops, p # o PROVE OpAt(p)'
    BY <1>3, <2>2 DEF RemoteProgress, Functions, OpAt, Has
  <2>3. rem'[o] = [rem[o] EXCEPT ![j] = 1]
    BY <1>3 DEF RemoteProgress, Functions
  <2>4. OpInv(op[o], loc[o], rem'[o], req[o], handle[o], Has(o), promised[o])
    BY <1>1, <1>4, <1>3, <2>3, SetToOne DEF RemoteProgress, OpAt, OpInv
  <2> QED
    BY <1>3, <2>1, <2>2, <2>4 DEF RemoteProgress, OpAt, Has
<1> QED
  BY <1>2, <1>3

(* The put and get calls, with and without handles, and blocking.          *)
LEMMA StepIssue ==
  ASSUME Functions, \A o \in Ops : OpAt(o), NEW o \in Ops, Issue(o) \/ IssueBlocking(o)
  PROVE  Functions' /\ \A p \in Ops : OpAt(p)'
<1> USE LengthsAssumption
<1>1. ASSUME NEW kind \in {"put", "get"}, NEW n \in Lengths, NEW d \in Near,
             IssueNear(o, kind, d, n)
      PROVE  Functions' /\ \A p \in Ops : OpAt(p)'
  <2>1. Functions'
    BY <1>1 DEF IssueNear, Functions
  <2>2. ASSUME NEW p \in Ops, p # o PROVE OpAt(p)'
    BY <1>1, <2>2 DEF IssueNear, Functions, OpAt, Has
  <2>3. /\ op'[o] = [kind |-> kind, dest |-> d] /\ loc'[o] = Ones(n) /\ rem'[o] = Ones(n)
        /\ req[o] = <<>> /\ handle[o] = NULL /\ promised[o] = "none"
    BY <1>1 DEF IssueNear, Functions, Unused, Unissued, OpAt, Has, OpInv
  <2>4. ASSUME NEW u \in Bits
        PROVE  OpInv(op'[o], loc'[o], rem'[o], req[o], handle[o], u, promised[o])
    BY <2>3, OnesSeq DEF OpInv, NULL, MaxTransfers, Bits
  <2>5. OpInv(op'[o], loc'[o], rem'[o], req[o], handle[o], Has(o)', promised[o])
    BY <2>4 DEF Has, Bits
  <2> QED
    BY <1>1, <2>1, <2>2, <2>5 DEF IssueNear, OpAt, Has
<1>2. ASSUME NEW kind \in {"put", "get"}, NEW n \in Lengths, NEW d \in Remote,
             IssuePlain(o, kind, d, n)
      PROVE  Functions' /\ \A p \in Ops : OpAt(p)'
  <2>1. Functions'
    BY <1>2 DEF IssuePlain, Functions
  <2>2. ASSUME NEW p \in Ops, p # o PROVE OpAt(p)'
    BY <1>2, <2>2 DEF IssuePlain, Functions, OpAt, Has
  <2>3. /\ op'[o] = [kind |-> kind, dest |-> d]
        /\ loc'[o] = Pending(n) /\ rem'[o] = Pending(n)
        /\ req[o] = <<>> /\ handle[o] = NULL /\ promised[o] = "none" /\ o \notin open
    BY <1>2 DEF IssuePlain, Functions, Unused, Unissued, OpAt, Has, OpInv
  <2>4. OpInv(op'[o], loc'[o], rem'[o], req[o], handle[o], 0, promised[o])
    BY <2>3, PendingSeq DEF OpInv, NULL, MaxTransfers, Bits
  <2> QED
    BY <1>2, <2>1, <2>2, <2>3, <2>4 DEF IssuePlain, OpAt, Has
<1>3. ASSUME NEW kind \in {"put", "get"}, NEW n \in Lengths, NEW d \in Remote,
             IssueHandle(o, kind, d, n)
      PROVE  Functions' /\ \A p \in Ops : OpAt(p)'
  <2>1. Functions'
    BY <1>3 DEF IssueHandle, Functions
  <2>2. ASSUME NEW p \in Ops, p # o PROVE OpAt(p)'
    BY <1>3, <2>2 DEF IssueHandle, Functions, OpAt, Has
  <2> DEFINE q == [j \in 1 .. n |-> "active"]
             h == IF n = 0 THEN NULL ELSE Ones(n)
  <2>3. /\ op'[o] = [kind |-> kind, dest |-> d]
        /\ loc'[o] = Pending(n) /\ rem'[o] = Pending(n)
        /\ req'[o] = q /\ handle'[o] = h /\ promised[o] = "none" /\ o \in open'
    BY <1>3 DEF IssueHandle, Functions, Unused, Unissued, OpAt, Has, OpInv
  <2>4. q \in Seq(ReqStates) /\ Len(q) = n /\ DOMAIN q = 1 .. n /\ \A j \in 1 .. n : q[j] = "active"
    BY DEF ReqStates
  <2>5. h \in Seq(Bits) /\ Len(h) = n /\ DOMAIN h = 1 .. n /\ \A j \in 1 .. n : h[j] = 1
    BY OnesSeq DEF NULL, AllOnes
  <2>6. h = NULL <=> n = 0
    BY <2>5, EmptySeq DEF NULL
  <2> HIDE DEF q, h
  <2>7. OpInv(op'[o], loc'[o], rem'[o], q, h, 1, promised[o])
    <3>1. /\ n \in Nat /\ n <= 2 /\ Pending(n) \in Seq(Bits) /\ Len(Pending(n)) = n
          /\ DOMAIN Pending(n) = 1 .. n
      BY PendingSeq
    <3>2. h = NULL => AllOnes(Pending(n)) /\ \A j \in DOMAIN q : q[j] # "active"
      BY <3>1, <2>4, <2>6 DEF AllOnes
    <3> QED
      BY <2>3, <2>4, <2>5, <2>6, <3>1, <3>2 DEF OpInv, MaxTransfers, Bits
  <2> QED
    BY <1>3, <2>1, <2>2, <2>3, <2>7 DEF IssueHandle, OpAt, Has
<1>4. ASSUME NEW n \in Lengths, NEW d \in Remote, PutBlocking(o, d, n)
      PROVE  Functions' /\ \A p \in Ops : OpAt(p)'
  <2>1. Functions'
    BY <1>4 DEF PutBlocking, Functions, Completed
  <2>2. ASSUME NEW p \in Ops, p # o PROVE OpAt(p)'
    <3>1. CASE p \in To(d)
      <4>1. OpInv(op[p], Ones(Len(loc[p])), Ones(Len(rem[p])), req[p], handle[p],
                  Has(p), promised[p])
        <5>1. OpAt(p) /\ promised[p] \in {"none", "local", "remote"}
          BY DEF OpAt, OpInv
        <5> QED
          BY <5>1, OnesBoth DEF OpAt
      <4> QED
        BY <1>4, <2>2, <3>1, <4>1 DEF PutBlocking, Functions, Completed, OpAt, Has
    <3>2. CASE p \notin To(d)
      BY <1>4, <2>2, <3>2 DEF PutBlocking, Functions, Completed, OpAt, Has
    <3> QED
      BY <3>1, <3>2
  <2>3. /\ op'[o] = [kind |-> "put", dest |-> d] /\ loc'[o] = Ones(n) /\ rem'[o] = Ones(n)
        /\ req[o] = <<>> /\ handle[o] = NULL /\ promised'[o] = "remote" /\ o \notin open
    BY <1>4 DEF PutBlocking, Functions, Completed, Unused, Unissued, OpAt, Has, OpInv
  <2>4. OpInv(op'[o], loc'[o], rem'[o], req[o], handle[o], 0, "remote")
    BY <2>3, OnesSeq DEF OpInv, NULL, MaxTransfers, Bits
  <2> QED
    BY <1>4, <2>1, <2>2, <2>3, <2>4 DEF PutBlocking, OpAt, Has
<1>5. ASSUME NEW n \in Lengths, NEW d \in Remote, GetBlocking(o, d, n)
      PROVE  Functions' /\ \A p \in Ops : OpAt(p)'
  <2>1. Functions'
    BY <1>5 DEF GetBlocking, Functions
  <2>2. ASSUME NEW p \in Ops, p # o PROVE OpAt(p)'
    BY <1>5, <2>2 DEF GetBlocking, Functions, OpAt, Has
  <2>3. /\ op'[o] = [kind |-> "get", dest |-> d] /\ loc'[o] = Ones(n) /\ rem'[o] = Ones(n)
        /\ req[o] = <<>> /\ handle[o] = NULL /\ promised'[o] = "remote" /\ o \notin open
    BY <1>5 DEF GetBlocking, Functions, Unused, Unissued, OpAt, Has, OpInv
  <2>4. OpInv(op'[o], loc'[o], rem'[o], req[o], handle[o], 0, "remote")
    BY <2>3, OnesSeq DEF OpInv, NULL, MaxTransfers, Bits
  <2> QED
    BY <1>5, <2>1, <2>2, <2>3, <2>4 DEF GetBlocking, OpAt, Has
<1> QED
  BY <1>1, <1>2, <1>3, <1>4, <1>5 DEF Issue, IssueBlocking

(* A flush completes both ends of the operations in S and promises so.     *)
LEMMA StepFlush ==
  ASSUME Functions, \A o \in Ops : OpAt(o), NEW S \in SUBSET Ops, FlushSet(S)
  PROVE  Functions' /\ \A p \in Ops : OpAt(p)'
<1>1. Functions'
  BY DEF FlushSet, Functions, Completed, Promise
<1>2. ASSUME NEW p \in Ops PROVE OpAt(p)'
  <2>1. OpAt(p) /\ promised[p] \in {"none", "local", "remote"}
    BY DEF OpAt, OpInv
  <2>2. Has(p)' = Has(p)
    BY DEF FlushSet, Has
  <2>3. CASE p \in S
    <3>1. promised'[p] \in {promised[p], "remote"} /\ (op[p].kind = "none" => promised'[p] = promised[p])
      BY <2>1, <2>3 DEF FlushSet, Promise, OpAt, OpInv
    <3>2. OpInv(op[p], Ones(Len(loc[p])), Ones(Len(rem[p])), req[p], handle[p], Has(p), promised'[p])
      BY <2>1, <3>1, OnesBoth DEF OpAt
    <3> QED
      BY <2>2, <2>3, <3>2 DEF FlushSet, Completed, OpAt
  <2>4. CASE p \notin S
    BY <2>1, <2>2, <2>4 DEF FlushSet, Completed, Promise, OpAt
  <2> QED
    BY <2>3, <2>4
<1> QED
  BY <1>1, <1>2

(* A local flush completes the origin side, of a get both sides.           *)
LEMMA StepFlushLocal ==
  ASSUME Functions, \A o \in Ops : OpAt(o), NEW S \in SUBSET Ops, FlushLocalSet(S)
  PROVE  Functions' /\ \A p \in Ops : OpAt(p)'
<1>1. Functions'
  BY DEF FlushLocalSet, Functions, Completed, Promise, PromiseLocal
<1>2. ASSUME NEW p \in Ops PROVE OpAt(p)'
  <2>1. OpAt(p) /\ promised[p] \in {"none", "local", "remote"}
    BY DEF OpAt, OpInv
  <2>2. Has(p)' = Has(p)
    BY DEF FlushLocalSet, Has
  <2>3. /\ promised'[p] \in {promised[p], "local"}
        /\ op[p].kind = "none" => promised'[p] = promised[p]
        /\ promised[p] = "remote" => promised'[p] = promised[p]
        /\ p \notin S => promised'[p] = promised[p]
    BY <2>1 DEF FlushLocalSet, PromiseLocal, Promise, OpAt, OpInv
  <2>4. CASE p \in S /\ op[p].kind = "get"
    <3>1. OpInv(op[p], Ones(Len(loc[p])), Ones(Len(rem[p])), req[p], handle[p], Has(p), promised'[p])
      BY <2>1, <2>3, OnesBoth DEF OpAt
    <3> QED
      BY <2>2, <2>4, <3>1 DEF FlushLocalSet, Completed, Gets, OpAt
  <2>5. CASE p \in S /\ op[p].kind # "get"
    <3>1. OpInv(op[p], Ones(Len(loc[p])), rem[p], req[p], handle[p], Has(p), promised'[p])
      BY <2>1, <2>3, <2>5, OnesLocal DEF OpAt
    <3> QED
      BY <2>2, <2>5, <3>1 DEF FlushLocalSet, Completed, Gets, OpAt
  <2>6. CASE p \notin S
    BY <2>1, <2>2, <2>3, <2>6 DEF FlushLocalSet, Completed, Gets, OpAt
  <2> QED
    BY <2>4, <2>5, <2>6
<1> QED
  BY <1>1, <1>2

(* The requests of a handle that a wait has freed.                         *)
LEMMA FreedRequestsSeq ==
  ASSUME Functions, \A o \in Ops : OpAt(o), NEW S \in SUBSET open, NEW p \in S
  PROVE  /\ FreedRequests(S)[p] \in Seq(ReqStates)
         /\ \A j \in DOMAIN FreedRequests(S)[p] : FreedRequests(S)[p][j] # "active"
<1>1. p \in Ops /\ OpAt(p)
  BY DEF Functions
<1>2. CASE handle[p] = NULL
  BY <1>1, <1>2 DEF FreedRequests, Live, OpAt, OpInv
<1>3. CASE handle[p] # NULL
  <2>1. FreedRequests(S)[p] = [j \in DOMAIN req[p] |-> "freed"]
    BY <1>1, <1>3 DEF FreedRequests, Live
  <2>2. req[p] \in Seq(ReqStates)
    BY <1>1 DEF OpAt, OpInv
  <2>3. DOMAIN req[p] = 1 .. Len(req[p]) /\ Len(req[p]) \in Nat
    BY <2>2, SeqFacts
  <2> QED
    BY <2>1, <2>3 DEF ReqStates
<1> QED
  BY <1>2, <1>3

(* A local wait completes the origin side of its live handles; its null    *)
(* handles were complete before.                                           *)
LEMMA StepWaitallLocal ==
  ASSUME Functions, \A o \in Ops : OpAt(o), NEW S \in SUBSET open, dart_waitall_local(S)
  PROVE  Functions' /\ \A p \in Ops : OpAt(p)'
<1>1. Functions'
  BY DEF dart_waitall_local, Functions, WaitedLoc, WaitedRem, Completed, FreedRequests,
     FreeHandles, Promise, PromiseLocal
<1>2. ASSUME NEW p \in Ops PROVE OpAt(p)'
  <2>1. OpAt(p) /\ promised[p] \in {"none", "local", "remote"}
    BY DEF OpAt, OpInv
  <2>2. /\ promised'[p] \in {promised[p], "local"}
        /\ op[p].kind = "none" => promised'[p] = promised[p]
        /\ promised[p] = "remote" => promised'[p] = promised[p]
        /\ p \notin S => promised'[p] = promised[p]
    BY <2>1 DEF dart_waitall_local, PromiseLocal, Promise, OpAt, OpInv
  <2>3. CASE p \notin S
    <3>1. Has(p)' = Has(p)
      BY <2>3 DEF dart_waitall_local, FreeHandles, Has
    <3> QED
      BY <2>1, <2>2, <2>3, <3>1 DEF dart_waitall_local, WaitedLoc, WaitedRem, Completed,
         FreedRequests, FreeHandles, Live, OpAt
  <2>4. CASE p \in S
    <3>1. Has(p)' = 0 /\ handle'[p] = NULL /\ op' = op /\ op[p].kind # "none"
      BY <2>1, <2>4 DEF dart_waitall_local, FreeHandles, Has, OpAt, OpInv
    <3>2. OpInv(op[p], loc'[p], rem'[p], req[p], handle[p], Has(p), promised'[p])
      <4>1. CASE handle[p] = NULL
        <5>1. loc'[p] = loc[p] /\ rem'[p] = rem[p]
          BY <4>1 DEF dart_waitall_local, WaitedLoc, WaitedRem, Completed, Live
        <5>2. AllOnes(loc[p]) /\ AllOnes(rem[p])
          BY <2>1, <2>4, <4>1 DEF OpAt, OpInv, Has
        <5> QED
          BY <2>1, <2>2, <3>1, <5>1, <5>2, Promised DEF OpAt
      <4>2. CASE handle[p] # NULL /\ op[p].kind = "get"
        <5>1. loc'[p] = Ones(Len(loc[p])) /\ rem'[p] = Ones(Len(rem[p]))
          BY <2>4, <4>2 DEF dart_waitall_local, WaitedLoc, WaitedRem, Completed, Live, Gets
        <5> QED
          BY <2>1, <2>2, <5>1, OnesBoth DEF OpAt
      <4>3. CASE handle[p] # NULL /\ op[p].kind # "get"
        <5>1. loc'[p] = Ones(Len(loc[p])) /\ rem'[p] = rem[p]
          BY <2>4, <4>3 DEF dart_waitall_local, WaitedLoc, WaitedRem, Completed, Live, Gets
        <5> QED
          BY <2>1, <2>2, <4>3, <5>1, OnesLocal DEF OpAt
      <4> QED
        BY <4>1, <4>2, <4>3
    <3>3. /\ req'[p] \in Seq(ReqStates)
          /\ \A j \in DOMAIN req'[p] : req'[p][j] # "active"
      BY <2>4, FreedRequestsSeq DEF dart_waitall_local
    <3> QED
      BY <3>1, <3>2, <3>3, Freed DEF OpAt
  <2> QED
    BY <2>3, <2>4
<1> QED
  BY <1>1, <1>2

(* A wait completes both ends of its puts with a flush of their targets.   *)
LEMMA StepWaitall ==
  ASSUME Functions, \A o \in Ops : OpAt(o), NEW S \in SUBSET open, dart_waitall(S)
  PROVE  Functions' /\ \A p \in Ops : OpAt(p)'
<1>1. Functions'
  BY DEF dart_waitall, Functions, WaitedLoc, WaitedRem, Completed, FreedRequests,
     FreeHandles, Promise
<1>2. ASSUME NEW p \in Ops PROVE OpAt(p)'
  <2>1. /\ OpAt(p) /\ promised[p] \in {"none", "local", "remote"}
        /\ loc[p] \in Seq(Bits) /\ rem[p] \in Seq(Bits)
    BY DEF OpAt, OpInv
  <2>2. /\ promised'[p] \in {promised[p], "remote"}
        /\ op[p].kind = "none" => promised'[p] = promised[p]
        /\ p \notin S => promised'[p] = promised[p]
    BY <2>1 DEF dart_waitall, Promise, OpAt, OpInv
  <2>3. CASE p \notin S
    <3>1. Has(p)' = Has(p) /\ req'[p] = req[p] /\ handle'[p] = handle[p] /\ op' = op
      BY <2>3 DEF dart_waitall, FreeHandles, FreedRequests, Live, Has
    <3>2. OpInv(op[p], Ones(Len(loc[p])), Ones(Len(rem[p])), req[p], handle[p], Has(p), promised'[p])
      BY <2>1, <2>2, OnesBoth DEF OpAt
    <3>3. \/ loc'[p] = loc[p] /\ rem'[p] = rem[p]
          \/ loc'[p] = Ones(Len(loc[p])) /\ rem'[p] = Ones(Len(rem[p]))
      BY <2>3 DEF dart_waitall, WaitedLoc, WaitedRem, Completed, Live
    <3> QED
      BY <2>1, <2>2, <2>3, <3>1, <3>2, <3>3 DEF OpAt
  <2>4. CASE p \in S
    <3>1. Has(p)' = 0 /\ handle'[p] = NULL /\ op' = op /\ op[p].kind \in {"put", "get"}
      BY <2>1, <2>4 DEF dart_waitall, FreeHandles, Has, OpAt, OpInv
    <3>2. AllOnes(loc[p]) => Ones(Len(loc[p])) = loc[p]
      BY <2>1, OnesEq
    <3>3. AllOnes(rem[p]) => Ones(Len(rem[p])) = rem[p]
      BY <2>1, OnesEq
    <3>4. Len(Ones(Len(loc[p]))) = Len(loc[p]) /\ Len(Ones(Len(rem[p]))) = Len(rem[p])
      BY <2>1, OnesSeq, SeqFacts
    <3>5. loc'[p] = Ones(Len(loc[p])) /\ rem'[p] = Ones(Len(rem[p]))
      <4>1. CASE handle[p] = NULL
        <5>1. AllOnes(loc[p]) /\ AllOnes(rem[p])
          BY <2>1, <2>4, <4>1 DEF OpAt, OpInv, Has
        <5> QED
          BY <3>2, <3>3, <4>1, <5>1 DEF dart_waitall, WaitedLoc, WaitedRem, Completed, Live
      <4>2. CASE handle[p] # NULL /\ op[p].kind = "get"
        BY <2>4, <3>4, <4>2 DEF dart_waitall, WaitedLoc, WaitedRem, Completed, Live, Gets
      <4>3. CASE handle[p] # NULL /\ op[p].kind = "put"
        <5>1. p \in FlushedFor(S)
          BY <2>4, <4>3 DEF FlushedFor, needs_flush, Live, To
        <5> QED
          BY <2>4, <3>4, <4>3, <5>1 DEF dart_waitall, WaitedLoc, WaitedRem, Completed, Live, Gets
      <4> QED
        BY <3>1, <4>1, <4>2, <4>3
    <3>6. OpInv(op[p], loc'[p], rem'[p], req[p], handle[p], Has(p), promised'[p])
      BY <2>1, <2>2, <3>5, OnesBoth DEF OpAt
    <3>7. /\ req'[p] \in Seq(ReqStates)
          /\ \A j \in DOMAIN req'[p] : req'[p][j] # "active"
      BY <2>4, FreedRequestsSeq DEF dart_waitall
    <3> QED
      BY <3>1, <3>6, <3>7, Freed DEF OpAt
  <2> QED
    BY <2>3, <2>4
<1> QED
  BY <1>1, <1>2

(* An unsuccessful test frees the complete requests and clears them in the *)
(* handle.                                                                 *)
LEMMA StepTestFailed ==
  ASSUME Functions, \A o \in Ops : OpAt(o), NEW o \in open, dart_test_failed(o)
  PROVE  Functions' /\ \A p \in Ops : OpAt(p)'
<1>1. Functions'
  BY DEF dart_test_failed, Functions, TestedRequests
<1>2. ASSUME NEW p \in Ops, p # o PROVE OpAt(p)'
  BY <1>2 DEF dart_test_failed, Functions, TestedRequests, Live, OpAt, Has
<1>3. OpAt(o)'
  <2>1. o \in Ops /\ OpAt(o)
    BY DEF Functions
  <2>2. Has(o)' = Has(o) /\ op' = op /\ loc' = loc /\ rem' = rem /\ promised' = promised
    BY DEF dart_test_failed, Has
  <2>3. handle[o] # NULL
    BY DEF dart_test_failed, AllDone, Live
  <2>4. /\ handle[o] \in Seq(Bits) /\ req[o] \in Seq(ReqStates) /\ Len(handle[o]) = Len(req[o])
        /\ Len(loc[o]) = Len(req[o]) /\ loc[o] \in Seq(Bits)
    BY <2>1, <2>3 DEF OpAt, OpInv
  <2>5. /\ DOMAIN handle[o] = 1 .. Len(req[o]) /\ DOMAIN req[o] = 1 .. Len(req[o])
        /\ DOMAIN loc[o] = 1 .. Len(req[o])
        /\ Len(req[o]) \in Nat /\ Len(req[o]) # 0
    BY <2>3, <2>4, SeqFacts, EmptySeq DEF NULL
  <2> DEFINE h == [j \in 1 .. Len(req[o]) |-> IF loc[o][j] = 1 THEN 0 ELSE handle[o][j]]
             q == [j \in 1 .. Len(req[o]) |->
                     IF handle[o][j] = 1 /\ loc[o][j] = 1 THEN "freed" ELSE req[o][j]]
  <2>6. handle'[o] = h
    BY <2>1, <2>5 DEF dart_test_failed, Functions
  <2>7. req'[o] = q
    BY <2>1, <2>3, <2>5 DEF dart_test_failed, TestedRequests, Live, Named
  <2>8. /\ h \in Seq(Bits) /\ Len(h) = Len(req[o]) /\ DOMAIN h = 1 .. Len(req[o]) /\ h # NULL
        /\ q \in Seq(ReqStates) /\ Len(q) = Len(req[o]) /\ DOMAIN q = 1 .. Len(req[o])
    BY <2>4, <2>5 DEF Bits, ReqStates, NULL
  <2>9. \A j \in 1 .. Len(req[o]) :
          /\ h[j] = 0 => loc[o][j] = 1
          /\ q[j] = "freed" <=> h[j] = 0
    BY <2>1, <2>3, <2>4, <2>5 DEF OpAt, OpInv, Bits
  <2> HIDE DEF h, q
  <2>10. OpInv(op[o], loc[o], rem[o], q, h, Has(o), promised[o])
    BY <2>1, <2>3, <2>4, <2>8, <2>9 DEF OpAt, OpInv
  <2> QED
    BY <2>2, <2>6, <2>7, <2>10 DEF OpAt
<1> QED
  BY <1>1, <1>2, <1>3

(* An unsuccessful dart_testall leaves the handles as they are.            *)
LEMMA StepTestallFailed ==
  ASSUME Functions, \A o \in Ops : OpAt(o), NEW S \in SUBSET open, dart_testall_failed(S)
  PROVE  Functions' /\ \A p \in Ops : OpAt(p)'
<1>1. Functions'
  BY DEF dart_testall_failed, Functions, TestedRequests
<1>2. ASSUME NEW p \in Ops PROVE OpAt(p)'
  <2>1. OpAt(p) /\ Has(p)' = Has(p)
    BY DEF dart_testall_failed, Has
  <2>2. CASE p \notin Live(S)
    BY <2>1, <2>2 DEF dart_testall_failed, TestedRequests, OpAt
  <2>3. CASE p \in Live(S)
    <3>1. handle[p] # NULL
      BY <2>3 DEF Live
    <3>2. handle[p] \in Seq(Bits) /\ req[p] \in Seq(ReqStates) /\ Len(handle[p]) = Len(req[p])
      BY <2>1, <3>1 DEF OpAt, OpInv
    <3>3. /\ DOMAIN handle[p] = 1 .. Len(req[p]) /\ DOMAIN req[p] = 1 .. Len(req[p])
          /\ Len(req[p]) \in Nat
      BY <3>2, SeqFacts
    <3> DEFINE q == [j \in 1 .. Len(req[p]) |->
                       IF handle[p][j] = 1 /\ loc[p][j] = 1 THEN "dangling" ELSE req[p][j]]
    <3>4. req'[p] = q
      BY <2>3, <3>3 DEF dart_testall_failed, TestedRequests, Named
    <3>5. q \in Seq(ReqStates) /\ Len(q) = Len(req[p]) /\ DOMAIN q = 1 .. Len(req[p])
      BY <3>2, <3>3 DEF ReqStates
    <3>6. \A j \in 1 .. Len(req[p]) : q[j] = "freed" <=> handle[p][j] = 0
      BY <2>1, <3>1, <3>3 DEF OpAt, OpInv
    <3> HIDE DEF q
    <3>7. OpInv(op[p], loc[p], rem[p], q, handle[p], Has(p), promised[p])
      BY <2>1, <3>1, <3>3, <3>5, <3>6 DEF OpAt, OpInv
    <3> QED
      BY <2>1, <3>4, <3>7 DEF dart_testall_failed, OpAt
  <2> QED
    BY <2>2, <2>3
<1> QED
  BY <1>1, <1>2

(* dart_handle_free turns the active requests of a handle into leaked ones.*)
LEMMA StepHandleFree ==
  ASSUME Functions, \A o \in Ops : OpAt(o), NEW o \in Ops, dart_handle_free(o)
  PROVE  Functions' /\ \A p \in Ops : OpAt(p)'
<1>1. Functions'
  BY DEF dart_handle_free, FreeHandles, Functions
<1>2. ASSUME NEW p \in Ops, p # o PROVE OpAt(p)'
  BY <1>2 DEF dart_handle_free, FreeHandles, Functions, OpAt, Has
<1>3. OpAt(o)'
  <2>1. OpAt(o) /\ Has(o) = 1
    BY DEF dart_handle_free, Has
  <2>2. op[o].kind # "none" /\ req[o] \in Seq(ReqStates)
    BY <2>1 DEF OpAt, OpInv
  <2>3. DOMAIN req[o] = 1 .. Len(req[o]) /\ Len(req[o]) \in Nat
    BY <2>2, SeqFacts
  <2> DEFINE q == [j \in DOMAIN req[o] |-> IF req[o][j] = "active" THEN "leaked" ELSE req[o][j]]
  <2>4. q \in Seq(ReqStates) /\ \A j \in DOMAIN q : q[j] # "active"
    BY <2>2, <2>3 DEF ReqStates
  <2>5. req'[o] = q
    BY DEF dart_handle_free, Functions
  <2> HIDE DEF q
  <2>6. OpInv(op[o], loc[o], rem[o], q, NULL, 0, promised[o])
    BY <2>1, <2>2, <2>4, Freed DEF OpAt
  <2>7. Has(o)' = 0 /\ handle'[o] = NULL
    BY DEF dart_handle_free, FreeHandles, Has
  <2> QED
    BY <2>5, <2>6, <2>7 DEF dart_handle_free, OpAt
<1> QED
  BY <1>1, <1>2, <1>3

-----------------------------------------------------------------------------
(* The theorems *)

(* Initially no operation has been issued.                                 *)
LEMMA HandleInit == Init => TypeOK /\ HandleInv
BY DEF Init, TypeOK, HandleInv, EndsMatch, UnissuedIsFresh, HandlesAreSound,
   PromisesAreKept, RequestsAreExact, Complete, Named, Unissued, NULL, MaxTransfers

(* Every step of the caller and of MPI keeps the invariant.                *)
LEMMA HandleStep == TypeOK /\ HandleInv /\ [Next]_vars => (TypeOK /\ HandleInv)'
<1> SUFFICES ASSUME TypeOK, HandleInv, [Next]_vars PROVE (TypeOK /\ HandleInv)'
  OBVIOUS
<1>1. Functions /\ \A o \in Ops : OpAt(o)
  BY InvToOps
<1>2. open \in SUBSET Ops
  BY DEF TypeOK
<1>3. Functions' /\ \A o \in Ops : OpAt(o)'
  <2>1. ASSUME NEW o \in Ops, Issue(o) \/ IssueBlocking(o)
        PROVE  Functions' /\ \A p \in Ops : OpAt(p)'
    BY <1>1, <2>1, StepIssue
  <2>2. ASSUME NEW o \in Ops, Wait(o)
        PROVE  Functions' /\ \A p \in Ops : OpAt(p)'
    BY <1>1, <2>2, StepWaitall, StepWaitallLocal DEF Wait, dart_wait, dart_wait_local
  <2>3. ASSUME NEW o \in Ops, Test(o)
        PROVE  Functions' /\ \A p \in Ops : OpAt(p)'
    BY <1>1, <2>3, StepWaitall, StepWaitallLocal, StepTestFailed
       DEF Test, dart_testall_done, dart_testall_local_done
  <2>4. ASSUME NEW o \in Ops, dart_handle_free(o)
        PROVE  Functions' /\ \A p \in Ops : OpAt(p)'
    BY <1>1, <2>4, StepHandleFree
  <2>5. ASSUME Flush PROVE Functions' /\ \A p \in Ops : OpAt(p)'
    BY <1>1, <2>5, StepFlush, StepFlushLocal
       DEF Flush, dart_flush, dart_flush_all, dart_flush_local, dart_flush_local_all, To
  <2>6. ASSUME All PROVE Functions' /\ \A p \in Ops : OpAt(p)'
    BY <1>1, <2>6, StepWaitall, StepWaitallLocal, StepTestallFailed
       DEF All, Arrays, dart_testall_done, dart_testall_local_done
  <2>7. ASSUME Progress PROVE Functions' /\ \A p \in Ops : OpAt(p)'
    BY <1>1, <2>7, StepProgress DEF Progress
  <2>8. CASE UNCHANGED vars
    BY <1>1, <2>8 DEF vars, Functions, OpAt, Has
  <2> QED
    BY <2>1, <2>2, <2>3, <2>4, <2>5, <2>6, <2>7, <2>8 DEF Next
<1> QED
  BY <1>3, OpsToInv

(* Every reachable state has the declared types.                           *)
THEOREM HandlesTypeInvariant == Spec => []TypeOK
BY HandleInit, HandleStep, PTL DEF Spec

(* What a returned call promised about an operation holds from then on.    *)
THEOREM PromisesKept == Spec => []PromisesAreKept
<1>1. Spec => [](TypeOK /\ HandleInv)
  BY HandleInit, HandleStep, PTL DEF Spec
<1>2. HandleInv => PromisesAreKept
  BY DEF HandleInv
<1> QED
  BY <1>1, <1>2, PTL

(* No request outlives its handle, and no call passes MPI a freed one.     *)
THEOREM RequestsExact == Spec => []RequestsAreExact
<1>1. Spec => [](TypeOK /\ HandleInv)
  BY HandleInit, HandleStep, PTL DEF Spec
<1>2. HandleInv => RequestsAreExact
  BY DEF HandleInv
<1> QED
  BY <1>1, <1>2, PTL

(* Where a failed test has no effect, which is every build but the ones    *)
(* for MPICH up to 3.2.1, no handle ever names a request that MPI freed.   *)
THEOREM NoDangling == ~TestsOneByOne => (Spec => []NoDanglingRequest)
<1> DEFINE NoneDangles == \A o \in Ops : \A j \in DOMAIN req[o] : req[o][j] # "dangling"
           Inv == TypeOK /\ HandleInv /\ NoneDangles
<1> SUFFICES ASSUME ~TestsOneByOne PROVE Spec => []NoDanglingRequest
  OBVIOUS
<1>1. Init => Inv
  BY HandleInit DEF Init
<1>2. Inv /\ [Next]_vars => Inv'
  <2> SUFFICES ASSUME TypeOK, HandleInv, NoneDangles, [Next]_vars PROVE NoneDangles'
    BY HandleStep
  <2>1. \/ req' = req
        \/ \E o \in Ops, n \in Lengths : req' = [req EXCEPT ![o] = [j \in 1 .. n |-> "active"]]
        \/ \E S \in SUBSET Ops : req' = FreedRequests(S)
        \/ \E o \in Ops : dart_handle_free(o)
    <3>1. ASSUME NEW o \in Ops, Issue(o) \/ IssueBlocking(o)
          PROVE  \/ req' = req
                 \/ \E n \in Lengths : req' = [req EXCEPT ![o] = [j \in 1 .. n |-> "active"]]
      BY <3>1 DEF Issue, IssueBlocking, IssueNear, IssuePlain, IssueHandle, PutBlocking,
         GetBlocking
    <3>2. ASSUME NEW o \in Ops, Wait(o) \/ Test(o)
          PROVE  req' = FreedRequests({o})
      BY <3>2 DEF Wait, Test, dart_wait, dart_wait_local, dart_waitall, dart_waitall_local,
         dart_testall_done, dart_testall_local_done, dart_test_failed
    <3>3. ASSUME All PROVE \E S \in SUBSET Ops : req' = FreedRequests(S)
      <4>1. PICK S \in Arrays : dart_waitall(S) \/ dart_waitall_local(S) \/ dart_testall_done(S)
                                  \/ dart_testall_local_done(S) \/ dart_testall_failed(S)
        BY <3>3 DEF All
      <4>2. S \in SUBSET Ops
        BY DEF Arrays, TypeOK
      <4> QED
        BY <4>1, <4>2 DEF dart_waitall, dart_waitall_local, dart_testall_done,
           dart_testall_local_done, dart_testall_failed
    <3>4. ASSUME Flush \/ Progress PROVE req' = req
      BY <3>4 DEF Flush, dart_flush, dart_flush_all, dart_flush_local, dart_flush_local_all,
         FlushSet, FlushLocalSet, Progress, LocalProgress, RemoteProgress
    <3>5. CASE UNCHANGED vars
      BY <3>5 DEF vars
    <3> QED
      BY <3>1, <3>2, <3>3, <3>4, <3>5 DEF Next
  <2>2. req = [p \in Ops |-> req[p]]
    BY DEF TypeOK
  <2>3. ASSUME NEW o \in Ops, NEW n \in Lengths,
               req' = [req EXCEPT ![o] = [j \in 1 .. n |-> "active"]]
        PROVE  NoneDangles'
    BY <2>2, <2>3
  <2>4. ASSUME NEW S \in SUBSET Ops, req' = FreedRequests(S) PROVE NoneDangles'
    BY <2>4 DEF FreedRequests
  <2>5. ASSUME NEW o \in Ops, dart_handle_free(o) PROVE NoneDangles'
    BY <2>2, <2>5 DEF dart_handle_free
  <2> QED
    BY <2>1, <2>3, <2>4, <2>5
<1>3. Inv => NoDanglingRequest
  <2> SUFFICES ASSUME Inv, NEW o \in Ops, NEW j \in Named(o)
               PROVE  req[o][j] \notin {"freed", "dangling"}
    BY DEF NoDanglingRequest
  <2>1. handle[o] # NULL
    BY DEF Named, NULL
  <2>2. j \in DOMAIN req[o]
    BY <2>1 DEF Named, HandleInv, HandlesAreSound, TypeOK
  <2> QED
    BY <2>2 DEF HandleInv, RequestsAreExact
<1> QED
  BY <1>1, <1>2, <1>3, PTL DEF Spec
=============================================================================
