------------------------ MODULE DartLockQueue_proofs ------------------------
(***************************************************************************)
(* The safety half of the refinement of FairLock by the team lock, for any *)
(* number of units, threads and locks.                                     *)
(*                                                                         *)
(* Argument.  The queue is chosen as an arrangement of the actors that are *)
(* in it, so one has to know that there is one and that there is no other. *)
(* That there is no other follows from QueueInv, by which nobody has two   *)
(* successors (LineUnique, the only induction).  That there is one is the  *)
(* invariant LineInv: the queue is a line that ends at the tail.  The swap *)
(* of the tail and a successful try append to the line; the compare and    *)
(* swap of a release and its message remove the head, which is the actor   *)
(* with the token; every other step leaves the line alone, also those on   *)
(* other locks, as a message in flight has one possible receiver.          *)
(***************************************************************************)
EXTENDS DartLockQueue, DartLock_proofs, FiniteSetTheorems, WellFoundedInduction

-----------------------------------------------------------------------------
(* Sequences in order                                                      *)

(* q lists S, each member once.                                            *)
Lists(q, S) ==
  /\ q \in Seq(S)
  /\ \A a \in S : \E i \in 1 .. Len(q) : q[i] = a
  /\ \A i, j \in 1 .. Len(q) : q[i] = q[j] => i = j

(* ... in the order of R.                                                  *)
Line(q, S, R) ==
  /\ Lists(q, S)
  /\ \A i \in 1 .. Len(q) - 1 : <<q[i], q[i + 1]>> \in R
  /\ \A a \in S : Len(q) > 0 => <<a, q[1]>> \notin R

(* Nobody has two successors.                                              *)
Single(S, R) == \A a, b, c \in S : <<a, b>> \in R /\ <<a, c>> \in R => b = c

(* A set of natural numbers has a least element.                           *)
LEMMA Least ==
  ASSUME NEW S \in SUBSET Nat, S # {}
  PROVE  \E x \in S : \A y \in S : x <= y
<1> DEFINE R == OpToRel(<, Nat)
<1>1. \A x, y \in Nat : <<y, x>> \in R <=> y < x
  BY DEF OpToRel
<1>2. IsWellFoundedOn(R, Nat)
  BY NatLessThanWellFounded
<1> HIDE DEF R
<1>3. PICK x \in S : \A y \in S : ~ (<<y, x>> \in R)
  BY <1>2, WFMin
<1>4. \A y \in S : ~ (y < x)
  BY <1>1, <1>3
<1> QED
  BY <1>4

(* The places of a sequence.                                               *)
LEMMA Interval ==
  ASSUME NEW n \in Nat
  PROVE  IsFiniteSet(1 .. n) /\ Cardinality(1 .. n) = n
BY FS_Interval

(* A list of S is a bijection, so S has as many members as it is long.     *)
LEMMA ListLength ==
  ASSUME NEW S, NEW q, Lists(q, S)
  PROVE  /\ Cardinality(S) = Len(q) /\ IsFiniteSet(S)
         /\ Len(q) \in Nat /\ q \in Seq(S) /\ q \in [1 .. Len(q) -> S]
<1>1. q \in Seq(S) /\ Len(q) \in Nat /\ q \in [1 .. Len(q) -> S]
  BY DEF Lists
<1>2. IsFiniteSet(1 .. Len(q)) /\ Cardinality(1 .. Len(q)) = Len(q)
  BY <1>1, Interval
<1>3. q \in Bijection(1 .. Len(q), S)
  BY <1>1 DEF Lists, Bijection, Injection, Surjection, IsInjective
<1>4. ExistsBijection(1 .. Len(q), S)
  BY <1>3 DEF ExistsBijection
<1> QED
  BY <1>1, <1>2, <1>4, FS_Bijection

(* There is one line at most: the heads are the same, and so is whoever    *)
(* comes after the same place of both.                                     *)
LEMMA LineUnique ==
  ASSUME NEW S, NEW R, Single(S, R), NEW q, NEW r, Line(q, S, R), Line(r, S, R)
  PROVE  q = r
<1>1. /\ q \in Seq(S) /\ r \in Seq(S) /\ Len(q) \in Nat
      /\ q \in [1 .. Len(q) -> S] /\ r \in [1 .. Len(r) -> S] /\ Len(q) = Len(r)
  <2>1. Lists(q, S) /\ Lists(r, S)
    BY DEF Line
  <2>2. /\ Cardinality(S) = Len(q) /\ Len(q) \in Nat /\ q \in Seq(S)
        /\ q \in [1 .. Len(q) -> S]
    BY <2>1, ListLength
  <2>3. Cardinality(S) = Len(r) /\ r \in Seq(S) /\ r \in [1 .. Len(r) -> S]
    BY <2>1, ListLength
  <2> QED
    BY <2>2, <2>3
<1> DEFINE D == {i \in 1 .. Len(q) : q[i] # r[i]}
<1>2. CASE D = {}
  BY <1>1, <1>2
<1>3. CASE D # {}
  <2>1. PICK i \in D : \A j \in D : i <= j
    <3>1. D \in SUBSET Nat
      BY <1>1
    <3> HIDE DEF D
    <3> QED
      BY <1>3, <3>1, Least
  <2>2. i \in 1 .. Len(q) /\ q[i] # r[i] /\ q[i] \in S /\ r[i] \in S
    BY <1>1, <2>1
  <2>3. i = 1
    <3> SUFFICES ASSUME i # 1 PROVE FALSE
      OBVIOUS
    <3>1. i - 1 \in 1 .. Len(q) - 1 /\ i - 1 \in 1 .. Len(q)
      BY <1>1, <2>2
    <3>2. i - 1 \notin D
      BY <2>1, <2>2, <3>1
    <3>3. q[i - 1] = r[i - 1] /\ q[i - 1] \in S
      BY <1>1, <3>1, <3>2
    <3>4. <<q[i - 1], q[i - 1 + 1]>> \in R /\ <<r[i - 1], r[i - 1 + 1]>> \in R
      BY <1>1, <3>1 DEF Line
    <3>5. <<q[i - 1], q[i]>> \in R /\ <<r[i - 1], r[i]>> \in R
      BY <2>2, <3>4
    <3> QED
      BY <2>2, <3>3, <3>5 DEF Single
  <2>4. PICK k \in 1 .. Len(q) : q[k] = r[1]
    BY <1>1, <2>2, <2>3 DEF Line, Lists
  <2>5. k # 1 /\ k - 1 \in 1 .. Len(q) - 1 /\ k - 1 \in 1 .. Len(q)
    BY <1>1, <2>2, <2>3, <2>4
  <2>6. <<q[k - 1], q[k - 1 + 1]>> \in R /\ q[k - 1] \in S
    BY <1>1, <2>5 DEF Line
  <2>7. <<q[k - 1], r[1]>> \in R
    BY <2>4, <2>6
  <2> QED
    BY <1>1, <2>2, <2>6, <2>7 DEF Line
<1> QED
  BY <1>2, <1>3

(* A line is what Ordered chooses.                                         *)
LEMMA LineIsOrdered ==
  ASSUME NEW S, NEW R, Single(S, R), NEW q, Line(q, S, R)
  PROVE  Ordered(S, R) = q
<1> DEFINE orders == {p \in [1 .. Cardinality(S) -> S] : InOrder(p, S, R)}
<1>1. /\ q \in [1 .. Len(q) -> S] /\ Cardinality(S) = Len(q) /\ Len(q) \in Nat
      /\ IsFiniteSet(S)
  BY ListLength DEF Line
<1>2. q \in orders
  BY <1>1 DEF Line, Lists, InOrder
<1>3. ASSUME NEW p \in orders PROVE p = q
  <2>1. p \in [1 .. Len(q) -> S] /\ InOrder(p, S, R)
    BY <1>1
  <2>2. p \in Seq(S) /\ Len(p) = Len(q)
    BY <1>1, <2>1
  <2>3. \A i, j \in 1 .. Len(p) : p[i] = p[j] => i = j
    BY <1>1, <2>1, <2>2 DEF InOrder
  <2>4. \A a \in S : \E i \in 1 .. Len(p) : p[i] = a
    <3> DEFINE D == 1 .. Len(q)
    <3>1. Cardinality(D) = Len(q)
      BY <1>1, Interval
    <3>2. p \in Injection(D, S)
      BY <1>1, <2>1, <2>2, <2>3 DEF Injection, IsInjective
    <3>3. p \in Surjection(D, S)
      <4> HIDE DEF D
      <4> QED
        BY <1>1, <3>1, <3>2, FS_Injection
    <3> QED
      BY <1>1, <2>2, <3>3 DEF Surjection
  <2>5. Line(p, S, R)
    <3>1. Lists(p, S)
      BY <2>2, <2>3, <2>4 DEF Lists
    <3>2. \A i \in 1 .. Len(p) - 1 : <<p[i], p[i + 1]>> \in R
      BY <1>1, <2>1, <2>2 DEF InOrder
    <3>3. \A a \in S : Len(p) > 0 => <<a, p[1]>> \notin R
      BY <1>1, <2>1, <2>2 DEF InOrder
    <3> QED
      BY <3>1, <3>2, <3>3 DEF Line
  <2> QED
    BY <2>5, LineUnique
<1> HIDE DEF orders
<1>4. Ordered(S, R) = IF orders = {} THEN <<>> ELSE CHOOSE p \in orders : TRUE
  BY DEF Ordered, orders
<1> QED
  BY <1>2, <1>3, <1>4

(* Somebody joins at the end: behind the last, with nobody behind it.      *)
LEMMA LineAppend ==
  ASSUME NEW S, NEW R, NEW R2, NEW q, NEW a, Line(q, S, R), a \notin S,
         \A b, c \in S : <<b, c>> \in R2 <=> <<b, c>> \in R,
         Len(q) > 0 => <<q[Len(q)], a>> \in R2,
         \A b \in S \cup {a} : <<a, b>> \notin R2
  PROVE  Line(Append(q, a), S \cup {a}, R2)
<1> DEFINE T == S \cup {a}
           n == Len(q)
           r == Append(q, a)
<1>1. q \in Seq(S) /\ n \in Nat /\ \A i \in 1 .. n : q[i] \in S
  BY DEF Line, Lists
<1>2. r \in Seq(T) /\ Len(r) = n + 1 /\ r[n + 1] = a /\ \A i \in 1 .. n : r[i] = q[i]
  <2>1. q \in Seq(T) /\ a \in T
    BY <1>1
  <2> QED
    BY <1>1, <2>1
<1> HIDE DEF r, n
<1>3. \A b \in T : \E i \in 1 .. Len(r) : r[i] = b
  <2> SUFFICES ASSUME NEW b \in T PROVE \E i \in 1 .. Len(r) : r[i] = b
    OBVIOUS
  <2>1. CASE b = a
    BY <1>1, <1>2, <2>1
  <2>2. CASE b \in S
    <3>1. PICK i \in 1 .. n : q[i] = b
      BY <2>2 DEF Line, Lists, n
    <3> QED
      BY <1>1, <1>2, <3>1
  <2> QED
    BY <2>1, <2>2
<1>4. \A i, j \in 1 .. Len(r) : r[i] = r[j] => i = j
  <2>1. \A i, j \in 1 .. n : q[i] = q[j] => i = j
    BY DEF Line, Lists, n
  <2> SUFFICES ASSUME NEW i \in 1 .. n + 1, NEW j \in 1 .. n + 1, r[i] = r[j] PROVE i = j
    BY <1>2
  <2>2. i \in 1 .. n \/ i = n + 1
    BY <1>1
  <2>3. j \in 1 .. n \/ j = n + 1
    BY <1>1
  <2> QED
    BY <1>1, <1>2, <2>1, <2>2, <2>3
<1>5. \A i \in 1 .. Len(r) - 1 : <<r[i], r[i + 1]>> \in R2
  <2> SUFFICES ASSUME NEW i \in 1 .. n PROVE <<r[i], r[i + 1]>> \in R2
    BY <1>1, <1>2
  <2>1. CASE i = n
    <3>1. <<q[n], a>> \in R2
      BY <1>1, <2>1 DEF n
    <3> QED
      BY <1>1, <1>2, <2>1, <3>1
  <2>2. CASE i # n
    <3>1. i \in 1 .. n - 1 /\ i + 1 \in 1 .. n
      BY <1>1, <2>2
    <3>2. <<q[i], q[i + 1]>> \in R
      BY <3>1 DEF Line, n
    <3>3. q[i] \in S /\ q[i + 1] \in S
      BY <1>1, <3>1
    <3> QED
      BY <1>2, <3>1, <3>2, <3>3
  <2> QED
    BY <2>1, <2>2
<1>6. \A b \in T : <<b, r[1]>> \notin R2
  <2>1. CASE n = 0
    <3>1. r[1] = a /\ S = {}
      BY <1>1, <1>2, <2>1 DEF Line, Lists, n
    <3> QED
      BY <3>1
  <2>2. CASE n # 0
    <3>1. 1 \in 1 .. n /\ n > 0
      BY <1>1, <2>2
    <3>2. r[1] = q[1] /\ q[1] \in S
      BY <1>1, <1>2, <3>1
    <3>3. \A b \in S : <<b, q[1]>> \notin R
      BY <3>1 DEF Line, n
    <3> QED
      BY <3>2, <3>3
  <2> QED
    BY <2>1, <2>2
<1>7. Lists(r, T)
  BY <1>2, <1>3, <1>4 DEF Lists
<1> HIDE DEF T
<1>8. Line(r, T, R2)
  BY <1>5, <1>6, <1>7 DEF Line
<1> QED
  BY <1>8 DEF r, T

(* The head leaves: nobody is before the next one any more.                *)
LEMMA LineTail ==
  ASSUME NEW S, NEW R, NEW R2, NEW q, Line(q, S, R), Len(q) > 1,
         \A b, c \in S : <<b, c>> \in R /\ c # q[2] => <<b, c>> \in R2,
         \A b \in S : <<b, q[2]>> \notin R2
  PROVE  Line(Tail(q), S \ {q[1]}, R2)
<1> DEFINE T == S \ {q[1]}
           n == Len(q)
           r == Tail(q)
<1>1. /\ q \in Seq(S) /\ n \in Nat /\ n > 1
      /\ \A i \in 1 .. n : q[i] \in S
      /\ \A i, j \in 1 .. n : q[i] = q[j] => i = j
  BY DEF Line, Lists
<1>2. r \in Seq(S) /\ Len(r) = n - 1 /\ \A i \in 1 .. n - 1 : r[i] = q[i + 1]
  <2>1. q # <<>>
    BY <1>1
  <2> QED
    BY <1>1, <2>1
<1> HIDE DEF r, n
<1>3. \A i \in 1 .. n - 1 : r[i] \in T
  BY <1>1, <1>2
<1>4. r \in Seq(T)
  <2>1. r \in [1 .. Len(r) -> S] /\ Len(r) \in Nat
    BY <1>2
  <2>2. r \in [1 .. Len(r) -> T]
    BY <1>2, <1>3, <2>1
  <2> HIDE DEF T
  <2> QED
    BY <2>1, <2>2
<1>5. \A b \in T : \E i \in 1 .. Len(r) : r[i] = b
  <2> SUFFICES ASSUME NEW b \in T PROVE \E i \in 1 .. n - 1 : r[i] = b
    BY <1>2
  <2>1. PICK i \in 1 .. n : q[i] = b
    BY DEF Line, Lists, n
  <2>2. i - 1 \in 1 .. n - 1 /\ i - 1 + 1 = i
    BY <1>1, <2>1
  <2> QED
    BY <1>2, <2>1, <2>2
<1>6. \A i, j \in 1 .. Len(r) : r[i] = r[j] => i = j
  <2> SUFFICES ASSUME NEW i \in 1 .. n - 1, NEW j \in 1 .. n - 1, r[i] = r[j] PROVE i = j
    BY <1>2
  <2>1. i + 1 \in 1 .. n /\ j + 1 \in 1 .. n /\ q[i + 1] = q[j + 1]
    BY <1>1, <1>2
  <2> QED
    BY <1>1, <2>1
<1>7. \A i \in 1 .. Len(r) - 1 : <<r[i], r[i + 1]>> \in R2
  <2> SUFFICES ASSUME NEW i \in 1 .. n - 2 PROVE <<r[i], r[i + 1]>> \in R2
    BY <1>1, <1>2
  <2>1. /\ i + 1 \in 1 .. n - 1 /\ i + 1 \in 1 .. n /\ i + 1 + 1 \in 1 .. n
        /\ i + 1 + 1 # 2 /\ i \in 1 .. n - 1 /\ 2 \in 1 .. n
    BY <1>1
  <2>2. <<q[i + 1], q[i + 1 + 1]>> \in R
    BY <2>1 DEF Line, n
  <2>3. q[i + 1 + 1] # q[2] /\ q[i + 1] \in S /\ q[i + 1 + 1] \in S
    BY <1>1, <2>1
  <2>4. <<q[i + 1], q[i + 1 + 1]>> \in R2
    BY <2>2, <2>3
  <2> QED
    BY <1>2, <2>1, <2>4
<1>8. \A b \in T : <<b, r[1]>> \notin R2
  <2>1. r[1] = q[2]
    BY <1>1, <1>2
  <2> QED
    BY <2>1
<1>9. Lists(r, T)
  BY <1>4, <1>5, <1>6 DEF Lists
<1> HIDE DEF T
<1>10. Line(r, T, R2)
  BY <1>7, <1>8, <1>9 DEF Line
<1> QED
  BY <1>10 DEF r, T

(* Who follows nobody is the head.                                         *)
LEMMA LineHead ==
  ASSUME NEW S, NEW R, NEW q, Line(q, S, R), NEW a \in S, \A b \in S : <<b, a>> \notin R
  PROVE  Len(q) \in Nat /\ Len(q) > 0 /\ q[1] = a
<1>1. q \in Seq(S) /\ Len(q) \in Nat /\ \A i \in 1 .. Len(q) : q[i] \in S
  BY DEF Line, Lists
<1>2. PICK i \in 1 .. Len(q) : q[i] = a
  BY DEF Line, Lists
<1>3. i = 1
  <2> SUFFICES ASSUME i # 1 PROVE FALSE
    OBVIOUS
  <2>1. i - 1 \in 1 .. Len(q) - 1 /\ i - 1 \in 1 .. Len(q) /\ i - 1 + 1 = i
    BY <1>1, <1>2
  <2>2. <<q[i - 1], q[i - 1 + 1]>> \in R
    BY <2>1 DEF Line
  <2> QED
    BY <1>1, <1>2, <2>1, <2>2
<1> QED
  BY <1>1, <1>2, <1>3
-----------------------------------------------------------------------------
(* The queue of a lock                                                     *)

(* The queue of a lock is a line that ends at its tail.                    *)
EndsAtTail(q, l) == IF Len(q) = 0 THEN tail[l] = NoUnit ELSE tail[l] = Unit(q[Len(q)])

LineOK(q, l) == Line(q, Queued(l), Follows(l)) /\ EndsAtTail(q, l)

LineInv == \A l \in Locks : LineOK(QueueOf(l), l)

(* All that the proofs of DartLock established, and the line.              *)
LockInv == TypeOK /\ MutexInv /\ TokenInv /\ QueueInv /\ LineInv

(* Nobody has two successors.                                              *)
LEMMA FollowsSingle ==
  ASSUME QueueInv, NEW l \in Locks
  PROVE  Single(Queued(l), Follows(l))
<1> SUFFICES ASSUME NEW a \in Actors, NEW b \in Actors, NEW c \in Actors,
                    <<a, b>> \in Follows(l), <<a, c>> \in Follows(l)
             PROVE  b = c
  BY DEF Single, Queued
<1>1. Behind(b, l, Unit(a)) /\ Behind(c, l, Unit(a)) /\ Unit(a) \in Units
  BY ActorType DEF Follows
<1> QED
  BY <1>1 DEF QueueInv

(* The queue is any line there is.                                         *)
LEMMA LineIsQueue ==
  ASSUME QueueInv, NEW l \in Locks, NEW q, LineOK(q, l)
  PROVE  QueueOf(l) = q
BY FollowsSingle, LineIsOrdered DEF LineOK, QueueOf

(* The same after a step.                                                  *)
LEMMA LineIsQueueNext ==
  ASSUME QueueInv', NEW l \in Locks, NEW q,
         Line(q, Queued(l)', Follows(l)'),
         IF Len(q) = 0 THEN tail'[l] = NoUnit ELSE tail'[l] = Unit(q[Len(q)])
  PROVE  QueueOf(l)' = q /\ LineOK(QueueOf(l), l)'
<1>1. Single(Queued(l)', Follows(l)')
  <2> SUFFICES ASSUME NEW a \in Actors, NEW b \in Actors, NEW c \in Actors,
                      <<a, b>> \in Follows(l)', <<a, c>> \in Follows(l)'
               PROVE  b = c
    BY DEF Single, Queued
  <2>1. Behind(b, l, Unit(a))' /\ Behind(c, l, Unit(a))' /\ Unit(a) \in Units
    BY ActorType DEF Follows
  <2> QED
    BY <2>1 DEF QueueInv
<1>2. QueueOf(l)' = Ordered(Queued(l)', Follows(l)')
  BY DEF QueueOf
<1>3. QueueOf(l)' = q
  BY <1>1, <1>2, LineIsOrdered
<1> QED
  BY <1>3 DEF LineOK, EndsAtTail

(* Two actors of one unit are not both in the queue of a lock.             *)
LEMMA OneOfUnit ==
  ASSUME MutexInv, NEW l \in Locks, NEW a \in Actors, NEW b \in Actors,
         InQueue(a, l), InQueue(b, l), Unit(a) = Unit(b)
  PROVE  a = b
BY QueuedIsOwner, ActorEq

(* An actor in the queue that is behind nobody is the head.                *)
LEMMA HeadOfQueue ==
  ASSUME LineInv, NEW l \in Locks, NEW a \in Actors, InQueue(a, l),
         pc[a] \notin {"acq_link", "acq_wait"}
  PROVE  Len(QueueOf(l)) \in Nat /\ Len(QueueOf(l)) > 0 /\ QueueOf(l)[1] = a
<1>1. Line(QueueOf(l), Queued(l), Follows(l))
  BY DEF LineInv, LineOK
<1>2. a \in Queued(l)
  BY DEF Queued
<1>3. \A b \in Queued(l) : <<b, a>> \notin Follows(l)
  BY DEF Follows, Behind
<1> QED
  BY <1>1, <1>2, <1>3, LineHead

-----------------------------------------------------------------------------
(* Views of a lock                                                         *)

(* What a step must leave alone for the queue to stay, ...                 *)
SameQueue(l) ==
  /\ \A b \in Actors : InQueue(b, l)' <=> InQueue(b, l)
  /\ \A b \in Actors, p \in Units : Behind(b, l, p)' <=> Behind(b, l, p)
  /\ tail'[l] = tail[l]

(* ... and for the phase.                                                  *)
SamePhase(l) ==
  /\ (\E b \in Actors : l \in held'[b]) <=> (\E b \in Actors : l \in held[b])
  /\ (\E b \in Actors : Leaving(b, l)') <=> (\E b \in Actors : Leaving(b, l))

(* Then the queue is the same and still a line.                            *)
LEMMA QueueStays ==
  ASSUME NEW l \in Locks, SameQueue(l)
  PROVE  /\ QueueOf(l)' = QueueOf(l) /\ Queued(l)' = Queued(l)
         /\ LineOK(QueueOf(l), l) => LineOK(QueueOf(l), l)'
<1>1. Queued(l)' = Queued(l)
  BY DEF SameQueue, Queued
<1>2. Follows(l)' = Follows(l)
  <2>1. \A ab \in Actors \X Actors : Behind(ab[2], l, Unit(ab[1]))' <=> Behind(ab[2], l, Unit(ab[1]))
    BY ActorType DEF SameQueue
  <2> QED
    BY <2>1 DEF Follows
<1>3. tail'[l] = tail[l]
  BY DEF SameQueue
<1> QED
  BY <1>1, <1>2, <1>3 DEF QueueOf, LineOK, EndsAtTail

(* Then the abstract lock does not change.                                 *)
LEMMA ViewStays ==
  ASSUME NEW l \in Locks, SameQueue(l), SamePhase(l)
  PROVE  QueueOf(l)' = QueueOf(l) /\ PhaseOf(l)' = PhaseOf(l)
<1>1. QueueOf(l)' = QueueOf(l) /\ Queued(l)' = Queued(l)
  BY QueueStays
<1> QED
  BY <1>1 DEF PhaseOf, SamePhase
-----------------------------------------------------------------------------
(* Steps that leave the queues alone                                       *)

(* A step that moves no message, by an actor that keeps its place.         *)
LEMMA FrameQueue ==
  ASSUME NEW a \in Actors, OthersStay(a), \A b \in Actors : b # a => held'[b] = held[b],
         tail' = tail, net' = net,
         pc[a] \notin {"acq_link", "acq_wait"}, pc'[a] \notin {"acq_link", "acq_wait"},
         \A k \in Locks : (k \in held[a] \/ (lk[a] = k /\ pc[a] \in QueuePCs))
                            <=> (k \in held'[a] \/ (lk'[a] = k /\ pc'[a] \in QueuePCs)),
         NEW l \in Locks
  PROVE  SameQueue(l)
<1>1. ASSUME NEW b \in Actors PROVE InQueue(b, l)' <=> InQueue(b, l)
  BY DEF InQueue, OthersStay
<1>2. ASSUME NEW b \in Actors, NEW p \in Units PROVE Behind(b, l, p)' <=> Behind(b, l, p)
  BY DEF Behind, OthersStay
<1> QED
  BY <1>1, <1>2 DEF SameQueue

(* If it also holds what it held and was not leaving, or still is, then    *)
(* nothing happens.                                                        *)
LEMMA FramePhase ==
  ASSUME NEW a \in Actors, OthersStay(a), held' = held, NEW l \in Locks,
         (lk[a] = l /\ pc[a] \in {"rel_cas", "rel_spin", "rel_send"})
           <=> (lk'[a] = l /\ pc'[a] \in {"rel_cas", "rel_spin", "rel_send"})
  PROVE  SamePhase(l)
<1>1. ASSUME NEW b \in Actors PROVE Leaving(b, l)' <=> Leaving(b, l)
  BY DEF Leaving, OthersStay
<1> QED
  BY <1>1 DEF SamePhase

(* The actor that has told its predecessor stays behind it: the message    *)
(* cannot have been sent yet.                                              *)
LEMMA LinkStays ==
  ASSUME NoCrossTalk, LockInv, NEW a \in Actors, AcquireLink(a), NEW l \in Locks
  PROVE  SameQueue(l) /\ SamePhase(l)
<1>1. /\ pc[a] = "acq_link" /\ pc' = [pc EXCEPT ![a] = "acq_wait"] /\ peer[a] \in Units
      /\ tail' = tail /\ net' = net /\ lk' = lk /\ peer' = peer /\ held' = held
  BY DEF AcquireLink, Goto, LockInv, MutexInv, PeerSound
<1>2. pc'[a] = "acq_wait" /\ \A b \in Actors : b # a => pc'[b] = pc[b]
  BY <1>1 DEF LockInv, TypeOK
<1>3. net[peer[a]][Unit(a)] = 0
  <2> SUFFICES ASSUME net[peer[a]][Unit(a)] > 0 PROVE FALSE
    BY <1>1, ActorType DEF LockInv, TypeOK
  <2>1. PICK b \in Actors : Unit(b) = Unit(a) /\ pc[b] = "acq_wait"
    BY <1>1, ActorType DEF LockInv, TokenInv, MessageSound
  <2> QED
    BY <1>1, <2>1, OneActive DEF LockInv
<1>4. ASSUME NEW b \in Actors PROVE InQueue(b, l)' <=> InQueue(b, l)
  BY <1>1, <1>2 DEF InQueue, QueuePCs
<1>5. ASSUME NEW b \in Actors, NEW p \in Units PROVE Behind(b, l, p)' <=> Behind(b, l, p)
  BY <1>1, <1>2, <1>3 DEF Behind
<1>6. ASSUME NEW b \in Actors PROVE Leaving(b, l)' <=> Leaving(b, l)
  BY <1>1, <1>2 DEF Leaving
<1> QED
  BY <1>1, <1>4, <1>5, <1>6 DEF SameQueue, SamePhase

(* Who receives the message was the head since it was sent.                *)
LEMMA RecvStays ==
  ASSUME NoCrossTalk, LockInv, NEW a \in Actors, AcquireRecv(a), NEW l \in Locks
  PROVE  SameQueue(l) /\ SamePhase(l)
<1>1. /\ pc[a] = "acq_wait" /\ pc' = [pc EXCEPT ![a] = "granted"] /\ peer[a] \in Units
      /\ Unit(a) \in Units /\ tail' = tail /\ lk' = lk /\ peer' = peer /\ held' = held
      /\ net' = [net EXCEPT ![peer[a]][Unit(a)] = @ - 1] /\ net[peer[a]][Unit(a)] > 0
  BY ActorType DEF AcquireRecv, Goto, LockInv, MutexInv, PeerSound
<1>2. pc'[a] = "granted" /\ \A b \in Actors : b # a => pc'[b] = pc[b]
  BY <1>1 DEF LockInv, TypeOK
<1>3. ASSUME NEW b \in Actors, NEW p \in Units, b # a, pc[b] = "acq_wait"
      PROVE  net'[p][Unit(b)] = net[p][Unit(b)]
  <2>1. Unit(b) # Unit(a)
    BY <1>1, <1>3, OneActive DEF LockInv
  <2> QED
    BY <1>1, <2>1, ActorType DEF LockInv, TypeOK
<1>4. ASSUME NEW b \in Actors PROVE InQueue(b, l)' <=> InQueue(b, l)
  BY <1>1, <1>2 DEF InQueue, QueuePCs
<1>5. ASSUME NEW b \in Actors, NEW p \in Units PROVE Behind(b, l, p)' <=> Behind(b, l, p)
  <2>1. CASE b = a
    BY <1>1, <1>2, <2>1 DEF Behind
  <2>2. CASE b # a
    BY <1>1, <1>2, <1>3, <2>2 DEF Behind
  <2> QED
    BY <2>1, <2>2
<1>6. ASSUME NEW b \in Actors PROVE Leaving(b, l)' <=> Leaving(b, l)
  BY <1>1, <1>2 DEF Leaving
<1> QED
  BY <1>1, <1>4, <1>5, <1>6 DEF SameQueue, SamePhase

(* The steps that change nothing of what a client sees.                    *)
Silent(a, l) ==
  \/ AcquireLock(a, l) \/ AcquireTwice(a) \/ AcquireCheck(a) \/ AcquireLink(a) \/ AcquireRecv(a)
  \/ TryBusy(a, l) \/ TryLock(a, l) \/ TryTwice(a) \/ TryCheck(a) \/ TryFail(a)
  \/ ReleaseInval(a, l) \/ ReleaseHandover(a) \/ ReleaseSpin(a) \/ ReleaseReset(a)
  \/ ReleaseDone(a)

(* They leave every lock as it is.                                         *)
LEMMA SilentStep ==
  ASSUME NoCrossTalk, LockInv, NEW a \in Actors, NEW l \in Locks, Silent(a, l), NEW k \in Locks
  PROVE  SameQueue(k) /\ SamePhase(k)
<1> TypeOK /\ MutexInv
  BY DEF LockInv
<1>1. CASE AcquireLock(a, l)
  BY <1>1, FrameQueue, FramePhase DEF AcquireLock, MutexLock, MutexAvailable, Enter,
     Goto, TypeOK, OthersStay, QueuePCs, MutexInv, InsideHasMutex
<1>2. CASE AcquireTwice(a)
  BY <1>2, FrameQueue, FramePhase DEF AcquireTwice, MutexUnlock, Return, Goto, TypeOK,
     OthersStay, QueuePCs, MutexInv, InsideHasMutex
<1>3. CASE AcquireCheck(a)
  BY <1>3, FrameQueue, FramePhase DEF AcquireCheck, Goto, TypeOK, OthersStay, QueuePCs,
     MutexInv, InsideHasMutex
<1>4. CASE AcquireLink(a)
  BY <1>4, LinkStays
<1>5. CASE AcquireRecv(a)
  BY <1>5, RecvStays
<1>6. CASE TryBusy(a, l)
  BY <1>6, FrameQueue, FramePhase DEF TryBusy, Return, Goto, TypeOK, OthersStay,
     QueuePCs, MutexInv, InsideHasMutex
<1>7. CASE TryLock(a, l)
  BY <1>7, FrameQueue, FramePhase DEF TryLock, MutexLock, MutexAvailable, Enter, Goto,
     TypeOK, OthersStay, QueuePCs, MutexInv, InsideHasMutex
<1>8. CASE TryTwice(a)
  BY <1>8, FrameQueue, FramePhase DEF TryTwice, MutexUnlock, Return, Goto, TypeOK,
     OthersStay, QueuePCs, MutexInv, InsideHasMutex
<1>9. CASE TryCheck(a)
  BY <1>9, FrameQueue, FramePhase DEF TryCheck, Goto, TypeOK, OthersStay, QueuePCs,
     MutexInv, InsideHasMutex
<1>10. CASE TryFail(a)
  BY <1>10, FrameQueue, FramePhase DEF TryFail, MutexUnlock, Return, Goto, TypeOK,
     OthersStay, QueuePCs, MutexInv, InsideHasMutex
<1>11. CASE ReleaseInval(a, l)
  BY <1>11, FrameQueue, FramePhase DEF ReleaseInval, Return, Goto, TypeOK, OthersStay,
     QueuePCs, MutexInv, InsideHasMutex
<1>12. CASE ReleaseHandover(a)
  BY <1>12, FrameQueue, FramePhase DEF ReleaseHandover, Goto, TypeOK, OthersStay,
     QueuePCs, MutexInv, InsideHasMutex
<1>13. CASE ReleaseSpin(a)
  BY <1>13, FrameQueue, FramePhase DEF ReleaseSpin, Goto, TypeOK, OthersStay, QueuePCs,
     MutexInv, InsideHasMutex
<1>14. CASE ReleaseReset(a)
  BY <1>14, FrameQueue, FramePhase DEF ReleaseReset, Goto, TypeOK, OthersStay, QueuePCs,
     MutexInv, InsideHasMutex
<1>15. CASE ReleaseDone(a)
  BY <1>15, FrameQueue, FramePhase DEF ReleaseDone, MutexUnlock, Return, Goto, TypeOK,
     OthersStay, QueuePCs, MutexInv, InsideHasMutex
<1> QED
  BY <1>1, <1>2, <1>3, <1>4, <1>5, <1>6, <1>7, <1>8, <1>9, <1>10, <1>11,
     <1>12, <1>13, <1>14, <1>15 DEF Silent
-----------------------------------------------------------------------------
(* Steps of the queue                                                      *)

(* What a step of one lock means: its queue and phase change to q and p,   *)
(* those of the others do not.                                             *)
Becomes(l, q, p) ==
  /\ QueueOf(l)' = q /\ PhaseOf(l)' = p
  /\ \A k \in Locks : k # l => QueueOf(k)' = QueueOf(k) /\ PhaseOf(k)' = PhaseOf(k)

(* Who holds a lock or is leaving it has its token, and is in its queue.   *)
LEMMA HolderHasToken ==
  ASSUME NEW a \in Actors, NEW l \in Locks, l \in held[a] \/ Leaving(a, l)
  PROVE  HasToken(a, l) /\ InQueue(a, l)
BY DEF HasToken, InQueue, QueuePCs, Leaving

(* The swap of the tail and a successful try put the actor at the end.     *)
LEMMA EnqueueStep ==
  ASSUME LockInv, QueueInv', NEW a \in Actors, AcquireSwap(a) \/ TryCas(a)
  PROVE  \E l \in Locks :
           /\ ~ InQueue(a, l)
           /\ Becomes(l, Append(QueueOf(l), a), IF PhaseOf(l) = "free" THEN "queued" ELSE PhaseOf(l))
           /\ LineInv'
<1> TypeOK /\ MutexInv /\ QueueInv /\ LineInv
  BY DEF LockInv
<1>1. PICK l \in Locks : l = lk[a]
  BY DEF AcquireSwap, TryCas, MutexInv, InsideHasMutex
<1>2. /\ pc[a] \in {"acq_swap", "try_cas"} /\ Unit(a) \in Units
      /\ tail' = [tail EXCEPT ![l] = Unit(a)] /\ net' = net /\ lk' = lk /\ held' = held
  BY <1>1, ActorType DEF AcquireSwap, TryCas
<1>3. /\ \A b \in Actors : b # a => pc'[b] = pc[b] /\ peer'[b] = peer[b]
      /\ \/ pc'[a] = "granted" /\ tail[l] = NoUnit
         \/ pc'[a] = "acq_link" /\ peer'[a] = tail[l] /\ tail[l] \in Units
  BY <1>1 DEF AcquireSwap, TryCas, Goto, TypeOK
<1>4. tail'[l] = Unit(a) /\ \A k \in Locks : k # l => tail'[k] = tail[k]
  BY <1>2 DEF TypeOK
<1>5. ~ InQueue(a, l)
  BY <1>1, <1>2 DEF InQueue, QueuePCs, MutexInv, PastNotHeld, Past, PCs
<1>6. tail[l] # Unit(a) /\ \A b \in Actors : ~ Behind(b, l, Unit(a))
  BY <1>1, <1>2, <1>5, NobodyBehind
<1>7. ASSUME NEW b \in Actors, NEW k \in Locks
      PROVE  InQueue(b, k)' <=> InQueue(b, k) \/ (b = a /\ k = l)
  BY <1>1, <1>2, <1>3 DEF InQueue, QueuePCs
<1>8. ASSUME NEW b \in Actors, NEW k \in Locks, NEW p \in Units
      PROVE  Behind(b, k, p)' <=> Behind(b, k, p) \/ (b = a /\ k = l /\ p = tail[l])
  BY <1>1, <1>2, <1>3, LockConstants DEF Behind
<1>9. ASSUME NEW b \in Actors, NEW k \in Locks PROVE Leaving(b, k)' <=> Leaving(b, k)
  BY <1>2, <1>3 DEF Leaving
<1>10. ASSUME NEW k \in Locks PROVE SamePhase(k)
  BY <1>2, <1>9 DEF SamePhase
<1>11. ASSUME NEW k \in Locks, k # l
       PROVE  /\ QueueOf(k)' = QueueOf(k) /\ PhaseOf(k)' = PhaseOf(k)
              /\ LineOK(QueueOf(k), k)'
  <2>1. SameQueue(k)
    BY <1>4, <1>7, <1>8, <1>11 DEF SameQueue
  <2> QED
    BY <1>10, <2>1, QueueStays, ViewStays DEF LineInv
<1> DEFINE q == QueueOf(l)
           S == Queued(l)
           R == Follows(l)
           R2 == Follows(l)'
<1>12. Line(q, S, R) /\ EndsAtTail(q, l) /\ S \subseteq Actors
  BY DEF LineInv, LineOK, Queued
<1>13. Queued(l)' = S \cup {a} /\ a \notin S
  BY <1>5, <1>7 DEF Queued
<1>14. ASSUME NEW b \in Actors, NEW c \in Actors
       PROVE  <<b, c>> \in R2 <=> <<b, c>> \in R \/ (c = a /\ Unit(b) = tail[l])
  <2>1. Unit(b) \in Units
    BY ActorType
  <2>2. <<b, c>> \in R2 <=> Behind(c, l, Unit(b))'
    BY DEF Follows
  <2>3. <<b, c>> \in R <=> Behind(c, l, Unit(b))
    BY DEF Follows
  <2> QED
    BY <1>8, <2>1, <2>2, <2>3
<1>15. \A b \in S \cup {a} : <<a, b>> \notin R2
  <2> SUFFICES ASSUME NEW b \in Actors PROVE <<a, b>> \notin R2
    BY <1>12
  <2>1. <<a, b>> \notin R
    BY <1>6 DEF Follows
  <2> QED
    BY <1>6, <1>14, <2>1
<1>16. q \in Seq(S) /\ Len(q) \in Nat
  BY <1>12 DEF Line, Lists
<1>17. Len(q) > 0 => <<q[Len(q)], a>> \in R2
  <2> SUFFICES ASSUME Len(q) > 0 PROVE <<q[Len(q)], a>> \in R2
    OBVIOUS
  <2> HIDE DEF q, S, R, R2
  <2>1. q[Len(q)] \in S
    BY <1>16
  <2>2. q[Len(q)] \in Actors /\ Unit(q[Len(q)]) = tail[l]
    BY <1>12, <1>16, <2>1 DEF EndsAtTail
  <2> QED
    BY <1>14, <2>2
<1>18. Line(Append(q, a), S \cup {a}, R2)
  <2> HIDE DEF q, S, R, R2
  <2>1. \A b, c \in S : <<b, c>> \in R2 <=> <<b, c>> \in R
    BY <1>12, <1>13, <1>14
  <2> QED
    BY <1>12, <1>13, <1>15, <1>17, <2>1, LineAppend
<1>19. Len(Append(q, a)) = Len(q) + 1 /\ Append(q, a)[Len(q) + 1] = a
  <2> HIDE DEF q, S
  <2>1. q \in Seq(S \cup {a}) /\ a \in S \cup {a}
    BY <1>16
  <2> QED
    BY <2>1
<1>20. QueueOf(l)' = Append(q, a) /\ LineOK(QueueOf(l), l)'
  <2> DEFINE r == Append(q, a)
  <2>1. Line(r, Queued(l)', Follows(l)')
    BY <1>13, <1>18
  <2>2. IF Len(r) = 0 THEN tail'[l] = NoUnit ELSE tail'[l] = Unit(r[Len(r)])
    <3> HIDE DEF q
    <3> QED
      BY <1>4, <1>16, <1>19
  <2> HIDE DEF r
  <2>3. QueueOf(l)' = r /\ LineOK(QueueOf(l), l)'
    BY <2>1, <2>2, LineIsQueueNext
  <2> QED
    BY <2>3 DEF r
<1>21. PhaseOf(l)' = IF PhaseOf(l) = "free" THEN "queued" ELSE PhaseOf(l)
  <2>1. Queued(l)' # {}
    BY <1>13
  <2>2. SamePhase(l)
    BY <1>10
  <2> QED
    BY <2>1, <2>2 DEF PhaseOf, SamePhase
<1> QED
  BY <1>5, <1>11, <1>20, <1>21 DEF Becomes, LineInv

(* The head of the queue is granted the lock.                              *)
LEMMA GrantStep ==
  ASSUME LockInv, NEW a \in Actors, Granted(a)
  PROVE  \E l \in Locks :
           /\ PhaseOf(l) = "queued" /\ Becomes(l, QueueOf(l), "held")
           /\ LineInv'
<1> TypeOK /\ MutexInv /\ QueueInv /\ LineInv /\ OneToken
  BY DEF LockInv, TokenInv
<1>1. PICK l \in Locks : l = lk[a]
  BY DEF Granted, MutexInv, InsideHasMutex
<1>2. /\ pc[a] = "granted" /\ tail' = tail /\ net' = net
      /\ held' = [held EXCEPT ![a] = @ \cup {l}] /\ pc'[a] = "idle" /\ lk'[a] = NoLock
      /\ OthersStay(a)
  BY <1>1 DEF Granted, Return, Goto, TypeOK, OthersStay
<1>3. held'[a] = held[a] \cup {l} /\ \A b \in Actors : b # a => held'[b] = held[b]
  BY <1>2 DEF TypeOK
<1>4. ASSUME NEW k \in Locks PROVE SameQueue(k)
  BY <1>1, <1>2, <1>3, LockConstants, FrameQueue DEF QueuePCs
<1>5. ASSUME NEW k \in Locks, k # l PROVE SamePhase(k)
  <2>1. ASSUME NEW b \in Actors PROVE k \in held'[b] <=> k \in held[b]
    BY <1>3, <1>5
  <2>2. ASSUME NEW b \in Actors PROVE Leaving(b, k)' <=> Leaving(b, k)
    BY <1>2 DEF Leaving, OthersStay
  <2> QED
    BY <2>1, <2>2 DEF SamePhase
<1>6. PhaseOf(l) = "queued"
  <2>1. HasToken(a, l) /\ InQueue(a, l)
    BY <1>1, <1>2 DEF HasToken, InQueue, QueuePCs
  <2>2. l \notin held[a] /\ ~ Leaving(a, l)
    BY <1>1, <1>2 DEF MutexInv, PastNotHeld, Past, PCs, Leaving
  <2>3. ASSUME NEW b \in Actors PROVE l \notin held[b] /\ ~ Leaving(b, l)
    BY <2>1, <2>2, HolderHasToken DEF OneToken
  <2>4. Queued(l) # {}
    BY <2>1 DEF Queued
  <2> QED
    BY <2>3, <2>4 DEF PhaseOf
<1>7. PhaseOf(l)' = "held"
  BY <1>3 DEF PhaseOf
<1> QED
  BY <1>4, <1>5, <1>6, <1>7, QueueStays, ViewStays DEF Becomes, LineInv

(* The holder begins to release.                                           *)
LEMMA ReleaseStep ==
  ASSUME LockInv, NEW a \in Actors, NEW l \in Locks, Release(a, l)
  PROVE  PhaseOf(l) = "held" /\ Becomes(l, QueueOf(l), "leaving") /\ LineInv'
<1> TypeOK /\ MutexInv /\ QueueInv /\ LineInv /\ OneToken
  BY DEF LockInv, TokenInv
<1>1. /\ pc[a] = "idle" /\ l \in held[a] /\ tail' = tail /\ net' = net /\ lk[a] = NoLock
      /\ held' = [held EXCEPT ![a] = @ \ {l}] /\ pc'[a] = "rel_cas" /\ lk'[a] = l
      /\ OthersStay(a)
  BY DEF Release, Enter, Goto, TypeOK, OthersStay, MutexInv, InsideHasMutex
<1>2. held'[a] = held[a] \ {l} /\ \A b \in Actors : b # a => held'[b] = held[b]
  BY <1>1 DEF TypeOK
<1>3. ASSUME NEW k \in Locks PROVE SameQueue(k)
  BY <1>1, <1>2, LockConstants, FrameQueue DEF QueuePCs
<1>4. ASSUME NEW k \in Locks, k # l PROVE SamePhase(k)
  <2>1. ASSUME NEW b \in Actors PROVE k \in held'[b] <=> k \in held[b]
    BY <1>2, <1>4
  <2>2. ASSUME NEW b \in Actors PROVE Leaving(b, k)' <=> Leaving(b, k)
    BY <1>1, <1>4 DEF Leaving, OthersStay
  <2> QED
    BY <2>1, <2>2 DEF SamePhase
<1>5. PhaseOf(l) = "held"
  BY <1>1 DEF PhaseOf
<1>6. PhaseOf(l)' = "leaving"
  <2>1. ASSUME NEW b \in Actors PROVE l \notin held'[b]
    BY <1>1, <1>2, HolderHasToken DEF OneToken
  <2>2. Leaving(a, l)'
    BY <1>1 DEF Leaving
  <2> QED
    BY <2>1, <2>2 DEF PhaseOf
<1> QED
  BY <1>3, <1>4, <1>5, <1>6, QueueStays, ViewStays DEF Becomes, LineInv
(* After the token's last holder has left, the lock is queued for or free. *)
LEMMA LeavingPhase ==
  ASSUME LockInv, NEW a \in Actors, NEW l \in Locks, Leaving(a, l), pc[a] # "idle", held' = held,
         \A b \in Actors : b # a => pc'[b] = pc[b] /\ lk'[b] = lk[b],
         pc'[a] \notin {"rel_cas", "rel_spin", "rel_send"}
  PROVE  /\ PhaseOf(l) = "leaving"
         /\ PhaseOf(l)' = IF Queued(l)' # {} THEN "queued" ELSE "free"
<1> MutexInv /\ OneToken
  BY DEF LockInv, TokenInv
<1>1. ASSUME NEW b \in Actors PROVE l \notin held[b] /\ (Leaving(b, l) => b = a)
  <2>1. l \notin held[a]
    BY DEF Leaving, MutexInv, PastNotHeld, Past, PCs
  <2> QED
    BY <2>1, HolderHasToken DEF OneToken
<1>2. PhaseOf(l) = "leaving"
  BY <1>1 DEF PhaseOf
<1>3. ASSUME NEW b \in Actors PROVE l \notin held'[b] /\ ~ Leaving(b, l)'
  BY <1>1 DEF Leaving
<1> QED
  BY <1>2, <1>3 DEF PhaseOf

(* The tail leaves an empty queue.                                         *)
LEMMA CasLeaves ==
  ASSUME LockInv, QueueInv', NEW a \in Actors, ReleaseCas(a)
  PROVE  \E l \in Locks :
           /\ PhaseOf(l) = "leaving"
           /\ Becomes(l, Tail(QueueOf(l)), IF Len(QueueOf(l)) = 1 THEN "free" ELSE "queued")
           /\ LineInv'
<1> TypeOK /\ MutexInv /\ QueueInv /\ LineInv
  BY DEF LockInv
<1>1. PICK l \in Locks : l = lk[a]
  BY DEF ReleaseCas, MutexInv, InsideHasMutex
<1>2. /\ pc[a] = "rel_cas" /\ tail[l] = Unit(a) /\ Unit(a) \in Units
      /\ tail' = [tail EXCEPT ![l] = NoUnit] /\ net' = net /\ lk' = lk /\ held' = held
      /\ peer' = peer /\ pc' = [pc EXCEPT ![a] = "rel_done"]
  BY <1>1, ActorType DEF ReleaseCas, Goto
<1>3. pc'[a] = "rel_done" /\ \A b \in Actors : b # a => pc'[b] = pc[b]
  BY <1>2 DEF TypeOK
<1>4. tail'[l] = NoUnit /\ \A k \in Locks : k # l => tail'[k] = tail[k]
  BY <1>2 DEF TypeOK
<1>5. Leaving(a, l) /\ InQueue(a, l)
  BY <1>1, <1>2 DEF Leaving, InQueue, QueuePCs
<1>6. ASSUME NEW k \in Locks, k # l
      PROVE  /\ QueueOf(k)' = QueueOf(k) /\ PhaseOf(k)' = PhaseOf(k)
             /\ LineOK(QueueOf(k), k)'
  <2>1. ASSUME NEW b \in Actors PROVE InQueue(b, k)' <=> InQueue(b, k)
    BY <1>1, <1>2, <1>3, <1>6 DEF InQueue
  <2>2. ASSUME NEW b \in Actors, NEW p \in Units PROVE Behind(b, k, p)' <=> Behind(b, k, p)
    BY <1>1, <1>2, <1>3, <1>6 DEF Behind
  <2>3. ASSUME NEW b \in Actors PROVE Leaving(b, k)' <=> Leaving(b, k)
    BY <1>1, <1>2, <1>3, <1>6 DEF Leaving
  <2>4. SameQueue(k) /\ SamePhase(k)
    BY <1>2, <1>4, <1>6, <2>1, <2>2, <2>3 DEF SameQueue, SamePhase
  <2> QED
    BY <2>4, QueueStays, ViewStays DEF LineInv
<1> DEFINE q == QueueOf(l)
<1>7. Line(q, Queued(l), Follows(l)) /\ EndsAtTail(q, l)
  BY DEF LineInv, LineOK
<1>8. q \in Seq(Queued(l)) /\ Len(q) \in Nat /\ Len(q) > 0 /\ q[1] = a
  BY <1>2, <1>5, <1>7, HeadOfQueue DEF Line, Lists
<1>9. Len(q) = 1
  <2> HIDE DEF q
  <2>1. q[Len(q)] \in Queued(l) /\ Unit(q[Len(q)]) = Unit(a)
    BY <1>2, <1>7, <1>8 DEF EndsAtTail
  <2>2. q[Len(q)] = a
    BY <1>5, <2>1, OneOfUnit DEF Queued
  <2>3. Len(q) \in 1 .. Len(q) /\ 1 \in 1 .. Len(q) /\ q[Len(q)] = q[1]
    BY <1>8, <2>2
  <2> QED
    BY <1>7, <2>3 DEF Line, Lists
<1>10. Tail(q) = <<>> /\ Len(Tail(q)) = 0
  <2> HIDE DEF q
  <2> QED
    BY <1>8, <1>9
<1>11. Queued(l)' = {}
  <2>1. Queued(l) = {a}
    <3> HIDE DEF q
    <3>1. \A b \in Queued(l) : \E i \in 1 .. 1 : q[i] = b
      BY <1>7, <1>9 DEF Line, Lists
    <3>2. \A b \in Queued(l) : q[1] = b
      BY <3>1
    <3> QED
      BY <1>5, <1>8, <3>2 DEF Queued
  <2>2. ASSUME NEW b \in Actors, InQueue(b, l)' PROVE FALSE
    <3>1. b # a
      BY <1>1, <1>2, <1>3, <2>2 DEF InQueue, QueuePCs, MutexInv, PastNotHeld, Past, PCs
    <3>2. InQueue(b, l)
      BY <1>2, <1>3, <2>2, <3>1 DEF InQueue
    <3> QED
      BY <2>1, <3>1, <3>2 DEF Queued
  <2> QED
    BY <2>2 DEF Queued
<1>12. Line(<<>>, Queued(l)', Follows(l)')
  BY <1>11 DEF Line, Lists
<1>13. QueueOf(l)' = <<>> /\ LineOK(QueueOf(l), l)'
  BY <1>4, <1>12, LineIsQueueNext
<1>14. PhaseOf(l) = "leaving" /\ PhaseOf(l)' = "free"
  BY <1>2, <1>3, <1>5, <1>11, LeavingPhase
<1>15. LineInv'
  BY <1>6, <1>13 DEF LineInv
<1> QED
  BY <1>6, <1>9, <1>10, <1>13, <1>14, <1>15 DEF Becomes

(* The head sends the message to the second, which becomes the head.       *)
LEMMA SendLeaves ==
  ASSUME NoCrossTalk, LockInv, QueueInv', NEW a \in Actors, ReleaseSend(a)
  PROVE  \E l \in Locks :
           /\ PhaseOf(l) = "leaving"
           /\ Becomes(l, Tail(QueueOf(l)), IF Len(QueueOf(l)) = 1 THEN "free" ELSE "queued")
           /\ LineInv'
<1> TypeOK /\ MutexInv /\ TokenInv /\ QueueInv /\ LineInv
  BY DEF LockInv
<1>1. PICK l \in Locks, u \in Units, s \in Units : l = lk[a] /\ u = Unit(a) /\ s = peer[a]
  BY ActorType DEF ReleaseSend, MutexInv, InsideHasMutex, PeerSound
<1>2. /\ pc[a] = "rel_send" /\ pc' = [pc EXCEPT ![a] = "rel_reset"]
      /\ tail' = tail /\ lk' = lk /\ held' = held /\ peer' = peer
      /\ net' = [net EXCEPT ![u][s] = @ + 1]
  BY <1>1 DEF ReleaseSend, Goto
<1>3. pc'[a] = "rel_reset" /\ \A b \in Actors : b # a => pc'[b] = pc[b]
  BY <1>2 DEF TypeOK
<1>4. PICK w \in Actors : Unit(w) = s /\ Waiting(w, l, u) /\ Behind(w, l, u)
  BY <1>1, <1>2 DEF TokenInv, SendSound, Waiting, Behind
<1>5. /\ net'[u][s] = net[u][s] + 1 /\ net[u][s] \in Nat
      /\ \A p, v \in Units : (p # u \/ v # s) => net'[p][v] = net[p][v]
  BY <1>2 DEF TypeOK
<1>6. w # a /\ pc[w] = "acq_wait" /\ lk[w] = l /\ peer[w] = u /\ pc'[w] = "acq_wait"
  BY <1>2, <1>3, <1>4 DEF Waiting
<1>7. Leaving(a, l) /\ InQueue(a, l)
  BY <1>1, <1>2 DEF Leaving, InQueue, QueuePCs
<1>8. ASSUME NEW b \in Actors, NEW k \in Locks
      PROVE  InQueue(b, k)' <=> InQueue(b, k) /\ ~ (b = a /\ k = l)
  <2>1. CASE b = a
    BY <1>1, <1>2, <1>3, <2>1 DEF InQueue, QueuePCs, MutexInv, PastNotHeld, Past, PCs
  <2>2. CASE b # a
    BY <1>2, <1>3, <2>2 DEF InQueue
  <2> QED
    BY <2>1, <2>2
<1>9. ASSUME NEW b \in Actors, NEW k \in Locks, NEW p \in Units
      PROVE  Behind(b, k, p)' <=> Behind(b, k, p) /\ b # w
  <2>1. CASE b = w
    <3>1. ~ Behind(w, k, p)'
      BY <1>2, <1>4, <1>5, <1>6 DEF Behind
    <3> QED
      BY <2>1, <3>1
  <2>2. CASE b = a
    BY <1>2, <1>3, <2>2 DEF Behind
  <2>3. CASE b # w /\ b # a
    <3>1. pc'[b] = pc[b] /\ lk' = lk /\ peer' = peer
      BY <1>2, <1>3, <2>3
    <3>2. pc[b] = "acq_wait" => net'[p][Unit(b)] = net[p][Unit(b)]
      <4> SUFFICES ASSUME pc[b] = "acq_wait" PROVE net'[p][Unit(b)] = net[p][Unit(b)]
        OBVIOUS
      <4>1. Unit(b) # s /\ Unit(b) \in Units
        BY <1>4, <1>6, <2>3, OneActive, ActorType
      <4> QED
        BY <1>5, <4>1
    <3> QED
      BY <2>3, <3>1, <3>2 DEF Behind
  <2> QED
    BY <2>1, <2>2, <2>3
<1>10. ASSUME NEW k \in Locks, k # l
       PROVE  /\ QueueOf(k)' = QueueOf(k) /\ PhaseOf(k)' = PhaseOf(k)
              /\ LineOK(QueueOf(k), k)'
  <2>1. ASSUME NEW b \in Actors PROVE InQueue(b, k)' <=> InQueue(b, k)
    BY <1>8, <1>10
  <2>2. ASSUME NEW b \in Actors, NEW p \in Units PROVE Behind(b, k, p)' <=> Behind(b, k, p)
    <3>1. ~ Behind(w, k, p)
      BY <1>6, <1>10 DEF Behind
    <3> QED
      BY <1>9, <3>1
  <2>3. ASSUME NEW b \in Actors PROVE Leaving(b, k)' <=> Leaving(b, k)
    BY <1>1, <1>2, <1>3, <1>10 DEF Leaving
  <2>4. SameQueue(k) /\ SamePhase(k)
    BY <1>2, <1>10, <2>1, <2>2, <2>3 DEF SameQueue, SamePhase
  <2> QED
    BY <2>4, QueueStays, ViewStays DEF LineInv
<1> DEFINE q == QueueOf(l)
           S == Queued(l)
           R == Follows(l)
           R2 == Follows(l)'
<1>11. Line(q, S, R) /\ EndsAtTail(q, l) /\ S \subseteq Actors
  BY DEF LineInv, LineOK, Queued
<1>12. /\ q \in Seq(S) /\ Len(q) \in Nat /\ Len(q) > 0 /\ q[1] = a
       /\ \A b \in S : \E i \in 1 .. Len(q) : q[i] = b
  BY <1>2, <1>7, <1>11, HeadOfQueue DEF Line, Lists
<1>13. w \in S
  BY <1>6 DEF Queued, InQueue, QueuePCs
<1>14. Len(q) > 1 /\ Len(q) # 1
  <2> HIDE DEF q, S, R, R2
  <2>1. PICK i \in 1 .. Len(q) : q[i] = w
    BY <1>12, <1>13
  <2> QED
    BY <1>6, <1>12, <2>1, SMTT(60)
<1>15. q[2] = w
  <2>1. <<q[1], q[2]>> \in R /\ q[2] \in S
    <3> HIDE DEF q, S, R, R2
    <3>1. 1 \in 1 .. Len(q) - 1 /\ 2 \in 1 .. Len(q)
      BY <1>12, <1>14
    <3>2. <<q[1], q[1 + 1]>> \in R
      BY <1>11, <3>1 DEF Line
    <3> QED
      BY <1>12, <3>1, <3>2
  <2>2. <<a, w>> \in R /\ a \in S
    BY <1>1, <1>4, <1>7 DEF Follows, Queued
  <2>3. Single(S, R)
    BY FollowsSingle
  <2> HIDE DEF q, S, R, R2
  <2> QED
    BY <1>12, <1>13, <2>1, <2>2, <2>3 DEF Single
<1>16. ASSUME NEW b \in Actors, NEW c \in Actors
       PROVE  <<b, c>> \in R2 <=> <<b, c>> \in R /\ c # w
  <2>1. Unit(b) \in Units
    BY ActorType
  <2>2. <<b, c>> \in R2 <=> Behind(c, l, Unit(b))'
    BY DEF Follows
  <2>3. <<b, c>> \in R <=> Behind(c, l, Unit(b))
    BY DEF Follows
  <2> QED
    BY <1>9, <2>1, <2>2, <2>3
<1>17. Queued(l)' = S \ {q[1]}
  <2>1. Queued(l)' = S \ {a}
    BY <1>8 DEF Queued
  <2> QED
    BY <1>12, <2>1
<1>18. Line(Tail(q), Queued(l)', R2)
  <2> HIDE DEF q, S, R, R2
  <2>1. \A b, c \in S : <<b, c>> \in R /\ c # q[2] => <<b, c>> \in R2
    BY <1>11, <1>15, <1>16
  <2>2. \A b \in S : <<b, q[2]>> \notin R2
    BY <1>11, <1>15, <1>16
  <2> QED
    BY <1>11, <1>14, <1>17, <2>1, <2>2, LineTail
<1> DEFINE r == Tail(q)
<1>19. Len(r) = Len(q) - 1 /\ r[Len(r)] = q[Len(q)]
  <2> HIDE DEF q, S
  <2>1. q # <<>>
    BY <1>12
  <2> QED
    BY <1>12, <1>14, <2>1
<1>20. IF Len(r) = 0 THEN tail'[l] = NoUnit ELSE tail'[l] = Unit(r[Len(r)])
  <2> HIDE DEF q, r
  <2> QED
    BY <1>2, <1>11, <1>12, <1>14, <1>19 DEF EndsAtTail
<1>21. QueueOf(l)' = r /\ LineOK(QueueOf(l), l)'
  <2> HIDE DEF r
  <2>1. Line(r, Queued(l)', Follows(l)')
    BY <1>18 DEF r
  <2> QED
    BY <1>20, <2>1, LineIsQueueNext
<1>22. PhaseOf(l) = "leaving" /\ PhaseOf(l)' = "queued"
  <2>1. Queued(l)' # {}
    BY <1>6, <1>12, <1>13, <1>17
  <2>2. \A b \in Actors : b # a => pc'[b] = pc[b] /\ lk'[b] = lk[b]
    BY <1>2, <1>3
  <2> QED
    BY <1>2, <1>3, <1>7, <2>1, <2>2, LeavingPhase
<1>23. LineInv'
  BY <1>10, <1>21 DEF LineInv
<1>24. Len(q) # 1
  BY <1>14
<1> QED
  BY <1>10, <1>21, <1>22, <1>23, <1>24 DEF Becomes
-----------------------------------------------------------------------------
(* The lock implements the first-come first-served lock                    *)

(* Initially every queue is the empty line.                                *)
LEMMA LineInit ==
  ASSUME Init, NEW l \in Locks
  PROVE  QueueOf(l) = <<>> /\ PhaseOf(l) = "free" /\ LineOK(QueueOf(l), l)
<1>1. ASSUME NEW a \in Actors PROVE l \notin held[a] /\ pc[a] = "idle"
  BY DEF Init
<1>2. Queued(l) = {}
  BY <1>1 DEF Queued, InQueue, QueuePCs
<1>3. LineOK(<<>>, l)
  BY <1>2 DEF Init, LineOK, EndsAtTail, Line, Lists
<1>4. PhaseOf(l) = "free"
  BY <1>1, <1>2 DEF PhaseOf, Leaving
<1> QED
  BY <1>3, <1>4, QueueInit, LineIsQueue

(* The initial state is an initial state of the abstract lock.             *)
LEMMA LockInit == Init => LockInv /\ Promise!Init
<1> SUFFICES ASSUME Init PROVE LockInv /\ Promise!Init
  OBVIOUS
<1>1. LineInv
  BY LineInit DEF LineInv
<1>2. Promise!Init
  BY LineInit DEF Promise!Init
<1> QED
  BY <1>1, <1>2, LocalInit, TokenInit, QueueInit DEF LockInv

(* A change of one lock is a step of the abstract lock.                    *)
LEMMA BecomesMaps ==
  ASSUME NEW l \in Locks, NEW q, NEW p, Becomes(l, q, p)
  PROVE  /\ [k \in Locks |-> QueueOf(k)]' = [[k \in Locks |-> QueueOf(k)] EXCEPT ![l] = q]
         /\ [k \in Locks |-> PhaseOf(k)]' = [[k \in Locks |-> PhaseOf(k)] EXCEPT ![l] = p]
BY DEF Becomes

(* Every step of an actor is a step of the abstract lock or none.          *)
LEMMA ActorSimulates ==
  ASSUME NoCrossTalk, LockInv, QueueInv', NEW a \in Actors, NEW l \in Locks, Step(a) \/ Call(a, l)
  PROVE  LineInv' /\ [Promise!Next]_(Promise!fairLockVars)
<1>1. CASE Silent(a, l)
  <2>1. ASSUME NEW k \in Locks
        PROVE  QueueOf(k)' = QueueOf(k) /\ PhaseOf(k)' = PhaseOf(k) /\ LineOK(QueueOf(k), k)'
    BY <1>1, SilentStep, QueueStays, ViewStays DEF LockInv, LineInv
  <2> QED
    BY <2>1 DEF LineInv, Promise!fairLockVars
<1>2. CASE AcquireSwap(a) \/ TryCas(a)
  <2>1. PICK k \in Locks :
          /\ ~ InQueue(a, k) /\ LineInv'
          /\ Becomes(k, Append(QueueOf(k), a), IF PhaseOf(k) = "free" THEN "queued" ELSE PhaseOf(k))
    BY <1>2, EnqueueStep
  <2>2. \A i \in DOMAIN QueueOf(k) : QueueOf(k)[i] # a
    <3>1. QueueOf(k) \in Seq(Queued(k)) /\ a \notin Queued(k)
      BY <2>1 DEF LockInv, LineInv, LineOK, Line, Lists, Queued
    <3> QED
      BY <3>1
  <2>3. Promise!Enqueue(a, k)
    BY <2>1, <2>2, BecomesMaps DEF Promise!Enqueue
  <2> QED
    BY <2>1, <2>3 DEF Promise!Next
<1>3. CASE Granted(a)
  <2>1. PICK k \in Locks : PhaseOf(k) = "queued" /\ Becomes(k, QueueOf(k), "held") /\ LineInv'
    BY <1>3, GrantStep
  <2>2. [i \in Locks |-> QueueOf(i)]' = [i \in Locks |-> QueueOf(i)]
    BY <2>1 DEF Becomes
  <2>3. Promise!Grant(k)
    BY <2>1, <2>2, BecomesMaps DEF Promise!Grant
  <2> QED
    BY <2>1, <2>3 DEF Promise!Next
<1>4. CASE Release(a, l)
  <2>1. PhaseOf(l) = "held" /\ Becomes(l, QueueOf(l), "leaving") /\ LineInv'
    BY <1>4, ReleaseStep
  <2>2. [i \in Locks |-> QueueOf(i)]' = [i \in Locks |-> QueueOf(i)]
    BY <2>1 DEF Becomes
  <2>3. Promise!Release(l)
    BY <2>1, <2>2, BecomesMaps DEF Promise!Release
  <2> QED
    BY <2>1, <2>3 DEF Promise!Next
<1>5. CASE ReleaseCas(a) \/ ReleaseSend(a)
  <2>1. PICK k \in Locks :
          /\ PhaseOf(k) = "leaving" /\ LineInv'
          /\ Becomes(k, Tail(QueueOf(k)), IF Len(QueueOf(k)) = 1 THEN "free" ELSE "queued")
    BY <1>5, CasLeaves, SendLeaves
  <2>2. Promise!Leave(k)
    BY <2>1, BecomesMaps DEF Promise!Leave
  <2> QED
    BY <2>1, <2>2 DEF Promise!Next
<1> QED
  BY <1>1, <1>2, <1>3, <1>4, <1>5 DEF Step, Call, Silent

(* The invariant is inductive and every step is one of the abstract lock.  *)
LEMMA LockSimulates ==
  ASSUME NoCrossTalk, LockInv, [Next]_vars
  PROVE  LockInv' /\ [Promise!Next]_(Promise!fairLockVars)
<1>1. (TypeOK /\ MutexInv /\ TokenInv /\ QueueInv)'
  BY LocalStep, TokenStep, QueueStep DEF LockInv
<1>2. ASSUME NEW a \in Actors, NEW l \in Locks, Step(a) \/ Call(a, l)
      PROVE  LineInv' /\ [Promise!Next]_(Promise!fairLockVars)
  BY <1>1, <1>2, ActorSimulates
<1>3. ASSUME NEW a \in Actors, Step(a) PROVE \E l \in Locks : TRUE
  BY <1>3 DEF Step, AcquireTwice, AcquireCheck, AcquireSwap, AcquireLink,
     AcquireRecv, Granted, TryTwice, TryCheck, TryCas, TryFail, ReleaseCas,
     ReleaseHandover, ReleaseSpin, ReleaseSend, ReleaseReset, ReleaseDone,
     LockInv, MutexInv, InsideHasMutex
<1>4. CASE UNCHANGED vars
  <2>1. ASSUME NEW k \in Locks PROVE SameQueue(k) /\ SamePhase(k)
    BY <1>4 DEF vars, SameQueue, SamePhase, InQueue, Behind, Leaving
  <2>2. ASSUME NEW k \in Locks
        PROVE  QueueOf(k)' = QueueOf(k) /\ PhaseOf(k)' = PhaseOf(k) /\ LineOK(QueueOf(k), k)'
    BY <2>1, QueueStays, ViewStays DEF LockInv, LineInv
  <2> QED
    BY <1>1, <2>2 DEF LockInv, LineInv, Promise!fairLockVars
<1> QED
  BY <1>1, <1>2, <1>3, <1>4 DEF Next, LockInv

(* The safety half of ImplementsFairLock for any number of units, threads  *)
(* and locks: dart_lock_acquire, dart_lock_try_acquire and                 *)
(* dart_lock_release grant each lock to one client at a time, in the order *)
(* in which the clients replaced its tail, and nobody leaves the queue     *)
(* without having held the lock.                                           *)
THEOREM FirstComeFirstServed == NoCrossTalk => (Spec => Promise!Order)
<1> SUFFICES ASSUME NoCrossTalk PROVE Spec => Promise!Order
  OBVIOUS
<1>1. LockInv /\ [Next]_vars => LockInv' /\ [Promise!Next]_(Promise!fairLockVars)
  BY LockSimulates
<1> QED
  BY <1>1, LockInit, PTL DEF Spec, Promise!Order
=============================================================================
