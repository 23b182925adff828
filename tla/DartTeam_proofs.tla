--------------------------- MODULE DartTeam_proofs ---------------------------
(***************************************************************************)
(* Proofs about teams (dart_team_group.c, dart_team_private.c), for any    *)
(* number of units and any interleaving of collective calls on any number  *)
(* of overlapping teams: IDs identify teams, calls are made on the team    *)
(* they name, and while IDs do not collide in the table of teams a team is *)
(* found until it is destroyed.                                            *)
(*                                                                         *)
(* Argument.  No unit knows all teams, so a new ID cannot be compared with *)
(* the IDs in use.  What makes it new is that the counters move together:  *)
(* the ID is the maximum of the counters of the parent's members, all of   *)
(* whom are inside the call until they have moved their counters past it   *)
(* (CountersAreExact).  So two creations that a unit has left have         *)
(* different IDs, and since a creation settles once and makes one          *)
(* communicator (CallsAreSound), equal communicators have equal IDs.       *)
(*                                                                         *)
(* Steps are treated in two families.  Arrivals (Start, Join) may settle a *)
(* call; departures (Fail, Finish) hand out what was settled.  NameInv     *)
(* adds that all who arrive in a call were given its team, and counts the  *)
(* communicators: with fewer calls than slots every ID is its own slot,    *)
(* no slot has two entries, and dart_adapt_teamlist_dealloc, which removes *)
(* the wrong entry from a longer list, removes none (SlotsAreSingle).      *)
(***************************************************************************)
EXTENDS DartTeam, FiniteSetTheorems, WellFoundedInduction, TLAPS

-----------------------------------------------------------------------------
(* Least and greatest elements.                                            *)

(* A set of natural numbers has a least element, ...                       *)
LEMMA LeastNat ==
  ASSUME NEW S \in SUBSET Nat, S # {}
  PROVE  \E x \in S : \A y \in S : x <= y
<1> DEFINE R == OpToRel(<, Nat)
<1>1. \A x, y \in Nat : <<y, x>> \in R <=> y < x
  BY DEF OpToRel
<1>2. IsWellFoundedOn(R, Nat)
  BY NatLessThanWellFounded
<1> HIDE DEF R
<1>3. PICK x \in S : \A y \in S : ~ (<<y, x>> \in R)
  BY <1>2, WFMin
<1>4. \A y \in S : ~ (y < x)
  BY <1>1, <1>3
<1> QED
  BY <1>4

(* ... which is what Min chooses.                                          *)
LEMMA MinNat ==
  ASSUME NEW S \in SUBSET Nat, S # {}
  PROVE  Min(S) \in S /\ \A y \in S : Min(S) <= y
BY LeastNat DEF Min

(* Max chooses the greatest element of a bounded set.                      *)
LEMMA MaxNat ==
  ASSUME NEW b \in Nat, NEW S \in SUBSET (0 .. b), S # {}
  PROVE  Max(S) \in S /\ \A y \in S : y <= Max(S)
<1> DEFINE T == {b - x : x \in S}
<1>1. T \in SUBSET Nat /\ T # {}
  <2>1. \A x \in S : b - x \in Nat
    OBVIOUS
  <2>2. PICK x \in S : TRUE
    OBVIOUS
  <2> QED
    BY <2>1, <2>2
<1>2. PICK t \in T : \A y \in T : t <= y
  BY <1>1, LeastNat
<1>3. PICK x \in S : t = b - x
  OBVIOUS
<1>4. \A y \in S : x >= y
  BY <1>2, <1>3
<1> QED
  BY <1>4 DEF Max

(* The ID that MPI_Allreduce(MPI_MAX) agrees on is at least the counter of *)
(* each member of the parent, and no larger than the number of             *)
(* communicators.                                                          *)
LEMMA MaxIdBounds ==
  ASSUME TypeOK, TeamInv, NEW c \in DOMAIN comms, comms[c] # {}
  PROVE  /\ MaxId(c) \in Nat /\ 1 <= MaxId(c) /\ MaxId(c) <= Len(comms)
         /\ \A v \in comms[c] : nextid[v] <= MaxId(c)
<1>1. comms[c] \subseteq Units /\ Len(comms) \in Nat
  BY DEF TypeOK
<1> DEFINE S == {nextid[v] : v \in comms[c]}
<1>2. S \in SUBSET (1 .. Len(comms)) /\ S # {}
  BY <1>1 DEF TypeOK, TeamInv, CountersAreExact
<1>3. S \in SUBSET (0 .. Len(comms))
  BY <1>1, <1>2
<1>4. Max(S) \in S /\ \A y \in S : y <= Max(S)
  <2> HIDE DEF S
  <2> QED
    BY <1>1, <1>2, <1>3, MaxNat
<1> QED
  BY <1>1, <1>2, <1>4 DEF MaxId

(* dart_adapt_teamlist_get finds an entry with the ID it looks for, and    *)
(* misses it only if there is none.                                        *)
LEMMA PositionFacts ==
  ASSUME NEW t \in [Slots -> Seq(Entries)], NEW id \in Nat, Hash(id) \in Slots
  PROVE  /\ Position(t, id) \in {0} \cup DOMAIN t[Hash(id)]
         /\ Known(t, id) => /\ Position(t, id) \in DOMAIN t[Hash(id)]
                            /\ Get(t, id) \in Entries /\ Get(t, id).id = id
         /\ ~ Known(t, id) => \A k \in DOMAIN t[Hash(id)] : t[Hash(id)][k].id # id
<1> DEFINE s == t[Hash(id)]
           I == {i \in 1 .. Len(s) : s[i].id = id}
<1>1. s \in Seq(Entries) /\ DOMAIN s = 1 .. Len(s) /\ I \in SUBSET Nat
  OBVIOUS
<1>2. Position(t, id) = IF I # {} THEN Min(I) ELSE 0
  BY DEF Position, SelectInSeq
<1>3. I # {} => Min(I) \in I
  BY <1>1, MinNat
<1>4. CASE I = {}
  <2>1. Position(t, id) = 0
    BY <1>2, <1>4
  <2>2. \A k \in DOMAIN s : s[k].id # id
    BY <1>1, <1>4
  <2> QED
    BY <2>1, <2>2 DEF Known
<1>5. CASE I # {}
  <2> DEFINE p == Position(t, id)
  <2>1. p \in I
    BY <1>2, <1>3, <1>5
  <2> HIDE DEF p
  <2>2. p \in 1 .. Len(s) /\ s[p].id = id
    BY <2>1
  <2>3. p \in DOMAIN s /\ s[p] \in Entries /\ p # 0
    BY <1>1, <2>2
  <2>4. Get(t, id) = s[p] /\ Known(t, id)
    BY <2>3 DEF Get, Known, p
  <2> QED
    BY <2>2, <2>3, <2>4 DEF p
<1> QED
  BY <1>4, <1>5

(* An ID has a slot.                                                       *)
LEMMA HashType ==
  ASSUME NEW id \in Nat
  PROVE  Hash(id) \in Slots
BY TeamConstants DEF Hash, Slots

-----------------------------------------------------------------------------
(* A unit arrives in collective call i, which becomes o and may settle.    *)

Arrives(u, i, o) ==
  /\ Outside(u)
  /\ i \in Nat /\ DOMAIN ops' = DOMAIN ops \cup {i}
  /\ \A j \in DOMAIN ops : j # i => ops'[j] = ops[j]
  /\ ops'[i] = Settle(o, o.comm) /\ comms' = NewComms(o, o.comm)
  /\ o \in Calls /\ o.comm \in DOMAIN comms /\ o.new = 0
  /\ u \in o.arrived /\ o.left \cap o.arrived = {} /\ o.left \subseteq comms[o.comm]
  /\ i \in DOMAIN ops => /\ ~ Settled(i) /\ o.arrived = ops[i].arrived \cup {u}
                         /\ o.left = ops[i].left
  /\ i \notin DOMAIN ops => o.arrived = {u}
  /\ UNCHANGED <<nextid, table, team>>

(* What an arrival does to the call and to the communicators: the last one *)
(* to arrive in a creation settles its ID and makes its communicator.      *)
LEMMA ArriveNewComms ==
  ASSUME TypeOK, TeamInv, NEW u \in Units, NEW i, NEW o, Arrives(u, i, o)
  PROVE  /\ Len(comms) \in Nat /\ Len(comms') \in Nat /\ Len(comms) <= Len(comms')
         /\ \A c \in DOMAIN comms : c \in DOMAIN comms' /\ comms'[c] = comms[c]
         /\ comms' \in Seq(SUBSET Units)
         /\ ops'[i] \in Calls
         /\ ops'[i].comm = o.comm /\ ops'[i].arrived = o.arrived /\ ops'[i].left = o.left
         /\ ops'[i].kind = o.kind /\ ops'[i].group = o.group /\ ops'[i].id = o.id
         /\ \/ /\ o.kind = "create" /\ o.arrived = comms[o.comm]
               /\ ops'[i].max = MaxId(o.comm) /\ ops'[i].new = Len(comms) + 1
               /\ Len(comms') = Len(comms) + 1
            \/ /\ ~ (o.kind = "create" /\ o.arrived = comms[o.comm])
               /\ comms' = comms /\ ops'[i] = o
<1>1. comms \in Seq(SUBSET Units) /\ o.group \in SUBSET Units /\ o \in Calls
  BY DEF TypeOK, Arrives, Calls
<1>2. CASE o.kind = "create" /\ o.arrived = comms[o.comm]
  <2>1. comms[o.comm] # {} /\ o.comm \in DOMAIN comms
    BY <1>2 DEF Arrives
  <2>2. MaxId(o.comm) \in Nat
    BY <2>1, MaxIdBounds
  <2>3. ops'[i] = [o EXCEPT !.max = MaxId(o.comm), !.new = Len(comms) + 1]
        /\ comms' = Append(comms, o.group)
    BY <1>2 DEF Arrives, Settle, NewComms
  <2>4. /\ Len(comms) \in Nat /\ Len(comms') = Len(comms) + 1 /\ comms' \in Seq(SUBSET Units)
        /\ \A c \in DOMAIN comms : c \in DOMAIN comms' /\ comms'[c] = comms[c]
    BY <1>1, <2>3
  <2>5. /\ ops'[i] \in Calls /\ ops'[i].max = MaxId(o.comm) /\ ops'[i].new = Len(comms) + 1
        /\ ops'[i].comm = o.comm /\ ops'[i].arrived = o.arrived /\ ops'[i].left = o.left
        /\ ops'[i].kind = o.kind /\ ops'[i].group = o.group /\ ops'[i].id = o.id
    <3> DEFINE m == MaxId(o.comm)
               n == Len(comms) + 1
               r == ops'[i]
    <3>1. o \in Calls /\ m \in Nat /\ n \in Nat /\ r = [o EXCEPT !.max = m, !.new = n]
      BY <1>1, <2>2, <2>3, <2>4
    <3> HIDE DEF m, n, r
    <3>2. r \in Calls
      BY <3>1 DEF Calls
    <3>3. r.max = m /\ r.new = n
      BY <3>1 DEF Calls
    <3>4. /\ r.comm = o.comm /\ r.arrived = o.arrived /\ r.left = o.left
          /\ r.kind = o.kind /\ r.group = o.group /\ r.id = o.id
      BY <3>1 DEF Calls
    <3> QED
      BY <3>2, <3>3, <3>4 DEF m, n, r
  <2> QED
    BY <1>2, <2>4, <2>5
<1>3. CASE ~ (o.kind = "create" /\ o.arrived = comms[o.comm])
  <2>1. ops'[i] = o /\ comms' = comms
    BY <1>3 DEF Arrives, Settle, NewComms
  <2> QED
    BY <1>1, <1>3, <2>1
<1> QED
  BY <1>2, <1>3

(* An arrival keeps the calls sound: a new team has a new communicator.    *)
LEMMA ArriveCalls ==
  ASSUME TypeOK, TeamInv, NEW u \in Units, NEW i, NEW o, Arrives(u, i, o)
  PROVE  CallsAreSound'
<1> USE ArriveNewComms
<1>1. 1 <= Len(comms')
  BY DEF TeamInv, CallsAreSound
<1>2. ASSUME NEW j \in DOMAIN ops'
      PROVE  /\ ops'[j].comm \in DOMAIN comms'
             /\ Settled(j)' <=> ops'[j].kind = "create" /\ Complete(j)'
             /\ Settled(j)' => 1 <= ops'[j].max /\ ops'[j].max < ops'[j].new /\ ops'[j].new <= Len(comms')
             /\ ops'[j].left \subseteq Members(j)'
             /\ ~ Complete(j)' => ops'[j].left \cap ops'[j].arrived = {}
  <2>1. CASE j # i
    <3>1. j \in DOMAIN ops /\ ops'[j] = ops[j]
      BY <2>1 DEF Arrives
    <3>2. ops[j] \in Calls
      BY <3>1 DEF TypeOK
    <3> QED
      BY <3>1, <3>2 DEF TeamInv, CallsAreSound, Settled, Complete, Members, Calls
  <2>2. CASE j = i
    <3>1. o \in Calls /\ o.comm \in DOMAIN comms /\ o.new = 0 /\ u \in o.arrived
          /\ o.left \cap o.arrived = {} /\ o.left \subseteq comms[o.comm]
      BY DEF Arrives
    <3>2. CASE o.kind = "create" /\ o.arrived = comms[o.comm]
      BY <2>2, <3>1, <3>2, MaxIdBounds DEF Settled, Complete, Members
    <3>3. CASE ~ (o.kind = "create" /\ o.arrived = comms[o.comm])
      BY <2>2, <3>1, <3>3 DEF Settled, Complete, Members
    <3> QED
      BY <3>2, <3>3
  <2> QED
    BY <2>1, <2>2
<1>3. ASSUME NEW j \in DOMAIN ops', NEW k \in DOMAIN ops', Settled(j)', ops'[j].new = ops'[k].new
      PROVE  j = k
  <2>1. \A m \in DOMAIN ops : Settled(m) => ops[m].new <= Len(comms)
    BY DEF TeamInv, CallsAreSound
  <2>2. \A m \in DOMAIN ops : m # i => ops'[m] = ops[m]
    BY DEF Arrives
  <2>3. \A m \in DOMAIN ops' : m # i => m \in DOMAIN ops
    BY DEF Arrives
  <2>4. o.new = 0
    BY DEF Arrives
  <2> QED
    BY <1>3, <2>1, <2>2, <2>3, <2>4 DEF TeamInv, CallsAreSound, Settled
<1> QED
  BY <1>1, <1>2, <1>3 DEF CallsAreSound

(* A unit arrives only when it is in no other call.                        *)
LEMMA ArriveOneAtATime ==
  ASSUME TypeOK, TeamInv, NEW u \in Units, NEW i, NEW o, Arrives(u, i, o)
  PROVE  OneAtATime'
<1>1. ASSUME NEW v \in Units, NEW j \in DOMAIN ops', Inside(v, j)'
      PROVE  \/ v # u /\ j \in DOMAIN ops /\ Inside(v, j)
             \/ v = u /\ j = i
  <2>1. CASE j # i
    BY <1>1, <2>1 DEF Arrives, Inside, Outside
  <2>2. CASE j = i
    <3>1. v \in o.arrived \ o.left
      BY <1>1, <2>2, ArriveNewComms DEF Inside
    <3> QED
      BY <2>2, <3>1 DEF Arrives, Inside
  <2> QED
    BY <2>1, <2>2
<1> QED
  BY <1>1 DEF OneAtATime, TeamInv

(* The ID of a team that settles is at or above the counters of all        *)
(* members of its parent, who are all inside the call; nobody has left it  *)
(* yet.                                                                    *)
LEMMA ArriveCounters ==
  ASSUME TypeOK, TeamInv, NEW u \in Units, NEW i, NEW o, Arrives(u, i, o)
  PROVE  CountersAreExact'
<1>1. nextid' = nextid /\ nextid \in [Units -> Nat]
  BY DEF Arrives, TypeOK
<1>2. ASSUME NEW j \in DOMAIN ops', Settled(j)'
      PROVE  \/ j \in DOMAIN ops /\ ops'[j] = ops[j] /\ Settled(j)
             \/ j = i /\ ops'[j].left = {} /\ \A v \in ops'[j].arrived : nextid[v] <= ops'[j].max
  <2>1. CASE j # i
    BY <1>2, <2>1 DEF Arrives, Settled
  <2>2. CASE j = i
    <3>1. o.kind = "create" /\ o.arrived = comms[o.comm] /\ o.comm \in DOMAIN comms
          /\ o.left = {} /\ u \in o.arrived
      <4>1. ops'[i].new # 0 /\ o.new = 0
        BY <1>2, <2>2 DEF Arrives, Settled
      <4>2. o.kind = "create" /\ o.arrived = comms[o.comm]
        BY <4>1, ArriveNewComms
      <4> QED
        BY <4>2 DEF Arrives
    <3> QED
      BY <2>2, <3>1, ArriveNewComms, MaxIdBounds
  <2> QED
    BY <2>1, <2>2
<1>3. ASSUME NEW v \in Units PROVE 1 <= nextid[v] /\ nextid[v] <= Len(comms')
  BY <1>1, ArriveNewComms DEF TeamInv, CountersAreExact
<1>4. ASSUME NEW v \in Units, NEW j \in DOMAIN ops', Settled(j)'
      PROVE  /\ v \in ops'[j].left => ops'[j].max < nextid[v]
             /\ Inside(v, j)' => nextid[v] <= ops'[j].max
  BY <1>2, <1>4 DEF TeamInv, CountersAreExact, Inside
<1>5. ASSUME NEW v \in Units, NEW j \in DOMAIN ops', NEW k \in DOMAIN ops',
             Settled(j)', Settled(k)', v \in ops'[j].left \cap ops'[k].left,
             ops'[j].max = ops'[k].max
      PROVE  j = k
  BY <1>2, <1>5 DEF TeamInv, CountersAreExact
<1> QED
  BY <1>1, <1>3, <1>4, <1>5 DEF CountersAreExact

(* An arrival takes no team from anybody.                                  *)
LEMMA ArriveGrows ==
  ASSUME NEW u \in Units, NEW i, NEW o, Arrives(u, i, o), NEW v \in Units
  PROVE  Given(v) \subseteq Given(v)'
<1>1. ASSUME NEW j \in DOMAIN ops, Settled(j) PROVE j \in DOMAIN ops' /\ ops'[j] = ops[j]
  BY <1>1 DEF Arrives
<1> QED
  BY <1>1 DEF Given, Settled

(* Nor does it change tables and teams.                                    *)
LEMMA ArriveGiven ==
  ASSUME TypeOK, TeamInv, NEW u \in Units, NEW i, NEW o, Arrives(u, i, o)
  PROVE  TeamsWereGiven'
BY ArriveGrows DEF TeamInv, TeamsWereGiven, Arrives

(* An arrival preserves the invariant.                                     *)
LEMMA ArriveInv ==
  ASSUME TypeOK, TeamInv, NEW u \in Units, NEW i, NEW o, Arrives(u, i, o)
  PROVE  TeamInv'
BY ArriveCalls, ArriveOneAtATime, ArriveCounters, ArriveGiven DEF TeamInv

-----------------------------------------------------------------------------
(* The table of teams                                                      *)

(* Every entry of table t names a team of G.                               *)
NamesIn(t, G) ==
  \A s \in Slots : \A k \in DOMAIN t[s] : [id |-> t[s][k].id, comm |-> t[s][k].comm] \in G

(* dart_adapt_teamlist_alloc adds the name of one team to the table.       *)
LEMMA AllocFacts ==
  ASSUME NEW t \in [Slots -> Seq(Entries)], NEW id \in Nat, NEW c \in Nat
  PROVE  /\ Alloc(t, id, c) \in [Slots -> Seq(Entries)]
         /\ \A G : NamesIn(t, G) /\ [id |-> id, comm |-> c] \in G => NamesIn(Alloc(t, id, c), G)
<1> DEFINE e == Entry(id, c)
           s == t[Hash(id)]
           n == <<e>> \o s
<1>1. e \in Entries /\ e.id = id /\ e.comm = c
  BY DEF Entry, Entries
<1>2. Hash(id) \in Slots /\ s \in Seq(Entries)
  BY HashType
<1> HIDE DEF e
<1>3. /\ n \in Seq(Entries) /\ DOMAIN n = 1 .. Len(s) + 1 /\ n[1] = e
      /\ \A k \in DOMAIN n : k # 1 => k - 1 \in DOMAIN s /\ n[k] = s[k - 1]
  BY <1>1, <1>2
<1>4. Alloc(t, id, c) = [t EXCEPT ![Hash(id)] = n]
  BY DEF Alloc, e
<1> HIDE DEF n
<1>5. Alloc(t, id, c) \in [Slots -> Seq(Entries)]
  BY <1>2, <1>3, <1>4
<1>6. ASSUME NEW G, NamesIn(t, G), [id |-> id, comm |-> c] \in G,
             NEW z \in Slots, NEW k \in DOMAIN Alloc(t, id, c)[z]
      PROVE  [id |-> Alloc(t, id, c)[z][k].id, comm |-> Alloc(t, id, c)[z][k].comm] \in G
  <2>1. CASE z # Hash(id)
    BY <1>2, <1>4, <1>6, <2>1 DEF NamesIn
  <2>2. CASE z = Hash(id)
    <3>1. Alloc(t, id, c)[z] = n
      BY <1>2, <1>4, <2>2
    <3> QED
      BY <1>1, <1>2, <1>3, <1>6, <3>1 DEF NamesIn
  <2> QED
    BY <2>1, <2>2
<1> QED
  BY <1>5, <1>6 DEF NamesIn

(* dart_adapt_teamlist_dealloc, whatever it unlinks, adds no name.         *)
LEMMA DeallocFacts ==
  ASSUME NEW t \in [Slots -> Seq(Entries)], NEW id \in Nat
  PROVE  /\ Dealloc(t, id) \in [Slots -> Seq(Entries)]
         /\ \A G : NamesIn(t, G) => NamesIn(Dealloc(t, id), G)
<1> DEFINE s == t[Hash(id)]
           n == DeallocList(s, id)
           I == {i \in 1 .. Len(s) : s[i].id # id}
           p == IF I # {} THEN Min(I) ELSE 0
<1>1. Hash(id) \in Slots /\ s \in Seq(Entries)
  BY HashType
<1>2. I # {} => Min(I) \in I
  <2>1. I \in SUBSET Nat
    BY <1>1
  <2> HIDE DEF I
  <2> QED
    BY <2>1, MinNat
<1>3. p \in {0} \cup (1 .. Len(s)) /\ Len(s) \in Nat
  BY <1>1, <1>2
<1>4. n = CASE p = 0 -> s [] p = 1 -> Tail(s) [] OTHER -> [s EXCEPT ![p].freed = TRUE]
  BY DEF DeallocList, SelectInSeq
<1> HIDE DEF p, I, n
<1>5. /\ n \in Seq(Entries)
      /\ \A k \in DOMAIN n : \E j \in DOMAIN s : n[k].id = s[j].id /\ n[k].comm = s[j].comm
  <2>1. CASE p = 0
    BY <1>1, <1>4, <2>1
  <2>2. CASE p = 1
    <3>1. n = Tail(s) /\ s # <<>>
      BY <1>3, <1>4, <2>2
    <3>2. /\ n \in Seq(Entries) /\ Len(n) = Len(s) - 1
          /\ \A k \in 1 .. Len(n) : n[k] = s[k + 1]
      BY <1>1, <3>1
    <3>3. /\ DOMAIN n = 1 .. Len(n) /\ DOMAIN s = 1 .. Len(s) /\ Len(n) \in Nat
      BY <1>1, <3>2
    <3>4. \A k \in DOMAIN n : k + 1 \in DOMAIN s /\ n[k] = s[k + 1]
      BY <1>3, <3>2, <3>3
    <3> QED
      BY <3>2, <3>4
  <2>3. CASE p # 0 /\ p # 1
    <3>1. n = [s EXCEPT ![p].freed = TRUE] /\ p \in 1 .. Len(s)
      BY <1>3, <1>4, <2>3
    <3>2. n = [s EXCEPT ![p] = [s[p] EXCEPT !.freed = TRUE]]
      BY <1>1, <3>1
    <3>3. [s[p] EXCEPT !.freed = TRUE] \in Entries
          /\ [s[p] EXCEPT !.freed = TRUE].id = s[p].id
          /\ [s[p] EXCEPT !.freed = TRUE].comm = s[p].comm
      <4> DEFINE x == s[p]
      <4>1. x \in Entries
        BY <1>1, <3>1
      <4> HIDE DEF x
      <4>2. [x EXCEPT !.freed = TRUE] \in Entries
        BY <4>1 DEF Entries
      <4>3. [x EXCEPT !.freed = TRUE].id = x.id /\ [x EXCEPT !.freed = TRUE].comm = x.comm
        BY <4>1 DEF Entries
      <4> QED
        BY <4>2, <4>3 DEF x
    <3> QED
      BY <1>1, <3>1, <3>2, <3>3
  <2> QED
    BY <2>1, <2>2, <2>3
<1>6. Dealloc(t, id) = [t EXCEPT ![Hash(id)] = n]
  BY <1>1 DEF Dealloc, n
<1>7. Dealloc(t, id) \in [Slots -> Seq(Entries)]
  BY <1>1, <1>5, <1>6
<1>8. ASSUME NEW G, NamesIn(t, G), NEW z \in Slots, NEW k \in DOMAIN Dealloc(t, id)[z]
      PROVE  [id |-> Dealloc(t, id)[z][k].id, comm |-> Dealloc(t, id)[z][k].comm] \in G
  <2>1. CASE z # Hash(id)
    BY <1>1, <1>6, <1>8, <2>1 DEF NamesIn
  <2>2. CASE z = Hash(id)
    <3>1. Dealloc(t, id)[z] = n
      BY <1>1, <1>6, <2>2
    <3> QED
      BY <1>1, <1>5, <1>8, <3>1 DEF NamesIn
  <2> QED
    BY <2>1, <2>2
<1> QED
  BY <1>7, <1>8 DEF NamesIn

(* Registering a lock changes no name in the table.                        *)
LEMMA SetLockFacts ==
  ASSUME NEW t \in [Slots -> Seq(Entries)], NEW id \in Nat, NEW b \in BOOLEAN
  PROVE  /\ SetLock(t, id, b) \in [Slots -> Seq(Entries)]
         /\ \A G : NamesIn(t, G) => NamesIn(SetLock(t, id, b), G)
<1> DEFINE s == t[Hash(id)]
           p == Position(t, id)
           n == [s EXCEPT ![p].lock = b]
<1>1. Hash(id) \in Slots /\ s \in Seq(Entries)
  BY HashType
<1>2. p \in {0} \cup DOMAIN s
  BY <1>1, PositionFacts
<1>3. SetLock(t, id, b) = [t EXCEPT ![Hash(id)] = n]
  BY <1>1 DEF SetLock
<1>4. /\ n \in Seq(Entries)
      /\ \A k \in DOMAIN n : \E j \in DOMAIN s : n[k].id = s[j].id /\ n[k].comm = s[j].comm
  <2> HIDE DEF p
  <2>1. CASE p = 0
    <3>1. n = s
      BY <1>1, <2>1
    <3> QED
      BY <1>1, <3>1
  <2>2. CASE p \in DOMAIN s
    <3>1. n = [s EXCEPT ![p] = [s[p] EXCEPT !.lock = b]]
      BY <1>1, <2>2
    <3>2. [s[p] EXCEPT !.lock = b] \in Entries
          /\ [s[p] EXCEPT !.lock = b].id = s[p].id
          /\ [s[p] EXCEPT !.lock = b].comm = s[p].comm
      <4> DEFINE x == s[p]
      <4>1. x \in Entries
        BY <1>1, <2>2
      <4> HIDE DEF x
      <4>2. [x EXCEPT !.lock = b] \in Entries
        BY <4>1 DEF Entries
      <4>3. [x EXCEPT !.lock = b].id = x.id /\ [x EXCEPT !.lock = b].comm = x.comm
        BY <4>1 DEF Entries
      <4> QED
        BY <4>2, <4>3 DEF x
    <3> QED
      BY <1>1, <2>2, <3>1, <3>2
  <2> QED
    BY <1>2, <2>1, <2>2
<1> HIDE DEF n
<1>5. SetLock(t, id, b) \in [Slots -> Seq(Entries)]
  BY <1>1, <1>3, <1>4
<1>6. ASSUME NEW G, NamesIn(t, G), NEW z \in Slots, NEW k \in DOMAIN SetLock(t, id, b)[z]
      PROVE  [id |-> SetLock(t, id, b)[z][k].id, comm |-> SetLock(t, id, b)[z][k].comm] \in G
  <2>1. CASE z # Hash(id)
    BY <1>1, <1>3, <1>6, <2>1 DEF NamesIn
  <2>2. CASE z = Hash(id)
    <3>1. SetLock(t, id, b)[z] = n
      BY <1>1, <1>3, <2>2
    <3> QED
      BY <1>1, <1>4, <1>6, <3>1 DEF NamesIn
  <2> QED
    BY <2>1, <2>2
<1> QED
  BY <1>5, <1>6 DEF NamesIn

-----------------------------------------------------------------------------
(* A unit leaves collective call i.                                        *)

Leaves(u, i) == i \in DOMAIN ops /\ ops' = [ops EXCEPT ![i] = Leave(@, u)] /\ comms' = comms

(* What that changes in call j.                                            *)
SameCall(u, i, j) ==
  /\ ops'[j].left = IF j = i THEN ops[j].left \cup {u} ELSE ops[j].left
  /\ ops'[j].arrived = ops[j].arrived /\ ops'[j].comm = ops[j].comm
  /\ ops'[j].max = ops[j].max /\ ops'[j].new = ops[j].new
  /\ ops'[j].kind = ops[j].kind /\ ops'[j].group = ops[j].group
  /\ ops'[j].id = ops[j].id

(* What it changes in all of them.                                         *)
LeaveEffect(u, i) ==
  /\ DOMAIN ops' = DOMAIN ops /\ comms' = comms
  /\ \A j \in DOMAIN ops : SameCall(u, i, j)

(* Leaving a call adds the unit to the set of those that left it, and      *)
(* changes nothing else.                                                   *)
LEMMA LeaveCall ==
  ASSUME TypeOK, NEW u \in Units, NEW i, Leaves(u, i)
  PROVE  ops' \in Seq(Calls) /\ LeaveEffect(u, i)
<1> DEFINE o == ops[i]
           r == [o EXCEPT !.left = @ \cup {u}]
<1>1. o \in Calls /\ i \in DOMAIN ops /\ ops \in Seq(Calls)
  BY DEF TypeOK, Leaves
<1>2. ops' = [ops EXCEPT ![i] = r]
  BY DEF Leaves, Leave
<1> HIDE DEF o
<1>3. r \in Calls
  BY <1>1 DEF Calls
<1>4. /\ r.left = o.left \cup {u} /\ r.arrived = o.arrived /\ r.comm = o.comm
      /\ r.max = o.max /\ r.new = o.new /\ r.kind = o.kind /\ r.group = o.group
      /\ r.id = o.id
  BY <1>1 DEF Calls
<1> HIDE DEF r
<1>5. ops' \in Seq(Calls) /\ DOMAIN ops' = DOMAIN ops
  BY <1>1, <1>2, <1>3
<1>6. \A j \in DOMAIN ops : ops'[j] = IF j = i THEN r ELSE ops[j]
  BY <1>1, <1>2
<1> QED
  BY <1>4, <1>5, <1>6 DEF o, LeaveEffect, SameCall, Leaves

(* What a unit was given it keeps.                                         *)
LEMMA LeaveGiven ==
  ASSUME NEW u \in Units, NEW i, LeaveEffect(u, i), NEW v \in Units
  PROVE  Given(v) \subseteq Given(v)'
<1> SUFFICES ASSUME NEW g \in Given(v), g # [id |-> TeamAll, comm |-> World]
             PROVE  g \in Given(v)'
  BY DEF Given
<1>1. PICK j \in DOMAIN ops : /\ Settled(j) /\ v \in ops[j].left \cap ops[j].group
                              /\ g = [id |-> ops[j].max, comm |-> ops[j].new]
  BY DEF Given
<1>2. /\ j \in DOMAIN ops' /\ Settled(j)' /\ v \in ops'[j].left \cap ops'[j].group
      /\ g = [id |-> ops'[j].max, comm |-> ops'[j].new]
  BY <1>1 DEF LeaveEffect, SameCall, Settled
<1> QED
  BY <1>2 DEF Given

(* Who leaves a call enters no other.                                      *)
LEMMA LeaveOneAtATime ==
  ASSUME TeamInv, NEW u \in Units, NEW i, LeaveEffect(u, i)
  PROVE  OneAtATime'
BY ZenonT(60) DEF TeamInv, OneAtATime, LeaveEffect, SameCall, Inside

(* A unit leaves a call that is complete, or one that it has not joined.   *)
LEMMA LeaveCalls ==
  ASSUME TypeOK, TeamInv, NEW u \in Units, NEW i \in DOMAIN ops, LeaveEffect(u, i),
         u \in Members(i), Complete(i) \/ u \notin ops[i].arrived
  PROVE  CallsAreSound'
<1> USE DEF Settled, Complete, Members
<1>1. 1 <= Len(comms') /\ comms' = comms
  BY DEF TeamInv, CallsAreSound, LeaveEffect
<1>2. ASSUME NEW j \in DOMAIN ops'
      PROVE  /\ ops'[j].comm \in DOMAIN comms'
             /\ Settled(j)' <=> ops'[j].kind = "create" /\ Complete(j)'
             /\ Settled(j)' => 1 <= ops'[j].max /\ ops'[j].max < ops'[j].new /\ ops'[j].new <= Len(comms')
             /\ ops'[j].left \subseteq Members(j)'
             /\ ~ Complete(j)' => ops'[j].left \cap ops'[j].arrived = {}
  <2>1. j \in DOMAIN ops /\ SameCall(u, i, j)
    BY DEF LeaveEffect
  <2>2. /\ ops[j].comm \in DOMAIN comms
        /\ Settled(j) <=> ops[j].kind = "create" /\ Complete(j)
        /\ Settled(j) => 1 <= ops[j].max /\ ops[j].max < ops[j].new /\ ops[j].new <= Len(comms)
        /\ ops[j].left \subseteq Members(j)
        /\ ~ Complete(j) => ops[j].left \cap ops[j].arrived = {}
    BY <2>1 DEF TeamInv, CallsAreSound
  <2> QED
    BY <1>1, <2>1, <2>2 DEF SameCall
<1>3. ASSUME NEW j \in DOMAIN ops', NEW k \in DOMAIN ops', Settled(j)', ops'[j].new = ops'[k].new
      PROVE  j = k
  <2>1. j \in DOMAIN ops /\ k \in DOMAIN ops /\ ops'[j].new = ops[j].new /\ ops'[k].new = ops[k].new
    BY DEF LeaveEffect, SameCall
  <2> QED
    BY <1>3, <2>1 DEF TeamInv, CallsAreSound
<1> QED
  BY <1>1, <1>2, <1>3 DEF CallsAreSound

(* Leaving a call that creates no team.                                    *)
LEMMA LeaveUnsettled ==
  ASSUME TypeOK, TeamInv, NEW u \in Units, NEW i \in DOMAIN ops, LeaveEffect(u, i),
         ~ Settled(i), nextid' = nextid
  PROVE  CountersAreExact'
<1> USE DEF Settled, Inside
<1>1. \A v \in Units : 1 <= nextid'[v] /\ nextid'[v] <= Len(comms')
  BY DEF TeamInv, CountersAreExact, LeaveEffect
<1>2. ASSUME NEW j \in DOMAIN ops', Settled(j)'
      PROVE  /\ j \in DOMAIN ops /\ Settled(j) /\ ops'[j].left = ops[j].left
             /\ ops'[j].arrived = ops[j].arrived /\ ops'[j].max = ops[j].max
  <2>1. j \in DOMAIN ops /\ SameCall(u, i, j)
    BY DEF LeaveEffect
  <2> QED
    BY <1>2, <2>1 DEF SameCall
<1>3. ASSUME NEW v \in Units, NEW j \in DOMAIN ops', Settled(j)'
      PROVE  /\ v \in ops'[j].left => ops'[j].max < nextid'[v]
             /\ Inside(v, j)' => nextid'[v] <= ops'[j].max
  BY <1>2, <1>3 DEF TeamInv, CountersAreExact
<1>4. ASSUME NEW v \in Units, NEW j \in DOMAIN ops', NEW k \in DOMAIN ops',
             Settled(j)', Settled(k)', v \in ops'[j].left \cap ops'[k].left,
             ops'[j].max = ops'[k].max
      PROVE  j = k
  <2>1. /\ j \in DOMAIN ops /\ Settled(j) /\ k \in DOMAIN ops /\ Settled(k)
        /\ v \in ops[j].left \cap ops[k].left /\ ops[j].max = ops[k].max
    BY <1>2, <1>4
  <2> QED
    BY <2>1 DEF TeamInv, CountersAreExact
<1> QED
  BY <1>1, <1>3, <1>4 DEF CountersAreExact

(* Finishing a creation moves the counter past its ID.                     *)
LEMMA LeaveSettled ==
  ASSUME TypeOK, TeamInv, NEW u \in Units, NEW i \in DOMAIN ops, LeaveEffect(u, i),
         Settled(i), Inside(u, i), nextid' = [nextid EXCEPT ![u] = ops[i].max + 1]
  PROVE  CountersAreExact'
<1>1. nextid \in [Units -> Nat] /\ \A j \in DOMAIN ops : ops[j].max \in Nat /\ ops[j].new \in Nat
  <2>1. nextid \in [Units -> Nat] /\ \A j \in DOMAIN ops : ops[j] \in Calls
    BY DEF TypeOK
  <2> QED
    BY <2>1 DEF Calls
<1>2. nextid[u] <= ops[i].max /\ ops[i].max < ops[i].new /\ ops[i].new <= Len(comms)
      /\ Len(comms) \in Nat /\ comms' = comms
  BY DEF TeamInv, CountersAreExact, CallsAreSound, TypeOK, LeaveEffect
<1>3. nextid'[u] = ops[i].max + 1 /\ \A v \in Units : v # u => nextid'[v] = nextid[v]
  BY <1>1
<1>4. \A v \in Units : 1 <= nextid'[v] /\ nextid'[v] <= Len(comms')
  BY <1>1, <1>2, <1>3 DEF TeamInv, CountersAreExact
<1>5. ASSUME NEW j \in DOMAIN ops', Settled(j)'
      PROVE  /\ j \in DOMAIN ops /\ Settled(j) /\ SameCall(u, i, j)
             /\ ops'[j].max = ops[j].max /\ ops'[j].arrived = ops[j].arrived
             /\ \A v : v \in ops'[j].left <=> v \in ops[j].left \/ (v = u /\ j = i)
  <2>1. j \in DOMAIN ops /\ SameCall(u, i, j)
    BY DEF LeaveEffect
  <2> QED
    BY <1>5, <2>1 DEF SameCall, Settled
<1>6. ASSUME NEW v \in Units, NEW j \in DOMAIN ops', Settled(j)'
      PROVE  /\ v \in ops'[j].left => ops'[j].max < nextid'[v]
             /\ Inside(v, j)' => nextid'[v] <= ops'[j].max
  <2>1. /\ j \in DOMAIN ops /\ Settled(j)
        /\ ops'[j].max = ops[j].max /\ ops'[j].arrived = ops[j].arrived
        /\ \A w : w \in ops'[j].left <=> w \in ops[j].left \/ (w = u /\ j = i)
    BY <1>5, <1>6
  <2>2. /\ v \in ops[j].left => ops[j].max < nextid[v]
        /\ Inside(v, j) => nextid[v] <= ops[j].max
    BY <2>1 DEF TeamInv, CountersAreExact
  <2>3. CASE v # u
    BY <1>3, <2>1, <2>2, <2>3 DEF Inside
  <2>4. CASE v = u
    <3>1. Inside(u, j) => j = i
      BY <2>1 DEF TeamInv, OneAtATime
    <3>2. ~ Inside(v, j)'
      BY <2>1, <2>4, <3>1 DEF Inside
    <3>3. v \in ops'[j].left => ops'[j].max < nextid'[v]
      BY <1>1, <1>2, <1>3, <2>1, <2>2, <2>4
    <3> QED
      BY <3>2, <3>3
  <2> QED
    BY <2>3, <2>4
<1>7. ASSUME NEW v \in Units, NEW j \in DOMAIN ops', NEW k \in DOMAIN ops',
             Settled(j)', Settled(k)', v \in ops'[j].left \cap ops'[k].left,
             ops'[j].max = ops'[k].max
      PROVE  j = k
  <2>1. /\ j \in DOMAIN ops /\ Settled(j) /\ k \in DOMAIN ops /\ Settled(k)
        /\ v \in ops[j].left \/ (v = u /\ j = i)
        /\ v \in ops[k].left \/ (v = u /\ k = i)
        /\ ops[j].max = ops[k].max
    BY <1>5, <1>7
  <2>2. /\ v \in ops[j].left => ops[j].max < nextid[v]
        /\ v \in ops[k].left => ops[k].max < nextid[v]
    BY <2>1 DEF TeamInv, CountersAreExact
  <2>3. CASE v \in ops[j].left /\ v \in ops[k].left
    BY <2>1, <2>3 DEF TeamInv, CountersAreExact
  <2>4. CASE v = u /\ (j = i \/ k = i)
    BY <1>1, <1>2, <2>1, <2>2, <2>4
  <2> QED
    BY <2>1, <2>3, <2>4
<1> QED
  BY <1>4, <1>6, <1>7 DEF CountersAreExact

-----------------------------------------------------------------------------
(* One lemma per action                                                    *)

(* A team that a unit was given has a communicator.                        *)
LEMMA GivenComm ==
  ASSUME TypeOK, TeamInv, NEW u \in Units, NEW g \in Given(u)
  PROVE  g \in Teams /\ g.comm \in DOMAIN comms
<1>1. Len(comms) \in Nat /\ 1 <= Len(comms) /\ DOMAIN comms = 1 .. Len(comms)
  BY DEF TypeOK, TeamInv, CallsAreSound
<1>2. CASE g = [id |-> TeamAll, comm |-> World]
  BY <1>1, <1>2 DEF Teams, TeamAll, World
<1>3. CASE g # [id |-> TeamAll, comm |-> World]
  <2>1. PICK i \in DOMAIN ops : Settled(i) /\ g = [id |-> ops[i].max, comm |-> ops[i].new]
    BY <1>3 DEF Given
  <2>2. ops[i].max \in Nat /\ ops[i].new \in Nat
    <3>1. ops[i] \in Calls
      BY DEF TypeOK
    <3> QED
      BY <3>1 DEF Calls
  <2>3. ops[i].new <= Len(comms) /\ 1 <= ops[i].new
    BY <2>1, <2>2 DEF TeamInv, CallsAreSound, Settled
  <2> QED
    BY <1>1, <2>1, <2>2, <2>3 DEF Teams
<1> QED
  BY <1>2, <1>3

(* The table of a unit, in the form of the lemmas above.                   *)
LEMMA TableGiven ==
  ASSUME TypeOK, TeamInv, NEW u \in Units
  PROVE  table[u] \in [Slots -> Seq(Entries)] /\ NamesIn(table[u], Given(u))
BY DEF TypeOK, TeamInv, TeamsWereGiven, NamesIn

(* A unit's teams have different IDs, and a communicator has one ID.       *)
LEMMA GivenIdentifies ==
  ASSUME TypeOK, TeamInv, NEW u \in Units, NEW v \in Units, NEW g \in Given(u), NEW h \in Given(v)
  PROVE  /\ g.comm = h.comm => g.id = h.id
         /\ u = v /\ g.id = h.id => g = h
<1>1. ASSUME NEW w \in Units, NEW x \in Given(w)
      PROVE  \/ x = [id |-> TeamAll, comm |-> World]
             \/ \E i \in DOMAIN ops : /\ Settled(i) /\ w \in ops[i].left
                                      /\ x = [id |-> ops[i].max, comm |-> ops[i].new]
                                      /\ 1 <= ops[i].max /\ ops[i].max < ops[i].new
                                      /\ ops[i].max \in Nat /\ ops[i].new \in Nat
  <2>1. CASE x # [id |-> TeamAll, comm |-> World]
    <3>1. PICK i \in DOMAIN ops : /\ Settled(i) /\ w \in ops[i].left
                                  /\ x = [id |-> ops[i].max, comm |-> ops[i].new]
      BY <2>1 DEF Given
    <3>2. ops[i] \in Calls
      BY DEF TypeOK
    <3>3. ops[i].max \in Nat /\ ops[i].new \in Nat
      BY <3>2 DEF Calls
    <3> QED
      BY <3>1, <3>3 DEF TeamInv, CallsAreSound
  <2> QED
    BY <2>1
<1>2. CASE g = [id |-> TeamAll, comm |-> World]
  BY <1>1, <1>2 DEF TeamAll, World
<1>3. CASE h = [id |-> TeamAll, comm |-> World]
  BY <1>1, <1>3 DEF TeamAll, World
<1>4. CASE g # [id |-> TeamAll, comm |-> World] /\ h # [id |-> TeamAll, comm |-> World]
  <2>1. PICK i \in DOMAIN ops : Settled(i) /\ u \in ops[i].left
                                /\ g = [id |-> ops[i].max, comm |-> ops[i].new]
    BY <1>1, <1>4
  <2>2. PICK j \in DOMAIN ops : Settled(j) /\ v \in ops[j].left
                                /\ h = [id |-> ops[j].max, comm |-> ops[j].new]
    BY <1>1, <1>4
  <2>3. g.comm = h.comm => i = j
    BY <2>1, <2>2 DEF TeamInv, CallsAreSound
  <2>4. u = v /\ g.id = h.id => i = j
    BY <2>1, <2>2 DEF TeamInv, CountersAreExact
  <2> QED
    BY <2>1, <2>2, <2>3, <2>4
<1> QED
  BY <1>2, <1>3, <1>4

(* The first unit to make a collective call arrives in a new one, on the   *)
(* communicator of the team it named: its table has no other team under    *)
(* that ID.                                                                *)
LEMMA StartArrives ==
  ASSUME TypeOK, TeamInv, NEW u \in Units, NEW h \in team[u],
         NEW kind \in {"create", "destroy", "lock"}, NEW G \in SUBSET Units,
         StartOp(u, h, kind, G), UNCHANGED <<nextid, table, team>>
  PROVE  \E o \in Calls :
           /\ Arrives(u, Len(ops) + 1, o) /\ o.group = G
           /\ ops' = Append(ops, Settle(o, o.comm)) /\ Len(ops) + 1 \notin DOMAIN ops
           /\ o.id = h.id /\ o.comm = h.comm /\ h \in Given(u)
<1> DEFINE t == table[u]
           c == Get(t, h.id).comm
           o == [kind |-> kind, id |-> h.id, comm |-> c, group |-> G,
                 arrived |-> {u}, left |-> {}, max |-> 0, new |-> 0]
           i == Len(ops) + 1
<1>1. h.id \in Nat /\ Hash(h.id) \in Slots /\ t \in [Slots -> Seq(Entries)]
  BY HashType, SMTT(60) DEF TypeOK, Teams
<1>2. c \in DOMAIN comms /\ c \in Nat /\ c = h.comm /\ h \in Given(u)
  <2>1. Known(t, h.id)
    BY DEF StartOp
  <2> DEFINE p == Position(t, h.id)
             e == t[Hash(h.id)][p]
             g == [id |-> e.id, comm |-> e.comm]
  <2>2. p \in DOMAIN t[Hash(h.id)] /\ e \in Entries /\ e.id = h.id
    BY <1>1, <2>1, PositionFacts DEF Get
  <2>3. g \in Given(u)
    BY <1>1, <2>2 DEF TeamInv, TeamsWereGiven
  <2>4. e.comm \in DOMAIN comms
    BY <2>3, GivenComm
  <2>5. h \in Given(u)
    BY DEF TeamInv, TeamsWereGiven
  <2>6. g.id = e.id /\ g.comm = e.comm
    OBVIOUS
  <2> HIDE DEF g
  <2>7. g = h
    BY <2>2, <2>3, <2>5, <2>6, GivenIdentifies
  <2> QED
    BY <2>2, <2>4, <2>5, <2>6, <2>7 DEF Get, Entries
<1>3. ops \in Seq(Calls) /\ Len(ops) \in Nat /\ DOMAIN ops = 1 .. Len(ops)
  BY DEF TypeOK
<1>4. /\ Outside(u) /\ ops' = Append(ops, Settle(o, c)) /\ comms' = NewComms(o, c)
  BY DEF StartOp
<1> HIDE DEF c
<1>5. o \in Calls
  BY <1>1, <1>2 DEF Calls
<1>6. /\ i \in Nat /\ i \notin DOMAIN ops /\ DOMAIN ops' = DOMAIN ops \cup {i}
      /\ ops'[i] = Settle(o, c) /\ \A j \in DOMAIN ops : j # i => ops'[j] = ops[j]
  <2> HIDE DEF o
  <2> QED
    BY <1>3, <1>4
<1>7. /\ o.comm = c /\ o.new = 0 /\ o.arrived = {u} /\ o.left = {} /\ o.id = h.id /\ o.group = G
  OBVIOUS
<1> HIDE DEF o, i
<1>8. Arrives(u, i, o)
  BY <1>2, <1>4, <1>5, <1>6, <1>7 DEF Arrives
<1> QED
  BY <1>2, <1>4, <1>5, <1>6, <1>7, <1>8 DEF i

(* So starting a collective call preserves the invariant.                  *)
LEMMA StartInv ==
  ASSUME TypeOK, TeamInv, NEW u \in Units, NEW h \in team[u],
         NEW kind \in {"create", "destroy", "lock"}, NEW G \in SUBSET Units,
         StartOp(u, h, kind, G), UNCHANGED <<nextid, table, team>>
  PROVE  TeamInv' /\ ops' \in Seq(Calls) /\ comms' \in Seq(SUBSET Units)
<1>1. PICK o \in Calls : /\ Arrives(u, Len(ops) + 1, o)
                         /\ ops' = Append(ops, Settle(o, o.comm))
  BY StartArrives
<1> DEFINE i == Len(ops) + 1
<1>2. ops \in Seq(Calls)
  BY DEF TypeOK
<1>3. Arrives(u, i, o)
  BY <1>1
<1> HIDE DEF i
<1>4. ops'[i] \in Calls /\ comms' \in Seq(SUBSET Units)
  BY <1>3, ArriveNewComms
<1>5. ops'[i] = Settle(o, o.comm)
  BY <1>3 DEF Arrives
<1>6. ops' \in Seq(Calls)
  BY <1>1, <1>2, <1>4, <1>5
<1> QED
  BY <1>3, <1>4, <1>6, ArriveInv

(* A unit that joins a call arrives in it, and has not left it before.     *)
LEMMA JoinArrives ==
  ASSUME TypeOK, TeamInv, NEW u \in Units, Join(u)
  PROVE  \E i \in DOMAIN ops : \E o \in Calls :
           /\ Arrives(u, i, o) /\ u \in Members(i)
           /\ ops' = [ops EXCEPT ![i] = Settle(o, o.comm)]
           /\ o.id = ops[i].id /\ o.comm = ops[i].comm /\ o.group = ops[i].group
           /\ NeedsTail(u, o) => pool[u] < PoolSize
           /\ pool' = [pool EXCEPT ![u] = IF NeedsTail(u, o) THEN pool[u] + 1 ELSE pool[u]]
           /\ UNCHANGED <<lock, aborted>>
<1>1. PICK i \in Due(u) :
        LET o == Arrive(ops[i], u) IN
        /\ Outside(u) /\ u \notin aborted
        /\ NeedsTail(u, o) => pool[u] < PoolSize
        /\ ops' = [ops EXCEPT ![i] = Settle(o, o.comm)]
        /\ comms' = NewComms(o, o.comm)
        /\ pool' = [pool EXCEPT ![u] = IF NeedsTail(u, o) THEN @ + 1 ELSE @]
        /\ UNCHANGED <<nextid, table, team, lock, aborted>>
  BY DEF Join
<1> DEFINE o == Arrive(ops[i], u)
           x == ops[i]
<1>2. /\ i \in DOMAIN ops /\ u \in comms[x.comm] /\ u \notin x.arrived /\ u \notin x.left
      /\ x \in Calls /\ ops \in Seq(Calls) /\ i \in Nat
  BY DEF Due, Members, TypeOK
<1>3. o \in Calls
  <2> HIDE DEF x
  <2>1. [x EXCEPT !.arrived = @ \cup {u}] \in Calls
    BY <1>2 DEF Calls
  <2> QED
    BY <2>1 DEF Arrive, x
<1>4. /\ o.comm = x.comm /\ o.new = x.new /\ o.left = x.left /\ o.kind = x.kind
      /\ o.id = x.id /\ o.group = x.group /\ o.arrived = x.arrived \cup {u}
  <2> HIDE DEF x
  <2> DEFINE y == [x EXCEPT !.arrived = @ \cup {u}]
  <2>1. /\ y.comm = x.comm /\ y.new = x.new /\ y.left = x.left /\ y.kind = x.kind
        /\ y.id = x.id /\ y.group = x.group /\ y.arrived = x.arrived \cup {u}
    BY <1>2 DEF Calls
  <2> QED
    BY <2>1 DEF Arrive, x
<1>5. /\ ~ Settled(i) /\ x.new = 0 /\ x.comm \in DOMAIN comms /\ x.left \subseteq comms[x.comm]
      /\ x.left \cap x.arrived = {}
  <2>1. ~ Complete(i)
    BY <1>2 DEF Complete, Members
  <2> QED
    BY <1>2, <2>1 DEF TeamInv, CallsAreSound, Settled, Members
<1>6. /\ ops' = [ops EXCEPT ![i] = Settle(o, o.comm)] /\ comms' = NewComms(o, o.comm)
      /\ NeedsTail(u, o) => pool[u] < PoolSize
      /\ pool' = [pool EXCEPT ![u] = IF NeedsTail(u, o) THEN pool[u] + 1 ELSE pool[u]]
      /\ Outside(u) /\ UNCHANGED <<nextid, table, team, lock, aborted>>
  BY <1>1 DEF TypeOK
<1> HIDE DEF o
<1>7. Arrives(u, i, o)
  <2>1. /\ DOMAIN ops' = DOMAIN ops /\ ops'[i] = Settle(o, o.comm)
        /\ \A j \in DOMAIN ops : j # i => ops'[j] = ops[j]
    BY <1>2, <1>6
  <2> QED
    BY <1>2, <1>3, <1>4, <1>5, <1>6, <2>1 DEF Arrives
<1> QED
  BY <1>2, <1>3, <1>4, <1>6, <1>7 DEF Members

(* So joining preserves the invariant and the types; a lock tail is taken  *)
(* only while there is room for it.                                        *)
LEMMA JoinInv ==
  ASSUME TypeOK, TeamInv, NEW u \in Units, Join(u)
  PROVE  TeamInv' /\ TypeOK'
<1>1. PICK i \in DOMAIN ops, o \in Calls :
        /\ Arrives(u, i, o) /\ ops' = [ops EXCEPT ![i] = Settle(o, o.comm)]
        /\ NeedsTail(u, o) => pool[u] < PoolSize
        /\ pool' = [pool EXCEPT ![u] = IF NeedsTail(u, o) THEN pool[u] + 1 ELSE pool[u]]
        /\ UNCHANGED <<lock, aborted>>
  BY JoinArrives
<1>2. TeamInv' /\ ops'[i] \in Calls /\ comms' \in Seq(SUBSET Units)
  BY <1>1, ArriveNewComms, ArriveInv
<1>3. ops' \in Seq(Calls)
  <2>1. ops \in Seq(Calls) /\ ops' = [ops EXCEPT ![i] = ops'[i]]
    BY <1>1 DEF TypeOK
  <2> QED
    BY <1>2, <2>1
<1>4. pool' \in [Units -> Int] /\ \A v \in Units : pool'[v] <= PoolSize
  BY <1>1, TeamConstants DEF TypeOK
<1>5. UNCHANGED <<nextid, table, team>>
  BY <1>1 DEF Arrives
<1> QED
  BY <1>1, <1>2, <1>3, <1>4, <1>5 DEF TypeOK

(* A call that returns an error before its collective part preserves them: *)
(* the unit leaves a call it has not arrived in, which never settles.      *)
LEMMA FailInv ==
  ASSUME TypeOK, TeamInv, NEW u \in Units, Fail(u)
  PROVE  TeamInv' /\ TypeOK'
<1>1. PICK i \in Due(u) : ops' = [ops EXCEPT ![i] = Leave(@, u)]
                          /\ UNCHANGED <<nextid, table, comms, team, lock, pool, aborted>>
  BY DEF Fail
<1>2. i \in DOMAIN ops /\ u \in Members(i) /\ u \notin ops[i].arrived
  BY DEF Due
<1>3. ~ Settled(i)
  BY <1>2 DEF TeamInv, CallsAreSound, Complete
<1>4. ops' \in Seq(Calls) /\ LeaveEffect(u, i)
  BY <1>1, <1>2, LeaveCall DEF Leaves
<1>5. TypeOK'
  BY <1>1, <1>4 DEF TypeOK
<1>6. TeamsWereGiven'
  BY <1>1, <1>4, LeaveGiven DEF TeamInv, TeamsWereGiven
<1> QED
  BY <1>1, <1>2, <1>3, <1>4, <1>5, <1>6, LeaveCalls, LeaveOneAtATime, LeaveUnsettled DEF TeamInv

(* The rest of dart_team_create preserves them: the counter moves past the *)
(* new ID and the members are given the team.                              *)
LEMMA FinishCreateInv ==
  ASSUME TypeOK, TeamInv, NEW u \in Units, NEW i \in DOMAIN ops, FinishCreate(u, i)
  PROVE  TeamInv' /\ TypeOK'
<1> DEFINE o == ops[i]
           g == [id |-> o.max, comm |-> o.new]
<1>1. o \in Calls /\ o.max \in Nat /\ o.new \in Nat
  <2>1. o \in Calls
    BY DEF TypeOK
  <2> HIDE DEF o
  <2> QED
    BY <2>1 DEF Calls
<1>2. /\ o.kind = "create" /\ Inside(u, i) /\ Complete(i)
      /\ nextid' = [nextid EXCEPT ![u] = o.max + 1]
      /\ ops' = [ops EXCEPT ![i] = Leave(@, u)]
      /\ UNCHANGED <<comms, lock, pool, aborted>>
  BY DEF FinishCreate
<1>3. Settled(i) /\ u \in Members(i)
  BY <1>2 DEF TeamInv, CallsAreSound, Complete, Inside
<1>4. ops' \in Seq(Calls) /\ LeaveEffect(u, i)
  BY <1>2, LeaveCall DEF Leaves
<1>5. nextid' \in [Units -> Nat]
  BY <1>1, <1>2 DEF TypeOK
<1>6. ASSUME u \in o.group PROVE g \in Given(u)'
  <2>1. /\ i \in DOMAIN ops' /\ ops'[i].max = o.max /\ ops'[i].new = o.new
        /\ ops'[i].group = o.group /\ u \in ops'[i].left
    BY <1>4 DEF LeaveEffect, SameCall
  <2> QED
    BY <1>3, <1>6, <2>1 DEF Given, Settled
<1>7. table' \in [Units -> [Slots -> Seq(Entries)]] /\ team' \in [Units -> SUBSET Teams]
      /\ \A v \in Units : team'[v] \subseteq Given(v)' /\ NamesIn(table'[v], Given(v)')
  <2>1. ASSUME NEW v \in Units PROVE team[v] \subseteq Given(v)' /\ NamesIn(table[v], Given(v)')
    BY <1>4, LeaveGiven, TableGiven DEF TeamInv, TeamsWereGiven, NamesIn
  <2>2. table \in [Units -> [Slots -> Seq(Entries)]] /\ team \in [Units -> SUBSET Teams]
    BY DEF TypeOK
  <2>3. CASE u \notin o.group
    BY <2>1, <2>2, <2>3 DEF FinishCreate
  <2>4. CASE u \in o.group
    <3>1. /\ table' = [table EXCEPT ![u] = Alloc(table[u], o.max, o.new)]
          /\ team' = [team EXCEPT ![u] = team[u] \cup {g}]
      BY <2>2, <2>4 DEF FinishCreate
    <3>2. g \in Teams
      BY <1>1 DEF Teams
    <3>3. /\ Alloc(table[u], o.max, o.new) \in [Slots -> Seq(Entries)]
          /\ NamesIn(Alloc(table[u], o.max, o.new), Given(u)')
      BY <1>1, <1>6, <2>1, <2>2, <2>4, AllocFacts
    <3>4. ASSUME NEW v \in Units
          PROVE team'[v] \subseteq Given(v)' /\ NamesIn(table'[v], Given(v)')
      BY <1>6, <2>1, <2>2, <2>4, <3>1, <3>3
    <3> QED
      BY <2>2, <3>1, <3>2, <3>3, <3>4
  <2> QED
    BY <2>3, <2>4
<1>8. TypeOK'
  BY <1>2, <1>4, <1>5, <1>7 DEF TypeOK
<1>9. TeamsWereGiven'
  BY <1>7 DEF TeamsWereGiven, NamesIn
<1> QED
  BY <1>2, <1>3, <1>4, <1>8, <1>9, LeaveCalls, LeaveOneAtATime, LeaveSettled DEF TeamInv

(* The two calls that create no team, and the rest of what they change.    *)
LEMMA FinishOtherInv ==
  ASSUME TypeOK, TeamInv, NEW u \in Units, NEW i \in DOMAIN ops,
         ops[i].kind # "create", Inside(u, i), Complete(i),
         ops' = [ops EXCEPT ![i] = Leave(@, u)], UNCHANGED <<nextid, comms>>,
         NEW t \in [Slots -> Seq(Entries)], \A G : NamesIn(table[u], G) => NamesIn(t, G),
         table' = [table EXCEPT ![u] = t],
         \A v \in Units : team'[v] \subseteq team[v]
  PROVE  TeamInv' /\ ops' \in Seq(Calls) /\ table' \in [Units -> [Slots -> Seq(Entries)]]
<1>1. ~ Settled(i) /\ u \in Members(i)
  BY DEF TeamInv, CallsAreSound, Complete, Inside
<1>2. ops' \in Seq(Calls) /\ LeaveEffect(u, i)
  BY LeaveCall DEF Leaves
<1>3. table \in [Units -> [Slots -> Seq(Entries)]]
  BY DEF TypeOK
<1>4. ASSUME NEW v \in Units PROVE team'[v] \subseteq Given(v)' /\ NamesIn(table'[v], Given(v)')
  <2>1. team[v] \subseteq Given(v)' /\ NamesIn(table[v], Given(v)')
    BY <1>2, LeaveGiven, TableGiven DEF TeamInv, TeamsWereGiven, NamesIn
  <2> QED
    BY <1>3, <2>1
<1>5. TeamsWereGiven'
  BY <1>4 DEF TeamsWereGiven, NamesIn
<1> QED
  BY <1>1, <1>2, <1>3, <1>5, LeaveCalls, LeaveOneAtATime, LeaveUnsettled DEF TeamInv

(* The rest of dart_team_destroy preserves them.                           *)
LEMMA FinishDestroyInv ==
  ASSUME TypeOK, TeamInv, NEW u \in Units, NEW i \in DOMAIN ops, FinishDestroy(u, i)
  PROVE  TeamInv' /\ TypeOK'
<1> DEFINE o == ops[i]
           d == Dealloc(table[u], o.id)
           t == IF Known(d, o.id) THEN SetLock(d, o.id, FALSE) ELSE d
<1>1. o.id \in Nat
  <2>1. o \in Calls
    BY DEF TypeOK
  <2> HIDE DEF o
  <2> QED
    BY <2>1 DEF Calls
<1>2. table[u] \in [Slots -> Seq(Entries)]
  BY DEF TypeOK
<1>3. d \in [Slots -> Seq(Entries)] /\ \A G : NamesIn(table[u], G) => NamesIn(d, G)
  BY <1>1, <1>2, DeallocFacts
<1>4. t \in [Slots -> Seq(Entries)] /\ \A G : NamesIn(table[u], G) => NamesIn(t, G)
  <2> HIDE DEF d
  <2>1. FALSE \in BOOLEAN
    OBVIOUS
  <2>2. /\ SetLock(d, o.id, FALSE) \in [Slots -> Seq(Entries)]
        /\ \A G : NamesIn(d, G) => NamesIn(SetLock(d, o.id, FALSE), G)
    BY <1>1, <1>3, <2>1, SetLockFacts
  <2> QED
    BY <1>3, <2>2
<1>5. /\ o.kind = "destroy" /\ Inside(u, i) /\ Complete(i)
      /\ table' = [table EXCEPT ![u] = t]
      /\ pool' = [pool EXCEPT ![u] =
           IF Get(table[u], o.id).lock /\ u = Root(o.comm) THEN pool[u] - 1 ELSE pool[u]]
      /\ team' = [team EXCEPT ![u] = team[u] \ {[id |-> o.id, comm |-> o.comm]}]
      /\ ops' = [ops EXCEPT ![i] = Leave(@, u)]
      /\ UNCHANGED <<nextid, comms, lock, aborted>>
  BY DEF FinishDestroy, TypeOK
<1> HIDE DEF t, o
<1>6. /\ team' \in [Units -> SUBSET Teams] /\ \A v \in Units : team'[v] \subseteq team[v]
  BY <1>5 DEF TypeOK
<1>7. pool' \in [Units -> Int] /\ \A v \in Units : pool'[v] <= PoolSize
  BY <1>5, TeamConstants DEF TypeOK
<1>8. TeamInv' /\ ops' \in Seq(Calls) /\ table' \in [Units -> [Slots -> Seq(Entries)]]
  BY <1>4, <1>5, <1>6, FinishOtherInv DEF o
<1>9. TypeOK'
  BY <1>5, <1>6, <1>7, <1>8 DEF TypeOK
<1> QED
  BY <1>8, <1>9

(* The rest of dart_team_lock_init preserves them.                         *)
LEMMA FinishLockInv ==
  ASSUME TypeOK, TeamInv, NEW u \in Units, NEW i \in DOMAIN ops, FinishLock(u, i)
  PROVE  TeamInv' /\ TypeOK'
<1> DEFINE o == ops[i]
           t == SetLock(table[u], o.id, TRUE)
           h == [id |-> o.id, comm |-> o.comm]
<1>1. o.id \in Nat /\ o.comm \in Nat
  <2>1. o \in Calls
    BY DEF TypeOK
  <2> HIDE DEF o
  <2> QED
    BY <2>1 DEF Calls
<1>2. table[u] \in [Slots -> Seq(Entries)]
  BY DEF TypeOK
<1>3. t \in [Slots -> Seq(Entries)] /\ \A G : NamesIn(table[u], G) => NamesIn(t, G)
  <2>1. TRUE \in BOOLEAN
    OBVIOUS
  <2> QED
    BY <1>1, <1>2, <2>1, SetLockFacts
<1>4. /\ o.kind = "lock" /\ Inside(u, i) /\ Complete(i)
      /\ table' = [table EXCEPT ![u] = t]
      /\ lock' = [lock EXCEPT ![u] = lock[u] \cup {h}]
      /\ ops' = [ops EXCEPT ![i] = Leave(@, u)]
      /\ UNCHANGED <<nextid, comms, team, pool, aborted>>
  BY DEF FinishLock, TypeOK
<1>5. h \in Teams
  BY <1>1 DEF Teams
<1> HIDE DEF t, h, o
<1>6. lock' \in [Units -> SUBSET Teams]
  BY <1>4, <1>5 DEF TypeOK
<1>7. TeamInv' /\ ops' \in Seq(Calls) /\ table' \in [Units -> [Slots -> Seq(Entries)]]
  BY <1>3, <1>4, FinishOtherInv DEF o
<1>8. TypeOK'
  BY <1>4, <1>6, <1>7 DEF TypeOK
<1> QED
  BY <1>7, <1>8

(* dart_team_lock_destroy preserves them.                                  *)
LEMMA DestroyLockInv ==
  ASSUME TypeOK, TeamInv, NEW u \in Units, NEW h \in lock[u], DestroyLock(u, h)
  PROVE  TeamInv' /\ TypeOK'
<1> DEFINE t == SetLock(table[u], h.id, FALSE)
<1>1. h.id \in Nat /\ table[u] \in [Slots -> Seq(Entries)]
  BY DEF TypeOK, Teams
<1>2. t \in [Slots -> Seq(Entries)] /\ \A G : NamesIn(table[u], G) => NamesIn(t, G)
  <2>1. FALSE \in BOOLEAN
    OBVIOUS
  <2> QED
    BY <1>1, <2>1, SetLockFacts
<1>3. /\ table' = table \/ table' = [table EXCEPT ![u] = t]
      /\ lock' = lock \/ lock' = [lock EXCEPT ![u] = lock[u] \ {h}]
      /\ pool' = pool \/ pool' = [pool EXCEPT ![u] = IF u = Root(h.comm) THEN pool[u] - 1 ELSE pool[u]]
      /\ aborted' = aborted \/ aborted' = aborted \cup {u}
      /\ UNCHANGED <<nextid, comms, ops, team>>
  BY DEF DestroyLock, TypeOK
<1> HIDE DEF t
<1>4. table' \in [Units -> [Slots -> Seq(Entries)]]
  BY <1>2, <1>3 DEF TypeOK
<1>5. lock' \in [Units -> SUBSET Teams] /\ aborted' \in SUBSET Units
  <2>1. lock \in [Units -> SUBSET Teams] /\ aborted \in SUBSET Units
    BY DEF TypeOK
  <2>2. lock' \in [Units -> SUBSET Teams]
    BY <1>3, <2>1
  <2>3. aborted' \in SUBSET Units
    BY <1>3, <2>1
  <2> QED
    BY <2>2, <2>3
<1>6. pool' \in [Units -> Int] /\ \A v \in Units : pool'[v] <= PoolSize
  BY <1>3, TeamConstants DEF TypeOK
<1>7. TypeOK'
  BY <1>3, <1>4, <1>5, <1>6 DEF TypeOK
<1>8. ASSUME NEW v \in Units PROVE team'[v] \subseteq Given(v)' /\ NamesIn(table'[v], Given(v)')
  <2>1. Given(v)' = Given(v)
    BY <1>3 DEF Given, Settled
  <2>2. NamesIn(table[v], Given(v)) /\ team[v] \subseteq Given(v)
    BY TableGiven DEF TeamInv, TeamsWereGiven
  <2>3. table \in [Units -> [Slots -> Seq(Entries)]]
    BY DEF TypeOK
  <2> QED
    BY <1>2, <1>3, <2>1, <2>2, <2>3
<1>9. TeamsWereGiven'
  BY <1>8 DEF TeamsWereGiven, NamesIn
<1>10. CallsAreSound' /\ OneAtATime'
  BY <1>3 DEF TeamInv, CallsAreSound, OneAtATime, Settled, Complete, Members, Inside
<1>11. CountersAreExact'
  BY <1>3 DEF TeamInv, CountersAreExact, Settled, Inside
<1> QED
  BY <1>7, <1>9, <1>10, <1>11 DEF TeamInv

(* Every collective call that a unit starts preserves them.                *)
LEMMA StartStep ==
  ASSUME TypeOK, TeamInv, NEW u \in Units, Start(u)
  PROVE  TeamInv' /\ TypeOK'
<1>1. PICK h \in team[u] : \/ \E G \in SUBSET comms[h.comm] : StartCreate(u, h, G)
                           \/ StartDestroy(u, h) \/ StartLock(u, h)
  BY DEF Start
<1>2. PICK kind \in {"create", "destroy", "lock"}, G \in SUBSET Units :
        /\ StartOp(u, h, kind, G) /\ UNCHANGED <<nextid, table, team, lock, aborted>>
        /\ pool' \in {pool, [pool EXCEPT ![u] = pool[u] + 1]}
        /\ pool' # pool => pool[u] < PoolSize
  <2>1. CASE \E G \in SUBSET comms[h.comm] : StartCreate(u, h, G)
    <3>1. PICK G \in SUBSET comms[h.comm] : StartCreate(u, h, G)
      BY <2>1
    <3>2. h.comm \in DOMAIN comms
      <4>1. h \in Given(u)
        BY DEF TeamInv, TeamsWereGiven
      <4> QED
        BY <4>1, GivenComm
    <3>3. G \in SUBSET Units
      BY <3>2 DEF TypeOK
    <3> QED
      BY <3>1, <3>3 DEF StartCreate
  <2>2. CASE StartDestroy(u, h)
    BY <2>2 DEF StartDestroy
  <2>3. CASE StartLock(u, h)
    <3>1. /\ StartOp(u, h, "lock", {}) /\ UNCHANGED <<nextid, table, team, lock, aborted>>
          /\ u # Root(h.comm) \/ pool[u] < PoolSize
          /\ pool' = [pool EXCEPT ![u] = IF u = Root(h.comm) THEN pool[u] + 1 ELSE pool[u]]
      BY <2>3 DEF StartLock, TypeOK
    <3>2. /\ pool' \in {pool, [pool EXCEPT ![u] = pool[u] + 1]}
          /\ pool' # pool => pool[u] < PoolSize
      BY <3>1 DEF TypeOK
    <3>3. StartOp(u, h, "lock", {}) /\ UNCHANGED <<nextid, table, team, lock, aborted>>
      BY <3>1
    <3> QED
      BY <3>2, <3>3
  <2> QED
    BY <1>1, <2>1, <2>2, <2>3
<1>3. TeamInv' /\ ops' \in Seq(Calls) /\ comms' \in Seq(SUBSET Units)
  BY <1>2, StartInv
<1>4. pool' \in [Units -> Int] /\ \A v \in Units : pool'[v] <= PoolSize
  BY <1>2, TeamConstants DEF TypeOK
<1> QED
  BY <1>2, <1>3, <1>4 DEF TypeOK

(* They hold after dart_init, when everybody is in DART_TEAM_ALL.          *)
LEMMA TeamInit == Init => TypeOK /\ TeamInv
<1> SUFFICES ASSUME Init PROVE TypeOK /\ TeamInv
  OBVIOUS
<1> DEFINE z == [s \in Slots |-> <<>>]
<1>1. z \in [Slots -> Seq(Entries)]
  OBVIOUS
<1>2. TeamAll \in Nat /\ World \in Nat
  BY DEF TeamAll, World
<1>3. /\ Alloc(z, TeamAll, World) \in [Slots -> Seq(Entries)]
      /\ \A G : NamesIn(z, G) /\ [id |-> TeamAll, comm |-> World] \in G
                  => NamesIn(Alloc(z, TeamAll, World), G)
  <2> HIDE DEF z
  <2> QED
    BY <1>1, <1>2, AllocFacts
<1>4. \A G : NamesIn(z, G)
  BY DEF NamesIn
<1>5. table = [u \in Units |-> Alloc(z, TeamAll, World)]
  BY DEF Init
<1> HIDE DEF z
<1>6. TypeOK
  BY <1>2, <1>3, <1>5, TeamConstants, SMTT(60) DEF Init, TypeOK, Teams, TeamAll
<1>7. ASSUME NEW u \in Units PROVE NamesIn(table[u], Given(u)) /\ team[u] \subseteq Given(u)
  <2>1. [id |-> TeamAll, comm |-> World] \in Given(u)
    BY DEF Given
  <2> QED
    BY <1>3, <1>4, <1>5, <2>1 DEF Init
<1>8. TeamsWereGiven
  BY <1>7 DEF TeamsWereGiven, NamesIn
<1>9. CallsAreSound /\ OneAtATime /\ CountersAreExact
  BY DEF Init, CallsAreSound, OneAtATime, CountersAreExact, TeamAll
<1> QED
  BY <1>6, <1>8, <1>9 DEF TeamInv

(* Every step preserves them.                                              *)
LEMMA TeamStep == TypeOK /\ TeamInv /\ [Next]_vars => (TypeOK /\ TeamInv)'
<1> SUFFICES ASSUME TypeOK, TeamInv, [Next]_vars PROVE (TypeOK /\ TeamInv)'
  OBVIOUS
<1>1. CASE UNCHANGED vars
  BY <1>1 DEF vars, TypeOK, TeamInv, CallsAreSound, OneAtATime, CountersAreExact,
     TeamsWereGiven, Given, Settled, Complete, Members, Inside
<1>2. ASSUME NEW u \in Units, Start(u) PROVE (TypeOK /\ TeamInv)'
  BY <1>2, StartStep
<1>3. ASSUME NEW u \in Units, Join(u) PROVE (TypeOK /\ TeamInv)'
  BY <1>3, JoinInv
<1>4. ASSUME NEW u \in Units, Fail(u) PROVE (TypeOK /\ TeamInv)'
  BY <1>4, FailInv
<1>5. ASSUME NEW u \in Units, Finish(u) PROVE (TypeOK /\ TeamInv)'
  BY <1>5, FinishCreateInv, FinishDestroyInv, FinishLockInv DEF Finish
<1>6. ASSUME NEW u \in Units, NEW h \in lock[u], DestroyLock(u, h) PROVE (TypeOK /\ TeamInv)'
  BY <1>6, DestroyLockInv
<1> QED
  BY <1>1, <1>2, <1>3, <1>4, <1>5, <1>6 DEF Next

(* Every reachable state has the declared types.                           *)
THEOREM TeamsTypeInvariant == Spec => []TypeOK
BY TeamInit, TeamStep, PTL DEF Spec

(* Guarantees 1 and 3 of dart_team_create.                                 *)
THEOREM TeamIdsIdentify == Spec => []IdsIdentifyTeams
<1>1. TypeOK /\ TeamInv => IdsIdentifyTeams
  BY GivenIdentifies DEF TeamInv, TeamsWereGiven, IdsIdentifyTeams
<1> QED
  BY <1>1, TeamInit, TeamStep, PTL DEF Spec

-----------------------------------------------------------------------------
(* Which team a collective call is made on                                 *)

(* Finitely many teams have been created.                                  *)
LEMMA SettledFinite ==
  ASSUME ops \in Seq(Calls)
  PROVE  IsFiniteSet({i \in DOMAIN ops : Settled(i)})
<1>1. Len(ops) \in Nat /\ DOMAIN ops = 1 .. Len(ops)
  OBVIOUS
<1>2. IsFiniteSet(1 .. Len(ops))
  BY <1>1, FS_Interval
<1> QED
  BY <1>1, <1>2, FS_Subset

(* An arrival makes one communicator if it settles the call, and none      *)
(* otherwise.                                                              *)
LEMMA ArriveCounted ==
  ASSUME TypeOK, TeamInv, CommsAreCounted, NEW u \in Units, NEW i, NEW o, Arrives(u, i, o),
         Len(ops') <= MaxOps
  PROVE  CommsAreCounted'
<1> DEFINE S == {j \in DOMAIN ops : Settled(j)}
           T == {j \in DOMAIN ops' : Settled(j)'}
<1>1. IsFiniteSet(S)
  BY SettledFinite DEF TypeOK
<1>2. Cardinality(S) \in Nat /\ Len(comms) = 1 + Cardinality(S) /\ Len(comms) \in Nat
  BY <1>1, FS_CardinalityType DEF CommsAreCounted, TypeOK
<1>3. ASSUME NEW j, j # i PROVE j \in T <=> j \in S
  BY <1>3 DEF Arrives, Settled
<1>4. i \notin S /\ i \in DOMAIN ops'
  BY DEF Arrives
<1>5. CASE o.kind = "create" /\ o.arrived = comms[o.comm]
  <2>1. ops'[i].new = Len(comms) + 1 /\ Len(comms') = Len(comms) + 1
    BY <1>5, ArriveNewComms
  <2>2. i \in T
    BY <1>2, <1>4, <2>1 DEF Settled
  <2>3. T = S \cup {i}
    BY <1>3, <2>2
  <2>4. Cardinality(T) = Cardinality(S) + 1
    BY <1>1, <1>4, <2>3, FS_AddElement
  <2> QED
    BY <1>2, <2>1, <2>4 DEF CommsAreCounted
<1>6. CASE ~ (o.kind = "create" /\ o.arrived = comms[o.comm])
  <2>1. comms' = comms /\ ops'[i] = o
    BY <1>6, ArriveNewComms
  <2>2. i \notin T
    BY <2>1 DEF Arrives, Settled
  <2>3. T = S
    BY <1>3, <1>4, <2>2
  <2> QED
    BY <1>2, <2>1, <2>3 DEF CommsAreCounted
<1> QED
  BY <1>5, <1>6

(* A unit that arrives in a call on a team it was given keeps the call and *)
(* its participants in agreement.                                          *)
LEMMA ArriveNames ==
  ASSUME TypeOK, TeamInv, NameInv, NEW u \in Units, NEW i, NEW o, Arrives(u, i, o),
         Len(ops') <= MaxOps, lock' = lock,
         [id |-> o.id, comm |-> o.comm] \in Given(u), o.group \subseteq comms[o.comm],
         i \in DOMAIN ops => o.id = ops[i].id /\ o.comm = ops[i].comm
  PROVE  NameInv'
<1>1. CommsAreCounted'
  BY ArriveCounted DEF NameInv
<1>2. LocksWereGiven'
  BY ArriveGrows DEF NameInv, LocksWereGiven
<1>3. ASSUME NEW j \in DOMAIN ops'
      PROVE  /\ ops'[j].arrived # {}
             /\ ops'[j].group \subseteq Members(j)'
             /\ Settled(j)' => comms'[ops'[j].new] = ops'[j].group
  <2>1. CASE j # i
    <3>1. j \in DOMAIN ops /\ ops'[j] = ops[j]
      BY <2>1 DEF Arrives
    <3>2. /\ ops[j].comm \in DOMAIN comms
          /\ Settled(j) => ops[j].new \in DOMAIN comms
      <4>1. ops[j] \in Calls /\ DOMAIN comms = 1 .. Len(comms)
        BY <3>1 DEF TypeOK
      <4> QED
        BY <3>1, <4>1 DEF TeamInv, CallsAreSound, Calls
    <3>3. \A c \in DOMAIN comms : comms'[c] = comms[c]
      BY ArriveNewComms
    <3> QED
      BY <3>1, <3>2, <3>3 DEF NameInv, CallsNameTeams, Settled, Members
  <2>2. CASE j = i
    <3>1. /\ ops'[i].arrived = o.arrived /\ ops'[i].group = o.group /\ ops'[i].comm = o.comm
          /\ \A c \in DOMAIN comms : comms'[c] = comms[c]
      BY ArriveNewComms
    <3>2. u \in o.arrived /\ o.comm \in DOMAIN comms /\ o.new = 0
      BY DEF Arrives
    <3>3. ASSUME Settled(i)' PROVE comms'[ops'[i].new] = o.group
      <4>1. ops'[i].new # 0
        BY <3>3 DEF Settled
      <4>2. o.kind = "create" /\ o.arrived = comms[o.comm] /\ ops'[i].new = Len(comms) + 1
        BY <3>2, <4>1, ArriveNewComms
      <4>3. comms' = Append(comms, o.group) /\ comms \in Seq(SUBSET Units)
        BY <4>2 DEF Arrives, NewComms, TypeOK
      <4> QED
        BY <4>2, <4>3
    <3> QED
      BY <2>2, <3>1, <3>2, <3>3 DEF Members
  <2> QED
    BY <2>1, <2>2
<1>4. ASSUME NEW j \in DOMAIN ops', NEW v \in ops'[j].arrived
      PROVE  [id |-> ops'[j].id, comm |-> ops'[j].comm] \in Given(v)'
  <2>1. v \in Units
    <3>1. j # i => j \in DOMAIN ops /\ ops'[j] = ops[j]
      BY DEF Arrives
    <3>2. ops'[j] \in Calls
      BY <3>1, ArriveNewComms DEF TypeOK
    <3> QED
      BY <3>2 DEF Calls
  <2>2. Given(v) \subseteq Given(v)'
    BY <2>1, ArriveGrows
  <2>3. CASE j # i
    <3>1. j \in DOMAIN ops /\ ops'[j] = ops[j]
      BY <2>3 DEF Arrives
    <3> QED
      BY <2>2, <3>1 DEF NameInv, CallsNameTeams
  <2>4. CASE j = i
    <3>1. ops'[i].arrived = o.arrived /\ ops'[i].id = o.id /\ ops'[i].comm = o.comm
      BY ArriveNewComms
    <3>2. CASE v = u
      BY <2>2, <2>4, <3>1, <3>2
    <3>3. CASE v # u
      <4>1. i \in DOMAIN ops /\ v \in ops[i].arrived
        BY <2>4, <3>1, <3>3 DEF Arrives
      <4> QED
        BY <2>2, <2>4, <3>1, <4>1 DEF NameInv, CallsNameTeams
    <3> QED
      BY <3>2, <3>3
  <2> QED
    BY <2>3, <2>4
<1>5. CallsNameTeams'
  BY <1>3, <1>4 DEF CallsNameTeams
<1> QED
  BY <1>1, <1>2, <1>5 DEF NameInv

(* Why a unit that joins a call knows its team: it is a member of the      *)
(* communicator, so it took part in the creation, and as it is in no call  *)
(* now it has returned from it.                                            *)
LEMMA MemberWasGiven ==
  ASSUME TypeOK, TeamInv, NameInv, NEW u \in Units, NEW i \in DOMAIN ops,
         Outside(u), u \in Members(i)
  PROVE  [id |-> ops[i].id, comm |-> ops[i].comm] \in Given(u)
<1> DEFINE g == [id |-> ops[i].id, comm |-> ops[i].comm]
<1>1. PICK v \in ops[i].arrived : g \in Given(v)
  BY DEF NameInv, CallsNameTeams
<1>2. g.comm = ops[i].comm
  OBVIOUS
<1> HIDE DEF g
<1>3. CASE g = [id |-> TeamAll, comm |-> World]
  BY <1>3 DEF g, Given
<1>4. CASE g # [id |-> TeamAll, comm |-> World]
  <2>1. PICK j \in DOMAIN ops : Settled(j) /\ g = [id |-> ops[j].max, comm |-> ops[j].new]
    BY <1>1, <1>4 DEF Given
  <2>2. u \in ops[j].group
    BY <1>2, <2>1 DEF NameInv, CallsNameTeams, Members
  <2>3. u \in ops[j].arrived
    BY <2>1, <2>2, ZenonT(60) DEF NameInv, CallsNameTeams, TeamInv, CallsAreSound, Complete
  <2>4. u \in ops[j].left
    BY <2>3 DEF Outside, Inside
  <2> QED
    BY <2>1, <2>2, <2>4 DEF Given, g
<1> QED
  BY <1>3, <1>4 DEF g

(* Leaving a call keeps the agreement, whatever lock it registers on a     *)
(* team the unit was given.                                                *)
LEMMA LeaveNames ==
  ASSUME TypeOK, TeamInv, NameInv, NEW u \in Units, NEW i \in DOMAIN ops, LeaveEffect(u, i),
         ops' \in Seq(Calls), \A v \in Units : lock'[v] \subseteq Given(v)
  PROVE  NameInv'
<1>1. DOMAIN ops' = DOMAIN ops /\ comms' = comms
  BY DEF LeaveEffect
<1>2. ASSUME NEW j \in DOMAIN ops
      PROVE  /\ ops'[j].arrived = ops[j].arrived /\ ops'[j].group = ops[j].group
             /\ ops'[j].id = ops[j].id /\ ops'[j].comm = ops[j].comm
             /\ ops'[j].new = ops[j].new
  BY DEF LeaveEffect, SameCall
<1>3. LocksWereGiven'
  BY LeaveGiven DEF LocksWereGiven
<1>4. CommsAreCounted'
  <2>1. Len(ops') = Len(ops)
    BY <1>1 DEF TypeOK
  <2>2. {j \in DOMAIN ops' : Settled(j)'} = {j \in DOMAIN ops : Settled(j)}
    BY <1>1, <1>2 DEF Settled
  <2> QED
    BY <1>1, <2>1, <2>2 DEF NameInv, CommsAreCounted
<1>5. ASSUME NEW j \in DOMAIN ops
      PROVE  /\ ops'[j].arrived # {}
             /\ ops'[j].group \subseteq Members(j)'
             /\ Settled(j)' => comms'[ops'[j].new] = ops'[j].group
  BY <1>1, <1>2 DEF NameInv, CallsNameTeams, Settled, Members
<1>6. ASSUME NEW j \in DOMAIN ops, NEW v \in ops'[j].arrived
      PROVE  [id |-> ops'[j].id, comm |-> ops'[j].comm] \in Given(v)'
  <2>1. v \in Units
    <3>1. ops[j] \in Calls
      BY DEF TypeOK
    <3> QED
      BY <1>2, <3>1 DEF Calls
  <2>2. [id |-> ops[j].id, comm |-> ops[j].comm] \in Given(v)
    BY <1>2 DEF NameInv, CallsNameTeams
  <2> QED
    BY <1>2, <2>1, <2>2, LeaveGiven
<1>7. CallsNameTeams'
  BY <1>1, <1>5, <1>6 DEF CallsNameTeams
<1> QED
  BY <1>3, <1>4, <1>7 DEF NameInv

(* Every step keeps it.                                                    *)
LEMMA NamesStep ==
  ASSUME TypeOK, TeamInv, NameInv, [Next]_vars
  PROVE  NameInv'
<1>1. CASE UNCHANGED vars
  BY <1>1 DEF vars, NameInv, CallsNameTeams, LocksWereGiven, CommsAreCounted, Given, Settled,
     Members
<1>2. ASSUME NEW u \in Units, Start(u) PROVE NameInv'
  <2>1. PICK h \in team[u] : \/ \E G \in SUBSET comms[h.comm] : StartCreate(u, h, G)
                             \/ StartDestroy(u, h) \/ StartLock(u, h)
    BY <1>2 DEF Start
  <2>2. h \in Given(u)
    BY DEF TeamInv, TeamsWereGiven
  <2>3. h \in Teams /\ h.comm \in DOMAIN comms
    BY <2>2, GivenComm
  <2>4. PICK kind \in {"create", "destroy", "lock"}, G \in SUBSET comms[h.comm] :
          /\ StartOp(u, h, kind, G) /\ UNCHANGED <<nextid, table, team>> /\ lock' = lock
    BY <2>1 DEF StartCreate, StartDestroy, StartLock
  <2>5. G \in SUBSET Units
    BY <2>3 DEF TypeOK
  <2>6. PICK o \in Calls :
          /\ Arrives(u, Len(ops) + 1, o) /\ o.group = G
          /\ ops' = Append(ops, Settle(o, o.comm)) /\ Len(ops) + 1 \notin DOMAIN ops
          /\ o.id = h.id /\ o.comm = h.comm
    BY <2>4, <2>5, StartArrives
  <2>7. Len(ops) < MaxOps /\ ops \in Seq(Calls) /\ MaxOps \in Nat
    BY <2>4, TeamConstants DEF StartOp, TypeOK
  <2>8. Len(ops') <= MaxOps
    BY <2>6, <2>7
  <2>9. [id |-> o.id, comm |-> o.comm] = h
    BY <2>3, <2>6 DEF Teams
  <2> QED
    BY <2>2, <2>4, <2>6, <2>8, <2>9, ArriveNames
<1>3. ASSUME NEW u \in Units, Join(u) PROVE NameInv'
  <2>1. PICK i \in DOMAIN ops, o \in Calls :
          /\ Arrives(u, i, o) /\ u \in Members(i)
          /\ ops' = [ops EXCEPT ![i] = Settle(o, o.comm)]
          /\ o.id = ops[i].id /\ o.comm = ops[i].comm /\ o.group = ops[i].group
          /\ lock' = lock
    BY <1>3, JoinArrives
  <2>2. [id |-> o.id, comm |-> o.comm] \in Given(u)
    BY <2>1, MemberWasGiven DEF Arrives
  <2>3. o.group \subseteq comms[o.comm]
    BY <2>1 DEF NameInv, CallsNameTeams, Members
  <2>4. Len(ops') <= MaxOps
    BY <2>1 DEF NameInv, CommsAreCounted, TypeOK
  <2> QED
    BY <2>1, <2>2, <2>3, <2>4, ArriveNames
<1>4. ASSUME NEW u \in Units, NEW i \in DOMAIN ops,
             ops' = [ops EXCEPT ![i] = Leave(@, u)], comms' = comms,
             \A v \in Units : lock'[v] \subseteq Given(v)
      PROVE  NameInv'
  BY <1>4, LeaveCall, LeaveNames DEF Leaves
<1>5. ASSUME NEW u \in Units, Fail(u) PROVE NameInv'
  BY <1>4, <1>5 DEF Fail, Due, NameInv, LocksWereGiven
<1>6. ASSUME NEW u \in Units, NEW i \in DOMAIN ops, FinishCreate(u, i) PROVE NameInv'
  BY <1>4, <1>6 DEF FinishCreate, NameInv, LocksWereGiven
<1>7. ASSUME NEW u \in Units, NEW i \in DOMAIN ops, FinishDestroy(u, i) PROVE NameInv'
  BY <1>4, <1>7 DEF FinishDestroy, NameInv, LocksWereGiven
<1>8. ASSUME NEW u \in Units, NEW i \in DOMAIN ops, FinishLock(u, i) PROVE NameInv'
  <2>1. [id |-> ops[i].id, comm |-> ops[i].comm] \in Given(u)
    BY <1>8 DEF FinishLock, Inside, NameInv, CallsNameTeams
  <2>2. /\ ops' = [ops EXCEPT ![i] = Leave(@, u)] /\ comms' = comms
        /\ lock' = [lock EXCEPT ![u] = @ \cup {[id |-> ops[i].id, comm |-> ops[i].comm]}]
    BY <1>8 DEF FinishLock
  <2>3. \A v \in Units : lock'[v] \subseteq Given(v)
    BY <2>1, <2>2 DEF NameInv, LocksWereGiven, TypeOK
  <2> QED
    BY <1>4, <2>2, <2>3
<1>9. ASSUME NEW u \in Units, NEW h \in lock[u], DestroyLock(u, h) PROVE NameInv'
  <2>1. /\ ops' = ops /\ comms' = comms
        /\ lock' = lock \/ lock' = [lock EXCEPT ![u] = @ \ {h}]
    BY <1>9 DEF DestroyLock
  <2>2. ASSUME NEW v PROVE Given(v)' = Given(v)
    BY <2>1 DEF Given, Settled
  <2>3. CallsNameTeams' /\ CommsAreCounted'
    BY <2>1, <2>2 DEF NameInv, CallsNameTeams, CommsAreCounted, Settled, Members
  <2>4. LocksWereGiven'
    BY <2>1, <2>2 DEF NameInv, LocksWereGiven, TypeOK
  <2> QED
    BY <2>3, <2>4 DEF NameInv
<1> QED
  BY <1>1, <1>2, <1>3, <1>5, <1>6, <1>7, <1>8, <1>9 DEF Next, Finish

(* It holds initially: there are no calls.                                 *)
LEMMA NamesInit == Init => NameInv
<1> SUFFICES ASSUME Init PROVE NameInv
  OBVIOUS
<1>1. {i \in DOMAIN ops : Settled(i)} = {} /\ Len(ops) = 0 /\ Len(comms) = 1
  BY DEF Init
<1>2. CommsAreCounted
  BY <1>1, FS_EmptySet, TeamConstants DEF CommsAreCounted
<1> QED
  BY <1>2 DEF Init, NameInv, CallsNameTeams, LocksWereGiven

-----------------------------------------------------------------------------
(* Teams are found while there are fewer of them than slots                *)

(* A slot has at most one entry, of the team whose ID is the number of the *)
(* slot.                                                                   *)
OneEach(t) ==
  \A s \in Slots :
    /\ Len(t[s]) <= 1
    /\ \A k \in DOMAIN t[s] : t[s][k].id = s /\ ~ t[s][k].freed

(* An ID smaller than the table is its own slot.                           *)
LEMMA SmallHash ==
  ASSUME NEW id \in Slots
  PROVE  id \in Nat /\ Hash(id) = id
BY TeamConstants DEF Slots, Hash

(* A lookup then finds the one entry of the slot.                          *)
LEMMA OneEachPosition ==
  ASSUME NEW t \in [Slots -> Seq(Entries)], OneEach(t), NEW id \in Slots
  PROVE  /\ t[id] \in Seq(Entries) /\ Len(t[id]) \in {0, 1}
         /\ Position(t, id) = Len(t[id])
<1>1. t[id] \in Seq(Entries) /\ Len(t[id]) \in {0, 1} /\ DOMAIN t[id] = 1 .. Len(t[id])
  <2>1. t[id] \in Seq(Entries)
    OBVIOUS
  <2>2. Len(t[id]) \in Nat /\ DOMAIN t[id] = 1 .. Len(t[id])
    BY <2>1
  <2>3. Len(t[id]) <= 1
    BY DEF OneEach
  <2> QED
    BY <2>1, <2>2, <2>3
<1>2. id \in Nat /\ Hash(id) = id
  BY SmallHash
<1>3. Position(t, id) \in {0} \cup DOMAIN t[id]
      /\ (Position(t, id) = 0 => \A k \in DOMAIN t[id] : t[id][k].id # id)
  BY <1>2, PositionFacts DEF Known
<1>4. Len(t[id]) = 1 => t[id][1].id = id
  BY <1>1 DEF OneEach
<1> QED
  BY <1>1, <1>3, <1>4

(* An entry is added to an empty slot.                                     *)
LEMMA OneEachAlloc ==
  ASSUME NEW t \in [Slots -> Seq(Entries)], OneEach(t), NEW id \in Slots, NEW c \in Nat,
         t[id] = <<>>
  PROVE  /\ OneEach(Alloc(t, id, c)) /\ Len(Alloc(t, id, c)[id]) = 1
         /\ \A s \in Slots : s # id => Alloc(t, id, c)[s] = t[s]
<1> DEFINE e == Entry(id, c)
<1>1. e.id = id /\ ~ e.freed
  BY DEF Entry
<1>2. Alloc(t, id, c) = [t EXCEPT ![id] = <<e>> \o <<>>]
  BY SmallHash DEF Alloc
<1> HIDE DEF e
<1>3. /\ Alloc(t, id, c)[id] = <<e>>
      /\ \A s \in Slots : s # id => Alloc(t, id, c)[s] = t[s]
  BY <1>2
<1>4. Len(<<e>>) = 1 /\ DOMAIN <<e>> = {1} /\ <<e>>[1] = e
  OBVIOUS
<1>5. ASSUME NEW s \in Slots
      PROVE  /\ Len(Alloc(t, id, c)[s]) <= 1
             /\ \A k \in DOMAIN Alloc(t, id, c)[s] :
                  Alloc(t, id, c)[s][k].id = s /\ ~ Alloc(t, id, c)[s][k].freed
  <2>1. CASE s = id
    <3> DEFINE w == <<e>>
    <3>1. Alloc(t, id, c)[s] = w /\ Len(w) = 1 /\ DOMAIN w = {1} /\ w[1] = e
      BY <1>3, <1>4, <2>1
    <3> HIDE DEF w
    <3> QED
      BY <1>1, <2>1, <3>1
  <2>2. CASE s # id
    BY <1>3, <2>2 DEF OneEach
  <2> QED
    BY <2>1, <2>2
<1> QED
  BY <1>3, <1>4, <1>5 DEF OneEach

(* dart_adapt_teamlist_dealloc finds no entry of another team.             *)
LEMMA OneEachDealloc ==
  ASSUME NEW t \in [Slots -> Seq(Entries)], OneEach(t), NEW id \in Slots
  PROVE  Dealloc(t, id) = t
<1>1. Hash(id) = id /\ t[id] \in Seq(Entries)
  BY SmallHash
<1>2. {k \in 1 .. Len(t[id]) : t[id][k].id # id} = {}
  BY <1>1 DEF OneEach
<1>3. DeallocList(t[id], id) = t[id]
  BY <1>2 DEF DeallocList, SelectInSeq
<1> QED
  BY <1>1, <1>3 DEF Dealloc

(* Registering a lock changes that one entry.                              *)
LEMMA OneEachSetLock ==
  ASSUME NEW t \in [Slots -> Seq(Entries)], OneEach(t), NEW id \in Slots, NEW b \in BOOLEAN
  PROVE  /\ OneEach(SetLock(t, id, b))
         /\ \A s \in Slots : Len(SetLock(t, id, b)[s]) = Len(t[s])
         /\ \A s \in Slots : s # id => SetLock(t, id, b)[s] = t[s]
         /\ Len(t[id]) = 1 => SetLock(t, id, b)[id][1].lock = b
<1> DEFINE s == t[id]
           n == [s EXCEPT ![Len(s)].lock = b]
<1>1. s \in Seq(Entries) /\ Len(s) \in {0, 1} /\ Position(t, id) = Len(s)
  BY OneEachPosition
<1>2. SetLock(t, id, b) = [t EXCEPT ![id] = n]
  BY <1>1, SmallHash DEF SetLock
<1>3. /\ Len(n) = Len(s) /\ DOMAIN n = DOMAIN s
      /\ \A k \in DOMAIN n : n[k].id = s[k].id /\ n[k].freed = s[k].freed /\ n[k].lock = b
  <2>1. CASE Len(s) = 0
    BY <1>1, <2>1
  <2>2. CASE Len(s) = 1
    <3> DEFINE x == s[1]
               y == [x EXCEPT !.lock = b]
    <3>1. x \in Entries
      <4>1. 1 \in 1 .. Len(s)
        BY <2>2
      <4> QED
        BY <1>1, <4>1
    <3>2. n = [s EXCEPT ![1] = y]
      BY <2>2
    <3> HIDE DEF x
    <3>3. y.id = x.id /\ y.freed = x.freed /\ y.lock = b
      BY <3>1 DEF Entries
    <3> HIDE DEF y, n
    <3>4. /\ DOMAIN n = DOMAIN s /\ DOMAIN s = {1} /\ n[1] = y /\ Len(n) = 1
      BY <1>1, <2>2, <3>2
    <3> QED
      BY <2>2, <3>3, <3>4 DEF x
  <2> QED
    BY <1>1, <2>1, <2>2
<1> HIDE DEF n
<1>4. SetLock(t, id, b)[id] = n /\ \A z \in Slots : z # id => SetLock(t, id, b)[z] = t[z]
  BY <1>2
<1>5. OneEach(SetLock(t, id, b))
  <2> SUFFICES ASSUME NEW z \in Slots
               PROVE  /\ Len(SetLock(t, id, b)[z]) <= 1
                      /\ \A k \in DOMAIN SetLock(t, id, b)[z] :
                           /\ SetLock(t, id, b)[z][k].id = z
                           /\ ~ SetLock(t, id, b)[z][k].freed
    BY DEF OneEach
  <2>1. CASE z # id
    BY <1>4, <2>1 DEF OneEach
  <2>2. CASE z = id
    BY <1>3, <1>4, <2>2 DEF OneEach
  <2> QED
    BY <2>1, <2>2
<1>6. Len(s) = 1 => 1 \in DOMAIN s
  BY <1>1
<1> QED
  BY <1>3, <1>4, <1>5, <1>6

(* IDs fit in the table.                                                   *)
LEMMA IdsFit ==
  ASSUME TypeOK, TeamInv, NameInv, MaxOps < HashSize
  PROVE  /\ \A i \in DOMAIN ops : Settled(i) => ops[i].max \in Slots
         /\ \A u \in Units : \A g \in Given(u) : g.id \in Slots
<1>1. /\ Len(ops) \in Nat /\ DOMAIN ops = 1 .. Len(ops) /\ MaxOps \in Nat /\ HashSize \in Nat
      /\ Len(ops) <= MaxOps
  BY TeamConstants DEF TypeOK, NameInv, CommsAreCounted
<1>2. Len(comms) \in Nat /\ Len(comms) <= 1 + Len(ops)
  <2> DEFINE S == {i \in DOMAIN ops : Settled(i)}
  <2>1. IsFiniteSet(1 .. Len(ops)) /\ Cardinality(1 .. Len(ops)) = Len(ops)
    <3>1. 1 \in Int /\ Len(ops) \in Int
      BY <1>1
    <3>2. /\ IsFiniteSet(1 .. Len(ops))
          /\ Cardinality(1 .. Len(ops)) = IF 1 > Len(ops) THEN 0 ELSE Len(ops) - 1 + 1
      BY <3>1, FS_Interval
    <3> QED
      BY <1>1, <3>2
  <2>2. S \subseteq 1 .. Len(ops)
    BY <1>1
  <2> HIDE DEF S
  <2>3. IsFiniteSet(S) /\ Cardinality(S) \in Nat /\ Cardinality(S) <= Len(ops)
    BY <2>1, <2>2, FS_Subset, FS_CardinalityType
  <2>4. Len(comms) = 1 + Cardinality(S)
    BY DEF NameInv, CommsAreCounted, S
  <2> QED
    BY <1>1, <2>3, <2>4
<1>3. ASSUME NEW i \in DOMAIN ops, Settled(i) PROVE ops[i].max \in Slots
  <2>1. ops[i] \in Calls
    BY DEF TypeOK
  <2>2. ops[i].max \in Nat /\ ops[i].new \in Nat
    BY <2>1 DEF Calls
  <2>3. ops[i].max < ops[i].new /\ ops[i].new <= Len(comms)
    BY <1>3 DEF TeamInv, CallsAreSound
  <2> QED
    BY <1>1, <1>2, <2>2, <2>3 DEF Slots
<1>4. TeamAll \in Slots
  BY <1>1 DEF TeamAll, Slots
<1> QED
  BY <1>3, <1>4 DEF Given

(* The counter of a unit is past the ID of every team that it was given.   *)
LEMMA GivenIsPast ==
  ASSUME TypeOK, TeamInv, NEW u \in Units, NEW g \in Given(u)
  PROVE  g.id < nextid[u]
<1>1. nextid[u] \in Nat /\ 1 <= nextid[u]
  BY DEF TypeOK, TeamInv, CountersAreExact
<1>2. CASE g = [id |-> TeamAll, comm |-> World]
  BY <1>1, <1>2 DEF TeamAll
<1>3. CASE g # [id |-> TeamAll, comm |-> World]
  BY <1>3 DEF Given, TeamInv, CountersAreExact
<1> QED
  BY <1>2, <1>3

(* One unit's part of SlotsAreSingle.                                      *)
Listed(t, T, L) ==
  /\ OneEach(t)
  /\ \A h \in T : Len(t[h.id]) = 1 /\ (h \in L => t[h.id][1].lock)

(* SlotsAreSingle says this of every unit.                                 *)
LEMMA ListedEach ==
  SlotsAreSingle <=> \A u \in Units : Listed(table[u], team[u], lock[u])
BY DEF SlotsAreSingle, Listed, OneEach

(* A new team gets a slot that is empty: the unit's counter is past the ID *)
(* of every team it was given before, the destroyed ones included.         *)
LEMMA FinishCreateListed ==
  ASSUME TypeOK, TeamInv, NameInv, MaxOps < HashSize, NEW u \in Units, NEW i \in DOMAIN ops,
         FinishCreate(u, i), Listed(table[u], team[u], lock[u]), u \in ops[i].group
  PROVE  Listed(table'[u], team'[u], lock[u])
<1> DEFINE o == ops[i]
           g == [id |-> o.max, comm |-> o.new]
           t == table[u]
           a == Alloc(t, o.max, o.new)
<1>1. o.max \in Nat /\ o.new \in Nat
  <2>1. o \in Calls
    BY DEF TypeOK
  <2> HIDE DEF o
  <2> QED
    BY <2>1 DEF Calls
<1>2. Settled(i) /\ nextid[u] <= o.max /\ nextid[u] \in Nat
  BY DEF FinishCreate, TeamInv, CallsAreSound, CountersAreExact, TypeOK
<1>3. o.max \in Slots
  BY <1>2, IdsFit
<1>4. ASSUME NEW h \in Given(u) PROVE h.id # o.max /\ h.id \in Slots
  BY <1>1, <1>2, GivenIsPast, IdsFit, GivenComm DEF Teams
<1>5. t \in [Slots -> Seq(Entries)] /\ OneEach(t)
  BY DEF TypeOK, Listed
<1>6. t[o.max] = <<>>
  <2>1. t[o.max] \in Seq(Entries) /\ Len(t[o.max]) \in {0, 1}
    BY <1>3, <1>5, OneEachPosition
  <2>2. Len(t[o.max]) # 1
    <3> SUFFICES ASSUME Len(t[o.max]) = 1 PROVE FALSE
      OBVIOUS
    <3>1. 1 \in DOMAIN t[o.max]
      BY <2>1
    <3>2. [id |-> t[o.max][1].id, comm |-> t[o.max][1].comm] \in Given(u)
      BY <1>3, <3>1 DEF TeamInv, TeamsWereGiven
    <3>3. t[o.max][1].id = o.max
      BY <1>3, <1>5, <3>1 DEF OneEach
    <3> QED
      BY <1>4, <3>2, <3>3
  <2> QED
    BY <2>1, <2>2
<1>7. table'[u] = a /\ team'[u] = team[u] \cup {g}
  BY DEF FinishCreate, TypeOK
<1>8. /\ OneEach(a) /\ Len(a[o.max]) = 1
      /\ \A s \in Slots : s # o.max => a[s] = t[s]
  BY <1>1, <1>3, <1>5, <1>6, OneEachAlloc
<1>9. g.id = o.max /\ g \notin lock[u]
  BY <1>4 DEF NameInv, LocksWereGiven
<1>10. \A h \in team[u] : h.id # o.max /\ h.id \in Slots
  BY <1>4 DEF TeamInv, TeamsWereGiven
<1> HIDE DEF g, a, t, o
<1>11. \A h \in team[u] : Len(t[h.id]) = 1 /\ (h \in lock[u] => t[h.id][1].lock)
  BY DEF Listed, t
<1> QED
  BY <1>7, <1>8, <1>9, <1>10, <1>11 DEF Listed

(* The lock of the team with this ID is set or cleared.                    *)
LEMMA SetLockListed ==
  ASSUME TypeOK, TeamInv, NameInv, MaxOps < HashSize, NEW u \in Units, NEW g \in Given(u),
         Listed(table[u], team[u], lock[u]), NEW b \in BOOLEAN,
         NEW T \in SUBSET team[u], NEW L, \A h \in T : h.id # g.id => (h \in L => h \in lock[u]),
         b \/ g \notin L \/ g \notin T
  PROVE  Listed(SetLock(table[u], g.id, b), T, L)
<1> DEFINE t == table[u]
           n == SetLock(t, g.id, b)
<1>1. t \in [Slots -> Seq(Entries)] /\ OneEach(t) /\ g.id \in Slots
  BY IdsFit DEF TypeOK, Listed
<1>2. /\ OneEach(n) /\ \A s \in Slots : Len(n[s]) = Len(t[s])
      /\ \A s \in Slots : s # g.id => n[s] = t[s]
      /\ Len(t[g.id]) = 1 => n[g.id][1].lock = b
  BY <1>1, OneEachSetLock
<1>3. \A h \in T : h.id \in Slots /\ (h.id = g.id => h = g)
  BY IdsFit, GivenIdentifies DEF TeamInv, TeamsWereGiven
<1>4. \A h \in T : Len(t[h.id]) = 1 /\ (h \in lock[u] => t[h.id][1].lock)
  BY DEF Listed
<1> HIDE DEF n, t
<1>5. ASSUME NEW h \in T PROVE Len(n[h.id]) = 1 /\ (h \in L => n[h.id][1].lock)
  <2>1. CASE h.id # g.id
    BY <1>2, <1>3, <1>4, <2>1
  <2>2. CASE h.id = g.id
    BY <1>2, <1>3, <1>4, <2>2
  <2> QED
    BY <2>1, <2>2
<1> QED
  BY <1>2, <1>5 DEF Listed, n, t

(* No step puts two teams into one slot, and none removes the entry of a   *)
(* team or of its lock.                                                    *)
LEMMA SlotsStep ==
  ASSUME TypeOK, TeamInv, NameInv, SlotsAreSingle, MaxOps < HashSize, [Next]_vars
  PROVE  SlotsAreSingle'
<1>1. \A v \in Units : Listed(table[v], team[v], lock[v])
  BY ListedEach
<1> SUFFICES ASSUME NEW v \in Units PROVE Listed(table'[v], team'[v], lock'[v])
  BY DEF SlotsAreSingle, Listed, OneEach
<1>2. CASE UNCHANGED <<table, team, lock>>
  BY <1>1, <1>2
<1>3. ASSUME NEW u \in Units, NEW i \in DOMAIN ops, FinishCreate(u, i)
      PROVE  Listed(table'[v], team'[v], lock'[v])
  <2>1. lock' = lock
    BY <1>3 DEF FinishCreate
  <2>2. CASE u \in ops[i].group /\ v = u
    BY <1>1, <1>3, <2>1, <2>2, FinishCreateListed
  <2>3. CASE ~ (u \in ops[i].group /\ v = u)
    <3>1. table'[v] = table[v] /\ team'[v] = team[v]
      BY <1>3, <2>3 DEF FinishCreate, TypeOK
    <3> QED
      BY <1>1, <2>1, <3>1
  <2> QED
    BY <2>2, <2>3
<1>4. ASSUME NEW u \in Units, NEW i \in DOMAIN ops, FinishDestroy(u, i)
      PROVE  Listed(table'[v], team'[v], lock'[v])
  <2> DEFINE o == ops[i]
             g == [id |-> o.id, comm |-> o.comm]
             t == table[u]
  <2>1. /\ Inside(u, i) /\ lock' = lock /\ team' = [team EXCEPT ![u] = @ \ {g}]
        /\ table' = [table EXCEPT ![u] = IF Known(Dealloc(t, o.id), o.id)
                       THEN SetLock(Dealloc(t, o.id), o.id, FALSE) ELSE Dealloc(t, o.id)]
    BY <1>4 DEF FinishDestroy
  <2>2. g \in Given(u) /\ g.id = o.id
    BY <2>1 DEF Inside, NameInv, CallsNameTeams
  <2>3. o.id \in Slots /\ t \in [Slots -> Seq(Entries)] /\ OneEach(t)
    BY <1>1, <2>2, IdsFit DEF TypeOK, Listed
  <2>4. Dealloc(t, o.id) = t
    BY <2>3, OneEachDealloc
  <2> HIDE DEF g, o
  <2>5. CASE v # u
    <3>1. table'[v] = table[v] /\ team'[v] = team[v]
      BY <2>1, <2>5 DEF TypeOK
    <3> QED
      BY <1>1, <2>1, <3>1
  <2>6. CASE v = u
    <3>1. /\ team'[u] = team[u] \ {g}
          /\ table'[u] = IF Known(t, o.id) THEN SetLock(t, o.id, FALSE) ELSE t
      BY <2>1, <2>4 DEF TypeOK
    <3>2. CASE ~ Known(t, o.id)
      BY <1>1, <2>1, <2>6, <3>1, <3>2, ZenonT(60) DEF Listed
    <3>3. CASE Known(t, o.id)
      <4>1. FALSE \in BOOLEAN
        OBVIOUS
      <4>2. Listed(SetLock(table[u], g.id, FALSE), team[u] \ {g}, lock[u])
        BY <1>1, <2>2, <4>1, SetLockListed
      <4> QED
        BY <2>1, <2>2, <2>6, <3>1, <3>3, <4>2
    <3> QED
      BY <3>2, <3>3
  <2> QED
    BY <2>5, <2>6
<1>5. ASSUME NEW u \in Units, NEW i \in DOMAIN ops, FinishLock(u, i)
      PROVE  Listed(table'[v], team'[v], lock'[v])
  <2> DEFINE o == ops[i]
             g == [id |-> o.id, comm |-> o.comm]
  <2>1. /\ Inside(u, i) /\ team' = team /\ lock' = [lock EXCEPT ![u] = @ \cup {g}]
        /\ table' = [table EXCEPT ![u] = SetLock(@, o.id, TRUE)]
    BY <1>5 DEF FinishLock
  <2>2. g \in Given(u) /\ g.id = o.id
    BY <2>1 DEF Inside, NameInv, CallsNameTeams
  <2> HIDE DEF g, o
  <2>3. CASE v # u
    <3>1. table'[v] = table[v] /\ lock'[v] = lock[v]
      BY <2>1, <2>3 DEF TypeOK
    <3> QED
      BY <1>1, <2>1, <3>1
  <2>4. CASE v = u
    <3>1. TRUE \in BOOLEAN /\ team[u] \in SUBSET team[u]
      OBVIOUS
    <3>2. \A h \in team[u] : h.id # g.id => (h \in lock[u] \cup {g} => h \in lock[u])
      OBVIOUS
    <3>3. Listed(SetLock(table[u], g.id, TRUE), team[u], lock[u] \cup {g})
      BY <1>1, <2>2, <3>1, <3>2, SetLockListed
    <3>4. table'[u] = SetLock(table[u], g.id, TRUE) /\ lock'[u] = lock[u] \cup {g}
      BY <2>1, <2>2 DEF TypeOK
    <3> QED
      BY <2>1, <2>4, <3>3, <3>4
  <2> QED
    BY <2>3, <2>4
<1>6. ASSUME NEW u \in Units, NEW h \in lock[u], DestroyLock(u, h)
      PROVE  Listed(table'[v], team'[v], lock'[v])
  <2>1. CASE lock' = [lock EXCEPT ![u] = @ \ {h}]
             /\ table' = [table EXCEPT ![u] = SetLock(@, h.id, FALSE)]
    <3>1. h \in Given(u)
      BY DEF NameInv, LocksWereGiven
    <3>2. team' = team
      BY <1>6 DEF DestroyLock
    <3>3. CASE v # u
      <4>1. table'[v] = table[v] /\ lock'[v] = lock[v]
        BY <2>1, <3>3 DEF TypeOK
      <4> QED
        BY <1>1, <3>2, <4>1
    <3>4. CASE v = u
      <4>1. FALSE \in BOOLEAN /\ team[u] \in SUBSET team[u]
        OBVIOUS
      <4>2. Listed(SetLock(table[u], h.id, FALSE), team[u], lock[u] \ {h})
        BY <1>1, <3>1, <4>1, SetLockListed
      <4>3. table'[u] = SetLock(table[u], h.id, FALSE) /\ lock'[u] = lock[u] \ {h}
        BY <2>1 DEF TypeOK
      <4> QED
        BY <3>2, <3>4, <4>2, <4>3
    <3> QED
      BY <3>3, <3>4
  <2>2. CASE table' = table /\ lock'[v] \subseteq lock[v]
    <3>1. team' = team
      BY <1>6 DEF DestroyLock
    <3> QED
      BY <1>1, <2>2, <3>1 DEF Listed
  <2> QED
    BY <1>6, <2>1, <2>2, ZenonT(60) DEF DestroyLock, TypeOK
<1>7. ASSUME NEW u \in Units, Start(u) \/ Join(u) \/ Fail(u)
      PROVE  UNCHANGED <<table, team, lock>>
  BY <1>7 DEF Start, StartCreate, StartDestroy, StartLock, Join, Fail
<1> QED
  BY <1>2, <1>3, <1>4, <1>5, <1>6, <1>7 DEF Next, Finish, vars

(* Initially slot 0 has DART_TEAM_ALL and the others are empty.            *)
LEMMA SlotsInit == Init => SlotsAreSingle
<1> SUFFICES ASSUME Init, NEW u \in Units PROVE Listed(table[u], team[u], lock[u])
  BY DEF SlotsAreSingle, Listed, OneEach
<1> DEFINE z == [s \in Slots |-> <<>>]
           a == Alloc(z, TeamAll, World)
<1>1. z \in [Slots -> Seq(Entries)] /\ TeamAll \in Slots /\ World \in Nat
  BY TeamConstants DEF Slots, TeamAll, World
<1>2. z[TeamAll] = <<>> /\ OneEach(z)
  BY <1>1 DEF OneEach
<1> HIDE DEF z
<1>3. OneEach(a) /\ Len(a[TeamAll]) = 1
  BY <1>1, <1>2, OneEachAlloc
<1>4. table[u] = a /\ team[u] = {[id |-> TeamAll, comm |-> World]} /\ lock[u] = {}
  BY DEF Init, z
<1> QED
  BY <1>3, <1>4 DEF Listed

(* A team is in its slot, alone, with its communicator.                    *)
LEMMA SlotsFind ==
  ASSUME TypeOK, TeamInv, NameInv, SlotsAreSingle, MaxOps < HashSize
  PROVE  LiveTeamIsFound
<1> SUFFICES ASSUME NEW u \in Units, NEW h \in team[u]
             PROVE  LET s == table[u][Hash(h.id)]
                        p == Position(table[u], h.id) IN
                    /\ p # 0 /\ s[p].comm = h.comm
                    /\ h \in lock[u] => s[p].lock
                    /\ \A i \in 1 .. p : ~ s[i].freed
  BY DEF LiveTeamIsFound
<1> DEFINE t == table[u]
           s == t[h.id]
           g == [id |-> s[1].id, comm |-> s[1].comm]
<1>1. Listed(t, team[u], lock[u]) /\ t \in [Slots -> Seq(Entries)]
  BY ListedEach DEF TypeOK
<1>2. h \in Given(u) /\ h.id \in Slots
  BY IdsFit DEF TeamInv, TeamsWereGiven
<1>3. Hash(h.id) = h.id /\ Len(s) = 1 /\ Position(t, h.id) = 1 /\ s \in Seq(Entries)
  BY <1>1, <1>2, SmallHash, OneEachPosition DEF Listed
<1>4. 1 \in DOMAIN s /\ s[1].id = h.id /\ ~ s[1].freed /\ (h \in lock[u] => s[1].lock)
  <2>1. 1 \in DOMAIN s
    BY <1>3
  <2> QED
    BY <1>1, <1>2, <2>1 DEF Listed, OneEach
<1>5. g \in Given(u)
  BY <1>2, <1>4 DEF TeamInv, TeamsWereGiven
<1>6. g = h
  <2>1. g.id = h.id
    BY <1>4
  <2> HIDE DEF g
  <2> QED
    BY <1>2, <1>5, <2>1, GivenIdentifies
<1>7. s[1].comm = h.comm
  BY <1>6
<1> QED
  BY <1>3, <1>4, <1>7

(* A call is made on one team by all who take part: the units that have    *)
(* arrived in it were given, under the ID it was started with, the         *)
(* communicator it runs on.                                                *)
THEOREM CallsNameOneTeam == Spec => []CallsNameTeams
<1>1. Init => TypeOK /\ TeamInv /\ NameInv
  BY TeamInit, NamesInit
<1>2. TypeOK /\ TeamInv /\ NameInv /\ [Next]_vars => (TypeOK /\ TeamInv /\ NameInv)'
  BY TeamStep, NamesStep
<1>3. NameInv => CallsNameTeams
  BY DEF NameInv
<1> QED
  BY <1>1, <1>2, <1>3, PTL DEF Spec

(* While a program makes fewer collective calls than the table has slots,  *)
(* every team that has not been destroyed is found.                        *)
THEOREM LiveTeamsAreFound == MaxOps < HashSize => (Spec => []LiveTeamIsFound)
<1> SUFFICES ASSUME MaxOps < HashSize PROVE Spec => []LiveTeamIsFound
  OBVIOUS
<1> DEFINE I == TypeOK /\ TeamInv /\ NameInv /\ SlotsAreSingle
<1>1. Init => I
  BY TeamInit, NamesInit, SlotsInit
<1>2. I /\ [Next]_vars => I'
  BY TeamStep, NamesStep, SlotsStep
<1>3. I => LiveTeamIsFound
  BY SlotsFind
<1> QED
  BY <1>1, <1>2, <1>3, PTL DEF Spec
=============================================================================
