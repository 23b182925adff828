--------------------------- MODULE GlobMem_proofs ---------------------------
(***************************************************************************)
(* Proofs about the collective global memory of a team (dart_globmem.c,    *)
(* dart_segment.c), for any number of units, hash slots, segment IDs and   *)
(* calls: the units' segment IDs agree, the ID of a live call finds that   *)
(* call's segment, and what it finds is attached where it points.          *)
(*                                                                         *)
(* Argument.  TableInv: in a unit's table each segment is in the chain of  *)
(* its ID, IDs are unique there, and the IDs on the free lists were handed *)
(* out and are in use nowhere.  UnitInv: the segment of every call that a  *)
(* unit has completed and not released is in its table with what the call  *)
(* gathered, two such calls have different IDs, the segment a unit is      *)
(* working on is none of theirs, and live memory is attached.  A script    *)
(* releases each call at most once and after it was made, so a release     *)
(* removes one owned segment and no other's address.                       *)
(*                                                                         *)
(* That the units agree needs a different argument, for no invariant about *)
(* two units at the same place of the script speaks of units at different  *)
(* places.  LedgersAgree says that there is one history of ledgers         *)
(* (counters and free lists, by ID) along the script, and that every unit  *)
(* is at some point of it.                                                 *)
(***************************************************************************)
EXTENDS GlobMem, TLAPS

-----------------------------------------------------------------------------
(* Segment tables (dart_segment.c)                                         *)

Tables == [Slots -> Seq(Elems)]

(* An ID has a slot.                                                       *)
LEMMA HashSlot ==
  ASSUME NEW id \in Int
  PROVE  hash_segid(id) \in Slots
<1>1. \A n \in Nat : n % HashSize \in 0 .. (HashSize - 1)
  BY HashAssumption
<1> QED
  BY <1>1 DEF hash_segid, Slots

(* A segment of a table is in one of its chains.                           *)
LEMMA InSegments ==
  ASSUME NEW tab \in Tables, NEW e
  PROVE  e \in Segments(tab) <=> \E s \in Slots : \E i \in DOMAIN tab[s] : e = tab[s][i]
BY DEF Segments

(* dart_segment_get_info and its kind find a segment by its ID.            *)
LEMMA GetFinds ==
  ASSUME NEW tab \in Tables, ChainsAreSound(tab), NEW e \in Segments(tab)
  PROVE  /\ e \in Elems /\ get_segment(tab, e.segid) = e
         /\ \A x \in Segments(tab) : x.segid = e.segid => x = e
<1>1a. PICK s \in Slots : \E i \in DOMAIN tab[s] : e = tab[s][i]
  BY InSegments
<1>1. PICK i \in DOMAIN tab[s] : e = tab[s][i]
  BY <1>1a
<1>2. tab[s] \in Seq(Elems) /\ DOMAIN tab[s] = 1 .. Len(tab[s]) /\ Len(tab[s]) \in Nat
  BY DEF Tables
<1>3. e \in Elems
  BY <1>1, <1>2
<1>4. hash_segid(e.segid) = s /\ HasId(tab[s], e.segid) = {i}
  BY <1>1 DEF ChainsAreSound, HasId
<1>5. (CHOOSE k \in {i} : \A j \in {i} : k <= j) = i
  BY <1>1, <1>2
<1>6. get_segment(tab, e.segid) = e
  BY <1>1, <1>4, <1>5 DEF get_segment
<1>7. ASSUME NEW x \in Segments(tab), x.segid = e.segid PROVE x = e
  <2>1a. PICK z \in Slots : \E k \in DOMAIN tab[z] : x = tab[z][k]
    BY InSegments
  <2>1. PICK k \in DOMAIN tab[z] : x = tab[z][k]
    BY <2>1a
  <2>2. z = s
    BY <1>1, <1>7, <2>1 DEF ChainsAreSound
  <2> QED
    BY <1>1, <1>7, <2>1, <2>2 DEF ChainsAreSound
<1> QED
  BY <1>3, <1>6, <1>7

(* register_segment adds a segment whose ID is not in use.                 *)
LEMMA RegisterAdds ==
  ASSUME NEW tab \in Tables, ChainsAreSound(tab), NEW e \in Elems,
         \A x \in Segments(tab) : x.segid # e.segid
  PROVE  /\ register_segment(tab, e) \in Tables /\ ChainsAreSound(register_segment(tab, e))
         /\ Segments(register_segment(tab, e)) = Segments(tab) \cup {e}
<1> DEFINE s == hash_segid(e.segid)
           c == tab[s]
           n == <<e>> \o c
           t == register_segment(tab, e)
<1>1. s \in Slots
  BY HashSlot DEF Elems
<1>2. c \in Seq(Elems) /\ DOMAIN c = 1 .. Len(c) /\ Len(c) \in Nat
  BY <1>1 DEF Tables
<1>3. t = [tab EXCEPT ![s] = n]
  BY DEF register_segment
<1> HIDE DEF s, t
<1>4. /\ n \in Seq(Elems) /\ DOMAIN n = 1 .. Len(c) + 1 /\ n[1] = e
      /\ \A i \in DOMAIN n : i # 1 => i - 1 \in DOMAIN c /\ n[i] = c[i - 1]
      /\ \A i \in DOMAIN c : i + 1 \in DOMAIN n /\ n[i + 1] = c[i]
  <2> HIDE DEF c
  <2> QED
    BY <1>2
<1> HIDE DEF n
<1>5. t \in Tables /\ t[s] = n /\ \A z \in Slots : z # s => t[z] = tab[z]
  BY <1>1, <1>3, <1>4 DEF Tables
<1>6. ChainsAreSound(t)
  <2> SUFFICES ASSUME NEW z \in Slots, NEW i \in DOMAIN t[z], NEW j \in DOMAIN t[z]
               PROVE  hash_segid(t[z][i].segid) = z /\ (t[z][i].segid = t[z][j].segid => i = j)
    BY DEF ChainsAreSound
  <2>1. CASE z # s
    BY <1>5, <2>1 DEF ChainsAreSound
  <2>2. CASE z = s
    <3>1. i \in DOMAIN n /\ j \in DOMAIN n /\ t[z] = n
      BY <1>5, <2>2
    <3>2. \A k \in DOMAIN c : c[k] \in Segments(tab)
      BY <1>1, InSegments
    <3>3. \A k \in DOMAIN n : hash_segid(n[k].segid) = s
      BY <1>1, <1>4 DEF ChainsAreSound, s
    <3>4. n[i].segid = n[j].segid => i = j
      <4>1. CASE i = 1 /\ j = 1
        BY <4>1
      <4>2. CASE i = 1 /\ j # 1
        BY <1>4, <3>1, <3>2, <4>2
      <4>3. CASE i # 1 /\ j = 1
        BY <1>4, <3>1, <3>2, <4>3
      <4>4. CASE i # 1 /\ j # 1
        <5>1. /\ i - 1 \in DOMAIN c /\ n[i] = c[i - 1]
              /\ j - 1 \in DOMAIN c /\ n[j] = c[j - 1]
          BY <1>4, <3>1, <4>4
        <5>2. n[i].segid = n[j].segid => i - 1 = j - 1
          BY <1>1, <5>1 DEF ChainsAreSound
        <5> QED
          BY <1>4, <3>1, <5>2
      <4> QED
        BY <4>1, <4>2, <4>3, <4>4
    <3> QED
      BY <2>2, <3>1, <3>3, <3>4
  <2> QED
    BY <2>1, <2>2
<1>7. ASSUME NEW x PROVE x \in Segments(t) <=> x \in Segments(tab) \cup {e}
  <2>1. ASSUME x \in Segments(t) PROVE x \in Segments(tab) \cup {e}
    <3>1a. PICK z \in Slots : \E i \in DOMAIN t[z] : x = t[z][i]
      BY <1>5, <2>1, InSegments
    <3>1. PICK i \in DOMAIN t[z] : x = t[z][i]
      BY <3>1a
    <3>2. CASE z # s
      BY <1>5, <3>1, <3>2, InSegments
    <3>3. CASE z = s
      BY <1>1, <1>4, <1>5, <3>1, <3>3, InSegments
    <3> QED
      BY <3>2, <3>3
  <2>2. e \in Segments(t)
    <3>1. 1 \in DOMAIN t[s] /\ t[s][1] = e
      BY <1>2, <1>4, <1>5
    <3> QED
      BY <1>1, <1>5, <3>1, InSegments
  <2>3. ASSUME x \in Segments(tab) PROVE x \in Segments(t)
    <3>1a. PICK z \in Slots : \E i \in DOMAIN tab[z] : x = tab[z][i]
      BY <2>3, InSegments
    <3>1. PICK i \in DOMAIN tab[z] : x = tab[z][i]
      BY <3>1a
    <3>2. CASE z # s
      BY <1>5, <3>1, <3>2, InSegments
    <3>3. CASE z = s
      <4>1. i + 1 \in DOMAIN t[s] /\ t[s][i + 1] = x
        BY <1>4, <1>5, <3>1, <3>3
      <4> QED
        BY <1>1, <1>5, <4>1, InSegments
    <3> QED
      BY <3>2, <3>3
  <2> QED
    BY <2>1, <2>2, <2>3
<1> QED
  BY <1>5, <1>6, <1>7 DEF t

(* Filling in a segment replaces it.                                       *)
LEMMA SetReplaces ==
  ASSUME NEW tab \in Tables, ChainsAreSound(tab), NEW e \in Elems,
         NEW x \in Segments(tab), x.segid = e.segid
  PROVE  /\ SetSegment(tab, e) \in Tables /\ ChainsAreSound(SetSegment(tab, e))
         /\ Segments(SetSegment(tab, e)) = (Segments(tab) \ {x}) \cup {e}
<1> DEFINE s == hash_segid(e.segid)
           c == tab[s]
           n == [i \in DOMAIN c |-> IF c[i].segid = e.segid THEN e ELSE c[i]]
           t == SetSegment(tab, e)
<1>1. s \in Slots
  BY HashSlot DEF Elems
<1>2. c \in Seq(Elems) /\ DOMAIN c = 1 .. Len(c) /\ Len(c) \in Nat
  BY <1>1 DEF Tables
<1>3. t = [tab EXCEPT ![s] = n]
  BY DEF SetSegment
<1> HIDE DEF s, t
<1>4. /\ n \in Seq(Elems) /\ DOMAIN n = DOMAIN c
      /\ \A i \in DOMAIN c : n[i] = (IF c[i].segid = e.segid THEN e ELSE c[i])
                             /\ n[i].segid = c[i].segid
  <2> HIDE DEF c
  <2> QED
    BY <1>2
<1> HIDE DEF n
<1>5. t \in Tables /\ t[s] = n /\ \A z \in Slots : z # s => t[z] = tab[z]
  BY <1>1, <1>3, <1>4 DEF Tables
<1>6. ASSUME NEW z \in Slots
      PROVE  /\ DOMAIN t[z] = DOMAIN tab[z]
             /\ \A i \in DOMAIN tab[z] :
                  /\ t[z][i].segid = tab[z][i].segid
                  /\ tab[z][i] = x => t[z][i] = e
                  /\ tab[z][i] # x => t[z][i] = tab[z][i]
  <2>1. ASSUME NEW i \in DOMAIN tab[z] PROVE tab[z][i] # x => tab[z][i].segid # e.segid
    <3>1. tab[z][i] \in Segments(tab)
      BY InSegments
    <3> QED
      BY <3>1, GetFinds
  <2>2. CASE z = s
    BY <1>1, <1>4, <1>5, <2>1, <2>2
  <2>3. CASE z # s
    <3>1. \A i \in DOMAIN tab[z] : tab[z][i] # x
      BY <2>3 DEF ChainsAreSound, s
    <3> QED
      BY <1>5, <2>3, <3>1
  <2> QED
    BY <2>2, <2>3
<1>7. ChainsAreSound(t)
  BY <1>6 DEF ChainsAreSound
<1>8. ASSUME NEW y PROVE y \in Segments(t) <=> y \in (Segments(tab) \ {x}) \cup {e}
  <2>1. ASSUME y \in Segments(t) PROVE y \in (Segments(tab) \ {x}) \cup {e}
    <3>1a. PICK z \in Slots : \E i \in DOMAIN t[z] : y = t[z][i]
      BY <1>5, <2>1, InSegments
    <3>1. PICK i \in DOMAIN t[z] : y = t[z][i]
      BY <3>1a
    <3>2. i \in DOMAIN tab[z] /\ tab[z][i] \in Segments(tab)
      BY <1>6, <3>1, InSegments
    <3> QED
      BY <1>6, <3>1, <3>2
  <2>2. ASSUME y \in (Segments(tab) \ {x}) \cup {e} PROVE y \in Segments(t)
    <3>1. CASE y = e
      <4>1a. PICK z \in Slots : \E i \in DOMAIN tab[z] : x = tab[z][i]
        BY InSegments
      <4>1. PICK i \in DOMAIN tab[z] : x = tab[z][i]
        BY <4>1a
      <4> QED
        BY <1>5, <1>6, <3>1, <4>1, InSegments
    <3>2. CASE y # e
      <4>1a. PICK z \in Slots : \E i \in DOMAIN tab[z] : y = tab[z][i] /\ y # x
        BY <2>2, <3>2, InSegments
      <4>1. PICK i \in DOMAIN tab[z] : y = tab[z][i] /\ y # x
        BY <4>1a
      <4> QED
        BY <1>5, <1>6, <4>1, InSegments
    <3> QED
      BY <3>1, <3>2
  <2> QED
    BY <2>1, <2>2
<1> QED
  BY <1>5, <1>7, <1>8 DEF t

(* The table without the first segment of an ID.                           *)
First(chain, id) == CHOOSE i \in HasId(chain, id) : \A j \in HasId(chain, id) : i <= j
Unlink(tab, id) == [tab EXCEPT ![hash_segid(id)] = RemoveAt(@, First(tab[hash_segid(id)], id))]

(* What concatenation does, for sequences over one set.                    *)
LEMMA Concat ==
  ASSUME NEW S, NEW a \in Seq(S), NEW b \in Seq(S)
  PROVE  /\ a \o b \in Seq(S) /\ Len(a \o b) = Len(a) + Len(b)
         /\ \A i \in 1 .. Len(a) : (a \o b)[i] = a[i]
         /\ \A i \in (Len(a) + 1) .. (Len(a) + Len(b)) : (a \o b)[i] = b[i - Len(a)]
OBVIOUS

(* dart_segment_free removes the segment it is asked for and no other.     *)
LEMMA UnlinkRemoves ==
  ASSUME NEW tab \in Tables, ChainsAreSound(tab), NEW x \in Segments(tab)
  PROVE  /\ Unlink(tab, x.segid) \in Tables /\ ChainsAreSound(Unlink(tab, x.segid))
         /\ Segments(Unlink(tab, x.segid)) = Segments(tab) \ {x}
<1>0. PICK s \in Slots : \E i \in DOMAIN tab[s] : x = tab[s][i]
  BY InSegments
<1>1. PICK p \in DOMAIN tab[s] : x = tab[s][p]
  BY <1>0
<1> DEFINE c == tab[s]
           n == RemoveAt(c, p)
           t == Unlink(tab, x.segid)
<1>2. c \in Seq(Elems) /\ DOMAIN c = 1 .. Len(c) /\ Len(c) \in Nat /\ p \in 1 .. Len(c)
  BY <1>1 DEF Tables
<1>3. hash_segid(x.segid) = s /\ HasId(c, x.segid) = {p}
  BY <1>1 DEF ChainsAreSound, HasId
<1>4. First(c, x.segid) = p
  <2>1. (CHOOSE k \in {p} : \A j \in {p} : k <= j) = p
    BY <1>2
  <2> QED
    BY <1>3, <2>1 DEF First
<1>5. t = [tab EXCEPT ![s] = n]
  BY <1>3, <1>4 DEF Unlink
<1> HIDE DEF t
<1>6. /\ n \in Seq(Elems) /\ DOMAIN n = 1 .. Len(c) - 1
      /\ \A i \in 1 .. Len(c) - 1 : n[i] = c[IF i < p THEN i ELSE i + 1]
  <2> HIDE DEF c
  <2> DEFINE a == SubSeq(c, 1, p - 1)
             b == SubSeq(c, p + 1, Len(c))
  <2>1. /\ a \in Seq(Elems) /\ Len(a) = p - 1
        /\ \A i \in 1 .. p - 1 : a[i] = c[i]
    BY <1>2
  <2>2. /\ b \in Seq(Elems) /\ Len(b) = Len(c) - p
        /\ \A i \in 1 .. Len(c) - p : b[i] = c[p + i]
    BY <1>2, SMTT(60)
  <2>3. n = a \o b
    BY DEF RemoveAt
  <2> HIDE DEF a, b, n
  <2>4. /\ n \in Seq(Elems) /\ Len(n) = Len(a) + Len(b)
        /\ \A i \in 1 .. Len(a) : n[i] = a[i]
        /\ \A i \in (Len(a) + 1) .. (Len(a) + Len(b)) : n[i] = b[i - Len(a)]
    BY <2>1, <2>2, <2>3, Concat, ZenonT(60)
  <2>5. DOMAIN n = 1 .. Len(c) - 1
    BY <1>2, <2>1, <2>2, <2>4
  <2>6. ASSUME NEW i \in 1 .. Len(c) - 1 PROVE n[i] = c[IF i < p THEN i ELSE i + 1]
    <3>1. CASE i < p
      <4>1. i \in 1 .. Len(a)
        BY <1>2, <2>1, <3>1
      <4>2. n[i] = a[i]
        BY <2>4, <4>1
      <4> QED
        BY <2>1, <3>1, <4>1, <4>2
    <3>2. CASE ~(i < p)
      <4>1. i - Len(a) \in 1 .. Len(c) - p /\ i \in (Len(a) + 1) .. (Len(a) + Len(b))
        BY <1>2, <2>1, <2>2, <3>2
      <4>2. n[i] = b[i - Len(a)]
        BY <2>4, <4>1
      <4>3. p + (i - Len(a)) = i + 1
        BY <1>2, <2>1
      <4> QED
        BY <2>2, <3>2, <4>1, <4>2, <4>3
    <3> QED
      BY <3>1, <3>2
  <2> QED
    BY <2>4, <2>5, <2>6
<1> HIDE DEF n
<1>7. t \in Tables /\ t[s] = n /\ \A z \in Slots : z # s => t[z] = tab[z]
  BY <1>5, <1>6 DEF Tables
<1> DEFINE up(i) == IF i < p THEN i ELSE i + 1
<1>8. ASSUME NEW i \in DOMAIN n
      PROVE  up(i) \in DOMAIN c /\ up(i) # p /\ n[i] = c[up(i)]
  BY <1>2, <1>6, SMTT(60)
<1>9. ASSUME NEW i \in DOMAIN n, NEW j \in DOMAIN n, up(i) = up(j) PROVE i = j
  BY <1>2, <1>6, <1>9
<1>10. ASSUME NEW k \in DOMAIN c, k # p PROVE \E i \in DOMAIN n : n[i] = c[k]
  <2>1. CASE k < p
    <3>1. k \in DOMAIN n /\ up(k) = k
      BY <1>2, <1>6, <1>10, <2>1
    <3> QED
      BY <1>8, <3>1
  <2>2. CASE k > p
    <3>1. k - 1 \in DOMAIN n /\ up(k - 1) = k
      BY <1>2, <1>6, <1>10, <2>2
    <3> QED
      BY <1>8, <3>1
  <2> QED
    BY <1>2, <1>10, <2>1, <2>2
<1> HIDE DEF up
<1>11. ChainsAreSound(t)
  <2> SUFFICES ASSUME NEW z \in Slots, NEW i \in DOMAIN t[z], NEW j \in DOMAIN t[z]
               PROVE  hash_segid(t[z][i].segid) = z /\ (t[z][i].segid = t[z][j].segid => i = j)
    BY DEF ChainsAreSound
  <2>1. CASE z # s
    BY <1>7, <2>1 DEF ChainsAreSound
  <2>2. CASE z = s
    <3>1. i \in DOMAIN n /\ j \in DOMAIN n /\ t[z] = n
      BY <1>7, <2>2
    <3>2. /\ up(i) \in DOMAIN c /\ n[i] = c[up(i)]
          /\ up(j) \in DOMAIN c /\ n[j] = c[up(j)]
      BY <1>8, <3>1
    <3>3. hash_segid(n[i].segid) = s /\ (n[i].segid = n[j].segid => up(i) = up(j))
      BY <3>2 DEF ChainsAreSound
    <3> QED
      BY <1>9, <2>2, <3>1, <3>3
  <2> QED
    BY <2>1, <2>2
<1>12. ASSUME NEW y PROVE y \in Segments(t) <=> y \in Segments(tab) \ {x}
  <2>1. ASSUME y \in Segments(t) PROVE y \in Segments(tab) \ {x}
    <3>0. PICK z \in Slots : \E i \in DOMAIN t[z] : y = t[z][i]
      BY <1>7, <2>1, InSegments
    <3>1. PICK i \in DOMAIN t[z] : y = t[z][i]
      BY <3>0
    <3>2. CASE z # s
      <4>1. y \in Segments(tab) /\ hash_segid(y.segid) = z
        BY <1>7, <3>1, <3>2, InSegments DEF ChainsAreSound
      <4> QED
        BY <1>3, <3>2, <4>1
    <3>3. CASE z = s
      <4>1. up(i) \in DOMAIN c /\ up(i) # p /\ y = c[up(i)]
        BY <1>7, <1>8, <3>1, <3>3
      <4>2. y \in Segments(tab)
        BY <4>1, InSegments
      <4>3. y # x
        BY <1>1, <4>1 DEF ChainsAreSound
      <4> QED
        BY <4>2, <4>3
    <3> QED
      BY <3>2, <3>3
  <2>2. ASSUME y \in Segments(tab) \ {x} PROVE y \in Segments(t)
    <3>0. PICK z \in Slots : \E i \in DOMAIN tab[z] : y = tab[z][i]
      BY <2>2, InSegments
    <3>1. PICK i \in DOMAIN tab[z] : y = tab[z][i]
      BY <3>0
    <3>2. CASE z # s
      BY <1>7, <3>1, <3>2, InSegments
    <3>3. CASE z = s
      <4>1. i \in DOMAIN c /\ i # p
        BY <1>1, <2>2, <3>1, <3>3
      <4>2. PICK k \in DOMAIN n : n[k] = c[i]
        BY <1>10, <4>1
      <4> QED
        BY <1>7, <3>1, <3>3, <4>2, InSegments
    <3> QED
      BY <3>2, <3>3
  <2> QED
    BY <2>1, <2>2
<1> QED
  BY <1>7, <1>11, <1>12 DEF t

-----------------------------------------------------------------------------
(* Free lists                                                              *)

(* The head of a free list can be taken.                                   *)
LEMMA FreeTake ==
  ASSUME NEW free \in Seq(Elems), free # <<>>, NEW tab, NEW t, NEW ids,
         FreeListIsSound(free, tab, ids), Segments(t) = Segments(tab) \cup {Head(free)}
  PROVE  /\ Head(free) \in Elems /\ Head(free).segid \in ids
         /\ \A e \in Segments(tab) : e.segid # Head(free).segid
         /\ Tail(free) \in Seq(Elems) /\ FreeListIsSound(Tail(free), t, ids)
<1>1. 1 \in DOMAIN free /\ Head(free) = free[1] /\ Head(free) \in Elems
  OBVIOUS
<1>2. /\ Tail(free) \in Seq(Elems) /\ DOMAIN Tail(free) = 1 .. Len(free) - 1
      /\ Len(free) \in Nat /\ DOMAIN free = 1 .. Len(free)
      /\ \A i \in DOMAIN Tail(free) : Tail(free)[i] = free[i + 1] /\ i + 1 \in DOMAIN free
  OBVIOUS
<1>3. Head(free).segid \in ids /\ \A e \in Segments(tab) : e.segid # Head(free).segid
  BY <1>1 DEF FreeListIsSound
<1>4. ASSUME NEW i \in DOMAIN Tail(free)
      PROVE  /\ Tail(free)[i].segid \in ids
             /\ \A e \in Segments(t) : e.segid # Tail(free)[i].segid
             /\ \A j \in DOMAIN Tail(free) : Tail(free)[i].segid = Tail(free)[j].segid => i = j
  <2>1. Tail(free)[i] = free[i + 1] /\ i + 1 \in DOMAIN free /\ i + 1 # 1
    BY <1>2
  <2>2. /\ free[i + 1].segid \in ids
        /\ \A e \in Segments(tab) : e.segid # free[i + 1].segid
        /\ \A j \in DOMAIN free : free[i + 1].segid = free[j].segid => i + 1 = j
    BY <2>1 DEF FreeListIsSound
  <2>3. Head(free).segid # free[i + 1].segid
    BY <1>1, <2>1, <2>2
  <2>4. \A j \in DOMAIN Tail(free) : Tail(free)[i].segid = Tail(free)[j].segid => i + 1 = j + 1
    BY <1>2, <2>1, <2>2
  <2> QED
    BY <1>2, <2>1, <2>2, <2>3, <2>4
<1> QED
  BY <1>1, <1>2, <1>3, <1>4 DEF FreeListIsSound

(* A free list stays sound while no ID of it comes into use.               *)
LEMMA FreeKeep ==
  ASSUME NEW free, NEW tab, NEW t, NEW ids, NEW more,
         FreeListIsSound(free, tab, ids), ids \subseteq more,
         \A x \in Segments(t) : x.segid \notin ids \/ \E y \in Segments(tab) : y.segid = x.segid
  PROVE  FreeListIsSound(free, t, more)
BY DEF FreeListIsSound

(* A segment that leaves the table goes to the head of a free list.        *)
LEMMA FreePut ==
  ASSUME NEW free \in Seq(Elems), NEW tab \in Tables, NEW t, NEW ids, ChainsAreSound(tab),
         NEW e \in Segments(tab), e.segid \in ids,
         FreeListIsSound(free, tab, ids), Segments(t) = Segments(tab) \ {e}
  PROVE  <<e>> \o free \in Seq(Elems) /\ FreeListIsSound(<<e>> \o free, t, ids)
<1>1. e \in Elems /\ \A x \in Segments(t) : x.segid # e.segid
  BY GetFinds
<1> DEFINE n == <<e>> \o free
<1>2. /\ n \in Seq(Elems) /\ n[1] = e
      /\ \A i \in DOMAIN n : i # 1 => i - 1 \in DOMAIN free /\ n[i] = free[i - 1]
      /\ \A i \in DOMAIN n : i \in Int
  BY <1>1
<1> HIDE DEF n
<1>3. ASSUME NEW i \in DOMAIN n
      PROVE  /\ n[i].segid \in ids
             /\ \A x \in Segments(t) : x.segid # n[i].segid
             /\ \A j \in DOMAIN n : n[i].segid = n[j].segid => i = j
  <2>1. CASE i = 1
    <3>1. ASSUME NEW j \in DOMAIN n, n[i].segid = n[j].segid, j # 1 PROVE FALSE
      BY <1>2, <2>1, <3>1 DEF FreeListIsSound
    <3> QED
      BY <1>1, <1>2, <2>1, <3>1
  <2>2. CASE i # 1
    <3>1. i - 1 \in DOMAIN free /\ n[i] = free[i - 1]
      BY <1>2, <2>2
    <3>2. ASSUME NEW j \in DOMAIN n, n[i].segid = n[j].segid PROVE i = j
      <4>1. j # 1
        BY <1>2, <3>1, <3>2 DEF FreeListIsSound
      <4>2. i - 1 = j - 1
        BY <1>2, <3>1, <3>2, <4>1 DEF FreeListIsSound
      <4> QED
        BY <1>2, <4>2
    <3> QED
      BY <3>1, <3>2 DEF FreeListIsSound
  <2> QED
    BY <2>1, <2>2
<1> QED
  BY <1>2, <1>3 DEF FreeListIsSound, n

-----------------------------------------------------------------------------
(* The table and the free lists of one unit                                *)

TableInv(tab, m, r, mf, rf) ==
    /\ ChainsAreSound(tab)
    /\ \A e \in Segments(tab) : e.segid \in (r + 1) .. (m - 1)
    /\ FreeListIsSound(mf, tab, 1 .. (m - 1))
    /\ FreeListIsSound(rf, tab, (r + 1) .. -1)

TableType(tab, m, r, mf, rf) ==
    /\ tab \in Tables /\ mf \in Seq(Elems) /\ rf \in Seq(Elems)
    /\ m \in 1 .. MaxSegId /\ r \in (-MaxSegId - 1) .. -1

(* What dart_segment_alloc does to a table: one segment more, of an ID     *)
(* that no other has.                                                      *)
Taken(tab, t, e) ==
    /\ e \in Elems /\ \A x \in Segments(tab) : x.segid # e.segid
    /\ Segments(t) = Segments(tab) \cup {e}

(* A segment that dart_segment_alloc creates.                              *)
LEMMA FreshIsElem ==
  ASSUME NEW id \in Int
  PROVE  FreshElem(id) \in Elems /\ FreshElem(id).segid = id
BY DEF FreshElem, Elems, Addresses

(* An ID for allocated memory, from the free list, ...                     *)
LEMMA TakeMemFree ==
  ASSUME NEW tab, NEW m, NEW r, NEW mf, NEW rf,
         TableType(tab, m, r, mf, rf), TableInv(tab, m, r, mf, rf), mf # <<>>
  PROVE  LET t == register_segment(tab, Head(mf)) IN
         /\ TableType(t, m, r, Tail(mf), rf) /\ TableInv(t, m, r, Tail(mf), rf)
         /\ Taken(tab, t, Head(mf)) /\ Head(mf).segid \in 1 .. (MaxSegId - 1)
<1> DEFINE e == Head(mf)
           t == register_segment(tab, e)
<1>1. /\ tab \in Tables /\ mf \in Seq(Elems) /\ rf \in Seq(Elems)
      /\ m \in 1 .. MaxSegId /\ r \in (-MaxSegId - 1) .. -1 /\ MaxSegId \in Nat
  BY SegIdAssumption DEF TableType
<1>2. /\ ChainsAreSound(tab)
      /\ \A x \in Segments(tab) : x.segid \in (r + 1) .. (m - 1)
      /\ FreeListIsSound(mf, tab, 1 .. (m - 1))
      /\ FreeListIsSound(rf, tab, (r + 1) .. -1)
  BY DEF TableInv
<1> HIDE DEF t
<1>3. 1 \in DOMAIN mf /\ e = mf[1] /\ e \in Elems
  BY <1>1
<1>4. e.segid \in 1 .. (m - 1) /\ \A x \in Segments(tab) : x.segid # e.segid
  BY <1>2, <1>3 DEF FreeListIsSound
<1> HIDE DEF e
<1>5. t \in Tables /\ ChainsAreSound(t) /\ Segments(t) = Segments(tab) \cup {e}
  BY <1>1, <1>2, <1>3, <1>4, RegisterAdds DEF t
<1>6. Tail(mf) \in Seq(Elems) /\ FreeListIsSound(Tail(mf), t, 1 .. (m - 1))
  BY <1>1, <1>2, <1>5, FreeTake DEF e
<1>7. FreeListIsSound(rf, t, (r + 1) .. -1)
  <2> DEFINE ids == (r + 1) .. -1
  <2>1. \A x \in Segments(t) :
           x.segid \notin ids \/ \E y \in Segments(tab) : y.segid = x.segid
    BY <1>1, <1>4, <1>5
  <2>2. FreeListIsSound(rf, tab, ids)
    BY <1>2
  <2> HIDE DEF ids
  <2>3. FreeListIsSound(rf, t, ids)
    BY <2>1, <2>2, FreeKeep
  <2> QED
    BY <2>3 DEF ids
<1>8. \A x \in Segments(t) : x.segid \in (r + 1) .. (m - 1)
  BY <1>1, <1>2, <1>4, <1>5
<1>9. e.segid \in 1 .. (MaxSegId - 1)
  BY <1>1, <1>4
<1> QED
  BY <1>1, <1>3, <1>4, <1>5, <1>6, <1>7, <1>8, <1>9 DEF TableType, TableInv, Taken, e, t

(* ... or, the free list being empty, from the counter memid.              *)
LEMMA TakeMemFresh ==
  ASSUME NEW tab, NEW m, NEW r, NEW mf, NEW rf,
         TableType(tab, m, r, mf, rf), TableInv(tab, m, r, mf, rf), m # MaxSegId
  PROVE  LET t == register_segment(tab, FreshElem(m)) IN
         /\ TableType(t, m + 1, r, mf, rf) /\ TableInv(t, m + 1, r, mf, rf)
         /\ Taken(tab, t, FreshElem(m)) /\ m \in 1 .. (MaxSegId - 1)
<1> DEFINE e == FreshElem(m)
           t == register_segment(tab, e)
<1>1. /\ tab \in Tables /\ mf \in Seq(Elems) /\ rf \in Seq(Elems)
      /\ m \in 1 .. MaxSegId /\ r \in (-MaxSegId - 1) .. -1 /\ MaxSegId \in Nat
  BY SegIdAssumption DEF TableType
<1>2. /\ ChainsAreSound(tab)
      /\ \A x \in Segments(tab) : x.segid \in (r + 1) .. (m - 1)
      /\ FreeListIsSound(mf, tab, 1 .. (m - 1))
      /\ FreeListIsSound(rf, tab, (r + 1) .. -1)
  BY DEF TableInv
<1> HIDE DEF t
<1>3. e \in Elems /\ e.segid = m
  BY <1>1, FreshIsElem
<1>4. \A x \in Segments(tab) : x.segid # e.segid
  BY <1>1, <1>2, <1>3
<1> HIDE DEF e
<1>5. t \in Tables /\ ChainsAreSound(t) /\ Segments(t) = Segments(tab) \cup {e}
  BY <1>1, <1>2, <1>3, <1>4, RegisterAdds DEF t
<1>6. FreeListIsSound(mf, t, 1 .. (m + 1 - 1))
  <2> DEFINE ids == 1 .. (m - 1)
             more == 1 .. (m + 1 - 1)
  <2>1. \A x \in Segments(t) :
           x.segid \notin ids \/ \E y \in Segments(tab) : y.segid = x.segid
    BY <1>1, <1>3, <1>5
  <2>2. FreeListIsSound(mf, tab, ids)
    BY <1>2
  <2>3. ids \subseteq more
    BY <1>1
  <2> HIDE DEF ids, more
  <2>4. FreeListIsSound(mf, t, more)
    BY <2>1, <2>2, <2>3, FreeKeep
  <2> QED
    BY <2>4 DEF more
<1>7. FreeListIsSound(rf, t, (r + 1) .. -1)
  <2> DEFINE ids == (r + 1) .. -1
  <2>1. \A x \in Segments(t) :
           x.segid \notin ids \/ \E y \in Segments(tab) : y.segid = x.segid
    BY <1>1, <1>3, <1>5
  <2>2. FreeListIsSound(rf, tab, ids)
    BY <1>2
  <2> HIDE DEF ids
  <2>3. FreeListIsSound(rf, t, ids)
    BY <2>1, <2>2, FreeKeep
  <2> QED
    BY <2>3 DEF ids
<1>8. \A x \in Segments(t) : x.segid \in (r + 1) .. (m + 1 - 1)
  BY <1>1, <1>2, <1>3, <1>5
<1>9. m \in 1 .. (MaxSegId - 1) /\ m + 1 \in 1 .. MaxSegId
  BY <1>1
<1> QED
  BY <1>1, <1>3, <1>4, <1>5, <1>6, <1>7, <1>8, <1>9 DEF TableType, TableInv, Taken, e, t

(* An ID for registered memory, from the free list, ...                    *)
LEMMA TakeRegFree ==
  ASSUME NEW tab, NEW m, NEW r, NEW mf, NEW rf,
         TableType(tab, m, r, mf, rf), TableInv(tab, m, r, mf, rf), rf # <<>>
  PROVE  LET t == register_segment(tab, Head(rf)) IN
         /\ TableType(t, m, r, mf, Tail(rf)) /\ TableInv(t, m, r, mf, Tail(rf))
         /\ Taken(tab, t, Head(rf)) /\ Head(rf).segid \in -MaxSegId .. -1
<1> DEFINE e == Head(rf)
           t == register_segment(tab, e)
<1>1. /\ tab \in Tables /\ mf \in Seq(Elems) /\ rf \in Seq(Elems)
      /\ m \in 1 .. MaxSegId /\ r \in (-MaxSegId - 1) .. -1 /\ MaxSegId \in Nat
  BY SegIdAssumption DEF TableType
<1>2. /\ ChainsAreSound(tab)
      /\ \A x \in Segments(tab) : x.segid \in (r + 1) .. (m - 1)
      /\ FreeListIsSound(mf, tab, 1 .. (m - 1))
      /\ FreeListIsSound(rf, tab, (r + 1) .. -1)
  BY DEF TableInv
<1> HIDE DEF t
<1>3. 1 \in DOMAIN rf /\ e = rf[1] /\ e \in Elems
  BY <1>1
<1>4. e.segid \in (r + 1) .. -1 /\ \A x \in Segments(tab) : x.segid # e.segid
  BY <1>2, <1>3 DEF FreeListIsSound
<1> HIDE DEF e
<1>5. t \in Tables /\ ChainsAreSound(t) /\ Segments(t) = Segments(tab) \cup {e}
  BY <1>1, <1>2, <1>3, <1>4, RegisterAdds DEF t
<1>6. Tail(rf) \in Seq(Elems) /\ FreeListIsSound(Tail(rf), t, (r + 1) .. -1)
  BY <1>1, <1>2, <1>5, FreeTake DEF e
<1>7. FreeListIsSound(mf, t, 1 .. (m - 1))
  <2> DEFINE ids == 1 .. (m - 1)
  <2>1. \A x \in Segments(t) :
           x.segid \notin ids \/ \E y \in Segments(tab) : y.segid = x.segid
    BY <1>1, <1>4, <1>5
  <2>2. FreeListIsSound(mf, tab, ids)
    BY <1>2
  <2> HIDE DEF ids
  <2>3. FreeListIsSound(mf, t, ids)
    BY <2>1, <2>2, FreeKeep
  <2> QED
    BY <2>3 DEF ids
<1>8. \A x \in Segments(t) : x.segid \in (r + 1) .. (m - 1)
  BY <1>1, <1>2, <1>4, <1>5
<1>9. e.segid \in -MaxSegId .. -1
  BY <1>1, <1>4
<1> QED
  BY <1>1, <1>3, <1>4, <1>5, <1>6, <1>7, <1>8, <1>9 DEF TableType, TableInv, Taken, e, t

(* ... or from the counter registermemid, down to -MaxSegId.               *)
LEMMA TakeRegFresh ==
  ASSUME NEW tab, NEW m, NEW r, NEW mf, NEW rf,
         TableType(tab, m, r, mf, rf), TableInv(tab, m, r, mf, rf), r # -MaxSegId - 1
  PROVE  LET t == register_segment(tab, FreshElem(r)) IN
         /\ TableType(t, m, r - 1, mf, rf) /\ TableInv(t, m, r - 1, mf, rf)
         /\ Taken(tab, t, FreshElem(r)) /\ r \in -MaxSegId .. -1
<1> DEFINE e == FreshElem(r)
           t == register_segment(tab, e)
<1>1. /\ tab \in Tables /\ mf \in Seq(Elems) /\ rf \in Seq(Elems)
      /\ m \in 1 .. MaxSegId /\ r \in (-MaxSegId - 1) .. -1 /\ MaxSegId \in Nat
  BY SegIdAssumption DEF TableType
<1>2. /\ ChainsAreSound(tab)
      /\ \A x \in Segments(tab) : x.segid \in (r + 1) .. (m - 1)
      /\ FreeListIsSound(mf, tab, 1 .. (m - 1))
      /\ FreeListIsSound(rf, tab, (r + 1) .. -1)
  BY DEF TableInv
<1> HIDE DEF t
<1>3. e \in Elems /\ e.segid = r
  BY <1>1, FreshIsElem
<1>4. \A x \in Segments(tab) : x.segid # e.segid
  BY <1>1, <1>2, <1>3
<1> HIDE DEF e
<1>5. t \in Tables /\ ChainsAreSound(t) /\ Segments(t) = Segments(tab) \cup {e}
  BY <1>1, <1>2, <1>3, <1>4, RegisterAdds DEF t
<1>6. FreeListIsSound(rf, t, (r - 1 + 1) .. -1)
  <2> DEFINE ids == (r + 1) .. -1
             more == (r - 1 + 1) .. -1
  <2>1. \A x \in Segments(t) :
           x.segid \notin ids \/ \E y \in Segments(tab) : y.segid = x.segid
    BY <1>1, <1>3, <1>5
  <2>2. FreeListIsSound(rf, tab, ids)
    BY <1>2
  <2>3. ids \subseteq more
    BY <1>1
  <2> HIDE DEF ids, more
  <2>4. FreeListIsSound(rf, t, more)
    BY <2>1, <2>2, <2>3, FreeKeep
  <2> QED
    BY <2>4 DEF more
<1>7. FreeListIsSound(mf, t, 1 .. (m - 1))
  <2> DEFINE ids == 1 .. (m - 1)
  <2>1. \A x \in Segments(t) :
           x.segid \notin ids \/ \E y \in Segments(tab) : y.segid = x.segid
    BY <1>1, <1>3, <1>5
  <2>2. FreeListIsSound(mf, tab, ids)
    BY <1>2
  <2> HIDE DEF ids
  <2>3. FreeListIsSound(mf, t, ids)
    BY <2>1, <2>2, FreeKeep
  <2> QED
    BY <2>3 DEF ids
<1>8. \A x \in Segments(t) : x.segid \in (r - 1 + 1) .. (m - 1)
  BY <1>1, <1>2, <1>3, <1>5
<1>9. r \in -MaxSegId .. -1 /\ r - 1 \in (-MaxSegId - 1) .. -1
  BY <1>1
<1> QED
  BY <1>1, <1>3, <1>4, <1>5, <1>6, <1>7, <1>8, <1>9 DEF TableType, TableInv, Taken, e, t

(* Filling in a segment leaves the IDs as they are.                        *)
LEMMA TableFill ==
  ASSUME NEW tab, NEW m, NEW r, NEW mf, NEW rf,
         TableType(tab, m, r, mf, rf), TableInv(tab, m, r, mf, rf),
         NEW e \in Elems, NEW x \in Segments(tab), x.segid = e.segid
  PROVE  /\ TableType(SetSegment(tab, e), m, r, mf, rf)
         /\ TableInv(SetSegment(tab, e), m, r, mf, rf)
         /\ Segments(SetSegment(tab, e)) = (Segments(tab) \ {x}) \cup {e}
<1> DEFINE t == SetSegment(tab, e)
<1>1. /\ tab \in Tables /\ mf \in Seq(Elems) /\ rf \in Seq(Elems)
      /\ m \in 1 .. MaxSegId /\ r \in (-MaxSegId - 1) .. -1
  BY DEF TableType
<1>2. /\ ChainsAreSound(tab)
      /\ \A y \in Segments(tab) : y.segid \in (r + 1) .. (m - 1)
      /\ FreeListIsSound(mf, tab, 1 .. (m - 1))
      /\ FreeListIsSound(rf, tab, (r + 1) .. -1)
  BY DEF TableInv
<1>3. t \in Tables /\ ChainsAreSound(t) /\ Segments(t) = (Segments(tab) \ {x}) \cup {e}
  BY <1>1, <1>2, SetReplaces
<1> HIDE DEF t
<1>4. \A y \in Segments(t) : \E z \in Segments(tab) : z.segid = y.segid
  BY <1>3
<1>5. FreeListIsSound(mf, t, 1 .. (m - 1)) /\ FreeListIsSound(rf, t, (r + 1) .. -1)
  BY <1>2, <1>4, FreeKeep
<1> QED
  BY <1>1, <1>2, <1>3, <1>4, <1>5 DEF TableType, TableInv, t

(* A released segment goes to the free list of its kind.                   *)
LEMMA TableRelease ==
  ASSUME NEW tab, NEW m, NEW r, NEW mf, NEW rf,
         TableType(tab, m, r, mf, rf), TableInv(tab, m, r, mf, rf), NEW x \in Segments(tab)
  PROVE  LET t  == Unlink(tab, x.segid)
             fm == IF x.segid > 0 THEN <<x>> \o mf ELSE mf
             fr == IF x.segid < 0 THEN <<x>> \o rf ELSE rf IN
         /\ TableType(t, m, r, fm, fr) /\ TableInv(t, m, r, fm, fr)
         /\ Segments(t) = Segments(tab) \ {x}
<1> DEFINE t == Unlink(tab, x.segid)
           fm == IF x.segid > 0 THEN <<x>> \o mf ELSE mf
           fr == IF x.segid < 0 THEN <<x>> \o rf ELSE rf
<1>1. /\ tab \in Tables /\ mf \in Seq(Elems) /\ rf \in Seq(Elems)
      /\ m \in 1 .. MaxSegId /\ r \in (-MaxSegId - 1) .. -1 /\ MaxSegId \in Nat
  BY SegIdAssumption DEF TableType
<1>2. /\ ChainsAreSound(tab)
      /\ \A y \in Segments(tab) : y.segid \in (r + 1) .. (m - 1)
      /\ FreeListIsSound(mf, tab, 1 .. (m - 1))
      /\ FreeListIsSound(rf, tab, (r + 1) .. -1)
  BY DEF TableInv
<1>3. t \in Tables /\ ChainsAreSound(t) /\ Segments(t) = Segments(tab) \ {x}
  BY <1>1, <1>2, UnlinkRemoves
<1> HIDE DEF t
<1>4. fm \in Seq(Elems) /\ FreeListIsSound(fm, t, 1 .. (m - 1))
  <2>1. CASE x.segid > 0
    <3>1. x.segid \in 1 .. (m - 1)
      BY <1>1, <1>2, <2>1
    <3>2. <<x>> \o mf \in Seq(Elems) /\ FreeListIsSound(<<x>> \o mf, t, 1 .. (m - 1))
      BY <1>1, <1>2, <1>3, <3>1, FreePut
    <3> QED
      BY <2>1, <3>2
  <2>2. CASE ~(x.segid > 0)
    <3>1. FreeListIsSound(mf, t, 1 .. (m - 1))
      BY <1>2, <1>3, FreeKeep
    <3> QED
      BY <1>1, <2>2, <3>1
  <2> QED
    BY <2>1, <2>2
<1>5. fr \in Seq(Elems) /\ FreeListIsSound(fr, t, (r + 1) .. -1)
  <2>1. CASE x.segid < 0
    <3>1. x.segid \in (r + 1) .. -1
      BY <1>1, <1>2, <2>1
    <3>2. <<x>> \o rf \in Seq(Elems) /\ FreeListIsSound(<<x>> \o rf, t, (r + 1) .. -1)
      BY <1>1, <1>2, <1>3, <3>1, FreePut
    <3> QED
      BY <2>1, <3>2
  <2>2. CASE ~(x.segid < 0)
    <3>1. FreeListIsSound(rf, t, (r + 1) .. -1)
      BY <1>2, <1>3, FreeKeep
    <3> QED
      BY <1>1, <2>2, <3>1
  <2> QED
    BY <2>1, <2>2
<1> HIDE DEF fm, fr
<1> QED
  BY <1>1, <1>2, <1>3, <1>4, <1>5 DEF TableType, TableInv, t, fm, fr

-----------------------------------------------------------------------------
(* One unit in the script                                                  *)
(*                                                                         *)
(* The invariant's parts again, of one unit and of the values of the       *)
(* variables: sc is the script, dn, p, tab, cu, sm, at and g are the       *)
(* unit's done, pc, hashtab, cur, sub_mem, attached and gptr.              *)

CallType == [kind : Kinds, size : Nat, of : Nat]

Rel(sc, c) == {i \in DOMAIN sc : sc[i].kind \in {"free", "dereg"} /\ sc[i].of = c}
Disp(sc, v, c) == IF sc[c].kind = "alloc" /\ sc[c].size = 0 THEN NULL ELSE Address(v, c)
Row(sc, c) == [v \in Units |-> Disp(sc, v, c)]

OwnsIn(sc, dn, g, c) ==
    /\ c \in DOMAIN g
    /\ sc[c].of = 0 /\ g[c] # NoSegid
    /\ \A i \in Rel(sc, c) : i > dn

LiveIn(sc, dn, p, g, c) ==
    /\ c <= dn
    /\ sc[c].of = 0
    /\ g[c] # NoSegid
    /\ \A i \in Rel(sc, c) : i > dn + 1 \/ (i = dn + 1 /\ p = "idle")

HoldsIn(sc, tab, u, c, id) ==
    \E e \in Segments(tab) :
        /\ e.segid = id
        /\ e.disp = Row(sc, c)
        /\ e.selfbaseptr \in {NULL, Address(u, c)}

SoundScript(sc) ==
    /\ \A k \in DOMAIN sc :
         IF sc[k].of = 0 THEN sc[k].kind \in {"alloc", "register"}
         ELSE /\ sc[k].of < k
              /\ sc[sc[k].of].of = 0
              /\ sc[k].kind = IF sc[sc[k].of].kind = "alloc" THEN "free" ELSE "dereg"
    /\ \A j, k \in DOMAIN sc : sc[j].of = sc[k].of /\ sc[j].of # 0 => j = k

OwnedIn(sc, u, dn, tab, g) ==
    /\ \A c \in DOMAIN g : g[c] \in IdsOf(sc[c].kind)
    /\ \A c \in DOMAIN g : OwnsIn(sc, dn, g, c) => HoldsIn(sc, tab, u, c, g[c])
    /\ \A c, d \in DOMAIN g : OwnsIn(sc, dn, g, c) /\ OwnsIn(sc, dn, g, d) /\ g[c] = g[d] => c = d

CurrentIn(sc, dn, p, tab, cu, g) ==
    /\ p \in {"shared", "gather"} =>
         /\ dn < Len(sc) /\ sc[dn + 1].of = 0 /\ (p = "shared" => sc[dn + 1].kind = "alloc")
         /\ cu \in IdsOf(sc[dn + 1].kind) \ {NoSegid}
         /\ \E e \in Segments(tab) : e.segid = cu
         /\ \A c \in DOMAIN g : OwnsIn(sc, dn, g, c) => g[c] # cu
    /\ p = "winfree" =>
         dn < Len(sc) /\ sc[dn + 1].kind = "free" /\ cu = g[sc[dn + 1].of]

AttachedIn(sc, u, dn, p, sm, at, g) ==
    /\ p = "gather" =>
         sm \in {NULL, Address(u, dn + 1)} /\ Disp(sc, u, dn + 1) \in {NULL} \cup at
    /\ \A c \in DOMAIN g : LiveIn(sc, dn, p, g, c) => Disp(sc, u, c) \in {NULL} \cup at

UnitInv(sc, u, dn, p, tab, cu, sm, at, g) ==
    /\ OwnedIn(sc, u, dn, tab, g)
    /\ CurrentIn(sc, dn, p, tab, cu, g)
    /\ AttachedIn(sc, u, dn, p, sm, at, g)

(* What is known of a unit's place in the script.                          *)
UnitType(sc, u, dn, p, g) ==
    /\ u \in Units /\ sc \in Seq(CallType) /\ dn \in Nat /\ dn <= Len(sc) /\ p \in Places
    /\ g \in Seq(SegIds \cup {NoSegid}) /\ Len(g) = dn

(* The domains of the script and of the returned IDs.                      *)
LEMMA Facts ==
  ASSUME NEW sc, NEW u, NEW dn, NEW p, NEW g, UnitType(sc, u, dn, p, g)
  PROVE  /\ DOMAIN g = 1 .. dn /\ DOMAIN sc = 1 .. Len(sc) /\ Len(sc) \in Nat
         /\ \A k \in 1 .. Len(sc) :
              /\ sc[k] \in CallType /\ sc[k].of \in Nat /\ sc[k].size \in Nat
              /\ sc[k].kind \in Kinds
         /\ 0 \notin DOMAIN g /\ DOMAIN g \subseteq DOMAIN sc
<1>1. /\ sc \in Seq(CallType) /\ dn \in Nat /\ dn <= Len(sc)
      /\ g \in Seq(SegIds \cup {NoSegid}) /\ Len(g) = dn
  BY DEF UnitType
<1>2. DOMAIN g = 1 .. dn /\ DOMAIN sc = 1 .. Len(sc) /\ Len(sc) \in Nat
  BY <1>1
<1>3. \A k \in 1 .. Len(sc) : sc[k] \in CallType
  BY <1>1
<1>4. \A x \in CallType : x.of \in Nat /\ x.size \in Nat /\ x.kind \in Kinds
  BY DEF CallType
<1> QED
  BY <1>1, <1>2, <1>3, <1>4

(* Which IDs the kinds of calls return.                                    *)
LEMMA KindIds ==
  /\ IdsOf("alloc") = 1 .. MaxSegId
  /\ IdsOf("register") = (-MaxSegId .. -1) \cup {NoSegid}
  /\ IdsOf("free") = SegIds \cup {NoSegid} /\ IdsOf("dereg") = SegIds \cup {NoSegid}
BY DEF IdsOf

(* Appending to the script changes nothing for what has been done.         *)
LEMMA UnitProgram ==
  ASSUME NEW sc, NEW u, NEW dn, NEW p, NEW tab, NEW cu, NEW sm, NEW at, NEW g,
         UnitType(sc, u, dn, p, g), UnitInv(sc, u, dn, p, tab, cu, sm, at, g),
         NEW call \in CallType
  PROVE  UnitInv(Append(sc, call), u, dn, p, tab, cu, sm, at, g)
<1> DEFINE s == Append(sc, call)
<1>1. /\ DOMAIN g = 1 .. dn /\ DOMAIN sc = 1 .. Len(sc) /\ Len(sc) \in Nat
      /\ dn \in Nat /\ dn <= Len(sc) /\ sc \in Seq(CallType)
  BY Facts DEF UnitType
<1>2. /\ Len(s) = Len(sc) + 1 /\ DOMAIN s = 1 .. (Len(sc) + 1)
      /\ \A k \in DOMAIN sc : k \in DOMAIN s /\ s[k] = sc[k]
  BY <1>1
<1> HIDE DEF s
<1>3. \A c : Rel(sc, c) \subseteq Rel(s, c)
  BY <1>2 DEF Rel
<1>4. \A c \in DOMAIN g : /\ s[c] = sc[c] /\ Row(s, c) = Row(sc, c)
                          /\ Disp(s, u, c) = Disp(sc, u, c)
  BY <1>1, <1>2 DEF Row, Disp
<1>5. \A c \in DOMAIN g : /\ OwnsIn(s, dn, g, c) => OwnsIn(sc, dn, g, c)
                          /\ LiveIn(s, dn, p, g, c) => LiveIn(sc, dn, p, g, c)
  BY <1>3, <1>4 DEF OwnsIn, LiveIn
<1>6. dn < Len(sc) => s[dn + 1] = sc[dn + 1] /\ Disp(s, u, dn + 1) = Disp(sc, u, dn + 1)
                      /\ dn < Len(s)
  <2>1. dn < Len(sc) => dn + 1 \in DOMAIN sc
    BY <1>1
  <2> QED
    BY <1>1, <1>2, <2>1 DEF Disp
<1>7. OwnedIn(s, u, dn, tab, g)
  <2>1. OwnedIn(sc, u, dn, tab, g)
    BY DEF UnitInv
  <2>2. \A c \in DOMAIN g : HoldsIn(sc, tab, u, c, g[c]) => HoldsIn(s, tab, u, c, g[c])
    BY <1>4 DEF HoldsIn
  <2> QED
    BY <1>4, <1>5, <2>1, <2>2 DEF OwnedIn
<1>8. CurrentIn(s, dn, p, tab, cu, g)
  <2>1. CurrentIn(sc, dn, p, tab, cu, g)
    BY DEF UnitInv
  <2> QED
    BY <1>5, <1>6, <2>1 DEF CurrentIn
<1>9. AttachedIn(s, u, dn, p, sm, at, g)
  <2>1. AttachedIn(sc, u, dn, p, sm, at, g) /\ CurrentIn(sc, dn, p, tab, cu, g)
    BY DEF UnitInv
  <2>2. p = "gather" => dn < Len(sc)
    BY <2>1 DEF CurrentIn
  <2> QED
    BY <1>4, <1>5, <1>6, <2>1, <2>2 DEF AttachedIn
<1> QED
  BY <1>7, <1>8, <1>9 DEF UnitInv, s

(* A live call is owned, and stays no longer live than it is owned.        *)
LEMMA LiveIsOwned ==
  ASSUME NEW sc, NEW u, NEW dn, NEW p, NEW g, UnitType(sc, u, dn, p, g), NEW c \in DOMAIN g,
         LiveIn(sc, dn, p, g, c)
  PROVE  OwnsIn(sc, dn, g, c)
<1>1. DOMAIN g = 1 .. dn /\ DOMAIN sc = 1 .. Len(sc) /\ Len(sc) \in Nat /\ dn \in Nat
  BY Facts DEF UnitType
<1>2. \A i \in Rel(sc, c) : i \in Nat
  BY <1>1 DEF Rel
<1> QED
  BY <1>1, <1>2 DEF LiveIn, OwnsIn

(* A unit that leaves "idle" for a wait that never ends.                   *)
LEMMA UnitStops ==
  ASSUME NEW sc, NEW u, NEW dn, NEW p, NEW tab, NEW cu, NEW sm, NEW at, NEW g,
         UnitInv(sc, u, dn, p, tab, cu, sm, at, g), NEW q \in {"shared_null", "crashed"}
  PROVE  UnitInv(sc, u, dn, q, tab, cu, sm, at, g)
<1>1. \A c : LiveIn(sc, dn, q, g, c) => LiveIn(sc, dn, p, g, c)
  BY DEF LiveIn
<1> QED
  BY <1>1 DEF UnitInv, CurrentIn, AttachedIn

(* dart_segment_alloc has returned a segment.                              *)
LEMMA UnitTakes ==
  ASSUME NEW sc, NEW u, NEW dn, NEW p, NEW tab, NEW cu, NEW sm, NEW at, NEW g,
         UnitType(sc, u, dn, p, g), UnitInv(sc, u, dn, p, tab, cu, sm, at, g),
         SoundScript(sc), p = "idle", dn < Len(sc), sc[dn + 1].of = 0,
         NEW t, NEW e, Taken(tab, t, e), e.segid \in IdsOf(sc[dn + 1].kind) \ {NoSegid},
         NEW q \in {"shared", "gather"}, q = "shared" => sc[dn + 1].kind = "alloc",
         NEW b, NEW a, at \subseteq a, q = "gather" => b = Address(u, dn + 1) /\ b \in a
  PROVE  UnitInv(sc, u, dn, q, t, e.segid, b, a, g)
<1>1. \A c \in DOMAIN g : LiveIn(sc, dn, q, g, c) => LiveIn(sc, dn, p, g, c)
  BY DEF LiveIn
<1>2. OwnedIn(sc, u, dn, tab, g) /\ AttachedIn(sc, u, dn, p, sm, at, g)
  BY DEF UnitInv
<1>3. e \in Segments(t) /\ \A x \in Segments(tab) : x \in Segments(t) /\ x.segid # e.segid
  BY DEF Taken
<1>4. OwnedIn(sc, u, dn, t, g)
  <2>1. \A c \in DOMAIN g : HoldsIn(sc, tab, u, c, g[c]) => HoldsIn(sc, t, u, c, g[c])
    BY <1>3 DEF HoldsIn
  <2> QED
    BY <1>2, <2>1 DEF OwnedIn
<1>5. CurrentIn(sc, dn, q, t, e.segid, g)
  <2>1. \A c \in DOMAIN g : OwnsIn(sc, dn, g, c) => g[c] # e.segid
    BY <1>2, <1>3 DEF OwnedIn, HoldsIn
  <2> QED
    BY <1>3, <2>1 DEF CurrentIn
<1>6. AttachedIn(sc, u, dn, q, b, a, g)
  <2>1. q = "gather" => Disp(sc, u, dn + 1) \in {NULL} \cup a
    BY DEF Disp
  <2> QED
    BY <1>1, <1>2, <2>1 DEF AttachedIn
<1> QED
  BY <1>4, <1>5, <1>6 DEF UnitInv

(* The memory is there, and attached unless it is empty.                   *)
LEMMA UnitAttaches ==
  ASSUME NEW sc, NEW u, NEW dn, NEW p, NEW tab, NEW cu, NEW sm, NEW at, NEW g,
         UnitType(sc, u, dn, p, g), UnitInv(sc, u, dn, p, tab, cu, sm, at, g),
         p = "shared", NEW b \in {NULL, Address(u, dn + 1)}, NEW a,
         \/ sc[dn + 1].size = 0 /\ a = at
         \/ a = at \cup {Address(u, dn + 1)}
  PROVE  UnitInv(sc, u, dn, "gather", tab, cu, b, a, g)
<1>1. \A c \in DOMAIN g : LiveIn(sc, dn, "gather", g, c) => LiveIn(sc, dn, p, g, c)
  BY DEF LiveIn
<1>2. /\ OwnedIn(sc, u, dn, tab, g) /\ AttachedIn(sc, u, dn, p, sm, at, g)
      /\ CurrentIn(sc, dn, p, tab, cu, g)
  BY DEF UnitInv
<1>3. CurrentIn(sc, dn, "gather", tab, cu, g)
  BY <1>2 DEF CurrentIn
<1>4. Disp(sc, u, dn + 1) \in {NULL} \cup a
  BY <1>2 DEF CurrentIn, Disp
<1>5. AttachedIn(sc, u, dn, "gather", b, a, g)
  BY <1>1, <1>2, <1>4 DEF AttachedIn
<1> QED
  BY <1>2, <1>3, <1>5 DEF UnitInv

(* The gather is over: the call is complete and its segment filled in.     *)
LEMMA UnitCompletes ==
  ASSUME NEW sc, NEW u, NEW dn, NEW p, NEW tab, NEW cu, NEW sm, NEW at, NEW g,
         UnitType(sc, u, dn, p, g), UnitInv(sc, u, dn, p, tab, cu, sm, at, g),
         SoundScript(sc), p = "gather", cu \in SegIds,
         NEW t, NEW x, NEW e, Segments(t) = (Segments(tab) \ {x}) \cup {e},
         x.segid = cu, e.segid = cu, e.disp = Row(sc, dn + 1), e.selfbaseptr = sm
  PROVE  UnitInv(sc, u, dn + 1, "idle", t, cu, sm, at, Append(g, cu))
<1> DEFINE h == Append(g, cu)
           n == dn + 1
<1>1. /\ DOMAIN g = 1 .. dn /\ DOMAIN sc = 1 .. Len(sc) /\ Len(sc) \in Nat /\ dn \in Nat
      /\ dn <= Len(sc) /\ g \in Seq(SegIds \cup {NoSegid})
  BY Facts DEF UnitType
<1>2. /\ OwnedIn(sc, u, dn, tab, g) /\ AttachedIn(sc, u, dn, p, sm, at, g)
      /\ CurrentIn(sc, dn, p, tab, cu, g)
  BY DEF UnitInv
<1>3. /\ dn < Len(sc) /\ sc[n].of = 0 /\ cu \in IdsOf(sc[n].kind) \ {NoSegid}
      /\ \A c \in DOMAIN g : OwnsIn(sc, dn, g, c) => g[c] # cu
      /\ sm \in {NULL, Address(u, n)} /\ Disp(sc, u, n) \in {NULL} \cup at
  BY <1>2 DEF CurrentIn, AttachedIn
<1>4. /\ DOMAIN h = 1 .. n /\ h[n] = cu
      /\ \A c \in DOMAIN g : c \in DOMAIN h /\ c # n /\ h[c] = g[c]
      /\ \A c \in DOMAIN h : c = n \/ c \in DOMAIN g
  BY <1>1
<1> HIDE DEF h
<1>5. \A i \in DOMAIN sc : i > n => i > dn
  BY <1>1
<1>6. ASSUME NEW c \in DOMAIN g
      PROVE  /\ OwnsIn(sc, n, h, c) => OwnsIn(sc, dn, g, c)
             /\ LiveIn(sc, n, "idle", h, c) => LiveIn(sc, dn, p, g, c)
  <2>1. OwnsIn(sc, n, h, c) => OwnsIn(sc, dn, g, c)
    BY <1>4, <1>5 DEF OwnsIn, Rel
  <2>2. \A i \in DOMAIN sc : i > n + 1 \/ i = n + 1 => i > dn + 1
    BY <1>1
  <2>3. LiveIn(sc, n, "idle", h, c) => LiveIn(sc, dn, p, g, c)
    BY <1>1, <1>4, <2>2 DEF LiveIn, Rel
  <2> QED
    BY <2>1, <2>3
<1>7. OwnedIn(sc, u, n, t, h)
  <2>1. \A c \in DOMAIN h : h[c] \in IdsOf(sc[c].kind)
    BY <1>2, <1>3, <1>4 DEF OwnedIn
  <2>2. ASSUME NEW c \in DOMAIN h, OwnsIn(sc, n, h, c) PROVE HoldsIn(sc, t, u, c, h[c])
    <3>1. CASE c = n
      BY <1>3, <1>4, <3>1 DEF HoldsIn
    <3>2. CASE c \in DOMAIN g
      <4>1. OwnsIn(sc, dn, g, c) /\ HoldsIn(sc, tab, u, c, g[c]) /\ g[c] # cu /\ h[c] = g[c]
        BY <1>2, <1>3, <1>4, <1>6, <2>2, <3>2 DEF OwnedIn
      <4> QED
        BY <4>1 DEF HoldsIn
    <3> QED
      BY <1>4, <3>1, <3>2
  <2>3. ASSUME NEW c \in DOMAIN h, NEW d \in DOMAIN h, OwnsIn(sc, n, h, c), OwnsIn(sc, n, h, d),
               h[c] = h[d]
        PROVE  c = d
    <3>1. ASSUME NEW k \in DOMAIN g, OwnsIn(sc, n, h, k) PROVE h[k] # cu /\ OwnsIn(sc, dn, g, k)
      BY <1>3, <1>4, <1>6, <3>1
    <3>2. CASE c = n \/ d = n
      BY <1>4, <2>3, <3>1, <3>2
    <3>3. CASE c \in DOMAIN g /\ d \in DOMAIN g
      BY <1>2, <1>4, <2>3, <3>1, <3>3 DEF OwnedIn
    <3> QED
      BY <1>4, <3>2, <3>3
  <2> QED
    BY <2>1, <2>2, <2>3 DEF OwnedIn
<1>8. CurrentIn(sc, n, "idle", t, cu, h)
  BY DEF CurrentIn
<1>9. AttachedIn(sc, u, n, "idle", sm, at, h)
  BY <1>2, <1>3, <1>4, <1>6 DEF AttachedIn
<1> QED
  BY <1>7, <1>8, <1>9 DEF UnitInv, h

(* A call that failed or had nothing to release is complete.               *)
LEMMA UnitSkips ==
  ASSUME NEW sc, NEW u, NEW dn, NEW p, NEW tab, NEW cu, NEW sm, NEW at, NEW g,
         UnitType(sc, u, dn, p, g), UnitInv(sc, u, dn, p, tab, cu, sm, at, g),
         dn < Len(sc), p = "idle", sc[dn + 1].kind \in {"register", "dereg"}
  PROVE  UnitInv(sc, u, dn + 1, "idle", tab, cu, sm, at, Append(g, NoSegid))
<1> DEFINE h == Append(g, NoSegid)
           n == dn + 1
<1>1. /\ DOMAIN g = 1 .. dn /\ DOMAIN sc = 1 .. Len(sc) /\ Len(sc) \in Nat /\ dn \in Nat
      /\ dn <= Len(sc) /\ g \in Seq(SegIds \cup {NoSegid})
  BY Facts DEF UnitType
<1>2. OwnedIn(sc, u, dn, tab, g) /\ AttachedIn(sc, u, dn, p, sm, at, g)
  BY DEF UnitInv
<1>4. /\ DOMAIN h = 1 .. n /\ h[n] = NoSegid
      /\ \A c \in DOMAIN g : c \in DOMAIN h /\ c # n /\ h[c] = g[c]
      /\ \A c \in DOMAIN h : c = n \/ c \in DOMAIN g
  BY <1>1
<1> HIDE DEF h
<1>5. \A i \in DOMAIN sc : i > n => i > dn
  BY <1>1
<1>6. ASSUME NEW c \in DOMAIN h
      PROVE  /\ OwnsIn(sc, n, h, c) => c \in DOMAIN g /\ OwnsIn(sc, dn, g, c)
             /\ LiveIn(sc, n, "idle", h, c) => c \in DOMAIN g /\ LiveIn(sc, dn, p, g, c)
  <2>1. OwnsIn(sc, n, h, c) => c \in DOMAIN g /\ OwnsIn(sc, dn, g, c)
    BY <1>4, <1>5 DEF OwnsIn, Rel
  <2>2. \A i \in DOMAIN sc : i > n + 1 \/ i = n + 1 => i > dn + 1
    BY <1>1
  <2>3. LiveIn(sc, n, "idle", h, c) => c \in DOMAIN g /\ LiveIn(sc, dn, p, g, c)
    BY <1>1, <1>4, <2>2 DEF LiveIn, Rel
  <2> QED
    BY <2>1, <2>3
<1>7. OwnedIn(sc, u, n, tab, h)
  <2>1. \A c \in DOMAIN h : h[c] \in IdsOf(sc[c].kind)
    BY <1>2, <1>4, KindIds DEF OwnedIn
  <2> QED
    BY <1>2, <1>4, <1>6, <2>1 DEF OwnedIn
<1>8. CurrentIn(sc, n, "idle", tab, cu, h)
  BY DEF CurrentIn
<1>9. AttachedIn(sc, u, n, "idle", sm, at, h)
  BY <1>2, <1>4, <1>6 DEF AttachedIn
<1> QED
  BY <1>7, <1>8, <1>9 DEF UnitInv, h

(* The call that a unit is about to release is its own.                    *)
LEMMA ReleasedIsOwned ==
  ASSUME NEW sc, NEW u, NEW dn, NEW p, NEW tab, NEW cu, NEW sm, NEW at, NEW g,
         UnitType(sc, u, dn, p, g), UnitInv(sc, u, dn, p, tab, cu, sm, at, g),
         SoundScript(sc), dn < Len(sc), sc[dn + 1].kind \in {"free", "dereg"}
  PROVE  /\ sc[dn + 1].of \in DOMAIN g /\ sc[dn + 1].of # 0
         /\ dn + 1 \in Rel(sc, sc[dn + 1].of)
         /\ sc[dn + 1].kind = "free" => g[sc[dn + 1].of] # NoSegid
         /\ g[sc[dn + 1].of] # NoSegid => /\ OwnsIn(sc, dn, g, sc[dn + 1].of)
                                        /\ HoldsIn(sc, tab, u, sc[dn + 1].of, g[sc[dn + 1].of])
<1> DEFINE n == dn + 1
           c == sc[n].of
<1>1. /\ DOMAIN g = 1 .. dn /\ DOMAIN sc = 1 .. Len(sc) /\ Len(sc) \in Nat /\ dn \in Nat
      /\ n \in DOMAIN sc /\ c \in Nat
  BY Facts DEF UnitType
<1>2. c # 0 /\ c < n /\ sc[c].of = 0
      /\ sc[n].kind = IF sc[c].kind = "alloc" THEN "free" ELSE "dereg"
  BY <1>1 DEF SoundScript
<1>3. c \in DOMAIN g
  BY <1>1, <1>2
<1>4. n \in Rel(sc, c) /\ \A i \in Rel(sc, c) : i = n
  BY <1>1, <1>2 DEF Rel, SoundScript
<1>5. OwnedIn(sc, u, dn, tab, g)
  BY DEF UnitInv
<1>6. sc[n].kind = "free" => g[c] # NoSegid
  <2>1. sc[n].kind = "free" => g[c] \in 1 .. MaxSegId
    BY <1>2, <1>3, <1>5, KindIds DEF OwnedIn
  <2> QED
    BY <2>1, SegIdAssumption DEF NoSegid
<1>7. g[c] # NoSegid => OwnsIn(sc, dn, g, c)
  BY <1>1, <1>2, <1>3, <1>4 DEF OwnsIn
<1> QED
  BY <1>2, <1>3, <1>4, <1>5, <1>6, <1>7 DEF OwnedIn

(* Different calls provide different memory.                               *)
LEMMA OtherAddress ==
  ASSUME NEW u, NEW c, NEW d, c # d
  PROVE  Address(u, c) # Address(u, d) /\ Address(u, c) # NULL
BY DEF Address, NULL

(* dart_team_memfree has detached the memory.                              *)
LEMMA UnitDetaches ==
  ASSUME NEW sc, NEW u, NEW dn, NEW p, NEW tab, NEW cu, NEW sm, NEW at, NEW g,
         UnitType(sc, u, dn, p, g), UnitInv(sc, u, dn, p, tab, cu, sm, at, g),
         SoundScript(sc), dn < Len(sc), p = "idle", sc[dn + 1].kind = "free",
         NEW y \in {NULL, Address(u, sc[dn + 1].of)}
  PROVE  UnitInv(sc, u, dn, "winfree", tab, g[sc[dn + 1].of], sm, at \ {y}, g)
<1> DEFINE c == sc[dn + 1].of
<1>1. c \in DOMAIN g /\ dn + 1 \in Rel(sc, c)
  BY ReleasedIsOwned
<1>2. OwnedIn(sc, u, dn, tab, g) /\ AttachedIn(sc, u, dn, p, sm, at, g) /\ dn \in Nat
  BY DEF UnitInv, UnitType
<1>3. ASSUME NEW d \in DOMAIN g, LiveIn(sc, dn, "winfree", g, d)
      PROVE  d # c /\ LiveIn(sc, dn, p, g, d)
  <2>1. d # c
    BY <1>1, <1>2, <1>3 DEF LiveIn
  <2> QED
    BY <1>3, <2>1 DEF LiveIn
<1> HIDE DEF c
<1>4. ASSUME NEW d \in DOMAIN g, LiveIn(sc, dn, "winfree", g, d)
      PROVE  Disp(sc, u, d) \in {NULL} \cup (at \ {y})
  <2>1. d # c /\ Disp(sc, u, d) \in {NULL} \cup at
    BY <1>2, <1>3, <1>4 DEF AttachedIn
  <2>2. Disp(sc, u, d) \in {NULL, Address(u, d)}
    BY DEF Disp
  <2>3. Address(u, d) # Address(u, c) /\ Address(u, d) # NULL
    BY <2>1, OtherAddress
  <2> QED
    BY <2>1, <2>2, <2>3 DEF c
<1>5. AttachedIn(sc, u, dn, "winfree", sm, at \ {y}, g)
  BY <1>4 DEF AttachedIn
<1>6. CurrentIn(sc, dn, "winfree", tab, g[c], g)
  BY DEF CurrentIn, c
<1> QED
  BY <1>2, <1>5, <1>6 DEF UnitInv, c

(* The segment of a released call is gone from the table.                  *)
LEMMA UnitReleases ==
  ASSUME NEW sc, NEW u, NEW dn, NEW p, NEW tab, NEW cu, NEW sm, NEW at, NEW g,
         UnitType(sc, u, dn, p, g), UnitInv(sc, u, dn, p, tab, cu, sm, at, g),
         SoundScript(sc), dn < Len(sc), sc[dn + 1].kind \in {"free", "dereg"},
         g[sc[dn + 1].of] # NoSegid,
         NEW t, NEW x, Segments(t) = Segments(tab) \ {x}, x.segid = g[sc[dn + 1].of],
         NEW y \in {NULL, Address(u, sc[dn + 1].of)}, NEW a, at \ {y} \subseteq a, NEW k
  PROVE  UnitInv(sc, u, dn + 1, "idle", t, k, sm, a, Append(g, g[sc[dn + 1].of]))
<1> DEFINE n == dn + 1
           c == sc[n].of
           h == Append(g, g[c])
<1>1. /\ DOMAIN g = 1 .. dn /\ DOMAIN sc = 1 .. Len(sc) /\ Len(sc) \in Nat /\ dn \in Nat
      /\ dn <= Len(sc) /\ g \in Seq(SegIds \cup {NoSegid})
  BY Facts DEF UnitType
<1>2. OwnedIn(sc, u, dn, tab, g) /\ AttachedIn(sc, u, dn, p, sm, at, g)
  BY DEF UnitInv
<1>3. c \in DOMAIN g /\ c # 0 /\ n \in Rel(sc, c) /\ OwnsIn(sc, dn, g, c)
  BY ReleasedIsOwned
<1> HIDE DEF c
<1>4. /\ DOMAIN h = 1 .. n /\ h[n] = g[c]
      /\ \A d \in DOMAIN g : d \in DOMAIN h /\ d # n /\ h[d] = g[d]
      /\ \A d \in DOMAIN h : d = n \/ d \in DOMAIN g
  BY <1>1, <1>3
<1> HIDE DEF h
<1>5. \A i \in DOMAIN sc : i > n => i > dn
  BY <1>1
<1>6. ASSUME NEW d \in DOMAIN h
      PROVE  /\ OwnsIn(sc, n, h, d) => d \in DOMAIN g /\ OwnsIn(sc, dn, g, d) /\ d # c
             /\ LiveIn(sc, n, "idle", h, d) => d \in DOMAIN g /\ LiveIn(sc, dn, p, g, d) /\ d # c
  <2>1. d # n => d \in DOMAIN g /\ h[d] = g[d]
    BY <1>4
  <2>2. sc[n].of # 0
    BY <1>3 DEF c
  <2>3. OwnsIn(sc, n, h, d) => d \in DOMAIN g /\ OwnsIn(sc, dn, g, d)
    BY <1>5, <2>1, <2>2 DEF OwnsIn, Rel
  <2>4. OwnsIn(sc, n, h, d) => d # c
    BY <1>1, <1>3 DEF OwnsIn
  <2>5. \A i \in DOMAIN sc : i > n + 1 \/ i = n + 1 => i > dn + 1
    BY <1>1
  <2>6. LiveIn(sc, n, "idle", h, d) => d \in DOMAIN g /\ LiveIn(sc, dn, p, g, d)
    BY <1>1, <2>1, <2>2, <2>5 DEF LiveIn, Rel
  <2>7. LiveIn(sc, n, "idle", h, d) => d # c
    BY <1>1, <1>3 DEF LiveIn
  <2> QED
    BY <2>3, <2>4, <2>6, <2>7
<1>7. OwnedIn(sc, u, n, t, h)
  <2>1. \A d \in DOMAIN h : h[d] \in IdsOf(sc[d].kind)
    <3>1. g[c] \in SegIds \cup {NoSegid}
      BY <1>1, <1>3
    <3>2. IdsOf(sc[n].kind) = SegIds \cup {NoSegid}
      BY KindIds
    <3> QED
      BY <1>2, <1>4, <3>1, <3>2 DEF OwnedIn
  <2>2. ASSUME NEW d \in DOMAIN h, OwnsIn(sc, n, h, d) PROVE HoldsIn(sc, t, u, d, h[d])
    <3>1. d \in DOMAIN g /\ d # c /\ OwnsIn(sc, dn, g, d) /\ h[d] = g[d]
      BY <1>4, <1>6, <2>2
    <3>2. HoldsIn(sc, tab, u, d, g[d]) /\ g[d] # g[c]
      BY <1>2, <1>3, <3>1 DEF OwnedIn
    <3> QED
      BY <3>1, <3>2 DEF HoldsIn, c
  <2>3. \A d, f \in DOMAIN h : OwnsIn(sc, n, h, d) /\ OwnsIn(sc, n, h, f) /\ h[d] = h[f] => d = f
    BY <1>2, <1>4, <1>6 DEF OwnedIn
  <2> QED
    BY <2>1, <2>2, <2>3 DEF OwnedIn
<1>8. CurrentIn(sc, n, "idle", t, k, h)
  BY DEF CurrentIn
<1>9. ASSUME NEW d \in DOMAIN h, LiveIn(sc, n, "idle", h, d)
      PROVE  Disp(sc, u, d) \in {NULL} \cup a
  <2>1. d # c /\ Disp(sc, u, d) \in {NULL} \cup at
    BY <1>2, <1>6, <1>9 DEF AttachedIn
  <2>2. Disp(sc, u, d) \in {NULL, Address(u, d)}
    BY DEF Disp
  <2>3. Address(u, d) # Address(u, c) /\ Address(u, d) # NULL
    BY <2>1, OtherAddress
  <2> QED
    BY <2>1, <2>2, <2>3 DEF c
<1>10. AttachedIn(sc, u, n, "idle", sm, a, h)
  BY <1>9 DEF AttachedIn
<1> QED
  BY <1>7, <1>8, <1>10 DEF UnitInv, h, c

-----------------------------------------------------------------------------
(* The invariant, unit by unit                                             *)

SegTypes ==
    /\ memid \in [Units -> 1 .. MaxSegId]
    /\ registermemid \in [Units -> (-MaxSegId - 1) .. -1]
    /\ mem_freelist \in [Units -> Seq(Elems)]
    /\ reg_freelist \in [Units -> Seq(Elems)]
    /\ hashtab \in [Units -> Tables]

RestTypes ==
    /\ script \in Seq([kind : Kinds, size : Nat, of : Nat])
    /\ done \in [Units -> Nat]
    /\ pc \in [Units -> Places]
    /\ cur \in [Units -> SegIds \cup {NoSegid}]
    /\ sub_mem \in [Units -> Addresses]
    /\ coll \in [Units -> Nat]
    /\ attached \in [Units -> SUBSET Addresses]
    /\ gptr \in [Units -> Seq(SegIds \cup {NoSegid})]
    /\ \A u \in Units : done[u] <= Len(script) /\ Len(gptr[u]) = done[u]

(* TypeOK in two parts: the segment tables and the rest.                   *)
LEMMA TypeParts == TypeOK => SegTypes /\ RestTypes
BY DEF TypeOK, SegTypes, RestTypes, Tables

(* The two parts are TypeOK again after a step.                            *)
LEMMA TypeJoin == SegTypes' /\ RestTypes' => TypeOK'
BY DEF TypeOK, SegTypes, RestTypes, Tables

(* No other unit's table changes.                                          *)
OtherTables(u) ==
    \A v \in Units : v # u =>
        /\ memid'[v] = memid[v] /\ registermemid'[v] = registermemid[v]
        /\ mem_freelist'[v] = mem_freelist[v] /\ reg_freelist'[v] = reg_freelist[v]
        /\ hashtab'[v] = hashtab[v]

(* The invariant at one unit, ...                                          *)
LEMMA InvParts ==
  ASSUME TypeOK, SegmentInv, NEW u \in Units
  PROVE  /\ SoundScript(script)
         /\ TableType(hashtab[u], memid[u], registermemid[u], mem_freelist[u], reg_freelist[u])
         /\ TableInv(hashtab[u], memid[u], registermemid[u], mem_freelist[u], reg_freelist[u])
         /\ UnitType(script, u, done[u], pc[u], gptr[u])
         /\ UnitInv(script, u, done[u], pc[u], hashtab[u], cur[u], sub_mem[u], attached[u], gptr[u])
<1>1. SoundScript(script)
  BY DEF SegmentInv, ScriptIsSound, SoundScript
<1>2. TableType(hashtab[u], memid[u], registermemid[u], mem_freelist[u], reg_freelist[u])
  BY DEF TypeOK, TableType, Tables
<1>3. TableInv(hashtab[u], memid[u], registermemid[u], mem_freelist[u], reg_freelist[u])
  BY DEF SegmentInv, IdsAreUnique, TableInv
<1>4. UnitType(script, u, done[u], pc[u], gptr[u])
  BY DEF TypeOK, UnitType, CallType
<1>5. OwnedIn(script, u, done[u], hashtab[u], gptr[u])
  BY DEF SegmentInv, OwnedAreHeld, OwnedIn, Owns, OwnsIn, Holds, HoldsIn, Releases, Rel,
         Displacement, Disp, Row
<1>6. CurrentIn(script, done[u], pc[u], hashtab[u], cur[u], gptr[u])
  BY DEF SegmentInv, CurrentIsOwn, CurrentIn, Owns, OwnsIn, Releases, Rel, Call
<1>7. AttachedIn(script, u, done[u], pc[u], sub_mem[u], attached[u], gptr[u])
  BY DEF SegmentInv, LiveIsAttached, AttachedIn, Live, LiveIn, Releases, Rel, Reachable,
         Displacement, Disp
<1> QED
  BY <1>1, <1>2, <1>3, <1>4, <1>5, <1>6, <1>7 DEF UnitInv

(* ... and after a step from what holds at each unit.                      *)
LEMMA InvJoin ==
  ASSUME SoundScript(script)',
         \A u \in Units :
            /\ TableInv(hashtab[u], memid[u], registermemid[u], mem_freelist[u], reg_freelist[u])'
            /\ UnitInv(script, u, done[u], pc[u], hashtab[u], cur[u], sub_mem[u], attached[u],
                       gptr[u])'
  PROVE  SegmentInv'
<1>1. ScriptIsSound'
  BY DEF ScriptIsSound, SoundScript
<1>2. IdsAreUnique'
  BY DEF IdsAreUnique, TableInv
<1>3. OwnedAreHeld'
  BY DEF UnitInv, OwnedAreHeld, OwnedIn, Owns, OwnsIn, Holds, HoldsIn, Releases, Rel,
         Displacement, Disp, Row
<1>4. CurrentIsOwn'
  BY DEF UnitInv, CurrentIsOwn, CurrentIn, Owns, OwnsIn, Releases, Rel, Call
<1>5. LiveIsAttached'
  BY DEF UnitInv, LiveIsAttached, AttachedIn, Live, LiveIn, Releases, Rel, Reachable,
         Displacement, Disp
<1> QED
  BY <1>1, <1>2, <1>3, <1>4, <1>5 DEF SegmentInv

(* A step of one unit cannot disturb what holds of the others.             *)
LEMMA Frame ==
  ASSUME TypeOK, SegmentInv, NEW u \in Units, UNCHANGED script, OtherTables(u),
         \A v \in Units : v # u =>
            /\ done'[v] = done[v] /\ pc'[v] = pc[v] /\ cur'[v] = cur[v]
            /\ sub_mem'[v] = sub_mem[v] /\ attached'[v] = attached[v] /\ gptr'[v] = gptr[v],
         TableInv(hashtab'[u], memid'[u], registermemid'[u], mem_freelist'[u], reg_freelist'[u]),
         UnitInv(script, u, done'[u], pc'[u], hashtab'[u], cur'[u], sub_mem'[u], attached'[u],
                 gptr'[u])
  PROVE  SegmentInv'
<1>1. SoundScript(script)'
  BY DEF SegmentInv, ScriptIsSound, SoundScript
<1>2. ASSUME NEW v \in Units
      PROVE  /\ TableInv(hashtab[v], memid[v], registermemid[v], mem_freelist[v], reg_freelist[v])'
             /\ UnitInv(script, v, done[v], pc[v], hashtab[v], cur[v], sub_mem[v], attached[v],
                        gptr[v])'
  <2>1. CASE v = u
    BY <2>1
  <2>2. CASE v # u
    <3>1. /\ TableInv(hashtab[v], memid[v], registermemid[v], mem_freelist[v], reg_freelist[v])
          /\ UnitInv(script, v, done[v], pc[v], hashtab[v], cur[v], sub_mem[v], attached[v],
                     gptr[v])
      BY InvParts
    <3> QED
      BY <2>2, <3>1 DEF OtherTables
  <2> QED
    BY <2>1, <2>2
<1> QED
  BY <1>1, <1>2, InvJoin

(* dart_segment_alloc for allocated and for registered memory.             *)
LEMMA AllocMem ==
  ASSUME TypeOK, SegmentInv, NEW u \in Units, dart_segment_alloc_mem(u)
  PROVE  \E e : /\ SegTypes' /\ OtherTables(u)
                /\ Taken(hashtab[u], hashtab'[u], e) /\ e.segid \in 1 .. (MaxSegId - 1)
                /\ TableInv(hashtab'[u], memid'[u], registermemid'[u], mem_freelist'[u],
                            reg_freelist'[u])
                /\ cur' = [cur EXCEPT ![u] = e.segid]
<1>1. /\ TableType(hashtab[u], memid[u], registermemid[u], mem_freelist[u], reg_freelist[u])
      /\ TableInv(hashtab[u], memid[u], registermemid[u], mem_freelist[u], reg_freelist[u])
  BY InvParts
<1>2. SegTypes
  BY DEF TypeOK, SegTypes, Tables
<1>3. UNCHANGED <<registermemid, reg_freelist>>
  BY DEF dart_segment_alloc_mem
<1>4. CASE /\ mem_freelist[u] # <<>>
           /\ TakeSegment(u, Head(mem_freelist[u]))
           /\ mem_freelist' = [mem_freelist EXCEPT ![u] = Tail(@)]
           /\ UNCHANGED memid
  <2> DEFINE e == Head(mem_freelist[u])
             t == register_segment(hashtab[u], e)
  <2>1. /\ TableType(t, memid[u], registermemid[u], Tail(mem_freelist[u]), reg_freelist[u])
        /\ TableInv(t, memid[u], registermemid[u], Tail(mem_freelist[u]), reg_freelist[u])
        /\ Taken(hashtab[u], t, e) /\ e.segid \in 1 .. (MaxSegId - 1)
    BY <1>1, <1>4, TakeMemFree
  <2>2. hashtab' = [hashtab EXCEPT ![u] = t] /\ cur' = [cur EXCEPT ![u] = e.segid]
    BY <1>4 DEF TakeSegment
  <2> HIDE DEF e, t
  <2>3. t \in Tables /\ Tail(mem_freelist[u]) \in Seq(Elems)
    BY <2>1 DEF TableType
  <2>4. SegTypes'
    BY <1>2, <1>3, <1>4, <2>2, <2>3 DEF SegTypes
  <2>5. OtherTables(u)
    BY <1>2, <1>3, <1>4, <2>2 DEF SegTypes, OtherTables
  <2>6. hashtab'[u] = t /\ memid'[u] = memid[u] /\ mem_freelist'[u] = Tail(mem_freelist[u])
    BY <1>2, <1>4, <2>2 DEF SegTypes
  <2> QED
    BY <1>3, <2>1, <2>2, <2>4, <2>5, <2>6
<1>5. CASE /\ mem_freelist[u] = <<>>
           /\ memid[u] # MaxSegId
           /\ TakeSegment(u, FreshElem(memid[u]))
           /\ memid' = [memid EXCEPT ![u] = @ + 1]
           /\ UNCHANGED mem_freelist
  <2> DEFINE e == FreshElem(memid[u])
             t == register_segment(hashtab[u], e)
  <2>1. /\ TableType(t, memid[u] + 1, registermemid[u], mem_freelist[u], reg_freelist[u])
        /\ TableInv(t, memid[u] + 1, registermemid[u], mem_freelist[u], reg_freelist[u])
        /\ Taken(hashtab[u], t, e) /\ memid[u] \in 1 .. (MaxSegId - 1)
    BY <1>1, <1>5, TakeMemFresh
  <2>2. /\ hashtab' = [hashtab EXCEPT ![u] = t] /\ cur' = [cur EXCEPT ![u] = e.segid]
        /\ e.segid = memid[u]
    BY <1>5 DEF TakeSegment, FreshElem
  <2> HIDE DEF e, t
  <2>3. t \in Tables /\ memid[u] + 1 \in 1 .. MaxSegId
    BY <2>1 DEF TableType
  <2>4. SegTypes'
    BY <1>2, <1>3, <1>5, <2>2, <2>3 DEF SegTypes
  <2>5. OtherTables(u)
    BY <1>2, <1>3, <1>5, <2>2 DEF SegTypes, OtherTables
  <2>6. hashtab'[u] = t /\ memid'[u] = memid[u] + 1 /\ mem_freelist'[u] = mem_freelist[u]
    BY <1>2, <1>5, <2>2 DEF SegTypes
  <2> QED
    BY <1>3, <2>1, <2>2, <2>4, <2>5, <2>6
<1> QED
  BY <1>4, <1>5 DEF dart_segment_alloc_mem

(* The same for registered memory.                                         *)
LEMMA AllocReg ==
  ASSUME TypeOK, SegmentInv, NEW u \in Units, dart_segment_alloc_reg(u)
  PROVE  \E e : /\ SegTypes' /\ OtherTables(u)
                /\ Taken(hashtab[u], hashtab'[u], e) /\ e.segid \in -MaxSegId .. -1
                /\ TableInv(hashtab'[u], memid'[u], registermemid'[u], mem_freelist'[u],
                            reg_freelist'[u])
                /\ cur' = [cur EXCEPT ![u] = e.segid]
<1>1. /\ TableType(hashtab[u], memid[u], registermemid[u], mem_freelist[u], reg_freelist[u])
      /\ TableInv(hashtab[u], memid[u], registermemid[u], mem_freelist[u], reg_freelist[u])
  BY InvParts
<1>2. SegTypes
  BY DEF TypeOK, SegTypes, Tables
<1>3. UNCHANGED <<memid, mem_freelist>>
  BY DEF dart_segment_alloc_reg
<1>4. CASE /\ reg_freelist[u] # <<>>
           /\ TakeSegment(u, Head(reg_freelist[u]))
           /\ reg_freelist' = [reg_freelist EXCEPT ![u] = Tail(@)]
           /\ UNCHANGED registermemid
  <2> DEFINE e == Head(reg_freelist[u])
             t == register_segment(hashtab[u], e)
  <2>1. /\ TableType(t, memid[u], registermemid[u], mem_freelist[u], Tail(reg_freelist[u]))
        /\ TableInv(t, memid[u], registermemid[u], mem_freelist[u], Tail(reg_freelist[u]))
        /\ Taken(hashtab[u], t, e) /\ e.segid \in -MaxSegId .. -1
    BY <1>1, <1>4, TakeRegFree
  <2>2. hashtab' = [hashtab EXCEPT ![u] = t] /\ cur' = [cur EXCEPT ![u] = e.segid]
    BY <1>4 DEF TakeSegment
  <2> HIDE DEF e, t
  <2>3. t \in Tables /\ Tail(reg_freelist[u]) \in Seq(Elems)
    BY <2>1 DEF TableType
  <2>4. SegTypes'
    BY <1>2, <1>3, <1>4, <2>2, <2>3 DEF SegTypes
  <2>5. OtherTables(u)
    BY <1>2, <1>3, <1>4, <2>2 DEF SegTypes, OtherTables
  <2>6. /\ hashtab'[u] = t /\ registermemid'[u] = registermemid[u]
        /\ reg_freelist'[u] = Tail(reg_freelist[u])
    BY <1>2, <1>4, <2>2 DEF SegTypes
  <2> QED
    BY <1>3, <2>1, <2>2, <2>4, <2>5, <2>6
<1>5. CASE /\ reg_freelist[u] = <<>>
           /\ registermemid[u] # -MaxSegId - 1
           /\ TakeSegment(u, FreshElem(registermemid[u]))
           /\ registermemid' = [registermemid EXCEPT ![u] = @ - 1]
           /\ UNCHANGED reg_freelist
  <2> DEFINE e == FreshElem(registermemid[u])
             t == register_segment(hashtab[u], e)
  <2>1. /\ TableType(t, memid[u], registermemid[u] - 1, mem_freelist[u], reg_freelist[u])
        /\ TableInv(t, memid[u], registermemid[u] - 1, mem_freelist[u], reg_freelist[u])
        /\ Taken(hashtab[u], t, e) /\ registermemid[u] \in -MaxSegId .. -1
    BY <1>1, <1>5, TakeRegFresh
  <2>2. /\ hashtab' = [hashtab EXCEPT ![u] = t] /\ cur' = [cur EXCEPT ![u] = e.segid]
        /\ e.segid = registermemid[u]
    BY <1>5 DEF TakeSegment, FreshElem
  <2> HIDE DEF e, t
  <2>3. t \in Tables /\ registermemid[u] - 1 \in (-MaxSegId - 1) .. -1
    BY <2>1 DEF TableType
  <2>4. SegTypes'
    BY <1>2, <1>3, <1>5, <2>2, <2>3 DEF SegTypes
  <2>5. OtherTables(u)
    BY <1>2, <1>3, <1>5, <2>2 DEF SegTypes, OtherTables
  <2>6. /\ hashtab'[u] = t /\ registermemid'[u] = registermemid[u] - 1
        /\ reg_freelist'[u] = reg_freelist[u]
    BY <1>2, <1>5, <2>2 DEF SegTypes
  <2> QED
    BY <1>3, <2>1, <2>2, <2>4, <2>5, <2>6
<1> QED
  BY <1>4, <1>5 DEF dart_segment_alloc_reg

(* dart_segment_free of a segment that is in the table.                    *)
LEMMA FreeSegment ==
  ASSUME TypeOK, SegmentInv, NEW u \in Units, NEW id, NEW x \in Segments(hashtab[u]),
         x.segid = id, dart_segment_free(u, id)
  PROVE  /\ SegTypes' /\ OtherTables(u) /\ get_segment(hashtab[u], id) = x /\ x \in Elems
         /\ Segments(hashtab'[u]) = Segments(hashtab[u]) \ {x}
         /\ TableInv(hashtab'[u], memid'[u], registermemid'[u], mem_freelist'[u],
                     reg_freelist'[u])
         /\ UNCHANGED <<memid, registermemid>>
         /\ mem_freelist'[u] = IF id > 0 THEN <<x>> \o mem_freelist[u] ELSE mem_freelist[u]
         /\ reg_freelist'[u] = IF id < 0 THEN <<x>> \o reg_freelist[u] ELSE reg_freelist[u]
<1>1. /\ TableType(hashtab[u], memid[u], registermemid[u], mem_freelist[u], reg_freelist[u])
      /\ TableInv(hashtab[u], memid[u], registermemid[u], mem_freelist[u], reg_freelist[u])
  BY InvParts
<1>2. SegTypes
  BY DEF TypeOK, SegTypes, Tables
<1>3. get_segment(hashtab[u], id) = x /\ x \in Elems
  <2>1. hashtab[u] \in Tables /\ ChainsAreSound(hashtab[u])
    BY <1>1 DEF TableType, TableInv
  <2> QED
    BY <2>1, GetFinds
<1> DEFINE t == Unlink(hashtab[u], id)
           fm == IF id > 0 THEN <<x>> \o mem_freelist[u] ELSE mem_freelist[u]
           fr == IF id < 0 THEN <<x>> \o reg_freelist[u] ELSE reg_freelist[u]
<1>4. /\ TableType(t, memid[u], registermemid[u], fm, fr)
      /\ TableInv(t, memid[u], registermemid[u], fm, fr)
      /\ Segments(t) = Segments(hashtab[u]) \ {x}
  BY <1>1, TableRelease
<1>5. hashtab' = [hashtab EXCEPT ![u] = t]
  BY <1>2 DEF dart_segment_free, SegTypes, Unlink, First
<1>6. /\ mem_freelist' = [mem_freelist EXCEPT ![u] = fm]
      /\ reg_freelist' = [reg_freelist EXCEPT ![u] = fr]
      /\ UNCHANGED <<memid, registermemid>>
  <2>1. [mem_freelist EXCEPT ![u] = mem_freelist[u]] = mem_freelist
    BY <1>2 DEF SegTypes
  <2>2. [reg_freelist EXCEPT ![u] = reg_freelist[u]] = reg_freelist
    BY <1>2 DEF SegTypes
  <2> QED
    BY <1>3, <2>1, <2>2 DEF dart_segment_free
<1> HIDE DEF t, fm, fr
<1>7. t \in Tables /\ fm \in Seq(Elems) /\ fr \in Seq(Elems)
  BY <1>4 DEF TableType
<1>8. SegTypes'
  BY <1>2, <1>5, <1>6, <1>7 DEF SegTypes
<1>9. OtherTables(u)
  BY <1>2, <1>5, <1>6 DEF SegTypes, OtherTables
<1>10. /\ hashtab'[u] = t /\ mem_freelist'[u] = fm /\ reg_freelist'[u] = fr
       /\ memid'[u] = memid[u] /\ registermemid'[u] = registermemid[u]
  BY <1>2, <1>5, <1>6 DEF SegTypes
<1> QED
  BY <1>3, <1>4, <1>6, <1>8, <1>9, <1>10 DEF fm, fr

-----------------------------------------------------------------------------
(* The actions                                                             *)

(* dart_segment_init leaves one segment, of ID 0, in each table.           *)
LEMMA InitInv == Init => TypeOK /\ SegmentInv
<1> SUFFICES ASSUME Init PROVE TypeOK /\ SegmentInv
  OBVIOUS
<1> DEFINE none == [s \in Slots |-> <<>>]
           t == register_segment(none, FreshElem(0))
<1>1. none \in Tables /\ Segments(none) = {} /\ ChainsAreSound(none)
  BY DEF Tables, Segments, ChainsAreSound
<1>2. FreshElem(0) \in Elems /\ FreshElem(0).segid = 0
  BY FreshIsElem
<1>3. t \in Tables /\ ChainsAreSound(t) /\ Segments(t) = {FreshElem(0)}
  BY <1>1, <1>2, RegisterAdds
<1>4. /\ memid = [u \in Units |-> 1] /\ registermemid = [u \in Units |-> -1]
      /\ mem_freelist = [u \in Units |-> <<>>] /\ reg_freelist = [u \in Units |-> <<>>]
      /\ hashtab = [u \in Units |-> t]
  BY DEF Init, dart_segment_init
<1> HIDE DEF none, t
<1>5. TypeOK
  <2>1. hashtab \in [Units -> [Slots -> Seq(Elems)]]
    BY <1>3, <1>4 DEF Tables
  <2>2. 1 \in 1 .. MaxSegId /\ -1 \in (-MaxSegId - 1) .. -1
    BY SegIdAssumption
  <2>3. "idle" \in Places /\ NULL \in Addresses
    BY DEF Places, Addresses
  <2> QED
    BY <1>4, <2>1, <2>2, <2>3 DEF TypeOK, Init
<1>6. ScriptIsSound
  BY DEF Init, ScriptIsSound
<1>7. IdsAreUnique
  <2> SUFFICES ASSUME NEW u \in Units
               PROVE  /\ ChainsAreSound(hashtab[u])
                      /\ \A e \in Segments(hashtab[u]) :
                            e.segid \in (registermemid[u] + 1) .. (memid[u] - 1)
                      /\ FreeListIsSound(mem_freelist[u], hashtab[u], 1 .. (memid[u] - 1))
                      /\ FreeListIsSound(reg_freelist[u], hashtab[u], (registermemid[u] + 1) .. -1)
    BY DEF IdsAreUnique
  <2>1. hashtab[u] = t /\ memid[u] = 1 /\ registermemid[u] = -1
    BY <1>4
  <2>2. mem_freelist[u] = <<>> /\ reg_freelist[u] = <<>>
    BY <1>4
  <2>3. \A e \in Segments(t) : e.segid \in (registermemid[u] + 1) .. (memid[u] - 1)
    BY <1>2, <1>3, <2>1
  <2>4. \A ids : FreeListIsSound(<<>>, t, ids)
    BY DEF FreeListIsSound
  <2> QED
    BY <1>3, <2>1, <2>2, <2>3, <2>4
<1>8. OwnedAreHeld
  BY DEF Init, OwnedAreHeld
<1>9. CurrentIsOwn
  BY DEF Init, CurrentIsOwn
<1>10. LiveIsAttached
  BY DEF Init, LiveIsAttached
<1> QED
  BY <1>5, <1>6, <1>7, <1>8, <1>9, <1>10 DEF SegmentInv

(* What a call to release must look like.                                  *)
LEMMA NewCallTypes ==
  ASSUME TypeOK, NEW call \in NewCalls
  PROVE  /\ call \in CallType
         /\ \/ call.of = 0 /\ call.kind \in {"alloc", "register"}
            \/ /\ call.of \in DOMAIN script /\ call.of # 0
               /\ script[call.of].of = 0 /\ Releases(call.of) = {}
               /\ call.kind = IF script[call.of].kind = "alloc" THEN "free" ELSE "dereg"
<1>0. script \in Seq(CallType) /\ DOMAIN script = 1 .. Len(script) /\ Len(script) \in Nat
  BY DEF TypeOK, CallType
<1>1. CASE call \in [kind : {"alloc", "register"}, size : Sizes, of : {0}]
  <2>1. call.kind \in {"alloc", "register"} /\ call.size \in Nat /\ call.of = 0
    BY <1>1, SizesAssumption
  <2>2. call = [kind |-> call.kind, size |-> call.size, of |-> call.of]
    BY <1>1
  <2>3. call.kind \in Kinds
    BY <2>1 DEF Kinds
  <2> QED
    BY <2>1, <2>2, <2>3 DEF CallType
<1>2. CASE call \notin [kind : {"alloc", "register"}, size : Sizes, of : {0}]
  <2>1. PICK c \in DOMAIN script :
           /\ script[c].of = 0 /\ Releases(c) = {}
           /\ call = [kind |-> IF script[c].kind = "alloc" THEN "free" ELSE "dereg",
                      size |-> 0, of |-> c]
    BY <1>2 DEF NewCalls
  <2>2. c \in Nat /\ c # 0
    BY <1>0
  <2> QED
    BY <2>1, <2>2 DEF CallType, Kinds
<1> QED
  BY <1>1, <1>2

(* A new call is sound and disturbs no unit.                               *)
LEMMA ProgramInv ==
  ASSUME TypeOK, SegmentInv, NEW u \in Units, Program(u)
  PROVE  TypeOK' /\ SegmentInv'
<1>1. PICK call \in NewCalls : script' = Append(script, call)
  BY DEF Program
<1>2. UNCHANGED <<done, pc, memid, registermemid, mem_freelist, reg_freelist, hashtab, cur,
                  sub_mem, coll, attached, gptr>>
  BY DEF Program, segdata
<1>3. /\ call \in CallType
      /\ \/ call.of = 0 /\ call.kind \in {"alloc", "register"}
         \/ /\ call.of \in DOMAIN script /\ call.of # 0
            /\ script[call.of].of = 0 /\ Releases(call.of) = {}
            /\ call.kind = IF script[call.of].kind = "alloc" THEN "free" ELSE "dereg"
  BY NewCallTypes
<1>4. script \in Seq(CallType) /\ DOMAIN script = 1 .. Len(script) /\ Len(script) \in Nat
  BY DEF TypeOK, CallType
<1> DEFINE n == Len(script) + 1
<1>5. /\ script' \in Seq(CallType) /\ Len(script') = n
      /\ DOMAIN script' = 1 .. n /\ script'[n] = call
      /\ \A k \in DOMAIN script : k \in DOMAIN script' /\ k # n /\ k < n /\ script'[k] = script[k]
      /\ \A k \in DOMAIN script' : k = n \/ k \in DOMAIN script
  BY <1>1, <1>3, <1>4
<1>6. TypeOK'
  <2>1. \A v \in Units : done[v] \in Nat /\ done[v] <= Len(script) => done[v] <= Len(script')
    BY <1>4, <1>5
  <2> QED
    BY <1>2, <1>5, <2>1 DEF TypeOK, CallType
<1>7. SoundScript(script)'
  <2>1. SoundScript(script)
    BY InvParts
  <2> HIDE DEF n
  <2>2. ASSUME NEW k \in DOMAIN script'
        PROVE  IF script'[k].of = 0 THEN script'[k].kind \in {"alloc", "register"}
               ELSE /\ script'[k].of < k
                    /\ script'[script'[k].of].of = 0
                    /\ script'[k].kind = IF script'[script'[k].of].kind = "alloc"
                                         THEN "free" ELSE "dereg"
    <3>1. CASE k = n
      BY <1>3, <1>5, <3>1
    <3>2. CASE k \in DOMAIN script
      <4>1. script'[k] = script[k]
        BY <1>5, <3>2
      <4>2. script[k].of \in Nat /\ k \in Nat
        <5>1. script[k] \in CallType
          BY <1>4, <3>2
        <5> QED
          BY <1>4, <3>2, <5>1 DEF CallType
      <4>3. script[k].of # 0 => script[k].of \in DOMAIN script
        BY <1>4, <2>1, <3>2, <4>2 DEF SoundScript
      <4> QED
        BY <1>5, <2>1, <3>2, <4>1, <4>3 DEF SoundScript
    <3> QED
      BY <1>5, <3>1, <3>2
  <2>3. ASSUME NEW k \in DOMAIN script, script[k].of # 0 PROVE script[k].of # call.of
    <3>1. script[k].kind \in {"free", "dereg"}
      BY <2>1, <2>3 DEF SoundScript
    <3> QED
      BY <1>3, <2>3, <3>1 DEF Releases
  <2>4. ASSUME NEW j \in DOMAIN script', NEW k \in DOMAIN script',
               script'[j].of = script'[k].of, script'[j].of # 0
        PROVE  j = k
    <3>1. CASE j \in DOMAIN script /\ k \in DOMAIN script
      BY <1>5, <2>1, <2>4, <3>1 DEF SoundScript
    <3>2. CASE j = n \/ k = n
      BY <1>5, <2>3, <2>4, <3>2
    <3> QED
      BY <1>5, <3>1, <3>2
  <2> QED
    BY <2>2, <2>4 DEF SoundScript
<1>8. ASSUME NEW v \in Units
      PROVE  /\ TableInv(hashtab[v], memid[v], registermemid[v], mem_freelist[v], reg_freelist[v])'
             /\ UnitInv(script, v, done[v], pc[v], hashtab[v], cur[v], sub_mem[v], attached[v],
                        gptr[v])'
  <2>1. /\ TableInv(hashtab[v], memid[v], registermemid[v], mem_freelist[v], reg_freelist[v])
        /\ UnitType(script, v, done[v], pc[v], gptr[v])
        /\ UnitInv(script, v, done[v], pc[v], hashtab[v], cur[v], sub_mem[v], attached[v],
                   gptr[v])
    BY InvParts
  <2>2. UnitInv(Append(script, call), v, done[v], pc[v], hashtab[v], cur[v], sub_mem[v],
                attached[v], gptr[v])
    BY <1>3, <2>1, UnitProgram
  <2> QED
    BY <1>1, <1>2, <2>1, <2>2
<1> QED
  BY <1>6, <1>7, <1>8, InvJoin

(* A call of a kind that sets something up.                                *)
LEMMA CallFacts ==
  ASSUME TypeOK, SegmentInv, NEW u \in Units, NEW kind, Calls(u, kind)
  PROVE  /\ pc[u] = "idle" /\ done[u] < Len(script) /\ Call(u) = script[done[u] + 1]
         /\ done[u] + 1 \in DOMAIN script /\ script[done[u] + 1].kind = kind
         /\ kind \in {"alloc", "register"} => script[done[u] + 1].of = 0
<1>1. pc[u] = "idle" /\ done[u] < Len(script) /\ script[done[u] + 1].kind = kind
  BY DEF Calls, Call
<1>2. done[u] + 1 \in DOMAIN script
  BY <1>1, InvParts, Facts DEF TypeOK
<1>3. SoundScript(script)
  BY InvParts
<1> QED
  BY <1>1, <1>2, <1>3 DEF SoundScript, Call

(* dart_team_memalloc_aligned takes a segment of an unused ID.             *)
LEMMA MemallocBeginInv ==
  ASSUME TypeOK, SegmentInv, NEW u \in Units, MemallocBegin(u)
  PROVE  TypeOK' /\ SegmentInv'
<1>1. PICK e : /\ SegTypes' /\ OtherTables(u)
               /\ Taken(hashtab[u], hashtab'[u], e) /\ e.segid \in 1 .. (MaxSegId - 1)
               /\ TableInv(hashtab'[u], memid'[u], registermemid'[u], mem_freelist'[u],
                           reg_freelist'[u])
               /\ cur' = [cur EXCEPT ![u] = e.segid]
  BY AllocMem DEF MemallocBegin
<1>2. /\ pc' = [pc EXCEPT ![u] = "shared"] /\ coll' = [coll EXCEPT ![u] = @ + 1]
      /\ UNCHANGED <<script, done, sub_mem, attached, gptr>> /\ Calls(u, "alloc")
  BY DEF MemallocBegin, Enter
<1>3. /\ pc[u] = "idle" /\ done[u] < Len(script) /\ script[done[u] + 1].kind = "alloc"
      /\ script[done[u] + 1].of = 0
  BY <1>2, CallFacts
<1>4. e.segid \in IdsOf("alloc") \ {NoSegid} /\ e.segid \in SegIds
  BY <1>1, KindIds, SegIdAssumption DEF NoSegid, SegIds
<1>5. UnitInv(script, u, done[u], "shared", hashtab'[u], e.segid, sub_mem[u], attached[u], gptr[u])
  <2>1. /\ UnitType(script, u, done[u], pc[u], gptr[u]) /\ SoundScript(script)
        /\ UnitInv(script, u, done[u], pc[u], hashtab[u], cur[u], sub_mem[u], attached[u], gptr[u])
    BY InvParts
  <2>2. e.segid \in IdsOf(script[done[u] + 1].kind) \ {NoSegid}
    BY <1>3, <1>4
  <2> QED
    BY <1>1, <1>3, <2>1, <2>2, UnitTakes
<1>6. TypeOK'
  <2>1. "shared" \in Places
    BY DEF Places
  <2>2. RestTypes
    BY TypeParts
  <2>3. RestTypes'
    BY <1>1, <1>2, <1>4, <2>1, <2>2 DEF RestTypes
  <2> QED
    BY <1>1, <2>3, TypeJoin
<1>7. SegmentInv'
  <2>1. /\ pc'[u] = "shared" /\ cur'[u] = e.segid /\ done'[u] = done[u]
        /\ sub_mem'[u] = sub_mem[u] /\ attached'[u] = attached[u] /\ gptr'[u] = gptr[u]
    BY <1>1, <1>2 DEF TypeOK
  <2>2. \A v \in Units : v # u => /\ done'[v] = done[v] /\ pc'[v] = pc[v] /\ cur'[v] = cur[v]
                                  /\ sub_mem'[v] = sub_mem[v] /\ attached'[v] = attached[v]
                                  /\ gptr'[v] = gptr[v]
    BY <1>1, <1>2 DEF TypeOK
  <2> QED
    BY <1>1, <1>2, <1>5, <2>1, <2>2, Frame
<1> QED
  BY <1>6, <1>7

(* dart_team_memregister takes a segment and attaches the memory.          *)
LEMMA MemregisterBeginInv ==
  ASSUME TypeOK, SegmentInv, NEW u \in Units, MemregisterBegin(u)
  PROVE  TypeOK' /\ SegmentInv'
<1> DEFINE mem == Address(u, done[u] + 1)
<1>1. PICK e : /\ SegTypes' /\ OtherTables(u)
               /\ Taken(hashtab[u], hashtab'[u], e) /\ e.segid \in -MaxSegId .. -1
               /\ TableInv(hashtab'[u], memid'[u], registermemid'[u], mem_freelist'[u],
                           reg_freelist'[u])
               /\ cur' = [cur EXCEPT ![u] = e.segid]
  BY AllocReg DEF MemregisterBegin
<1>2. /\ pc' = [pc EXCEPT ![u] = "gather"] /\ coll' = [coll EXCEPT ![u] = @ + 1]
      /\ attached' = [attached EXCEPT ![u] = @ \cup {mem}]
      /\ sub_mem' = [sub_mem EXCEPT ![u] = mem]
      /\ UNCHANGED <<script, done, gptr>> /\ Calls(u, "register")
  BY DEF MemregisterBegin, Enter
<1>3. /\ pc[u] = "idle" /\ done[u] < Len(script) /\ script[done[u] + 1].kind = "register"
      /\ script[done[u] + 1].of = 0
  BY <1>2, CallFacts
<1>4. e.segid \in IdsOf("register") \ {NoSegid} /\ e.segid \in SegIds
  BY <1>1, KindIds, SegIdAssumption DEF NoSegid, SegIds
<1>m. mem \in Addresses
  BY DEF Address, Addresses, TypeOK
<1> HIDE DEF mem
<1>5. UnitInv(script, u, done[u], "gather", hashtab'[u], e.segid, mem, attached[u] \cup {mem}, gptr[u])
  <2>1. /\ UnitType(script, u, done[u], pc[u], gptr[u]) /\ SoundScript(script)
        /\ UnitInv(script, u, done[u], pc[u], hashtab[u], cur[u], sub_mem[u], attached[u], gptr[u])
    BY InvParts
  <2>2. e.segid \in IdsOf(script[done[u] + 1].kind) \ {NoSegid}
    BY <1>3, <1>4
  <2> DEFINE a == attached[u] \cup {mem}
             at == attached[u]
             t == hashtab'[u]
             n == done[u]
  <2>3. mem = Address(u, n + 1) /\ mem \in a /\ at \subseteq a
    BY DEF mem
  <2> HIDE DEF a, at, t, n
  <2>4. UnitInv(script, u, n, "gather", t, e.segid, mem, a, gptr[u])
    <3>1. /\ UnitType(script, u, n, pc[u], gptr[u]) /\ SoundScript(script)
          /\ UnitInv(script, u, n, pc[u], hashtab[u], cur[u], sub_mem[u], at, gptr[u])
          /\ pc[u] = "idle" /\ n < Len(script) /\ script[n + 1].of = 0
          /\ Taken(hashtab[u], t, e) /\ e.segid \in IdsOf(script[n + 1].kind) \ {NoSegid}
      BY <1>1, <1>3, <2>1, <2>2 DEF n, at, t
    <3> QED
      BY <2>3, <3>1, UnitTakes
  <2> QED
    BY <2>4 DEF a, n, t
<1>6. TypeOK'
  <2>1. "gather" \in Places
    BY DEF Places
  <2>2. RestTypes
    BY TypeParts
  <2>3. RestTypes'
    BY <1>1, <1>2, <1>4, <1>m, <2>1, <2>2 DEF RestTypes
  <2> QED
    BY <1>1, <2>3, TypeJoin
<1>7. SegmentInv'
  <2>1. /\ pc'[u] = "gather" /\ cur'[u] = e.segid /\ done'[u] = done[u]
        /\ sub_mem'[u] = mem /\ attached'[u] = attached[u] \cup {mem} /\ gptr'[u] = gptr[u]
    BY <1>1, <1>2 DEF TypeOK
  <2>2. \A v \in Units : v # u => /\ done'[v] = done[v] /\ pc'[v] = pc[v] /\ cur'[v] = cur[v]
                                  /\ sub_mem'[v] = sub_mem[v] /\ attached'[v] = attached[v]
                                  /\ gptr'[v] = gptr[v]
    BY <1>1, <1>2 DEF TypeOK
  <2> QED
    BY <1>1, <1>2, <1>5, <2>1, <2>2, Frame
<1> QED
  BY <1>6, <1>7

(* The units whose tables nobody touches.                                  *)
LEMMA SameTables ==
  ASSUME TypeOK, SegmentInv, NEW u \in Units, UNCHANGED segdata
  PROVE  /\ SegTypes' /\ OtherTables(u) /\ hashtab'[u] = hashtab[u]
         /\ TableInv(hashtab'[u], memid'[u], registermemid'[u], mem_freelist'[u],
                     reg_freelist'[u])
<1>1. UNCHANGED <<memid, registermemid, mem_freelist, reg_freelist, hashtab>>
  BY DEF segdata
<1>2. SegTypes
  BY TypeParts
<1>3. SegTypes' /\ OtherTables(u)
  BY <1>1, <1>2 DEF SegTypes, OtherTables
<1>4. TableInv(hashtab[u], memid[u], registermemid[u], mem_freelist[u], reg_freelist[u])
  BY InvParts
<1> QED
  BY <1>1, <1>3, <1>4

(* MemallocNull and MemallocCrash: no call of the unit returns any more.   *)
LEMMA MemallocStopsInv ==
  ASSUME TypeOK, SegmentInv, NEW u \in Units, MemallocNull(u) \/ MemallocCrash(u)
  PROVE  TypeOK' /\ SegmentInv'
<1>1. PICK q \in {"shared_null", "crashed"} :
         /\ pc' = [pc EXCEPT ![u] = q]
         /\ coll' \in {coll, [coll EXCEPT ![u] = @ + 1]}
  BY DEF MemallocNull, MemallocCrash, Enter
<1>2. UNCHANGED <<script, done, segdata, cur, sub_mem, attached, gptr>>
  BY DEF MemallocNull, MemallocCrash
<1>3. /\ SegTypes' /\ OtherTables(u) /\ hashtab'[u] = hashtab[u]
      /\ TableInv(hashtab'[u], memid'[u], registermemid'[u], mem_freelist'[u],
                  reg_freelist'[u])
  BY <1>2, SameTables
<1>4. UnitInv(script, u, done[u], q, hashtab[u], cur[u], sub_mem[u], attached[u], gptr[u])
  BY InvParts, UnitStops
<1>5. RestTypes
  BY TypeParts
<1>6. RestTypes'
  <2>1. q \in Places
    BY DEF Places
  <2>2. coll' \in [Units -> Nat]
    BY <1>1, <1>5, SMTT(60) DEF RestTypes
  <2> QED
    BY <1>1, <1>2, <1>5, <2>1, <2>2 DEF RestTypes
<1>7. SegmentInv'
  <2>1. pc'[u] = q /\ \A v \in Units : v # u => pc'[v] = pc[v]
    BY <1>1, <1>5 DEF RestTypes
  <2> QED
    BY <1>2, <1>3, <1>4, <2>1, Frame
<1> QED
  BY <1>3, <1>6, <1>7, TypeJoin

(* The memory is attached before its displacement is gathered.             *)
LEMMA MemallocAttachInv ==
  ASSUME TypeOK, SegmentInv, NEW u \in Units, MemallocAttach(u)
  PROVE  TypeOK' /\ SegmentInv'
<1> DEFINE mem == Address(u, done[u] + 1)
<1>1. PICK b \in {NULL, mem}, a \in {attached[u], attached[u] \cup {mem}} :
         /\ sub_mem' = [sub_mem EXCEPT ![u] = b]
         /\ attached' = [attached EXCEPT ![u] = a]
         /\ script[done[u] + 1].size = 0 \/ a = attached[u] \cup {mem}
  <2>1. attached = [attached EXCEPT ![u] = attached[u]]
    BY DEF TypeOK
  <2> QED
    BY <2>1 DEF MemallocAttach, Call
<1>2. /\ pc' = [pc EXCEPT ![u] = "gather"] /\ coll' = [coll EXCEPT ![u] = @ + 1]
      /\ UNCHANGED <<script, done, segdata, cur, gptr>> /\ pc[u] = "shared"
  BY DEF MemallocAttach, Enter
<1>3. /\ SegTypes' /\ OtherTables(u) /\ hashtab'[u] = hashtab[u]
      /\ TableInv(hashtab'[u], memid'[u], registermemid'[u], mem_freelist'[u],
                  reg_freelist'[u])
  BY <1>2, SameTables
<1>4. RestTypes
  BY TypeParts
<1>5. b \in Addresses /\ a \in SUBSET Addresses
  BY <1>1, <1>4 DEF RestTypes, Address, Addresses
<1>6. UnitInv(script, u, done[u], "gather", hashtab[u], cur[u], b, a, gptr[u])
  <2>1. /\ UnitType(script, u, done[u], pc[u], gptr[u])
        /\ UnitInv(script, u, done[u], pc[u], hashtab[u], cur[u], sub_mem[u], attached[u], gptr[u])
    BY InvParts
  <2> QED
    BY <1>1, <1>2, <2>1, UnitAttaches
<1> HIDE DEF mem
<1>7. RestTypes'
  <2>1. "gather" \in Places
    BY DEF Places
  <2> QED
    BY <1>1, <1>2, <1>4, <1>5, <2>1, SMTT(60) DEF RestTypes
<1>8. SegmentInv'
  <2>1. pc'[u] = "gather" /\ sub_mem'[u] = b /\ attached'[u] = a
    BY <1>1, <1>2, <1>4 DEF RestTypes
  <2>2. \A v \in Units : v # u => /\ pc'[v] = pc[v] /\ sub_mem'[v] = sub_mem[v]
                                  /\ attached'[v] = attached[v]
    BY <1>1, <1>2, <1>4 DEF RestTypes
  <2> QED
    BY <1>2, <1>3, <1>6, <2>1, <2>2, Frame
<1> QED
  BY <1>3, <1>7, <1>8, TypeJoin

(* What Finish leaves of a unit.                                           *)
LEMMA FinishTypes ==
  ASSUME RestTypes, NEW u \in Units, NEW id \in SegIds \cup {NoSegid}, Finish(u, id),
         UNCHANGED script, done[u] < Len(script)
  PROVE  /\ done' \in [Units -> Nat] /\ pc' \in [Units -> Places]
         /\ gptr' \in [Units -> Seq(SegIds \cup {NoSegid})]
         /\ \A v \in Units : done'[v] <= Len(script') /\ Len(gptr'[v]) = done'[v]
         /\ done'[u] = done[u] + 1 /\ pc'[u] = "idle" /\ gptr'[u] = Append(gptr[u], id)
         /\ \A v \in Units : v # u => done'[v] = done[v] /\ pc'[v] = pc[v] /\ gptr'[v] = gptr[v]
<1>1. /\ done \in [Units -> Nat] /\ pc \in [Units -> Places]
      /\ gptr \in [Units -> Seq(SegIds \cup {NoSegid})] /\ Len(script) \in Nat
      /\ \A v \in Units : done[v] <= Len(script) /\ Len(gptr[v]) = done[v]
  BY DEF RestTypes
<1>2. /\ gptr' = [gptr EXCEPT ![u] = Append(@, id)]
      /\ done' = [done EXCEPT ![u] = @ + 1]
      /\ pc' = [pc EXCEPT ![u] = "idle"]
  BY DEF Finish
<1>3. /\ Append(gptr[u], id) \in Seq(SegIds \cup {NoSegid})
      /\ Len(Append(gptr[u], id)) = done[u] + 1
  BY <1>1
<1>4. "idle" \in Places
  BY DEF Places
<1>5. /\ done'[u] = done[u] + 1 /\ pc'[u] = "idle" /\ gptr'[u] = Append(gptr[u], id)
      /\ \A v \in Units : v # u => done'[v] = done[v] /\ pc'[v] = pc[v] /\ gptr'[v] = gptr[v]
  BY <1>1, <1>2
<1>6. /\ done' \in [Units -> Nat] /\ pc' \in [Units -> Places]
      /\ gptr' \in [Units -> Seq(SegIds \cup {NoSegid})]
  BY <1>1, <1>2, <1>3, <1>4
<1>7. ASSUME NEW v \in Units PROVE done'[v] <= Len(script') /\ Len(gptr'[v]) = done'[v]
  BY <1>1, <1>3, <1>5, SMTT(60)
<1> QED
  BY <1>5, <1>6, <1>7

(* The segment is filled in and the call owns it.                          *)
LEMMA GatherReturnInv ==
  ASSUME TypeOK, SegmentInv, NEW u \in Units, GatherReturn(u)
  PROVE  TypeOK' /\ SegmentInv'
<1> DEFINE n == done[u] + 1
           tab == hashtab[u]
           x == get_segment(tab, cur[u])
           e == [x EXCEPT !.size = Call(u).size, !.selfbaseptr = sub_mem[u],
                          !.disp = [v \in Units |-> Displacement(v, n)]]
           t == SetSegment(tab, e)
<1>1. RestTypes /\ SegTypes
  BY TypeParts
<1>2. /\ hashtab' = [hashtab EXCEPT ![u] = t] /\ Finish(u, cur[u]) /\ pc[u] = "gather"
      /\ UNCHANGED <<script, memid, registermemid, mem_freelist, reg_freelist, cur, sub_mem,
                     coll, attached>>
  BY <1>1 DEF GatherReturn, SegTypes
<1>3. /\ SoundScript(script)
      /\ TableType(hashtab[u], memid[u], registermemid[u], mem_freelist[u], reg_freelist[u])
      /\ TableInv(hashtab[u], memid[u], registermemid[u], mem_freelist[u], reg_freelist[u])
      /\ UnitType(script, u, done[u], pc[u], gptr[u])
      /\ UnitInv(script, u, done[u], pc[u], hashtab[u], cur[u], sub_mem[u], attached[u], gptr[u])
  BY InvParts
<1>4. CurrentIn(script, done[u], pc[u], hashtab[u], cur[u], gptr[u])
  BY <1>3 DEF UnitInv
<1>5. /\ done[u] < Len(script) /\ cur[u] \in SegIds
      /\ \E y \in Segments(tab) : y.segid = cur[u]
  BY <1>1, <1>2, <1>4 DEF CurrentIn, RestTypes
<1>6. x \in Segments(tab) /\ x.segid = cur[u] /\ x \in Elems
  <2>1. tab \in Tables /\ ChainsAreSound(tab)
    BY <1>3 DEF TableType, TableInv
  <2> QED
    BY <1>5, <2>1, GetFinds
<1>7. /\ Call(u).size \in Nat /\ sub_mem[u] \in Addresses
      /\ [v \in Units |-> Displacement(v, n)] = Row(script, n)
      /\ Row(script, n) \in [Units -> Addresses]
  <2>1. script[n].size \in Nat /\ n \in Nat
    BY <1>1, <1>3, <1>5, Facts DEF RestTypes
  <2>2. \A v \in Units : Disp(script, v, n) \in Addresses
    BY <2>1 DEF Disp, Addresses, Address
  <2> QED
    BY <1>1, <2>1, <2>2 DEF RestTypes, Call, Row, Disp, Displacement
<1> HIDE DEF x
<1>8. e \in Elems /\ e.segid = cur[u] /\ e.disp = Row(script, n) /\ e.selfbaseptr = sub_mem[u]
  BY <1>6, <1>7 DEF Elems
<1> HIDE DEF e
<1>9. /\ TableType(t, memid[u], registermemid[u], mem_freelist[u], reg_freelist[u])
      /\ TableInv(t, memid[u], registermemid[u], mem_freelist[u], reg_freelist[u])
      /\ Segments(t) = (Segments(tab) \ {x}) \cup {e}
  BY <1>3, <1>6, <1>8, TableFill
<1> HIDE DEF t
<1>10. UnitInv(script, u, done[u] + 1, "idle", t, cur[u], sub_mem[u], attached[u],
               Append(gptr[u], cur[u]))
  BY <1>2, <1>3, <1>5, <1>6, <1>8, <1>9, UnitCompletes
<1>11. /\ done' \in [Units -> Nat] /\ pc' \in [Units -> Places]
       /\ gptr' \in [Units -> Seq(SegIds \cup {NoSegid})]
       /\ \A v \in Units : done'[v] <= Len(script') /\ Len(gptr'[v]) = done'[v]
       /\ done'[u] = done[u] + 1 /\ pc'[u] = "idle" /\ gptr'[u] = Append(gptr[u], cur[u])
       /\ \A v \in Units : v # u => done'[v] = done[v] /\ pc'[v] = pc[v] /\ gptr'[v] = gptr[v]
  BY <1>1, <1>2, <1>5, FinishTypes
<1>12. RestTypes'
  BY <1>1, <1>2, <1>11 DEF RestTypes
<1>13. SegTypes' /\ OtherTables(u) /\ hashtab'[u] = t
  <2>1. t \in Tables
    BY <1>9 DEF TableType
  <2> QED
    BY <1>1, <1>2, <2>1 DEF SegTypes, OtherTables
<1>14. SegmentInv'
  BY <1>2, <1>9, <1>10, <1>11, <1>13, Frame
<1> QED
  BY <1>12, <1>13, <1>14, TypeJoin

(* MemregisterNull and MemderegisterNull.                                  *)
LEMMA SkipInv ==
  ASSUME TypeOK, SegmentInv, NEW u \in Units, NEW kind \in {"register", "dereg"},
         Calls(u, kind), Finish(u, NoSegid),
         UNCHANGED <<script, segdata, cur, sub_mem, coll, attached>>
  PROVE  TypeOK' /\ SegmentInv'
<1>1. RestTypes
  BY TypeParts
<1>2. /\ pc[u] = "idle" /\ done[u] < Len(script)
      /\ script[done[u] + 1].kind \in {"register", "dereg"}
  BY CallFacts
<1>3. /\ UnitType(script, u, done[u], pc[u], gptr[u])
      /\ UnitInv(script, u, done[u], pc[u], hashtab[u], cur[u], sub_mem[u], attached[u], gptr[u])
  BY InvParts
<1>4. UnitInv(script, u, done[u] + 1, "idle", hashtab[u], cur[u], sub_mem[u], attached[u],
              Append(gptr[u], NoSegid))
  BY <1>2, <1>3, UnitSkips
<1>5. /\ done' \in [Units -> Nat] /\ pc' \in [Units -> Places]
      /\ gptr' \in [Units -> Seq(SegIds \cup {NoSegid})]
      /\ \A v \in Units : done'[v] <= Len(script') /\ Len(gptr'[v]) = done'[v]
      /\ done'[u] = done[u] + 1 /\ pc'[u] = "idle" /\ gptr'[u] = Append(gptr[u], NoSegid)
      /\ \A v \in Units : v # u => done'[v] = done[v] /\ pc'[v] = pc[v] /\ gptr'[v] = gptr[v]
  BY <1>1, <1>2, FinishTypes
<1>6. RestTypes'
  BY <1>1, <1>5 DEF RestTypes
<1>7. /\ SegTypes' /\ OtherTables(u) /\ hashtab'[u] = hashtab[u]
      /\ TableInv(hashtab'[u], memid'[u], registermemid'[u], mem_freelist'[u],
                  reg_freelist'[u])
  BY SameTables
<1>8. SegmentInv'
  BY <1>4, <1>5, <1>7, Frame
<1> QED
  BY <1>6, <1>7, <1>8, TypeJoin

(* What Detach takes away.                                                 *)
LEMMA ReleasedSegment ==
  ASSUME TypeOK, SegmentInv, NEW u \in Units, done[u] < Len(script),
         script[done[u] + 1].kind \in {"free", "dereg"},
         gptr[u][script[done[u] + 1].of] # NoSegid
  PROVE  \E x \in Segments(hashtab[u]) :
            /\ x.segid = gptr[u][script[done[u] + 1].of]
            /\ get_segment(hashtab[u], gptr[u][script[done[u] + 1].of]) = x
            /\ x.selfbaseptr \in {NULL, Address(u, script[done[u] + 1].of)}
<1>1. /\ SoundScript(script)
      /\ TableType(hashtab[u], memid[u], registermemid[u], mem_freelist[u], reg_freelist[u])
      /\ TableInv(hashtab[u], memid[u], registermemid[u], mem_freelist[u], reg_freelist[u])
      /\ UnitType(script, u, done[u], pc[u], gptr[u])
      /\ UnitInv(script, u, done[u], pc[u], hashtab[u], cur[u], sub_mem[u], attached[u], gptr[u])
  BY InvParts
<1> DEFINE c == script[done[u] + 1].of
<1>2. HoldsIn(script, hashtab[u], u, c, gptr[u][c])
  BY <1>1, ReleasedIsOwned
<1> HIDE DEF c
<1>3. PICK x \in Segments(hashtab[u]) :
         x.segid = gptr[u][c] /\ x.selfbaseptr \in {NULL, Address(u, c)}
  BY <1>2 DEF HoldsIn
<1>4. get_segment(hashtab[u], gptr[u][c]) = x
  BY <1>1, <1>3, GetFinds DEF TableType, TableInv
<1> QED
  BY <1>3, <1>4 DEF c

(* Detaching takes away the memory of the call that is released.           *)
LEMMA MemfreeBeginInv ==
  ASSUME TypeOK, SegmentInv, NEW u \in Units, MemfreeBegin(u)
  PROVE  TypeOK' /\ SegmentInv'
<1> DEFINE c == script[done[u] + 1].of
           id == gptr[u][c]
<1>1. RestTypes
  BY TypeParts
<1>2. /\ Calls(u, "free") /\ cur' = [cur EXCEPT ![u] = id]
      /\ attached' = [attached EXCEPT ![u] = @ \ {get_segment(hashtab[u], id).selfbaseptr}]
      /\ coll' = [coll EXCEPT ![u] = @ + 1] /\ pc' = [pc EXCEPT ![u] = "winfree"]
      /\ UNCHANGED <<script, done, segdata, sub_mem, gptr>>
  BY DEF MemfreeBegin, Detach, Enter, Call
<1>3. /\ SoundScript(script) /\ UnitType(script, u, done[u], pc[u], gptr[u])
      /\ UnitInv(script, u, done[u], pc[u], hashtab[u], cur[u], sub_mem[u], attached[u], gptr[u])
  BY InvParts
<1>4. /\ pc[u] = "idle" /\ done[u] < Len(script) /\ script[done[u] + 1].kind = "free"
  BY <1>2, CallFacts
<1>5. c \in DOMAIN gptr[u] /\ id # NoSegid
  BY <1>3, <1>4, ReleasedIsOwned
<1>6. PICK x \in Segments(hashtab[u]) :
         x.segid = id /\ get_segment(hashtab[u], id) = x /\ x.selfbaseptr \in {NULL, Address(u, c)}
  BY <1>4, <1>5, ReleasedSegment
<1>7. UnitInv(script, u, done[u], "winfree", hashtab[u], id, sub_mem[u],
              attached[u] \ {x.selfbaseptr}, gptr[u])
  BY <1>3, <1>4, <1>6, UnitDetaches
<1>8. /\ SegTypes' /\ OtherTables(u) /\ hashtab'[u] = hashtab[u]
      /\ TableInv(hashtab'[u], memid'[u], registermemid'[u], mem_freelist'[u],
                  reg_freelist'[u])
  BY <1>2, SameTables
<1>9. id \in SegIds \cup {NoSegid}
  BY <1>1, <1>5, SMTT(60) DEF RestTypes
<1> HIDE DEF id, c
<1>10. RestTypes'
  <2>1. "winfree" \in Places
    BY DEF Places
  <2> QED
    BY <1>1, <1>2, <1>9, <2>1 DEF RestTypes
<1>11. SegmentInv'
  <2>1. pc'[u] = "winfree" /\ cur'[u] = id /\ attached'[u] = attached[u] \ {x.selfbaseptr}
    BY <1>1, <1>2, <1>6 DEF RestTypes
  <2>2. \A v \in Units : v # u => /\ pc'[v] = pc[v] /\ cur'[v] = cur[v]
                                  /\ attached'[v] = attached[v]
    BY <1>1, <1>2 DEF RestTypes
  <2> QED
    BY <1>2, <1>7, <1>8, <2>1, <2>2, Frame
<1> QED
  BY <1>8, <1>10, <1>11, TypeJoin

(* MemfreeReturn and Memderegister: the segment goes, and the call is      *)
(* complete.                                                               *)
LEMMA ReleaseInv ==
  ASSUME TypeOK, SegmentInv, NEW u \in Units, done[u] < Len(script),
         script[done[u] + 1].kind \in {"free", "dereg"},
         NEW id, id = gptr[u][script[done[u] + 1].of], id # NoSegid,
         dart_segment_free(u, id), Finish(u, id), UNCHANGED <<script, cur, sub_mem, coll>>,
         Detach(u, id) \/ UNCHANGED attached
  PROVE  TypeOK' /\ SegmentInv'
<1> DEFINE c == script[done[u] + 1].of
<1>1. RestTypes
  BY TypeParts
<1>2. /\ SoundScript(script) /\ UnitType(script, u, done[u], pc[u], gptr[u])
      /\ UnitInv(script, u, done[u], pc[u], hashtab[u], cur[u], sub_mem[u], attached[u], gptr[u])
  BY InvParts
<1>3. c \in DOMAIN gptr[u] /\ id \in SegIds \cup {NoSegid}
  <2>1. c \in DOMAIN gptr[u]
    BY <1>2, ReleasedIsOwned
  <2> QED
    BY <1>1, <2>1, SMTT(60) DEF RestTypes
<1>4. PICK x \in Segments(hashtab[u]) :
         x.segid = id /\ get_segment(hashtab[u], id) = x /\ x.selfbaseptr \in {NULL, Address(u, c)}
  BY ReleasedSegment
<1>5. /\ SegTypes' /\ OtherTables(u)
      /\ Segments(hashtab'[u]) = Segments(hashtab[u]) \ {x}
      /\ TableInv(hashtab'[u], memid'[u], registermemid'[u], mem_freelist'[u],
                  reg_freelist'[u])
  BY <1>4, FreeSegment
<1>6. /\ done' \in [Units -> Nat] /\ pc' \in [Units -> Places]
      /\ gptr' \in [Units -> Seq(SegIds \cup {NoSegid})]
      /\ \A v \in Units : done'[v] <= Len(script') /\ Len(gptr'[v]) = done'[v]
      /\ done'[u] = done[u] + 1 /\ pc'[u] = "idle" /\ gptr'[u] = Append(gptr[u], id)
      /\ \A v \in Units : v # u => done'[v] = done[v] /\ pc'[v] = pc[v] /\ gptr'[v] = gptr[v]
  BY <1>1, <1>3, FinishTypes
<1>7. /\ attached' \in [Units -> SUBSET Addresses]
      /\ attached'[u] = attached[u] \/ attached'[u] = attached[u] \ {x.selfbaseptr}
      /\ \A v \in Units : v # u => attached'[v] = attached[v]
  <2>1. attached \in [Units -> SUBSET Addresses]
    BY <1>1 DEF RestTypes
  <2>2. CASE UNCHANGED attached
    BY <2>1, <2>2
  <2>3. CASE Detach(u, id)
    <3>1. attached' = [attached EXCEPT ![u] = @ \ {x.selfbaseptr}]
      BY <1>4, <2>3 DEF Detach
    <3> QED
      BY <2>1, <3>1
  <2> QED
    BY <2>2, <2>3
<1>8. UnitInv(script, u, done[u] + 1, "idle", hashtab'[u], cur[u], sub_mem[u], attached'[u],
              Append(gptr[u], id))
  <2> DEFINE y == x.selfbaseptr
             a == attached'[u]
             at == attached[u]
             t == hashtab'[u]
  <2>1. at \ {y} \subseteq a /\ y \in {NULL, Address(u, script[done[u] + 1].of)}
    BY <1>4, <1>7
  <2>2. Segments(t) = Segments(hashtab[u]) \ {x} /\ x.segid = gptr[u][script[done[u] + 1].of]
    BY <1>4, <1>5
  <2> HIDE DEF y, a, t, at
  <2>3. UnitInv(script, u, done[u], pc[u], hashtab[u], cur[u], sub_mem[u], at, gptr[u])
    BY <1>2 DEF at
  <2>4. UnitInv(script, u, done[u] + 1, "idle", t, cur[u], sub_mem[u], a,
                Append(gptr[u], gptr[u][script[done[u] + 1].of]))
    BY <1>2, <2>1, <2>2, <2>3, UnitReleases, ZenonT(60)
  <2> QED
    BY <2>4 DEF a, t
<1>9. RestTypes'
  BY <1>1, <1>6, <1>7 DEF RestTypes
<1>10. SegmentInv'
  BY <1>5, <1>6, <1>7, <1>8, Frame
<1> QED
  BY <1>5, <1>9, <1>10, TypeJoin

(* Every step keeps the types and the invariant.                           *)
LEMMA NextInv ==
  ASSUME TypeOK, SegmentInv, [Next]_vars
  PROVE  TypeOK' /\ SegmentInv'
<1>1. CASE UNCHANGED vars
  <2>1. UNCHANGED <<script, done, pc, segdata, cur, sub_mem, coll, attached, gptr>>
    BY <1>1 DEF vars
  <2>2. UNCHANGED <<memid, registermemid, mem_freelist, reg_freelist, hashtab>>
    BY <2>1 DEF segdata
  <2>3. TypeOK'
    BY <2>1, <2>2 DEF TypeOK
  <2>4. SoundScript(script)' /\ \A u \in Units :
            /\ TableInv(hashtab[u], memid[u], registermemid[u], mem_freelist[u], reg_freelist[u])'
            /\ UnitInv(script, u, done[u], pc[u], hashtab[u], cur[u], sub_mem[u], attached[u],
                       gptr[u])'
    BY <2>1, <2>2, InvParts, UnitsAssumption
  <2> QED
    BY <2>3, <2>4, InvJoin
<1>2. ASSUME NEW u \in Units, Program(u) \/ Run(u) PROVE TypeOK' /\ SegmentInv'
  <2>1. CASE Program(u)
    BY <2>1, ProgramInv
  <2>2. CASE MemallocBegin(u)
    BY <2>2, MemallocBeginInv
  <2>3. CASE MemallocNull(u) \/ MemallocCrash(u)
    BY <2>3, MemallocStopsInv
  <2>4. CASE MemallocAttach(u)
    BY <2>4, MemallocAttachInv
  <2>5. CASE GatherReturn(u)
    BY <2>5, GatherReturnInv
  <2>6. CASE MemregisterBegin(u)
    BY <2>6, MemregisterBeginInv
  <2>7. CASE MemregisterNull(u)
    BY <2>7, SkipInv DEF MemregisterNull
  <2>8. CASE MemfreeBegin(u)
    BY <2>8, MemfreeBeginInv
  <2>9. CASE MemfreeReturn(u)
    <3>1. /\ pc[u] = "winfree" /\ dart_segment_free(u, cur[u]) /\ Finish(u, cur[u])
          /\ UNCHANGED <<script, cur, sub_mem, coll, attached>>
      BY <2>9 DEF MemfreeReturn
    <3>2. /\ SoundScript(script) /\ UnitType(script, u, done[u], pc[u], gptr[u])
          /\ UnitInv(script, u, done[u], pc[u], hashtab[u], cur[u], sub_mem[u], attached[u],
                     gptr[u])
      BY InvParts
    <3>3. /\ done[u] < Len(script) /\ script[done[u] + 1].kind = "free"
          /\ cur[u] = gptr[u][script[done[u] + 1].of]
      BY <3>1, <3>2 DEF UnitInv, CurrentIn
    <3>4. cur[u] # NoSegid
      BY <3>2, <3>3, ReleasedIsOwned
    <3> QED
      BY <3>1, <3>3, <3>4, ReleaseInv
  <2>10. CASE Memderegister(u)
    <3> DEFINE id == gptr[u][script[done[u] + 1].of]
    <3>1. /\ Calls(u, "dereg") /\ id # NoSegid /\ Detach(u, id)
          /\ dart_segment_free(u, id) /\ Finish(u, id)
          /\ UNCHANGED <<script, cur, sub_mem, coll>>
      BY <2>10 DEF Memderegister, Call
    <3>2. done[u] < Len(script) /\ script[done[u] + 1].kind = "dereg"
      BY <3>1, CallFacts
    <3> QED
      BY <3>1, <3>2, ReleaseInv
  <2>11. CASE MemderegisterNull(u)
    BY <2>11, SkipInv DEF MemderegisterNull
  <2> QED
    BY <1>2, <2>1, <2>2, <2>3, <2>4, <2>5, <2>6, <2>7, <2>8, <2>9, <2>10, <2>11 DEF Run
<1> QED
  BY <1>1, <1>2 DEF Next

-----------------------------------------------------------------------------
(* The theorems                                                            *)

(* The inductive invariant.                                                *)
LEMMA SegmentsInvariant == Spec => [](TypeOK /\ SegmentInv)
<1>1. TypeOK /\ SegmentInv /\ [Next]_vars => (TypeOK /\ SegmentInv)'
  BY NextInv
<1> QED
  BY InitInv, <1>1, PTL DEF Spec

(* The variables of dart_globmem.c and dart_segment.c keep their types,    *)
(* the ID counters included, for any number of units, calls and IDs.       *)
THEOREM SegmentsTypeInvariant == Spec => []TypeOK
BY SegmentsInvariant, PTL

(* Looking up the ID of a live call finds the segment that call filled in. *)
LEMMA LiveIsFound ==
  ASSUME TypeOK, SegmentInv, NEW u \in Units, NEW c \in DOMAIN gptr[u], Live(u, c)
  PROVE  \E e \in Elems :
            /\ get_segment(hashtab[u], gptr[u][c]) = e
            /\ e.disp = [v \in Units |-> Displacement(v, c)]
            /\ Reachable(u, c)
<1>1. /\ TableType(hashtab[u], memid[u], registermemid[u], mem_freelist[u], reg_freelist[u])
      /\ TableInv(hashtab[u], memid[u], registermemid[u], mem_freelist[u], reg_freelist[u])
      /\ UnitType(script, u, done[u], pc[u], gptr[u])
      /\ UnitInv(script, u, done[u], pc[u], hashtab[u], cur[u], sub_mem[u], attached[u], gptr[u])
  BY InvParts
<1>2. LiveIn(script, done[u], pc[u], gptr[u], c)
  BY DEF Live, LiveIn, Releases, Rel
<1>3. OwnsIn(script, done[u], gptr[u], c)
  BY <1>1, <1>2, LiveIsOwned
<1>4. PICK e \in Segments(hashtab[u]) : e.segid = gptr[u][c] /\ e.disp = Row(script, c)
  BY <1>1, <1>3 DEF UnitInv, OwnedIn, HoldsIn
<1>5. e \in Elems /\ get_segment(hashtab[u], gptr[u][c]) = e
  BY <1>1, <1>4, GetFinds DEF TableType, TableInv
<1>6. Row(script, c) = [v \in Units |-> Displacement(v, c)]
  BY DEF Row, Disp, Displacement
<1>7. Reachable(u, c)
  BY DEF SegmentInv, LiveIsAttached
<1> QED
  BY <1>4, <1>5, <1>6, <1>7

(* dart_segment_get_disp and its kind, given the ID that a call which is   *)
(* not released yet has returned, find the displacements this call has     *)
(* gathered: never another segment's and never what the segment was filled *)
(* with when it was last used, however often IDs are reused.               *)
THEOREM LiveSegmentsAreFound == Spec => []LiveSegmentIsFound
<1>1. TypeOK /\ SegmentInv => LiveSegmentIsFound
  <2> SUFFICES ASSUME TypeOK, SegmentInv, NEW u \in Units, NEW c \in DOMAIN gptr[u], Live(u, c)
               PROVE  /\ get_segment(hashtab[u], gptr[u][c]) # NULL
                      /\ get_segment(hashtab[u], gptr[u][c]).disp =
                            [v \in Units |-> Displacement(v, c)]
    BY DEF LiveSegmentIsFound
  <2>1. PICK e \in Elems : /\ get_segment(hashtab[u], gptr[u][c]) = e
                           /\ e.disp = [v \in Units |-> Displacement(v, c)]
    BY LiveIsFound
  <2>2. e # NULL
    <3>1. DOMAIN e = {"segid", "selfbaseptr", "size", "disp"}
      BY DEF Elems
    <3>2. DOMAIN NULL = {}
      BY DEF NULL
    <3> QED
      BY <3>1, <3>2
  <2> QED
    BY <2>1, <2>2
<1> QED
  BY SegmentsInvariant, <1>1, PTL

(* The displacement with which one unit reaches another's part of an       *)
(* allocation that is live on both is of memory still attached there.      *)
THEOREM RemoteAccessesAreAttached == Spec => []RemoteAccessIsAttached
<1>1. TypeOK /\ SegmentInv => RemoteAccessIsAttached
  <2> SUFFICES ASSUME TypeOK, SegmentInv, NEW u \in Units, NEW v \in Units,
                      NEW c \in DOMAIN gptr[u] \cap DOMAIN gptr[v], Live(u, c), Live(v, c)
               PROVE  \/ get_segment(hashtab[u], gptr[u][c]).disp[v] = NULL
                      \/ get_segment(hashtab[u], gptr[u][c]).disp[v] \in attached[v]
    BY DEF RemoteAccessIsAttached
  <2>1. PICK e \in Elems : /\ get_segment(hashtab[u], gptr[u][c]) = e
                           /\ e.disp = [w \in Units |-> Displacement(w, c)]
    BY LiveIsFound
  <2>2. Reachable(v, c)
    BY LiveIsFound
  <2>3. e.disp[v] = Displacement(v, c)
    BY <2>1
  <2> QED
    BY <2>1, <2>2, <2>3 DEF Reachable
<1> QED
  BY SegmentsInvariant, <1>1, PTL

-----------------------------------------------------------------------------
(* The units' IDs agree                                                    *)
(*                                                                         *)
(* A unit's counters and the IDs on its free lists are its ledger.  What a *)
(* call returns and the ledger it leaves depend on the ledger before it,   *)
(* the call and what earlier calls returned, and on nothing that differs   *)
(* between units: h[k] is the ledger after k calls of the script and       *)
(* ids[k] what call k returns.                                             *)

IdList(free) == [i \in DOMAIN free |-> free[i].segid]

LedgerOf(m, r, mf, rf) == [m |-> m, r |-> r, mf |-> IdList(mf), rf |-> IdList(rf)]

NextId(L, call, ids) ==
    IF call.kind = "alloc" THEN IF L.mf # <<>> THEN L.mf[1] ELSE L.m
    ELSE IF call.kind = "register"
         THEN IF L.rf # <<>> THEN L.rf[1] ELSE IF L.r # -MaxSegId - 1 THEN L.r ELSE NoSegid
         ELSE ids[call.of]

NextLedger(L, call, id) ==
    IF call.kind = "alloc"
    THEN IF L.mf # <<>> THEN [m |-> L.m, r |-> L.r, mf |-> Tail(L.mf), rf |-> L.rf]
         ELSE [m |-> L.m + 1, r |-> L.r, mf |-> L.mf, rf |-> L.rf]
    ELSE IF call.kind = "register"
    THEN IF L.rf # <<>> THEN [m |-> L.m, r |-> L.r, mf |-> L.mf, rf |-> Tail(L.rf)]
         ELSE IF L.r # -MaxSegId - 1
              THEN [m |-> L.m, r |-> L.r - 1, mf |-> L.mf, rf |-> L.rf]
              ELSE L
    ELSE IF id = NoSegid THEN L
         ELSE [m |-> L.m, r |-> L.r,
               mf |-> IF id > 0 THEN <<id>> \o L.mf ELSE L.mf,
               rf |-> IF id < 0 THEN <<id>> \o L.rf ELSE L.rf]

History(sc, h, ids) ==
    /\ h[0] = LedgerOf(1, -1, <<>>, <<>>)
    /\ \A k \in DOMAIN sc :
         /\ ids[k] = NextId(h[k - 1], sc[k], ids)
         /\ h[k] = NextLedger(h[k - 1], sc[k], ids[k])

(* How far a unit's own ledger is.                                         *)
Match(h, ids, dn, p, m, r, mf, rf, cu, g) ==
    /\ \A c \in DOMAIN g : g[c] = ids[c]
    /\ p \in {"shared", "gather"} => cu = ids[dn + 1] /\ LedgerOf(m, r, mf, rf) = h[dn + 1]
    /\ p \notin {"shared", "gather"} => LedgerOf(m, r, mf, rf) = h[dn]

Follows(h, ids, u) ==
    Match(h, ids, done[u], pc[u], memid[u], registermemid[u], mem_freelist[u], reg_freelist[u],
          cur[u], gptr[u])

LedgersAgree == \E h, ids : History(script, h, ids) /\ \A u \in Units : Follows(h, ids, u)

(* Sequences are equal when their elements are.                            *)
LEMMA SameSequence ==
  ASSUME NEW S, NEW a \in Seq(S), NEW b \in Seq(S), Len(a) = Len(b),
         \A i \in 1 .. Len(a) : a[i] = b[i]
  PROVE  a = b
OBVIOUS

(* The IDs of a free list.                                                 *)
LEMMA IdListIs ==
  ASSUME NEW f \in Seq(Elems)
  PROVE  /\ IdList(f) \in Seq(Int) /\ Len(IdList(f)) = Len(f) /\ DOMAIN IdList(f) = DOMAIN f
         /\ \A i \in DOMAIN f : IdList(f)[i] = f[i].segid
<1>0. \A i \in DOMAIN f : f[i] \in Elems
  OBVIOUS
<1>1. \A i \in DOMAIN f : f[i].segid \in Int
  BY <1>0 DEF Elems
<1>2. DOMAIN f = 1 .. Len(f) /\ Len(f) \in Nat
  OBVIOUS
<1> QED
  BY <1>1, <1>2 DEF IdList

(* Taking the head of a free list takes the head of its IDs.               *)
LEMMA IdListHead ==
  ASSUME NEW f \in Seq(Elems), f # <<>>
  PROVE  IdList(f) # <<>> /\ IdList(f)[1] = Head(f).segid /\ IdList(Tail(f)) = Tail(IdList(f))
<1>1. /\ IdList(f) \in Seq(Int) /\ Len(IdList(f)) = Len(f)
      /\ \A i \in DOMAIN f : IdList(f)[i] = f[i].segid
  BY IdListIs
<1>2. 1 \in DOMAIN f /\ Head(f) = f[1] /\ Len(f) \in Nat /\ Len(f) # 0
  OBVIOUS
<1>3. /\ Tail(f) \in Seq(Elems) /\ Len(Tail(f)) = Len(f) - 1
      /\ \A i \in 1 .. (Len(f) - 1) : Tail(f)[i] = f[i + 1] /\ i + 1 \in DOMAIN f
  OBVIOUS
<1>4. IdList(f) # <<>>
  BY <1>1, <1>2
<1>5. /\ IdList(Tail(f)) \in Seq(Int) /\ Len(IdList(Tail(f))) = Len(f) - 1
      /\ \A i \in 1 .. (Len(f) - 1) : IdList(Tail(f))[i] = f[i + 1].segid
  <2>1. /\ IdList(Tail(f)) \in Seq(Int) /\ Len(IdList(Tail(f))) = Len(Tail(f))
        /\ \A i \in DOMAIN Tail(f) : IdList(Tail(f))[i] = Tail(f)[i].segid
    BY <1>3, IdListIs
  <2>2. DOMAIN Tail(f) = 1 .. (Len(f) - 1)
    BY <1>3
  <2> QED
    BY <1>3, <2>1, <2>2
<1> DEFINE a == IdList(f)
           b == IdList(Tail(f))
           d == Tail(a)
<1>6. a \in Seq(Int) /\ a # <<>> /\ Len(a) = Len(f)
  BY <1>1, <1>4
<1> HIDE DEF a, b
<1>7. /\ d \in Seq(Int) /\ Len(d) = Len(f) - 1
      /\ \A i \in 1 .. (Len(f) - 1) : d[i] = a[i + 1]
  BY <1>6
<1> HIDE DEF d
<1>8. \A i \in 1 .. (Len(f) - 1) : d[i] = b[i]
  BY <1>1, <1>3, <1>5, <1>7 DEF a, b
<1>9. b = d
  <2>1. b \in Seq(Int) /\ d \in Seq(Int) /\ Len(b) = Len(d) /\ \A i \in 1 .. Len(b) : b[i] = d[i]
    BY <1>5, <1>7, <1>8 DEF b
  <2> QED
    BY <2>1, SameSequence
<1> QED
  BY <1>1, <1>2, <1>4, <1>9 DEF a, b, d

(* Putting a segment on a free list puts its ID there.                     *)
LEMMA IdListCons ==
  ASSUME NEW f \in Seq(Elems), NEW x \in Elems
  PROVE  IdList(<<x>> \o f) = <<x.segid>> \o IdList(f)
<1> DEFINE g == <<x>> \o f
           a == IdList(f)
           b == IdList(g)
           d == <<x.segid>> \o a
<1>0. x.segid \in Int /\ Len(f) \in Nat
  BY DEF Elems
<1>1. /\ a \in Seq(Int) /\ Len(a) = Len(f) /\ \A i \in DOMAIN f : a[i] = f[i].segid
  BY IdListIs
<1>2. /\ g \in Seq(Elems) /\ Len(g) = Len(f) + 1 /\ g[1] = x /\ DOMAIN g = 1 .. (Len(f) + 1)
      /\ \A i \in 1 .. (Len(f) + 1) : i # 1 => g[i] = f[i - 1] /\ i - 1 \in DOMAIN f
  OBVIOUS
<1> HIDE DEF g, a
<1>3. /\ b \in Seq(Int) /\ Len(b) = Len(f) + 1
      /\ \A i \in 1 .. (Len(f) + 1) : b[i] = g[i].segid
  BY <1>2, IdListIs
<1>4. /\ d \in Seq(Int) /\ Len(d) = Len(f) + 1 /\ d[1] = x.segid
      /\ \A i \in 1 .. (Len(f) + 1) : i # 1 => d[i] = a[i - 1]
  BY <1>0, <1>1
<1> HIDE DEF b, d
<1>5. \A i \in 1 .. (Len(f) + 1) : b[i] = d[i]
  BY <1>1, <1>2, <1>3, <1>4
<1>6. b = d
  <2>1. Len(b) = Len(d) /\ \A i \in 1 .. Len(b) : b[i] = d[i]
    BY <1>3, <1>4, <1>5
  <2> QED
    BY <1>3, <1>4, <2>1, SameSequence
<1> QED
  BY <1>6 DEF a, b, d, g

(* An empty free list has no IDs.                                          *)
LEMMA IdListEmpty == IdList(<<>>) = <<>>
BY DEF IdList

(* A step of one unit leaves the others where they are in the history.     *)
LEMMA FollowFrame ==
  ASSUME NEW h, NEW ids, History(script, h, ids), \A v \in Units : Follows(h, ids, v),
         NEW u \in Units, UNCHANGED script, OtherTables(u),
         \A v \in Units : v # u => /\ done'[v] = done[v] /\ pc'[v] = pc[v] /\ cur'[v] = cur[v]
                                   /\ gptr'[v] = gptr[v],
         Match(h, ids, done'[u], pc'[u], memid'[u], registermemid'[u], mem_freelist'[u],
               reg_freelist'[u], cur'[u], gptr'[u])
  PROVE  LedgersAgree'
<1>1. ASSUME NEW v \in Units
      PROVE  Match(h, ids, done'[v], pc'[v], memid'[v], registermemid'[v], mem_freelist'[v],
                   reg_freelist'[v], cur'[v], gptr'[v])
  <2>1. CASE v = u
    BY <2>1
  <2>2. CASE v # u
    BY <2>2 DEF Follows, OtherTables
  <2> QED
    BY <2>1, <2>2
<1> QED
  BY <1>1 DEF LedgersAgree, Follows

(* The next step of the history, at a unit's place in it.                  *)
LEMMA NextStep ==
  ASSUME TypeOK, NEW u \in Units, NEW h, NEW ids, History(script, h, ids),
         done[u] < Len(script)
  PROVE  /\ ids[done[u] + 1] = NextId(h[done[u]], script[done[u] + 1], ids)
         /\ h[done[u] + 1] = NextLedger(h[done[u]], script[done[u] + 1], ids[done[u] + 1])
<1>1. done[u] \in Nat /\ Len(script) \in Nat /\ DOMAIN script = 1 .. Len(script)
  BY DEF TypeOK
<1>2. done[u] + 1 \in DOMAIN script /\ (done[u] + 1) - 1 = done[u]
  BY <1>1
<1> QED
  BY <1>2 DEF History

(* dart_segment_alloc takes the ledger's next ID for allocated memory, ... *)
LEMMA AllocMemLedger ==
  ASSUME TypeOK, NEW u \in Units, dart_segment_alloc_mem(u), NEW L,
         L = LedgerOf(memid[u], registermemid[u], mem_freelist[u], reg_freelist[u]),
         NEW call, call.kind = "alloc", NEW ids, NEW id
  PROVE  /\ cur'[u] = NextId(L, call, ids)
         /\ LedgerOf(memid'[u], registermemid'[u], mem_freelist'[u], reg_freelist'[u]) =
               NextLedger(L, call, id)
<1>1. /\ mem_freelist[u] \in Seq(Elems) /\ cur \in [Units -> SegIds \cup {NoSegid}]
      /\ mem_freelist \in [Units -> Seq(Elems)] /\ memid \in [Units -> 1 .. MaxSegId]
  BY DEF TypeOK
<1>2. /\ L.m = memid[u] /\ L.r = registermemid[u] /\ L.mf = IdList(mem_freelist[u])
      /\ L.rf = IdList(reg_freelist[u])
  BY DEF LedgerOf
<1>3. UNCHANGED <<registermemid, reg_freelist>>
  BY DEF dart_segment_alloc_mem
<1>4. CASE /\ mem_freelist[u] # <<>>
           /\ TakeSegment(u, Head(mem_freelist[u]))
           /\ mem_freelist' = [mem_freelist EXCEPT ![u] = Tail(@)]
           /\ UNCHANGED memid
  <2>1. /\ cur'[u] = Head(mem_freelist[u]).segid /\ mem_freelist'[u] = Tail(mem_freelist[u])
        /\ memid'[u] = memid[u]
    BY <1>1, <1>4 DEF TakeSegment
  <2>2. /\ L.mf # <<>> /\ L.mf[1] = Head(mem_freelist[u]).segid
        /\ IdList(Tail(mem_freelist[u])) = Tail(L.mf)
    BY <1>1, <1>2, <1>4, IdListHead
  <2>3. NextId(L, call, ids) = L.mf[1]
    BY <2>2 DEF NextId
  <2>4. NextLedger(L, call, id) = [m |-> L.m, r |-> L.r, mf |-> Tail(L.mf), rf |-> L.rf]
    BY <2>2 DEF NextLedger
  <2> QED
    BY <1>2, <1>3, <2>1, <2>2, <2>3, <2>4 DEF LedgerOf
<1>5. CASE /\ mem_freelist[u] = <<>>
           /\ memid[u] # MaxSegId
           /\ TakeSegment(u, FreshElem(memid[u]))
           /\ memid' = [memid EXCEPT ![u] = @ + 1]
           /\ UNCHANGED mem_freelist
  <2>1. cur'[u] = memid[u] /\ memid'[u] = memid[u] + 1 /\ mem_freelist'[u] = mem_freelist[u]
    BY <1>1, <1>5 DEF TakeSegment, FreshElem
  <2>2. L.mf = <<>>
    BY <1>2, <1>5, IdListEmpty
  <2>3. NextId(L, call, ids) = L.m
    BY <2>2 DEF NextId
  <2>4. NextLedger(L, call, id) = [m |-> L.m + 1, r |-> L.r, mf |-> L.mf, rf |-> L.rf]
    BY <2>2 DEF NextLedger
  <2> QED
    BY <1>2, <1>3, <2>1, <2>3, <2>4 DEF LedgerOf
<1> QED
  BY <1>4, <1>5 DEF dart_segment_alloc_mem

(* ... or for registered memory.                                           *)
LEMMA AllocRegLedger ==
  ASSUME TypeOK, NEW u \in Units, dart_segment_alloc_reg(u), NEW L,
         L = LedgerOf(memid[u], registermemid[u], mem_freelist[u], reg_freelist[u]),
         NEW call, call.kind = "register", NEW ids, NEW id
  PROVE  /\ cur'[u] = NextId(L, call, ids)
         /\ LedgerOf(memid'[u], registermemid'[u], mem_freelist'[u], reg_freelist'[u]) =
               NextLedger(L, call, id)
<1>1. /\ reg_freelist[u] \in Seq(Elems) /\ cur \in [Units -> SegIds \cup {NoSegid}]
      /\ reg_freelist \in [Units -> Seq(Elems)]
      /\ registermemid \in [Units -> (-MaxSegId - 1) .. -1]
  BY DEF TypeOK
<1>2. /\ L.m = memid[u] /\ L.r = registermemid[u] /\ L.mf = IdList(mem_freelist[u])
      /\ L.rf = IdList(reg_freelist[u])
  BY DEF LedgerOf
<1>3. UNCHANGED <<memid, mem_freelist>>
  BY DEF dart_segment_alloc_reg
<1>4. CASE /\ reg_freelist[u] # <<>>
           /\ TakeSegment(u, Head(reg_freelist[u]))
           /\ reg_freelist' = [reg_freelist EXCEPT ![u] = Tail(@)]
           /\ UNCHANGED registermemid
  <2>1. /\ cur'[u] = Head(reg_freelist[u]).segid /\ reg_freelist'[u] = Tail(reg_freelist[u])
        /\ registermemid'[u] = registermemid[u]
    BY <1>1, <1>4 DEF TakeSegment
  <2>2. /\ L.rf # <<>> /\ L.rf[1] = Head(reg_freelist[u]).segid
        /\ IdList(Tail(reg_freelist[u])) = Tail(L.rf)
    BY <1>1, <1>2, <1>4, IdListHead
  <2>3. NextId(L, call, ids) = L.rf[1]
    BY <2>2 DEF NextId
  <2>4. NextLedger(L, call, id) = [m |-> L.m, r |-> L.r, mf |-> L.mf, rf |-> Tail(L.rf)]
    BY <2>2 DEF NextLedger
  <2> QED
    BY <1>2, <1>3, <2>1, <2>2, <2>3, <2>4 DEF LedgerOf
<1>5. CASE /\ reg_freelist[u] = <<>>
           /\ registermemid[u] # -MaxSegId - 1
           /\ TakeSegment(u, FreshElem(registermemid[u]))
           /\ registermemid' = [registermemid EXCEPT ![u] = @ - 1]
           /\ UNCHANGED reg_freelist
  <2>1. /\ cur'[u] = registermemid[u] /\ registermemid'[u] = registermemid[u] - 1
        /\ reg_freelist'[u] = reg_freelist[u]
    BY <1>1, <1>5 DEF TakeSegment, FreshElem
  <2>2. L.rf = <<>> /\ L.r # -MaxSegId - 1
    BY <1>2, <1>5, IdListEmpty
  <2>3. NextId(L, call, ids) = L.r
    BY <2>2 DEF NextId
  <2>4. NextLedger(L, call, id) = [m |-> L.m, r |-> L.r - 1, mf |-> L.mf, rf |-> L.rf]
    BY <2>2 DEF NextLedger
  <2> QED
    BY <1>2, <1>3, <2>1, <2>3, <2>4 DEF LedgerOf
<1> QED
  BY <1>4, <1>5 DEF dart_segment_alloc_reg

(* MemallocBegin and MemregisterBegin.                                     *)
LEMMA BeginAgrees ==
  ASSUME TypeOK, SegmentInv, LedgersAgree, NEW u \in Units,
         MemallocBegin(u) \/ MemregisterBegin(u)
  PROVE  LedgersAgree'
<1>1. PICK h, ids : History(script, h, ids) /\ \A v \in Units : Follows(h, ids, v)
  BY DEF LedgersAgree
<1> DEFINE n == done[u] + 1
           L == LedgerOf(memid[u], registermemid[u], mem_freelist[u], reg_freelist[u])
           M == LedgerOf(memid'[u], registermemid'[u], mem_freelist'[u], reg_freelist'[u])
<1>2. /\ UNCHANGED <<script, done, gptr>> /\ done[u] < Len(script) /\ pc[u] = "idle"
      /\ pc'[u] \in {"shared", "gather"} /\ \A v \in Units : v # u => pc'[v] = pc[v]
  BY CallFacts DEF MemallocBegin, MemregisterBegin, Enter, TypeOK
<1>3. L = h[done[u]] /\ \A c \in DOMAIN gptr[u] : gptr[u][c] = ids[c]
  BY <1>1, <1>2 DEF Follows, Match
<1>4. /\ ids[n] = NextId(L, script[n], ids) /\ h[n] = NextLedger(L, script[n], ids[n])
  BY <1>1, <1>2, <1>3, NextStep
<1> HIDE DEF L, M, n
<1>5. /\ OtherTables(u) /\ cur'[u] = NextId(L, script[n], ids) /\ M = NextLedger(L, script[n], ids[n])
      /\ \A v \in Units : v # u => cur'[v] = cur[v]
  <2>1. CASE MemallocBegin(u)
    <3>1. dart_segment_alloc_mem(u) /\ Calls(u, "alloc")
      BY <2>1 DEF MemallocBegin
    <3>2. script[n].kind = "alloc"
      BY <3>1, CallFacts DEF n
    <3>3. PICK e : OtherTables(u) /\ cur' = [cur EXCEPT ![u] = e.segid]
      BY <3>1, AllocMem
    <3>4. cur'[u] = NextId(L, script[n], ids) /\ M = NextLedger(L, script[n], ids[n])
      BY <3>1, <3>2, AllocMemLedger DEF L, M
    <3> QED
      BY <3>3, <3>4 DEF TypeOK
  <2>2. CASE MemregisterBegin(u)
    <3>1. dart_segment_alloc_reg(u) /\ Calls(u, "register")
      BY <2>2 DEF MemregisterBegin
    <3>2. script[n].kind = "register"
      BY <3>1, CallFacts DEF n
    <3>3. PICK e : OtherTables(u) /\ cur' = [cur EXCEPT ![u] = e.segid]
      BY <3>1, AllocReg
    <3>4. cur'[u] = NextId(L, script[n], ids) /\ M = NextLedger(L, script[n], ids[n])
      BY <3>1, <3>2, AllocRegLedger DEF L, M
    <3> QED
      BY <3>3, <3>4 DEF TypeOK
  <2> QED
    BY <2>1, <2>2
<1>6. Match(h, ids, done'[u], pc'[u], memid'[u], registermemid'[u], mem_freelist'[u],
            reg_freelist'[u], cur'[u], gptr'[u])
  BY <1>2, <1>3, <1>4, <1>5 DEF Match, M, n
<1> QED
  BY <1>1, <1>2, <1>5, <1>6, FollowFrame

(* A call is complete when its ledger is the unit's.                       *)
LEMMA CompletionAgrees ==
  ASSUME TypeOK, SegmentInv, NEW u \in Units, NEW h, NEW ids, History(script, h, ids),
         \A v \in Units : Follows(h, ids, v),
         UNCHANGED <<script, cur>>, OtherTables(u), done[u] < Len(script),
         NEW id \in SegIds \cup {NoSegid}, Finish(u, id), id = ids[done[u] + 1],
         LedgerOf(memid'[u], registermemid'[u], mem_freelist'[u], reg_freelist'[u]) =
            h[done[u] + 1]
  PROVE  LedgersAgree'
<1>1. RestTypes
  BY TypeParts
<1>2. /\ done'[u] = done[u] + 1 /\ pc'[u] = "idle" /\ gptr'[u] = Append(gptr[u], id)
      /\ \A v \in Units : v # u => done'[v] = done[v] /\ pc'[v] = pc[v] /\ gptr'[v] = gptr[v]
  BY <1>1, FinishTypes
<1>3. \A c \in DOMAIN gptr[u] : gptr[u][c] = ids[c]
  BY DEF Follows, Match
<1>4. ASSUME NEW c \in DOMAIN gptr'[u] PROVE gptr'[u][c] = ids[c]
  <2> DEFINE g == gptr[u]
  <2>1. g \in Seq(SegIds \cup {NoSegid}) /\ Len(g) = done[u] /\ gptr'[u] = Append(g, id)
    BY <1>1, <1>2 DEF RestTypes
  <2>2. \A k \in DOMAIN g : g[k] = ids[k]
    BY <1>3
  <2> HIDE DEF g
  <2>3. CASE c = done[u] + 1
    BY <2>1, <2>3
  <2>4. CASE c # done[u] + 1
    <3>1. c \in DOMAIN g /\ gptr'[u][c] = g[c]
      BY <2>1, <2>4
    <3> QED
      BY <2>2, <3>1
  <2> QED
    BY <2>3, <2>4
<1>5. Match(h, ids, done'[u], pc'[u], memid'[u], registermemid'[u], mem_freelist'[u],
            reg_freelist'[u], cur'[u], gptr'[u])
  BY <1>2, <1>4 DEF Match
<1> QED
  BY <1>2, <1>5, FollowFrame

(* Steps inside a call that touch no table.                                *)
LEMMA InsideAgrees ==
  ASSUME TypeOK, LedgersAgree, NEW u \in Units,
         MemallocNull(u) \/ MemallocCrash(u) \/ MemallocAttach(u) \/ MemfreeBegin(u)
  PROVE  LedgersAgree'
<1>1. PICK h, ids : History(script, h, ids) /\ \A v \in Units : Follows(h, ids, v)
  BY DEF LedgersAgree
<1>2. UNCHANGED <<script, done, segdata, gptr>>
  BY DEF MemallocNull, MemallocCrash, MemallocAttach, MemfreeBegin
<1>3. UNCHANGED <<memid, registermemid, mem_freelist, reg_freelist, hashtab>>
  BY <1>2 DEF segdata
<1>4. /\ \A v \in Units : v # u => pc'[v] = pc[v] /\ cur'[v] = cur[v]
      /\ \/ pc[u] \notin {"shared", "gather"} /\ pc'[u] \notin {"shared", "gather"}
         \/ pc[u] = "shared" /\ pc'[u] = "gather" /\ cur'[u] = cur[u]
  <2>1. pc \in [Units -> Places] /\ cur \in [Units -> SegIds \cup {NoSegid}]
    BY DEF TypeOK
  <2>2. CASE MemallocNull(u)
    BY <2>1, <2>2 DEF MemallocNull, Enter, Calls
  <2>3. CASE MemallocCrash(u)
    BY <2>1, <2>3 DEF MemallocCrash
  <2>4. CASE MemallocAttach(u)
    BY <2>1, <2>4 DEF MemallocAttach, Enter
  <2>5. CASE MemfreeBegin(u)
    BY <2>1, <2>5 DEF MemfreeBegin, Enter, Calls
  <2> QED
    BY <2>2, <2>3, <2>4, <2>5
<1>5. OtherTables(u)
  BY <1>3 DEF OtherTables
<1>6. Match(h, ids, done[u], pc[u], memid[u], registermemid[u], mem_freelist[u],
            reg_freelist[u], cur[u], gptr[u])
  BY <1>1 DEF Follows
<1>7. Match(h, ids, done'[u], pc'[u], memid'[u], registermemid'[u], mem_freelist'[u],
            reg_freelist'[u], cur'[u], gptr'[u])
  BY <1>2, <1>3, <1>4, <1>6 DEF Match
<1> QED
  BY <1>1, <1>2, <1>4, <1>5, <1>7, FollowFrame

(* The gather completes a call whose ID is in the history.                 *)
LEMMA GatherReturnAgrees ==
  ASSUME TypeOK, SegmentInv, LedgersAgree, NEW u \in Units, GatherReturn(u)
  PROVE  LedgersAgree'
<1>1. PICK h, ids : History(script, h, ids) /\ \A v \in Units : Follows(h, ids, v)
  BY DEF LedgersAgree
<1>2. /\ UNCHANGED <<script, memid, registermemid, mem_freelist, reg_freelist, cur>>
      /\ Finish(u, cur[u]) /\ pc[u] = "gather"
      /\ \A v \in Units : v # u => hashtab'[v] = hashtab[v]
  BY DEF GatherReturn, TypeOK
<1>3. OtherTables(u)
  BY <1>2 DEF OtherTables
<1>4. /\ cur[u] = ids[done[u] + 1]
      /\ LedgerOf(memid[u], registermemid[u], mem_freelist[u], reg_freelist[u]) = h[done[u] + 1]
  BY <1>1, <1>2 DEF Follows, Match
<1>5. done[u] < Len(script) /\ cur[u] \in SegIds \cup {NoSegid}
  BY <1>2 DEF SegmentInv, CurrentIsOwn, TypeOK
<1> QED
  BY <1>1, <1>2, <1>3, <1>4, <1>5, CompletionAgrees

(* Running out of IDs is in the history too: all units do.                 *)
LEMMA MemregisterNullAgrees ==
  ASSUME TypeOK, SegmentInv, LedgersAgree, NEW u \in Units, MemregisterNull(u)
  PROVE  LedgersAgree'
<1>1. PICK h, ids : History(script, h, ids) /\ \A v \in Units : Follows(h, ids, v)
  BY DEF LedgersAgree
<1> DEFINE n == done[u] + 1
           L == LedgerOf(memid[u], registermemid[u], mem_freelist[u], reg_freelist[u])
<1>2. /\ Calls(u, "register") /\ reg_freelist[u] = <<>> /\ registermemid[u] = -MaxSegId - 1
      /\ Finish(u, NoSegid) /\ UNCHANGED <<script, segdata, cur>>
  BY DEF MemregisterNull, RegIdsExhausted
<1>3. UNCHANGED <<memid, registermemid, mem_freelist, reg_freelist, hashtab>>
  BY <1>2 DEF segdata
<1>4. pc[u] = "idle" /\ done[u] < Len(script) /\ script[n].kind = "register"
  BY <1>2, CallFacts
<1>5. L = h[done[u]]
  BY <1>1, <1>4 DEF Follows, Match
<1>6. /\ ids[n] = NextId(L, script[n], ids) /\ h[n] = NextLedger(L, script[n], ids[n])
  BY <1>1, <1>4, <1>5, NextStep
<1>7. L.rf = <<>> /\ L.r = -MaxSegId - 1
  BY <1>2, IdListEmpty DEF LedgerOf
<1> HIDE DEF L, n
<1>8. ids[n] = NoSegid /\ h[n] = L
  BY <1>4, <1>6, <1>7 DEF NextId, NextLedger
<1>9. OtherTables(u)
  BY <1>3 DEF OtherTables
<1>10. LedgerOf(memid'[u], registermemid'[u], mem_freelist'[u], reg_freelist'[u]) = h[n]
  BY <1>3, <1>8 DEF L
<1> QED
  BY <1>1, <1>2, <1>4, <1>8, <1>9, <1>10, CompletionAgrees DEF n

(* The ledger after the release of an ID.                                  *)
Released(L, id) ==
    IF id = NoSegid THEN L
    ELSE [m |-> L.m, r |-> L.r,
          mf |-> IF id > 0 THEN <<id>> \o L.mf ELSE L.mf,
          rf |-> IF id < 0 THEN <<id>> \o L.rf ELSE L.rf]

(* The ID that a call to release something returns.                        *)
LEMMA ReleaseStep ==
  ASSUME TypeOK, SegmentInv, NEW u \in Units, NEW h, NEW ids, History(script, h, ids),
         Follows(h, ids, u), done[u] < Len(script),
         script[done[u] + 1].kind \in {"free", "dereg"}, pc[u] \in {"idle", "winfree"},
         NEW id, id = gptr[u][script[done[u] + 1].of], NEW L,
         L = LedgerOf(memid[u], registermemid[u], mem_freelist[u], reg_freelist[u])
  PROVE  /\ id = ids[done[u] + 1] /\ id \in SegIds \cup {NoSegid}
         /\ h[done[u] + 1] = Released(L, id)
<1> DEFINE n == done[u] + 1
           c == script[n].of
<1>1. c \in DOMAIN gptr[u]
  BY InvParts, ReleasedIsOwned
<1>2. ids[n] = NextId(h[done[u]], script[n], ids) /\ h[n] = NextLedger(h[done[u]], script[n], ids[n])
  BY NextStep
<1>3. h[done[u]] = L /\ gptr[u][c] = ids[c]
  BY <1>1 DEF Follows, Match
<1>4. id \in SegIds \cup {NoSegid}
  <2>1. gptr[u] \in Seq(SegIds \cup {NoSegid})
    BY DEF TypeOK
  <2> QED
    BY <1>1, <2>1
<1> HIDE DEF n
<1>5. ids[n] = id
  BY <1>2, <1>3 DEF NextId, n
<1>6. h[n] = Released(L, id)
  <2>1. script[n].kind # "alloc" /\ script[n].kind # "register"
    BY DEF n
  <2> QED
    BY <1>2, <1>3, <1>5, <2>1 DEF NextLedger, Released
<1> QED
  BY <1>4, <1>5, <1>6 DEF n

(* What failed on one unit failed on all: nothing to release.              *)
LEMMA MemderegisterNullAgrees ==
  ASSUME TypeOK, SegmentInv, LedgersAgree, NEW u \in Units, MemderegisterNull(u)
  PROVE  LedgersAgree'
<1>1. PICK h, ids : History(script, h, ids) /\ \A v \in Units : Follows(h, ids, v)
  BY DEF LedgersAgree
<1> DEFINE L == LedgerOf(memid[u], registermemid[u], mem_freelist[u], reg_freelist[u])
<1>2. /\ Calls(u, "dereg") /\ gptr[u][script[done[u] + 1].of] = NoSegid
      /\ Finish(u, NoSegid) /\ UNCHANGED <<script, segdata, cur>>
  BY DEF MemderegisterNull, Call
<1>3. UNCHANGED <<memid, registermemid, mem_freelist, reg_freelist, hashtab>>
  BY <1>2 DEF segdata
<1>4. pc[u] = "idle" /\ done[u] < Len(script) /\ script[done[u] + 1].kind = "dereg"
  BY <1>2, CallFacts
<1> DEFINE id == gptr[u][script[done[u] + 1].of]
<1>5. NoSegid = ids[done[u] + 1] /\ h[done[u] + 1] = L
  <2>1. Follows(h, ids, u) /\ script[done[u] + 1].kind \in {"free", "dereg"}
        /\ pc[u] \in {"idle", "winfree"}
    BY <1>1, <1>4
  <2> HIDE DEF L
  <2>2. /\ id = ids[done[u] + 1]
        /\ h[done[u] + 1] = Released(L, id)
    BY <1>1, <1>4, <2>1, ReleaseStep DEF L
  <2> QED
    BY <1>2, <2>2 DEF Released
<1>6. OtherTables(u)
  BY <1>3 DEF OtherTables
<1>7. LedgerOf(memid'[u], registermemid'[u], mem_freelist'[u], reg_freelist'[u]) = h[done[u] + 1]
  BY <1>3, <1>5
<1> QED
  BY <1>1, <1>2, <1>4, <1>5, <1>6, <1>7, CompletionAgrees

(* MemfreeReturn and Memderegister.                                        *)
LEMMA ReleaseAgrees ==
  ASSUME TypeOK, SegmentInv, LedgersAgree, NEW u \in Units, done[u] < Len(script),
         script[done[u] + 1].kind \in {"free", "dereg"}, pc[u] \in {"idle", "winfree"},
         NEW id, id = gptr[u][script[done[u] + 1].of], id # NoSegid,
         dart_segment_free(u, id), Finish(u, id), UNCHANGED <<script, cur>>
  PROVE  LedgersAgree'
<1>1. PICK h, ids : History(script, h, ids) /\ \A v \in Units : Follows(h, ids, v)
  BY DEF LedgersAgree
<1> DEFINE L == LedgerOf(memid[u], registermemid[u], mem_freelist[u], reg_freelist[u])
<1>2. /\ id = ids[done[u] + 1] /\ id \in SegIds \cup {NoSegid}
      /\ h[done[u] + 1] = [m |-> L.m, r |-> L.r,
                           mf |-> IF id > 0 THEN <<id>> \o L.mf ELSE L.mf,
                           rf |-> IF id < 0 THEN <<id>> \o L.rf ELSE L.rf]
  <2> HIDE DEF L
  <2>1. Follows(h, ids, u)
    BY <1>1
  <2>2. /\ id = ids[done[u] + 1] /\ id \in SegIds \cup {NoSegid}
        /\ h[done[u] + 1] = Released(L, id)
    BY <1>1, <2>1, ReleaseStep, SMTT(60) DEF L
  <2> QED
    BY <2>2 DEF Released
<1>3. PICK x \in Segments(hashtab[u]) : x.segid = id
  BY ReleasedSegment
<1>4. /\ OtherTables(u) /\ x \in Elems /\ UNCHANGED <<memid, registermemid>>
      /\ mem_freelist'[u] = IF id > 0 THEN <<x>> \o mem_freelist[u] ELSE mem_freelist[u]
      /\ reg_freelist'[u] = IF id < 0 THEN <<x>> \o reg_freelist[u] ELSE reg_freelist[u]
  BY <1>3, FreeSegment
<1>5. mem_freelist[u] \in Seq(Elems) /\ reg_freelist[u] \in Seq(Elems)
  BY DEF TypeOK
<1>6. /\ L.m = memid[u] /\ L.r = registermemid[u] /\ L.mf = IdList(mem_freelist[u])
      /\ L.rf = IdList(reg_freelist[u])
  BY DEF LedgerOf
<1> HIDE DEF L
<1>7. IdList(mem_freelist'[u]) = IF id > 0 THEN <<id>> \o L.mf ELSE L.mf
  <2>1. IdList(<<x>> \o mem_freelist[u]) = <<id>> \o L.mf
    BY <1>3, <1>4, <1>5, <1>6, IdListCons
  <2> QED
    BY <1>4, <1>6, <2>1
<1>8. IdList(reg_freelist'[u]) = IF id < 0 THEN <<id>> \o L.rf ELSE L.rf
  <2>1. IdList(<<x>> \o reg_freelist[u]) = <<id>> \o L.rf
    BY <1>3, <1>4, <1>5, <1>6, IdListCons
  <2> QED
    BY <1>4, <1>6, <2>1
<1>9. LedgerOf(memid'[u], registermemid'[u], mem_freelist'[u], reg_freelist'[u]) = h[done[u] + 1]
  BY <1>2, <1>4, <1>6, <1>7, <1>8 DEF LedgerOf
<1> QED
  BY <1>1, <1>2, <1>4, <1>9, CompletionAgrees

(* A new call extends the history.                                         *)
LEMMA ProgramAgrees ==
  ASSUME TypeOK, SegmentInv, LedgersAgree, NEW u \in Units, Program(u)
  PROVE  LedgersAgree'
<1>1. PICK h, ids : History(script, h, ids) /\ \A v \in Units : Follows(h, ids, v)
  BY DEF LedgersAgree
<1>2. PICK call \in NewCalls : script' = Append(script, call)
  BY DEF Program
<1>3. UNCHANGED <<done, pc, memid, registermemid, mem_freelist, reg_freelist, cur, gptr>>
  BY DEF Program, segdata
<1>4. /\ call \in CallType
      /\ \/ call.of = 0 /\ call.kind \in {"alloc", "register"}
         \/ call.of \in DOMAIN script
  BY NewCallTypes
<1> DEFINE n == Len(script) + 1
           id == NextId(h[n - 1], call, ids)
           H == [k \in 0 .. n |-> IF k = n THEN NextLedger(h[n - 1], call, id) ELSE h[k]]
           I == [k \in 1 .. n |-> IF k = n THEN id ELSE ids[k]]
<1>5. /\ script \in Seq(CallType) /\ Len(script) \in Nat /\ DOMAIN script = 1 .. Len(script)
      /\ DOMAIN script' = 1 .. n /\ script'[n] = call
      /\ \A k \in DOMAIN script : script'[k] = script[k]
      /\ \A k \in DOMAIN script' : k = n \/ k \in DOMAIN script
  <2>1. script \in Seq(CallType)
    BY DEF TypeOK, CallType
  <2> QED
    BY <1>2, <1>4, <2>1
<1>6. /\ H[0] = h[0] /\ \A k \in DOMAIN script : H[k] = h[k] /\ H[k - 1] = h[k - 1] /\ I[k] = ids[k]
      /\ H[n] = NextLedger(h[n - 1], call, id) /\ H[n - 1] = h[n - 1] /\ I[n] = id
  <2>0. n \in Nat /\ n # 0 /\ n \in 0 .. n /\ n \in 1 .. n /\ n - 1 \in 0 .. n /\ n - 1 # n
    <3>1. Len(script) \in Nat
      BY <1>5
    <3> QED
      BY <3>1
  <2>1. \A k \in DOMAIN script : /\ k \in 0 .. n /\ k \in 1 .. n /\ k # n
                                 /\ k - 1 \in 0 .. n /\ k - 1 # n
    BY <1>5
  <2> HIDE DEF id, n
  <2>2. H[n] = NextLedger(h[n - 1], call, id) /\ \A k \in 0 .. n : k # n => H[k] = h[k]
    BY <2>0
  <2>3. I[n] = id /\ \A k \in 1 .. n : k # n => I[k] = ids[k]
    BY <2>0
  <2> HIDE DEF H, I
  <2> QED
    BY <2>0, <2>1, <2>2, <2>3
<1> HIDE DEF n, id, H, I
<1>7. ASSUME NEW L, NEW c, c.kind \in {"alloc", "register"} \/ c.of \in DOMAIN script
      PROVE  NextId(L, c, I) = NextId(L, c, ids)
  BY <1>6, <1>7 DEF NextId
<1>8. ASSUME NEW k \in DOMAIN script
      PROVE  script[k].kind \in {"alloc", "register"} \/ script[k].of \in DOMAIN script
  <2>1. SoundScript(script)
    BY InvParts
  <2>2. script[k] \in CallType /\ k \in 1 .. Len(script)
    BY <1>5
  <2>3. script[k].of \in Nat
    BY <2>2 DEF CallType
  <2>4. script[k].of = 0 => script[k].kind \in {"alloc", "register"}
    BY <2>1 DEF SoundScript
  <2>5. script[k].of # 0 => script[k].of < k
    BY <2>1 DEF SoundScript
  <2> QED
    BY <1>5, <2>2, <2>3, <2>4, <2>5
<1>9. ASSUME NEW k \in DOMAIN script'
      PROVE  I[k] = NextId(H[k - 1], script'[k], I) /\ H[k] = NextLedger(H[k - 1], script'[k], I[k])
  <2>1. CASE k = n
    <3>1. NextId(h[n - 1], call, I) = id
      BY <1>4, <1>7 DEF id
    <3> QED
      BY <1>5, <1>6, <2>1, <3>1
  <2>2. CASE k \in DOMAIN script
    <3>1. NextId(h[k - 1], script[k], I) = NextId(h[k - 1], script[k], ids)
      BY <1>7, <1>8, <2>2
    <3>2. ids[k] = NextId(h[k - 1], script[k], ids) /\ h[k] = NextLedger(h[k - 1], script[k], ids[k])
      BY <1>1, <2>2 DEF History
    <3> QED
      BY <1>5, <1>6, <2>2, <3>1, <3>2
  <2> QED
    BY <1>5, <2>1, <2>2
<1>10. History(script', H, I)
  <2>1. h[0] = LedgerOf(1, -1, <<>>, <<>>)
    BY <1>1 DEF History
  <2> QED
    BY <1>6, <1>9, <2>1 DEF History
<1>11. ASSUME NEW v \in Units
       PROVE  Match(H, I, done[v], pc[v], memid[v], registermemid[v], mem_freelist[v],
                    reg_freelist[v], cur[v], gptr[v])
  <2>1. Match(h, ids, done[v], pc[v], memid[v], registermemid[v], mem_freelist[v],
              reg_freelist[v], cur[v], gptr[v])
    BY <1>1 DEF Follows
  <2>2. done[v] \in Nat /\ done[v] <= Len(script) /\ DOMAIN gptr[v] = 1 .. done[v]
    <3>1. gptr[v] \in Seq(SegIds \cup {NoSegid}) /\ Len(gptr[v]) = done[v]
      BY DEF TypeOK
    <3> QED
      BY <3>1 DEF TypeOK
  <2>3. H[done[v]] = h[done[v]]
    <3>1. done[v] = 0 \/ done[v] \in DOMAIN script
      BY <1>5, <2>2
    <3> QED
      BY <1>6, <3>1
  <2>4. \A c \in DOMAIN gptr[v] : I[c] = ids[c]
    <3>1. DOMAIN gptr[v] \subseteq DOMAIN script
      BY <1>5, <2>2
    <3> QED
      BY <1>6, <3>1
  <2>5. pc[v] \in {"shared", "gather"} =>
           H[done[v] + 1] = h[done[v] + 1] /\ I[done[v] + 1] = ids[done[v] + 1]
    <3>1. pc[v] \in {"shared", "gather"} => done[v] < Len(script)
      BY DEF SegmentInv, CurrentIsOwn
    <3>2. done[v] < Len(script) => done[v] + 1 \in DOMAIN script
      BY <1>5, <2>2
    <3> QED
      BY <1>6, <3>1, <3>2
  <2> QED
    BY <2>1, <2>3, <2>4, <2>5 DEF Match
<1>12. \A v \in Units : Match(H, I, done'[v], pc'[v], memid'[v], registermemid'[v],
                              mem_freelist'[v], reg_freelist'[v], cur'[v], gptr'[v])
  BY <1>3, <1>11
<1> QED
  BY <1>10, <1>12 DEF LedgersAgree, Follows

(* All units start from the same ledger.                                   *)
LEMMA InitAgrees == Init => LedgersAgree
<1> SUFFICES ASSUME Init PROVE LedgersAgree
  OBVIOUS
<1> DEFINE L == LedgerOf(1, -1, <<>>, <<>>)
           h == [k \in {0} |-> L]
<1>1. h[0] = L
  OBVIOUS
<1>2. \A u \in Units : /\ memid[u] = 1 /\ registermemid[u] = -1 /\ mem_freelist[u] = <<>>
                       /\ reg_freelist[u] = <<>> /\ done[u] = 0 /\ pc[u] = "idle"
                       /\ gptr[u] = <<>>
  BY DEF Init, dart_segment_init
<1>3. script = <<>>
  BY DEF Init
<1> HIDE DEF L, h
<1>4. History(script, h, <<>>)
  BY <1>1, <1>3 DEF History, L
<1>5. \A u \in Units : Follows(h, <<>>, u)
  BY <1>1, <1>2 DEF Follows, Match, L
<1> QED
  BY <1>4, <1>5 DEF LedgersAgree

(* Every step keeps the units on one history.                              *)
LEMMA NextAgrees ==
  ASSUME TypeOK, SegmentInv, LedgersAgree, [Next]_vars
  PROVE  LedgersAgree'
<1>1. CASE UNCHANGED vars
  BY <1>1 DEF vars, segdata, LedgersAgree, Follows
<1>2. ASSUME NEW u \in Units, Program(u) \/ Run(u) PROVE LedgersAgree'
  <2>1. CASE Program(u)
    BY <2>1, ProgramAgrees
  <2>2. CASE MemallocBegin(u) \/ MemregisterBegin(u)
    BY <2>2, BeginAgrees
  <2>3. CASE MemallocNull(u) \/ MemallocCrash(u) \/ MemallocAttach(u) \/ MemfreeBegin(u)
    BY <2>3, InsideAgrees
  <2>4. CASE GatherReturn(u)
    BY <2>4, GatherReturnAgrees
  <2>5. CASE MemregisterNull(u)
    BY <2>5, MemregisterNullAgrees
  <2>6. CASE MemfreeReturn(u)
    <3>1. /\ pc[u] = "winfree" /\ dart_segment_free(u, cur[u]) /\ Finish(u, cur[u])
          /\ UNCHANGED <<script, cur>>
      BY <2>6 DEF MemfreeReturn
    <3>2. /\ SoundScript(script) /\ UnitType(script, u, done[u], pc[u], gptr[u])
          /\ UnitInv(script, u, done[u], pc[u], hashtab[u], cur[u], sub_mem[u], attached[u],
                     gptr[u])
      BY InvParts
    <3>3. /\ done[u] < Len(script) /\ script[done[u] + 1].kind = "free"
          /\ cur[u] = gptr[u][script[done[u] + 1].of]
      BY <3>1, <3>2 DEF UnitInv, CurrentIn
    <3>4. cur[u] # NoSegid
      BY <3>2, <3>3, ReleasedIsOwned
    <3> QED
      BY <3>1, <3>3, <3>4, ReleaseAgrees
  <2>7. CASE Memderegister(u)
    <3> DEFINE id == gptr[u][script[done[u] + 1].of]
    <3>1. /\ Calls(u, "dereg") /\ id # NoSegid
          /\ dart_segment_free(u, id) /\ Finish(u, id) /\ UNCHANGED <<script, cur>>
      BY <2>7 DEF Memderegister, Call
    <3>2. done[u] < Len(script) /\ script[done[u] + 1].kind = "dereg" /\ pc[u] = "idle"
      BY <3>1, CallFacts
    <3> QED
      BY <3>1, <3>2, ReleaseAgrees
  <2>8. CASE MemderegisterNull(u)
    BY <2>8, MemderegisterNullAgrees
  <2> QED
    BY <1>2, <2>1, <2>2, <2>3, <2>4, <2>5, <2>6, <2>7, <2>8 DEF Run
<1> QED
  BY <1>1, <1>2 DEF Next

(* The same collective call returns the same segment ID on every unit,     *)
(* although each unit draws it from its own counters and free lists and    *)
(* no ID is ever sent: the units may be any number of calls apart and the  *)
(* IDs reused any number of times.                                         *)
THEOREM SegmentIdsAgree == Spec => []SegIdsAgree
<1>1. TypeOK /\ SegmentInv /\ LedgersAgree /\ [Next]_vars => (TypeOK /\ SegmentInv /\ LedgersAgree)'
  BY NextInv, NextAgrees
<1>2. LedgersAgree => SegIdsAgree
  <2> SUFFICES ASSUME LedgersAgree, NEW u \in Units, NEW v \in Units,
                      NEW c \in DOMAIN gptr[u] \cap DOMAIN gptr[v]
               PROVE  gptr[u][c] = gptr[v][c]
    BY DEF SegIdsAgree
  <2>1. PICK h, ids : \A w \in Units : Follows(h, ids, w)
    BY DEF LedgersAgree
  <2>2. gptr[u][c] = ids[c] /\ gptr[v][c] = ids[c]
    BY <2>1 DEF Follows, Match
  <2> QED
    BY <2>2
<1> QED
  BY InitInv, InitAgrees, <1>1, <1>2, PTL DEF Spec
=============================================================================
