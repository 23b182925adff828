----------------------------- MODULE MemBucket -----------------------------
(***************************************************************************)
(* dart_membucket.c: the allocator behind dart_memalloc in DART-SHMEM, one *)
(* list of free and one of allocated entries [pos, size].  Positions count *)
(* from 0, the beginning of the pool, in bytes.                            *)
(***************************************************************************)
EXTENDS Integers, SequencesExt

CONSTANTS
    BucketBytes,      \* size given to dart_membucket_create
    BucketRequests,   \* sizes that callers ask for
    MaxEntries        \* bound on all entries: those of size 0, free ones too, would never run out

VARIABLES free, allocated

Init ==
    /\ free = <<[pos |-> 0, size |-> BucketBytes]>>
    /\ allocated = <<>>

\* Before the first entry that lies behind the new one.
dart_insert_sorted(list, entry) ==
    LET before == SelectSeq(list, LAMBDA e : ~(entry.pos < e.pos))
    IN InsertAt(list, Len(before) + 1, entry)

dart_list_melt_nothing(list) == list

\* Entries that touch become one.
dart_list_melt(list) ==
    FoldLeft(LAMBDA done, e :
                 IF done # <<>> /\ Last(done).pos + Last(done).size = e.pos
                 THEN [done EXCEPT ![Len(done)].size = @ + e.size]
                 ELSE Append(done, e),
             <<>>, list)

\* First fit; the beginning of the entry is handed out.
dart_membucket_alloc(size) ==
    LET fit == SelectInSeq(free, LAMBDA e : e.size >= size)
    IN /\ fit # 0
       /\ Len(allocated) + Len(free) < MaxEntries
       /\ allocated' = <<[pos |-> free[fit].pos, size |-> size]>> \o allocated
       /\ free' = IF free[fit].size = size THEN RemoveAt(free, fit)
                  ELSE [free EXCEPT ![fit] = [pos |-> @.pos + size, size |-> @.size - size]]

dart_membucket_full(size) ==
    /\ SelectInSeq(free, LAMBDA e : e.size >= size) = 0
    /\ UNCHANGED <<free, allocated>>

\* The youngest entry that begins at pos.
dart_membucket_free(pos) ==
    LET found == SelectInSeq(allocated, LAMBDA e : e.pos = pos)
    IN /\ found # 0
       /\ allocated' = RemoveAt(allocated, found)
       /\ free' = dart_list_melt(dart_insert_sorted(free, allocated[found]))

dart_membucket_unknown(pos) ==
    /\ SelectInSeq(allocated, LAMBDA e : e.pos = pos) = 0
    /\ UNCHANGED <<free, allocated>>

Next ==
    \/ \E size \in BucketRequests : dart_membucket_alloc(size) \/ dart_membucket_full(size)
    \/ \E pos \in 0 .. BucketBytes : dart_membucket_free(pos) \/ dart_membucket_unknown(pos)

----------------------------------------------------------------------------
Covers(e, byte) == byte \in e.pos .. (e.pos + e.size - 1)

\* No byte of the pool is ever lost or handed out twice.  And as long as nobody asks for
\* nothing, the free list is in order and its entries do not touch: whatever room there is
\* in one piece is one entry, so an allocation fails only when there is none.
NoByteIsLost ==
    LET entries == free \o allocated IN
    /\ \A byte \in 0 .. (BucketBytes - 1) :
           \E i \in DOMAIN entries : \A j \in DOMAIN entries : Covers(entries[j], byte) <=> i = j
    /\ (\A i \in DOMAIN entries : entries[i].size > 0) =>
           \A i \in 1 .. (Len(free) - 1) : free[i].pos + free[i].size < free[i + 1].pos
=============================================================================
