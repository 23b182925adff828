------------------------------ MODULE GlobMem ------------------------------
(***************************************************************************)
(* Collective global memory of one team: dart_team_memalloc_aligned (the   *)
(* dynamic, shared-window build), dart_team_memregister(_aligned),         *)
(* dart_team_memfree and dart_team_memderegister of dart_globmem.c on top  *)
(* of the segment tables of dart_segment.c.                                *)
(*                                                                         *)
(* Each unit has a segment table of its own; nothing but the order of the  *)
(* collective calls keeps the tables of the units in step.  The units run  *)
(* the same list of calls (script), each at its own pace, and meet inside  *)
(* MPI's collectives only.  MPI calls that fail abort the program (DART    *)
(* leaves MPI_ERRORS_ARE_FATAL in place), so they have no error path here. *)
(***************************************************************************)
EXTENDS Integers, Sequences, FiniteSets, SequencesExt

CONSTANTS Units,          \* the units of the team
          HashSize,       \* DART_SEGMENT_HASH_SIZE
          MaxSegId,       \* INT16_MAX
          Sizes,          \* element counts per unit callers ask for
          MaxCalls        \* bound on the length of the script

ASSUME UnitsAssumption == IsFiniteSet(Units) /\ Units # {}
ASSUME HashAssumption == HashSize \in Nat \ {0}
ASSUME SegIdAssumption == MaxSegId \in Nat \ {0}
ASSUME SizesAssumption == Sizes \subseteq Nat

VARIABLES script,         \* the team's collective calls, in program order
          done,           \* done[u]: how many of them u has completed
          pc,             \* pc[u]: where u is inside call done[u] + 1
          memid, registermemid,     \* dart_segmentdata_t
          mem_freelist, reg_freelist,
          hashtab,        \* hashtab[u][slot]: chain of segments
          cur,            \* cur[u]: segid of the segment u is working on
          sub_mem,        \* sub_mem[u]: the memory of u's current call
          coll,           \* coll[u]: how many MPI collectives u has entered
          attached,       \* memory attached to the team's window at u
          gptr            \* gptr[u]: segid returned by each completed call

segdata == <<memid, registermemid, mem_freelist, reg_freelist, hashtab>>
vars == <<script, done, pc, segdata, cur, sub_mem, coll, attached, gptr>>

Slots == 0 .. (HashSize - 1)
NULL == <<>>                     \* no address, no segment
Address(u, c) == <<u, c>>        \* the memory u provides in call c
NoSegid == MaxSegId + 1

----------------------------------------------------------------------------
(* dart_segment.c *)

hash_segid(segid) == (IF segid < 0 THEN -segid ELSE segid) % HashSize

FreshElem(segid) == [segid |-> segid, selfbaseptr |-> NULL, size |-> 0,
                     disp |-> [v \in Units |-> NULL]]

register_segment(tab, elem) ==
    [tab EXCEPT ![hash_segid(elem.segid)] = <<elem>> \o @]

HasId(chain, segid) == {i \in DOMAIN chain : chain[i].segid = segid}

get_segment(tab, segid) ==
    LET chain == tab[hash_segid(segid)]
        hits  == HasId(chain, segid) IN
    IF hits = {} THEN NULL
    ELSE chain[CHOOSE i \in hits : \A j \in hits : i <= j]

\* Fill in the segment that dart_segment_alloc returned.
SetSegment(tab, elem) ==
    [tab EXCEPT ![hash_segid(elem.segid)] =
        [i \in DOMAIN @ |-> IF @[i].segid = elem.segid THEN elem ELSE @[i]]]

\* The local-allocation segment 0 is in the table of DART_TEAM_ALL from dart_init on.
dart_segment_init ==
    /\ memid = [u \in Units |-> 1]
    /\ registermemid = [u \in Units |-> -1]
    /\ mem_freelist = [u \in Units |-> <<>>]
    /\ reg_freelist = [u \in Units |-> <<>>]
    /\ hashtab = [u \in Units |-> register_segment([s \in Slots |-> <<>>], FreshElem(0))]

TakeSegment(u, elem) ==
    /\ hashtab' = [hashtab EXCEPT ![u] = register_segment(@, elem)]
    /\ cur' = [cur EXCEPT ![u] = elem.segid]

dart_segment_alloc_mem(u) ==
    /\ UNCHANGED <<registermemid, reg_freelist>>
    /\ \/ /\ mem_freelist[u] # <<>>
          /\ TakeSegment(u, Head(mem_freelist[u]))
          /\ mem_freelist' = [mem_freelist EXCEPT ![u] = Tail(@)]
          /\ UNCHANGED memid
       \/ /\ mem_freelist[u] = <<>>
          /\ memid[u] # MaxSegId
          /\ TakeSegment(u, FreshElem(memid[u]))
          /\ memid' = [memid EXCEPT ![u] = @ + 1]
          /\ UNCHANGED mem_freelist

dart_segment_alloc_reg(u) ==
    /\ UNCHANGED <<memid, mem_freelist>>
    /\ \/ /\ reg_freelist[u] # <<>>
          /\ TakeSegment(u, Head(reg_freelist[u]))
          /\ reg_freelist' = [reg_freelist EXCEPT ![u] = Tail(@)]
          /\ UNCHANGED registermemid
       \/ /\ reg_freelist[u] = <<>>
          /\ registermemid[u] # -MaxSegId - 1
          /\ TakeSegment(u, FreshElem(registermemid[u]))
          /\ registermemid' = [registermemid EXCEPT ![u] = @ - 1]
          /\ UNCHANGED reg_freelist

MemIdsExhausted(u) == mem_freelist[u] = <<>> /\ memid[u] = MaxSegId
RegIdsExhausted(u) == reg_freelist[u] = <<>> /\ registermemid[u] = -MaxSegId - 1

dart_segment_freeUnlinksHead(u, segid) ==
    LET elem == get_segment(hashtab[u], segid) IN
    /\ hashtab' = [hashtab EXCEPT ![u][hash_segid(segid)] = Tail(@)]
    /\ mem_freelist' = IF segid > 0 THEN [mem_freelist EXCEPT ![u] = <<elem>> \o @]
                                    ELSE mem_freelist
    /\ reg_freelist' = IF segid < 0 THEN [reg_freelist EXCEPT ![u] = <<elem>> \o @]
                                    ELSE reg_freelist
    /\ UNCHANGED <<memid, registermemid>>

\* Unlink the first segment with this ID and keep it, data included, for reuse.
dart_segment_free(u, segid) ==
    LET elem  == get_segment(hashtab[u], segid)
        slot  == hash_segid(segid)
        first == CHOOSE i \in HasId(hashtab[u][slot], segid) :
                     \A j \in HasId(hashtab[u][slot], segid) : i <= j IN
    /\ hashtab' = [hashtab EXCEPT ![u][slot] = RemoveAt(@, first)]
    /\ mem_freelist' = IF segid > 0 THEN [mem_freelist EXCEPT ![u] = <<elem>> \o @]
                                    ELSE mem_freelist
    /\ reg_freelist' = IF segid < 0 THEN [reg_freelist EXCEPT ![u] = <<elem>> \o @]
                                    ELSE reg_freelist
    /\ UNCHANGED <<memid, registermemid>>

----------------------------------------------------------------------------
(* dart_globmem.c: the calls, and the order the units make them in *)

Init ==
    /\ script = <<>>
    /\ done = [u \in Units |-> 0]
    /\ pc = [u \in Units |-> "idle"]
    /\ dart_segment_init
    /\ cur = [u \in Units |-> NoSegid]
    /\ sub_mem = [u \in Units |-> NULL]
    /\ coll = [u \in Units |-> 0]
    /\ attached = [u \in Units |-> {}]
    /\ gptr = [u \in Units |-> <<>>]

Call(u) == script[done[u] + 1]

\* A call of the program: to allocate or register memory, or to release what an
\* earlier call that is not released yet has set up.
Releases(c) == {i \in DOMAIN script : script[i].kind \in {"free", "dereg"} /\ script[i].of = c}

NewCalls ==
    [kind : {"alloc", "register"}, size : Sizes, of : {0}] \cup
    {[kind |-> IF script[c].kind = "alloc" THEN "free" ELSE "dereg", size |-> 0, of |-> c] :
        c \in {i \in DOMAIN script : script[i].of = 0 /\ Releases(i) = {}}}

\* The first unit to get there decides what the team does next.
Program(u) ==
    /\ pc[u] = "idle"
    /\ done[u] = Len(script)
    /\ Len(script) < MaxCalls
    /\ \E call \in NewCalls : script' = Append(script, call)
    /\ UNCHANGED <<done, pc, segdata, cur, sub_mem, coll, attached, gptr>>

Calls(u, kind) == pc[u] = "idle" /\ done[u] < Len(script) /\ Call(u).kind = kind

\* MPI matches the collectives of a communicator in the order each unit enters them.
Enter(u, where) ==
    /\ coll' = [coll EXCEPT ![u] = @ + 1]
    /\ pc' = [pc EXCEPT ![u] = where]

AllEntered(u) == \A v \in Units : coll[v] >= coll[u]

Finish(u, segid) ==
    /\ gptr' = [gptr EXCEPT ![u] = Append(@, segid)]
    /\ done' = [done EXCEPT ![u] = @ + 1]
    /\ pc' = [pc EXCEPT ![u] = "idle"]

\* dart_team_memalloc_aligned: take a segment, enter MPI_Win_allocate_shared.
MemallocBegin(u) ==
    /\ Calls(u, "alloc")
    /\ dart_segment_alloc_mem(u)
    /\ Enter(u, "shared")
    /\ UNCHANGED <<script, done, sub_mem, attached, gptr>>

\* The IDs are used up and segment is NULL: MPI_Win_allocate_shared is called all the
\* same, and segment->baseptr read after it.
MemallocNull(u) ==
    /\ Calls(u, "alloc")
    /\ MemIdsExhausted(u)
    /\ Enter(u, "shared_null")
    /\ UNCHANGED <<script, done, segdata, cur, sub_mem, attached, gptr>>

MemallocCrash(u) ==
    /\ pc[u] = "shared_null"
    /\ AllEntered(u)
    /\ pc' = [pc EXCEPT ![u] = "crashed"]
    /\ UNCHANGED <<script, done, segdata, cur, sub_mem, coll, attached, gptr>>

\* Mutant: a unit without memory returns before the MPI_Allgather.
MemallocAttachSkipsGather(u) ==
    LET mem == Address(u, done[u] + 1) IN
    /\ pc[u] = "shared"
    /\ AllEntered(u)
    /\ \/ /\ Call(u).size = 0
          /\ Finish(u, cur[u])
          /\ UNCHANGED <<sub_mem, coll, attached>>
       \/ /\ sub_mem' = [sub_mem EXCEPT ![u] = mem]
          /\ attached' = [attached EXCEPT ![u] = IF Call(u).size = 0 THEN @ ELSE @ \cup {mem}]
          /\ Enter(u, "gather")
          /\ UNCHANGED <<done, gptr>>
    /\ UNCHANGED <<script, segdata, cur>>

\* Empty memory is not attached; whether MPI returns an address for it is up to MPI.
MemallocAttach(u) ==
    LET mem == Address(u, done[u] + 1) IN
    /\ pc[u] = "shared"
    /\ AllEntered(u)
    /\ \/ /\ Call(u).size = 0
          /\ \E a \in {NULL, mem} : sub_mem' = [sub_mem EXCEPT ![u] = a]
          /\ UNCHANGED attached
       \/ /\ Call(u).size > 0
          /\ sub_mem' = [sub_mem EXCEPT ![u] = mem]
          /\ attached' = [attached EXCEPT ![u] = @ \cup {mem}]
    /\ Enter(u, "gather")
    /\ UNCHANGED <<script, done, segdata, cur, gptr>>

\* dart_team_memregister(_aligned): the caller's memory is attached whatever its size.
MemregisterBegin(u) ==
    LET mem == Address(u, done[u] + 1) IN
    /\ Calls(u, "register")
    /\ dart_segment_alloc_reg(u)
    /\ attached' = [attached EXCEPT ![u] = @ \cup {mem}]
    /\ sub_mem' = [sub_mem EXCEPT ![u] = mem]
    /\ Enter(u, "gather")
    /\ UNCHANGED <<script, done, gptr>>

MemregisterNull(u) ==
    /\ Calls(u, "register")
    /\ RegIdsExhausted(u)
    /\ Finish(u, NoSegid)
    /\ UNCHANGED <<script, segdata, cur, sub_mem, coll, attached>>

\* The displacement v contributes to the MPI_Allgather of call c.
Displacement(v, c) ==
    IF script[c].kind = "alloc" /\ script[c].size = 0 THEN NULL ELSE Address(v, c)

GatherReturnKeepsDisp(u) ==
    LET seg == get_segment(hashtab[u], cur[u]) IN
    /\ pc[u] = "gather"
    /\ AllEntered(u)
    /\ hashtab' = [hashtab EXCEPT ![u] =
                     SetSegment(@, [seg EXCEPT
                         !.size = Call(u).size,
                         !.selfbaseptr = sub_mem[u],
                         !.disp = IF \E v \in Units : @[v] # NULL THEN @
                                  ELSE [v \in Units |-> Displacement(v, done[u] + 1)]])]
    /\ Finish(u, cur[u])
    /\ UNCHANGED <<script, memid, registermemid, mem_freelist, reg_freelist, cur, sub_mem,
                   coll, attached>>

\* Mutant: a unit for which MPI has no address gives its segment back.
GatherReturnDropsEmpty(u) ==
    /\ pc[u] = "gather"
    /\ AllEntered(u)
    /\ IF sub_mem[u] = NULL
       THEN dart_segment_free(u, cur[u]) /\ Finish(u, NoSegid)
       ELSE UNCHANGED segdata /\ Finish(u, cur[u])
    /\ UNCHANGED <<script, cur, sub_mem, coll, attached>>

\* MPI_Allgather of the displacements, then the segment's fields and the gptr.
GatherReturn(u) ==
    /\ pc[u] = "gather"
    /\ AllEntered(u)
    /\ hashtab' = [hashtab EXCEPT ![u] =
                     SetSegment(@, [get_segment(@, cur[u]) EXCEPT
                                      !.size = Call(u).size,
                                      !.selfbaseptr = sub_mem[u],
                                      !.disp = [v \in Units |-> Displacement(v, done[u] + 1)]])]
    /\ Finish(u, cur[u])
    /\ UNCHANGED <<script, memid, registermemid, mem_freelist, reg_freelist, cur, sub_mem,
                   coll, attached>>

Detach(u, segid) ==
    attached' = [attached EXCEPT ![u] = @ \ {get_segment(hashtab[u], segid).selfbaseptr}]

\* dart_team_memfree: detach, then enter MPI_Win_free of the shared window.
MemfreeBegin(u) ==
    LET segid == gptr[u][Call(u).of] IN
    /\ Calls(u, "free")
    /\ Detach(u, segid)
    /\ cur' = [cur EXCEPT ![u] = segid]
    /\ Enter(u, "winfree")
    /\ UNCHANGED <<script, done, segdata, sub_mem, gptr>>

MemfreeReturn(u) ==
    /\ pc[u] = "winfree"
    /\ AllEntered(u)
    /\ dart_segment_free(u, cur[u])
    /\ Finish(u, cur[u])
    /\ UNCHANGED <<script, cur, sub_mem, coll, attached>>

\* dart_team_memderegister: entirely local.
Memderegister(u) ==
    LET segid == gptr[u][Call(u).of] IN
    /\ Calls(u, "dereg")
    /\ segid # NoSegid
    /\ Detach(u, segid)
    /\ dart_segment_free(u, segid)
    /\ Finish(u, segid)
    /\ UNCHANGED <<script, cur, sub_mem, coll>>

\* A failed registration left DART_GPTR_NULL behind: there is nothing to release.
MemderegisterNull(u) ==
    /\ Calls(u, "dereg")
    /\ gptr[u][Call(u).of] = NoSegid
    /\ Finish(u, NoSegid)
    /\ UNCHANGED <<script, segdata, cur, sub_mem, coll, attached>>

Run(u) ==
    \/ MemallocBegin(u) \/ MemallocNull(u) \/ MemallocCrash(u)
    \/ MemallocAttach(u) \/ GatherReturn(u)
    \/ MemregisterBegin(u) \/ MemregisterNull(u)
    \/ MemfreeBegin(u) \/ MemfreeReturn(u) \/ Memderegister(u) \/ MemderegisterNull(u)

Next == \E u \in Units : Program(u) \/ Run(u)

Spec == Init /\ [][Next]_vars

\* A unit that has something to do does it; when to make the next call is the caller's.
FairSpec == Spec /\ \A u \in Units : WF_vars(Run(u))

----------------------------------------------------------------------------
SegIds == -MaxSegId .. MaxSegId

Addresses == {NULL} \cup (Units \X Nat)
Elems == [segid : Int, selfbaseptr : Addresses, size : Nat, disp : [Units -> Addresses]]
Kinds == {"alloc", "register", "free", "dereg"}
Places == {"idle", "shared", "shared_null", "gather", "winfree", "crashed"}

\* Every variable keeps its type, at the ends of the ID ranges too.
TypeOK ==
    /\ script \in Seq([kind : Kinds, size : Nat, of : Nat])
    /\ done \in [Units -> Nat]
    /\ pc \in [Units -> Places]
    /\ memid \in [Units -> 1 .. MaxSegId]
    /\ registermemid \in [Units -> (-MaxSegId - 1) .. -1]
    /\ mem_freelist \in [Units -> Seq(Elems)]
    /\ reg_freelist \in [Units -> Seq(Elems)]
    /\ hashtab \in [Units -> [Slots -> Seq(Elems)]]
    /\ cur \in [Units -> SegIds \cup {NoSegid}]
    /\ sub_mem \in [Units -> Addresses]
    /\ coll \in [Units -> Nat]
    /\ attached \in [Units -> SUBSET Addresses]
    /\ gptr \in [Units -> Seq(SegIds \cup {NoSegid})]
    /\ \A u \in Units : done[u] <= Len(script) /\ Len(gptr[u]) = done[u]

\* The same call returns the same segment ID on every unit ("globally unique in a team",
\* dart_segment.h), however far the units are apart in the script.
SegIdsAgree ==
    \A u, v \in Units : \A c \in DOMAIN gptr[u] \cap DOMAIN gptr[v] : gptr[u][c] = gptr[v][c]

\* u has completed call c and not yet called for its release.
Live(u, c) ==
    /\ c <= done[u]
    /\ script[c].of = 0
    /\ gptr[u][c] # NoSegid
    /\ \A i \in Releases(c) : i > done[u] + 1 \/ (i = done[u] + 1 /\ pc[u] = "idle")

\* Looking up the ID a live call returned finds that call's memory, not another
\* segment's and not what is left of the segment's previous use.
LiveSegmentIsFound ==
    \A u \in Units : \A c \in DOMAIN gptr[u] :
        Live(u, c) =>
            LET seg == get_segment(hashtab[u], gptr[u][c]) IN
            seg # NULL /\ seg.disp = [v \in Units |-> Displacement(v, c)]

\* The displacement u uses to reach v's part of a live allocation is attached at v.
RemoteAccessIsAttached ==
    \A u, v \in Units : \A c \in DOMAIN gptr[u] \cap DOMAIN gptr[v] :
        Live(u, c) /\ Live(v, c) =>
            LET disp == get_segment(hashtab[u], gptr[u][c]).disp[v] IN
            disp = NULL \/ disp \in attached[v]

\* What the last two rest on, in an inductive form.

\* A release comes after what it releases, which nothing else releases.
ScriptIsSound ==
    /\ \A k \in DOMAIN script :
         IF script[k].of = 0 THEN script[k].kind \in {"alloc", "register"}
         ELSE /\ script[k].of < k
              /\ script[script[k].of].of = 0
              /\ script[k].kind = IF script[script[k].of].kind = "alloc" THEN "free" ELSE "dereg"
    /\ \A j, k \in DOMAIN script : script[j].of = script[k].of /\ script[j].of # 0 => j = k

\* The segments of a table.
Segments(tab) == UNION {{tab[s][i] : i \in DOMAIN tab[s]} : s \in Slots}

\* Each segment is in the chain of its ID, which has no other with that ID.
ChainsAreSound(tab) ==
    \A s \in Slots : \A i, j \in DOMAIN tab[s] :
        /\ hash_segid(tab[s][i].segid) = s
        /\ tab[s][i].segid = tab[s][j].segid => i = j

\* The segments on a free list have IDs that were handed out, to nobody else.
FreeListIsSound(free, tab, ids) ==
    \A i \in DOMAIN free :
        /\ free[i].segid \in ids
        /\ \A e \in Segments(tab) : e.segid # free[i].segid
        /\ \A j \in DOMAIN free : free[i].segid = free[j].segid => i = j

IdsAreUnique ==
    \A u \in Units :
        /\ ChainsAreSound(hashtab[u])
        /\ \A e \in Segments(hashtab[u]) : e.segid \in (registermemid[u] + 1) .. (memid[u] - 1)
        /\ FreeListIsSound(mem_freelist[u], hashtab[u], 1 .. (memid[u] - 1))
        /\ FreeListIsSound(reg_freelist[u], hashtab[u], (registermemid[u] + 1) .. -1)

\* u has completed call c and not its release.
Owns(u, c) ==
    /\ c \in DOMAIN gptr[u]
    /\ script[c].of = 0 /\ gptr[u][c] # NoSegid
    /\ \A i \in Releases(c) : i > done[u]

\* The sign of an ID tells allocated from registered memory.
IdsOf(kind) ==
    CASE kind = "alloc"    -> 1 .. MaxSegId
      [] kind = "register" -> (-MaxSegId .. -1) \cup {NoSegid}
      [] OTHER             -> SegIds \cup {NoSegid}

\* The segment of a completed call is in the table with what that call gathered.
Holds(tab, u, c, id) ==
    \E e \in Segments(tab) :
        /\ e.segid = id
        /\ e.disp = [v \in Units |-> Displacement(v, c)]
        /\ e.selfbaseptr \in {NULL, Address(u, c)}

OwnedAreHeld ==
    \A u \in Units :
        /\ \A c \in DOMAIN gptr[u] : gptr[u][c] \in IdsOf(script[c].kind)
        /\ \A c \in DOMAIN gptr[u] : Owns(u, c) => Holds(hashtab[u], u, c, gptr[u][c])
        /\ \A c, d \in DOMAIN gptr[u] : Owns(u, c) /\ Owns(u, d) /\ gptr[u][c] = gptr[u][d] => c = d

\* The segment a unit is working on is its own, and no earlier call's.
CurrentIsOwn ==
    \A u \in Units :
        /\ pc[u] \in {"shared", "gather"} =>
             /\ done[u] < Len(script) /\ Call(u).of = 0 /\ (pc[u] = "shared" => Call(u).kind = "alloc")
             /\ cur[u] \in IdsOf(Call(u).kind) \ {NoSegid}
             /\ \E e \in Segments(hashtab[u]) : e.segid = cur[u]
             /\ \A c \in DOMAIN gptr[u] : Owns(u, c) => gptr[u][c] # cur[u]
        /\ pc[u] = "winfree" =>
             done[u] < Len(script) /\ Call(u).kind = "free" /\ cur[u] = gptr[u][Call(u).of]

\* Memory is attached from before its displacement is published until its release.
Reachable(u, c) == Displacement(u, c) \in {NULL} \cup attached[u]

LiveIsAttached ==
    \A u \in Units :
        /\ pc[u] = "gather" =>
             sub_mem[u] \in {NULL, Address(u, done[u] + 1)} /\ Reachable(u, done[u] + 1)
        /\ \A c \in DOMAIN gptr[u] : Live(u, c) => Reachable(u, c)

SegmentInv == ScriptIsSound /\ IdsAreUnique /\ OwnedAreHeld /\ CurrentIsOwn /\ LiveIsAttached

\* Every call of the script returns on every unit: the collectives inside the calls match,
\* whatever each unit found in its own tables.  Only a unit that ran out of segment IDs
\* and crashed keeps the others waiting.
CallsReturn ==
    \A u \in Units :
        done[u] < Len(script) ~> (done[u] = Len(script) \/ \E v \in Units : pc[v] = "crashed")

\* Running out of segment IDs is reported to the caller, as the check of segment against
\* NULL in dart_team_memalloc_aligned_dynamic means to.
ExhaustionIsReported == \A u \in Units : pc[u] # "crashed"

\* MPI_Win_attach is not called for empty memory.
EmptyIsNotAttached ==
    \A u \in Units : \A c \in DOMAIN script :
        script[c].of = 0 /\ script[c].size = 0 => Address(u, c) \notin attached[u]
=============================================================================
