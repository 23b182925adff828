-------------------------- MODULE ChunkedTransfer --------------------------
(***************************************************************************)
(* How dart_communication.c moves more elements than an MPI count can      *)
(* express: first a call with nelem / MAX_CONTIG_ELEMENTS items of a type  *)
(* of MAX_CONTIG_ELEMENTS elements each, then a call for the remainder.    *)
(* Memory is modelled byte by byte: copied holds a pair <<from, to>> for   *)
(* every byte MPI has moved, a place being <<unit, byte offset>>.          *)
(***************************************************************************)
EXTENDS Integers, FiniteSets

CONSTANTS Kinds,          \* the calls to check, a subset of AllKinds
          MaxContig,      \* MAX_CONTIG_ELEMENTS
          MaxElems,       \* bound on nelem
          ElemSizes,      \* sizes of the data types, in bytes
          NumUnits,       \* units of the team
          UnitArgs        \* unit IDs callers pass

ASSUME LimitAssumption == MaxContig \in Nat \ {0} /\ MaxElems \in Nat
ASSUME SizesAssumption == ElemSizes \subseteq Nat \ {0}
ASSUME UnitsAssumption == NumUnits \in Nat \ {0} /\ UnitArgs \subseteq Int

\* dart_put, dart_get, dart_accumulate and their variants; then the collectives.
OneSided == {"put", "get", "accumulate"}
AllKinds == OneSided \cup {"bcast", "scatter", "gather", "allgather"}

ASSUME KindsAssumption == Kinds \subseteq AllKinds

VARIABLES call,           \* the call in progress
          step,           \* "idle", "chunks", "rest", "done", "inval"
          send_ptr,       \* byte offsets into the buffers
          recv_ptr,
          copied

chunkVars == <<call, step, send_ptr, recv_ptr, copied>>

Units == 0 .. (NumUnits - 1)
Me == 0                   \* the unit that makes a one-sided call
NoCall == [kind |-> "none", nelem |-> 0, esize |-> 0, unit |-> 0]

\* MPI: the bytes that one call with len bytes per unit moves.  Root is the unit a
\* one-sided call addresses, or the root of the collective.
Moved(kind, Root, sp, rp, len) ==
    LET bytes == 0 .. (len - 1) IN
    CASE kind \in {"put", "accumulate"} -> {<<<<Me, sp + b>>, <<Root, rp + b>>>> : b \in bytes}
      [] kind = "get" -> {<<<<Root, sp + b>>, <<Me, rp + b>>>> : b \in bytes}
      [] kind = "bcast" -> {<<<<Root, sp + b>>, <<u, sp + b>>>> : u \in Units, b \in bytes}
      [] kind = "scatter" ->
           {<<<<Root, sp + u * len + b>>, <<u, rp + b>>>> : u \in Units, b \in bytes}
      [] kind = "gather" ->
           {<<<<u, sp + b>>, <<Root, rp + u * len + b>>>> : u \in Units, b \in bytes}
      [] kind = "allgather" ->
           {<<<<u, sp + b>>, <<v, rp + u * len + b>>>> : u \in Units, v \in Units, b \in bytes}

ChunkInit ==
    /\ call = NoCall
    /\ step = "idle"
    /\ send_ptr = 0
    /\ recv_ptr = 0
    /\ copied = {}

\* CHECK_UNITID_RANGE; dart_allgather has no unit argument and passes 0 here.
UnitInRange(u) == ~(u < 0 \/ u > NumUnits)

Reject(u) ==
    /\ step = "idle"
    /\ ~UnitInRange(u)
    /\ step' = "inval"
    /\ call' = [NoCall EXCEPT !.unit = u]
    /\ UNCHANGED <<send_ptr, recv_ptr, copied>>

Begin(kind, nelem, esize, u) ==
    /\ step = "idle"
    /\ UnitInRange(u)
    /\ call' = [kind |-> kind, nelem |-> nelem, esize |-> esize, unit |-> u]
    /\ step' = "chunks"
    /\ UNCHANGED <<send_ptr, recv_ptr, copied>>

nchunks == call.nelem \div MaxContig
remainder == call.nelem % MaxContig

AdvanceByNothing(n) == n >= 0 /\ UNCHANGED <<send_ptr, recv_ptr>>

\* The pointers move on by the number of elements, not of bytes.
AdvanceBy(n) == send_ptr' = send_ptr + n /\ recv_ptr' = recv_ptr + n

\* A put or get of the unit's own memory, or of memory on its node, is one memcpy.
Direct == call.kind \in {"put", "get"} /\ call.unit = Me

CopyDirectly ==
    /\ step = "chunks"
    /\ Direct
    /\ copied' = Moved(call.kind, call.unit, send_ptr, recv_ptr, call.nelem * call.esize)
    /\ step' = "done"
    /\ UNCHANGED <<call, send_ptr, recv_ptr>>

SendChunks ==
    /\ step = "chunks"
    /\ ~Direct
    /\ nchunks > 0
    /\ copied' = copied \cup Moved(call.kind, call.unit, send_ptr, recv_ptr, nchunks * MaxContig * call.esize)
    /\ AdvanceBy(nchunks * MaxContig)
    /\ step' = "rest"
    /\ UNCHANGED call

NoChunks ==
    /\ step = "chunks"
    /\ ~Direct
    /\ nchunks = 0
    /\ step' = "rest"
    /\ UNCHANGED <<call, send_ptr, recv_ptr, copied>>

SendRemainder ==
    /\ step = "rest"
    /\ copied' = copied \cup Moved(call.kind, call.unit, send_ptr, recv_ptr, remainder * call.esize)
    /\ step' = "done"
    /\ UNCHANGED <<call, send_ptr, recv_ptr>>

Return ==
    /\ step \in {"done", "inval"}
    /\ step' = "idle"
    /\ call' = NoCall
    /\ send_ptr' = 0
    /\ recv_ptr' = 0
    /\ copied' = {}

ChunkNext ==
    \/ \E kind \in Kinds, n \in 0 .. MaxElems, s \in ElemSizes, u \in UnitArgs :
          Begin(kind, n, s, u)
    \/ \E u \in UnitArgs : Reject(u)
    \/ CopyDirectly \/ SendChunks \/ NoChunks \/ SendRemainder \/ Return

ChunkSpec == ChunkInit /\ [][ChunkNext]_chunkVars

----------------------------------------------------------------------------
\* A completed call has moved the nelem elements of every unit to where one MPI call
\* without a limit on its count would: each byte once, from and to the right place.
WholeTransfer == step = "done" => copied = Moved(call.kind, call.unit, 0, 0, call.nelem * call.esize)

\* A call needs both parts when it has chunks and a remainder; otherwise one MPI call moves
\* everything and the pointers it leaves behind do not matter.
TwoParts == nchunks > 0 /\ remainder > 0 /\ ~Direct

\* Calls in two parts get their second part right for elements of one byte that travel
\* between two units, and every other call gets the whole transfer right: the calls of one
\* part for any element size, in the collectives too, at nelem = 0 and around every
\* multiple of MAX_CONTIG_ELEMENTS.
WholeTransferInRange ==
    ~TwoParts \/ (call.esize = 1 /\ call.kind \notin {"scatter", "gather", "allgather"})
        => WholeTransfer

----------------------------------------------------------------------------
Calls == [kind : AllKinds, nelem : Nat, esize : Nat \ {0}, unit : Int]

\* Between the steps of a call: what has been moved, and where the pointers are.
ChunkInv ==
    /\ step \in {"idle", "chunks", "rest", "done", "inval"}
    /\ step \in {"idle", "chunks"} => send_ptr = 0 /\ recv_ptr = 0 /\ copied = {}
    /\ step \in {"chunks", "rest", "done"} => call \in Calls
    /\ step = "rest" =>
          /\ ~Direct
          /\ send_ptr = nchunks * MaxContig /\ recv_ptr = nchunks * MaxContig
          /\ copied = Moved(call.kind, call.unit, 0, 0, nchunks * MaxContig * call.esize)
    /\ WholeTransferInRange
=============================================================================
