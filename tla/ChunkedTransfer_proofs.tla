----------------------- MODULE ChunkedTransfer_proofs -----------------------
(***************************************************************************)
(* A transfer in two parts moves every byte to its place, for every limit  *)
(* MAX_CONTIG_ELEMENTS on the count of an MPI call, every number of        *)
(* elements and units, in the extent WholeTransferInRange names.           *)
(***************************************************************************)
EXTENDS ChunkedTransfer, TLAPS

\* The calls whose parts lie side by side in memory.
Contiguous == OneSided \cup {"bcast"}

\* An MPI call with a count of zero moves nothing.
LEMMA MovedNothing ==
  ASSUME NEW k \in AllKinds, NEW r, NEW s, NEW p
  PROVE  Moved(k, r, s, p, 0) = {}
<1>1. 0 .. (0 - 1) = {}
  OBVIOUS
<1> QED
  BY <1>1 DEF Moved, AllKinds, OneSided

\* Two calls, of which the second starts where the first ends, move what one call would.
LEMMA MovedSplit ==
  \A r : \A k \in Contiguous, c \in Nat, n \in Nat :
     Moved(k, r, 0, 0, c) \cup Moved(k, r, c, c, n) = Moved(k, r, 0, 0, c + n)
<1> TAKE r
<1> TAKE k \in Contiguous, c \in Nat, n \in Nat
<1> DEFINE low == 0 .. (c - 1)
           high == 0 .. (n - 1)
           all == 0 .. (c + n - 1)
<1>1. \A b \in low : b \in all /\ 0 + b = b
  OBVIOUS
<1>2. \A b \in high : c + b \in all /\ 0 + (c + b) = c + b
  OBVIOUS
<1>3. \A b \in all : 0 + b = b /\ (b \in low \/ \E d \in high : b = c + d)
  <2> SUFFICES ASSUME NEW b \in all, b \notin low
               PROVE  \E d \in high : b = c + d
    OBVIOUS
  <2>1. b - c \in high /\ b = c + (b - c)
    OBVIOUS
  <2> QED
    BY <2>1
<1> HIDE DEF low, high, all
<1>4. CASE k \in {"put", "accumulate"}
  <2>1. /\ Moved(k, r, 0, 0, c) = {<<<<Me, 0 + b>>, <<r, 0 + b>>>> : b \in low}
        /\ Moved(k, r, c, c, n) = {<<<<Me, c + b>>, <<r, c + b>>>> : b \in high}
        /\ Moved(k, r, 0, 0, c + n) = {<<<<Me, 0 + b>>, <<r, 0 + b>>>> : b \in all}
    <3>1. CASE k = "put"
      BY <3>1 DEF Moved, low, high, all
    <3>2. CASE k = "accumulate"
      BY <3>2 DEF Moved, low, high, all
    <3> QED
      BY <1>4, <3>1, <3>2
  <2> QED
    BY <2>1, <1>1, <1>2, <1>3
<1>5. CASE k = "get"
  <2>1. /\ Moved(k, r, 0, 0, c) = {<<<<r, 0 + b>>, <<Me, 0 + b>>>> : b \in low}
        /\ Moved(k, r, c, c, n) = {<<<<r, c + b>>, <<Me, c + b>>>> : b \in high}
        /\ Moved(k, r, 0, 0, c + n) = {<<<<r, 0 + b>>, <<Me, 0 + b>>>> : b \in all}
    BY <1>5 DEF Moved, low, high, all
  <2> QED
    BY <2>1, <1>1, <1>2, <1>3
<1>6. CASE k = "bcast"
  <2>1. /\ Moved(k, r, 0, 0, c) = {<<<<r, 0 + b>>, <<u, 0 + b>>>> : u \in Units, b \in low}
        /\ Moved(k, r, c, c, n) = {<<<<r, c + b>>, <<u, c + b>>>> : u \in Units, b \in high}
        /\ Moved(k, r, 0, 0, c + n) = {<<<<r, 0 + b>>, <<u, 0 + b>>>> : u \in Units, b \in all}
    BY <1>6 DEF Moved, low, high, all
  <2> QED
    BY <2>1, <1>1, <1>2, <1>3
<1> QED
  BY <1>4, <1>5, <1>6 DEF Contiguous, OneSided

\* The items of MaxContig elements and the remainder make up the elements.
LEMMA Division ==
  ASSUME NEW n \in Nat, NEW m \in Nat \ {0}
  PROVE  /\ n \div m \in Nat /\ n % m \in Nat
         /\ (n \div m) * m \in Nat
         /\ n = (n \div m) * m + (n % m)
         /\ n \div m = 0 => (n \div m) * m = 0
  OBVIOUS

----------------------------------------------------------------------------
\* No call is in progress at the start.
LEMMA ChunkStart == ChunkInit => ChunkInv
  BY DEF ChunkInit, ChunkInv, WholeTransferInRange, WholeTransfer

\* The second part completes the transfer: alone, when there were no chunks; by moving
\* nothing, when there is no remainder; and otherwise for contiguous calls of bytes.
LEMMA RemainderCompletes ==
  ASSUME ChunkInv, SendRemainder
  PROVE  WholeTransferInRange'
<1> DEFINE C == nchunks * MaxContig
           R == remainder
           K == call.kind
           U == call.unit
           S == call.esize
           N == call.nelem
<1>1. /\ step = "rest" /\ call \in Calls /\ call' = call /\ step' = "done"
      /\ send_ptr = C /\ recv_ptr = C
      /\ copied = Moved(K, U, 0, 0, C * S)
      /\ copied' = copied \cup Moved(K, U, send_ptr, recv_ptr, R * S)
  BY DEF ChunkInv, SendRemainder
<1>2. K \in AllKinds /\ S \in Nat \ {0} /\ N \in Nat
  BY <1>1 DEF Calls
<1>3. /\ nchunks \in Nat /\ R \in Nat /\ C \in Nat /\ N = C + R
      /\ nchunks = 0 => C = 0
  <2>1. MaxContig \in Nat \ {0}
    BY LimitAssumption
  <2> QED
    BY <1>2, <2>1, Division DEF nchunks, remainder
<1>4. copied' = Moved(K, U, 0, 0, C * S) \cup Moved(K, U, C, C, R * S)
  BY <1>1
<1>5. nchunks' = nchunks /\ remainder' = R /\ Direct' = Direct /\ ~Direct
  BY <1>1 DEF nchunks, remainder, Direct, ChunkInv
<1>6. SUFFICES ASSUME ~(nchunks > 0 /\ R > 0) \/ (S = 1 /\ K \in Contiguous)
               PROVE  copied' = Moved(K, U, 0, 0, N * S)
  <2>1. K \notin {"scatter", "gather", "allgather"} => K \in Contiguous
    BY <1>2 DEF AllKinds, Contiguous
  <2> QED
    BY <1>1, <1>5, <2>1 DEF WholeTransferInRange, WholeTransfer, TwoParts
<1> HIDE DEF C, R, K, U, S, N
<1>7. CASE nchunks = 0
  <2>1. C = 0 /\ C * S = 0 /\ N = R
    BY <1>2, <1>3, <1>7
  <2>2. Moved(K, U, 0, 0, 0) = {}
    BY <1>2, MovedNothing
  <2> QED
    BY <1>4, <2>1, <2>2
<1>8. CASE R = 0
  <2>1. C = N /\ R * S = 0
    BY <1>2, <1>3, <1>8
  <2>2. Moved(K, U, C, C, 0) = {}
    BY <1>2, MovedNothing
  <2> QED
    BY <1>4, <2>1, <2>2
<1>9. CASE S = 1 /\ K \in Contiguous
  <2>1. C * S = C /\ R * S = R /\ N * S = C + R
    BY <1>2, <1>3, <1>9
  <2>2. K \in Contiguous /\ C \in Nat /\ R \in Nat
    BY <1>3, <1>9
  <2>3. Moved(K, U, 0, 0, C) \cup Moved(K, U, C, C, R) = Moved(K, U, 0, 0, C + R)
    BY <2>2, MovedSplit
  <2> QED
    BY <1>4, <2>1, <2>3
<1> QED
  BY <1>3, <1>6, <1>7, <1>8, <1>9

\* Every step of a call keeps what ChunkInv says of the pointers and of the moved bytes.
LEMMA ChunkStep ==
  ASSUME ChunkInv, [ChunkNext]_chunkVars
  PROVE  ChunkInv'
<1> USE DEF WholeTransferInRange, WholeTransfer
<1>1. ASSUME NEW kind \in Kinds, NEW n \in 0 .. MaxElems, NEW s \in ElemSizes, NEW u \in UnitArgs,
             Begin(kind, n, s, u)
      PROVE  ChunkInv'
  <2>1. call' \in Calls
    BY <1>1, LimitAssumption, SizesAssumption, UnitsAssumption, KindsAssumption DEF Begin, Calls
  <2> QED
    BY <1>1, <2>1 DEF Begin, ChunkInv
<1>2. ASSUME NEW u \in UnitArgs, Reject(u)
      PROVE  ChunkInv'
  BY <1>2 DEF Reject, ChunkInv
<1>3. CASE CopyDirectly
  BY <1>3 DEF CopyDirectly, ChunkInv
<1>4. CASE SendChunks
  <2>1. /\ call \in Calls /\ call' = call /\ step' = "rest" /\ ~Direct
        /\ send_ptr = 0 /\ recv_ptr = 0 /\ copied = {}
    BY <1>4 DEF SendChunks, ChunkInv
  <2>2. nchunks * MaxContig \in Nat
    BY <2>1, LimitAssumption, Division DEF nchunks, Calls
  <2>3. send_ptr' = nchunks * MaxContig /\ recv_ptr' = nchunks * MaxContig
    BY <1>4, <2>1, <2>2 DEF SendChunks, AdvanceBy
  <2>4. copied' = Moved(call.kind, call.unit, 0, 0, nchunks * MaxContig * call.esize)
    BY <1>4, <2>1 DEF SendChunks
  <2>5. nchunks' = nchunks /\ Direct' = Direct
    BY <2>1 DEF nchunks, Direct
  <2> QED
    BY <2>1, <2>3, <2>4, <2>5 DEF ChunkInv
<1>5. CASE NoChunks
  <2>1. /\ call \in Calls /\ call' = call /\ step' = "rest" /\ ~Direct /\ nchunks = 0
        /\ send_ptr' = 0 /\ recv_ptr' = 0 /\ copied' = {}
    BY <1>5 DEF NoChunks, ChunkInv
  <2>2. nchunks * MaxContig = 0 /\ nchunks * MaxContig * call.esize = 0
    BY <2>1, LimitAssumption DEF Calls
  <2>3. Moved(call.kind, call.unit, 0, 0, 0) = {}
    BY <2>1, MovedNothing DEF Calls
  <2>4. nchunks' = nchunks /\ Direct' = Direct
    BY <2>1 DEF nchunks, Direct
  <2> QED
    BY <2>1, <2>2, <2>3, <2>4 DEF ChunkInv
<1>6. CASE SendRemainder
  <2>1. call \in Calls /\ call' = call /\ step' = "done"
    BY <1>6 DEF SendRemainder, ChunkInv
  <2> QED
    BY <1>6, <2>1, RemainderCompletes DEF ChunkInv
<1>7. CASE Return
  BY <1>7 DEF Return, ChunkInv
<1>8. CASE UNCHANGED chunkVars
  BY <1>8 DEF chunkVars, ChunkInv, TwoParts, nchunks, remainder, Direct
<1> QED
  BY <1>1, <1>2, <1>3, <1>4, <1>5, <1>6, <1>7, <1>8 DEF ChunkNext

\* dart_put, dart_get, dart_accumulate, dart_bcast and the other collectives, in the extent
\* the property names: for any limit on the count of an MPI call, any number of elements
\* and units, a completed call has moved each byte as one unlimited MPI call would.
THEOREM TransfersAreWhole == ChunkSpec => []WholeTransferInRange
<1>1. ChunkInit => ChunkInv
  BY ChunkStart
<1>2. ChunkInv /\ [ChunkNext]_chunkVars => ChunkInv'
  BY ChunkStep
<1>3. ChunkInv => WholeTransferInRange
  BY DEF ChunkInv
<1> QED
  BY <1>1, <1>2, <1>3, PTL DEF ChunkSpec
=============================================================================
