---------------------------- MODULE MCAllocators ----------------------------
(***************************************************************************)
(* The allocators behind dart_memalloc of the two DART implementations: a  *)
(* job runs with one of them.                                              *)
(***************************************************************************)
EXTENDS BuddyAllocator

CONSTANTS BucketBytes, BucketRequests, MaxEntries

VARIABLES impl, free, allocated

Bucket == INSTANCE MemBucket

ASSUME AllocatorAssumption == BucketBytes \in Nat \ {0} /\ BucketRequests \subseteq Nat

bucketVars == <<free, allocated>>
allVars == <<vars, bucketVars, impl>>

MCInit == Init /\ Bucket!Init /\ impl \in {"buddy", "bucket"}

MCNext ==
    \/ impl = "buddy" /\ Next /\ UNCHANGED <<bucketVars, impl>>
    \/ impl = "bucket" /\ Bucket!Next /\ UNCHANGED <<vars, impl>>

MCSpec == MCInit /\ [][MCNext]_allVars /\ WF_vars(impl = "buddy" /\ Step /\ UNCHANGED <<bucketVars, impl>>)

\* The buddy allocator's blocks have room for the bytes that were asked for, and the blocks
\* and the free entries of the bucket tile its memory (see MemBucket).
BlocksAreExact == BlockServesRequest /\ Bucket!NoByteIsLost
=============================================================================
