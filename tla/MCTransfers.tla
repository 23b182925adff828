---------------------------- MODULE MCTransfers ----------------------------
(***************************************************************************)
(* The two sides of a transfer in dart_communication.c: how a call divides *)
(* its elements into MPI calls, and how the calls are completed.  A        *)
(* behaviour is about one of them.                                         *)
(***************************************************************************)
EXTENDS DartHandles, ChunkedTransfer

VARIABLE side

allVars == <<vars, chunkVars, side>>

MCInit == Init /\ ChunkInit /\ side \in {"handles", "chunks"}

HandleStep(A) == side = "handles" /\ A /\ UNCHANGED <<chunkVars, side>>

MCNext ==
    \/ HandleStep(Next)
    \/ side = "chunks" /\ ChunkNext /\ UNCHANGED <<vars, side>>

MCSpec ==
    /\ MCInit /\ [][MCNext]_allVars
    /\ WF_allVars(HandleStep(Progress)) /\ \A o \in Ops : WF_allVars(HandleStep(Test(o)))
=============================================================================
