----------------------------- MODULE MCICallSolver -----------------------------
\* Every metadata of a small module, for ICallSolver.
EXTENDS ICallSolver

MCMetadata == UNION {[S -> SUBSET Function] : S \in SUBSET Site}
=============================================================================
