------------------------------- MODULE CallSites -------------------------------
\* What ICallSolver leaves for the printer, and the query of it
\* (include/ICallSolver.h).
EXTENDS LLVMModule

VARIABLE CallSitesMap  \* the calls a function is named by in their !callees

getCallSites(F) == At(CallSitesMap, F)
=============================================================================
