------------------------------ MODULE ICallSolver ------------------------------
(***************************************************************************)
(* ICallSolver::solve (src/IndirectCallSolver.cpp): the !callees metadata  *)
(* of the calls, inverted.  A step is one call of the module.              *)
(*                                                                         *)
(* All that is read of the module is M.callees: for each call that has the *)
(* metadata, the functions it names.  Operands that are no function (an    *)
(* alias, a null) are left out.                                            *)
(***************************************************************************)
EXTENDS CallSites

CONSTANT Metadata   \* the !callees metadata a behaviour may start from

ASSUME MetadataAssumption == \A m \in Metadata : IsMap(m, Site, SUBSET Function)

VARIABLE icalls     \* the calls the loop has still to visit

solverVars == <<M, CallSitesMap, icalls>>

SolverInit ==
  /\ \E m \in Metadata : M = [callees |-> m]
  /\ CallSitesMap = EmptyMap
  /\ icalls = Site

SkipWithoutCallees(s) ==
  /\ s \in icalls
  /\ s \notin DOMAIN M.callees
  /\ icalls' = icalls \ {s}
  /\ UNCHANGED <<M, CallSitesMap>>

\* Mutant: the pairs are swapped.
CalleesOf(s) == {s} \X M.callees[s]

CallersOf(s) == M.callees[s] \X {s}

\* Mutant: every function gets an entry.
InsertedForAll(s) == [f \in Function |-> At(InsertPairs(CallSitesMap, CallersOf(s)), f)]

Inserted(s) == InsertPairs(CallSitesMap, CallersOf(s))

InsertCallees(s) ==
  /\ s \in icalls
  /\ s \in DOMAIN M.callees
  /\ icalls' = icalls \ {s}
  /\ CallSitesMap' = Inserted(s)
  /\ UNCHANGED M

SolverNext == \E s \in Site : SkipWithoutCallees(s) \/ InsertCallees(s)

SolverSpec == SolverInit /\ [][SolverNext]_solverVars

-----------------------------------------------------------------------------
(* Properties *)

\* Every variable keeps to its type.
SolverTypeOK ==
  /\ IsMap(M.callees, Site, SUBSET Function)
  /\ IsMap(CallSitesMap, Function, SUBSET Site)
  /\ icalls \subseteq Site

(***************************************************************************)
(* The map inverts the metadata of the calls visited: a function has every *)
(* call that names it, and no others (IndirectCallSolver.cpp:10-22).       *)
(***************************************************************************)
CallSitesInverse ==
  \A f \in Function, s \in Site \ icalls :
    s \in At(CallSitesMap, f) <=> s \in DOMAIN M.callees /\ f \in M.callees[s]

(***************************************************************************)
(* A function the map contains has a call: getCallSites answers yes for a  *)
(* key alone, and then the virtual callers of the function are never asked *)
(* for (ICallSolver.h:20-26, EHGraphPrinter.cpp:97-100).                   *)
(***************************************************************************)
KnownMeansCalled == \A f \in DOMAIN CallSitesMap : CallSitesMap[f] # {}
=============================================================================
