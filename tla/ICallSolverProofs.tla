--------------------------- MODULE ICallSolverProofs ---------------------------
(***************************************************************************)
(* ICallSolver is right for every module: its three invariants, proved for *)
(* any functions, any calls and any metadata.                              *)
(***************************************************************************)
EXTENDS ICallSolver, MapsProofs

LEMMA CallersOfType ==
  ASSUME SolverTypeOK, NEW s \in Site, s \in DOMAIN M.callees
  PROVE  CallersOf(s) \in SUBSET (Function \X Site)
BY DEF SolverTypeOK, IsMap, CallersOf

LEMMA SolverTypeStep ==
  ASSUME SolverTypeOK, [SolverNext]_solverVars
  PROVE  SolverTypeOK'
<1>1. ASSUME NEW s \in Site, SkipWithoutCallees(s)
      PROVE  SolverTypeOK'
  BY <1>1 DEF SolverTypeOK, SkipWithoutCallees
<1>2. ASSUME NEW s \in Site, InsertCallees(s)
      PROVE  SolverTypeOK'
  <2>1. IsMap(CallSitesMap', Function, SUBSET Site)
    BY <1>2, CallersOfType, InsertPairsType DEF SolverTypeOK, InsertCallees, Inserted
  <2> QED BY <1>2, <2>1 DEF SolverTypeOK, InsertCallees
<1>3. CASE UNCHANGED solverVars
  BY <1>3 DEF SolverTypeOK, solverVars
<1> QED BY <1>1, <1>2, <1>3 DEF SolverNext

\* Every variable keeps to its type (ICallSolver.h:14-16).
THEOREM SolverTypeCorrect == SolverSpec => []SolverTypeOK
<1>1. SolverInit => SolverTypeOK
  <2>1. ASSUME NEW m \in Metadata, M = [callees |-> m]
        PROVE  IsMap(M.callees, Site, SUBSET Function)
    BY <2>1, MetadataAssumption
  <2>2. IsMap(EmptyMap, Function, SUBSET Site)
    BY EmptyMapType
  <2> QED BY <2>1, <2>2 DEF SolverInit, SolverTypeOK
<1> QED BY <1>1, SolverTypeStep, PTL DEF SolverSpec

\* CallSitesInverse is not inductive: it says nothing of the calls still to be
\* visited, and a call recorded too early would stay.
OnlyVisited ==
  \A f \in Function, s \in Site :
    s \in At(CallSitesMap, f) <=> s \notin icalls /\ s \in DOMAIN M.callees /\ f \in M.callees[s]

LEMMA OnlyVisitedStep ==
  ASSUME SolverTypeOK, OnlyVisited, [SolverNext]_solverVars
  PROVE  OnlyVisited'
<1>1. ASSUME NEW s \in Site, SkipWithoutCallees(s)
      PROVE  OnlyVisited'
  BY <1>1 DEF OnlyVisited, SkipWithoutCallees
<1>2. ASSUME NEW s \in Site, InsertCallees(s)
      PROVE  OnlyVisited'
  <2>1. \A f \in Function, r \in Site :
          r \in At(CallSitesMap', f) <=>
            r \in At(CallSitesMap, f) \/ (r = s /\ f \in M.callees[s])
    <3>1. \A f \in Function, r \in Site :
            r \in At(CallSitesMap', f) <=>
              r \in At(CallSitesMap, f) \/ <<f, r>> \in CallersOf(s)
      BY <1>2, CallersOfType, InsertPairsMember DEF InsertCallees, Inserted
    <3> QED BY <3>1 DEF CallersOf
  <2>2. s \in DOMAIN M.callees /\ M' = M /\ icalls' = icalls \ {s}
    BY <1>2 DEF InsertCallees
  <2> QED BY <2>1, <2>2 DEF OnlyVisited
<1>3. CASE UNCHANGED solverVars
  BY <1>3 DEF OnlyVisited, solverVars
<1> QED BY <1>1, <1>2, <1>3 DEF SolverNext

\* The map inverts the metadata of the calls visited, and of no others
\* (IndirectCallSolver.cpp:10-22).
THEOREM CallSitesInverseHolds == SolverSpec => []CallSitesInverse
<1>1. SolverInit => OnlyVisited
  BY EmptyMapType DEF SolverInit, OnlyVisited
<1>2. OnlyVisited => CallSitesInverse
  BY DEF OnlyVisited, CallSitesInverse
<1> QED BY <1>1, <1>2, OnlyVisitedStep, SolverTypeCorrect, PTL DEF SolverSpec

LEMMA KnownStep ==
  ASSUME SolverTypeOK, KnownMeansCalled, [SolverNext]_solverVars
  PROVE  KnownMeansCalled'
<1>1. ASSUME NEW s \in Site, InsertCallees(s), NEW f \in DOMAIN CallSitesMap'
      PROVE  CallSitesMap'[f] # {}
  <2>1. DOMAIN CallSitesMap' = DOMAIN CallSitesMap \cup {p[1] : p \in CallersOf(s)}
    BY <1>1 DEF InsertCallees, Inserted, InsertPairs
  <2>2. CASE f \in DOMAIN CallSitesMap
    <3>1. At(CallSitesMap, f) # {} /\ At(CallSitesMap, f) \subseteq At(CallSitesMap', f)
      BY <1>1, <2>2, InsertPairsAt DEF InsertCallees, Inserted, KnownMeansCalled, At
    <3> QED BY <1>1, <3>1 DEF At
  <2>3. CASE f \in {p[1] : p \in CallersOf(s)}
    <3>1. <<f, s>> \in CallersOf(s)
      BY <2>3 DEF CallersOf
    <3>2. s \in At(CallSitesMap', f)
      BY <1>1, <3>1, CallersOfType, InsertPairsMember DEF InsertCallees, Inserted
    <3> QED BY <1>1, <3>2 DEF At
  <2> QED BY <1>1, <2>1, <2>2, <2>3
<1>2. ASSUME UNCHANGED CallSitesMap
      PROVE  KnownMeansCalled'
  BY <1>2 DEF KnownMeansCalled
<1> QED BY <1>1, <1>2 DEF SolverNext, SkipWithoutCallees, KnownMeansCalled, solverVars

\* A function that the map contains has a call, so that "known" never stands
\* for "known to have none" (ICallSolver.h:20-26).
THEOREM KnownMeansCalledHolds == SolverSpec => []KnownMeansCalled
<1>1. SolverInit => KnownMeansCalled
  BY DEF SolverInit, KnownMeansCalled, EmptyMap
<1> QED BY <1>1, KnownStep, SolverTypeCorrect, PTL DEF SolverSpec

-----------------------------------------------------------------------------
(* The solver as a part of a program *)

\* The invariants that a step of the solver needs and keeps.
SolverInvariant == SolverTypeOK /\ OnlyVisited /\ KnownMeansCalled

LEMMA SolverInvariantStep ==
  ASSUME SolverInvariant, [SolverNext]_solverVars
  PROVE  SolverInvariant'
BY SolverTypeStep, OnlyVisitedStep, KnownStep DEF SolverInvariant
=============================================================================
