---------------------------- MODULE PipelineProofs ----------------------------
(***************************************************************************)
(* The program as a whole is correct for every module: what its components *)
(* leave for each other is enough, and what is printed in the end can be   *)
(* measured on the program that was compiled.  The invariants of the       *)
(* components are those of the modules that prove them.                    *)
(***************************************************************************)
EXTENDS Pipeline, EHGraphPrinterProofs, VCallCandidatesProofs, ICallSolverProofs

-----------------------------------------------------------------------------
(* The phases *)

\* Nothing was written or reported so far, and no loop of the driver entered.
NothingPrinted ==
  files \in OldFiles /\ reports = <<>> /\ uses = <<>> /\ opened = FALSE /\ stage = "users"

(***************************************************************************)
(* What is true in each phase: the invariants of the components hold as    *)
(* soon as they have been started, and until then they find nothing done.  *)
(***************************************************************************)
PhaseInvariant ==
  /\ M \in Modules
  /\ phase \in {"parse", "verify", "analyze", "solve", "print", "exit"}
  /\ status \in {"running", "success", "failure", "aborted"}
  /\ status = "running" <=> phase # "exit"
  /\ phase \in {"solve", "print"} => vpc = "done"
  /\ phase # "solve" => icalls = {}
  /\ phase \in {"parse", "verify", "analyze"} => CallSitesMap = EmptyMap
  /\ phase \in {"solve", "print"} => OnlyVisited
  /\ phase \in {"parse", "verify", "analyze", "solve"} => NothingPrinted
  /\ status = "failure" => NothingPrinted \/ stage = "failed"
  /\ status = "aborted" => vpc = "crashed" \/ (vpc = "done" /\ stage = "crashed")
  /\ CrashExplained
  /\ phase = "print" \/ status = "success" => DriverPosition /\ Accounted /\ FilesSoFar
  /\ status = "success" => stage = "returned"

PipelineInvariant ==
  /\ AnalyzerInvariant
  /\ SolverTypeOK /\ KnownMeansCalled
  /\ DriverInvariant
  /\ PhaseInvariant

\* What is read of the module has its type.
LEMMA ProgramType == ASSUME M \in Modules PROVE IsProgram(M)
  BY ProgramAssumption

\* At the beginning nothing is done.
LEMMA PipelineInvariantInit == ASSUME PipelineInit PROVE PipelineInvariant
<1>1. M \in Modules /\ AnalyzerInit
  BY DEF PipelineInit, AnalyzerInit
<1>2. AnalyzerInvariant
  BY <1>1, AnalyzerInvariantInit
<1>3. IsPrinterModule(M) /\ IsMap(M.callees, Site, SUBSET Function)
  BY <1>1, ProgramType DEF IsProgram
<1>4. /\ IsMap(CallSitesMap, Function, SUBSET Site)
      /\ IsMap(CallerMap, Function, SUBSET Site)
      /\ IsSubclassesMap(SubclassesMap)
      /\ IsChildsMap(ChildsMap)
  BY <1>1 DEF PipelineInit, AnalyzerInit, EmptyMap, IsMap, IsSubclassesMap, IsChildsMap
<1>5. SolverTypeOK /\ KnownMeansCalled
  BY <1>3, <1>4 DEF PipelineInit, SolverTypeOK, KnownMeansCalled, EmptyMap
<1>6. DOMAIN files \subseteq Nat
  BY OldFilesAssumption DEF PipelineInit
<1>7. functions \in Seq(Function) /\ uses \in Seq(Site) /\ reports \in Seq(Report)
      /\ I = Len(reports) /\ I \in Nat
  BY DEF PipelineInit
<1>8. DriverInvariant
  BY <1>3, <1>4, <1>6, <1>7 DEF PipelineInit, DriverInvariant, PrinterTypeOK
<1>9. PhaseInvariant
  BY <1>1 DEF PipelineInit, PhaseInvariant, NothingPrinted, CrashExplained
<1>10. QED
  BY <1>2, <1>5, <1>8, <1>9 DEF PipelineInvariant

\* To each component a step of the program is one of its own, the call that
\* starts it, or nothing.
LEMMA ComponentSteps ==
  ASSUME [PipelineNext]_pipelineVars
  PROVE  /\ [AnalyzerNext]_vcallVars
         /\ StartSolver \/ [SolverNext]_solverVars
         /\ Analyze \/ Solve \/ StartPrinter \/ [PrinterNext]_allVars
<1> USE DEF vcallVars, solverVars, analyzerVars
<1>1. CASE Analyze
  BY <1>1 DEF Analyze, AnalyzerNext, AnalyzerStart, SkipGlobal, RegisterVTable, CrashOnVTable,
              StartCalls, SkipCall, ResolveCall, CrashOnCall, Return
<1>2. CASE Solve
  BY <1>2 DEF Solve, SolverNext, SkipWithoutCallees, InsertCallees
<1>3. CASE StartPrinter
  BY <1>3 DEF StartPrinter, vars, analyses
<1>4. CASE PrintGraphs
  <2>1. PrinterNext /\ UNCHANGED <<analyzerVars, icalls>>
    BY <1>4 DEF PrintGraphs
  <2>2. UNCHANGED <<M, analyses>>
    BY <2>1, ProgramUnchanged
  <2>3. QED
    BY <2>1, <2>2 DEF analyses
<1>5. CASE StartSolver
  BY <1>5 DEF StartSolver, allVars, vars, analyses
<1>6. CASE Accept \/ Reject \/ Succeed \/ Fail \/ Abort \/ UNCHANGED pipelineVars
  BY <1>6 DEF Accept, Reject, Succeed, Fail, Abort, Exit, pipelineVars, allVars, vars, analyses
<1>7. QED
  BY <1>1, <1>2, <1>3, <1>4, <1>5, <1>6 DEF PipelineNext

\* The driver is about to enter its loops.
LoopsBegin == /\ IsPrinterModule(M) /\ functions = M.functions /\ files \in OldFiles
              /\ uses = <<>> /\ reports = <<>> /\ stage = "users"

\* All it maintains is true then.
LEMMA DriverBegins == LoopsBegin => DriverPosition /\ Accounted /\ FilesSoFar
  BY PositionInit, AccountedInit, NoFilesYet DEF LoopsBegin

\* So it is when the solver has returned.
LEMMA StartPrinterStep ==
  ASSUME PipelineInvariant, StartPrinter
  PROVE  DriverInvariant' /\ DriverPosition' /\ Accounted' /\ FilesSoFar'
<1>1. /\ UNCHANGED <<vars, uses, I, opened, files, reports, stage>>
      /\ functions' = M.functions /\ M' = M
  BY DEF StartPrinter, vars
<1>2. NothingPrinted
  BY DEF StartPrinter, PipelineInvariant, PhaseInvariant
<1>3. LoopsBegin'
  BY <1>1, <1>2
     DEF NothingPrinted, LoopsBegin, PipelineInvariant, DriverInvariant, PrinterTypeOK
<1>4. functions' \in Seq(Function)
  BY <1>3 DEF LoopsBegin, IsPrinterModule
<1>5. DriverInvariant'
  BY <1>1, <1>2, <1>3, <1>4
     DEF NothingPrinted, PipelineInvariant, DriverInvariant, PrinterTypeOK, vars, analyses
<1>6. DriverPosition' /\ Accounted' /\ FilesSoFar'
  BY <1>3, DriverBegins, PTL
<1>7. QED
  BY <1>5, <1>6

\* While the analyses run, the driver only sees their maps change.
LEMMA AnalysisStep ==
  ASSUME PipelineInvariant, Analyze \/ Solve, AnalyzerTypeOK', SolverTypeOK'
  PROVE  DriverInvariant' /\ NothingPrinted'
<1>1. NothingPrinted
  BY DEF Analyze, Solve, PipelineInvariant, PhaseInvariant
<1>2. UNCHANGED <<ChildsMap, printerVars>>
  BY DEF Analyze, Solve
<1>3. M' = M
  BY DEF Analyze, AnalyzerNext, AnalyzerStart, SkipGlobal, RegisterVTable, CrashOnVTable,
         StartCalls, SkipCall, ResolveCall, CrashOnCall, Return, Solve, SolverNext, SkipWithoutCallees, InsertCallees
<1>4. /\ IsMap(CallSitesMap', Function, SUBSET Site)
      /\ IsMap(CallerMap', Function, SUBSET Site)
      /\ IsSubclassesMap(SubclassesMap')
  BY DEF AnalyzerTypeOK, SolverTypeOK
<1>5. QED
  BY <1>1, <1>2, <1>3, <1>4
     DEF PipelineInvariant, DriverInvariant, PrinterTypeOK, NothingPrinted, printerVars

\* Each step keeps what is true in its phase, and leaves what the next one needs.
LEMMA PhaseStep ==
  ASSUME PipelineInvariant, [PipelineNext]_pipelineVars, AnalyzerTypeOK', SolverTypeOK'
  PROVE  DriverInvariant' /\ PhaseInvariant'
<1>1. SolverInvariant <=> OnlyVisited
  BY DEF SolverInvariant, PipelineInvariant
<1>2. AnalyzerTypeOK /\ DriverInvariant /\ PhaseInvariant
  BY DEF PipelineInvariant, AnalyzerInvariant
<1>3. CASE Analyze
  <2>1. DriverInvariant' /\ NothingPrinted'
    BY <1>3, AnalysisStep
  <2>2. /\ phase = "analyze" /\ UNCHANGED <<CallSitesMap, icalls, phase, status>> /\ M' = M
    BY <1>3, ComponentSteps DEF Analyze, AnalyzerNext, AnalyzerStart, SkipGlobal, RegisterVTable,
       CrashOnVTable, StartCalls, SkipCall, ResolveCall, CrashOnCall, Return
  <2>3. QED
    BY <1>2, <2>1, <2>2 DEF PhaseInvariant, NothingPrinted, CrashExplained
<1>4. CASE Solve
  <2>1. DriverInvariant' /\ NothingPrinted'
    BY <1>4, AnalysisStep
  <2>2. phase = "solve" /\ UNCHANGED <<phase, status, vpc>> /\ SolverNext
    BY <1>4 DEF Solve, analyzerVars
  <2>3. M' = M
    BY <2>2 DEF SolverNext, SkipWithoutCallees, InsertCallees
  <2>4. OnlyVisited'
    BY <1>2, <2>2, OnlyVisitedStep DEF PhaseInvariant, PipelineInvariant
  <2>5. QED
    BY <1>2, <2>1, <2>2, <2>3, <2>4 DEF PhaseInvariant, NothingPrinted, CrashExplained
<1>5. CASE StartSolver
  <2>1. /\ phase = "analyze" /\ phase' = "solve" /\ vpc = "done" /\ icalls' = Site
        /\ UNCHANGED <<allVars, vpc, status>>
    BY <1>5 DEF StartSolver, SolverCalls, analyzerVars
  <2>2. OnlyVisited'
    BY <1>2, <2>1 DEF PhaseInvariant, OnlyVisited, At, EmptyMap, allVars, vars, analyses
  <2>3. NothingPrinted'
    BY <1>2, <2>1 DEF PhaseInvariant, NothingPrinted, allVars, printerVars
  <2>4. DriverInvariant'
    BY <1>2, <2>1, DriverStep
  <2>5. QED
    BY <1>2, <2>1, <2>2, <2>3, <2>4 DEF PhaseInvariant, NothingPrinted, CrashExplained, allVars, vars
<1>6. CASE StartPrinter
  <2>1. DriverInvariant' /\ DriverPosition' /\ Accounted' /\ FilesSoFar'
    BY <1>6, StartPrinterStep
  <2>2. /\ phase = "solve" /\ phase' = "print" /\ icalls = {}
        /\ UNCHANGED <<M, CallSitesMap, vpc, icalls, status>>
    BY <1>6 DEF StartPrinter, vars, analyses, analyzerVars
  <2>3. OnlyVisited'
    BY <1>2, <2>2 DEF PhaseInvariant, OnlyVisited
  <2>4. stage' = "users"
    BY <1>2, <1>6, <2>2 DEF StartPrinter, PhaseInvariant, NothingPrinted
  <2>5. QED
    BY <1>2, <2>1, <2>2, <2>3, <2>4 DEF PhaseInvariant, CrashExplained
<1>7. CASE PrintGraphs
  <2>1. /\ phase = "print" /\ PrinterNext
        /\ UNCHANGED <<vpc, icalls, phase, status>>
    BY <1>7 DEF PrintGraphs, analyzerVars
  <2>2. UNCHANGED <<M, CallSitesMap>>
    BY <2>1, ProgramUnchanged DEF analyses
  <2>3. DriverInvariant' /\ DriverPosition' /\ Accounted' /\ FilesSoFar'
    BY <1>2, <2>1, DriverStep, PositionStep, AccountedStep, FilesStep DEF PhaseInvariant
  <2>4. OnlyVisited'
    BY <1>2, <2>1, <2>2 DEF PhaseInvariant, OnlyVisited
  <2>5. CrashExplained'
    BY <1>2, <2>1, CrashStep DEF PhaseInvariant
  <2>6. QED
    BY <1>2, <2>1, <2>2, <2>3, <2>4, <2>5 DEF PhaseInvariant
<1>8. CASE Accept \/ Reject \/ Succeed \/ Fail \/ Abort \/ UNCHANGED pipelineVars
  <2>1. UNCHANGED <<allVars, analyzerVars, icalls>>
    BY <1>8 DEF Accept, Reject, Succeed, Fail, Abort, Exit, pipelineVars
  <2>2. [PrinterNext]_allVars /\ UNCHANGED <<M, CallSitesMap, files, reports, uses, opened, stage, vpc, icalls>>
    BY <2>1 DEF allVars, vars, analyses, printerVars, analyzerVars
  <2>3. DriverInvariant'
    BY <1>2, <2>2, DriverStep
  <2>4. OnlyVisited' = OnlyVisited /\ NothingPrinted' = NothingPrinted
    BY <2>2 DEF OnlyVisited, NothingPrinted
  <2>5. phase = "print" \/ status = "success" => DriverPosition' /\ Accounted' /\ FilesSoFar'
    BY <1>2, <2>2, PositionStep, AccountedStep, FilesStep DEF PhaseInvariant
  <2>6. CrashExplained'
    <3>1. UNCHANGED <<M, analyses, reports, files, stage>>
      BY <2>1 DEF allVars, vars, printerVars
    <3>2. QED
      BY <1>2, <3>1, ReasonsUnchanged DEF PhaseInvariant, CrashExplained
  <2>7. CASE UNCHANGED <<phase, status>>
    BY <1>2, <2>2, <2>3, <2>4, <2>5, <2>6, <2>7 DEF PhaseInvariant
  <2>8. CASE Accept
    BY <1>2, <2>2, <2>3, <2>4, <2>5, <2>6, <2>8 DEF PhaseInvariant, Accept
  <2>9. CASE Reject
    BY <1>2, <2>2, <2>3, <2>4, <2>5, <2>6, <2>9 DEF PhaseInvariant, Reject, Exit
  <2>10. CASE Succeed
    BY <1>2, <2>2, <2>3, <2>4, <2>5, <2>6, <2>10 DEF PhaseInvariant, Succeed, Exit
  <2>11. CASE Fail
    BY <1>2, <2>2, <2>3, <2>4, <2>5, <2>6, <2>11 DEF PhaseInvariant, Fail, Exit
  <2>12. CASE Abort
    BY <1>2, <2>2, <2>3, <2>4, <2>5, <2>6, <2>12 DEF PhaseInvariant, Abort, Exit
  <2>13. QED
    BY <1>8, <2>7, <2>8, <2>9, <2>10, <2>11, <2>12 DEF pipelineVars
<1>9. QED
  BY <1>3, <1>4, <1>5, <1>6, <1>7, <1>8 DEF PipelineNext

\* No step of the program leaves the invariant.
LEMMA PipelineInvariantStep ==
  ASSUME PipelineInvariant, [PipelineNext]_pipelineVars
  PROVE  PipelineInvariant'
<1>1. AnalyzerInvariant'
  BY ComponentSteps, AnalyzerInvariantStep DEF PipelineInvariant
<1>2. SolverTypeOK' /\ KnownMeansCalled'
  <2>1. CASE StartSolver
    <3>1. UNCHANGED <<M, CallSitesMap>> /\ icalls' = Site
      BY <2>1 DEF StartSolver, SolverCalls, allVars, vars, analyses
    <3>2. QED
      BY <3>1 DEF PipelineInvariant, SolverTypeOK, KnownMeansCalled
  <2>2. CASE [SolverNext]_solverVars
    BY <2>2, SolverTypeStep, KnownStep DEF PipelineInvariant
  <2>3. QED
    BY <2>1, <2>2, ComponentSteps
<1>3. DriverInvariant' /\ PhaseInvariant'
  BY <1>1, <1>2, PhaseStep DEF AnalyzerInvariant
<1>4. QED
  BY <1>1, <1>2, <1>3 DEF PipelineInvariant

\* So it holds in every state of the program.
LEMMA PipelineInvariantHolds == PipelineSpec => []PipelineInvariant
  BY PipelineInvariantInit, PipelineInvariantStep, PTL DEF PipelineSpec

(***************************************************************************)
(* Every variable of the program keeps to its type, and each component     *)
(* finds the one before it finished (main.cpp:26-60).                      *)
(***************************************************************************)
THEOREM PipelineTypeCorrect == PipelineSpec => []PipelineTypeOK
<1>1. PipelineInvariant => PipelineTypeOK
  BY DEF PipelineInvariant, AnalyzerInvariant, DriverInvariant, PhaseInvariant, PipelineTypeOK
<1>2. QED
  BY <1>1, PipelineInvariantHolds, PTL

-----------------------------------------------------------------------------
(* The queries *)

\* Where a graph is built, what the analyses left is all there is to know.
LEMMA AnalysesFinished ==
  ASSUME PipelineInvariant, phase = "print"
  PROVE  /\ IsProgram(M)
         /\ \A f \in Function, s \in Site :
              s \in At(CallSitesMap, f) <=> s \in DOMAIN M.callees /\ f \in M.callees[s]
         /\ \A f \in DOMAIN CallSitesMap : CallSitesMap[f] # {}
         /\ vpc = "done" /\ globals = {}
         /\ CallsResolved /\ OnlyRealCallers /\ SubclassesExact
<1>1. IsProgram(M) /\ vpc = "done" /\ icalls = {} /\ OnlyVisited
  BY ProgramType DEF PipelineInvariant, PhaseInvariant
<1>2. AnalyzerTypeOK /\ RelatedSoFar /\ ResolvedSoFar /\ OnlyRealCallers /\ globals = {}
  BY <1>1 DEF PipelineInvariant, AnalyzerInvariant, AnalyzerTypeOK
<1>3. QED
  BY <1>1, <1>2, ResolvedExact, RelatedExact
     DEF PipelineInvariant, OnlyVisited, KnownMeansCalled

\* A function the solver has an entry for is named by some !callees.
LEMMA KnownIsNamed ==
  ASSUME PipelineInvariant, phase = "print", NEW f \in DOMAIN CallSitesMap
  PROVE  NamedByMetadata(f)
<1>1. f \in Function /\ CallSitesMap[f] \subseteq Site
  BY DEF PipelineInvariant, SolverTypeOK, IsMap
<1>2. PICK s \in Site : s \in At(CallSitesMap, f)
  BY <1>1, AnalysesFinished DEF At
<1>3. QED
  BY <1>1, <1>2, AnalysesFinished DEF NamedByMetadata

\* A call that may run a function, as an analysis claims, is among its callers.
LEMMA CallerFound ==
  ASSUME PipelineInvariant, phase = "print",
         NEW f \in Defined, NEW s \in Site, f \in MayRun(s), Claimed(s, f)
  PROVE  s \in Callers(f)
<1>1. f \in Function /\ f \notin M.declared
  BY DEF Defined
<1>2. CASE s \in DOMAIN M.called
  <2>1. f = M.called[s]
    BY <1>2 DEF MayRun
  <2>2. QED
    BY <1>2, <2>1, AnalysesFinished DEF IsProgram, Callers
<1>3. CASE s \notin DOMAIN M.called /\ s \in DOMAIN M.callees
  <2>1. f \in M.callees[s]
    BY <1>3 DEF MayRun
  <2>2. s \in At(CallSitesMap, f)
    BY <1>1, <1>3, <2>1, AnalysesFinished
  <2>3. QED
    BY <2>2 DEF Callers, IndirectCallers, getCallSites, At
<1>4. CASE s \notin DOMAIN M.called \cup DOMAIN M.callees
  <2>1. VirtuallyRuns(s, f) /\ ~NamedByMetadata(f) /\ f # PureVirtual
    BY <1>4 DEF Claimed
  <2>2. PICK ap \in AddressPoint :
          /\ \A id \in M.calls[s].tests : HasType(ap, id)
          /\ Hidden(ap) /\ Runs(s, ap, f)
    BY <2>1 DEF VirtuallyRuns
  <2>3. f \in DOMAIN CallerMap /\ s \in CallerMap[f]
    BY <1>1, <2>1, <2>2, AnalysesFinished DEF CallsResolved, VirtuallyRuns, Implemented
  <2>4. f \notin DOMAIN CallSitesMap
    BY <2>1, KnownIsNamed
  <2>5. QED
    BY <2>3, <2>4 DEF Callers, IndirectCallers, getCallerCandidates, At
<1>5. QED
  BY <1>2, <1>3, <1>4

\* A landing pad taken to catch does catch, or is one of those in doubt.
LEMMA CatchTaken ==
  ASSUME PipelineInvariant, phase = "print", NEW exception \in CurrentExceptions,
         NEW type \in TypesOf(exception), NEW s \in Site, canBeCaught(s, exception)
  PROVE  Stops(s, type) \/ Doubtful(s, exception, type)
<1>1. PICK clause \in M.landingPad[s] :
        \/ clause = CatchAll
        \/ /\ exception.value # External
           /\ clause = exception.value \/ derivedFrom(clause, exception.value)
        \/ exception.value = External /\ clause \in M.external
  BY DEF canBeCaught
<1>2. s \in DOMAIN M.landingPad /\ clause \in Clause
  BY AnalysesFinished DEF canBeCaught, IsProgram, IsPrinterModule, IsModule, IsMap
<1>3. CASE s \in M.rethrows
  BY <1>2, <1>3 DEF Doubtful
<1>4. CASE s \notin M.rethrows /\ clause \in M.stops[type]
  BY <1>1, <1>2, <1>4 DEF Stops
<1>5. CASE clause \notin M.stops[type]
  <2>1. type \in ThrownType /\ clause # CatchAll
    BY <1>5, AnalysesFinished DEF TypesOf, ThrownType, CurrentExceptions, IsProgram
  <2>2. CASE exception.value = External
    BY <1>1, <1>2, <2>1, <2>2 DEF Doubtful
  <2>3. CASE exception.value # External
    <3>1. type = exception.value /\ type \in TypeInfo /\ clause # type
      BY <1>5, <2>3, AnalysesFinished DEF TypesOf, CurrentExceptions, IsProgram
    <3>2. clause \in DOMAIN SubclassesMap /\ type \in SubclassesMap[clause]
      BY <1>1, <2>1, <2>3, <3>1 DEF derivedFrom
    <3>3. clause \in TypeInfo
      BY <1>2, <3>2, ClauseAssumption
         DEF PipelineInvariant, AnalyzerInvariant, AnalyzerTypeOK, IsSubclassesMap, IsMap
    <3>4. BaseByVTable(clause, type)
      BY <3>1, <3>2, <3>3, AnalysesFinished DEF SubclassesExact, BaseByVTable
    <3>5. QED
      BY <1>1, <1>2, <1>5, <3>4 DEF Doubtful
  <2>4. QED
    BY <2>2, <2>3
<1>6. QED
  BY <1>3, <1>4, <1>5

(***************************************************************************)
(* No caller is missed on the way through three components, for every      *)
(* module: what a call may run has it among its callers when a graph is    *)
(* constructed (EHGraphPrinter.cpp:93-100, 276-281).                       *)
(***************************************************************************)
THEOREM CallersCompleteHolds == PipelineSpec => []CallersComplete
<1>1. PipelineInvariant => CallersComplete
  BY CallerFound DEF CallersComplete
<1>2. QED
  BY <1>1, PipelineInvariantHolds, PTL

-----------------------------------------------------------------------------
(* The graphs *)

\* All three problems are propagation problems.
LEMMA ProblemTypes ==
  ASSUME PipelineInvariant, GraphBuilt, NEW type
  PROVE  /\ problem \in Problem
         /\ Truth(Exception, type) \in Problem
         /\ Foreseeable(Exception, type) \in Problem
<1>1. TypeOK
  BY DEF GraphBuilt, PipelineInvariant, DriverInvariant, PrinterTypeOK
<1>2. M.parent \in [Site -> Function] /\ Exception.throwSite \in Site
  BY <1>1 DEF TypeOK, IsModule, CurrentExceptions
<1>3. QED
  BY <1>1, <1>2, ProblemType DEF Truth, Foreseeable, Problem

\* The fields of the two that the code does not know.
LEMMA TruthFields ==
  ASSUME NEW exception, NEW type
  PROVE  LET truth == Truth(exception, type)
             foreseeable == Foreseeable(exception, type)
         IN  /\ truth.parent = M.parent /\ foreseeable.parent = M.parent
             /\ truth.throwSite = exception.throwSite
             /\ foreseeable.throwSite = exception.throwSite
             /\ truth.caught = {s \in Site : Stops(s, type)}
             /\ foreseeable.caught =
                  truth.caught \cup ({s \in Site : Doubtful(s, exception, type)}
                                       \ {exception.throwSite})
             /\ \A f \in Function :
                  /\ truth.callers[f] = {s \in Site : f \in MayRun(s)}
                  /\ foreseeable.callers[f] = {s \in truth.callers[f] : Claimed(s, f)}
  BY DEF Truth, Foreseeable

\* A call site is in a function with a body.
LEMMA ParentDefined ==
  ASSUME PipelineInvariant, phase = "print", NEW s \in Site
  PROVE  M.parent[s] \in Defined /\ M.parent[s] \in Function
  BY AnalysesFinished DEF IsProgram, IsPrinterModule, IsModule, Defined

\* The map that is printed is the graph of the problem that was constructed.
LEMMA MapIsGraph ==
  ASSUME PipelineInvariant, GraphBuilt
  PROVE  ChildsMap = GraphOf(problem, Escaping(problem)) /\ Exception \in CurrentExceptions
<1>1. TypeOK /\ LoopInvariant
  BY DEF GraphBuilt, PipelineInvariant, DriverInvariant, PrinterTypeOK
<1>2. QED
  BY <1>1, FinishedGraph DEF GraphBuilt, TypeOK

\* The constructed problem has the callers and lets pass what can be foreseen.
LEMMA ForeseeableCovered ==
  ASSUME PipelineInvariant, GraphBuilt, NEW type \in TypesOf(Exception)
  PROVE  Extends(problem, Foreseeable(Exception, type))
<1> DEFINE g == Foreseeable(Exception, type)
<1>1. phase = "print" /\ Exception \in CurrentExceptions
  BY MapIsGraph DEF GraphBuilt
<1>2. problem.parent = g.parent /\ problem.throwSite = g.throwSite
  BY ProblemFields, TruthFields
<1>3. ASSUME NEW e \in Site
      PROVE  g.callers[g.parent[e]] \subseteq problem.callers[g.parent[e]]
  <2> DEFINE f == M.parent[e]
  <2>1. f \in Defined /\ f \in Function /\ g.parent[e] = f
    BY <1>1, ParentDefined, TruthFields
  <2> HIDE DEF f
  <2>2. \A s \in g.callers[f] : s \in Site /\ f \in MayRun(s) /\ Claimed(s, f)
    BY <2>1, TruthFields
  <2>3. problem.callers[f] = Callers(f)
    BY <2>1, ProblemFields
  <2>4. QED
    BY <1>1, <2>1, <2>2, <2>3, CallerFound
<1>4. ASSUME NEW s \in Site, s \in problem.caught
      PROVE  s \in g.caught \cup {g.throwSite}
  <2>1. Stops(s, type) \/ Doubtful(s, Exception, type)
    BY <1>1, <1>4, ProblemFields, CatchTaken
  <2>2. QED
    BY <2>1, TruthFields
<1>5. problem.caught \subseteq Site
  BY DEF problem, ProblemOf
<1> HIDE DEF g
<1>6. Extends(problem, g)
  BY <1>2, <1>3, <1>4, <1>5 DEF Extends
<1>7. QED
  BY <1>6 DEF g

(***************************************************************************)
(* No path is missed, in any module: what an exception of a type the       *)
(* report stands for unwinds is in the graph, as long as the program makes *)
(* no call the analyses cannot resolve and meets no landing pad in doubt   *)
(* (EHGraphPrinter.cpp:26-107, 212, 276-281).                              *)
(***************************************************************************)
THEOREM NoPathMissedHolds == PipelineSpec => []NoPathMissed
<1>1. PipelineInvariant => NoPathMissed
  <2>1. SUFFICES ASSUME PipelineInvariant, GraphBuilt, NEW type \in TypesOf(Exception),
                        NEW f \in DOMAIN Happening(Foreseeable(Exception, type))
                 PROVE  /\ f \in DOMAIN ChildsMap
                        /\ Happening(Foreseeable(Exception, type))[f] \subseteq ChildsMap[f]
    BY DEF NoPathMissed
  <2> DEFINE g == Foreseeable(Exception, type)
  <2>2. Happening(g) = GraphOf(g, Escaping(g))
    BY <2>1 DEF Happening, EmptyMap
  <2>3. g \in Problem /\ problem \in Problem /\ Extends(problem, g)
    BY <2>1, ProblemTypes, ForeseeableCovered
  <2>4. ChildsMap = GraphOf(problem, Escaping(problem))
    BY <2>1, MapIsGraph
  <2>5. f \in DOMAIN GraphOf(g, Escaping(g))
    BY <2>1, <2>2
  <2> HIDE DEF g
  <2>6. f \in DOMAIN ChildsMap /\ GraphOf(g, Escaping(g))[f] \subseteq ChildsMap[f]
    BY <2>3, <2>4, <2>5, GraphMonotone
  <2>7. QED
    BY <2>2, <2>6 DEF g
<1>2. QED
  BY <1>1, PipelineInvariantHolds, PTL

\* Where nothing is uncertain, a caller is a call that may run the function.
LEMMA CallerReal ==
  ASSUME PipelineInvariant, phase = "print", NEW exception, Certain(exception),
         NEW f \in Defined, NEW s \in Site, s \in Callers(f)
  PROVE  f \in MayRun(s)
<1>1. f \in Function
  BY DEF Defined
<1>2. CASE s \in M.users[f]
  BY <1>2 DEF Certain, MayRun
<1>3. CASE f \in DOMAIN CallSitesMap /\ s \in IndirectCallers(f)
  <2>1. s \in DOMAIN M.callees /\ f \in M.callees[s]
    BY <1>1, <1>3, AnalysesFinished DEF IndirectCallers, getCallSites
  <2>2. QED
    BY <2>1 DEF Certain
<1>4. CASE f \notin DOMAIN CallSitesMap /\ s \in IndirectCallers(f)
  <2>1. f \in DOMAIN CallerMap /\ s \in CallerMap[f]
    BY <1>4 DEF IndirectCallers, getCallerCandidates, At
  <2>2. s \in DOMAIN M.calls
    BY <2>1, AnalysesFinished DEF OnlyRealCallers
  <2>3. PICK id \in M.calls[s].tests, ap \in AddressPoint :
          HasType(ap, id) /\ Hidden(ap) /\ Runs(s, ap, f)
    BY <2>1, AnalysesFinished DEF OnlyRealCallers
  <2>4. s \notin DOMAIN M.callees /\ M.calls[s].tests = {id}
    BY <2>2, <2>3 DEF Certain
  <2>5. s \notin DOMAIN M.called
    BY <2>2, AnalysesFinished DEF IsProgram
  <2>6. QED
    BY <1>1, <2>3, <2>4, <2>5 DEF MayRun
<1>5. QED
  BY <1>2, <1>3, <1>4 DEF Callers

\* And a landing pad is taken to catch exactly what it stops.
LEMMA CatchReal ==
  ASSUME PipelineInvariant, phase = "print", NEW exception \in CurrentExceptions,
         Certain(exception), NEW s \in Site
  PROVE  canBeCaught(s, exception) <=> Stops(s, exception.value)
<1> DEFINE type == exception.value
<1>1. type \in TypeInfo /\ type # External /\ M.rethrows = {}
  BY DEF CurrentExceptions, Certain
<1>2. ASSUME NEW clause \in Clause
      PROVE  derivedFrom(clause, type) <=> clause \in TypeInfo /\ BaseByVTable(clause, type)
  <2>1. derivedFrom(clause, type) => clause \in TypeInfo
    BY ClauseAssumption
       DEF derivedFrom, PipelineInvariant, AnalyzerInvariant, AnalyzerTypeOK, IsSubclassesMap, IsMap
  <2>2. clause \in TypeInfo => (derivedFrom(clause, type) <=> BaseByVTable(clause, type))
    BY <1>1, AnalysesFinished DEF SubclassesExact, BaseByVTable, derivedFrom
  <2>3. QED
    BY <2>1, <2>2
<1>3. s \in DOMAIN M.landingPad => M.landingPad[s] \subseteq Clause
  BY AnalysesFinished DEF IsProgram, IsPrinterModule, IsModule, IsMap
<1>4. ASSUME s \in DOMAIN M.landingPad, NEW clause \in M.landingPad[s]
      PROVE  clause \in M.stops[type] <=>
               clause = CatchAll \/ clause = type \/ derivedFrom(clause, type)
  <2>1. clause \in M.stops[type] <=>
          \/ clause \in {CatchAll, type}
          \/ clause \in TypeInfo /\ BaseByVTable(clause, type)
    BY <1>3, <1>4 DEF Certain
  <2>2. QED
    BY <1>2, <1>3, <1>4, <2>1
<1>5. canBeCaught(s, exception) <=>
        s \in DOMAIN M.landingPad /\ \E clause \in M.landingPad[s] :
          clause = CatchAll \/ clause = type \/ derivedFrom(clause, type)
  BY <1>1 DEF canBeCaught
<1>6. Stops(s, type) <=>
        s \in DOMAIN M.landingPad /\ \E clause \in M.landingPad[s] : clause \in M.stops[type]
  BY <1>1 DEF Stops
<1>7. QED
  BY <1>4, <1>5, <1>6

(***************************************************************************)
(* Where nothing is uncertain the graph is the truth, in any module and    *)
(* whichever of the components a call or a class goes through (the program *)
(* as a whole).                                                            *)
(***************************************************************************)
THEOREM ExactWhenCertainHolds == PipelineSpec => []ExactWhenCertain
<1>1. PipelineInvariant => ExactWhenCertain
  <2>1. SUFFICES ASSUME PipelineInvariant, GraphBuilt, Certain(Exception)
                 PROVE  ChildsMap = Happening(Truth(Exception, Exception.value))
    BY DEF ExactWhenCertain
  <2> DEFINE truth == Truth(Exception, Exception.value)
  <2>2. phase = "print" /\ Exception \in CurrentExceptions
    BY <2>1, MapIsGraph DEF GraphBuilt
  <2>3. /\ problem.parent = truth.parent /\ problem.throwSite = truth.throwSite
        /\ truth.parent = M.parent
    BY ProblemFields, TruthFields
  <2>4. ASSUME NEW e \in Site
        PROVE  truth.callers[M.parent[e]] = problem.callers[M.parent[e]]
    <3> DEFINE f == M.parent[e]
    <3>1. f \in Defined /\ f \in Function
      BY <2>1, <2>2, ParentDefined
    <3> HIDE DEF f
    <3>2. truth.callers[f] = {s \in Site : f \in MayRun(s)} /\ problem.callers[f] = Callers(f)
      BY <3>1, TruthFields, ProblemFields
    <3>3. \A s \in Site : f \in MayRun(s) => s \in Callers(f)
      BY <2>1, <2>2, <3>1, CallerFound DEF Certain
    <3>4. \A s \in Site : s \in Callers(f) => f \in MayRun(s)
      BY <2>1, <2>2, <3>1, CallerReal
    <3>5. Callers(f) \subseteq Site
      BY <2>1, <3>1, CallersType DEF GraphBuilt, PipelineInvariant, DriverInvariant, PrinterTypeOK
    <3>6. truth.callers[f] = problem.callers[f]
      BY <3>2, <3>3, <3>4, <3>5
    <3>7. QED
      BY <3>6 DEF f
  <2>5. truth.caught = problem.caught
    <3>1. \A s \in Site : s \in truth.caught <=> s \in problem.caught
      BY <2>1, <2>2, CatchReal, TruthFields, ProblemFields
    <3>2. truth.caught \subseteq Site /\ problem.caught \subseteq Site
      BY TruthFields DEF problem, ProblemOf
    <3>3. QED
      BY <3>1, <3>2
  <2>6. truth.throwSite \notin truth.caught
    BY <2>1, TruthFields DEF Certain, Stops
  <2>7. problem \in Problem /\ truth \in Problem
    BY <2>1, ProblemTypes
  <2> HIDE DEF truth
  <2>8. Extends(problem, truth) /\ Extends(truth, problem)
    BY <2>3, <2>4, <2>5 DEF Extends
  <2>9. ChildsMap = GraphOf(truth, Escaping(truth))
    BY <2>1, <2>7, <2>8, MapIsGraph, GraphEqual
  <2>10. QED
    BY <2>6, <2>9 DEF Happening, truth
<1>2. QED
  BY <1>1, PipelineInvariantHolds, PTL

-----------------------------------------------------------------------------
(* The status *)

(***************************************************************************)
(* What the status of the process says, whatever the module and whichever  *)
(* files could not be opened or written.  Success: every use was reported  *)
(* and each file that was opened is complete.  Failure: nothing was        *)
(* touched, or the last file, and only that, is incomplete                 *)
(* (main.cpp:46-60, EHGraphPrinter.cpp:252-267).                           *)
(***************************************************************************)
THEOREM StatusReliableHolds == PipelineSpec => []StatusReliable
<1>1. PipelineInvariant => StatusReliable
  <2>1. SUFFICES ASSUME PipelineInvariant PROVE StatusReliable
    OBVIOUS
  <2>2. ASSUME status = "success"
        PROVE  /\ \A use \in TrackedUses : \E k \in DOMAIN reports :
                    reports[k].exception.throwSite = use[2]
               /\ \A k \in Opened : files[k - 1] = Contents(reports[k])
    <3>1. DriverInvariant /\ DriverPosition /\ Accounted /\ FilesSoFar /\ stage = "returned"
      BY <2>1, <2>2 DEF PipelineInvariant, PhaseInvariant
    <3>2. \A use \in TrackedUses : \E k \in DOMAIN reports :
            reports[k].exception.throwSite = use[2]
      <4>1. \A use \in TrackedUses :
              \E k \in DOMAIN reports : reports[k].exception = CurrentException(M, use[2])
        BY <3>1, NothingRemains
      <4>2. \A s : CurrentException(M, s).throwSite = s
        BY DEF CurrentException
      <4>3. QED
        BY <4>1, <4>2
    <3>3. PICK old \in OldFiles : files = Directory(old)
      BY <3>1 DEF FilesSoFar
    <3>4. Begun = Opened
      BY <3>1 DEF Begun
    <3>5. \A k \in Opened : k \in Nat /\ (k - 1) + 1 = k
      BY <3>1, OpenedType
    <3>6. \A k \in Opened : files[k - 1] = Contents(reports[k])
      BY <3>3, <3>4, <3>5 DEF Directory
    <3>7. QED
      BY <3>2, <3>6
  <2>3. status = "failure" => (files \in OldFiles /\ reports = <<>>) \/ Truncated
    BY <2>1 DEF PipelineInvariant, PhaseInvariant, NothingPrinted, CrashExplained
  <2>4. QED
    BY <2>2, <2>3 DEF StatusReliable
<1>2. QED
  BY <1>1, PipelineInvariantHolds, PTL

(***************************************************************************)
(* The process aborts for no other reason than a hidden vtable with an     *)
(* unexpected type id, a hidden vtable defined elsewhere, or a function    *)
(* that may throw and is passed on, in any module                          *)
(* (IndirectCallAnalysis.cpp:50, 122, EHGraphPrinter.h:18).                *)
(***************************************************************************)
THEOREM AbortExplainedHolds == PipelineSpec => []AbortExplained
<1>1. PipelineInvariant => AbortExplained
  BY DEF PipelineInvariant, AnalyzerInvariant, PhaseInvariant, CrashHasReason, CrashExplained,
         AbortExplained
<1>2. QED
  BY <1>1, PipelineInvariantHolds, PTL

-----------------------------------------------------------------------------
(* Refinement *)

(***************************************************************************)
(* What the user sees of the program while it prints is a behaviour of     *)
(* Reporting, for the questions and answers the analyses have left: it     *)
(* begins as one when they have returned, and goes on as one               *)
(* (EHGraphPrinter.cpp:276-281).                                           *)
(***************************************************************************)
THEOREM ProgramReports ==
  PipelineSpec => /\ [][StartPrinter => R!Init']_pipelineVars
                  /\ [][phase = "print" => [R!Next]_R!vars]_pipelineVars
<1>1. ASSUME PipelineInvariant, StartPrinter
      PROVE  R!Init'
  <2>1. /\ files' \in OldFiles /\ reports' = <<>> /\ opened' = FALSE /\ stage' = "users"
    BY <1>1 DEF StartPrinter, PipelineInvariant, PhaseInvariant, NothingPrinted,
       DriverInvariant, PrinterTypeOK
  <2>2. QED
    BY <2>1 DEF R!Init, Answerable
<1>2. ASSUME PipelineInvariant, [PipelineNext]_pipelineVars, phase = "print"
      PROVE  [R!Next]_R!vars
  <2>1. DriverInvariant /\ DriverPosition /\ Accounted
    BY <1>2 DEF PipelineInvariant, PhaseInvariant
  <2>2. [PrinterNext]_allVars
    BY <1>2, ComponentSteps DEF Analyze, Solve, StartPrinter
  <2>3. QED
    BY <2>1, <2>2, ReportingStep
<1>3. PipelineInvariant /\ [PipelineNext]_pipelineVars =>
        /\ [StartPrinter => R!Init']_pipelineVars
        /\ [phase = "print" => [R!Next]_R!vars]_pipelineVars
  BY <1>1, <1>2
<1>4. QED
  BY <1>3, PipelineInvariantHolds, PTL DEF PipelineSpec

-----------------------------------------------------------------------------
(* Progress *)

\* How far the process is from its exit.
PhaseRank ==
  CASE phase = "parse" -> 5 [] phase = "verify" -> 4 [] phase = "analyze" -> 3
    [] phase = "solve" -> 2 [] phase = "print" -> 1 [] phase = "exit" -> 0

AnalysisRank ==
  CASE vpc = "start" -> 4 [] vpc = "globals" -> 3 [] vpc = "calls" -> 2
    [] vpc = "done" -> 1 [] vpc = "crashed" -> 0

\* What the two loops of analyze have still to do.
AnalysisToDo == <<AnalysisRank, Cardinality(globals), Cardinality(vcalls)>>

\* A visited element is no longer among those to visit.
LEMMA FewerToVisit ==
  ASSUME NEW S, IsFiniteSet(S), NEW s \in S
  PROVE  /\ Cardinality(S) \in Nat /\ Cardinality(S \ {s}) \in Nat
         /\ Cardinality(S \ {s}) < Cardinality(S)
<1>1. Cardinality(S \ {s}) = Cardinality(S) - 1 /\ IsFiniteSet(S \ {s})
  BY FS_RemoveElement
<1>2. Cardinality(S) \in Nat /\ Cardinality(S \ {s}) \in Nat
  BY <1>1, FS_CardinalityType
<1>3. QED
  BY <1>1, <1>2

\* Each iteration of analyze visits a global or a call, or ends a loop.
LEMMA AnalysisToDoLess ==
  ASSUME AnalyzerTypeOK, AnalyzerNext
  PROVE  Less(AnalysisToDo', AnalysisToDo)
<1>1. IsFiniteSet(globals) /\ IsFiniteSet(vcalls)
  BY GlobalAssumption, SiteAssumption, FS_Subset DEF AnalyzerTypeOK
<1>2. CASE AnalyzerStart \/ StartCalls \/ Return
  BY <1>2 DEF AnalyzerStart, StartCalls, Return, AnalysisToDo, AnalysisRank, Less
<1>3. ASSUME NEW gv \in Global, SkipGlobal(gv) \/ RegisterVTable(gv)
      PROVE  Less(AnalysisToDo', AnalysisToDo)
  <2>1. gv \in globals /\ globals' = globals \ {gv} /\ AnalysisRank' = AnalysisRank
    BY <1>3 DEF SkipGlobal, RegisterVTable, AnalysisRank
  <2>2. Cardinality(globals') < Cardinality(globals)
    BY <1>1, <2>1, FewerToVisit
  <2>3. QED
    BY <2>1, <2>2 DEF AnalysisToDo, Less
<1>4. ASSUME NEW s \in Site, SkipCall(s) \/ ResolveCall(s)
      PROVE  Less(AnalysisToDo', AnalysisToDo)
  <2>1. s \in vcalls /\ vcalls' = vcalls \ {s} /\ UNCHANGED <<AnalysisRank, globals>>
    BY <1>4 DEF SkipCall, ResolveCall, AnalysisRank
  <2>2. Cardinality(vcalls') < Cardinality(vcalls)
    BY <1>1, <2>1, FewerToVisit
  <2>3. QED
    BY <2>1, <2>2 DEF AnalysisToDo, Less
<1>5. ASSUME NEW s \in Site, CrashOnCall(s)
      PROVE  Less(AnalysisToDo', AnalysisToDo)
  BY <1>5 DEF CrashOnCall, AnalysisToDo, AnalysisRank, Less
<1>6. ASSUME NEW gv \in Global, CrashOnVTable(gv)
      PROVE  Less(AnalysisToDo', AnalysisToDo)
  BY <1>6 DEF CrashOnVTable, AnalysisToDo, AnalysisRank, Less
<1>7. QED
  BY <1>2, <1>3, <1>4, <1>5, <1>6 DEF AnalyzerNext

\* So does each iteration of solve.
LEMMA SolverToDoLess ==
  ASSUME SolverTypeOK, SolverNext
  PROVE  Cardinality(icalls') < Cardinality(icalls)
<1>1. IsFiniteSet(icalls)
  BY SiteAssumption, FS_Subset DEF SolverTypeOK
<1>2. PICK s \in icalls : icalls' = icalls \ {s}
  BY DEF SolverNext, SkipWithoutCallees, InsertCallees
<1>3. QED
  BY <1>1, <1>2, FewerToVisit

\* What is left to do is something that cannot decrease for ever.
LEMMA WorkType ==
  ASSUME PipelineInvariant
  PROVE  /\ PhaseRank \in 0..5
         /\ AnalysisToDo \in Triple
         /\ Cardinality(icalls) \in Nat
         /\ LoopsToDo \in Triple
         /\ stage = "graph" => ToDo \in Triple
<1>1. AnalyzerTypeOK /\ SolverTypeOK /\ DriverInvariant /\ PhaseInvariant
  BY DEF PipelineInvariant, AnalyzerInvariant
<1>2. PhaseRank \in 0..5
  BY <1>1 DEF PhaseInvariant, PhaseRank
<1>3. Cardinality(globals) \in Nat /\ Cardinality(vcalls) \in Nat /\ Cardinality(icalls) \in Nat
  BY <1>1, GlobalAssumption, SiteAssumption, FS_Subset, FS_CardinalityType
     DEF AnalyzerTypeOK, SolverTypeOK
<1>4. AnalysisToDo \in Triple
  BY <1>1, <1>3 DEF AnalysisToDo, AnalysisRank, Triple, AnalyzerTypeOK
<1>5. LoopsToDo \in Triple /\ (stage = "graph" => ToDo \in Triple)
  BY <1>1, ToDoType DEF DriverInvariant, PrinterTypeOK, LoopsToDo, Triple
<1>6. QED
  BY <1>2, <1>3, <1>4, <1>5

(***************************************************************************)
(* What makes the program end: each step leads to a later phase, or stays  *)
(* in one and leaves less to do in its loops -- those of analyze and of    *)
(* solve, those of the driver, or the construction inside them (the safety *)
(* half of ProgramEnds, main.cpp:26-60).                                   *)
(***************************************************************************)
THEOREM ProgramAdvances ==
  PipelineSpec =>
    /\ [](/\ PhaseRank \in 0..5
          /\ AnalysisToDo \in Triple
          /\ Cardinality(icalls) \in Nat
          /\ LoopsToDo \in Triple
          /\ stage = "graph" => ToDo \in Triple)
    /\ [][\/ PhaseRank' < PhaseRank
          \/ /\ phase' = phase
             /\ \/ phase = "analyze" /\ Less(AnalysisToDo', AnalysisToDo)
                \/ phase = "solve" /\ Cardinality(icalls') < Cardinality(icalls)
                \/ phase = "print" /\ Less(LoopsToDo', LoopsToDo)
                \/ /\ phase = "print"
                   /\ LoopsToDo' = LoopsToDo /\ Less(ToDo', ToDo)]_pipelineVars
<1> DEFINE Advance ==
      \/ PhaseRank' < PhaseRank
      \/ /\ phase' = phase
         /\ \/ phase = "analyze" /\ Less(AnalysisToDo', AnalysisToDo)
            \/ phase = "solve" /\ Cardinality(icalls') < Cardinality(icalls)
            \/ phase = "print" /\ Less(LoopsToDo', LoopsToDo)
            \/ /\ phase = "print"
               /\ LoopsToDo' = LoopsToDo /\ Less(ToDo', ToDo)
<1>1. ASSUME PipelineInvariant, PipelineNext
      PROVE  Advance
  <2>1. AnalyzerTypeOK /\ SolverTypeOK /\ DriverInvariant
    BY <1>1 DEF PipelineInvariant, AnalyzerInvariant
  <2>2. CASE Accept \/ Reject \/ StartSolver \/ StartPrinter \/ Succeed \/ Fail \/ Abort
    <3>1. PhaseRank' < PhaseRank
      BY <2>2 DEF Accept, Reject, StartSolver, StartPrinter, Succeed, Fail, Abort, Exit, PhaseRank
    <3>2. QED
      BY <3>1
  <2>3. CASE Analyze
    BY <2>1, <2>3, AnalysisToDoLess DEF Analyze
  <2>4. CASE Solve
    BY <2>1, <2>4, SolverToDoLess DEF Solve
  <2>5. CASE PrintGraphs
    BY <2>1, <2>5, LoopsToDoLess DEF PrintGraphs
  <2>6. QED
    BY <1>1, <2>2, <2>3, <2>4, <2>5 DEF PipelineNext
<1>2. PipelineInvariant /\ [PipelineNext]_pipelineVars => [Advance]_pipelineVars
  BY <1>1
<1> HIDE DEF Advance
<1>3. QED
  BY <1>2, WorkType, PipelineInvariantHolds, PTL DEF PipelineSpec, Advance
=============================================================================
