------------------------------- MODULE Pipeline -------------------------------
(***************************************************************************)
(* The whole program: main and runPasses (src/main.cpp) and the pass's run *)
(* (src/EHGraphPrinter.cpp).  The input is read and verified, the vtables  *)
(* and virtual calls are analyzed, the !callees metadata is inverted, and  *)
(* with what these leave in their maps the graphs are printed.             *)
(*                                                                         *)
(* The composition is what the result can be measured on: not against the  *)
(* callers and catches the construction asks for, but against the calls    *)
(* the program may make and the clauses that take its exceptions.          *)
(***************************************************************************)
EXTENDS EHGraphPrinter, VCallCandidates, ICallSolver

CONSTANT
  Foreign     \* the type of an exception that has no type info in this module

VARIABLES
  phase,      \* "parse", "verify", "analyze", "solve", "print" or "exit"
  status      \* of the process: "running", "success", "failure" or "aborted"

pipelineVars == <<allVars, analyzerVars, icalls, phase, status>>

(***************************************************************************)
(* All that is read of a module, and two facts about the program it was    *)
(* compiled from, which are not in it:                                     *)
(*   stops     the clauses that take an exception of some type             *)
(*   rethrows  the calls whose handler calls __cxa_rethrow                 *)
(***************************************************************************)
ThrownType == TypeInfo \cup {Foreign}

IsProgram(m) ==
  /\ IsPrinterModule(m)
  /\ IsVCallModule(m)
  /\ IsMap(m.callees, Site, SUBSET Function)
  /\ DOMAIN m.called \cap (DOMAIN m.callees \cup DOMAIN m.calls) = {}
  /\ \A s \in DOMAIN m.called : s \in m.users[m.called[s]]
  /\ \A s \in Site : m.parent[s] \notin m.declared
  /\ m.stops \in [ThrownType -> SUBSET Clause]
  /\ \A type \in ThrownType : CatchAll \in m.stops[type]
  /\ \A type \in TypeInfo : type \in m.stops[type]
  /\ m.rethrows \subseteq Site

ASSUME ProgramAssumption == \A m \in Modules : IsProgram(m)

-----------------------------------------------------------------------------
(* Steps *)

PipelineInit ==
  /\ AnalyzerInit
  /\ CallSitesMap = EmptyMap /\ icalls = {}
  /\ Exception = NoException
  /\ ChildsMap = EmptyMap
  /\ ToVisit = <<>> /\ Visited = {} /\ Leafs = {} /\ Leaked = FALSE /\ pc = "done"
  /\ functions = <<>> /\ uses = <<>> /\ I = 0 /\ opened = FALSE
  /\ files \in OldFiles
  /\ reports = <<>>
  /\ stage = "users"
  /\ phase = "parse"
  /\ status = "running"

Exit(result) ==
  /\ phase' = "exit"
  /\ status' = result
  /\ UNCHANGED <<allVars, analyzerVars, icalls>>

\* parseIRFile finds no module, or verifyModule a broken one.
Reject ==
  /\ phase \in {"parse", "verify"}
  /\ Exit("failure")

Accept ==
  /\ phase \in {"parse", "verify"}
  /\ phase' = IF phase = "parse" THEN "verify" ELSE "analyze"
  /\ UNCHANGED <<allVars, analyzerVars, icalls, status>>

\* VCallAnalyzer.analyze()
Analyze ==
  /\ phase = "analyze"
  /\ AnalyzerNext
  /\ UNCHANGED <<CallSitesMap, Exception, ChildsMap, ToVisit, Visited, Leafs, Leaked, pc,
                 printerVars, icalls, phase, status>>

\* Mutant: the second analysis is not run.
SolverCallsNone == {}

SolverCalls == Site

\* analyze() has returned; solve() begins.
StartSolver ==
  /\ phase = "analyze" /\ vpc = "done"
  /\ phase' = "solve"
  /\ icalls' = SolverCalls
  /\ UNCHANGED <<allVars, analyzerVars, status>>

\* ICallSolver.solve()
Solve ==
  /\ phase = "solve"
  /\ SolverNext
  /\ UNCHANGED <<CallerMap, SubclassesMap, Exception, ChildsMap, ToVisit, Visited, Leafs,
                 Leaked, pc, printerVars, analyzerVars, phase, status>>

\* solve() has returned; doEHGraphDOTPrinting() begins.
StartPrinter ==
  /\ phase = "solve" /\ icalls = {}
  /\ phase' = "print"
  /\ functions' = M.functions
  /\ UNCHANGED <<vars, uses, I, opened, files, reports, stage, analyzerVars, icalls, status>>

PrintGraphs ==
  /\ phase = "print"
  /\ PrinterNext
  /\ UNCHANGED <<analyzerVars, icalls, phase, status>>

Succeed ==
  /\ phase = "print" /\ stage = "returned"
  /\ Exit("success")

\* The stream's destructor ends the process with the status of a rejected input.
Fail ==
  /\ phase = "print" /\ stage = "failed"
  /\ Exit("failure")

\* No status at all: llvm_unreachable, or a null pointer that is dereferenced.
Abort ==
  /\ \/ phase = "analyze" /\ vpc = "crashed"
     \/ phase = "print" /\ stage = "crashed"
  /\ Exit("aborted")

PipelineNext ==
  \/ Accept \/ Reject
  \/ Analyze \/ StartSolver \/ Solve \/ StartPrinter \/ PrintGraphs
  \/ Succeed \/ Fail \/ Abort

PipelineSpec ==
  PipelineInit /\ [][PipelineNext]_pipelineVars /\ WF_pipelineVars(PipelineNext)

-----------------------------------------------------------------------------
(* What happens when the program that was compiled runs *)

\* The functions call s may run: by its callee, its !callees, its type tests.
MayRun(s) ==
  IF s \in DOMAIN M.called THEN {M.called[s]}
  ELSE {f \in Function :
          /\ s \in DOMAIN M.callees => f \in M.callees[s]
          /\ s \in DOMAIN M.calls /\ M.calls[s].tests # {} =>
               \E ap \in AddressPoint :
                 /\ \A id \in M.calls[s].tests : HasType(ap, id)
                 /\ Runs(s, ap, f)}

\* Call s is tested for classes this module names, and a hidden one runs f.
VirtuallyRuns(s, f) ==
  /\ s \in DOMAIN M.calls
  /\ M.calls[s].tests # {} /\ M.calls[s].tests \subseteq TypeId
  /\ \E ap \in AddressPoint :
       /\ \A id \in M.calls[s].tests : HasType(ap, id)
       /\ Hidden(ap) /\ Runs(s, ap, f)

\* Some call names f in its !callees.
NamedByMetadata(f) == \E s \in DOMAIN M.callees : f \in M.callees[s]

\* The program's analyses claim to find the callers of f at s.
Claimed(s, f) ==
  \/ s \in DOMAIN M.called \cup DOMAIN M.callees
  \/ VirtuallyRuns(s, f) /\ ~NamedByMetadata(f) /\ f # PureVirtual

Stops(s, type) ==
  /\ s \in DOMAIN M.landingPad \ M.rethrows
  /\ M.landingPad[s] \cap M.stops[type] # {}

\* A hidden vtable of the derived class has an address point for the base.
BaseByVTable(base, derived) ==
  \E ap \in AddressPoint, id \in TypeId :
    /\ Hidden(ap) /\ HasType(ap, id)
    /\ M.typeInfo[ap.vtable] = derived /\ M.baseInfo[id] = base

\* The landing pad may let the exception pass although it looks as if it stops
\* it: it rethrows, the type is not known, or the base is not accessible.
Doubtful(s, exception, type) ==
  /\ s \in DOMAIN M.landingPad
  /\ \/ s \in M.rethrows
     \/ exception.value = External /\ M.landingPad[s] \cap M.external # {}
     \/ \E base \in M.landingPad[s] \ M.stops[type] : BaseByVTable(base, type)

TypesOf(exception) ==
  IF exception.value = External THEN ThrownType ELSE {exception.value}

\* The propagation that happens, callers and catches being what they are.
Truth(exception, type) ==
  [parent |-> M.parent, throwSite |-> exception.throwSite,
   callers |-> [f \in Function |-> {s \in Site : f \in MayRun(s)}],
   caught |-> {s \in Site : Stops(s, type)}]

\* The part of it that meets no call the analyses do not claim to resolve and
\* no landing pad in doubt.
Foreseeable(exception, type) ==
  LET truth == Truth(exception, type)
  IN  [truth EXCEPT
         !.callers = [f \in Function |-> {s \in truth.callers[f] : Claimed(s, f)}],
         !.caught = @ \cup ({s \in Site : Doubtful(s, exception, type)}
                               \ {exception.throwSite})]

\* An exception that the landing pad of its throw site stops leaves no function.
Happening(g) == IF g.throwSite \in g.caught THEN EmptyMap ELSE GraphOf(g, Escaping(g))

-----------------------------------------------------------------------------
(* Properties *)

\* Every variable keeps to its type, and each phase finds what the one before it
\* was to leave: finished analyses, fixed maps.
PipelineTypeOK ==
  /\ AnalyzerTypeOK /\ SolverTypeOK
  /\ PrinterTypeOK
  /\ phase \in {"parse", "verify", "analyze", "solve", "print", "exit"}
  /\ status \in {"running", "success", "failure", "aborted"}
  /\ status = "running" <=> phase # "exit"
  /\ phase \in {"solve", "print"} => vpc = "done"
  /\ phase # "solve" => icalls = {}

Defined == Function \ M.declared

(***************************************************************************)
(* No caller is missed on the way through three components: when a graph   *)
(* is constructed, a call that may run a function is among its callers,    *)
(* unless nothing in the module says what it may run, or the function is   *)
(* virtual and also named by some !callees                                 *)
(* (EHGraphPrinter.cpp:93-100, 276-281).                                   *)
(***************************************************************************)
CallersComplete ==
  phase = "print" /\ stage = "graph" /\ pc = "start" =>
    \A f \in Defined, s \in Site :
      f \in MayRun(s) /\ Claimed(s, f) => s \in Callers(f)

GraphBuilt == phase = "print" /\ stage = "graph" /\ pc = "done"

(***************************************************************************)
(* No path is missed: every function that an exception of the type may     *)
(* unwind, every call it leaves on the way and its leaving main are in the *)
(* graph, as long as it meets no unresolved call and no landing pad that   *)
(* rethrows, is taken to catch a type that is not known, or names a base   *)
(* that is not accessible (EHGraphPrinter.cpp:26-107, 212, 276-281).       *)
(***************************************************************************)
NoPathMissed ==
  GraphBuilt =>
    \A type \in TypesOf(Exception) :
      LET graph == Happening(Foreseeable(Exception, type))
      IN  \A f \in DOMAIN graph : f \in DOMAIN ChildsMap /\ graph[f] \subseteq ChildsMap[f]

\* Nothing is uncertain for this exception: users are calls, all calls are
\* resolved, each by one type test, and clauses take what their vtables say.
Certain(exception) ==
  /\ exception.value # External
  /\ \A f \in Defined, s \in Site :
       /\ s \in M.users[f] => s \in DOMAIN M.called /\ M.called[s] = f
       /\ f \in MayRun(s) => Claimed(s, f)
       /\ s \in DOMAIN M.callees /\ f \in M.callees[s] => f \in MayRun(s)
  /\ \A s \in DOMAIN M.calls :
       s \notin DOMAIN M.callees /\ \E id \in TypeId : M.calls[s].tests = {id}
  /\ M.rethrows = {} /\ exception.throwSite \notin DOMAIN M.landingPad
  /\ \A s \in DOMAIN M.landingPad, clause \in Clause :
       clause \in M.landingPad[s] =>
         (clause \in M.stops[exception.value] <=>
            \/ clause \in {CatchAll, exception.value}
            \/ clause \in TypeInfo /\ BaseByVTable(clause, exception.value))

(***************************************************************************)
(* Where nothing is uncertain the graph is the truth: all that happens and *)
(* no more, whichever of the components a call or a class goes through     *)
(* (the program as a whole).                                               *)
(***************************************************************************)
ExactWhenCertain ==
  GraphBuilt /\ Certain(Exception) =>
    ChildsMap = Happening(Truth(Exception, Exception.value))

(***************************************************************************)
(* What the status of the process says.  Success: every use of a function  *)
(* that may throw was reported and each file opened for one holds what it  *)
(* should -- but not that a file could be opened.  Failure: the input was  *)
(* rejected and nothing was touched, or a write failed and the files of    *)
(* this run are as they should be, but for the last, which is incomplete;  *)
(* the status alone does not tell which                                    *)
(* (main.cpp:46-60, EHGraphPrinter.cpp:252-267).                           *)
(***************************************************************************)
StatusReliable ==
  /\ status = "success" => /\ \A use \in TrackedUses : \E k \in DOMAIN reports :
                                reports[k].exception.throwSite = use[2]
                           /\ \A k \in Opened : files[k - 1] = Contents(reports[k])
  /\ status = "failure" => \/ files \in OldFiles /\ reports = <<>>
                           \/ Truncated

(***************************************************************************)
(* The process aborts for no other reason than a hidden vtable with a type *)
(* id that does not begin with _ZTS, a hidden vtable a call can meet and   *)
(* that is defined elsewhere, or a function that may throw among the       *)
(* operands of an indirect call; the last comes after an analysis that     *)
(* succeeded (IndirectCallAnalysis.cpp:50, 122, EHGraphPrinter.h:18).      *)
(***************************************************************************)
AbortExplained ==
  status = "aborted" => \/ MeetsOpaque \/ Misnamed
                        \/ vpc = "done" /\ PassedOn

(***************************************************************************)
(* The program ends, on every module and whatever fails: three loops over  *)
(* the module, and one construction per use (the program as a whole).      *)
(***************************************************************************)
ProgramEnds == <>(phase = "exit")
=============================================================================
