---------------------------- MODULE EHGraphPrinter ----------------------------
(***************************************************************************)
(* doEHGraphDOTPrinting (src/EHGraphPrinter.cpp): for every user of every  *)
(* function that may throw, open a file, construct the graph, report it    *)
(* and, unless it is too large, write it.  The constructions are those of  *)
(* EHGraphDOTInfo, step by step, and share its static map.                 *)
(***************************************************************************)
EXTENDS EHGraphDOTInfo

CONSTANTS
  Programs,       \* the modules, with the results of both analyses
  NodeThreshold,  \* the option -threshold
  NoException,    \* no call has been looked at yet
  Empty,          \* the contents of a file that was opened, not written
  Partial,        \* the contents of a file after a write error
  OldFiles        \* what an earlier run may have left in -output-dir

(***************************************************************************)
(* What the driver and the writer read of the module, besides.             *)
(*   functions   its functions, in their order                             *)
(*   declared    the functions without a body                              *)
(*   nounwind    the functions with that attribute                         *)
(*   runtime     names that begin with __cxa, except __cxa_throw           *)
(*   globalInit  names that begin with _GLOBAL_                            *)
(*   called      the called function of a direct call; an indirect call is *)
(*               not in its domain (getCalledFunction() is null)           *)
(*   aggregate   the functions with a ConstantAggregate among their users  *)
(*   internal    the functions with internal linkage                       *)
(***************************************************************************)
IsPrinterModule(m) ==
  /\ IsModule(m)
  /\ m.functions \in Seq(Function) /\ ToSet(m.functions) = Function
  /\ Len(m.functions) = Cardinality(Function)
  /\ m.declared \subseteq Function /\ m.nounwind \subseteq Function
  /\ m.runtime \subseteq Function /\ m.globalInit \subseteq Function
  /\ m.aggregate \subseteq Function /\ m.internal \subseteq Function
  /\ IsMap(m.called, Site, Function)
  /\ DOMAIN m.thrown \subseteq DOMAIN m.called

ASSUME ProgramsAssumption ==
  \A p \in Programs :
    /\ IsPrinterModule(p.M)
    /\ IsMap(p.CallSitesMap, Function, SUBSET Site)
    /\ IsMap(p.CallerMap, Function, SUBSET Site)
    /\ IsSubclassesMap(p.SubclassesMap)
ASSUME NoExceptionAssumption == NoException \notin CurrentExceptions
ASSUME NodeThresholdAssumption == NodeThreshold \in Nat
ASSUME OldFilesAssumption ==
  \A old \in OldFiles : DOMAIN old \subseteq Nat /\ old = [n \in DOMAIN old |-> old[n]]

VARIABLES
  functions,  \* the functions the outer loop has still to visit, in order
  uses,       \* the users the inner loop has still to visit; <<>> between two
  I,          \* the number of the next file
  opened,     \* the file at hand could be opened (!EC)
  files,      \* the contents of the output directory
  reports,    \* what was printed for each graph
  stage       \* "users", "graph", "returned", "crashed" or "failed"

printerVars == <<functions, uses, I, opened, files, reports, stage>>
allVars == <<vars, printerVars>>

-----------------------------------------------------------------------------
(* What is printed *)

shouldTrackFunction(f) == f \notin M.runtime /\ f \in M.declared /\ f \notin M.nounwind

\* getNodeAttributes, the value the colors are computed from.
ColorValue(entry, node) ==
  IF node = entry THEN 99
  ELSE IF node \in M.aggregate THEN 33
  ELSE IF node \notin M.internal THEN 66
  ELSE 0

\* WriteGraph, with the traits' name, labels, nodes, edges and colors.
Drawing(exception, map) ==
  LET entry == M.parent[exception.throwSite]
  IN  [name   |-> <<exception, entry>>,
       throws |-> entry,
       nodes  |-> [f \in DOMAIN map |-> ColorValue(entry, f)],
       edges  |-> UNION {{f} \X map[f] : f \in DOMAIN map}]

Size(map) == Cardinality(DOMAIN map)

\* Mutant: the threshold is exclusive.
ShouldPrintBelow(map) == Size(map) < NodeThreshold

ShouldPrint(map) == Size(map) <= NodeThreshold

-----------------------------------------------------------------------------
(* Steps *)

PrinterInit ==
  /\ \E p \in Programs :
       /\ M = p.M
       /\ CallSitesMap = p.CallSitesMap
       /\ CallerMap = p.CallerMap
       /\ SubclassesMap = p.SubclassesMap
  /\ Exception = NoException
  /\ ChildsMap = EmptyMap
  /\ ToVisit = <<>> /\ Visited = {} /\ Leafs = {} /\ Leaked = FALSE /\ pc = "done"
  /\ functions = M.functions
  /\ uses = <<>>
  /\ I = 0
  /\ opened = FALSE
  /\ files \in OldFiles
  /\ reports = <<>>
  /\ stage = "users"

F == Head(functions)

SkipFunction ==
  /\ stage = "users" /\ uses = <<>> /\ functions # <<>>
  /\ ~shouldTrackFunction(F) \/ M.users[F] = {}
  /\ functions' = Tail(functions)
  /\ UNCHANGED <<vars, uses, I, opened, files, reports, stage>>

TrackFunction ==
  /\ stage = "users" /\ uses = <<>> /\ functions # <<>>
  /\ shouldTrackFunction(F) /\ M.users[F] # {}
  /\ functions' = Tail(functions)
  /\ uses' \in Orders(M.users[F], RepeatedUses)
  /\ UNCHANGED <<vars, I, opened, files, reports, stage>>

User == Head(uses)

Skipped(s) == M.parent[s] \in M.globalInit

\* Mutant: break instead of continue.
RestNone == <<>>

Rest == Tail(uses)

SkipUser ==
  /\ stage = "users" /\ uses # <<>>
  /\ Skipped(User)
  /\ uses' = Rest
  /\ UNCHANGED <<vars, functions, I, opened, files, reports, stage>>

\* Mutant: the counter moves on only when the file is opened.
NextNumberIfOpened == I' = IF opened' THEN I + 1 ELSE I

NextNumber == I' = I + 1

\* The file is created, or not, before anything is known of the graph.
OpenFile ==
  /\ stage = "users" /\ uses # <<>>
  /\ ~Skipped(User)
  /\ opened' \in BOOLEAN
  /\ files' = IF opened' THEN [n \in DOMAIN files \cup {I} |->
                                 IF n = I THEN Empty ELSE files[n]]
                         ELSE files
  /\ NextNumber

\* Mutant: the visited sites outlive the construction they belong to.
FreshVisitedKept == UNCHANGED Visited

FreshVisited == Visited' = {}

\* A new CurrentException, a new EHGraphDOTInfo; the static map stays.
BeginGraph ==
  /\ OpenFile
  /\ User \in DOMAIN M.called
  /\ Exception' = CurrentException(M, User)
  /\ ToVisit' = <<>> /\ FreshVisited /\ Leafs' = {} /\ Leaked' = FALSE
  /\ pc' = "start"
  /\ stage' = "graph"
  /\ UNCHANGED <<M, analyses, ChildsMap, functions, uses, reports>>

\* The name of the called function is asked for, and there is none.
CrashOnUser ==
  /\ OpenFile
  /\ User \notin DOMAIN M.called
  /\ stage' = "crashed"
  /\ UNCHANGED <<vars, functions, uses, reports>>

BuildGraph ==
  /\ stage = "graph"
  /\ Next
  /\ UNCHANGED printerVars

ReportOf ==
  [exception |-> Exception, nodes |-> Size(ChildsMap), leaked |-> Leaked,
   printed |-> ShouldPrint(ChildsMap), opened |-> opened]

Written == ShouldPrint(ChildsMap) /\ opened

\* The report, and the graph if there is a file for it and it is small enough.
PrintGraph ==
  /\ stage = "graph" /\ pc = "done"
  /\ reports' = Append(reports, ReportOf)
  /\ files' = IF Written THEN [files EXCEPT ![I - 1] = Drawing(Exception, ChildsMap)]
                         ELSE files
  /\ uses' = Rest
  /\ stage' = "users"
  /\ UNCHANGED <<vars, functions, I, opened>>

\* A stream destroyed with an error nobody asked for ends the program: exit(1).
WriteFails ==
  /\ stage = "graph" /\ pc = "done"
  /\ Written
  /\ reports' = Append(reports, ReportOf)
  /\ files' = [files EXCEPT ![I - 1] = Partial]
  /\ stage' = "failed"
  /\ UNCHANGED <<vars, functions, uses, I, opened>>

ReturnFromPrinter ==
  /\ stage = "users" /\ uses = <<>> /\ functions = <<>>
  /\ stage' = "returned"
  /\ UNCHANGED <<vars, functions, uses, I, opened, files, reports>>

PrinterNext ==
  \/ SkipFunction \/ TrackFunction \/ SkipUser \/ BeginGraph \/ CrashOnUser
  \/ BuildGraph \/ PrintGraph \/ WriteFails
  \/ ReturnFromPrinter

PrinterSpec == PrinterInit /\ [][PrinterNext]_allVars /\ WF_allVars(PrinterNext)

-----------------------------------------------------------------------------
(* Properties *)

Report == [exception : CurrentExceptions, nodes : Nat, leaked : BOOLEAN,
           printed : BOOLEAN, opened : BOOLEAN]

\* Every variable keeps to its type; while a graph is constructed the invariant
\* types of the construction hold, and between two graphs the counter is the number
\* of reports.
PrinterTypeOK ==
  /\ IsPrinterModule(M)
  /\ IsMap(CallSitesMap, Function, SUBSET Site)
  /\ IsMap(CallerMap, Function, SUBSET Site)
  /\ IsSubclassesMap(SubclassesMap)
  /\ functions \in Seq(Function)
  /\ uses \in Seq(Site)
  /\ I \in Nat
  /\ opened \in BOOLEAN
  /\ DOMAIN files \subseteq Nat
  /\ reports \in Seq(Report)
  /\ stage \in {"users", "graph", "returned", "crashed", "failed"}
  /\ stage = "graph" => TypeOK /\ uses # <<>> /\ Exception.throwSite = Head(uses)
  /\ stage \in {"users", "returned"} => I = Len(reports)

\* The graph of an exception, as it should be.
TrueGraph(exception) ==
  LET g == ProblemOf(exception) IN GraphOf(g, Escaping(g))

(***************************************************************************)
(* Whatever was printed before it, a report is about its own exception:    *)
(* the size and the verdict are those of the sites this exception escapes  *)
(* from, and the threshold was applied to all of its nodes, LEAK included  *)
(* (EHGraphPrinter.cpp:237-257).                                           *)
(***************************************************************************)
ReportsExact ==
  \A k \in DOMAIN reports :
    LET r == reports[k]
        graph == TrueGraph(r.exception)
    IN  /\ r.nodes = Cardinality(DOMAIN graph)
        /\ r.leaked <=> Leak \in DOMAIN graph
        /\ r.printed <=> Cardinality(DOMAIN graph) <= NodeThreshold

\* The reports that have a file, and what is in it.
Opened == {k \in DOMAIN reports : reports[k].opened}

Contents(r) ==
  IF r.printed THEN Drawing(r.exception, TrueGraph(r.exception)) ELSE Empty

(***************************************************************************)
(* Between two graphs the output directory is a function of the reports:   *)
(* file n - 1 belongs to the nth of them, it holds the graph of the nth    *)
(* exception, it is empty if that is too large, and it is what an earlier  *)
(* run left there if it could not be opened; no other file is touched      *)
(* (EHGraphPrinter.cpp:233-236, 252-266).                                  *)
(***************************************************************************)
FilesExact ==
  stage \in {"users", "returned"} =>
    \E old \in OldFiles :
      files = [n \in DOMAIN old \cup {k - 1 : k \in Opened} |->
                 IF n + 1 \in Opened THEN Contents(reports[n + 1]) ELSE old[n]]

\* The uses of functions that may throw, and the calls among them.
TrackedUses ==
  {use \in Function \X Site :
     shouldTrackFunction(use[1]) /\ use[2] \in M.users[use[1]] /\ ~Skipped(use[2])}

(***************************************************************************)
(* When the driver returns, each use of a function that may throw has been *)
(* reported and nothing else has: once, if no use list repeats a user, and *)
(* twice for a throw that also takes another such function as an operand   *)
(* (EHGraphPrinter.cpp:221-238).                                           *)
(***************************************************************************)
ReportsComplete ==
  stage = "returned" =>
    /\ {reports[k].exception : k \in DOMAIN reports} =
         {CurrentException(M, use[2]) : use \in TrackedUses}
    /\ RepeatedUses = 0 => Len(reports) = Cardinality(TrackedUses)

\* A function that may throw is an operand of an indirect call.
PassedOn == \E use \in TrackedUses : use[2] \notin DOMAIN M.called

\* A write error has left the last file incomplete, and only that one.
Truncated ==
  /\ Len(reports) \in Opened /\ files[Len(reports) - 1] = Partial
  /\ \A k \in Opened \ {Len(reports)} : files[k - 1] = Contents(reports[k])

(***************************************************************************)
(* If the functions that may throw are called and never passed on to an    *)
(* indirect call, every one of their calls is reported in the end; only a  *)
(* write error can prevent it, and that leaves one file incomplete, the    *)
(* last (EHGraphPrinter.h:18, EHGraphPrinter.cpp:221-267).                 *)
(***************************************************************************)
EveryThrowReported == ~PassedOn => <>(stage = "returned" \/ Truncated)

(***************************************************************************)
(* The driver implements Reporting: seen from outside there are no loops,  *)
(* no worklist and no static map, only questions and their right answers,  *)
(* and nothing said or written for one exception is changed by the next    *)
(* (doEHGraphDOTPrinting as a whole, EHGraphPrinter.cpp:218-270).          *)
(***************************************************************************)
Asked == {CurrentException(M, use[2]) : use \in TrackedUses}

\* The exceptions of uses that can be looked at: those with a called function.
Answerable == {e \in Asked : e.throwSite \in DOMAIN M.called}

R == INSTANCE Reporting WITH
       asked   <- Asked,
       problem <- [e \in Answerable |-> ProblemOf(e)],
       color   <- [e \in Answerable |-> [f \in Function \cup {Leak} |->
                                           ColorValue(M.parent[e.throwSite], f)]],
       current <- IF stage = "graph" THEN Exception ELSE NoException,
       outcome <- IF stage \in {"users", "graph"} THEN "running" ELSE stage

ImplementsReporting == R!Spec
=============================================================================
