------------------------ MODULE EHGraphPrinterProofs ------------------------
(***************************************************************************)
(* The driver is correct for every module, every result of the analyses,   *)
(* every threshold and every state of the output directory: what it prints *)
(* and writes for one exception depends on nothing it did before.          *)
(***************************************************************************)
EXTENDS EHGraphPrinter, EHGraphDOTInfoProofs

-----------------------------------------------------------------------------
(* The module and the results of the analyses *)

\* What the driver is given has its types.
LEMMA ProgramTypes ==
  ASSUME NEW p \in Programs
  PROVE  /\ IsPrinterModule(p.M)
         /\ IsMap(p.CallSitesMap, Function, SUBSET Site)
         /\ IsMap(p.CallerMap, Function, SUBSET Site)
         /\ IsSubclassesMap(p.SubclassesMap)
  BY ProgramsAssumption

\* No step changes them.
LEMMA ProgramUnchanged ==
  ASSUME [PrinterNext]_allVars
  PROVE  UNCHANGED <<M, analyses>>
<1>1. CASE BuildGraph
  BY <1>1, InputsUnchanged DEF BuildGraph
<1>2. CASE ~BuildGraph
  BY <1>2 DEF allVars, vars, PrinterNext, SkipFunction, TrackFunction, SkipUser, BeginGraph,
              CrashOnUser, PrintGraph, WriteFails, ReturnFromPrinter
<1>3. QED
  BY <1>1, <1>2

\* So the graph an exception should have stays the same.
LEMMA TrueGraphUnchanged ==
  ASSUME UNCHANGED <<M, analyses>>
  PROVE  \A e : TrueGraph(e)' = TrueGraph(e)
  BY DEF analyses, TrueGraph, ProblemOf, Callers, IndirectCallers, getCallSites,
         getCallerCandidates, canBeCaught, derivedFrom

\* The module lists its functions, so they are finitely many.
LEMMA FunctionFinite == ASSUME IsPrinterModule(M) PROVE IsFiniteSet(Function)
<1> DEFINE list == M.functions
<1>1. list \in Seq(Function) /\ ToSet(list) = Function
  BY DEF IsPrinterModule
<1>2. Len(list) \in Nat /\ DOMAIN list = 1..Len(list) /\ list \in [1..Len(list) -> Function]
  BY <1>1
<1>3. list \in Surjection(1..Len(list), Function)
  BY <1>1, <1>2 DEF Surjection, ToSet
<1>4. IsFiniteSet(1..Len(list))
  BY <1>2, FS_Interval
<1>5. QED
  BY <1>3, <1>4, FS_Surjection

\* A map of functions has finitely many keys.
LEMMA SizeType ==
  ASSUME IsPrinterModule(M), NEW map, IsChildsMap(map)
  PROVE  Size(map) \in Nat
<1>1. IsFiniteSet(Function \cup {Leak})
  BY FunctionFinite, FS_AddElement
<1>2. DOMAIN map \subseteq Function \cup {Leak}
  BY DEF IsChildsMap, IsMap
<1>3. QED
  BY <1>1, <1>2, FS_Subset, FS_CardinalityType DEF Size

-----------------------------------------------------------------------------
(* Type correctness *)

(***************************************************************************)
(* The part of the invariant that makes the types inductive: the static    *)
(* map has its type also between two constructions, the construction's own *)
(* invariant holds while it runs, and the file at hand is the next one.    *)
(***************************************************************************)
DriverInvariant ==
  /\ PrinterTypeOK
  /\ IsChildsMap(ChildsMap)
  /\ stage = "graph" => LoopInvariant /\ I = Len(reports) + 1

\* What is reported when a construction has ended is a report.
LEMMA ReportType ==
  ASSUME DriverInvariant, stage = "graph"
  PROVE  ReportOf \in Report
<1>1. Size(ChildsMap) \in Nat
  BY SizeType DEF DriverInvariant, PrinterTypeOK
<1>2. ShouldPrint(ChildsMap) \in BOOLEAN
  BY DEF ShouldPrint
<1>3. Exception \in CurrentExceptions /\ Leaked \in BOOLEAN /\ opened \in BOOLEAN
  BY DEF DriverInvariant, PrinterTypeOK, TypeOK
<1>4. QED
  BY <1>1, <1>2, <1>3 DEF ReportOf, Report

\* The first state has the types.
LEMMA DriverInit == ASSUME PrinterInit PROVE DriverInvariant
<1>1. /\ IsPrinterModule(M)
      /\ IsMap(CallSitesMap, Function, SUBSET Site)
      /\ IsMap(CallerMap, Function, SUBSET Site)
      /\ IsSubclassesMap(SubclassesMap)
  BY ProgramTypes DEF PrinterInit
<1>2. functions \in Seq(Function)
  BY <1>1 DEF PrinterInit, IsPrinterModule
<1>3. DOMAIN files \subseteq Nat
  BY OldFilesAssumption DEF PrinterInit
<1>4. uses \in Seq(Site) /\ reports \in Seq(Report) /\ I = Len(reports) /\ I \in Nat
  BY DEF PrinterInit
<1>5. IsChildsMap(ChildsMap)
  BY DEF PrinterInit, IsChildsMap, IsMap, EmptyMap
<1>6. QED
  BY <1>1, <1>2, <1>3, <1>4, <1>5 DEF PrinterInit, DriverInvariant, PrinterTypeOK

\* A new construction starts from its own exception and whatever map is left.
LEMMA BeginGraphStep == ASSUME DriverInvariant, BeginGraph PROVE TypeOK' /\ LoopInvariant'
<1>1. UNCHANGED <<M, analyses, ChildsMap>>
  BY DEF BeginGraph
<1>2. User \in Site
  BY DEF DriverInvariant, PrinterTypeOK, BeginGraph, OpenFile, User
<1>3. IsModule(M)
  BY DEF DriverInvariant, PrinterTypeOK, IsPrinterModule
<1>4. Exception' \in CurrentExceptions
  BY <1>2, <1>3 DEF BeginGraph, CurrentException, CurrentExceptions, IsModule, IsMap
<1>5. /\ pc' = "start" /\ ToVisit' = <<>> /\ Visited' = {} /\ Leafs' = {} /\ Leaked' = FALSE
  BY DEF BeginGraph, FreshVisited
<1>6. TypeOK'
  <2>1. /\ IsModule(M')
        /\ IsMap(CallSitesMap', Function, SUBSET Site)
        /\ IsMap(CallerMap', Function, SUBSET Site)
        /\ IsSubclassesMap(SubclassesMap')
        /\ IsChildsMap(ChildsMap')
    BY <1>1, <1>3 DEF DriverInvariant, PrinterTypeOK, analyses
  <2>2. ToVisit' \in Seq(Site) /\ Visited' \subseteq Site /\ Leafs' \subseteq Function \cup {Leak}
    BY <1>5
  <2>3. QED
    BY <1>4, <1>5, <2>1, <2>2 DEF TypeOK
<1>7. LoopInvariant'
  BY <1>5 DEF LoopInvariant, EscapesKnown, EntriesExact, FlagExact, Left
<1>8. QED
  BY <1>6, <1>7

\* No step of the driver leaves the types.
LEMMA DriverStep ==
  ASSUME DriverInvariant, [PrinterNext]_allVars
  PROVE  DriverInvariant'
<1>1. UNCHANGED <<M, analyses>>
  BY ProgramUnchanged
<1>2. /\ IsPrinterModule(M')
      /\ IsMap(CallSitesMap', Function, SUBSET Site)
      /\ IsMap(CallerMap', Function, SUBSET Site)
      /\ IsSubclassesMap(SubclassesMap')
  BY <1>1 DEF DriverInvariant, PrinterTypeOK, analyses
<1>3. CASE SkipFunction
  BY <1>2, <1>3 DEF SkipFunction, DriverInvariant, PrinterTypeOK, vars
<1>4. CASE TrackFunction
  <2>1. F \in Function /\ functions' \in Seq(Function)
    BY <1>4 DEF TrackFunction, DriverInvariant, PrinterTypeOK, F
  <2>2. M.users[F] \in SUBSET Site
    BY <2>1 DEF DriverInvariant, PrinterTypeOK, IsPrinterModule, IsModule
  <2>3. uses' \in Seq(Site)
    BY <1>4, <2>2, OrderProperties, RepeatedUsesAssumption DEF TrackFunction
  <2>4. QED
    BY <1>2, <1>4, <2>1, <2>3 DEF TrackFunction, DriverInvariant, PrinterTypeOK, vars
<1>5. CASE SkipUser
  BY <1>2, <1>5 DEF SkipUser, Rest, DriverInvariant, PrinterTypeOK, vars
<1>6. CASE BeginGraph
  <2>1. TypeOK' /\ LoopInvariant'
    BY <1>6, BeginGraphStep
  <2>2. I' = Len(reports') + 1 /\ I' \in Nat
    BY <1>6 DEF BeginGraph, OpenFile, NextNumber, DriverInvariant, PrinterTypeOK
  <2>3. DOMAIN files' \subseteq Nat
    BY <1>6 DEF BeginGraph, OpenFile, DriverInvariant, PrinterTypeOK
  <2>4. opened' \in BOOLEAN
    BY <1>6 DEF BeginGraph, OpenFile
  <2>5. uses' # <<>> /\ Exception'.throwSite = Head(uses')
    BY <1>6 DEF BeginGraph, OpenFile, CurrentException, User
  <2>6. QED
    BY <1>2, <1>6, <2>1, <2>2, <2>3, <2>4, <2>5
       DEF BeginGraph, DriverInvariant, PrinterTypeOK
<1>7. CASE CrashOnUser
  <2>1. I' \in Nat /\ DOMAIN files' \subseteq Nat /\ opened' \in BOOLEAN
    BY <1>7 DEF CrashOnUser, OpenFile, NextNumber, DriverInvariant, PrinterTypeOK
  <2>2. QED
    BY <1>2, <1>7, <2>1 DEF CrashOnUser, DriverInvariant, PrinterTypeOK, vars
<1>8. CASE BuildGraph
  <2>1. TypeOK' /\ LoopInvariant' /\ Exception' = Exception
    BY <1>8, TypeStep, LoopStep, InputsUnchanged DEF BuildGraph, DriverInvariant, PrinterTypeOK
  <2>2. IsChildsMap(ChildsMap')
    BY <2>1 DEF TypeOK
  <2>3. QED
    BY <1>2, <1>8, <2>1, <2>2 DEF BuildGraph, printerVars, DriverInvariant, PrinterTypeOK
<1>9. CASE PrintGraph \/ WriteFails
  <2>1. stage = "graph" /\ reports' = Append(reports, ReportOf) /\ UNCHANGED <<vars, functions, I, opened>>
    BY <1>9 DEF PrintGraph, WriteFails
  <2>2. reports' \in Seq(Report) /\ Len(reports') = Len(reports) + 1
    BY <2>1, ReportType DEF DriverInvariant, PrinterTypeOK
  <2>3. DOMAIN files' \subseteq Nat
    BY <1>9 DEF PrintGraph, WriteFails, DriverInvariant, PrinterTypeOK
  <2>4. uses' \in Seq(Site)
    <3>1. uses \in Seq(Site) /\ uses # <<>>
      BY <2>1 DEF DriverInvariant, PrinterTypeOK
    <3>2. Tail(uses) \in Seq(Site)
      BY <3>1
    <3>3. uses' = Tail(uses) \/ uses' = uses
      BY <1>9 DEF PrintGraph, WriteFails, Rest
    <3>4. QED
      BY <3>1, <3>2, <3>3
  <2>5. stage' \in {"users", "failed"}
    BY <1>9 DEF PrintGraph, WriteFails
  <2>6. QED
    BY <1>2, <2>1, <2>2, <2>3, <2>4, <2>5 DEF DriverInvariant, PrinterTypeOK, vars
<1>10. CASE ReturnFromPrinter
  BY <1>2, <1>10 DEF ReturnFromPrinter, DriverInvariant, PrinterTypeOK, vars
<1>11. CASE UNCHANGED allVars
  <2>1. [Next]_vars /\ UNCHANGED printerVars
    BY <1>11 DEF allVars
  <2>2. stage = "graph" => TypeOK' /\ LoopInvariant'
    BY <2>1, TypeStep, LoopStep DEF DriverInvariant, PrinterTypeOK
  <2>3. IsChildsMap(ChildsMap')
    BY <1>11 DEF allVars, vars, DriverInvariant
  <2>4. QED
    BY <1>2, <1>11, <2>2, <2>3
       DEF allVars, vars, printerVars, DriverInvariant, PrinterTypeOK
<1>12. QED
  BY <1>3, <1>4, <1>5, <1>6, <1>7, <1>8, <1>9, <1>10, <1>11 DEF PrinterNext

\* The invariant holds in every state of the driver.
LEMMA DriverInvariantHolds == PrinterSpec => []DriverInvariant
  BY DriverInit, DriverStep, PTL DEF PrinterSpec

(***************************************************************************)
(* Every variable of the driver keeps to its type, and what the            *)
(* construction needs to start it finds (doEHGraphDOTPrinting).            *)
(***************************************************************************)
THEOREM PrinterTypeCorrect == PrinterSpec => []PrinterTypeOK
<1>1. DriverInvariant => PrinterTypeOK
  BY DEF DriverInvariant
<1>2. QED
  BY <1>1, DriverInvariantHolds, PTL

-----------------------------------------------------------------------------
(* The reports *)

\* When a construction has ended, the map is the graph of its exception.
LEMMA FinishedReport ==
  ASSUME DriverInvariant, stage = "graph", pc = "done"
  PROVE  /\ ChildsMap = TrueGraph(Exception)
         /\ Leaked <=> Leak \in DOMAIN TrueGraph(Exception)
<1>1. TypeOK /\ LoopInvariant
  BY DEF DriverInvariant, PrinterTypeOK
<1>2. /\ ChildsMap = GraphOf(problem, Escaping(problem))
      /\ Leaked <=> Main \in Left(problem, Escaping(problem))
  BY <1>1, FinishedGraph
<1>3. problem \in Problem /\ TrueGraph(Exception) = GraphOf(problem, Escaping(problem))
  BY <1>1, ProblemType DEF TrueGraph, problem
<1>4. QED
  BY <1>2, <1>3, LeakNode

\* A report stays where it was put.
LEMMA ReportsGrow ==
  ASSUME DriverInvariant, [PrinterNext]_allVars
  PROVE  \/ UNCHANGED reports
         \/ /\ PrintGraph \/ WriteFails
            /\ DOMAIN reports' = DOMAIN reports \cup {Len(reports) + 1}
            /\ Len(reports) + 1 \notin DOMAIN reports
            /\ reports'[Len(reports) + 1] = ReportOf
            /\ \A k \in DOMAIN reports : reports'[k] = reports[k]
<1>1. CASE PrintGraph \/ WriteFails
  <2>1. reports' = Append(reports, ReportOf) /\ reports \in Seq(Report)
    BY <1>1 DEF PrintGraph, WriteFails, DriverInvariant, PrinterTypeOK
  <2>2. QED
    BY <1>1, <2>1
<1>2. CASE ~(PrintGraph \/ WriteFails)
  BY <1>2 DEF allVars, printerVars, PrinterNext, SkipFunction, TrackFunction, SkipUser,
              BeginGraph, CrashOnUser, BuildGraph, ReturnFromPrinter
<1>3. QED
  BY <1>1, <1>2

\* What ReportsExact says of one report.
ReportExact(r, graph) ==
  /\ r.nodes = Cardinality(DOMAIN graph)
  /\ r.leaked <=> Leak \in DOMAIN graph
  /\ r.printed <=> Cardinality(DOMAIN graph) <= NodeThreshold

(***************************************************************************)
(* Whatever was printed before, size, verdict and threshold of a report    *)
(* are those of the exception it names (EHGraphPrinter.cpp:237-257).       *)
(***************************************************************************)
THEOREM ReportsExactHolds == PrinterSpec => []ReportsExact
<1>1. ReportsExact <=> \A k \in DOMAIN reports :
                         ReportExact(reports[k], TrueGraph(reports[k].exception))
  BY DEF ReportsExact, ReportExact
<1>2. PrinterInit => ReportsExact
  BY DEF PrinterInit, ReportsExact
<1>3. ASSUME DriverInvariant, ReportsExact, [PrinterNext]_allVars
      PROVE  ReportsExact'
  <2>1. \A e : TrueGraph(e)' = TrueGraph(e)
    BY <1>3, ProgramUnchanged, TrueGraphUnchanged
  <2>2. CASE UNCHANGED reports
    BY <1>3, <2>1, <2>2 DEF ReportsExact
  <2>3. CASE ~UNCHANGED reports
    <3>1. /\ PrintGraph \/ WriteFails
          /\ DOMAIN reports' = DOMAIN reports \cup {Len(reports) + 1}
          /\ reports'[Len(reports) + 1] = ReportOf
          /\ \A k \in DOMAIN reports : reports'[k] = reports[k]
      BY <1>3, <2>3, ReportsGrow
    <3>2. ReportExact(ReportOf, TrueGraph(Exception)) /\ ReportOf.exception = Exception
      <4>1. ChildsMap = TrueGraph(Exception) /\ (Leaked <=> Leak \in DOMAIN TrueGraph(Exception))
        BY <1>3, <3>1, FinishedReport DEF PrintGraph, WriteFails
      <4>2. QED
        BY <4>1 DEF ReportExact, ReportOf, Size, ShouldPrint
    <3>3. \A k \in DOMAIN reports' :
            ReportExact(reports'[k], TrueGraph(reports'[k].exception))
      BY <1>1, <1>3, <3>1, <3>2
    <3>4. QED
      BY <2>1, <3>3 DEF ReportsExact, ReportExact
  <2>4. QED
    BY <2>2, <2>3
<1>4. QED
  BY <1>2, <1>3, DriverInvariantHolds, PTL DEF PrinterSpec

-----------------------------------------------------------------------------
(* The files *)

\* The numbers, from one, of the files opened, the one at hand included.
Begun == Opened \cup (IF stage = "graph" /\ opened THEN {I} ELSE {})

\* The output directory as it must be, given what an earlier run left there.
Directory(old) ==
  [n \in DOMAIN old \cup {k - 1 : k \in Begun} |->
     IF n + 1 \in Opened THEN Contents(reports[n + 1])
     ELSE IF n + 1 \in Begun THEN Empty ELSE old[n]]

(***************************************************************************)
(* FilesExact, extended to the time a construction takes: its file is      *)
(* empty until then.                                                       *)
(***************************************************************************)
FilesSoFar == stage \notin {"crashed", "failed"} => \E old \in OldFiles : files = Directory(old)

\* Only reports have opened a file, and those are numbered from one.
LEMMA OpenedType ==
  ASSUME DriverInvariant
  PROVE  /\ DOMAIN reports = 1..Len(reports)
         /\ Len(reports) \in Nat
         /\ Opened \subseteq 1..Len(reports)
  BY DEF DriverInvariant, PrinterTypeOK, Opened

\* What a file should contain does not change.
LEMMA ContentsUnchanged ==
  ASSUME UNCHANGED <<M, analyses>>
  PROVE  \A r : Contents(r)' = Contents(r)
  BY TrueGraphUnchanged DEF Contents, Drawing, ColorValue, analyses

\* Opening the next file empties it, whatever it contained.
LEMMA BeginGraphFiles ==
  ASSUME DriverInvariant, FilesSoFar, BeginGraph
  PROVE  FilesSoFar'
<1>1. /\ stage = "users" /\ stage' = "graph" /\ UNCHANGED <<M, analyses, reports>>
      /\ I' = I + 1
      /\ files' = IF opened' THEN [n \in DOMAIN files \cup {I} |->
                                     IF n = I THEN Empty ELSE files[n]]
                             ELSE files
      /\ opened' \in BOOLEAN
  BY DEF BeginGraph, OpenFile, NextNumber
<1>2. I = Len(reports) /\ I \in Nat
  BY <1>1 DEF DriverInvariant, PrinterTypeOK
<1>3. PICK old \in OldFiles : files = Directory(old)
  BY <1>1 DEF FilesSoFar
<1>4. DOMAIN old \subseteq Nat
  BY OldFilesAssumption
<1>5. /\ Opened' = Opened /\ Begun = Opened
      /\ Begun' = IF opened' THEN Opened \cup {I + 1} ELSE Opened
  BY <1>1 DEF Opened, Begun
<1>6. \A r : Contents(r)' = Contents(r)
  BY <1>1, ContentsUnchanged
<1>7. Opened \subseteq 1..I
  BY <1>2, OpenedType
<1>8. /\ DOMAIN files = DOMAIN old \cup {k - 1 : k \in Opened}
      /\ \A n \in DOMAIN files :
           files[n] = IF n + 1 \in Opened THEN Contents(reports[n + 1]) ELSE old[n]
  BY <1>3, <1>5 DEF Directory
<1>9. Directory(old)' = [n \in DOMAIN old \cup {k - 1 : k \in Begun'} |->
                          IF n + 1 \in Opened THEN Contents(reports[n + 1])
                          ELSE IF n + 1 \in Begun' THEN Empty ELSE old[n]]
  BY <1>1, <1>5, <1>6 DEF Directory
<1>10. CASE opened'
  <2> DEFINE D == DOMAIN files \cup {I}
  <2>1. D = DOMAIN old \cup {k - 1 : k \in Begun'}
    <3>1. {k - 1 : k \in Opened \cup {I + 1}} = {k - 1 : k \in Opened} \cup {(I + 1) - 1}
      OBVIOUS
    <3>2. (I + 1) - 1 = I
      BY <1>2
    <3>3. QED
      BY <1>5, <1>8, <1>10, <3>1, <3>2
  <2>2. \A n \in D : n \in Nat /\ (n + 1 \in Begun' <=> n + 1 \in Opened \/ n = I)
    BY <1>2, <1>4, <1>5, <1>7, <1>8, <1>10
  <2>3. I + 1 \notin Opened
    BY <1>2, <1>7
  <2>4. \A n \in D : (IF n = I THEN Empty ELSE files[n]) =
                      (IF n + 1 \in Opened THEN Contents(reports[n + 1])
                       ELSE IF n + 1 \in Begun' THEN Empty ELSE old[n])
    BY <1>8, <2>2, <2>3
  <2>5. files' = [n \in D |-> IF n = I THEN Empty ELSE files[n]]
    BY <1>1, <1>10
  <2> HIDE DEF D
  <2>6. files' = Directory(old)'
    BY <1>9, <2>1, <2>4, <2>5
  <2>7. QED
    BY <2>6 DEF FilesSoFar
<1>11. CASE ~opened'
  <2>1. files' = Directory(old)'
    BY <1>1, <1>3, <1>5, <1>9, <1>11 DEF Directory
  <2>2. QED
    BY <2>1 DEF FilesSoFar
<1>12. QED
  BY <1>10, <1>11

\* Printing fills the file at hand, if there is one and the graph is small enough.
LEMMA PrintGraphFiles ==
  ASSUME DriverInvariant, FilesSoFar, PrintGraph
  PROVE  FilesSoFar'
<1>1. /\ stage = "graph" /\ stage' = "users" /\ pc = "done"
      /\ reports' = Append(reports, ReportOf)
      /\ files' = IF Written THEN [files EXCEPT ![I - 1] = Drawing(Exception, ChildsMap)]
                             ELSE files
      /\ UNCHANGED <<M, analyses>>
  BY DEF PrintGraph, vars
<1>2. I = Len(reports) + 1 /\ Len(reports) \in Nat
  BY <1>1, OpenedType DEF DriverInvariant
<1>3. PICK old \in OldFiles : files = Directory(old)
  BY <1>1 DEF FilesSoFar
<1>4. DOMAIN old \subseteq Nat
  BY OldFilesAssumption
<1>5. /\ DOMAIN reports' = DOMAIN reports \cup {I} /\ I \notin DOMAIN reports
      /\ reports'[I] = ReportOf
      /\ \A k \in DOMAIN reports : reports'[k] = reports[k]
  BY <1>1, <1>2 DEF DriverInvariant, PrinterTypeOK
<1>6. /\ Opened' = Begun /\ Begun' = Begun
      /\ Begun = Opened \cup (IF opened THEN {I} ELSE {})
      /\ I \notin Opened /\ Opened \subseteq DOMAIN reports
  BY <1>1, <1>5 DEF Opened, Begun, ReportOf
<1>7. \A r : Contents(r)' = Contents(r)
  BY <1>1, ContentsUnchanged
<1>8. Contents(ReportOf) = IF ShouldPrint(ChildsMap) THEN Drawing(Exception, ChildsMap) ELSE Empty
  BY <1>1, FinishedReport DEF Contents, ReportOf
<1>9. Directory(old)' = [n \in DOMAIN old \cup {k - 1 : k \in Begun} |->
                          IF n + 1 \in Begun THEN Contents(reports'[n + 1]) ELSE old[n]]
  BY <1>6, <1>7 DEF Directory
<1>10. DOMAIN files = DOMAIN old \cup {k - 1 : k \in Begun}
  BY <1>3 DEF Directory
<1>11. \A n \in DOMAIN files :
         files[n] = IF n + 1 \in Opened THEN Contents(reports[n + 1])
                    ELSE IF n + 1 \in Begun THEN Empty ELSE old[n]
  BY <1>3 DEF Directory
<1>12. \A n \in DOMAIN files : n \in Nat /\ (n = I - 1 <=> n + 1 = I)
  BY <1>2, <1>4, <1>6, <1>10, OpenedType
<1>13. opened => I - 1 \in DOMAIN files
  BY <1>6, <1>10
<1>14. \A n \in DOMAIN files :
         files'[n] = IF n + 1 \in Begun THEN Contents(reports'[n + 1]) ELSE old[n]
  <2>1. SUFFICES ASSUME NEW n \in DOMAIN files
                 PROVE  files'[n] = IF n + 1 \in Begun THEN Contents(reports'[n + 1]) ELSE old[n]
    OBVIOUS
  <2>2. CASE n + 1 = I
    BY <1>1, <1>5, <1>6, <1>8, <1>11, <1>12, <2>2 DEF Written
  <2>3. CASE n + 1 # I
    BY <1>1, <1>5, <1>6, <1>11, <1>12, <2>3
  <2>4. QED
    BY <2>2, <2>3
<1>15. DOMAIN files' = DOMAIN files /\ files' = [n \in DOMAIN files |-> files'[n]]
  BY <1>1, <1>3 DEF Directory
<1>16. files' = Directory(old)'
  BY <1>9, <1>10, <1>14, <1>15
<1>17. QED
  BY <1>16 DEF FilesSoFar

\* Before the first exception the directory is as it was.
LEMMA NoFilesYet ==
  ASSUME files \in OldFiles, reports = <<>>, stage = "users"
  PROVE  FilesSoFar
<1>1. Begun = {} /\ Opened = {}
  BY DEF Begun, Opened
<1>2. files = [n \in DOMAIN files |-> files[n]]
  BY OldFilesAssumption
<1>3. Directory(files) = [n \in DOMAIN files |-> files[n]]
  BY <1>1 DEF Directory
<1>4. QED
  BY <1>2, <1>3 DEF FilesSoFar

\* So it is in the first state.
LEMMA InitialFiles == ASSUME PrinterInit PROVE FilesSoFar
  BY NoFilesYet DEF PrinterInit

\* Every other step leaves it alone or crashes.
LEMMA FilesStep ==
  ASSUME DriverInvariant, FilesSoFar, [PrinterNext]_allVars
  PROVE  FilesSoFar'
<1>1. CASE BeginGraph
  BY <1>1, BeginGraphFiles
<1>2. CASE PrintGraph
  BY <1>2, PrintGraphFiles
<1>3. CASE CrashOnUser \/ WriteFails
  BY <1>3 DEF CrashOnUser, WriteFails, FilesSoFar
<1>4. CASE SkipFunction \/ TrackFunction \/ SkipUser \/ BuildGraph \/ ReturnFromPrinter
           \/ UNCHANGED allVars
  <2>1. /\ UNCHANGED <<files, reports, I, opened>>
        /\ \/ stage' = stage
           \/ stage = "users" /\ stage' = "returned"
    BY <1>4 DEF SkipFunction, TrackFunction, SkipUser, BuildGraph, ReturnFromPrinter, printerVars,
                allVars
  <2>2. \A r : Contents(r)' = Contents(r)
    BY ProgramUnchanged, ContentsUnchanged
  <2>3. Opened' = Opened /\ Begun' = Begun
    BY <2>1 DEF Opened, Begun
  <2>4. \A old : Directory(old)' = Directory(old)
    BY <2>1, <2>2, <2>3 DEF Directory
  <2>5. QED
    BY <2>1, <2>4 DEF FilesSoFar
<1>5. QED
  BY <1>1, <1>2, <1>3, <1>4 DEF PrinterNext

(***************************************************************************)
(* Between two graphs the files are exactly those the reports call for,    *)
(* each with the graph of its own exception, and what an earlier run left  *)
(* under other numbers is untouched (EHGraphPrinter.cpp:233-236, 252-266). *)
(***************************************************************************)
THEOREM FilesExactHolds == PrinterSpec => []FilesExact
<1>1. FilesSoFar => FilesExact
  <2>1. SUFFICES ASSUME FilesSoFar, stage \in {"users", "returned"}
                 PROVE  FilesExact
    BY DEF FilesExact
  <2>2. PICK old \in OldFiles : files = Directory(old)
    BY <2>1 DEF FilesSoFar
  <2>3. Begun = Opened
    BY <2>1 DEF Begun
  <2>4. QED
    BY <2>2, <2>3 DEF Directory, FilesExact
<1>2. QED
  BY <1>1, InitialFiles, FilesStep, DriverInvariantHolds, PTL DEF PrinterSpec

-----------------------------------------------------------------------------
(* The uses *)

Distinct(q) == \A i, j \in DOMAIN q : q[i] = q[j] => i = j

\* A list is its first element and the rest, in which it does not occur again.
LEMMA HeadAndRest ==
  ASSUME NEW S, NEW q \in Seq(S), q # <<>>
  PROVE  /\ Head(q) \in S /\ Tail(q) \in Seq(S) /\ Len(q) > 0
         /\ Len(Tail(q)) = Len(q) - 1
         /\ \A i \in 1..Len(Tail(q)) : Tail(q)[i] = q[i + 1]
         /\ Head(q) = q[1]
         /\ ToSet(q) = {Head(q)} \cup ToSet(Tail(q))
         /\ Distinct(q) => Distinct(Tail(q)) /\ Head(q) \notin ToSet(Tail(q))
<1>1. /\ Head(q) \in S /\ Tail(q) \in Seq(S) /\ Len(q) \in Nat \ {0}
      /\ Len(Tail(q)) = Len(q) - 1
      /\ Head(q) = q[1]
      /\ DOMAIN q = 1..Len(q)
  OBVIOUS
<1>2. DOMAIN Tail(q) = 1..(Len(q) - 1)
  BY <1>1
<1>3. \A i \in 1..(Len(q) - 1) : Tail(q)[i] = q[i + 1] /\ i + 1 \in DOMAIN q
  BY <1>1
<1>4. \A i \in DOMAIN q : i = 1 \/ (i - 1 \in DOMAIN Tail(q) /\ Tail(q)[i - 1] = q[i])
  <2>1. TAKE i \in DOMAIN q
  <2>2. i # 1 => i - 1 \in 1..(Len(q) - 1) /\ (i - 1) + 1 = i
    BY <1>1
  <2>3. QED
    BY <1>2, <1>3, <2>2
<1>5. ToSet(q) \subseteq {Head(q)} \cup ToSet(Tail(q))
  <2>1. SUFFICES ASSUME NEW i \in DOMAIN q
                 PROVE  q[i] \in {Head(q)} \cup ToSet(Tail(q))
    BY DEF ToSet
  <2>2. CASE i = 1
    BY <1>1, <2>2
  <2>3. CASE i # 1
    <3>1. i - 1 \in DOMAIN Tail(q) /\ Tail(q)[i - 1] = q[i]
      BY <1>4, <2>3
    <3>2. q[i] \in ToSet(Tail(q))
      BY <3>1 DEF ToSet
    <3>3. QED
      BY <3>2
  <2>4. QED
    BY <2>2, <2>3
<1>6. {Head(q)} \cup ToSet(Tail(q)) \subseteq ToSet(q)
  BY <1>1, <1>2, <1>3 DEF ToSet
<1>7. ASSUME Distinct(q)
      PROVE  Distinct(Tail(q)) /\ Head(q) \notin ToSet(Tail(q))
  <2>1. \A i, j \in DOMAIN Tail(q) : Tail(q)[i] = Tail(q)[j] => i = j
    BY <1>2, <1>3, <1>7 DEF Distinct
  <2>2. \A i \in DOMAIN Tail(q) : Tail(q)[i] # q[1]
    BY <1>1, <1>2, <1>3, <1>7 DEF Distinct
  <2>3. QED
    BY <1>1, <2>1, <2>2 DEF Distinct, ToSet
<1>8. QED
  BY <1>1, <1>2, <1>3, <1>5, <1>6, <1>7

\* A list that is as long as the set of its elements repeats none.
LEMMA AsLongAsItsElements ==
  ASSUME NEW S, NEW n \in Nat, NEW q \in [1..n -> S], ToSet(q) = S, n = Cardinality(S)
  PROVE  Distinct(q)
<1>1. q \in Surjection(1..n, S)
  BY DEF Surjection, ToSet
<1>2. IsFiniteSet(1..n) /\ Cardinality(1..n) = Cardinality(S)
  BY FS_Interval
<1> DEFINE D == 1..n
<1> HIDE DEF D
<1>3. q \in Injection(D, S)
  BY <1>1, <1>2, FS_SurjSameCardinalityImpliesInj DEF D
<1>4. DOMAIN q = D
  BY DEF D
<1>5. QED
  BY <1>3, <1>4 DEF Injection, IsInjective, Distinct

\* The module lists each function once.
LEMMA FunctionsDistinct == ASSUME IsPrinterModule(M) PROVE Distinct(M.functions)
<1> DEFINE list == M.functions
<1>1. list \in Seq(Function) /\ ToSet(list) = Function /\ Len(list) = Cardinality(Function)
  BY DEF IsPrinterModule
<1>2. Len(list) \in Nat /\ list \in [1..Len(list) -> Function]
  BY <1>1
<1> HIDE DEF list
<1>3. Distinct(list)
  BY <1>1, <1>2, AsLongAsItsElements
<1>4. QED
  BY <1>3 DEF list

\* A use list that repeats no user names each of them once.
LEMMA OrdersDistinct ==
  ASSUME NEW S \in SUBSET Site, NEW q \in Orders(S, 0)
  PROVE  Distinct(q)
<1>1. Cardinality(S) \in Nat
  BY SiteAssumption, FS_Subset, FS_CardinalityType
<1>2. PICK n \in Cardinality(S)..(Cardinality(S) + 0) : q \in [1..n -> S]
  BY DEF Orders
<1>3. n = Cardinality(S) /\ n \in Nat /\ ToSet(q) = S
  BY <1>1, <1>2 DEF Orders
<1>4. QED
  BY <1>2, <1>3, AsLongAsItsElements

\* How many functions the outer loop has come to, and the last of these.
Done == Len(M.functions) - Len(functions)
Current == M.functions[Done]

(***************************************************************************)
(* Where the driver is in its two loops: the functions to visit are the    *)
(* last ones of the module, the users to visit those of the last function  *)
(* visited, and the graph at hand is that of the first of these.           *)
(***************************************************************************)
DriverPosition ==
  /\ Len(functions) <= Len(M.functions)
  /\ \A i \in 1..Len(functions) : functions[i] = M.functions[Done + i]
  /\ uses # <<>> =>
       Done > 0 /\ shouldTrackFunction(Current) /\ ToSet(uses) \subseteq M.users[Current]
  /\ RepeatedUses = 0 => Distinct(uses)
  /\ stage = "graph" =>
       ~Skipped(User) /\ User \in DOMAIN M.called /\ Exception = CurrentException(M, User)
  /\ stage = "returned" => functions = <<>> /\ uses = <<>>

\* At the beginning the whole list is still to visit.
LEMMA PositionInit ==
  ASSUME IsPrinterModule(M), functions = M.functions, uses = <<>>, stage = "users"
  PROVE  DriverPosition
<1>1. M.functions \in Seq(Function)
  BY DEF IsPrinterModule
<1>2. Len(functions) \in Nat /\ Done = 0
  BY <1>1 DEF Done
<1>3. \A i \in 1..Len(functions) : functions[i] = M.functions[Done + i]
  BY <1>2
<1>4. Distinct(uses)
  BY DEF Distinct
<1>5. QED
  BY <1>2, <1>3, <1>4 DEF DriverPosition

\* The next function to visit follows the last one visited.
LEMMA NextFunction ==
  ASSUME DriverInvariant, DriverPosition, functions # <<>>, functions' = Tail(functions), M' = M
  PROVE  /\ F \in Function
         /\ Current' = F /\ Done' = Done + 1 /\ Done \in Nat
         /\ Len(functions') <= Len(M'.functions)
         /\ \A i \in 1..Len(functions') : functions'[i] = M'.functions[Done' + i]
<1> DEFINE all == M.functions
<1>1. functions \in Seq(Function) /\ all \in Seq(Function)
  BY DEF DriverInvariant, PrinterTypeOK, IsPrinterModule
<1>2. /\ F \in Function /\ F = functions[1]
      /\ Len(functions) \in Nat \ {0} /\ Len(functions') = Len(functions) - 1
      /\ \A i \in 1..Len(functions') : functions'[i] = functions[i + 1]
  BY <1>1, HeadAndRest DEF F
<1>3. Len(all) \in Nat /\ Done = Len(all) - Len(functions) /\ Len(functions) <= Len(all)
  BY <1>1 DEF Done, DriverPosition
<1>4. Done' = Len(all) - Len(functions')
  BY DEF Done
<1>5. Done \in Nat /\ Done' = Done + 1 /\ Len(functions') <= Len(all)
  BY <1>2, <1>3, <1>4
<1>6. \A i \in 1..Len(functions) : functions[i] = all[Done + i]
  BY DEF DriverPosition
<1>7. Current' = F
  BY <1>2, <1>5, <1>6 DEF Current
<1>8. \A i \in 1..Len(functions') : functions'[i] = all[Done' + i]
  <2>1. SUFFICES ASSUME NEW i \in 1..Len(functions') PROVE functions'[i] = all[Done' + i]
    OBVIOUS
  <2>2. i + 1 \in 1..Len(functions) /\ Done + (i + 1) = Done' + i
    BY <1>2, <1>5
  <2>3. QED
    BY <1>2, <1>6, <2>2
<1>9. QED
  BY <1>2, <1>5, <1>7, <1>8

\* The function whose users are visited is not among those to come.
LEMMA CurrentVisited ==
  ASSUME DriverInvariant, DriverPosition, uses # <<>>
  PROVE  Current \in Function /\ Current \notin ToSet(functions)
<1> DEFINE all == M.functions
<1>1. functions \in Seq(Function) /\ all \in Seq(Function)
  BY DEF DriverInvariant, PrinterTypeOK, IsPrinterModule
<1>2. /\ Len(all) \in Nat /\ Len(functions) \in Nat /\ Len(functions) <= Len(all)
      /\ Done = Len(all) - Len(functions) /\ Done > 0
      /\ DOMAIN functions = 1..Len(functions) /\ DOMAIN all = 1..Len(all)
  BY <1>1 DEF Done, DriverPosition
<1>3. Distinct(all)
  BY FunctionsDistinct DEF DriverInvariant, PrinterTypeOK
<1>4. ASSUME NEW i \in DOMAIN functions, functions[i] = all[Done]
      PROVE  FALSE
  <2>1. all[Done + i] = all[Done]
    BY <1>2, <1>4 DEF DriverPosition
  <2>2. Done + i \in DOMAIN all /\ Done \in DOMAIN all /\ Done + i # Done
    BY <1>2
  <2>3. QED
    BY <1>3, <2>1, <2>2 DEF Distinct
<1>5. Current \in Function
  BY <1>1, <1>2 DEF Current
<1>6. QED
  BY <1>4, <1>5 DEF Current, ToSet

\* The use at hand is one of those to report.
LEMMA UseAtHand ==
  ASSUME DriverInvariant, DriverPosition, uses # <<>>, ~Skipped(User)
  PROVE  <<Current, User>> \in TrackedUses
<1>1. shouldTrackFunction(Current) /\ ToSet(uses) \subseteq M.users[Current]
  BY DEF DriverPosition
<1>2. User \in Site /\ User \in ToSet(uses)
  BY HeadAndRest DEF User, DriverInvariant, PrinterTypeOK
<1>3. QED
  BY <1>1, <1>2, CurrentVisited DEF TrackedUses

\* Each step keeps the driver in its loops.
LEMMA PositionStep ==
  ASSUME DriverInvariant, DriverPosition, [PrinterNext]_allVars
  PROVE  DriverPosition'
<1>1. M' = M
  BY ProgramUnchanged
<1>2. \A f : shouldTrackFunction(f)' = shouldTrackFunction(f)
  BY <1>1 DEF shouldTrackFunction
<1>3. uses \in Seq(Site)
  BY DEF DriverInvariant, PrinterTypeOK
<1>4. functions' = functions => Done' = Done /\ Current' = Current
  BY <1>1 DEF Done, Current
<1>5. CASE SkipFunction
  <2>1. functions # <<>> /\ functions' = Tail(functions) /\ uses' = <<>> /\ stage' = "users"
    BY <1>5 DEF SkipFunction
  <2>2. Distinct(uses')
    BY <2>1 DEF Distinct
  <2>3. QED
    BY <1>1, <2>1, <2>2, NextFunction DEF DriverPosition
<1>6. CASE TrackFunction
  <2>1. /\ functions # <<>> /\ functions' = Tail(functions) /\ stage' = "users"
        /\ shouldTrackFunction(F) /\ uses' \in Orders(M.users[F], RepeatedUses)
    BY <1>6 DEF TrackFunction
  <2>2. F \in Function /\ Current' = F /\ Done' > 0
    BY <1>1, <2>1, NextFunction
  <2>3. M.users[F] \in SUBSET Site
    BY <2>2 DEF DriverInvariant, PrinterTypeOK, IsPrinterModule, IsModule
  <2>4. ToSet(uses') = M.users[F]
    BY <2>1, <2>3, OrderProperties, RepeatedUsesAssumption
  <2>5. RepeatedUses = 0 => Distinct(uses')
    BY <2>1, <2>3, OrdersDistinct
  <2>6. ToSet(uses)' = ToSet(uses') /\ Distinct(uses)' = Distinct(uses')
    BY DEF ToSet, Distinct
  <2>7. QED
    BY <1>1, <1>2, <2>1, <2>2, <2>4, <2>5, <2>6, NextFunction DEF DriverPosition
<1>7. CASE SkipUser \/ PrintGraph
  <2>1. /\ uses # <<>> /\ uses' = Tail(uses) /\ functions' = functions /\ stage' = "users"
    BY <1>7 DEF SkipUser, PrintGraph, Rest, DriverInvariant, PrinterTypeOK
  <2>2. ToSet(uses') \subseteq ToSet(uses) /\ (Distinct(uses) => Distinct(uses'))
    BY <1>3, <2>1, HeadAndRest
  <2>3. QED
    BY <1>1, <1>2, <1>4, <2>1, <2>2 DEF DriverPosition, Distinct, ToSet
<1>8. CASE BeginGraph
  <2>1. /\ ~Skipped(User) /\ User \in DOMAIN M.called /\ Exception' = CurrentException(M, User)
        /\ UNCHANGED <<functions, uses>> /\ stage' = "graph"
    BY <1>8 DEF BeginGraph, OpenFile
  <2>2. /\ Skipped(User)' = Skipped(User) /\ User' = User
        /\ CurrentException(M, User)' = CurrentException(M, User)
    BY <1>1, <2>1 DEF Skipped, CurrentException, User
  <2>3. QED
    BY <1>1, <1>2, <1>4, <2>1, <2>2 DEF DriverPosition, Distinct, ToSet
<1>9. CASE BuildGraph \/ UNCHANGED allVars
  <2>1. UNCHANGED <<Exception, functions, uses, stage>>
    BY <1>9, InputsUnchanged DEF BuildGraph, printerVars, allVars, vars
  <2>2. /\ Skipped(User)' = Skipped(User) /\ User' = User
        /\ CurrentException(M, User)' = CurrentException(M, User)
    BY <1>1, <2>1 DEF Skipped, CurrentException, User
  <2>3. QED
    BY <1>1, <1>2, <1>4, <2>1, <2>2 DEF DriverPosition, Distinct, ToSet
<1>10. CASE CrashOnUser \/ WriteFails
  <2>1. UNCHANGED <<functions, uses>> /\ stage' \in {"crashed", "failed"}
    BY <1>10 DEF CrashOnUser, WriteFails
  <2>2. QED
    BY <1>1, <1>2, <1>4, <2>1 DEF DriverPosition, Distinct, ToSet
<1>11. CASE ReturnFromPrinter
  <2>1. UNCHANGED <<functions, uses>> /\ stage' = "returned" /\ functions = <<>> /\ uses = <<>>
    BY <1>11 DEF ReturnFromPrinter
  <2>2. QED
    BY <1>1, <1>2, <1>4, <2>1 DEF DriverPosition, Distinct, ToSet
<1>12. QED
  BY <1>5, <1>6, <1>7, <1>8, <1>9, <1>10, <1>11 DEF PrinterNext

\* The uses the loops have still to come to, the one at hand included.
Remaining ==
  {use \in TrackedUses :
     use[1] \in ToSet(functions) \/ (use[2] \in ToSet(uses) /\ use[1] = Current)}

(***************************************************************************)
(* What was reported is a use of a function that may throw, every such use *)
(* is reported or remains, and no use is both if no use list repeats one.  *)
(***************************************************************************)
Accounted ==
  /\ \A k \in DOMAIN reports :
       \E use \in TrackedUses : reports[k].exception = CurrentException(M, use[2])
  /\ stage \notin {"crashed", "failed"} =>
       /\ \A use \in TrackedUses \ Remaining :
            \E k \in DOMAIN reports : reports[k].exception = CurrentException(M, use[2])
       /\ RepeatedUses = 0 => Len(reports) + Cardinality(Remaining) = Cardinality(TrackedUses)

\* There are finitely many uses.
LEMMA UsesFinite ==
  ASSUME IsPrinterModule(M)
  PROVE  IsFiniteSet(TrackedUses) /\ IsFiniteSet(Remaining)
<1>1. IsFiniteSet(Function) /\ IsFiniteSet(Site)
  BY FunctionFinite, SiteAssumption
<1>2. IsFiniteSet(Function \X Site)
  BY <1>1, FS_Product
<1>3. TrackedUses \subseteq Function \X Site /\ Remaining \subseteq TrackedUses
  BY DEF TrackedUses, Remaining
<1>4. QED
  BY <1>2, <1>3, FS_Subset

\* And no step changes what they are, or their exceptions.
LEMMA UsesUnchanged ==
  ASSUME M' = M
  PROVE  /\ TrackedUses' = TrackedUses
         /\ \A s : CurrentException(M, s)' = CurrentException(M, s)
  BY DEF TrackedUses, shouldTrackFunction, Skipped, CurrentException

\* At the beginning all of them remain.
LEMMA AccountedInit ==
  ASSUME IsPrinterModule(M), functions = M.functions, uses = <<>>, reports = <<>>
  PROVE  Accounted
<1>1. ToSet(functions) = Function
  BY DEF IsPrinterModule
<1>2. Remaining = TrackedUses
  BY <1>1 DEF Remaining, TrackedUses
<1>3. Cardinality(TrackedUses) \in Nat
  BY UsesFinite, FS_CardinalityType
<1>4. Len(reports) = 0 /\ DOMAIN reports = {}
  OBVIOUS
<1>5. QED
  BY <1>2, <1>3, <1>4 DEF Accounted

\* Only the use that was reported no longer remains.
LEMMA RemainingStep ==
  ASSUME DriverInvariant, DriverPosition, [PrinterNext]_allVars, stage' \notin {"crashed", "failed"}
  PROVE  IF PrintGraph
         THEN /\ <<Current, User>> \in TrackedUses
              /\ Remaining \ Remaining' \subseteq {<<Current, User>>}
              /\ RepeatedUses = 0 =>
                   <<Current, User>> \in Remaining
                     /\ Remaining' = Remaining \ {<<Current, User>>}
         ELSE Remaining' = Remaining
<1> DEFINE Remains(functionsLeft, usesLeft, f) ==
             {use \in TrackedUses :
                use[1] \in functionsLeft \/ (use[2] \in usesLeft /\ use[1] = f)}
<1>1. M' = M
  BY ProgramUnchanged
<1>2. /\ Remaining = Remains(ToSet(functions), ToSet(uses), Current)
      /\ Remaining' = Remains(ToSet(functions'), ToSet(uses'), Current')
  BY <1>1, UsesUnchanged DEF Remaining, ToSet
<1>3. \A use \in TrackedUses : /\ shouldTrackFunction(use[1])
                               /\ use[2] \in M.users[use[1]] /\ ~Skipped(use[2])
  BY DEF TrackedUses
<1>4. functions \in Seq(Function) /\ uses \in Seq(Site)
  BY DEF DriverInvariant, PrinterTypeOK
<1>5. functions' = functions => Current' = Current
  BY <1>1 DEF Done, Current
<1>6. ToSet(<<>>) = {}
  BY DEF ToSet
<1> HIDE DEF Remains
<1>7. ASSUME functions # <<>>, functions' = Tail(functions)
      PROVE  Current' = F /\ F \in Function /\ ToSet(functions) = {F} \cup ToSet(functions')
  BY <1>1, <1>4, <1>7, NextFunction, HeadAndRest DEF F
<1>8. ASSUME uses # <<>>, uses' = Tail(uses)
      PROVE  /\ User \in Site
             /\ ToSet(uses) = {User} \cup ToSet(uses')
             /\ Distinct(uses) => User \notin ToSet(uses')
  BY <1>4, <1>8, HeadAndRest DEF User
<1>9. CASE SkipFunction
  <2>1. /\ functions # <<>> /\ functions' = Tail(functions) /\ uses = <<>> /\ uses' = <<>>
        /\ ~shouldTrackFunction(F) \/ M.users[F] = {}
        /\ ~PrintGraph
    BY <1>9 DEF SkipFunction, PrintGraph
  <2>2. \A use \in TrackedUses : use[1] # F
    BY <1>3, <2>1
  <2>3. Remaining' = Remaining
    BY <1>2, <1>6, <1>7, <2>1, <2>2 DEF Remains
  <2>4. QED
    BY <2>1, <2>3
<1>10. CASE TrackFunction
  <2>1. /\ functions # <<>> /\ functions' = Tail(functions) /\ uses = <<>>
        /\ uses' \in Orders(M.users[F], RepeatedUses)
        /\ ~PrintGraph
    BY <1>10 DEF TrackFunction, PrintGraph
  <2>2. M.users[F] \in SUBSET Site
    BY <1>7, <2>1 DEF DriverInvariant, PrinterTypeOK, IsPrinterModule, IsModule
  <2>3. ToSet(uses') = M.users[F]
    BY <2>1, <2>2, OrderProperties, RepeatedUsesAssumption
  <2>4. Remaining' = Remaining
    BY <1>2, <1>3, <1>6, <1>7, <2>1, <2>3 DEF Remains
  <2>5. QED
    BY <2>1, <2>4
<1>11. CASE SkipUser
  <2>1. /\ uses # <<>> /\ uses' = Tail(uses) /\ functions' = functions
        /\ Skipped(User) /\ ~PrintGraph
    BY <1>11 DEF SkipUser, PrintGraph, Rest
  <2>2. \A use \in TrackedUses : use[2] # User
    BY <1>3, <2>1
  <2>3. Remaining' = Remaining
    BY <1>2, <1>5, <1>8, <2>1, <2>2 DEF Remains
  <2>4. QED
    BY <2>1, <2>3
<1>12. CASE PrintGraph
  <2>1. uses # <<>> /\ uses' = Tail(uses) /\ functions' = functions /\ stage = "graph"
    BY <1>12 DEF PrintGraph, Rest, DriverInvariant, PrinterTypeOK
  <2>2. Current \in Function /\ Current \notin ToSet(functions)
    BY <2>1, CurrentVisited
  <2>3. ~Skipped(User) /\ (RepeatedUses = 0 => Distinct(uses))
    BY <2>1 DEF DriverPosition
  <2>4. User \in Site /\ User \in ToSet(uses)
    BY <1>8, <2>1
  <2>5. <<Current, User>> \in TrackedUses
    BY <2>1, <2>3, UseAtHand
  <2>6. \A use \in TrackedUses : use = <<use[1], use[2]>>
    BY DEF TrackedUses
  <2>7. Remaining' = Remains(ToSet(functions), ToSet(uses'), Current)
    BY <1>2, <1>5, <2>1
  <2>8. Remaining \ Remaining' \subseteq {<<Current, User>>}
    BY <1>2, <1>8, <2>1, <2>6, <2>7 DEF Remains
  <2>9. ASSUME RepeatedUses = 0
        PROVE  /\ <<Current, User>> \in Remaining
               /\ Remaining' = Remaining \ {<<Current, User>>}
    <3>1. User \notin ToSet(uses')
      BY <1>8, <2>1, <2>3, <2>9
    <3>2. <<Current, User>> \in Remaining /\ <<Current, User>> \notin Remaining'
      BY <1>2, <2>2, <2>4, <2>5, <2>7, <3>1 DEF Remains
    <3>3. Remaining' \subseteq Remaining
      BY <1>2, <1>8, <2>1, <2>7 DEF Remains
    <3>4. QED
      BY <2>8, <3>2, <3>3
  <2>10. QED
    BY <1>12, <2>5, <2>8, <2>9
<1>13. CASE BeginGraph \/ BuildGraph \/ ReturnFromPrinter \/ UNCHANGED allVars
  <2>1. UNCHANGED <<functions, uses, reports>>
    BY <1>13 DEF BeginGraph, BuildGraph, ReturnFromPrinter, allVars, printerVars
  <2>2. ~PrintGraph
    <3>1. Len(reports) # Len(Append(reports, ReportOf))
      BY DEF DriverInvariant, PrinterTypeOK
    <3>2. QED
      BY <2>1, <3>1 DEF PrintGraph
  <2>3. QED
    BY <1>2, <1>5, <2>1, <2>2
<1>14. QED
  BY <1>9, <1>10, <1>11, <1>12, <1>13 DEF PrinterNext, CrashOnUser, WriteFails

\* A graph that is printed accounts for the use it was made for.
LEMMA AccountedStep ==
  ASSUME DriverInvariant, DriverPosition, Accounted, [PrinterNext]_allVars
  PROVE  Accounted'
<1> DEFINE Reports(list, exception) == \E k \in DOMAIN list : list[k].exception = exception
<1>1. M' = M
  BY ProgramUnchanged
<1>2. TrackedUses' = TrackedUses /\ \A s : CurrentException(M, s)' = CurrentException(M, s)
  BY <1>1, UsesUnchanged
<1>3. stage' \notin {"crashed", "failed"} => stage \notin {"crashed", "failed"}
  BY DEF PrinterNext, SkipFunction, TrackFunction, SkipUser, BeginGraph, CrashOnUser, OpenFile,
         BuildGraph, PrintGraph, WriteFails, ReturnFromPrinter, allVars, printerVars
<1>4. /\ \A k \in DOMAIN reports :
           \E use \in TrackedUses : reports[k].exception = CurrentException(M, use[2])
      /\ stage \notin {"crashed", "failed"} =>
           /\ \A use \in TrackedUses \ Remaining : Reports(reports, CurrentException(M, use[2]))
           /\ RepeatedUses = 0 => Len(reports) + Cardinality(Remaining) = Cardinality(TrackedUses)
  BY DEF Accounted
<1>5. SUFFICES
        /\ \A k \in DOMAIN reports' :
             \E use \in TrackedUses : reports'[k].exception = CurrentException(M, use[2])
        /\ stage' \notin {"crashed", "failed"} =>
             /\ \A use \in TrackedUses \ Remaining' : Reports(reports', CurrentException(M, use[2]))
             /\ RepeatedUses = 0 =>
                  Len(reports') + Cardinality(Remaining') = Cardinality(TrackedUses)
  BY <1>2 DEF Accounted
<1> HIDE DEF Reports
<1>6. CASE PrintGraph \/ WriteFails
  <2>1. /\ stage = "graph" /\ uses # <<>>
        /\ ~Skipped(User) /\ Exception = CurrentException(M, User)
    BY <1>6 DEF PrintGraph, WriteFails, DriverInvariant, PrinterTypeOK, DriverPosition
  <2>2. <<Current, User>> \in TrackedUses
    BY <2>1, UseAtHand
  <2>3. /\ DOMAIN reports' = DOMAIN reports \cup {Len(reports) + 1}
        /\ reports'[Len(reports) + 1] = ReportOf
        /\ \A k \in DOMAIN reports : reports'[k] = reports[k]
        /\ Len(reports') = Len(reports) + 1
    <3>1. reports' = Append(reports, ReportOf) /\ reports \in Seq(Report)
      BY <1>6 DEF PrintGraph, WriteFails, DriverInvariant, PrinterTypeOK
    <3>2. QED
      BY <3>1
  <2>4. ReportOf.exception = CurrentException(M, <<Current, User>>[2])
    BY <2>1 DEF ReportOf
  <2>5. \A k \in DOMAIN reports' :
          \E use \in TrackedUses : reports'[k].exception = CurrentException(M, use[2])
    BY <1>4, <2>2, <2>3, <2>4
  <2>6. /\ \A e : Reports(reports, e) => Reports(reports', e)
        /\ Reports(reports', CurrentException(M, <<Current, User>>[2]))
    BY <2>3, <2>4 DEF Reports
  <2>7. ASSUME stage' \notin {"crashed", "failed"}
        PROVE  /\ \A use \in TrackedUses \ Remaining' :
                    Reports(reports', CurrentException(M, use[2]))
               /\ RepeatedUses = 0 =>
                    Len(reports') + Cardinality(Remaining') = Cardinality(TrackedUses)
    <3>1. PrintGraph
      BY <1>6, <2>7 DEF WriteFails
    <3>2. Remaining \ Remaining' \subseteq {<<Current, User>>}
      BY <2>7, <3>1, RemainingStep
    <3>3. \A use \in TrackedUses \ Remaining' :
            use \in TrackedUses \ Remaining \/ use = <<Current, User>>
      BY <3>2
    <3>4. ASSUME RepeatedUses = 0
          PROVE  Len(reports') + Cardinality(Remaining') = Cardinality(TrackedUses)
      <4>1. /\ <<Current, User>> \in Remaining
            /\ Remaining' = Remaining \ {<<Current, User>>}
        BY <2>7, <3>1, <3>4, RemainingStep
      <4>2. IsFiniteSet(Remaining)
        BY UsesFinite DEF DriverInvariant, PrinterTypeOK
      <4>3. Cardinality(Remaining') = Cardinality(Remaining) - 1 /\ Cardinality(Remaining) \in Nat
        BY <4>1, <4>2, FS_RemoveElement, FS_CardinalityType
      <4>4. Len(reports) \in Nat
        BY OpenedType
      <4>5. QED
        BY <1>4, <2>1, <2>3, <3>4, <4>3, <4>4
    <3>5. QED
      BY <1>4, <2>1, <2>6, <3>3, <3>4
  <2>8. QED
    BY <2>5, <2>7
<1>7. CASE ~(PrintGraph \/ WriteFails)
  <2>1. reports' = reports
    BY <1>7, ReportsGrow
  <2>2. stage' \notin {"crashed", "failed"} => Remaining' = Remaining
    BY <1>7, RemainingStep
  <2>3. QED
    BY <1>3, <1>4, <2>1, <2>2
<1>8. QED
  BY <1>6, <1>7

\* The three parts of the invariant together.
LEMMA AccountedHolds == PrinterSpec => [](DriverPosition /\ Accounted)
<1>1. PrinterInit => DriverPosition /\ Accounted
  BY ProgramTypes, PositionInit, AccountedInit DEF PrinterInit
<1>2. DriverInvariant /\ DriverPosition /\ Accounted /\ [PrinterNext]_allVars
        => DriverPosition' /\ Accounted'
  BY PositionStep, AccountedStep
<1>3. QED
  BY <1>1, <1>2, DriverInvariantHolds, PTL DEF PrinterSpec

\* When the loops have ended no use remains.
LEMMA NothingRemains ==
  ASSUME DriverInvariant, DriverPosition, Accounted, stage = "returned"
  PROVE  /\ \A use \in TrackedUses :
              \E k \in DOMAIN reports : reports[k].exception = CurrentException(M, use[2])
         /\ RepeatedUses = 0 => Len(reports) = Cardinality(TrackedUses)
<1>1. ToSet(functions) = {} /\ ToSet(uses) = {}
  BY DEF DriverPosition, ToSet
<1>2. Remaining = {}
  BY <1>1 DEF Remaining
<1>3. Cardinality(Remaining) = 0
  BY <1>2, FS_EmptySet
<1>4. Len(reports) \in Nat
  BY OpenedType
<1>5. QED
  BY <1>2, <1>3, <1>4 DEF Accounted

(***************************************************************************)
(* When the driver returns, the exceptions reported are those of the uses  *)
(* of functions that may throw, one report each if no use list repeats a   *)
(* user, whatever the module, the analyses' results, the order of the      *)
(* uses and the files that could not be opened (EHGraphPrinter.cpp:221-238)*)
(***************************************************************************)
THEOREM ReportsCompleteHolds == PrinterSpec => []ReportsComplete
<1>1. DriverInvariant /\ DriverPosition /\ Accounted => ReportsComplete
  <2>1. SUFFICES ASSUME DriverInvariant, DriverPosition, Accounted, stage = "returned"
                 PROVE  /\ {reports[k].exception : k \in DOMAIN reports} =
                             {CurrentException(M, use[2]) : use \in TrackedUses}
                        /\ RepeatedUses = 0 => Len(reports) = Cardinality(TrackedUses)
    BY DEF ReportsComplete
  <2> DEFINE Reported == {reports[k].exception : k \in DOMAIN reports}
             Used == {CurrentException(M, use[2]) : use \in TrackedUses}
  <2>2. RepeatedUses = 0 => Len(reports) = Cardinality(TrackedUses)
    BY <2>1, NothingRemains
  <2>3. Reported \subseteq Used
    BY <2>1 DEF Accounted
  <2>4. Used \subseteq Reported
    BY <2>1, NothingRemains
  <2>5. QED
    BY <2>2, <2>3, <2>4
<1>2. QED
  BY <1>1, DriverInvariantHolds, AccountedHolds, PTL

-----------------------------------------------------------------------------
(* Refinement *)

\* Reporting's copies of the reference definitions are the ones used here.
LEMMA SameGraph ==
  ASSUME NEW g
  PROVE  R!GraphOf(g, R!Escaping(g)) = GraphOf(g, Escaping(g))
<1>1. \A S : R!Closed(g, S) <=> Closed(g, S)
  BY DEF R!Closed, R!Escapes, Closed, Escapes
<1>2. R!Escaping(g) = Escaping(g)
  BY <1>1 DEF R!Escaping, Escaping
<1>3. \A S : R!Left(g, S) = Left(g, S)
  BY DEF R!Left, Left
<1>4. \A f : R!Successor(g, f) = Successor(g, f)
  BY DEF R!Successor, Successor
<1>5. \A S : R!Nodes(g, S) = Nodes(g, S)
  BY <1>3, <1>4 DEF R!Nodes, Nodes
<1>6. \A S : R!GraphOf(g, S) = GraphOf(g, S)
  BY <1>3, <1>4, <1>5 DEF R!GraphOf, GraphOf
<1>7. QED
  BY <1>2, <1>6

LEMMA SameSize == ASSUME NEW S PROVE R!Cardinality(S) = Cardinality(S)
  BY DEF R!Cardinality, Cardinality

\* The color of every function and of LEAK.
Colors(e) == [f \in Function \cup {Leak} |-> ColorValue(M.parent[e.throwSite], f)]

\* The right answer to a question is the one the driver is measured against.
LEMMA RightAnswer ==
  ASSUME NEW e \in Answerable
  PROVE  /\ R!Graph(e) = TrueGraph(e)
         /\ R!Drawn(e) <=> ShouldPrint(TrueGraph(e))
         /\ IsChildsMap(TrueGraph(e)) => R!Picture(e) = Drawing(e, TrueGraph(e))
<1>1. /\ [x \in Answerable |-> ProblemOf(x)][e] = ProblemOf(e)
      /\ [x \in Answerable |-> Colors(x)][e] = Colors(e)
  OBVIOUS
<1>2. R!Graph(e) = TrueGraph(e)
  BY <1>1, SameGraph DEF R!Graph, TrueGraph
<1>3. R!Drawn(e) <=> ShouldPrint(TrueGraph(e))
  BY <1>2, SameSize DEF R!Drawn, ShouldPrint, Size
<1>4. ASSUME IsChildsMap(TrueGraph(e))
      PROVE  R!Picture(e) = Drawing(e, TrueGraph(e))
  <2>1. DOMAIN TrueGraph(e) \subseteq Function \cup {Leak}
    BY <1>4 DEF IsChildsMap, IsMap
  <2>2. \A f \in DOMAIN TrueGraph(e) : Colors(e)[f] = ColorValue(M.parent[e.throwSite], f)
    BY <2>1 DEF Colors
  <2>3. ProblemOf(e).parent[ProblemOf(e).throwSite] = M.parent[e.throwSite]
    BY DEF ProblemOf
  <2>4. QED
    BY <1>1, <1>2, <2>2, <2>3 DEF R!Picture, Drawing, Colors
<1>5. QED
  BY <1>2, <1>3, <1>4

\* The questions and the right answers never change.
LEMMA QuestionsUnchanged ==
  ASSUME [PrinterNext]_allVars
  PROVE  UNCHANGED R!questions
<1>1. UNCHANGED <<M, analyses>>
  BY ProgramUnchanged
<1>2. Asked' = Asked
  BY <1>1, UsesUnchanged DEF Asked, CurrentException
<1>3. Answerable' = Answerable
  BY <1>1, <1>2 DEF Answerable
<1>4. \A e : ProblemOf(e)' = ProblemOf(e)
  BY <1>1 DEF analyses, ProblemOf, Callers, IndirectCallers, getCallSites,
              getCallerCandidates, canBeCaught, derivedFrom
<1>5. \A e, f : ColorValue(M.parent[e.throwSite], f)' = ColorValue(M.parent[e.throwSite], f)
  BY <1>1 DEF ColorValue
<1>6. QED
  BY <1>2, <1>3, <1>4, <1>5 DEF R!questions

\* The use at hand is a question, and one that can be asked if it has a called
\* function.
LEMMA UseIsQuestion ==
  ASSUME DriverInvariant, DriverPosition, uses # <<>>, ~Skipped(User)
  PROVE  /\ CurrentException(M, User) \in Asked
         /\ CurrentException(M, User) \in Answerable <=> User \in DOMAIN M.called
<1>1. <<Current, User>> \in TrackedUses /\ <<Current, User>>[2] = User
  BY UseAtHand
<1>2. CurrentException(M, User).throwSite = User
  BY DEF CurrentException
<1>3. CurrentException(M, User) \in Asked
  BY <1>1 DEF Asked
<1>4. QED
  BY <1>2, <1>3 DEF Answerable

\* So is that of the graph at hand.
LEMMA QuestionAtHand ==
  ASSUME DriverInvariant, DriverPosition, stage = "graph"
  PROVE  Exception \in Answerable /\ Exception # NoException
<1>1. /\ uses # <<>> /\ ~Skipped(User) /\ User \in DOMAIN M.called
      /\ Exception = CurrentException(M, User)
      /\ Exception \in CurrentExceptions
  BY DEF DriverInvariant, PrinterTypeOK, TypeOK, DriverPosition
<1>2. QED
  BY <1>1, UseIsQuestion, NoExceptionAssumption

\* Reporting sees a file being created.
LEMMA OpenFileStep ==
  ASSUME DriverInvariant, OpenFile
  PROVE  R!OpenFile
<1>1. stage = "users" /\ I = Len(reports)
  BY DEF OpenFile, DriverInvariant, PrinterTypeOK
<1>2. QED
  BY <1>1 DEF OpenFile, R!OpenFile, R!Number

\* What is printed and written for a graph is the right answer.
LEMMA AnswerStep ==
  ASSUME DriverInvariant, DriverPosition, [PrinterNext]_allVars
  PROVE  /\ PrintGraph => R!Answer
         /\ WriteFails => R!FailToWrite
<1>1. SUFFICES ASSUME PrintGraph \/ WriteFails
               PROVE  /\ PrintGraph => R!Answer
                      /\ WriteFails => R!FailToWrite
  OBVIOUS
<1>2. /\ stage = "graph" /\ pc = "done" /\ UNCHANGED opened
      /\ reports' = Append(reports, ReportOf)
      /\ PrintGraph =>
           /\ stage' = "users"
           /\ files' = IF Written THEN [files EXCEPT ![I - 1] = Drawing(Exception, ChildsMap)]
                                  ELSE files
      /\ WriteFails =>
           stage' = "failed" /\ Written /\ files' = [files EXCEPT ![I - 1] = Partial]
  BY <1>1 DEF PrintGraph, WriteFails
<1>3. Exception \in Answerable /\ Exception # NoException
  BY <1>2, QuestionAtHand
<1>4. ChildsMap = TrueGraph(Exception) /\ (Leaked <=> Leak \in DOMAIN TrueGraph(Exception))
  BY <1>2, FinishedReport
<1>5. /\ IsChildsMap(ChildsMap) /\ Leaked \in BOOLEAN
      /\ I - 1 = Len(reports)
  BY <1>2, OpenedType DEF DriverInvariant, PrinterTypeOK, TypeOK
<1>6. /\ R!Graph(Exception) = ChildsMap
      /\ R!Drawn(Exception) <=> ShouldPrint(ChildsMap)
      /\ R!Picture(Exception) = Drawing(Exception, ChildsMap)
  BY <1>3, <1>4, <1>5, RightAnswer
<1>7. R!Drawn(Exception) = ShouldPrint(ChildsMap)
  BY <1>6 DEF R!Drawn, ShouldPrint
<1>8. Leaked = (Leak \in DOMAIN R!Graph(Exception))
  BY <1>4, <1>5, <1>6
<1>9. ReportOf = [exception |-> Exception,
                  nodes   |-> R!Cardinality(DOMAIN R!Graph(Exception)),
                  leaked  |-> Leak \in DOMAIN R!Graph(Exception),
                  printed |-> R!Drawn(Exception), opened |-> opened]
  BY <1>6, <1>7, <1>8, SameSize DEF ReportOf, Size
<1>10. UNCHANGED R!questions
  BY QuestionsUnchanged
<1>11. PrintGraph => R!Say(R!Picture(Exception))
  BY <1>2, <1>3, <1>5, <1>6, <1>9, <1>10 DEF R!Say, R!Number, Written
<1>12. WriteFails => R!Say(Partial)
  BY <1>2, <1>3, <1>5, <1>6, <1>9, <1>10 DEF R!Say, R!Number, Written
<1>13. QED
  BY <1>2, <1>6, <1>11, <1>12 DEF R!Answer, R!FailToWrite, Written

\* A step asks a question, answers it rightly, ends the program, or changes
\* nothing that can be seen from outside.
LEMMA ReportingStep ==
  ASSUME DriverInvariant, DriverPosition, Accounted, [PrinterNext]_allVars
  PROVE  [R!Next]_R!vars
<1>1. UNCHANGED R!questions
  BY QuestionsUnchanged
<1>2. CASE BeginGraph
  <2>1. /\ OpenFile /\ stage = "users" /\ stage' = "graph" /\ UNCHANGED reports
        /\ User \in DOMAIN M.called /\ Exception' = CurrentException(M, User)
    BY <1>2 DEF BeginGraph, OpenFile
  <2>2. Exception' \in Answerable
    BY <2>1, UseIsQuestion DEF OpenFile
  <2>3. Answerable' = Answerable
    BY <1>1 DEF R!questions
  <2>4. R!Ask
    BY <1>1, <2>1, <2>2, <2>3, OpenFileStep DEF R!Ask
  <2>5. QED
    BY <2>4 DEF R!Next
<1>3. CASE CrashOnUser
  <2>1. /\ OpenFile /\ stage = "users" /\ stage' = "crashed" /\ UNCHANGED reports
        /\ User \notin DOMAIN M.called
    BY <1>3 DEF CrashOnUser, OpenFile
  <2>2. CurrentException(M, User) \in Asked \ Answerable
    BY <2>1, UseIsQuestion DEF OpenFile
  <2>3. R!Break
    BY <1>1, <2>1, <2>2, OpenFileStep DEF R!Break
  <2>4. QED
    BY <2>3 DEF R!Next
<1>4. CASE PrintGraph \/ WriteFails
  BY <1>4, AnswerStep DEF R!Next
<1>5. CASE ReturnFromPrinter
  <2>1. /\ stage = "users" /\ stage' = "returned" /\ functions = <<>> /\ uses = <<>>
        /\ UNCHANGED <<reports, files, opened>>
    BY <1>5 DEF ReturnFromPrinter
  <2>2. Remaining = {}
    BY <2>1 DEF Remaining, ToSet
  <2>3. \A e \in Asked : \E k \in DOMAIN reports : reports[k].exception = e
    BY <2>1, <2>2 DEF Asked, Accounted
  <2>4. R!Return
    BY <1>1, <2>1, <2>3 DEF R!Return
  <2>5. QED
    BY <2>4 DEF R!Next
<1>6. CASE SkipFunction \/ TrackFunction \/ SkipUser \/ BuildGraph \/ UNCHANGED allVars
  <2>1. UNCHANGED <<Exception, stage, opened, files, reports>>
    BY <1>6, InputsUnchanged DEF SkipFunction, TrackFunction, SkipUser, BuildGraph,
       printerVars, allVars, vars
  <2>2. QED
    BY <1>1, <2>1 DEF R!vars
<1>7. QED
  BY <1>2, <1>3, <1>4, <1>5, <1>6 DEF PrinterNext

\* Before the loops nothing is reported.
LEMMA ReportingInit ==
  ASSUME stage = "users", files \in OldFiles, reports = <<>>, opened = FALSE
  PROVE  R!Init
  BY DEF R!Init, Answerable

(***************************************************************************)
(* Every behaviour of the driver is one of Reporting, its end apart: each  *)
(* step asks a question, answers it rightly, ends the program, or changes  *)
(* nothing that can be seen from outside (EHGraphPrinter.cpp:218-270).     *)
(***************************************************************************)
THEOREM ReportingRefinement == PrinterSpec => R!Init /\ [][R!Next]_R!vars
<1>1. PrinterInit => R!Init
  BY ReportingInit DEF PrinterInit
<1>2. DriverInvariant /\ DriverPosition /\ Accounted /\ [PrinterNext]_allVars
        => [R!Next]_R!vars
  BY ReportingStep
<1>3. QED
  BY <1>1, <1>2, DriverInvariantHolds, AccountedHolds, PTL DEF PrinterSpec

\* While a graph is built, the driver's steps are the construction's or none.
LEMMA PropagationStep ==
  ASSUME DriverInvariant, [PrinterNext]_allVars, stage = "graph"
  PROVE  [P!Next]_P!vars
<1>1. [Next]_vars
  BY DEF PrinterNext, SkipFunction, TrackFunction, SkipUser, BeginGraph, CrashOnUser, OpenFile,
         BuildGraph, PrintGraph, WriteFails, ReturnFromPrinter, allVars
<1>2. TypeOK /\ LoopInvariant
  BY DEF DriverInvariant, PrinterTypeOK
<1>3. QED
  BY <1>1, <1>2, RefinementStep

\* And each construction begins with a problem of its own.
LEMMA PropagationInit ==
  ASSUME DriverInvariant, stage = "graph", pc = "start"
  PROVE  P!Init
<1>1. TypeOK /\ LoopInvariant
  BY DEF DriverInvariant, PrinterTypeOK
<1>2. Visited = {} /\ Leaked = FALSE
  BY <1>1 DEF LoopInvariant, FlagExact, Left, TypeOK
<1>3. QED
  BY <1>1, <1>2, RefinementInit

(***************************************************************************)
(* Each graph on its own is a behaviour of Propagation, for the problem of *)
(* the use at hand, whatever graphs came before and whatever they left in  *)
(* the static map (EHGraphPrinter.cpp:237-238).                            *)
(***************************************************************************)
THEOREM EachGraphPropagates ==
  PrinterSpec => /\ [](stage = "graph" /\ pc = "start" => P!Init)
                 /\ [][stage = "graph" => [P!Next]_P!vars]_allVars
<1>1. DriverInvariant => (stage = "graph" /\ pc = "start" => P!Init)
  BY PropagationInit
<1>2. DriverInvariant /\ [PrinterNext]_allVars => [stage = "graph" => [P!Next]_P!vars]_allVars
  BY PropagationStep
<1>3. QED
  BY <1>1, <1>2, DriverInvariantHolds, PTL DEF PrinterSpec

-----------------------------------------------------------------------------
(* Progress *)

(***************************************************************************)
(* The driver ends the program only for one of two reasons: a function     *)
(* that may throw is passed to an indirect call, or a write failed and its *)
(* file, the last, is incomplete.                                          *)
(***************************************************************************)
CrashExplained ==
  /\ stage = "crashed" => PassedOn
  /\ stage = "failed" => Truncated

\* A step that leaves reports and files alone leaves the reasons alone.
LEMMA ReasonsUnchanged ==
  ASSUME UNCHANGED <<M, analyses, reports, files>>
  PROVE  PassedOn' = PassedOn /\ Truncated' = Truncated
<1>1. TrackedUses' = TrackedUses
  BY UsesUnchanged
<1>2. Opened' = Opened
  BY DEF Opened
<1>3. \A r : Contents(r)' = Contents(r)
  BY ContentsUnchanged
<1>4. QED
  BY <1>1, <1>2, <1>3 DEF PassedOn, Truncated

LEMMA CrashStep ==
  ASSUME DriverInvariant, DriverPosition, FilesSoFar, CrashExplained, [PrinterNext]_allVars
  PROVE  CrashExplained'
<1>1. M' = M /\ TrackedUses' = TrackedUses
  BY ProgramUnchanged, UsesUnchanged
<1>2. CASE CrashOnUser
  <2>1. uses # <<>> /\ ~Skipped(User) /\ User \notin DOMAIN M.called
    BY <1>2 DEF CrashOnUser, OpenFile
  <2>2. <<Current, User>> \in TrackedUses /\ <<Current, User>>[2] \notin DOMAIN M.called
    BY <2>1, UseAtHand
  <2>3. QED
    BY <1>1, <1>2, <2>2 DEF CrashExplained, PassedOn, CrashOnUser
<1>3. CASE WriteFails
  <2>1. /\ stage = "graph" /\ opened /\ reports' = Append(reports, ReportOf)
        /\ files' = [files EXCEPT ![I - 1] = Partial]
    BY <1>3 DEF WriteFails, Written
  <2>2. reports \in Seq(Report) /\ I = Len(reports) + 1
    BY <2>1 DEF DriverInvariant, PrinterTypeOK
  <2>3. /\ DOMAIN reports' = DOMAIN reports \cup {I} /\ Len(reports') = I
        /\ I \notin DOMAIN reports /\ reports'[I] = ReportOf
        /\ \A k \in DOMAIN reports : reports'[k] = reports[k]
    BY <2>1, <2>2
  <2>4. Opened' = Opened \cup {I} /\ I \notin Opened /\ Opened \subseteq DOMAIN reports
    BY <2>1, <2>3 DEF Opened, ReportOf
  <2>5. PICK old \in OldFiles : files = Directory(old)
    BY <2>1 DEF FilesSoFar
  <2>6. I \in Begun /\ Opened \subseteq Begun
    BY <2>1 DEF Begun
  <2>7. files'[I - 1] = Partial
    BY <2>1, <2>5, <2>6 DEF Directory
  <2>8. \A k \in Opened : files'[k - 1] = Contents(reports[k])
    <3>1. SUFFICES ASSUME NEW k \in Opened PROVE files'[k - 1] = Contents(reports[k])
      OBVIOUS
    <3>2. k \in Nat /\ (k - 1) + 1 = k /\ k - 1 # I - 1
      BY <2>2, <2>4, OpenedType
    <3>3. files[k - 1] = Contents(reports[k])
      BY <2>5, <2>6, <3>2 DEF Directory
    <3>4. QED
      BY <2>1, <3>2, <3>3
  <2>9. \A r : Contents(r)' = Contents(r)
    BY ProgramUnchanged, ContentsUnchanged
  <2>10. Truncated'
    BY <2>3, <2>4, <2>7, <2>8, <2>9 DEF Truncated
  <2>11. stage' = "failed"
    BY <1>3 DEF WriteFails
  <2>12. QED
    BY <2>10, <2>11 DEF CrashExplained
<1>4. CASE UNCHANGED allVars
  BY <1>4, ProgramUnchanged, ReasonsUnchanged DEF allVars, printerVars, CrashExplained
<1>5. CASE stage' \notin {"crashed", "failed"}
  BY <1>5 DEF CrashExplained
<1>6. QED
  BY <1>2, <1>3, <1>4, <1>5
     DEF PrinterNext, SkipFunction, TrackFunction, SkipUser, BeginGraph, OpenFile, BuildGraph,
         printerVars, PrintGraph, ReturnFromPrinter

(***************************************************************************)
(* If the driver does not return, the module or the disk is the reason:    *)
(* the safety half of EveryThrowReported (EHGraphPrinter.h:18,             *)
(* EHGraphPrinter.cpp:264).                                                *)
(***************************************************************************)
THEOREM CrashExplainedHolds == PrinterSpec => []CrashExplained
<1>1. PrinterInit => CrashExplained
  BY DEF PrinterInit, CrashExplained
<1>2. QED
  BY <1>1, CrashStep, InitialFiles, FilesStep, DriverInvariantHolds, AccountedHolds, PTL
     DEF PrinterSpec

\* What the two loops have still to do, and the graph at hand.
LoopsToDo ==
  <<Len(functions), Len(uses), IF stage = "users" THEN 2 ELSE IF stage = "graph" THEN 1 ELSE 0>>

\* Each step takes a function, a user or a part of a graph off the work.
LEMMA LoopsToDoLess ==
  ASSUME DriverInvariant, PrinterNext
  PROVE  \/ Less(LoopsToDo', LoopsToDo)
         \/ LoopsToDo' = LoopsToDo /\ Less(ToDo', ToDo)
<1>1. functions \in Seq(Function) /\ uses \in Seq(Site)
  BY DEF DriverInvariant, PrinterTypeOK
<1>2. LoopsToDo' = <<Len(functions'), Len(uses'),
                     IF stage' = "users" THEN 2 ELSE IF stage' = "graph" THEN 1 ELSE 0>>
  BY DEF LoopsToDo
<1>3. CASE SkipFunction \/ TrackFunction
  <2>1. functions # <<>> /\ functions' = Tail(functions)
    BY <1>3 DEF SkipFunction, TrackFunction
  <2>2. Len(functions') < Len(functions)
    BY <1>1, <2>1
  <2>3. QED
    BY <1>2, <2>2 DEF LoopsToDo, Less
<1>4. CASE SkipUser \/ PrintGraph
  <2>1. uses # <<>> /\ uses' = Tail(uses) /\ functions' = functions
    BY <1>4 DEF SkipUser, PrintGraph, Rest, DriverInvariant, PrinterTypeOK
  <2>2. Len(uses') < Len(uses)
    BY <1>1, <2>1
  <2>3. QED
    BY <1>2, <2>1, <2>2 DEF LoopsToDo, Less
<1>5. CASE BeginGraph \/ CrashOnUser \/ WriteFails \/ ReturnFromPrinter
  <2>1. /\ UNCHANGED <<functions, uses>>
        /\ \/ stage = "users" /\ stage' \in {"graph", "crashed", "returned"}
           \/ stage = "graph" /\ stage' = "failed"
    BY <1>5 DEF BeginGraph, CrashOnUser, OpenFile, WriteFails, ReturnFromPrinter
  <2>2. QED
    BY <1>2, <2>1 DEF LoopsToDo, Less
<1>6. CASE BuildGraph
  <2>1. UNCHANGED <<functions, uses, stage>> /\ Next /\ TypeOK
    BY <1>6 DEF BuildGraph, printerVars, DriverInvariant, PrinterTypeOK
  <2>2. LoopsToDo' = LoopsToDo
    BY <1>2, <2>1 DEF LoopsToDo
  <2>3. QED
    BY <2>1, <2>2, ToDoLess
<1>7. QED
  BY <1>3, <1>4, <1>5, <1>6 DEF PrinterNext

(***************************************************************************)
(* What makes the driver end: each step leaves less to do in its loops, or *)
(* as much there and less in the construction at hand                      *)
(* (EHGraphPrinter.cpp:221-270).                                           *)
(***************************************************************************)
THEOREM DriverAdvances ==
  PrinterSpec =>
    /\ [](LoopsToDo \in Triple /\ (stage = "graph" => ToDo \in Triple))
    /\ [][\/ Less(LoopsToDo', LoopsToDo)
          \/ LoopsToDo' = LoopsToDo /\ Less(ToDo', ToDo)]_allVars
<1>1. DriverInvariant => LoopsToDo \in Triple /\ (stage = "graph" => ToDo \in Triple)
  BY ToDoType DEF DriverInvariant, PrinterTypeOK, LoopsToDo, Triple
<1>2. DriverInvariant /\ [PrinterNext]_allVars =>
        [\/ Less(LoopsToDo', LoopsToDo)
         \/ LoopsToDo' = LoopsToDo /\ Less(ToDo', ToDo)]_allVars
  BY LoopsToDoLess
<1>3. QED
  BY <1>1, <1>2, DriverInvariantHolds, PTL DEF PrinterSpec
=============================================================================
