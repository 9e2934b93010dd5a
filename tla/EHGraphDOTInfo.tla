---------------------------- MODULE EHGraphDOTInfo ----------------------------
(***************************************************************************)
(* The construction of one propagation graph: EHGraphDOTInfo and its       *)
(* buildChildsMap (src/EHGraphPrinter.cpp), with the queries it makes for  *)
(* each user: canBeCaught, derivedFrom, getCallSites and                   *)
(* getCallerCandidates.                                                    *)
(*                                                                         *)
(* The program is sequential, so a step is one iteration of the worklist   *)
(* loop.  What the code leaves to chance is the order in which users are   *)
(* pushed: the use lists of the LLVM module, and the pointer order of the  *)
(* std::set<User *> of the two analyses.                                   *)
(***************************************************************************)
EXTENDS CallGraph, CallSites, VCallResults, Naturals, Sequences, FiniteSets, SequencesExt

CONSTANTS
  CatchAll,     \* the null clause of catch (...)
  Filter,       \* a filter clause: an array constant, no type info
  External,     \* the null Exception of an exception thrown elsewhere
  NoGraph,      \* Propagation's mark that no graph is published yet
  Inputs,       \* what a behaviour may start from: a set of records
  RepeatedUses  \* how often, at most, a use list repeats a user

Clause == TypeInfo \cup {CatchAll, Filter}

(***************************************************************************)
(* The part of the LLVM module the construction reads.                     *)
(*   parent      CallBase::getFunction()                                   *)
(*   users       Value::users(), those that are a CallBase                 *)
(*   landingPad  the clauses of an invoke's landing pad; a call, or an     *)
(*               invoke that unwinds to another pad, is not in its domain  *)
(*   thrown      operand 1 of the calls whose called function is           *)
(*               __cxa_throw, which are its domain                         *)
(*   external    the type infos with external linkage                      *)
(***************************************************************************)
IsModule(m) ==
  /\ m.parent \in [Site -> Function]
  /\ m.users \in [Function -> SUBSET Site]
  /\ IsMap(m.landingPad, Site, SUBSET Clause)
  /\ IsMap(m.thrown, Site, TypeInfo)
  /\ m.external \subseteq TypeInfo

IsChildsMap(map) == IsMap(map, Function \cup {Leak}, SUBSET (Function \cup {Leak}))

CurrentExceptions == [throwSite : Site, value : TypeInfo \cup {External}]

ASSUME InputsAssumption ==
  \A in \in Inputs :
    /\ IsModule(in.M)
    /\ in.throwSite \in Site
    /\ IsMap(in.CallSitesMap, Function, SUBSET Site)
    /\ IsMap(in.CallerMap, Function, SUBSET Site)
    /\ IsSubclassesMap(in.SubclassesMap)
    /\ IsChildsMap(in.ChildsMap)
ASSUME SiteAssumption == IsFiniteSet(Site)
ASSUME RepeatedUsesAssumption == RepeatedUses \in Nat
ASSUME ClauseAssumption ==
  /\ CatchAll \notin TypeInfo
  /\ Filter \notin TypeInfo \cup {CatchAll}
  /\ External \notin TypeInfo
  /\ NoTypeInfo \notin Clause \cup {External}
ASSUME NoGraphAssumption ==
  \A D \in SUBSET (Function \cup {Leak}) : NoGraph \notin [D -> SUBSET (Function \cup {Leak})]

VARIABLES
  Exception,        \* the CurrentException
  ChildsMap,        \* the static map: what an earlier graph left is still there
  ToVisit,          \* the stack of call sites to visit
  Visited,          \* the call sites visited
  Leafs,            \* the functions to have a node in any case
  Leaked,           \* main was visited
  pc                \* "start", "visiting" or "done"

analyses == <<CallSitesMap, CallerMap, SubclassesMap>>
vars == <<M, analyses, Exception, ChildsMap, ToVisit, Visited, Leafs, Leaked, pc>>

-----------------------------------------------------------------------------
(* Queries *)

CurrentException(m, s) ==
  [throwSite |-> s,
   value |-> IF s \in DOMAIN m.thrown THEN m.thrown[s] ELSE External]

canBeCaught(s, exception) ==
  /\ s \in DOMAIN M.landingPad
  /\ \E clause \in M.landingPad[s] :
       \/ clause = CatchAll
       \/ /\ exception.value # External
          /\ clause = exception.value \/ derivedFrom(clause, exception.value)
       \/ exception.value = External /\ clause \in M.external

\* The second is asked only about functions the first knows nothing of.
IndirectCallers(F) ==
  IF F \in DOMAIN CallSitesMap THEN getCallSites(F) ELSE getCallerCandidates(F)

\* Every call site HandleUser is called with when F is expanded.
Callers(F) == M.users[F] \cup IndirectCallers(F)

\* Mutant: every user is pushed, whatever its landing pad.
UncaughtOrNot(S) == S

Uncaught(S) == {s \in S : ~canBeCaught(s, Exception)}

-----------------------------------------------------------------------------
(* Steps *)

\* The orders in which the elements of S can be listed, with up to k repeats.
Orders(S, k) ==
  {q \in UNION {[1..n -> S] : n \in Cardinality(S)..(Cardinality(S) + k)} :
     ToSet(q) = S}

\* Mutant: the leafs get their entries at once, while Childs is in use.
InsertAllAndLeafs(map, f, S) ==
  [g \in DOMAIN map \cup {f} \cup S |-> At(map, g) \cup (IF g = f THEN S ELSE {})]

InsertAll(map, f, S) ==
  [g \in DOMAIN map \cup {f} |-> At(map, g) \cup (IF g = f THEN S ELSE {})]

Init ==
  \E in \in Inputs :
    /\ M = in.M
    /\ CallSitesMap = in.CallSitesMap
    /\ CallerMap = in.CallerMap
    /\ SubclassesMap = in.SubclassesMap
    /\ Exception = CurrentException(in.M, in.throwSite)
    /\ ChildsMap = in.ChildsMap
    /\ ToVisit = <<>>
    /\ Visited = {}
    /\ Leafs = {}
    /\ Leaked = FALSE
    /\ pc = "start"

\* Mutant: the static map keeps what it holds.
Uncleared == ChildsMap

Cleared == EmptyMap

\* What precedes the loop.  The map is static: it is cleared, not constructed.
Start ==
  /\ pc = "start"
  /\ ChildsMap' = Cleared
  /\ ToVisit' = <<Exception.throwSite>>
  /\ pc' = "visiting"
  /\ UNCHANGED <<M, analyses, Exception, Visited, Leafs, Leaked>>

\* Mutant: front() with pop_back().
VisitingOldest == Head(ToVisit)

Visiting == Last(ToVisit)

\* Mutant: pop_back() only after the check for visited sites.
PopNothing == UNCHANGED ToVisit

Pop == ToVisit' = Front(ToVisit)

SkipVisited ==
  /\ pc = "visiting" /\ ToVisit # <<>>
  /\ Visiting \in Visited
  /\ Pop
  /\ UNCHANGED <<M, analyses, Exception, ChildsMap, Visited, Leafs, Leaked, pc>>

\* Mutant: the flag is set, but nothing is inserted.
MainChildsNone == {}

MainChilds == {Leak}

VisitMain ==
  /\ pc = "visiting" /\ ToVisit # <<>>
  /\ Visiting \notin Visited
  /\ M.parent[Visiting] = Main
  /\ Pop
  /\ Visited' = Visited \cup {Visiting}
  /\ Leaked' = TRUE
  /\ ChildsMap' = InsertAll(ChildsMap, Main, MainChilds)
  /\ Leafs' = Leafs \cup MainChilds
  /\ UNCHANGED <<M, analyses, Exception, pc>>

\* HandleUser for every user of F and every indirect caller of F.
VisitFunction ==
  /\ pc = "visiting" /\ ToVisit # <<>>
  /\ Visiting \notin Visited
  /\ M.parent[Visiting] # Main
  /\ Visited' = Visited \cup {Visiting}
  /\ LET F == M.parent[Visiting]
         callersOf == {M.parent[s] : s \in Callers(F)}
     IN  /\ ChildsMap' = InsertAll(ChildsMap, F, callersOf)
         /\ Leafs' = Leafs \cup callersOf
         /\ \E direct \in Orders(Uncaught(M.users[F]), RepeatedUses),
               indirect \in Orders(Uncaught(IndirectCallers(F)), 0) :
              ToVisit' = Front(ToVisit) \o (direct \o indirect)
  /\ UNCHANGED <<M, analyses, Exception, Leaked, pc>>

\* Mutant: a visited site ends the loop, break instead of continue.
EndsAtVisited == ToVisit # <<>> => Visiting \in Visited

Ends == ToVisit = <<>>

\* Mutant: the leafs get no entry.
InsertNoLeafs(map, leafs) == map

\* getOrInsertDefault for every leaf.
InsertLeafs(map, leafs) == [f \in DOMAIN map \cup leafs |-> At(map, f)]

Finish ==
  /\ pc = "visiting" /\ Ends
  /\ ChildsMap' = InsertLeafs(ChildsMap, Leafs)
  /\ pc' = "done"
  /\ UNCHANGED <<M, analyses, Exception, ToVisit, Visited, Leafs, Leaked>>

Next == Start \/ SkipVisited \/ VisitMain \/ VisitFunction \/ Finish

Spec == Init /\ [][Next]_vars /\ WF_vars(Next)

-----------------------------------------------------------------------------
(* Properties *)

\* Every variable keeps to its type, and there is no work left outside the loop.
TypeOK ==
  /\ IsModule(M)
  /\ IsMap(CallSitesMap, Function, SUBSET Site)
  /\ IsMap(CallerMap, Function, SUBSET Site)
  /\ IsSubclassesMap(SubclassesMap)
  /\ Exception \in CurrentExceptions
  /\ IsChildsMap(ChildsMap)
  /\ ToVisit \in Seq(Site)
  /\ Visited \subseteq Site
  /\ Leafs \subseteq Function \cup {Leak}
  /\ Leaked \in BOOLEAN
  /\ pc \in {"start", "visiting", "done"}
  /\ pc # "visiting" => ToVisit = <<>>

\* The problem this construction has to solve, as the abstract modules see it.
ProblemOf(exception) ==
  [parent |-> M.parent, callers |-> [f \in Function |-> Callers(f)],
   caught |-> {s \in Site : canBeCaught(s, exception)},
   throwSite |-> exception.throwSite]

problem == ProblemOf(Exception)

Thrower == M.parent[Exception.throwSite]

(***************************************************************************)
(* The worklist invariant.  What is on the stack can escape given what was *)
(* visited, what can escape is visited or on the stack, and the map, the   *)
(* leafs and the flag say exactly what the visited sites stand for.        *)
(* (EHGraphPrinter.cpp:63-102.)                                            *)
(***************************************************************************)
EscapesKnown ==
  pc # "start" => /\ ToSet(ToVisit) \subseteq Escapes(problem, Visited)
                  /\ Escapes(problem, Visited) \subseteq Visited \cup ToSet(ToVisit)
                  /\ Visited \subseteq Escaping(problem)

EntriesExact ==
  pc = "visiting" =>
    /\ ChildsMap = [f \in Left(problem, Visited) |-> Successor(problem, f)]
    /\ Leafs = UNION {Successor(problem, f) : f \in Left(problem, Visited)}

FlagExact == Leaked <=> Main \in Left(problem, Visited)

LoopInvariant ==
  /\ pc = "start" => Visited = {} /\ Leafs = {}
  /\ EscapesKnown
  /\ EntriesExact
  /\ FlagExact
  /\ pc = "done" => ChildsMap = GraphOf(problem, Visited)

(***************************************************************************)
(* The finished map is the graph of the least set of call sites the        *)
(* exception escapes from: nothing missing, nothing extra, whatever the    *)
(* order of the users, whatever recursion the program has, and whatever an *)
(* earlier graph left in the static map (EHGraphPrinter.cpp:61-105).       *)
(***************************************************************************)
GraphIsExact == pc = "done" => ChildsMap = GraphOf(problem, Escaping(problem))

(***************************************************************************)
(* The two reports of a leak agree with each other and with the truth: the *)
(* Leaked flag that is printed, the LEAK node that is drawn, and an        *)
(* uncaught way out of main (EHGraphPrinter.cpp:75-80).                    *)
(***************************************************************************)
LeakReportsAgree ==
  pc = "done" => /\ Leaked <=> Main \in Left(problem, Escaping(problem))
                 /\ Leaked <=> Leak \in DOMAIN ChildsMap

(***************************************************************************)
(* Every function an edge leads to has a node of its own, during the loop  *)
(* at the latest through Leafs: the writer prints the keys of the map and  *)
(* nothing else (EHGraphPrinter.cpp:85, 103-105).                          *)
(***************************************************************************)
EveryNodePrinted ==
  pc # "start" => \A f \in DOMAIN ChildsMap :
    ChildsMap[f] \subseteq DOMAIN ChildsMap \cup (IF pc = "done" THEN {} ELSE Leafs)

(***************************************************************************)
(* The graph is one piece: each of its nodes can be reached along its own  *)
(* edges from the function that throws.  A node of an earlier graph left   *)
(* in the static map would be an island (EHGraphPrinter.cpp:61).           *)
(***************************************************************************)
RootedAtThrower ==
  pc = "done" =>
    \A S \in SUBSET DOMAIN ChildsMap :
      Thrower \in S /\ (\A f \in S : ChildsMap[f] \subseteq S) => S = DOMAIN ChildsMap

(***************************************************************************)
(* A landing pad that catches is a barrier: apart from the throwing one, a *)
(* function has outgoing edges only if some function of the graph is       *)
(* called from it at a site that does not catch (EHGraphPrinter.cpp:87-89; *)
(* the general form of unittest/NestTryCatchTest.cpp:98-100).              *)
(***************************************************************************)
CatchIsBarrier ==
  pc = "done" => \A f \in DOMAIN ChildsMap :
    f = Thrower \/ ChildsMap[f] = {} \/
      \E s \in Site : /\ M.parent[s] = f /\ ~canBeCaught(s, Exception)
                      /\ \E g \in DOMAIN ChildsMap \ {Main, Leak} : s \in Callers(g)

(***************************************************************************)
(* While the loop runs, an iteration changes the entry of the function it  *)
(* visits and adds no other key: the reference Childs it holds into the    *)
(* DenseMap would dangle after another insertion                           *)
(* (EHGraphPrinter.cpp:74, 82-91).                                         *)
(***************************************************************************)
ReferenceStaysValid ==
  [][pc = "visiting" /\ ToVisit # <<>> =>
       LET others == (Function \cup {Leak}) \ {M.parent[Visiting]}
       IN  /\ DOMAIN ChildsMap' \cap others = DOMAIN ChildsMap \cap others
           /\ \A f \in others : At(ChildsMap', f) = At(ChildsMap, f)]_vars

(***************************************************************************)
(* The construction ends, also when functions call each other recursively: *)
(* the loop is the whole program while it runs, so it is never suspended   *)
(* for ever (EHGraphPrinter.cpp:65-71).                                    *)
(***************************************************************************)
Termination == <>(pc = "done")

(***************************************************************************)
(* The construction implements Propagation: visiting a call site is the    *)
(* exception escaping from it, the last step publishes.                    *)
(***************************************************************************)
P == INSTANCE Propagation WITH
       Problems <- Problem,
       escaped <- Visited,
       graph <- IF pc = "done" THEN ChildsMap ELSE NoGraph,
       leaked <- pc = "done" /\ Leaked

ImplementsPropagation == P!Spec
=============================================================================
