------------------------- MODULE EHGraphDOTInfoProofs -------------------------
(***************************************************************************)
(* The construction of a propagation graph is correct for every module,    *)
(* every result of the analyses, every exception and every order of users. *)
(***************************************************************************)
EXTENDS EHGraphDOTInfo, CallGraphProofs, FiniteSetTheorems

-----------------------------------------------------------------------------
(* The stack *)

\* Popping removes the last call site, which is one of Site, and no other.
LEMMA PopProperties ==
  ASSUME NEW S, NEW s \in Seq(S), s # <<>>
  PROVE  /\ Last(s) \in S
         /\ Front(s) \in Seq(S)
         /\ ToSet(s) = ToSet(Front(s)) \cup {Last(s)}
<1>1. Len(s) \in Nat \ {0} /\ DOMAIN s = 1..Len(s)
  OBVIOUS
<1>2. /\ Front(s) \in Seq(S)
      /\ Len(Front(s)) = Len(s) - 1
      /\ \A i \in 1..(Len(s) - 1) : Front(s)[i] = s[i]
  BY <1>1 DEF Front
<1>3. DOMAIN Front(s) = 1..(Len(s) - 1)
  BY <1>2
<1>4. 1..Len(s) = 1..(Len(s) - 1) \cup {Len(s)}
  BY <1>1
<1>5. ToSet(s) = {s[i] : i \in 1..(Len(s) - 1)} \cup {s[Len(s)]}
  BY <1>1, <1>4 DEF ToSet
<1>6. ToSet(Front(s)) = {s[i] : i \in 1..(Len(s) - 1)}
  BY <1>2, <1>3 DEF ToSet
<1>7. QED
  BY <1>1, <1>2, <1>5, <1>6 DEF Last

\* Concatenating two sequences unites their elements.
LEMMA ConcatElements ==
  ASSUME NEW S, NEW s \in Seq(S), NEW q \in Seq(S)
  PROVE  s \o q \in Seq(S) /\ ToSet(s \o q) = ToSet(s) \cup ToSet(q)
<1>1. /\ s \o q \in Seq(S)
      /\ Len(s) \in Nat /\ Len(q) \in Nat
      /\ Len(s \o q) = Len(s) + Len(q)
      /\ \A i \in 1..Len(s) : (s \o q)[i] = s[i]
      /\ \A i \in 1..Len(q) : (s \o q)[Len(s) + i] = q[i]
  OBVIOUS
<1>2. /\ DOMAIN s = 1..Len(s)
      /\ DOMAIN q = 1..Len(q)
      /\ DOMAIN (s \o q) = 1..(Len(s) + Len(q))
  BY <1>1
<1>3. \A i \in 1..(Len(s) + Len(q)) : i \in 1..Len(s) \/ i - Len(s) \in 1..Len(q)
  BY <1>1
<1>4. ToSet(s \o q) \subseteq ToSet(s) \cup ToSet(q)
  <2>1. SUFFICES ASSUME NEW i \in 1..(Len(s) + Len(q))
                 PROVE  (s \o q)[i] \in ToSet(s) \cup ToSet(q)
    BY <1>2 DEF ToSet
  <2>2. CASE i \in 1..Len(s)
    BY <1>1, <1>2, <2>2 DEF ToSet
  <2>3. CASE i - Len(s) \in 1..Len(q)
    <3>1. (s \o q)[i] = q[i - Len(s)]
      BY <1>1, <2>3
    <3>2. QED
      BY <1>2, <2>3, <3>1 DEF ToSet
  <2>4. QED
    BY <1>3, <2>2, <2>3
<1>5. ToSet(s) \cup ToSet(q) \subseteq ToSet(s \o q)
  <2>1. \A i \in 1..Len(s) : i \in 1..(Len(s) + Len(q))
    BY <1>1
  <2>2. \A i \in 1..Len(q) : Len(s) + i \in 1..(Len(s) + Len(q))
    BY <1>1
  <2>3. QED
    BY <1>1, <1>2, <2>1, <2>2 DEF ToSet
<1>6. QED
  BY <1>1, <1>4, <1>5

\* Whatever the order in which a set of call sites is pushed, it is that set.
LEMMA OrderProperties ==
  ASSUME NEW S \in SUBSET Site, NEW k \in Nat, NEW q \in Orders(S, k)
  PROVE  q \in Seq(Site) /\ ToSet(q) = S
<1>1. PICK n \in Cardinality(S)..(Cardinality(S) + k) : q \in [1..n -> S]
  BY DEF Orders
<1>2. Cardinality(S) \in Nat
  BY SiteAssumption, FS_Subset, FS_CardinalityType
<1>3. n \in Nat
  BY <1>1, <1>2
<1>4. q \in Seq(Site)
  BY <1>1, <1>3
<1>5. QED
  BY <1>4 DEF Orders

-----------------------------------------------------------------------------
(* The problem *)

\* The callers of a function are call sites.
LEMMA CallersType ==
  ASSUME TypeOK, NEW F \in Function
  PROVE  /\ M.users[F] \subseteq Site
         /\ IndirectCallers(F) \subseteq Site
         /\ Callers(F) \subseteq Site
  BY DEF TypeOK, IsModule, IsMap, IndirectCallers, getCallSites, getCallerCandidates, At, Callers

\* What the construction reads is a propagation problem.
LEMMA ProblemType ==
  ASSUME TypeOK
  PROVE  problem \in Problem
<1>1. [f \in Function |-> Callers(f)] \in [Function -> SUBSET Site]
  BY CallersType
<1>2. M.parent \in [Site -> Function] /\ Exception.throwSite \in Site
  BY DEF TypeOK, IsModule, CurrentExceptions
<1>3. QED
  BY <1>1, <1>2 DEF problem, ProblemOf, Problem

\* Its fields, as the steps read them.
LEMMA ProblemFields ==
  /\ problem.parent = M.parent
  /\ problem.throwSite = Exception.throwSite
  /\ \A f \in Function : problem.callers[f] = Callers(f)
  /\ \A s \in Site : s \in problem.caught <=> canBeCaught(s, Exception)
  BY DEF problem, ProblemOf

\* A step that leaves the inputs alone leaves the problem alone.
LEMMA ProblemUnchanged ==
  ASSUME UNCHANGED <<M, analyses, Exception>>
  PROVE  problem' = problem
  BY DEF analyses, problem, ProblemOf, Callers, IndirectCallers, getCallSites, getCallerCandidates,
         canBeCaught, derivedFrom

\* No step changes the inputs.
LEMMA InputsUnchanged ==
  ASSUME [Next]_vars
  PROVE  UNCHANGED <<M, analyses, Exception>>
  BY DEF vars, Next, Start, SkipVisited, VisitMain, VisitFunction, Finish

\* The function a user is expanded for, and the functions its callers are in.
LEMMA VisitingType ==
  ASSUME TypeOK, ToVisit # <<>>
  PROVE  /\ Visiting \in Site
         /\ M.parent[Visiting] \in Function
         /\ Front(ToVisit) \in Seq(Site)
         /\ ToSet(ToVisit) = ToSet(Front(ToVisit)) \cup {Visiting}
  BY PopProperties DEF TypeOK, IsModule, Visiting

-----------------------------------------------------------------------------
(* Type correctness *)

\* operator[] followed by insertions keeps a map of functions a map of functions.
LEMMA InsertAllType ==
  ASSUME NEW map, IsChildsMap(map), NEW f \in Function \cup {Leak},
         NEW S \in SUBSET (Function \cup {Leak})
  PROVE  IsChildsMap(InsertAll(map, f, S))
  BY DEF IsChildsMap, IsMap, InsertAll, At

\* Visiting a function pushes the users the exception passes, and only those.
LEMMA PushedUsers ==
  ASSUME TypeOK, ToVisit # <<>>, VisitFunction
  PROVE  /\ ToVisit' \in Seq(Site)
         /\ ToSet(ToVisit') = ToSet(Front(ToVisit)) \cup Uncaught(Callers(M.parent[Visiting]))
<1> DEFINE F == M.parent[Visiting]
<1>1. F \in Function /\ Front(ToVisit) \in Seq(Site)
  BY VisitingType
<1>2. PICK direct \in Orders(Uncaught(M.users[F]), RepeatedUses),
           indirect \in Orders(Uncaught(IndirectCallers(F)), 0) :
        ToVisit' = Front(ToVisit) \o (direct \o indirect)
  BY DEF VisitFunction
<1>3. Uncaught(M.users[F]) \subseteq Site /\ Uncaught(IndirectCallers(F)) \subseteq Site
  BY <1>1, CallersType DEF Uncaught
<1>4. direct \in Seq(Site) /\ ToSet(direct) = Uncaught(M.users[F])
  BY <1>3, OrderProperties, RepeatedUsesAssumption
<1>5. indirect \in Seq(Site) /\ ToSet(indirect) = Uncaught(IndirectCallers(F))
  BY <1>3, OrderProperties
<1> DEFINE rest == direct \o indirect
<1>6. rest \in Seq(Site) /\ ToSet(rest) = ToSet(direct) \cup ToSet(indirect)
  BY <1>4, <1>5, ConcatElements
<1>7. /\ Front(ToVisit) \o rest \in Seq(Site)
      /\ ToSet(Front(ToVisit) \o rest) = ToSet(Front(ToVisit)) \cup ToSet(rest)
  <2> HIDE DEF rest
  <2>1. QED
    BY <1>1, <1>6, ConcatElements
<1>8. Uncaught(Callers(F)) = Uncaught(M.users[F]) \cup Uncaught(IndirectCallers(F))
  BY DEF Uncaught, Callers
<1>9. QED
  BY <1>2, <1>4, <1>5, <1>6, <1>7, <1>8

\* No step of the construction leaves the types.
LEMMA TypeStep == ASSUME TypeOK, [Next]_vars PROVE TypeOK'
<1>1. UNCHANGED <<M, analyses, Exception>>
  BY InputsUnchanged
<1>2. /\ IsModule(M')
      /\ IsMap(CallSitesMap', Function, SUBSET Site)
      /\ IsMap(CallerMap', Function, SUBSET Site)
      /\ IsSubclassesMap(SubclassesMap')
      /\ Exception' \in CurrentExceptions
  BY <1>1 DEF TypeOK, analyses
<1>3. CASE Start
  <2>1. IsChildsMap(ChildsMap')
    BY <1>3 DEF Start, Cleared, EmptyMap, IsChildsMap, IsMap
  <2>2. ToVisit' \in Seq(Site)
    BY <1>3 DEF Start, TypeOK, CurrentExceptions
  <2>3. QED
    BY <1>2, <1>3, <2>1, <2>2 DEF Start, TypeOK
<1>4. CASE SkipVisited
  BY <1>2, <1>4, VisitingType DEF SkipVisited, TypeOK, Pop
<1>5. CASE VisitMain
  <2>1. IsChildsMap(ChildsMap')
    BY <1>5, VisitingType, InsertAllType DEF VisitMain, MainChilds, TypeOK
  <2>2. QED
    BY <1>2, <1>5, <2>1, VisitingType DEF VisitMain, MainChilds, TypeOK, Pop
<1>6. CASE VisitFunction
  <2> DEFINE callersOf == {M.parent[s] : s \in Callers(M.parent[Visiting])}
  <2>1. callersOf \subseteq Function /\ M.parent[Visiting] \in Function /\ Visiting \in Site
    BY <1>6, VisitingType, CallersType DEF VisitFunction, TypeOK, IsModule
  <2>2. IsChildsMap(ChildsMap')
    BY <1>6, <2>1, InsertAllType DEF VisitFunction, TypeOK
  <2>3. ToVisit' \in Seq(Site)
    BY <1>6, PushedUsers DEF VisitFunction
  <2>4. QED
    BY <1>2, <1>6, <2>1, <2>2, <2>3 DEF VisitFunction, TypeOK
<1>7. CASE Finish
  <2>1. IsChildsMap(ChildsMap')
    BY <1>7 DEF Finish, InsertLeafs, TypeOK, IsChildsMap, IsMap, At
  <2>2. QED
    BY <1>2, <1>7, <2>1 DEF Finish, Ends, TypeOK
<1>8. CASE UNCHANGED vars
  BY <1>2, <1>8 DEF vars, TypeOK
<1>9. QED
  BY <1>3, <1>4, <1>5, <1>6, <1>7, <1>8 DEF Next

(***************************************************************************)
(* Every variable keeps to its type (EHGraphDOTInfo and buildChildsMap).   *)
(***************************************************************************)
THEOREM TypeCorrect == Spec => []TypeOK
<1>1. Init => TypeOK
  <2>1. SUFFICES ASSUME NEW in \in Inputs,
                        M = in.M, CallSitesMap = in.CallSitesMap,
                        CallerMap = in.CallerMap, SubclassesMap = in.SubclassesMap,
                        Exception = CurrentException(in.M, in.throwSite),
                        ChildsMap = in.ChildsMap, ToVisit = <<>>, Visited = {},
                        Leafs = {}, Leaked = FALSE, pc = "start"
                 PROVE  TypeOK
    BY DEF Init
  <2>2. IsModule(M) /\ in.throwSite \in Site
    BY <2>1, InputsAssumption
  <2>3. Exception \in CurrentExceptions
    BY <2>1, <2>2 DEF CurrentException, CurrentExceptions, IsModule, IsMap
  <2>4. /\ IsMap(CallSitesMap, Function, SUBSET Site)
        /\ IsMap(CallerMap, Function, SUBSET Site)
        /\ IsSubclassesMap(SubclassesMap)
        /\ IsChildsMap(ChildsMap)
    BY <2>1, InputsAssumption, Zenon
  <2>5. ToVisit \in Seq(Site) /\ Visited \subseteq Site /\ Leafs \subseteq Function \cup {Leak}
    BY <2>1
  <2>6. QED
    BY <2>1, <2>2, <2>3, <2>4, <2>5 DEF TypeOK
<1>2. QED
  BY <1>1, TypeStep, PTL DEF Spec

-----------------------------------------------------------------------------
(* The worklist invariant *)

\* The entry a visit writes is the successor set of the visited function.
LEMMA VisitedEntry ==
  ASSUME TypeOK, NEW F \in Function \ {Main}
  PROVE  Successor(problem, F) = {M.parent[s] : s \in Callers(F)}
  BY ProblemFields DEF Successor

LEMMA MainEntry == ASSUME NEW g PROVE Successor(g, Main) = {Leak}
  BY DEF Successor

\* What a visit pushes is what the visited function lets escape.
LEMMA PushedIsEscape ==
  ASSUME TypeOK, NEW F \in Function
  PROVE  Uncaught(Callers(F)) = {s \in problem.callers[F] : s \notin problem.caught}
  BY ProblemFields, CallersType DEF Uncaught

\* One more visited site: its function's entry is added, the others are kept.
LEMMA OneMoreEntry ==
  ASSUME NEW g, NEW S, NEW v, NEW F, F = g.parent[v]
  PROVE  /\ Left(g, S \cup {v}) = Left(g, S) \cup {F}
         /\ InsertAll([f \in Left(g, S) |-> Successor(g, f)], F, Successor(g, F)) =
              [f \in Left(g, S \cup {v}) |-> Successor(g, f)]
         /\ UNION {Successor(g, f) : f \in Left(g, S \cup {v})} =
              (UNION {Successor(g, f) : f \in Left(g, S)}) \cup Successor(g, F)
<1>1. Left(g, S \cup {v}) = Left(g, S) \cup {F}
  BY DEF Left
<1>2. \A L, f : InsertAll([h \in L |-> Successor(g, h)], f, Successor(g, f)) =
                 [h \in L \cup {f} |-> Successor(g, h)]
  BY DEF InsertAll, At
<1>3. QED
  BY <1>1, <1>2

\* The leafs complete the entries to the graph.
LEMMA LeafsComplete ==
  ASSUME NEW g, NEW S
  PROVE  LET map == [f \in Left(g, S) |-> Successor(g, f)]
             leafs == UNION {Successor(g, f) : f \in Left(g, S)}
         IN  InsertLeafs(map, leafs) = GraphOf(g, S)
  BY DEF GraphOf, Nodes, At, InsertLeafs

\* The visited site can escape, and stays within what can.
LEMMA VisitedEscapes ==
  ASSUME TypeOK, LoopInvariant, pc = "visiting", ToVisit # <<>>
  PROVE  /\ Visiting \in Escapes(problem, Visited)
         /\ Visited \cup {Visiting} \subseteq Escaping(problem)
<1>1. Visiting \in Escapes(problem, Visited)
  BY VisitingType DEF LoopInvariant, EscapesKnown
<1>2. Escapes(problem, Visited) \subseteq Escapes(problem, Escaping(problem))
  BY EscapesMonotone DEF LoopInvariant, EscapesKnown
<1>3. problem.throwSite \in Site
  BY ProblemType DEF Problem
<1>4. Escapes(problem, Escaping(problem)) \subseteq Escaping(problem)
  BY <1>3, EscapingClosed
<1>5. QED
  BY <1>1, <1>2, <1>4 DEF LoopInvariant, EscapesKnown

\* No step of the construction breaks the worklist invariant.
LEMMA LoopStep == ASSUME TypeOK, LoopInvariant, [Next]_vars PROVE LoopInvariant'
<1> DEFINE F == M.parent[Visiting]
<1>1. problem' = problem
  BY InputsUnchanged, ProblemUnchanged
<1>2. problem \in Problem /\ F = problem.parent[Visiting]
  BY ProblemType, ProblemFields
<1>3. CASE Start
  <2>1. /\ pc' = "visiting" /\ Visited' = {} /\ Leafs' = {} /\ Visited = {}
        /\ Leaked' = Leaked
        /\ ChildsMap' = EmptyMap
        /\ ToVisit' = <<problem.throwSite>>
    BY <1>3, ProblemFields DEF Start, Cleared, LoopInvariant
  <2>2. ToSet(ToVisit') = {problem.throwSite}
    BY <2>1 DEF ToSet
  <2>3. Escapes(problem, {}) = {problem.throwSite} /\ Left(problem, {}) = {}
    BY DEF Escapes, Left
  <2>4. EscapesKnown'
    BY <1>1, <2>1, <2>2, <2>3 DEF EscapesKnown
  <2>5. EntriesExact'
    BY <1>1, <2>1, <2>3 DEF EntriesExact, EmptyMap
  <2>6. FlagExact'
    BY <1>1, <2>1 DEF FlagExact, LoopInvariant
  <2>7. QED
    BY <2>1, <2>4, <2>5, <2>6 DEF LoopInvariant
<1>4. CASE SkipVisited
  <2>1. /\ pc = "visiting" /\ Visiting \in Visited
        /\ UNCHANGED <<ChildsMap, Visited, Leafs, Leaked, pc>>
        /\ ToSet(ToVisit) = ToSet(ToVisit') \cup {Visiting}
    BY <1>4, VisitingType DEF SkipVisited, Pop
  <2>2. EscapesKnown'
    BY <1>1, <2>1 DEF EscapesKnown, LoopInvariant
  <2>3. EntriesExact'
    BY <1>1, <2>1 DEF EntriesExact, LoopInvariant
  <2>4. FlagExact'
    BY <1>1, <2>1 DEF FlagExact, LoopInvariant
  <2>5. QED
    BY <2>1, <2>2, <2>3, <2>4 DEF LoopInvariant
<1>5. CASE VisitMain \/ VisitFunction
  <2>1. /\ pc = "visiting" /\ pc' = "visiting" /\ ToVisit # <<>>
        /\ Visited' = Visited \cup {Visiting}
    BY <1>5 DEF VisitMain, VisitFunction
  <2>2. /\ Visiting \in Site /\ F \in Function
        /\ ToSet(ToVisit) = ToSet(Front(ToVisit)) \cup {Visiting}
    BY <2>1, VisitingType
  <2>3. /\ ChildsMap' = InsertAll(ChildsMap, F, Successor(problem, F))
        /\ Leafs' = Leafs \cup Successor(problem, F)
        /\ Leaked' <=> Leaked \/ F = Main
    <3>1. CASE VisitMain
      BY <3>1, MainEntry DEF VisitMain, MainChilds
    <3>2. CASE VisitFunction
      BY <3>2, <2>2, VisitedEntry DEF VisitFunction
    <3>3. QED
      BY <1>5, <3>1, <3>2
  <2> DEFINE passed == IF F = Main THEN {} ELSE Uncaught(Callers(F))
  <2>4. ToSet(ToVisit') = ToSet(Front(ToVisit)) \cup passed
    BY <1>5, <2>1, PushedUsers DEF VisitMain, VisitFunction, Pop
  <2>5. Escapes(problem, Visited') = Escapes(problem, Visited) \cup passed
    BY <1>2, <2>1, <2>2, EscapesOneMore, PushedIsEscape DEF TypeOK
  <2>6. EscapesKnown'
    <3>1. Visited' \subseteq Escaping(problem)
      BY <2>1, VisitedEscapes
    <3> HIDE DEF passed
    <3>2. QED
      BY <1>1, <2>1, <2>2, <2>4, <2>5, <3>1 DEF EscapesKnown, LoopInvariant
  <2> HIDE DEF F
  <2>7. Left(problem, Visited') = Left(problem, Visited) \cup {F}
    BY <1>2, <2>1 DEF Left
  <2>8. EntriesExact'
    <3>1. /\ ChildsMap = [f \in Left(problem, Visited) |-> Successor(problem, f)]
          /\ Leafs = UNION {Successor(problem, f) : f \in Left(problem, Visited)}
      BY <2>1 DEF LoopInvariant, EntriesExact
    <3>2. /\ ChildsMap' = [f \in Left(problem, Visited') |-> Successor(problem, f)]
          /\ Leafs' = UNION {Successor(problem, f) : f \in Left(problem, Visited')}
      BY <1>2, <2>1, <2>3, <3>1, OneMoreEntry
    <3>3. QED
      BY <1>1, <3>2 DEF EntriesExact
  <2>9. FlagExact'
    BY <1>1, <2>3, <2>7 DEF FlagExact, LoopInvariant
  <2>10. QED
    BY <2>1, <2>6, <2>8, <2>9 DEF LoopInvariant
<1>6. CASE Finish
  <2>1. /\ pc = "visiting" /\ pc' = "done"
        /\ UNCHANGED <<ToVisit, Visited, Leafs, Leaked>>
        /\ ChildsMap' = InsertLeafs(ChildsMap, Leafs)
    BY <1>6 DEF Finish
  <2>2. ChildsMap' = GraphOf(problem, Visited)
    BY <2>1, LeafsComplete DEF LoopInvariant, EntriesExact
  <2>3. EscapesKnown' /\ EntriesExact'
    BY <1>1, <2>1 DEF EscapesKnown, EntriesExact, LoopInvariant
  <2>4. FlagExact'
    BY <1>1, <2>1 DEF FlagExact, LoopInvariant
  <2>5. QED
    BY <1>1, <2>1, <2>2, <2>3, <2>4 DEF LoopInvariant
<1>7. CASE UNCHANGED vars
  BY <1>1, <1>7 DEF vars, LoopInvariant, EscapesKnown, EntriesExact, FlagExact
<1>8. QED
  BY <1>3, <1>4, <1>5, <1>6, <1>7 DEF Next

(***************************************************************************)
(* The worklist invariant holds: the stack and the visited sites together  *)
(* are always exactly what the exception can escape from so far.           *)
(***************************************************************************)
THEOREM LoopInvariantHolds == Spec => []LoopInvariant
<1>1. Init => LoopInvariant
  BY DEF Init, LoopInvariant, EscapesKnown, EntriesExact, FlagExact, Left
<1>2. QED
  BY <1>1, LoopStep, TypeCorrect, PTL DEF Spec

-----------------------------------------------------------------------------
(* The finished graph *)

\* When the loop has ended, the visited sites are all the exception escapes from.
LEMMA VisitedIsEscaping ==
  ASSUME TypeOK, LoopInvariant, pc = "done"
  PROVE  Visited = Escaping(problem)
<1>1. ToSet(ToVisit) = {}
  BY DEF TypeOK, ToSet
<1>2. Closed(problem, Visited)
  BY <1>1 DEF LoopInvariant, EscapesKnown, Closed
<1>3. QED
  BY <1>2, EscapingUnique DEF LoopInvariant, EscapesKnown, TypeOK

\* So the finished map is the graph of that set.
LEMMA FinishedGraph ==
  ASSUME TypeOK, LoopInvariant, pc = "done"
  PROVE  /\ ChildsMap = GraphOf(problem, Escaping(problem))
         /\ Leaked <=> Main \in Left(problem, Escaping(problem))
  BY VisitedIsEscaping DEF LoopInvariant, FlagExact

(***************************************************************************)
(* The graph that is drawn shows exactly the call sites the exception      *)
(* escapes from, for every module, every result of the two analyses, every *)
(* exception, every order of users and every leftover in the static map    *)
(* (buildChildsMap, EHGraphPrinter.cpp:56-107).                            *)
(***************************************************************************)
THEOREM GraphIsExactHolds == Spec => []GraphIsExact
<1>1. TypeOK /\ LoopInvariant => GraphIsExact
  BY FinishedGraph DEF GraphIsExact
<1>2. QED
  BY <1>1, TypeCorrect, LoopInvariantHolds, PTL

\* LEAK is a node of the graph exactly if main is left.
LEMMA LeakNode ==
  ASSUME NEW g \in Problem
  PROVE  Leak \in DOMAIN GraphOf(g, Escaping(g)) <=> Main \in Left(g, Escaping(g))
<1>1. DOMAIN GraphOf(g, Escaping(g)) = Nodes(g, Escaping(g))
  BY DEF GraphOf
<1>2. Left(g, Escaping(g)) \subseteq Function
  BY DEF Problem, Escaping, Left
<1>3. ASSUME NEW f \in Left(g, Escaping(g))
      PROVE  Leak \in Successor(g, f) <=> f = Main
  <2>1. {g.parent[s] : s \in g.callers[f]} \subseteq Function
    BY <1>2 DEF Problem
  <2>2. QED
    BY <2>1, LeakAssumption DEF Successor
<1>4. QED
  BY <1>1, <1>2, <1>3, LeakAssumption DEF Nodes

(***************************************************************************)
(* The flag that is printed, the LEAK node that is drawn and a way out of  *)
(* main are one and the same (EHGraphPrinter.cpp:75-80).                   *)
(***************************************************************************)
THEOREM LeakReportsAgreeHolds == Spec => []LeakReportsAgree
<1>1. ASSUME TypeOK, LoopInvariant
      PROVE  LeakReportsAgree
  BY <1>1, FinishedGraph, ProblemType, LeakNode DEF LeakReportsAgree
<1>2. QED
  BY <1>1, TypeCorrect, LoopInvariantHolds, PTL

(***************************************************************************)
(* The writer never draws an edge to a function without a node             *)
(* (EHGraphPrinter.cpp:85, 103-105).                                       *)
(***************************************************************************)
THEOREM EveryNodePrintedHolds == Spec => []EveryNodePrinted
<1>1. ASSUME TypeOK, LoopInvariant
      PROVE  EveryNodePrinted
  <2>1. CASE pc = "visiting"
    BY <1>1, <2>1 DEF LoopInvariant, EntriesExact, EveryNodePrinted
  <2>2. CASE pc = "done"
    BY <1>1, <2>2 DEF LoopInvariant, GraphOf, Nodes, EveryNodePrinted
  <2>3. QED
    BY <1>1, <2>1, <2>2 DEF TypeOK, EveryNodePrinted
<1>2. QED
  BY <1>1, TypeCorrect, LoopInvariantHolds, PTL

(***************************************************************************)
(* Every node of the graph is reached from the function that throws, so    *)
(* nothing of an earlier graph survives in it (EHGraphPrinter.cpp:61).     *)
(***************************************************************************)
THEOREM RootedAtThrowerHolds == Spec => []RootedAtThrower
<1>1. ASSUME TypeOK, LoopInvariant
      PROVE  RootedAtThrower
  <2> DEFINE E == Escaping(problem)
             T(S) == {s \in E : problem.parent[s] \in S}
  <2>1. SUFFICES ASSUME pc = "done", NEW S \in SUBSET DOMAIN ChildsMap, Thrower \in S,
                        \A f \in S : ChildsMap[f] \subseteq S
                 PROVE  S = DOMAIN ChildsMap
    BY DEF RootedAtThrower
  <2>2. ChildsMap = GraphOf(problem, E)
    BY <1>1, <2>1, FinishedGraph
  <2>3. /\ problem.throwSite \in Site /\ problem.parent[problem.throwSite] = Thrower
        /\ Escapes(problem, E) \subseteq E
    BY <1>1, ProblemType, ProblemFields, EscapingClosed DEF Problem, Thrower
  <2>4. \A f \in S : f \in Left(problem, E) => Successor(problem, f) \subseteq S
    BY <2>1, <2>2 DEF GraphOf
  <2>5. Closed(problem, T(S))
    <3>1. SUFFICES ASSUME NEW s \in Escapes(problem, T(S))
                   PROVE  s \in E /\ problem.parent[s] \in S
      BY DEF Closed
    <3>2. s \in E
      BY <2>3, <3>1, EscapesMonotone
    <3>3. CASE s = problem.throwSite
      BY <2>1, <2>3, <3>2, <3>3
    <3>4. CASE s # problem.throwSite
      <4>1. PICK e \in T(S) : /\ problem.parent[e] # Main
                              /\ s \in problem.callers[problem.parent[e]]
        BY <3>1, <3>4 DEF Escapes
      <4>2. Successor(problem, problem.parent[e]) \subseteq S
        BY <2>4, <4>1 DEF Left
      <4>3. problem.parent[s] \in Successor(problem, problem.parent[e])
        BY <4>1 DEF Successor
      <4>4. QED
        BY <3>2, <4>2, <4>3
    <3>5. QED
      BY <3>3, <3>4
  <2>6. E \subseteq T(S)
    BY <2>5, EscapingLeast DEF Escaping
  <2>7. Left(problem, E) \subseteq S
    BY <2>6 DEF Left
  <2>8. Nodes(problem, E) \subseteq S
    BY <2>4, <2>7 DEF Nodes
  <2>9. QED
    BY <2>2, <2>8 DEF GraphOf
<1>2. QED
  BY <1>1, TypeCorrect, LoopInvariantHolds, PTL

(***************************************************************************)
(* An exception leaves a function it was not thrown in only through a call *)
(* site that does not catch it (EHGraphPrinter.cpp:87-89).                 *)
(***************************************************************************)
THEOREM CatchIsBarrierHolds == Spec => []CatchIsBarrier
<1>1. ASSUME TypeOK, LoopInvariant
      PROVE  CatchIsBarrier
  <2> DEFINE E == Escaping(problem)
  <2>1. SUFFICES ASSUME pc = "done", NEW f \in DOMAIN ChildsMap, f # Thrower, ChildsMap[f] # {}
                 PROVE  \E s \in Site : /\ M.parent[s] = f /\ ~canBeCaught(s, Exception)
                                        /\ \E g \in DOMAIN ChildsMap \ {Main, Leak} : s \in Callers(g)
    BY DEF CatchIsBarrier
  <2>2. ChildsMap = GraphOf(problem, E)
    BY <1>1, <2>1, FinishedGraph
  <2>3. PICK s \in E : M.parent[s] = f
    BY <2>1, <2>2, ProblemFields DEF GraphOf, Left
  <2>4. problem \in Problem /\ E \subseteq Site
    BY <1>1, ProblemType DEF Escaping
  <2>5. s \in Escapes(problem, E)
    BY <2>4, EscapingStable DEF Problem
  <2>6. s # problem.throwSite
    BY <2>1, <2>3, ProblemFields DEF Thrower
  <2>7. PICK e \in E : /\ problem.parent[e] # Main
                       /\ s \in problem.callers[problem.parent[e]]
    BY <2>5, <2>6 DEF Escapes
  <2>8. s \notin problem.caught
    BY <2>5, <2>6 DEF Escapes
  <2>9. problem.parent[e] \in DOMAIN ChildsMap \ {Main, Leak}
    BY <2>2, <2>4, <2>7, LeakAssumption DEF Problem, GraphOf, Nodes, Left
  <2>10. s \in Callers(problem.parent[e])
    BY <2>4, <2>7, ProblemFields DEF Problem
  <2>11. QED
    BY <2>3, <2>4, <2>8, <2>9, <2>10, ProblemFields
<1>2. QED
  BY <1>1, TypeCorrect, LoopInvariantHolds, PTL

(***************************************************************************)
(* The reference Childs stays valid: an iteration of the loop inserts no   *)
(* key but the one it was taken for (EHGraphPrinter.cpp:74, 82-91).        *)
(***************************************************************************)
THEOREM ReferenceStaysValidHolds == Spec => ReferenceStaysValid
<1> DEFINE others == (Function \cup {Leak}) \ {M.parent[Visiting]}
           kept == /\ DOMAIN ChildsMap' \cap others = DOMAIN ChildsMap \cap others
                   /\ \A f \in others : At(ChildsMap', f) = At(ChildsMap, f)
<1>1. ASSUME TypeOK, [Next]_vars, pc = "visiting", ToVisit # <<>>
      PROVE  kept
  <2>1. CASE UNCHANGED ChildsMap
    BY <2>1
  <2>2. CASE \E S : ChildsMap' = InsertAll(ChildsMap, M.parent[Visiting], S)
    BY <2>2 DEF InsertAll, At
  <2>3. CASE ~UNCHANGED ChildsMap
    <3>1. VisitMain \/ VisitFunction
      BY <1>1, <2>3 DEF Next, Start, SkipVisited, Finish, Ends, vars
    <3>2. QED
      BY <2>2, <3>1 DEF VisitMain, VisitFunction
  <2>4. QED
    BY <2>1, <2>3
<1>2. TypeOK /\ [Next]_vars => [pc = "visiting" /\ ToVisit # <<>> => kept]_vars
  BY <1>1
<1>3. QED
  BY <1>2, TypeCorrect, PTL DEF Spec, ReferenceStaysValid

-----------------------------------------------------------------------------
(* Progress *)

\* Triples of naturals, compared like words in a dictionary.
Triple == Nat \X Nat \X Nat

Less(p, q) ==
  \/ p[1] < q[1]
  \/ p[1] = q[1] /\ p[2] < q[2]
  \/ p[1] = q[1] /\ p[2] = q[2] /\ p[3] < q[3]

\* No step waits for an order of users that does not exist.
LEMMA OrdersExist ==
  ASSUME NEW S \in SUBSET Site, NEW k \in Nat
  PROVE  Orders(S, k) # {}
<1> DEFINE n == Cardinality(S)
<1>1. IsFiniteSet(S)
  BY SiteAssumption, FS_Subset
<1>2. n \in Nat /\ ExistsBijection(1..n, S)
  BY <1>1, FS_CardinalityType
<1>3. PICK q \in Bijection(1..n, S) : TRUE
  BY <1>2 DEF ExistsBijection
<1>4. q \in [1..n -> S] /\ q \in Surjection(1..n, S)
  BY <1>3 DEF Bijection, Injection
<1>5. ToSet(q) = S
  BY <1>4 DEF Surjection, ToSet
<1>6. n \in n..(n + k)
  BY <1>2
<1>7. q \in Orders(S, k)
  BY <1>4, <1>5, <1>6 DEF Orders
<1>8. QED
  BY <1>7

\* What the construction has still to do: the parts of it to come, the call
\* sites it may visit, and the pops that are certain.
ToDo ==
  <<IF pc = "start" THEN 2 ELSE IF pc = "visiting" THEN 1 ELSE 0,
    Cardinality(Site \ Visited), Len(ToVisit)>>

LEMMA ToDoType == ASSUME TypeOK PROVE ToDo \in Triple
<1>1. Cardinality(Site \ Visited) \in Nat
  BY SiteAssumption, FS_Subset, FS_CardinalityType
<1>2. Len(ToVisit) \in Nat
  BY DEF TypeOK
<1>3. QED
  BY <1>1, <1>2 DEF ToDo, Triple

\* A visit leaves one call site fewer to visit, an iteration without one a pop.
LEMMA ToDoLess == ASSUME TypeOK, Next PROVE Less(ToDo', ToDo)
<1>1. ToDo' = <<IF pc' = "start" THEN 2 ELSE IF pc' = "visiting" THEN 1 ELSE 0,
                Cardinality(Site \ Visited'), Len(ToVisit')>>
  BY DEF ToDo
<1>2. CASE Start \/ Finish
  BY <1>1, <1>2 DEF Start, Finish, ToDo, Less
<1>3. CASE SkipVisited
  <2>1. pc' = pc /\ Visited' = Visited /\ ToVisit # <<>> /\ ToVisit' = Front(ToVisit)
    BY <1>3 DEF SkipVisited, Pop
  <2>2. Len(ToVisit') < Len(ToVisit)
    BY <2>1 DEF TypeOK, Front
  <2>3. QED
    BY <1>1, <2>1, <2>2 DEF ToDo, Less
<1>4. CASE VisitMain \/ VisitFunction
  <2>1. /\ pc' = pc /\ ToVisit # <<>> /\ Visiting \notin Visited
        /\ Visited' = Visited \cup {Visiting}
    BY <1>4 DEF VisitMain, VisitFunction
  <2> DEFINE rest == Site \ Visited
  <2>2. Visiting \in rest /\ Site \ Visited' = rest \ {Visiting}
    BY <2>1, VisitingType
  <2>3. IsFiniteSet(rest)
    BY SiteAssumption, FS_Subset
  <2> HIDE DEF rest
  <2>4. Cardinality(Site \ Visited') < Cardinality(rest)
    <3>1. Cardinality(rest \ {Visiting}) = Cardinality(rest) - 1
      BY <2>2, <2>3, FS_RemoveElement
    <3>2. Cardinality(rest) \in Nat
      BY <2>3, FS_CardinalityType
    <3>3. QED
      BY <2>2, <3>1, <3>2
  <2>5. QED
    BY <1>1, <2>1, <2>4 DEF ToDo, Less, rest
<1>5. QED
  BY <1>2, <1>3, <1>4 DEF Next

(***************************************************************************)
(* What makes the loop end, whatever recursion the program has: each step  *)
(* leaves less to do, in an order without infinite descents                *)
(* (EHGraphPrinter.cpp:65-71).                                             *)
(***************************************************************************)
THEOREM ConstructionAdvances == Spec => [](ToDo \in Triple) /\ [][Less(ToDo', ToDo)]_vars
<1>1. TypeOK => ToDo \in Triple
  BY ToDoType
<1>2. TypeOK /\ [Next]_vars => [Less(ToDo', ToDo)]_vars
  BY ToDoLess
<1>3. QED
  BY <1>1, <1>2, TypeCorrect, PTL DEF Spec

-----------------------------------------------------------------------------
(* Refinement *)

\* Propagation's copies of the reference definitions are the ones used here.
LEMMA SameCallGraph ==
  ASSUME NEW g, NEW S
  PROVE  /\ P!Escapes(g, S) = Escapes(g, S)
         /\ P!Closed(g, S) <=> Closed(g, S)
         /\ P!Left(g, S) = Left(g, S)
         /\ P!GraphOf(g, S) = GraphOf(g, S)
<1>1. P!Escapes(g, S) = Escapes(g, S)
  BY DEF P!Escapes, Escapes
<1>2. P!Closed(g, S) <=> Closed(g, S)
  BY <1>1 DEF P!Closed, Closed
<1>3. P!Left(g, S) = Left(g, S)
  BY DEF P!Left, Left
<1>4. \A f : P!Successor(g, f) = Successor(g, f)
  BY DEF P!Successor, Successor
<1>5. P!Nodes(g, S) = Nodes(g, S)
  BY <1>3, <1>4 DEF P!Nodes, Nodes
<1>6. P!GraphOf(g, S) = GraphOf(g, S)
  BY <1>3, <1>4, <1>5 DEF P!GraphOf, GraphOf
<1>7. QED
  BY <1>1, <1>2, <1>3, <1>6

\* An iteration lets the exception escape from one more call site, publishes the
\* graph, or changes nothing that Propagation can see.
LEMMA RefinementStep ==
  ASSUME TypeOK, LoopInvariant, [Next]_vars
  PROVE  [P!Next]_P!vars
<1>1. problem' = problem
  BY InputsUnchanged, ProblemUnchanged
<1>2. CASE Start
  BY <1>1, <1>2 DEF Start, P!vars
<1>3. CASE SkipVisited
  BY <1>1, <1>3 DEF SkipVisited, P!vars
<1>4. CASE VisitMain \/ VisitFunction
  <2>1. /\ pc = "visiting" /\ pc' = "visiting" /\ ToVisit # <<>>
        /\ Visiting \notin Visited /\ Visited' = Visited \cup {Visiting}
    BY <1>4 DEF VisitMain, VisitFunction
  <2>2. Visiting \in Site /\ Visiting \in Escapes(problem, Visited)
    BY <2>1, VisitingType, VisitedEscapes
  <2>3. P!Escape(Visiting)
    BY <1>1, <2>1, <2>2, SameCallGraph DEF P!Escape
  <2>4. QED
    BY <2>2, <2>3 DEF P!Next
<1>5. CASE Finish
  <2>1. /\ pc = "visiting" /\ pc' = "done" /\ ToVisit = <<>>
        /\ UNCHANGED <<Visited, Leaked>>
        /\ ChildsMap' = InsertLeafs(ChildsMap, Leafs)
    BY <1>5 DEF Finish, Ends
  <2>2. Closed(problem, Visited)
    <3>1. ToSet(ToVisit) = {}
      BY <2>1 DEF ToSet
    <3>2. QED
      BY <2>1, <3>1 DEF LoopInvariant, EscapesKnown, Closed
  <2>3. ChildsMap' = GraphOf(problem, Visited)
    BY <2>1, LeafsComplete DEF LoopInvariant, EntriesExact
  <2>4. Leaked <=> Main \in Left(problem, Visited)
    BY DEF LoopInvariant, FlagExact
  <2>5. Leaked = (Main \in Left(problem, Visited))
    BY <2>4 DEF TypeOK
  <2>6. P!Publish
    <3>1. P!Closed(problem, Visited)
      BY <2>2, SameCallGraph
    <3>2. ChildsMap' = P!GraphOf(problem, Visited)
      BY <2>3, SameCallGraph
    <3>3. (pc = "done" /\ Leaked)' = (Main \in P!Left(problem, Visited))
      <4>1. P!Left(problem, Visited) = Left(problem, Visited)
        BY SameCallGraph
      <4>2. pc' = "done" /\ Leaked' = Leaked
        BY <2>1
      <4>3. (pc = "done" /\ Leaked)' <=> Main \in P!Left(problem, Visited)
        BY <4>1, <4>2, <2>4, Zenon
      <4>4. QED
        BY <4>3, SMT
    <3>4. QED
      BY <1>1, <2>1, <3>1, <3>2, <3>3 DEF P!Publish
  <2>7. QED
    BY <2>6 DEF P!Next
<1>6. CASE UNCHANGED vars
  BY <1>1, <1>6 DEF vars, P!vars
<1>7. QED
  BY <1>2, <1>3, <1>4, <1>5, <1>6 DEF Next

\* What is to be refined at the beginning.
LEMMA RefinementInit ==
  ASSUME TypeOK, pc = "start", Visited = {}, Leaked = FALSE
  PROVE  P!Init
  BY ProblemType DEF P!Init

(***************************************************************************)
(* Every behaviour of the construction is one of Propagation, its fairness *)
(* apart: it starts as one, and each iteration lets the exception escape   *)
(* from one more call site, publishes the graph, or changes nothing        *)
(* Propagation can see (buildChildsMap as a whole).                        *)
(***************************************************************************)
THEOREM SafetyRefinement == Spec => P!Init /\ [][P!Next]_P!vars
<1>1. Init /\ TypeOK => P!Init
  BY RefinementInit DEF Init
<1>2. TypeOK /\ LoopInvariant /\ [Next]_vars => [P!Next]_P!vars
  BY RefinementStep
<1>3. QED
  BY <1>1, <1>2, TypeCorrect, LoopInvariantHolds, PTL DEF Spec
=============================================================================
