------------------------------ MODULE CallGraph ------------------------------
(***************************************************************************)
(* What it means for an exception to propagate through a call graph,       *)
(* stated without any algorithm.  A propagation problem is a record g:     *)
(*   g.parent[s]   the function that contains call site s,                 *)
(*   g.callers[f]  the call sites that may call function f,                *)
(*   g.caught      the call sites whose landing pad stops the exception,   *)
(*   g.throwSite   the call site that throws.                              *)
(* Only reference definitions live here; they are what the modules that    *)
(* model the code are measured against.                                    *)
(***************************************************************************)
EXTENDS LLVMValues

CONSTANTS
  Main,         \* the function named "main"; a module need not have one
  Leak          \* the artificial node LEAK, a function outside the module

ASSUME LeakAssumption == Leak \notin Function

Problem == [parent : [Site -> Function], callers : [Function -> SUBSET Site],
            caught : SUBSET Site, throwSite : Site]

(***************************************************************************)
(* If the exception escapes from the sites in S, it escapes from these     *)
(* too: the throw site itself, and every call site that calls a function   *)
(* it has escaped from and does not catch it.  Nothing calls main.         *)
(***************************************************************************)
Escapes(g, S) ==
  {g.throwSite} \cup
  {s \in Site : /\ s \notin g.caught
                /\ \E e \in S : /\ g.parent[e] # Main
                                /\ s \in g.callers[g.parent[e]]}

Closed(g, S) == Escapes(g, S) \subseteq S

\* The sites the exception escapes from: the least closed set of sites.
Escaping(g) == {s \in Site : \A S \in SUBSET Site : Closed(g, S) => s \in S}

(***************************************************************************)
(* The graph that shows the escapes in S: an edge from each function left  *)
(* by the exception to every function with a call site for it, catching or *)
(* not, and from main to LEAK.                                             *)
(***************************************************************************)
Left(g, S) == {g.parent[s] : s \in S}

Successor(g, f) ==
  IF f = Main THEN {Leak} ELSE {g.parent[s] : s \in g.callers[f]}

Nodes(g, S) == Left(g, S) \cup UNION {Successor(g, f) : f \in Left(g, S)}

GraphOf(g, S) ==
  [f \in Nodes(g, S) |-> IF f \in Left(g, S) THEN Successor(g, f) ELSE {}]

=============================================================================
