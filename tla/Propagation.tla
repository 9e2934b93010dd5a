----------------------------- MODULE Propagation -----------------------------
(***************************************************************************)
(* What a propagation graph promises, with no worklist and no order: the   *)
(* exception leaves one call site after another, any that it can, and the  *)
(* answer is published once there is no other site for it to leave.        *)
(***************************************************************************)
EXTENDS CallGraph

CONSTANT
  Problems,     \* the propagation problems a behaviour may start from
  NoGraph       \* no answer yet

VARIABLES
  problem,      \* the problem at hand, which never changes
  escaped,      \* the call sites the exception is known to have escaped from
  graph,        \* the published graph, or NoGraph
  leaked        \* the published verdict: the exception may leave main

vars == <<problem, escaped, graph, leaked>>

Init ==
  /\ problem \in Problems
  /\ escaped = {}
  /\ graph = NoGraph
  /\ leaked = FALSE

Escape(s) ==
  /\ graph = NoGraph
  /\ s \in Escapes(problem, escaped) \ escaped
  /\ escaped' = escaped \cup {s}
  /\ UNCHANGED <<problem, graph, leaked>>

Publish ==
  /\ graph = NoGraph
  /\ Closed(problem, escaped)
  /\ graph' = GraphOf(problem, escaped)
  /\ leaked' = (Main \in Left(problem, escaped))
  /\ UNCHANGED <<problem, escaped>>

Next == (\E s \in Site : Escape(s)) \/ Publish

Spec == Init /\ [][Next]_vars /\ WF_vars(Next)
=============================================================================
