------------------------------ MODULE Reporting ------------------------------
(***************************************************************************)
(* What the user of the printer is promised, with no loop over the module  *)
(* and no construction: there are exceptions to report and one right       *)
(* answer for each; they are asked about in any order, each at least once, *)
(* and an answer stands once it is given.  Files are numbered in the order *)
(* of the answers.                                                         *)
(***************************************************************************)
EXTENDS CallGraph, Naturals, Sequences, FiniteSets

CONSTANTS
  NodeThreshold,  \* how large a graph may be to be drawn
  NoException,    \* no question is open
  Empty,          \* the contents of a file while its question is open
  Partial,        \* the contents of a file after a write error
  OldFiles        \* what the directory may hold at the beginning

VARIABLES
  asked,        \* the exceptions to report
  problem,      \* the propagation problem of those that can be looked at
  color,        \* the colors of all functions, for each of these
  current,      \* the question that is open, or NoException
  opened,       \* there is a file for it
  files,        \* the directory
  reports,      \* the answers given
  outcome       \* "running", "returned", "crashed" or "failed"

questions == <<asked, problem, color>>
vars == <<questions, current, opened, files, reports, outcome>>

\* The first file has number 0.
Number == Len(reports)

Graph(e) == GraphOf(problem[e], Escaping(problem[e]))

Drawn(e) == Cardinality(DOMAIN Graph(e)) <= NodeThreshold

Picture(e) ==
  LET thrower == problem[e].parent[problem[e].throwSite]
  IN  [name   |-> <<e, thrower>>,
       throws |-> thrower,
       nodes  |-> [f \in DOMAIN Graph(e) |-> color[e][f]],
       edges  |-> UNION {{f} \X Graph(e)[f] : f \in DOMAIN Graph(e)}]

Init ==
  /\ DOMAIN problem \subseteq asked
  /\ current = NoException
  /\ opened = FALSE
  /\ files \in OldFiles
  /\ reports = <<>>
  /\ outcome = "running"

OpenFile ==
  /\ outcome = "running" /\ current = NoException
  /\ opened' \in BOOLEAN
  /\ files' = IF opened' THEN [n \in DOMAIN files \cup {Number} |->
                                 IF n = Number THEN Empty ELSE files[n]]
                         ELSE files

Ask ==
  /\ OpenFile
  /\ current' \in DOMAIN problem
  /\ UNCHANGED <<reports, outcome, questions>>

\* A question nobody can ask: what throws has no name.
Break ==
  /\ OpenFile
  /\ DOMAIN problem # asked
  /\ outcome' = "crashed"
  /\ UNCHANGED <<current, reports, questions>>

\* The answer, and the picture if there is a file and the graph is small enough.
Say(contents) ==
  /\ outcome = "running" /\ current # NoException
  /\ reports' = Append(reports, [exception |-> current,
                                nodes   |-> Cardinality(DOMAIN Graph(current)),
                                leaked  |-> Leak \in DOMAIN Graph(current),
                                printed |-> Drawn(current), opened |-> opened])
  /\ files' = IF opened /\ Drawn(current) THEN [files EXCEPT ![Number] = contents]
                                          ELSE files
  /\ current' = NoException
  /\ UNCHANGED <<opened, questions>>

Answer == Say(Picture(current)) /\ outcome' = outcome

FailToWrite == Say(Partial) /\ opened /\ Drawn(current) /\ outcome' = "failed"

Return ==
  /\ outcome = "running" /\ current = NoException
  /\ \A e \in asked : \E k \in DOMAIN reports : reports[k].exception = e
  /\ outcome' = "returned"
  /\ UNCHANGED <<current, opened, files, reports, questions>>

Next == Ask \/ Break \/ Answer \/ FailToWrite \/ Return

\* It comes to an end: no question is asked again for ever.
Spec == Init /\ [][Next]_vars /\ <>(outcome # "running")
=============================================================================
