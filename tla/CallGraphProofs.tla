--------------------------- MODULE CallGraphProofs ---------------------------
(***************************************************************************)
(* Facts about the reference definitions of CallGraph, for every call      *)
(* graph: the least closed set exists and is itself closed.                *)
(***************************************************************************)
EXTENDS CallGraph, TLAPS

\* More sites to escape from never means fewer escapes.
LEMMA EscapesMonotone ==
  ASSUME NEW g, NEW S, NEW T, S \subseteq T
  PROVE  Escapes(g, S) \subseteq Escapes(g, T)
  BY DEF Escapes

\* The sites the exception escapes from are contained in every closed set.
LEMMA EscapingLeast ==
  ASSUME NEW g, NEW S \in SUBSET Site, Closed(g, S)
  PROVE  Escaping(g) \subseteq S
  BY DEF Escaping

(***************************************************************************)
(* They are closed themselves: an exception that has escaped from all of   *)
(* them has nowhere else to go.                                            *)
(***************************************************************************)
LEMMA EscapingClosed ==
  ASSUME NEW g, g.throwSite \in Site
  PROVE  Escapes(g, Escaping(g)) \subseteq Escaping(g)
<1>1. SUFFICES ASSUME NEW s \in Escapes(g, Escaping(g)),
                      NEW S \in SUBSET Site, Closed(g, S)
               PROVE  s \in S
  <2>1. Escapes(g, Escaping(g)) \subseteq Site
    BY DEF Escapes
  <2>2. QED
    BY <2>1 DEF Escaping
<1>2. Escaping(g) \subseteq S
  BY <1>1, EscapingLeast
<1>3. Escapes(g, Escaping(g)) \subseteq Escapes(g, S)
  BY <1>2, EscapesMonotone
<1>4. QED
  BY <1>1, <1>3 DEF Closed

\* Each of them has a reason: it throws, or it calls a function that is left.
LEMMA EscapingStable ==
  ASSUME NEW g, g.throwSite \in Site
  PROVE  Escaping(g) \subseteq Escapes(g, Escaping(g))
<1>1. Escapes(g, Escaping(g)) \in SUBSET Site
  BY DEF Escapes
<1>2. Closed(g, Escapes(g, Escaping(g)))
  BY EscapingClosed, EscapesMonotone DEF Closed
<1>3. QED
  BY <1>1, <1>2, EscapingLeast

\* So a closed set that lies within them is all of them.
LEMMA EscapingUnique ==
  ASSUME NEW g, NEW S \in SUBSET Site, Closed(g, S), S \subseteq Escaping(g)
  PROVE  S = Escaping(g)
  BY EscapingLeast

\* Visiting one more site adds the call sites of its function, and no others.
LEMMA EscapesOneMore ==
  ASSUME NEW g \in Problem, NEW S \in SUBSET Site, NEW v \in Site
  PROVE  Escapes(g, S \cup {v}) =
           Escapes(g, S) \cup
           (IF g.parent[v] = Main THEN {}
            ELSE {s \in g.callers[g.parent[v]] : s \notin g.caught})
<1>1. g.parent[v] \in Function
  BY DEF Problem
<1>2. g.callers[g.parent[v]] \subseteq Site
  BY <1>1 DEF Problem
<1>3. QED
  BY <1>2 DEF Escapes

-----------------------------------------------------------------------------
(* Two problems compared *)

(***************************************************************************)
(* h has the callers of g, at least of the functions with a call site, and *)
(* no landing pad that stops the exception and does not in g; that of the  *)
(* throw site is not asked.                                                *)
(***************************************************************************)
Extends(h, g) ==
  /\ h.parent = g.parent /\ h.throwSite = g.throwSite
  /\ \A e \in Site : g.callers[g.parent[e]] \subseteq h.callers[g.parent[e]]
  /\ h.caught \subseteq g.caught \cup {g.throwSite}

\* Then the exception escapes in h from where it escapes in g.
LEMMA EscapingMonotone ==
  ASSUME NEW g \in Problem, NEW h \in Problem, Extends(h, g)
  PROVE  Escaping(g) \subseteq Escaping(h)
<1>1. \A S \in SUBSET Site : Escapes(g, S) \subseteq Escapes(h, S)
  BY DEF Extends, Escapes
<1>2. Escaping(h) \in SUBSET Site
  BY DEF Escaping
<1>3. h.throwSite \in Site
  BY DEF Problem
<1>4. Closed(g, Escaping(h))
  BY <1>1, <1>2, <1>3, EscapingClosed DEF Closed
<1>5. QED
  BY <1>2, <1>4, EscapingLeast

\* And the graph of h contains that of g.
LEMMA GraphMonotone ==
  ASSUME NEW g \in Problem, NEW h \in Problem, Extends(h, g)
  PROVE  \A f \in DOMAIN GraphOf(g, Escaping(g)) :
           /\ f \in DOMAIN GraphOf(h, Escaping(h))
           /\ GraphOf(g, Escaping(g))[f] \subseteq GraphOf(h, Escaping(h))[f]
<1> DEFINE S == Escaping(g)
           T == Escaping(h)
<1>1. S \subseteq T /\ T \subseteq Site
  BY EscapingMonotone DEF Escaping
<1>2. Left(g, S) \subseteq Left(h, T)
  BY <1>1 DEF Left, Extends
<1>3. \A f \in Left(g, S) : Successor(g, f) \subseteq Successor(h, f)
  <2>1. SUFFICES ASSUME NEW e \in S
                 PROVE  Successor(g, g.parent[e]) \subseteq Successor(h, g.parent[e])
    BY DEF Left
  <2>2. g.callers[g.parent[e]] \subseteq h.callers[g.parent[e]] /\ h.parent = g.parent
    BY <1>1 DEF Extends
  <2>3. QED
    BY <2>2 DEF Successor
<1> HIDE DEF S, T
<1>4. Nodes(g, S) \subseteq Nodes(h, T)
  BY <1>2, <1>3 DEF Nodes
<1>5. \A f \in Nodes(g, S) :
        (IF f \in Left(g, S) THEN Successor(g, f) ELSE {}) \subseteq
          (IF f \in Left(h, T) THEN Successor(h, f) ELSE {})
  BY <1>2, <1>3
<1>6. \A f \in DOMAIN GraphOf(g, S) :
        f \in DOMAIN GraphOf(h, T) /\ GraphOf(g, S)[f] \subseteq GraphOf(h, T)[f]
  BY <1>4, <1>5 DEF GraphOf
<1>7. QED
  BY <1>6 DEF S, T

\* Two problems that extend each other have the same graph.
LEMMA GraphEqual ==
  ASSUME NEW g \in Problem, NEW h \in Problem, Extends(h, g), Extends(g, h)
  PROVE  GraphOf(g, Escaping(g)) = GraphOf(h, Escaping(h))
<1> DEFINE G == GraphOf(g, Escaping(g))
           H == GraphOf(h, Escaping(h))
<1>1. /\ \A f \in DOMAIN G : f \in DOMAIN H /\ G[f] \subseteq H[f]
      /\ \A f \in DOMAIN H : f \in DOMAIN G /\ H[f] \subseteq G[f]
  BY GraphMonotone
<1>2. G = [f \in DOMAIN G |-> G[f]] /\ H = [f \in DOMAIN H |-> H[f]]
  BY DEF GraphOf
<1> HIDE DEF G, H
<1>3. DOMAIN G = DOMAIN H /\ \A f \in DOMAIN G : G[f] = H[f]
  BY <1>1
<1>4. G = H
  BY <1>2, <1>3
<1>5. QED
  BY <1>4 DEF G, H
=============================================================================
