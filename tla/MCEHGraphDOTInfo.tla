--------------------------- MODULE MCEHGraphDOTInfo ---------------------------
(***************************************************************************)
(* Small call graphs for EHGraphDOTInfo.  The throw site is in f (or in    *)
(* main); three other call sites a, b, c lie in any function and call f,   *)
(* g or both, directly, through !callees or virtually, under a landing pad *)
(* or not.  This gives recursion, several sites in one function, functions *)
(* reached by all three kinds of call, and main reached or cut off.        *)
(***************************************************************************)
EXTENDS EHGraphDOTInfo, TLC

CONSTANTS main, f, g, t, a, b, c, A, B

Kinds == {"user", "callees", "virtual"}

\* One call site: where it is, what it calls and how, and its landing pad.
Free == [parent : {main, f, g}, targets : {{f}, {g}, {f, g}}, kind : Kinds,
         pad : {"none", B}]
Plain == [parent : {main}, targets : {{g}}, kind : {"user"},
          pad : {Filter, CatchAll}]

\* What the throw site may be: in f or main, perhaps with f as an operand (the
\* destructor), for an exception of type A or an external one.
Throw == [parent : {f}, targets : {{}, {f}}, thrown : {A, External}]
           \cup [parent : {main}, targets : {{}}, thrown : {A}]

SitesTo(h, sites, kind) ==
  {s \in DOMAIN sites : h \in sites[s].targets /\ sites[s].kind = kind}

MapOf(sites, kind) ==
  [h \in {h \in Function : SitesTo(h, sites, kind) # {}} |-> SitesTo(h, sites, kind)]

Input(th, sites) ==
  [M |-> [parent |-> [s \in Site |-> IF s = t THEN th.parent ELSE sites[s].parent],
          users |-> [h \in Function |->
                       SitesTo(h, sites, "user")
                         \cup (IF h \in th.targets THEN {t} ELSE {})],
          landingPad |-> [s \in {s \in DOMAIN sites : sites[s].pad # "none"} |->
                            {sites[s].pad}],
          thrown |-> [s \in IF th.thrown = External THEN {} ELSE {t} |-> th.thrown],
          external |-> {B}],
   throwSite |-> t,
   CallSitesMap |-> MapOf(sites, "callees"),
   CallerMap |-> MapOf(sites, "virtual"),
   SubclassesMap |-> B :> {A},
   ChildsMap |-> (g :> {f, main} @@ Leak :> {})]

MCInputs ==
  {Input(th, a :> x @@ b :> y @@ c :> z) : th \in Throw, x \in Free, y \in Free, z \in Plain}

\* Without c and with one target each, for use lists that repeat a user.
MCFewInputs ==
  LET One == {x \in Free : x.targets # {f, g}}
  IN  {Input(th, a :> x @@ b :> y) : th \in Throw, x \in One, y \in One}
=============================================================================
