--------------------------- MODULE NestTryCatchTest ---------------------------
(***************************************************************************)
(* The unit test NestTryCatch (unittest/NestTryCatchTest.cpp): its module, *)
(* for the construction of the one graph, and what it expects of it.  The  *)
(* static map may hold nodes, as after another test in the same process.   *)
(***************************************************************************)
EXTENDS EHGraphDOTInfo

\* The functions each function calls.  A call site is named after its caller
\* and its callee; llvm.eh.typeid.for is called twice, one stands for both.
Calls ==
  [throw_a   |-> {"__cxa_allocate_exception", "__cxa_throw"},
   test      |-> {"throw_a", "llvm.eh.typeid.for", "__cxa_begin_catch",
                  "__cxa_end_catch"},
   call_test |-> {"test"}]

TestSites == UNION {{<<F, callee>> : callee \in Calls[F]} : F \in DOMAIN Calls}

TestFunctions == DOMAIN Calls \cup UNION {Calls[F] : F \in DOMAIN Calls}

Invoke == <<"test", "throw_a">>
CxaThrow == <<"throw_a", "__cxa_throw">>

NestTryCatchModule ==
  [parent     |-> [s \in Site |-> s[1]],
   users      |-> [F \in Function |-> {s \in Site : s[2] = F}],
   landingPad |-> [s \in {Invoke} |-> {"_ZTI1B", "_ZTI1A"}],
   thrown     |-> [s \in {CxaThrow} |-> "_ZTI1A"],
   external   |-> {}]

\* Neither analyze() nor solve() is called: all their maps are empty.
TestInputs ==
  {[M |-> NestTryCatchModule, throwSite |-> CxaThrow, CallSitesMap |-> EmptyMap,
    CallerMap |-> EmptyMap, SubclassesMap |-> EmptyMap,
    ChildsMap |-> [F \in old |-> {"throw_a"}]] : old \in SUBSET Function}

-----------------------------------------------------------------------------

\* The exception of type A passes throw_a, is caught in test by the second
\* clause of its landing pad and is not propagated to the callers of test
\* (NestTryCatchTest.cpp:98-100).
NotPropagated ==
  pc = "done" => /\ "call_test" \notin DOMAIN ChildsMap
                 /\ ChildsMap["throw_a"] = {"test"} /\ ChildsMap["test"] = {}
=============================================================================
