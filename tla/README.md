# Verification of the exception propagation graph printer

The program reads one LLVM module and, for each call that may throw, prints the
graph of the functions the exception can travel through on its way up, with a
verdict: can it leave `main`? This directory holds TLA+ models of that program,
TLC configurations that check them on small instances, and proofs that TLAPS
checks for every instance.

## 1. Inventory

All of the program's own code is in `src/` and `include/`; `third-party/` is a
vendored googletest. Paths below are relative to the repository.

| Component | State it keeps | Operations | Talks to |
|---|---|---|---|
| `EHGraphDOTInfo` (`EHGraphPrinter.h`, `EHGraphPrinter.cpp:26-107`) | the **static** `ChildsMap`; `Leaked`, `EntryNode`; the local `ToVisit`, `Visited`, `Leafs` | constructor, `buildChildsMap`, `canBeCaught` | asks both analyses for callers, the analyzer for subclasses |
| `CurrentException` (`EHGraphPrinter.h:11-34`) | throw site, thrown type info | constructor, queries | read by the construction and the driver |
| `VCallCandidatesAnalyzer` (`IndirectCallAnalysis.*`) | `TypeIdCompatibleMap`, `SubclassesMap`, `CallerMap` | `analyze`, `getVCallCandidates`, `getCallerCandidates`, `derivedFrom` | filled before, queried during every construction |
| `ICallSolver` (`ICallSolver.h`, `IndirectCallSolver.cpp`) | `CallSitesMap` | `solve`, `getCallSites` | as above |
| Driver (`EHGraphPrinter.cpp:209-284`) | counter `I`, the artificial `LEAK` function, one output file per graph | `shouldTrackFunction`, `doEHGraphDOTPrinting`, the pass's `run` | runs both analyses once, then one construction per throw site |
| DOT writer traits (`EHGraphPrinter.cpp:109-207`) | none: reads the static `ChildsMap` | node and edge iteration, labels, colors | called by LLVM's `WriteGraph` |
| `main`, `runPasses` (`main.cpp`) | the exit status | parse, verify, run the pass | |
| Unit tests (`unittest/`) | none | three modules in LLVM assembly, and expectations on them | call the construction and the analyzer |
| `getDemangledName` (`util.cpp`) | none | formatting | |

The program has one thread and no persistent state: it never waits, is never
interrupted by an event and needs no recovery. What makes it hard is elsewhere:

* **Order.** Users come in use-list order and indirect callers in the pointer
  order of a `std::set<User *>`; neither may show in the result.
* **Recursion.** The call graph is cyclic, keyed by call site while it is
  walked and by function in the result.
* **State that outlives its use.** `ChildsMap` is static, `Childs` is a
  reference into a hash map that other insertions would invalidate, the output
  directory may hold files of an earlier run.
* **Two independent reports** of one fact: the `Leaked` flag and the `LEAK` node.
* **Partial failure.** A file is created before its graph is known; one that
  cannot be opened is passed over; a write error ends the process, with the
  status that a rejected input has; a type id the analysis does not expect ends
  it, too.
* **Approximations** stacked on each other: which calls may be virtual, which
  callee a call site has, which landing pad may catch.

What makes each component correct:

* *Construction*: the map is exactly the graph of the call sites the exception
  escapes from, whatever the order, the recursion and the leftovers of an
  earlier graph; a landing pad that catches stops the exception, on that path
  only; flag and node agree; every function an edge leads to has a node; the
  loop ends.
* *Analyzer*: a virtual call has as candidates exactly the defined functions in
  the slot, of the vtables compatible with its type id; subclasses are
  those with an address point for the base; `analyze` may look up candidates
  only once all vtables are registered.
* *ICallSolver*: `CallSitesMap` inverts the `!callees` metadata.
* *Driver*: one report per use of a tracked function, numbered without
  gaps, each independent of those before; files written only within the
  threshold and when they could be opened.
* *Whole program*: every way an exception can unwind at run time is in the
  graph as far as the module tells, and nothing else is where nothing is
  uncertain; success means that all was reported, and each other end of the
  process has a reason that can be told.

## 2. Modules

| Module | Models |
|---|---|
| `CallGraph` | no code: reference definitions. What a propagation problem is, the sites an exception escapes from (the *least closed set*, `Escaping`), and the graph of a set of sites (`GraphOf`). |
| `Propagation` | no code: the abstract specification. The exception escapes from one site after another, in any order, and the graph is published when there is no other. |
| `Reporting` | no code: the abstract specification of the driver. There are exceptions to report and one right answer for each; they are asked about in any order, an answer stands once it is given, and files are numbered as the answers are. |
| `Maps` | the `DenseMap` operations the others share. |
| `LLVMValues`, `LLVMModule` | no code: the functions and call sites, and the module `M` all components read. |
| `VCallResults`, `CallSites` | what the analyses leave for the printer: `SubclassesMap` and `CallerMap`, `CallSitesMap`, with the queries of them (`derivedFrom`, `getCallerCandidates`, `getCallSites`). |
| `EHGraphDOTInfo` | the constructor and `buildChildsMap`, one action per path through the loop body, with `canBeCaught`; extends `CallSites` and `VCallResults`. |
| `VCallCandidates` | `analyze` and `getVCallCandidates`: registering vtables, then resolving virtual calls; extends `VCallResults`. |
| `ICallSolver` | `solve`: the inversion of `!callees`; extends `CallSites`. |
| `EHGraphPrinter` | the driver and the writer's traits; extends `EHGraphDOTInfo`, whose steps are its own while a graph is built, and implements `Reporting`. |
| `Pipeline` | `main`, `runPasses` and the pass's `run`; extends `EHGraphPrinter`, `VCallCandidates` and `ICallSolver`, which share the module and the maps through the modules above. |
| `NestTryCatchTest`, `VCallTests` | the unit tests: their modules and expectations, on `EHGraphDOTInfo` and `VCallCandidates`. |
| `MC...` | small instances for TLC. |
| `UnitTestProofs` | the theorems about the unit tests. |
| `CallGraphProofs`, `MapsProofs` | lemmas about `CallGraph` and `Maps`. |
| `EHGraphDOTInfoProofs`, `VCallCandidatesProofs`, `ICallSolverProofs`, `EHGraphPrinterProofs`, `PipelineProofs` | the theorems about the module they are named after. |

### State and actions of `EHGraphDOTInfo`

| Model | Code |
|---|---|
| `M` | what the construction reads of the LLVM module: the function of a call site, the users of a function that are calls, landing pads' clauses, thrown type infos, linkage |
| `CallSitesMap`, `CallerMap`, `SubclassesMap` | results of the two analyses, fixed inputs here |
| `ChildsMap` | the static map; `Init` leaves in it whatever an earlier graph may have |
| `ToVisit`, `Visited`, `Leafs`, `Leaked` | the locals and the field of the same names; the stack's top is the sequence's last element |
| `Start` | `buildChildsMap` up to the loop |
| `SkipVisited` | an iteration that takes the first `continue` |
| `VisitMain` | an iteration that takes the second |
| `VisitFunction` | any other: `HandleUser` for all users and indirect callers |
| `Finish` | the insertion of the leafs |

A call site, a function and a type info are model values. `HandleUser` runs to
its end for every user before anything else can happen, so all of them are one
action; the order in which users are pushed is chosen freely for each of the
two use lists (`Orders`), direct users before indirect callers as in the code. A
use list names a user once for each operand that is the function, hence
`RepeatedUses`. Null keys of `SubclassesMap` (a base without a type info in this
module) are left out: no clause is null, so no query meets them.

### State and actions of `VCallCandidates`

| Model | Code |
|---|---|
| `M` | what the analysis reads of the module: vtables (names with `_ZTV`), their visibility, `!type` metadata, slots and type infos; calls through loaded pointers with their offset and type tests |
| `TypeIdCompatibleMap`, `SubclassesMap`, `CallerMap` | the members of the same names |
| `globals`, `vcalls`, `vpc` | where the two loops of `analyze` are |
| `AnalyzerStart` | the clearing of `TypeIdCompatibleMap` (the other two maps are not cleared) |
| `SkipGlobal`, `RegisterVTable` | an iteration of the first loop, without and with effect |
| `CrashOnVTable` | an iteration that meets an id without `_ZTS`: the address point is inserted, then `llvm_unreachable` is reached |
| `SkipCall`, `ResolveCall` | an iteration of the second; `ResolveCall` is the whole of `getVCallCandidates` with the insertion into `CallerMap` |
| `CrashOnCall` | an iteration in which the folded load is null, which `dyn_cast` must not be given |
| `StartCalls`, `Return` | the ends of the loops |

A global, a type id, a type info and a call are model values; a string is
reduced to what the code tells apart: a class id, one that ends in `.virtual`, the
empty string. The object's type tests are a set of ids and the code looks at the
first in use-list order, so `ResolveCall` chooses any of them. Loads from a
vtable are a function of its slots; a slot that holds no function is not in its
domain, and a vtable without an initializer is `opaque`. Both loops go in the
order of the module, which is left open.

`Unprefixed` are the class ids that do not begin with `_ZTS`; clang emits one,
`"all-vtables"`, with some options, and LLVM's verifier does not look at ids. What
`llvm_unreachable` does depends on the build: one with assertions ends the
process, another may go on as if the prefix were there. So both `CrashOnVTable` and
`RegisterVTable` are possible at such a vtable; in the second the base class is
the one named by what follows the id's first four characters, which
`baseInfo` says. An empty id in the metadata is left out.

`CallsResolved` and `OnlyRealCallers` are stated against the meaning of type
metadata, not against the code's maps: an object's vtable pointer is an address
point, a call runs the function at the signed offset from it.

### `ICallSolver`

One action per call, `SkipWithoutCallees` or `InsertCallees`; `icalls` are the
calls still to visit. Metadata operands that are
not functions (aliases) are dropped by the code and absent from `callees`.

### State and actions of `EHGraphPrinter`

| Model | Code |
|---|---|
| `functions`, `uses` | what the two `for` loops have still to visit, the functions in the order of the module, the users in any |
| `I` | the counter |
| `opened`, `files` | `!EC` of the file at hand; the contents of the output directory, which `Init` leaves as an earlier run may have |
| `reports` | the lines on the terminal, one record per graph |
| `SkipFunction`, `TrackFunction` | the outer loop, `shouldTrackFunction` false (or no user) and true |
| `SkipUser` | `continue` for initializers of globals |
| `BeginGraph` | from the file's creation to the constructor of `EHGraphDOTInfo` |
| `CrashOnUser` | the same, with a user that is an indirect call: its called function is null and is asked for its name |
| `BuildGraph` | a step of `EHGraphDOTInfo` |
| `PrintGraph` | the report, and `WriteGraph` if the graph is within the threshold and the file open |
| `WriteFails` | the same, the stream having met an error nobody clears: its destructor ends the process with exit status 1 (stage "failed") |
| `ReturnFromPrinter` | the end of the outer loop |

A drawing is a record: name, throwing function, nodes with the value their color
is computed from, edges. How these are spelled is left out. The users of a
tracked function are call sites that *name* it, not necessarily calls of it: the
destructor operand of `__cxa_throw`, an argument of an indirect call.

`Reporting` knows none of these loops. Its questions are the exceptions of the
tracked uses (`Asked`), those that can be answered the ones whose throw site has
a called function (`Answerable`), and the question that is open is the
exception whose graph is being built. `BeginGraph` maps to `Ask`, `PrintGraph`
to `Answer`, `WriteFails` to `FailToWrite`, `CrashOnUser` to `Break`,
`ReturnFromPrinter` to `Return`, and every other action to a stutter.

### State and actions of `Pipeline`

`phase` says which of the parts runs and `status` how the process ended. `Accept`
and `Reject` are the outcomes of `parseIRFile` and `verifyModule`; `Analyze`,
`Solve` and `PrintGraphs` are steps of the three parts; `StartSolver` and
`StartPrinter` are the calls between them in `run`; `Succeed`, `Fail` and `Abort`
end it. `Fail` follows a write error and leaves the status `Reject` leaves,
"failure"; `Abort` follows `llvm_unreachable` or a null pointer.
One record `M` is read by all parts, and two more fields say what the program
the module was compiled from does, for the properties alone: the clauses that stop
an exception of each type, and the handlers that throw again.

## 3. Runs

| Run | Instance | States | Shows |
|---|---|---|---|
| `construction` | 3 functions, 4 call sites, 2 type infos, every combination of kinds of calls and landing pads in `MCInputs` | 198,406 | the safety properties of the construction |
| `refinement` | 3 functions, 3 call sites, users repeated once | 130,716 | termination, and that `Propagation` is implemented |
| `vcalls` | 3 globals, 3 calls, 3 class ids, words of 8 values | 1,148,625 | virtual calls and subclasses |
| `callees` | 3 functions, 3 calls, every metadata | 5,832 | the inversion |
| `printer` | 5 functions, 3 call sites, threshold 2, an empty or a used output directory | 84,416 | graphs one after another, files and reports |
| `reporting` | as `printer`, users repeated once, one order of the functions | 166,968 | that `Reporting` is implemented |
| `pipeline` | 5 functions, 4 call sites, 2 vtables, threshold 4 | 773,016 | the parts together, against what happens at run time |
| `nest_try_catch` | the module of `NestTryCatchTest.cpp`, any old nodes in the static map | 259 | the test's expectation, for every order of users |
| `pure_virtual` | the module of `PureVirtualTest.cpp` | 2,058 | the test's expectation, for every order of globals and calls |
| `sub_class` | the module of `SubClassTest.cpp` | 1,034 | the same |

Three functions are enough for `main`, a thrower and a function between, with
self and mutual recursion; four sites for a thrower plus two sites in one
function plus a call in `main`, so that one function can be left by a site that
does not catch while another of its sites catches. `RepeatedUses` is 0 in the
first run, where it would only multiply states, and 1 in the second. The stack
needs no bound: each visit pushes at most all users once.

In `vcalls` one vtable may be public, derive from the other (with one address
point or a second), be local or be defined elsewhere; the construction vtable has
types but another name; an offset of 7 is -1, so the wrap-around happens in every
module with that call; one of the classes may lack its type info, so the base or
the derived class of a relation may be null; the vtable of the derived class may have
an address point for an id without `_ZTS`.

In `printer` a throw has one or two tracked operands, so there are up to three
graphs, some above the threshold and some not; a call may be in the initializer
of globals; `ext` may be `nounwind`; a user may be an indirect call. Two old files have
a number the run uses and one it does not; the second, in `pipeline` both, is
incomplete from a write error of the earlier run. In `pipeline` each of the approximations
of section 6 occurs and is absent: hidden and public vtables, a type test for one
class, two or none, `!callees` that name a method or not, pads with a base, a
catch-all, a filter, on the throw site itself, an inaccessible base, a rethrow. So
does each way to break off: an id without `_ZTS`, a vtable without a definition, a
function that may throw and is passed to an indirect call, a failed write.

`CHECK_DEADLOCK FALSE` in all runs: the construction, the analysis, the solver,
the driver and the program return, and their models stop there.

**Fairness.** `WF` of the whole next-state relation, in `EHGraphDOTInfo`,
`EHGraphPrinter` and `Pipeline`: the program is sequential and no step waits, so
as long as it has a step it takes one. No choice is fair: which order, which
file fails to open. `Termination`, `EveryThrowReported`, `ProgramEnds` and the
liveness half of `ImplementsPropagation` use it, and so does that of
`ImplementsReporting`: `Reporting` names no fair action, it promises that its
outcome is not "running" for ever (`<>`), since how often a question is
repeated is left open.

## 4. Properties

`EHGraphDOTInfo`:

* `TypeOK`: types, and an empty stack outside the loop.
* `LoopInvariant`: stack and visited sites are together exactly what the
  exception escapes from so far (`EscapesKnown`); map, leafs (`EntriesExact`)
  and flag (`FlagExact`) say what the visited sites stand for.
* `GraphIsExact`: the finished map is the graph of the least closed set.
* `LeakReportsAgree`: `Leaked`, the `LEAK` node and a way out of `main` are one.
* `EveryNodePrinted`: no edge to a function without a node.
* `RootedAtThrower`: every node is reached from the throwing function, so
  nothing of an earlier graph is left.
* `CatchIsBarrier`: only a site that does not catch lets the exception out of a
  function it was not thrown in.
* `ReferenceStaysValid`: an iteration inserts no key but the one `Childs` refers to.
* `Termination`, `ImplementsPropagation`.

`VCallCandidates`:

* `CallsResolved`: a function that can run at a tested virtual call, on an object
  of a hidden class, has that call among its callers.
* `OnlyRealCallers`: at any time, a recorded caller is a tested virtual call
  that runs the function on some object.
* `SubclassesExact`: two classes are related exactly if a hidden vtable says so.
* `CrashHasReason`: the analysis breaks off only at a hidden vtable with an id
  without `_ZTS` (`Misnamed`), or at a call of a class one of whose hidden vtables
  has no definition (`MeetsOpaque`).

`AnalyzerTypeOK` and `SolverTypeOK` say that the analyses keep to their types.

`ICallSolver`: `CallSitesInverse`, and `KnownMeansCalled`, on which the
construction's `else if` relies.

`EHGraphPrinter`:

* `ReportsExact`: a report has the size, verdict and threshold decision of its
  own exception, however many graphs came before.
* `FilesExact`: between two graphs the directory is determined by the reports
  and what was there before: numbers without gaps, an empty file for a graph too
  large, an old file where none could be opened.
* `ReportsComplete`: when the driver returns, each use of a tracked function was
  reported, once, or twice for a throw that names two.
* `EveryThrowReported`: it does return, if no tracked function is passed to an
  indirect call (`PassedOn`), unless a write fails; then the last file is
  incomplete and the others are as they should be (`Truncated`).
* `ImplementsReporting`: all of the above in one statement, about the whole
  behaviour. Reports and files are those of the abstract answers at every step, not
  only between two graphs, and nothing later changes them.

`Pipeline`:

* `CallersComplete`: a call that may run a function is among its callers when a
  graph is begun, as far as the analyses claim to know (`Claimed`).
* `NoPathMissed`: every function an exception may unwind is in the graph, as
  long as it meets no unresolved call and no doubtful landing pad (`Doubtful`).
* `ExactWhenCertain`: where nothing is uncertain (`Certain`) the graph is the truth.
* `StatusReliable`: success means all was reported and each file that was opened
  holds what it should; failure that the input was rejected and nothing was
  touched, or that a write failed (`Truncated`). The status does not tell which.
* `AbortExplained`: the process aborts only because of a hidden vtable with an
  id without `_ZTS`, of one without a definition that some call can meet, or, when
  the analyses have succeeded, of a function passed to an indirect call.
* `ProgramEnds`.

`NotPropagated`, `ImplementationsCalled` and `DerivedFromA` are what the unit
tests expect.

Operators named *mutant* in a comment are deliberate faults: a mutation run puts
one in place of the definition that follows it and expects its property to fail.

## 5. Proofs

Proved for any functions, any finite set of call sites, any module, any results
and any orders, from the assumptions named in the modules (types of the inputs,
`LEAK` is not a function of the module, finitely many call sites and globals,
class ids without `_ZTS` are class ids,
special clauses, ids and "no exception" distinct from the others):

| Module | Proved | Left to TLC |
|---|---|---|
| `EHGraphDOTInfo` | all but the next column, and the safety half of the refinement | `Termination`, the fairness of `Propagation` |
| `VCallCandidates` | all, for every word size | |
| `ICallSolver` | all | |
| `EHGraphPrinter` | all but the next column, the safety half of `EveryThrowReported` (`CrashExplained`) and of the refinement | `EveryThrowReported`, that `Reporting` ends |
| `Pipeline` | all but the next column | `ProgramEnds` |
| Unit tests | all | |

**Construction.** `GraphIsExact` is not inductive: half way through, the map is the
graph of nothing in particular. `LoopInvariant` says what it is:
`Escapes(problem, Visited)`, the sites the exception escapes from *given* the
visited ones, lies between the stack and the stack plus the visited sites, and
visited sites are in every closed set. When the stack is empty, the visited
sites are closed and least, so they are `Escaping(problem)`
(`VisitedIsEscaping`), and the other theorems are facts about `GraphOf` of that
set. `SafetyRefinement` shows that the construction refines `Propagation` step by step.

**Analyzer.** Three facts accumulate, one per map: what is registered is what the
visited vtables declare, what is related is what they relate, and what is
resolved is what the visited calls can run; the first two hold as long as
the analysis has not broken off, which can happen in the middle of a vtable.
Between code and meaning lies
arithmetic: the code adds words and drops the overflow, the meaning is a signed
offset from the address point; `WrapAround` shows that they agree for every
`Modulus`, because an object is smaller than half the address space.

**Solver.** `CallSitesInverse` follows from its form for the calls visited so
far (`OnlyVisited`).

**Driver.** `DriverInvariant` carries the construction's own invariant through
its steps (`TypeStep`, `LoopStep`), starts it afresh for each graph
(`BeginGraphStep`: whatever the static map holds) and fixes the file at hand as the one after the last
report. With `FinishedGraph`, each report is exact when it is made, and stays so
since the module does not change. For the files, `FilesSoFar` extends `FilesExact`
to the time a graph is being built, when its file is there and empty.

For `ReportsComplete` the loops are followed: `DriverPosition` says that the
functions to come are the last ones of the module's list and that the users to come are
users of the function before them, `Accounted` that each use of a function that may
throw is reported or `Remaining`. That the function at hand is not among those
to come rests on the list naming each function once, which `AsLongAsItsElements`
derives from its length; the same lemma shows that a use list without repeats has none in
any order, so the number of reports and the number of remaining uses add up.

`ReportingRefinement` maps each action as section 2 says. What it needs is
`FinishedGraph` again, for the answer (`RightAnswer`), and `Accounted`, for `Return`:
nothing has been forgotten. `EachGraphPropagates` is the refinement of `Propagation` for
a driver that constructs many graphs: each starts in an initial state of
`Propagation`, whatever the static map holds, and takes only steps of it.

**Program.** `PipelineInvariant` puts the components' invariants together. A step
of the program is, to each component, one of its own, its start, or nothing
(`ComponentSteps`), so the lemmas about their steps carry over;
`PhaseInvariant` adds what a phase finds and leaves. The properties follow in
three steps. What the analyses left is complete and correct
(`AnalysesFinished`, from `CallsResolved`, `OnlyRealCallers`, `SubclassesExact`
and `OnlyVisited`). So each caller that is claimed is found (`CallerFound`) and
each landing pad taken to catch does or is in doubt (`CatchTaken`): the
constructed problem `Extends` the foreseeable part of what happens, and
a problem that extends another has the larger graph (`GraphMonotone`, from
`Escaping` being least). Where nothing is uncertain the converse holds too
(`CallerReal`, `CatchReal`), and the graphs are equal (`GraphEqual`).

How the process ends follows from the invariant alone, of which `CrashHasReason`
and `CrashExplained` are parts, and from what `PhaseInvariant` says of a
status: a process that aborted did so in a crashed analysis or, after one that
succeeded, in a crashed driver (`AbortExplained`); one that failed has printed
nothing or has a driver that failed (`StatusReliable`). `CrashExplained` gives the
reasons: a crashed driver has met a function passed on, a failed one
has left `Truncated` files. `ProgramReports`
carries `ReportingRefinement` over to the program: its print phase begins in an initial
state of `Reporting`, for the questions the analyses have left, and takes only
steps of it.

**Unit tests.** The expectations are consequences of theorems about every module:
`NotPropagated` of `GraphIsExact`, because the least closed set is the throw site
alone, the invoke above it being caught; `ImplementationsCalled` of `CallsResolved` (both
implementations) and `OnlyRealCallers` (nothing else); `DerivedFromA` of
the analyzer's invariant, once all vtables are visited. Each theorem assumes that
the constants describe the test's module (`NestTryCatchSetup`,
`PureVirtualSetup`, `SubClassSetup`), as the configurations of the runs do, but not what
these have to fix: the static map may hold anything, a use list may repeat
users, and a word may have any width in which a vtable of three slots is
smaller than half the address space (`Modulus > 4`), 64 bits included.

`M` is any member of `Modules`, of which `ProgramAssumption` asks, besides types,
that a call with a called function is no indirect call and is among the users of
that function, that no call is in a function without a body, and that a clause
`catch (...)` or of the very type stops the exception.

**Left to TLC.** Liveness and `ENABLED` are out of reach of the prover, so
`Termination`, `EveryThrowReported`, `ProgramEnds` and the last conjunct of
`Propagation` and `Reporting` are model-checked. What is proved is what they rest on. Each
step of the construction leaves less to do in an order of triples of naturals
(`ConstructionAdvances`: parts to come, sites not visited, length of the stack);
each step of the driver less in its loops or in the construction at hand
(`DriverAdvances`); each step of the program leaves a phase behind, or less to do in
the loops of the phase it is in (`ProgramAdvances`, which needs finitely many
globals). No step waits for an order of users that does not exist (`OrdersExist`),
and a driver or a process that breaks off has a reason (`CrashExplainedHolds`,
`AbortExplainedHolds`).

## 6. What the program does not promise

The construction is exact for the callers and catches it asks for. Whether these
are what happens at run time is a different question, and the properties of
`Pipeline` name each place where the code approximates. `Claimed` and `Doubtful`
exempt these ways to miss a path, and dropping any of them makes
`CallersComplete` or `NoPathMissed` fail:

* a landing pad that *may* catch an external exception is taken to catch it
  (`EHGraphPrinter.cpp:41-50`);
* a base class in a clause is taken to catch although it may be private or
  ambiguous (`EHGraphPrinter.cpp:34`);
* what a handler throws again is not followed: `__cxa_rethrow` is skipped
  (`EHGraphPrinter.cpp:212`), though not `std::rethrow_exception`, which is tracked
  as any declared function that may throw;
* virtual callers of a function that is also named in some `!callees` are not
  asked for (`EHGraphPrinter.cpp:97-100`), and those of `__cxa_pure_virtual` are
  not recorded (`IndirectCallAnalysis.cpp:123`);
* classes with local ids or public visibility are unknown to the analyzer
  (`IndirectCallAnalysis.cpp:25, 42, 108`), and a call without a type test is not
  resolved.

`Certain` exempts the ways to show too much:

* the throw site's own landing pad is not looked at (`EHGraphPrinter.cpp:63`), so
  a throw caught in its own function is reported as leaving it;
* a user that only names a function counts as a call of it;
* of several type tests only the first is looked at;
* a base whose relation no hidden vtable shows does not stop the exception.

These are no promises either: virtual calls of declared functions have no throw site
(`EHGraphPrinter.cpp:225`, `IndirectCallAnalysis.cpp:123`), and success does not mean
that each file could be opened, nor exit status 1 that nothing was touched, since
a write error ends the process with it, too (`StatusReliable`). A class id without
`_ZTS` ends the process or, in a build without assertions, has no meaning
(`IndirectCallAnalysis.cpp:49-50`).

**Not modelled.** `getDemangledName`, the spelling of labels, names and colors
(formatting without state); option parsing; LLVM's reader, verifier and graph
writer, which appear as outcomes; the vendored googletest and the `main` it brings.

## 7. State of the development

Every part of the program that keeps state is modelled. Each safety property a
run checks is proved, and the safety half of each liveness property and of both
refinements. What a prover with induction over well-founded orders and
`ENABLED` could add is the step from the `...Advances` theorems to
`Termination`, `EveryThrowReported` and `ProgramEnds`, and with it the last conjunct of
`Propagation` and `Reporting`. When the code changes, the places to
look at first are those of section 6: each exemption of `Claimed`, `Doubtful` and
`Certain` stands for an approximation that a better analysis would remove.
